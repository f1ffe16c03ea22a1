------------------------- MODULE BreakpointsProofs -------------------------
(***************************************************************************)
(* Theorems about module Breakpoints, for every value of its constants:    *)
(* any files, classes and executable lines, any setBreakpoints requests,   *)
(* whatever the two tasks, the JVM and the session do to each other.       *)
(*                                                                         *)
(* The argument is about claims.  Whoever holds installs - an entry, or a  *)
(* task that has not written them back yet - claims the requests in them   *)
(* for a breakpoint.  No request is claimed for two breakpoints, so that   *)
(* replacing the breakpoints of one file never clears a request of another.*)
(***************************************************************************)
EXTENDS Breakpoints, SequenceTheorems, WellFoundedInduction, TLAPS

-----------------------------------------------------------------------------
(* The invariants.                                                         *)

\* Where the tasks may be, and what they hold there.
MainPhases ==
    /\ main.pc = "idle" => main = MainIdle
    /\ main.pc # "clear" => main.old = {}
    /\ main.pc = "install" => main.todo # <<>> /\ main.found \subseteq ClassesOf(main.file)
    /\ main.pc \in {"store", "respond"} => main.todo = <<>>

LoopPhases ==
    /\ loop.pc \in {"select", "ended"} => loop = [LoopIdle EXCEPT !.pc = loop.pc]
    /\ loop.pc \notin {"select", "ended"} => loop.class \in Classes /\ prepared = NoClass
    /\ loop.pc # "deferred" => loop.pending = {}
    /\ loop.pc \notin {"deferred", "extend"} => loop.extend = {}
    /\ loop.pc = "ended" => jvm = "gone"

JvmPhases ==
    /\ jvm = "none" =>
           /\ ~session /\ main = MainIdle /\ loop = LoopIdle
           /\ loaded = {} /\ prepared = NoClass /\ live = {} /\ shown = {}
    /\ jvm \in {"stopped", "running"} => prepared = NoClass /\ loop.pc = "select"

\* The installs of the entry the main task is at.
InHand == IF main.pc = "install"
          THEN {[id |-> Head(main.todo).id, line |-> Head(main.todo).line,
                 classes |-> main.classes]}
          ELSE {}

Gathered == main.results \cup InHand            \* by the main task
Prepared == loop.deferred \cup loop.extended    \* by the event loop

\* What is installed is installed on a line of a class of the right file.
Placed ==
    /\ \A r \in Gathered : \A i \in r.classes :
           SourceOf[i.class] = main.file /\ Window(i.class, r.line) # {}
    /\ \A r \in Prepared :
           /\ r.classes # {}
           /\ \A i \in r.classes : i.class = loop.class /\ Window(i.class, r.line) # {}

TypeInv == TypeOK /\ MainPhases /\ LoopPhases /\ JvmPhases /\ Placed

\* What the event loop is at, by the id of the breakpoint.
Sought == loop.pending \cup loop.extend \cup Prepared

\* An id stands for one breakpoint, which is at one line of one file; it is
\* rejected only if no class was compiled from the file.
Ids ==
    session =>
      /\ \A e, f \in breakpoints : e.id = f.id => e = f
      /\ \A r, q \in main.results : r.id = q.id => r = q
      /\ \A j, k \in DOMAIN main.todo : main.todo[j].id = main.todo[k].id => j = k
      /\ \A j \in DOMAIN main.todo : \A r \in main.results : r.id # main.todo[j].id
      /\ \A j \in DOMAIN main.todo : main.todo[j].id < nextBpId
      /\ \A r \in main.results : r.id < nextBpId
      /\ \A w \in Sought : w.id < nextBpId
      /\ \A e \in breakpoints : \A j \in DOMAIN main.todo :
             e.id = main.todo[j].id => e.line = main.todo[j].line /\ e.file = main.file
      /\ \A e \in breakpoints : \A r \in main.results :
             e.id = r.id => e.line = r.line /\ e.file = main.file
      /\ \A e \in breakpoints : \A w \in Sought :
             e.id = w.id => e.line = w.line /\ e.file = SourceOf[loop.class]
      /\ \A e \in breakpoints : e.state = "Rejected" => ClassesOf(e.file) = {}

\* Everything that holds installs, by the id of the breakpoint.
Holders == breakpoints \cup Gathered \cup Prepared

\* Install i is what entry e may show as verified.
Good(e, i) ==
    /\ SourceOf[i.class] = e.file
    /\ Window(i.class, e.line) # {}
    /\ [id |-> i.request, class |-> i.class, line |-> Nearest(i.class, e.line)] \in live

Claims ==
    session /\ Alive =>
      /\ \A n \in main.old : n <= lastRequest
      /\ \A h \in Holders : \A i \in h.classes : i.request <= lastRequest
      /\ \A h, k \in Holders : \A i \in h.classes, j \in k.classes :
             i.request = j.request => h.id = k.id
      /\ \A e \in breakpoints, h \in Holders : \A i \in h.classes :
             e.id = h.id => Good(e, i) /\ i.request \notin main.old

\* Request r serves entry e, and nobody will clear it for another's sake.
Serves(r, e) ==
    /\ r.id \notin main.old
    /\ \A h \in Holders : \A i \in h.classes : i.request = r.id => h.id = e.id

Served(e, c) == \E r \in live : /\ r.class = c /\ r.line = Nearest(c, e.line)
                                /\ Serves(r, e)

\* The main task, or the event loop, has yet to install e on class c.
MainWill(e, c) == \E j \in DOMAIN main.todo :
                      /\ main.todo[j].id = e.id
                      /\ main.pc = "install" /\ j = 1 => c \in main.found
LoopWill(e, c) == \/ prepared = c
                  \/ /\ loop.class = c
                     /\ \E w \in loop.pending \cup loop.extend : w.id = e.id

Coverage ==
    session /\ Alive => \A e \in breakpoints, c \in loaded :
        SourceOf[c] = e.file /\ Window(c, e.line) # {} =>
            Served(e, c) \/ MainWill(e, c) \/ LoopWill(e, c)

\* A careful editor's tasks do not overlap.
Apart ==
    careful /\ main.pc # "idle" => jvm \in {"stopped", "gone"}

\* The breakpoints the main task is at are those of its file, and untouched.
OwnEntries ==
    careful /\ session /\ Alive /\ main.pc # "idle" =>
      /\ \A e \in breakpoints : e.file = main.file =>
             \/ \E j \in DOMAIN main.todo : main.todo[j].id = e.id
             \/ \E r \in main.results : r.id = e.id
      /\ \A j \in DOMAIN main.todo : \E e \in breakpoints : main.todo[j].id = e.id
      /\ \A r \in main.results : \E e \in breakpoints : e.id = r.id
      /\ main.pc # "respond" =>
             \A e \in breakpoints : e.file = main.file => e.state = "Pending"
      /\ main.pc = "respond" =>
             \A e \in breakpoints, r \in main.results : e.id = r.id =>
                 e.classes = r.classes /\ e.state = FinalState(main.file, r.classes)

\* What the event loop is at is still as it found it.
AsFound ==
    careful /\ session /\ Alive =>
      /\ loop.pc \in {"deferred", "extend", "update"} =>
           /\ \A w \in loop.pending \cup loop.deferred : \E e \in breakpoints :
                  e.id = w.id /\ e.state = "Pending"
           /\ \A w \in loop.extend \cup loop.extended : \E e \in breakpoints :
                  e.id = w.id /\ e.state = "Installed"
      /\ loop.pc = "notify" =>
           \A r \in loop.deferred : \E e \in breakpoints :
               e.id = r.id /\ e.state = "Installed" /\ r.classes \subseteq e.classes

Request(n, hs) == \E h \in hs : \E i \in h.classes : i.request = n

\* Every request in the JVM is an entry's, or about to be cleared or recorded.
Recorded ==
    careful /\ session /\ Alive => \A r \in live :
      \/ Request(r.id, breakpoints)
      \/ r.id \in main.old
      \/ main.pc # "respond" /\ Request(r.id, Gathered)
      \/ loop.pc \in {"deferred", "extend", "update"} /\ Request(r.id, Prepared)

CarefulInv == Apart /\ OwnEntries /\ AsFound /\ Recorded

\* Breakpoint s as the editor shows it and entry e tell the same.
Same(s, e) ==
    /\ s.id = e.id /\ s.file = e.file
    /\ s.verified => \E i \in e.classes : s.line = Nearest(i.class, e.line)
    /\ \/ s.verified <=> e.state = "Installed"
       \/ loop.pc = "notify" /\ \E r \in loop.deferred : r.id = e.id

\* But for the file the main task is at, the editor shows the entries.
Mirrored ==
    careful /\ session /\ Alive =>
      /\ \A e \in breakpoints : main.pc = "idle" \/ e.file # main.file =>
             \E s \in shown : Same(s, e)
      /\ \A s \in shown : main.pc = "idle" \/ s.file # main.file =>
             \E e \in breakpoints : Same(s, e)

-----------------------------------------------------------------------------
(* Lines.                                                                  *)

\* A set of numbers that is not empty has a least one.
LEMMA LeastNat ==
    ASSUME NEW T, T \subseteq Nat, T # {}
    PROVE  \E x \in T : \A y \in T : x <= y
<1>1. IsWellFoundedOn(OpToRel(<, Nat), Nat)
  BY NatLessThanWellFounded
<1>2. PICK x \in T : \A y \in T : ~(<<y, x>> \in OpToRel(<, Nat))
  BY <1>1, WFMin
<1>3. ASSUME NEW y \in T PROVE x <= y
  <2>1. x \in Nat /\ y \in Nat
    OBVIOUS
  <2>2. ~(y < x)
    BY <1>2, <2>1 DEF OpToRel
  <2> QED
    BY <2>1, <2>2
<1> QED
  BY <1>3

\* The nearest line of a class is one of its lines.
LEMMA NearestType ==
    ASSUME NEW c \in Classes, NEW line \in Nat, Window(c, line) # {}
    PROVE  Nearest(c, line) \in Window(c, line) /\ Nearest(c, line) \in Nat
<1>1. Window(c, line) \subseteq Nat
  BY LinesOfAssumption DEF Window
<1>2. \E l \in Window(c, line) : \A m \in Window(c, line) : l <= m
  BY <1>1, LeastNat
<1> QED
  BY <1>1, <1>2 DEF Nearest

\* The line shown for a result is the nearest line of one of its installs.
LEMMA InstalledLineType ==
    ASSUME NEW r, r.line \in Nat, r.classes \in SUBSET Install, r.classes # {},
           \A i \in r.classes : Window(i.class, r.line) # {}
    PROVE  /\ InstalledLine(r) \in Nat
           /\ \E i \in r.classes : InstalledLine(r) = Nearest(i.class, r.line)
<1> DEFINE lines == {Nearest(i.class, r.line) : i \in r.classes}
<1>1. lines \subseteq Nat /\ lines # {}
  BY NearestType DEF Install
<1>2. \E l \in lines : \A m \in lines : l <= m
  BY <1>1, LeastNat
<1>3. InstalledLine(r) \in lines
  BY <1>2 DEF InstalledLine
<1> QED
  BY <1>1, <1>3

-----------------------------------------------------------------------------
(* Type correctness.                                                       *)

\* What the JVM grants is a request, and its install is on a line.
LEMMA GrantType ==
    ASSUME TypeOK, NEW c \in Classes, NEW line \in Nat
    PROVE  /\ Grant(c, line) =>
                 /\ live' \subseteq JvmRequest /\ lastRequest' \in Nat
                 /\ \A r \in live' : r.id <= lastRequest'
                 /\ jvm = "gone" => live' = {}
                 /\ ~Alive => live' = live
           /\ Granted(c, line) \subseteq Install
           /\ \A i \in Granted(c, line) :
                 i.class = c /\ i.request = lastRequest + 1 /\ Window(c, line) # {}
<1>1. CASE Installs(c, line)
  <2>1. Nearest(c, line) \in Nat /\ Window(c, line) # {} /\ Alive
    BY <1>1, NearestType DEF Installs
  <2>2. lastRequest + 1 \in Nat /\ jvm # "gone"
    BY <2>1 DEF TypeOK, Alive
  <2>3. [id |-> lastRequest + 1, class |-> c, line |-> Nearest(c, line)]
            \in JvmRequest
    BY <2>1, <2>2 DEF JvmRequest
  <2>4. Granted(c, line) = {[class |-> c, request |-> lastRequest + 1]}
    BY <1>1 DEF Granted
  <2>5. ASSUME Grant(c, line)
        PROVE  /\ live' \subseteq JvmRequest /\ lastRequest' \in Nat
               /\ \A r \in live' : r.id <= lastRequest'
    <3>1. /\ lastRequest' = lastRequest + 1
          /\ live' = live \cup {[id |-> lastRequest + 1, class |-> c,
                                 line |-> Nearest(c, line)]}
      BY <1>1, <2>5 DEF Grant
    <3>2. \A r \in live : r.id \in Nat /\ r.id <= lastRequest
      BY DEF TypeOK, JvmRequest
    <3>3. ASSUME NEW r \in live' PROVE r.id <= lastRequest'
      <4>1. CASE r \in live
        BY <2>2, <3>1, <3>2, <4>1 DEF TypeOK
      <4>2. CASE r \notin live
        BY <2>2, <3>1, <4>2
      <4> QED
        BY <4>1, <4>2
    <3> QED
      BY <2>2, <2>3, <3>1, <3>3 DEF TypeOK
  <2> QED
    BY <2>1, <2>2, <2>4, <2>5 DEF Install
<1>2. CASE ~Installs(c, line)
  BY <1>2 DEF Grant, Granted, requestVars, TypeOK
<1> QED
  BY <1>1, <1>2

\* What the tasks hold changes only with them.
LEMMA SameHeld ==
    /\ main' = main => InHand' = InHand /\ Gathered' = Gathered
    /\ loop' = loop => Prepared' = Prepared
BY DEF InHand, Gathered, Prepared

LEMMA TypeOthers ==
    ASSUME TypeInv,
           \/ \E c \in Classes : JvmLoads(c)
           \/ JvmStops \/ JvmDies \/ Launch \/ Disconnect \/ UserResumes
           \/ \E f \in Files : SetWithoutSession(f)
    PROVE  TypeInv'
<1>1. main' = main /\ loop' = loop /\ careful' = careful
  BY DEF JvmLoads, JvmStops, JvmDies, Launch, Disconnect, UserResumes,
         SetWithoutSession, editorVars
<1>2. MainPhases' /\ Placed'
  BY <1>1, SameHeld DEF TypeInv, MainPhases, Placed
<1>3. TypeOK'
  <2> USE DEF TypeInv, TypeOK, jvmVars, requestVars, sessionVars, editorVars
  <2>1. CASE \E c \in Classes : JvmLoads(c)
    BY <2>1 DEF JvmLoads
  <2>2. CASE JvmStops \/ UserResumes
    BY <2>2 DEF JvmStops, UserResumes
  <2>3. CASE JvmDies
    BY <2>3 DEF JvmDies, JvmGone, Alive
  <2>4. CASE Launch
    BY <2>4 DEF Launch
  <2>5. CASE Disconnect
    <3>1. /\ UNCHANGED <<jvm, loaded, prepared, live, lastRequest, main, loop,
                         shown, careful, edits>>
          /\ session' = FALSE /\ breakpoints' = {} /\ nextBpId' = 1
      BY <2>5 DEF Disconnect, NoSession
    <3>2. /\ breakpoints' \subseteq Entry
          /\ breakpoints' # {} => session'
          /\ nextBpId' \in Nat \ {0}
          /\ \A e \in breakpoints' :
                e.id < nextBpId' /\ (e.state = "Installed" <=> e.classes # {})
      BY <3>1
    <3> QED
      BY <3>1, <3>2
  <2>6. ASSUME NEW f \in Files, SetWithoutSession(f) PROVE TypeOK'
    <3>1. edits' \in 0 .. MaxEdits[careful]
      BY <2>6, EditAssumption DEF SetWithoutSession, Asked
    <3> QED
      BY <2>6, <3>1 DEF SetWithoutSession
  <2> QED
    BY <2>1, <2>2, <2>3, <2>4, <2>5, <2>6
<1>4. LoopPhases' /\ JvmPhases'
  <2> USE DEF TypeInv, LoopPhases, JvmPhases, Alive
  <2>1. CASE \E c \in Classes : JvmLoads(c)
    BY <1>1, <2>1 DEF JvmLoads, LoopIdle
  <2>2. CASE JvmStops \/ UserResumes
    BY <1>1, <2>2 DEF JvmStops, UserResumes
  <2>3. CASE JvmDies
    BY <1>1, <2>3 DEF JvmDies, JvmGone
  <2>4. CASE Launch
    BY <1>1, <2>4 DEF Launch, LoopIdle
  <2>5. CASE Disconnect
    BY <1>1, <2>5 DEF Disconnect, NoSession, jvmVars, requestVars, editorVars,
                      TypeOK
  <2>6. ASSUME NEW f \in Files, SetWithoutSession(f)
        PROVE  LoopPhases' /\ JvmPhases'
    BY <1>1, <2>6 DEF SetWithoutSession, jvmVars, requestVars, sessionVars
  <2> QED
    BY <2>1, <2>2, <2>3, <2>4, <2>5, <2>6
<1> QED
  BY <1>2, <1>3, <1>4 DEF TypeInv

\* Writing back keeps an entry an entry, with its id, file and line.
LEMMA StoredType ==
    ASSUME TypeInv, NEW e \in breakpoints
    PROVE  /\ Stored(e) \in Entry
           /\ Stored(e).id = e.id /\ Stored(e).file = e.file /\ Stored(e).line = e.line
           /\ Stored(e).state = "Installed" <=> Stored(e).classes # {}
<1> DEFINE own == {r \in main.results : r.id = e.id}
           is  == UNION {r.classes : r \in own}
<1>1. e \in Entry /\ (e.state = "Installed" <=> e.classes # {})
  BY DEF TypeInv, TypeOK
<1>2. \A r \in own : r.classes \subseteq Install
  BY DEF TypeInv, TypeOK, MainState, Result
<1>3. is \subseteq Install
  BY <1>2
<1>4. \A i \in is : i.class \in ClassesOf(main.file)
  BY <1>3 DEF TypeInv, Placed, Gathered, ClassesOf, Install
<1>5. FinalState(main.file, is) \in {"Pending", "Installed", "Rejected"}
  BY DEF FinalState
<1>6. FinalState(main.file, is) = "Installed" <=> is # {}
  BY <1>4 DEF FinalState
<1>7. CASE own = {}
  BY <1>1, <1>7 DEF Stored
<1>8. CASE own # {}
  <2>1. Stored(e) = [e EXCEPT !.state = FinalState(main.file, is), !.classes = is]
    BY <1>8 DEF Stored
  <2> HIDE DEF is
  <2> QED
    BY <1>1, <1>3, <1>5, <1>6, <2>1 DEF Entry
<1> QED
  BY <1>7, <1>8

LEMMA UpdatedType ==
    ASSUME TypeInv, NEW e \in breakpoints
    PROVE  /\ Updated(e) \in Entry
           /\ Updated(e).id = e.id /\ Updated(e).file = e.file
           /\ Updated(e).line = e.line
           /\ Updated(e).state = "Installed" <=> Updated(e).classes # {}
<1> DEFINE def == {r \in loop.deferred : r.id = e.id}
           ext == {r \in loop.extended : r.id = e.id}
           ds  == UNION {r.classes : r \in def}
           xs  == UNION {r.classes : r \in ext}
           d   == IF def = {} THEN e
                  ELSE [e EXCEPT !.state = "Installed", !.classes = ds]
<1>1. e \in Entry /\ (e.state = "Installed" <=> e.classes # {})
  BY DEF TypeInv, TypeOK
<1>2. \A r \in def \cup ext : r.classes \subseteq Install /\ r.classes # {}
  BY DEF TypeInv, TypeOK, LoopState, Result, Placed, Prepared
<1>3. ds \subseteq Install /\ xs \subseteq Install /\ (def # {} => ds # {})
  BY <1>2
<1>4. Updated(e) = IF d.state = "Installed" THEN [d EXCEPT !.classes = @ \cup xs]
                   ELSE d
  BY DEF Updated
<1> HIDE DEF ds, xs, def
<1>5. /\ d \in Entry /\ (d.state = "Installed" <=> d.classes # {})
      /\ d.id = e.id /\ d.file = e.file /\ d.line = e.line
  BY <1>1, <1>3 DEF Entry
<1> HIDE DEF d
<1> QED
  BY <1>3, <1>4, <1>5 DEF Entry

\* The entries of a setBreakpoints request.
LEMMA SetType ==
    ASSUME TypeInv, NEW file \in Files, NEW lines \in Requests,
           SetBreakpoints(file, lines)
    PROVE  TypeInv'
<1> DEFINE new == [i \in 1 .. Len(lines) |->
                     [id |-> nextBpId + i - 1, line |-> lines[i]]]
           added == {[id |-> new[i].id, file |-> file, line |-> new[i].line,
                      state |-> "Pending", classes |-> {}] : i \in DOMAIN new}
<1>1. Len(lines) \in Nat /\ \A i \in 1 .. Len(lines) : lines[i] \in Nat
  BY RequestsAssumption
<1>2. \A i \in 1 .. Len(lines) :
         new[i] \in Wanted /\ new[i].id < nextBpId + Len(lines)
  BY <1>1 DEF TypeInv, TypeOK, Wanted
<1>3. new \in Seq(Wanted)
  BY <1>1, <1>2
<1>4. added \subseteq Entry
      /\ \A e \in added : e.id < nextBpId + Len(lines) /\ e.classes = {}
                          /\ e.state = "Pending"
  <2>1. DOMAIN new = 1 .. Len(lines)
    OBVIOUS
  <2> HIDE DEF new
  <2>2. \A i \in DOMAIN new : new[i].id \in Nat /\ new[i].line \in Nat
            /\ new[i].id < nextBpId + Len(lines)
    BY <1>2, <2>1 DEF Wanted
  <2> QED
    BY <2>2 DEF Entry
<1>5. IdsOf(breakpoints \ OtherFiles(file)) \subseteq Nat
  BY DEF IdsOf, TypeInv, TypeOK, Entry, Install
<1>6. /\ Asked /\ session
      /\ breakpoints' = Retained(file) \cup added
      /\ nextBpId' = nextBpId + Len(lines)
      /\ main' = [MainIdle EXCEPT !.pc = "clear", !.file = file,
                                  !.old = IdsOf(breakpoints \ OtherFiles(file)),
                                  !.todo = new]
      /\ UNCHANGED <<jvm, loaded, prepared, live, lastRequest, session, loop,
                     shown, careful>>
  BY DEF SetBreakpoints, NextBpId, jvmVars, requestVars
<1> HIDE DEF new, added
<1>7. /\ main' \in MainState /\ main'.pc = "clear" /\ main'.results = {}
  BY <1>3, <1>5, <1>6 DEF MainIdle, MainState
<1>8. edits' \in 0 .. MaxEdits[careful]
  BY <1>6, EditAssumption DEF TypeInv, TypeOK, Asked
<1>9. /\ breakpoints' \subseteq Entry
      /\ nextBpId' \in Nat \ {0}
      /\ \A e \in breakpoints' :
            e.id < nextBpId' /\ (e.state = "Installed" <=> e.classes # {})
  BY <1>1, <1>4, <1>6
  DEF TypeInv, TypeOK, Retained, OtherFiles, Entry
<1>10. TypeOK'
  BY <1>6, <1>7, <1>8, <1>9 DEF TypeInv, TypeOK
<1>11. Gathered' = {} /\ Prepared' = Prepared
  BY <1>6, <1>7 DEF Gathered, InHand, Prepared
<1>12. MainPhases' /\ LoopPhases' /\ JvmPhases' /\ Placed'
  BY <1>6, <1>7, <1>11
  DEF TypeInv, TypeOK, MainPhases, LoopPhases, JvmPhases, Placed
<1> QED
  BY <1>10, <1>12 DEF TypeInv

LEMMA TypeMain ==
    ASSUME TypeInv,
           \/ ClearOld \/ ListLoaded \/ InstallOnLoaded \/ EntryInstalled
           \/ StoreStates \/ Respond
    PROVE  TypeInv'
<1>0. UNCHANGED <<jvm, loaded, prepared, session, nextBpId, loop, careful, edits>>
  BY DEF ClearOld, ListLoaded, InstallOnLoaded, EntryInstalled, StoreStates,
         Respond, jvmVars, sessionVars, editorVars
<1>p. Prepared' = Prepared
  BY <1>0 DEF Prepared
<1>b. main.pc # "idle" /\ jvm # "none"
  <2>1. main.pc # "idle"
    BY DEF ClearOld, ListLoaded, InstallOnLoaded, EntryInstalled, StoreStates,
           Respond
  <2> QED
    BY <2>1 DEF TypeInv, JvmPhases, MainIdle
<1>l. LoopPhases' /\ JvmPhases'
  BY <1>0, <1>b DEF TypeInv, LoopPhases, JvmPhases
<1>m. main \in MainState
  BY DEF TypeInv, TypeOK
<1>1. CASE ClearOld
  <2>1. UNCHANGED <<lastRequest, breakpoints, shown>>
    BY <1>1 DEF ClearOld, sessionVars, editorVars
  <2>2. /\ main' \in MainState /\ main'.pc \in {"clear", "list"}
        /\ main'.results = main.results /\ main'.file = main.file
        /\ main'.pc = "list" => main'.old = {}
    BY <1>1, <1>m DEF ClearOld, MainState
  <2>3. live' \subseteq live
    BY <1>1 DEF ClearOld
  <2>4. TypeOK'
    BY <1>0, <2>1, <2>2, <2>3 DEF TypeInv, TypeOK
  <2>5. Gathered' \subseteq Gathered
    BY <2>2 DEF Gathered, InHand
  <2> QED
    BY <1>0, <1>p, <1>l, <2>2, <2>4, <2>5 DEF TypeInv, MainPhases, Placed
<1>2. CASE ListLoaded
  <2>1. UNCHANGED <<live, lastRequest, breakpoints, shown>>
    BY <1>2 DEF ListLoaded, requestVars, sessionVars, editorVars
  <2>2. /\ main' \in MainState /\ main'.pc \in {"store", "install"}
        /\ main'.results = main.results /\ main'.file = main.file
        /\ main'.old = main.old /\ main'.todo = main.todo
        /\ main'.pc = "store" => main.todo = <<>>
        /\ main'.pc = "install" =>
              /\ main.todo # <<>> /\ main'.classes = {}
              /\ main'.found \subseteq ClassesOf(main.file)
    BY <1>2, <1>m DEF ListLoaded, MainState, TypeInv, TypeOK
  <2>3. TypeOK'
    BY <1>0, <2>1, <2>2 DEF TypeInv, TypeOK
  <2>4. \A r \in Gathered' : r \in Gathered \/ r.classes = {}
    BY <2>2 DEF Gathered, InHand
  <2>5. main.pc = "list"
    BY <1>2 DEF ListLoaded
  <2> QED
    BY <1>0, <1>p, <1>l, <2>2, <2>3, <2>4, <2>5 DEF TypeInv, MainPhases, Placed
<1>3. CASE InstallOnLoaded
  <2> DEFINE line == Head(main.todo).line
  <2>1. PICK c \in main.found :
           /\ Grant(c, line)
           /\ main' = [main EXCEPT !.found = @ \ {c},
                                   !.classes = @ \cup Granted(c, line)]
    BY <1>3 DEF InstallOnLoaded
  <2>2. main.pc = "install" /\ main.todo # <<>> /\ c \in ClassesOf(main.file)
    BY <1>3, <2>1 DEF InstallOnLoaded, TypeInv, MainPhases
  <2>3. line \in Nat /\ c \in Classes /\ SourceOf[c] = main.file
    <3>1. Head(main.todo) \in Wanted
      BY <1>m, <2>2, HeadTailProperties DEF MainState
    <3> QED
      BY <2>2, <3>1 DEF Wanted, ClassesOf
  <2>4. /\ live' \subseteq JvmRequest /\ lastRequest' \in Nat
        /\ \A r \in live' : r.id <= lastRequest'
        /\ jvm = "gone" => live' = {}
        /\ Granted(c, line) \subseteq Install
        /\ \A i \in Granted(c, line) : i.class = c /\ Window(c, line) # {}
    BY <2>1, <2>3, GrantType DEF TypeInv
  <2>5. UNCHANGED <<breakpoints, shown>>
    BY <1>3 DEF InstallOnLoaded, sessionVars, editorVars
  <2>6. /\ main' \in MainState /\ main'.pc = "install"
        /\ main'.results = main.results /\ main'.file = main.file
        /\ main'.old = main.old /\ main'.todo = main.todo
        /\ main'.found \subseteq main.found
        /\ main'.classes = main.classes \cup Granted(c, line)
    BY <1>m, <2>1, <2>2, <2>4 DEF MainState
  <2>7. TypeOK'
    BY <1>0, <2>4, <2>5, <2>6 DEF TypeInv, TypeOK
  <2>8. \A i \in main'.classes : SourceOf[i.class] = main.file /\ Window(i.class, line) # {}
    <3>1. \A i \in main.classes : SourceOf[i.class] = main.file /\ Window(i.class, line) # {}
      <4> DEFINE h == [id |-> Head(main.todo).id, line |-> line,
                       classes |-> main.classes]
      <4>1. h \in Gathered
        BY <2>2 DEF Gathered, InHand
      <4>2. \A i \in h.classes :
               SourceOf[i.class] = main.file /\ Window(i.class, h.line) # {}
        BY <4>1 DEF TypeInv, Placed
      <4> QED
        BY <4>2
    <3> QED
      BY <2>3, <2>4, <2>6, <3>1
  <2>9. \A r \in Gathered' : \A i \in r.classes :
            SourceOf[i.class] = main.file /\ Window(i.class, r.line) # {}
    BY <2>6, <2>8 DEF TypeInv, Placed, Gathered, InHand
  <2>10. Placed'
    BY <1>0, <1>p, <2>6, <2>9 DEF TypeInv, Placed
  <2>11. MainPhases'
    BY <2>2, <2>6 DEF TypeInv, MainPhases
  <2> QED
    BY <1>l, <2>7, <2>10, <2>11 DEF TypeInv
<1>4. CASE EntryInstalled
  <2>1. UNCHANGED <<live, lastRequest, breakpoints, shown>>
    BY <1>4 DEF EntryInstalled, requestVars, sessionVars, editorVars
  <2>2. main.pc = "install" /\ main.todo # <<>>
    BY <1>4 DEF EntryInstalled, TypeInv, MainPhases
  <2>3. Head(main.todo) \in Wanted /\ Tail(main.todo) \in Seq(Wanted)
    BY <1>m, <2>2, HeadTailProperties DEF MainState
  <2> DEFINE done == [id |-> Head(main.todo).id, line |-> Head(main.todo).line,
                      classes |-> main.classes]
  <2>4. done \in Result /\ InHand = {done}
    BY <1>m, <2>2, <2>3 DEF MainState, Wanted, Result, InHand
  <2>5. main' = [main EXCEPT !.pc = "list", !.todo = Tail(@),
                             !.results = @ \cup {done}]
    BY <1>4 DEF EntryInstalled
  <2> HIDE DEF done
  <2>6. /\ main' \in MainState /\ main'.pc = "list" /\ main'.old = main.old
        /\ main'.file = main.file /\ main'.results = main.results \cup {done}
    BY <1>m, <2>3, <2>4, <2>5 DEF MainState
  <2>7. TypeOK'
    BY <1>0, <2>1, <2>6 DEF TypeInv, TypeOK
  <2>8. Gathered' = Gathered
    BY <2>4, <2>6 DEF Gathered, InHand
  <2> QED
    BY <1>0, <1>p, <1>l, <2>2, <2>6, <2>7, <2>8 DEF TypeInv, MainPhases, Placed
<1>5. CASE StoreStates
  <2>1. UNCHANGED <<live, lastRequest, shown>>
        /\ breakpoints' = {Stored(e) : e \in breakpoints}
    BY <1>5 DEF StoreStates, requestVars, editorVars
  <2>2. /\ main' \in MainState /\ main'.pc = "respond" /\ main'.todo = main.todo
        /\ main.pc = "store" /\ main'.old = main.old /\ main'.file = main.file
        /\ main'.results = main.results
    BY <1>5, <1>m DEF StoreStates, MainState
  <2>3. TypeOK'
    BY <1>0, <2>1, <2>2, StoredType DEF TypeInv, TypeOK
  <2>4. Gathered' = Gathered
    BY <2>2 DEF Gathered, InHand
  <2> QED
    BY <1>0, <1>p, <1>l, <2>2, <2>3, <2>4 DEF TypeInv, MainPhases, Placed
<1>6. CASE Respond
  <2>1. UNCHANGED <<live, lastRequest, breakpoints>> /\ main' = MainIdle
    BY <1>6 DEF Respond, requestVars, sessionVars
  <2>2. \A r \in main.results : ShownLine(r) \in Nat
    <3> SUFFICES ASSUME NEW r \in main.results PROVE ShownLine(r) \in Nat
      OBVIOUS
    <3>1. r \in Result /\ \A i \in r.classes : Window(i.class, r.line) # {}
      BY <1>m DEF MainState, TypeInv, Placed, Gathered
    <3> QED
      BY <3>1, InstalledLineType DEF ShownLine, Result
  <2>3. shown' \subseteq Shown
    <3>1. \A r \in main.results :
             [id |-> r.id, file |-> main.file, line |-> ShownLine(r),
              verified |-> Verified(r.classes)] \in Shown
      BY <1>m, <2>2 DEF MainState, Result, Shown, Verified
    <3> QED
      BY <1>6, <3>1 DEF Respond, TypeInv, TypeOK
  <2>4. main' \in MainState
    BY <2>1, FilesAssumption DEF MainIdle, MainState
  <2>5. TypeOK'
    BY <1>0, <2>1, <2>3, <2>4 DEF TypeInv, TypeOK
  <2>6. Gathered' = {}
    BY <2>1 DEF Gathered, InHand, MainIdle
  <2>7. MainPhases'
    BY <2>1 DEF MainPhases, MainIdle
  <2> QED
    BY <1>0, <1>p, <1>l, <2>5, <2>6, <2>7 DEF TypeInv, Placed
<1> QED
  BY <1>1, <1>2, <1>3, <1>4, <1>5, <1>6

\* The result of an install by the event loop, if there is one.
LEMMA ResultOfType ==
    ASSUME TypeOK, NEW c \in Classes, NEW w \in Wanted
    PROVE  /\ ResultOf(w, c) \subseteq Result
           /\ \A r \in ResultOf(w, c) :
                 /\ r.id = w.id /\ r.line = w.line
                 /\ r.classes = Granted(c, w.line) /\ r.classes # {}
                 /\ \A i \in r.classes : i.class = c /\ Window(i.class, r.line) # {}
<1>1. w.id \in Nat /\ w.line \in Nat
  BY DEF Wanted
<1>2. Granted(c, w.line) \subseteq Install
      /\ \A i \in Granted(c, w.line) : i.class = c /\ Window(c, w.line) # {}
  BY <1>1, GrantType
<1>3. \A r \in ResultOf(w, c) :
         /\ r = [id |-> w.id, line |-> w.line, classes |-> Granted(c, w.line)]
         /\ Granted(c, w.line) # {}
  BY DEF ResultOf
<1> QED
  BY <1>1, <1>2, <1>3 DEF Result

LEMMA TypeLoop == ASSUME TypeInv, EventLoop PROVE TypeInv'
<1>0. UNCHANGED <<main, careful, edits>>
  BY DEF EventLoop, Collect, InstallDeferred, InstallExtend, Update, Notify,
         LoopResumes, LoopEnds, editorVars
<1>g. Gathered' = Gathered /\ MainPhases'
  BY <1>0, SameHeld DEF TypeInv, MainPhases
<1>l. loop \in LoopState
  BY DEF TypeInv, TypeOK
<1>b. loop.pc # "ended" /\ jvm # "none"
  <2>1. loop.pc # "ended" /\ (jvm = "none" => session \/ loop.pc # "select")
    BY DEF EventLoop, Collect, InstallDeferred, InstallExtend, Update, Notify,
           LoopResumes, LoopEnds
  <2> QED
    BY <2>1 DEF TypeInv, JvmPhases, LoopIdle
<1>1. CASE Collect
  <2>1. UNCHANGED <<jvm, loaded, live, lastRequest, session, breakpoints, nextBpId,
                    shown>>
        /\ prepared' = NoClass /\ prepared # NoClass /\ session
    BY <1>1 DEF Collect, requestVars, sessionVars, editorVars
  <2>2. \A es \in SUBSET breakpoints : WantedOf(es) \subseteq Wanted
    BY DEF TypeInv, TypeOK, Entry, WantedOf, Wanted
  <2>3. PICK pending \in SUBSET breakpoints, extend \in SUBSET breakpoints :
           loop' = [LoopIdle EXCEPT
                      !.pc = IF pending = {} /\ extend = {} THEN "resume"
                             ELSE "deferred",
                      !.class = prepared,
                      !.pending = WantedOf(pending),
                      !.extend = WantedOf(extend)]
    BY <1>1 DEF Collect
  <2>4. /\ loop' \in LoopState /\ loop'.pc \in {"resume", "deferred"}
        /\ loop'.class = prepared
        /\ loop'.deferred = {} /\ loop'.extended = {}
        /\ loop'.pc = "resume" => loop'.pending = {} /\ loop'.extend = {}
    BY <2>1, <2>2, <2>3
    DEF LoopIdle, LoopState, TypeInv, TypeOK, WantedOf
  <2>5. TypeOK'
    BY <1>0, <2>1, <2>4, ClassesAssumption DEF TypeInv, TypeOK
  <2>6. Prepared' = {}
    BY <2>4 DEF Prepared
  <2>7. prepared \in Classes /\ jvm \notin {"stopped", "running"}
    BY <2>1 DEF TypeInv, TypeOK, JvmPhases
  <2> QED
    BY <1>0, <1>b, <1>g, <2>1, <2>4, <2>5, <2>6, <2>7
    DEF TypeInv, LoopPhases, JvmPhases, Placed
<1>2. CASE InstallDeferred \/ InstallExtend
  <2>1. UNCHANGED <<jvm, loaded, prepared, session, breakpoints, nextBpId, shown>>
    BY <1>2 DEF InstallDeferred, InstallExtend, jvmVars, sessionVars, editorVars
  <2>2. loop.class \in Classes /\ prepared = NoClass
        /\ jvm \notin {"stopped", "running"}
    BY <1>2 DEF InstallDeferred, InstallExtend, TypeInv, LoopPhases, JvmPhases
  <2>3. /\ live' \subseteq JvmRequest /\ lastRequest' \in Nat
        /\ \A r \in live' : r.id <= lastRequest'
        /\ jvm = "gone" => live' = {}
    <3>1. CASE UNCHANGED requestVars
      BY <3>1 DEF requestVars, TypeInv, TypeOK
    <3>2. CASE \E w \in loop.pending \cup loop.extend : Grant(loop.class, w.line)
      BY <1>l, <2>2, <3>2, GrantType DEF TypeInv, LoopState, Wanted
    <3> QED
      BY <1>2, <3>1, <3>2 DEF InstallDeferred, InstallExtend
  <2>4. /\ loop' \in LoopState /\ loop'.class = loop.class
        /\ loop'.pc \in {"deferred", "extend", "update"}
        /\ loop'.pc # "deferred" => loop'.pending = {}
        /\ loop'.pc \notin {"deferred", "extend"} => loop'.extend = {}
        /\ \A r \in Prepared' : r \in Prepared \/
              (r.classes # {} /\ \A i \in r.classes :
                   i.class = loop.class /\ Window(i.class, r.line) # {})
    <3>1. CASE InstallDeferred /\ loop.pending = {}
      BY <1>l, <3>1 DEF InstallDeferred, LoopState, Prepared
    <3>2. CASE InstallExtend /\ loop.extend = {}
      BY <1>l, <3>2 DEF InstallExtend, LoopState, Prepared, TypeInv, LoopPhases
    <3>3. CASE InstallDeferred /\ loop.pending # {}
      <4>1. PICK w \in loop.pending :
               loop' = [loop EXCEPT !.pending = @ \ {w},
                                    !.deferred = @ \cup ResultOf(w, loop.class)]
        BY <3>3 DEF InstallDeferred
      <4>2. w \in Wanted /\ loop.pc = "deferred"
        BY <1>l, <3>3 DEF LoopState, InstallDeferred
      <4>3. /\ ResultOf(w, loop.class) \subseteq Result
            /\ \A r \in ResultOf(w, loop.class) : r.classes # {} /\ \A i \in r.classes :
                   i.class = loop.class /\ Window(i.class, r.line) # {}
        BY <2>2, <4>2, ResultOfType DEF TypeInv
      <4> QED
        BY <1>l, <4>1, <4>2, <4>3 DEF LoopState, Prepared
    <3>4. CASE InstallExtend /\ loop.extend # {}
      <4>1. PICK w \in loop.extend :
               loop' = [loop EXCEPT !.extend = @ \ {w},
                                    !.extended = @ \cup ResultOf(w, loop.class)]
        BY <3>4 DEF InstallExtend
      <4>2. w \in Wanted /\ loop.pc = "extend" /\ loop.pending = {}
        BY <1>l, <3>4 DEF LoopState, InstallExtend, TypeInv, LoopPhases
      <4>3. /\ ResultOf(w, loop.class) \subseteq Result
            /\ \A r \in ResultOf(w, loop.class) : r.classes # {} /\ \A i \in r.classes :
                   i.class = loop.class /\ Window(i.class, r.line) # {}
        BY <2>2, <4>2, ResultOfType DEF TypeInv
      <4> QED
        BY <1>l, <4>1, <4>2, <4>3 DEF LoopState, Prepared
    <3> QED
      BY <1>2, <3>1, <3>2, <3>3, <3>4
  <2>5. TypeOK'
    BY <1>0, <2>1, <2>3, <2>4 DEF TypeInv, TypeOK
  <2> QED
    BY <1>0, <1>b, <1>g, <2>1, <2>2, <2>4, <2>5
    DEF TypeInv, LoopPhases, JvmPhases, Placed
<1>3. CASE Update
  <2>1. /\ UNCHANGED <<jvm, loaded, prepared, live, lastRequest, session, nextBpId,
                       shown>>
        /\ breakpoints' = {Updated(e) : e \in breakpoints}
        /\ loop.pc = "update"
    BY <1>3 DEF Update, jvmVars, requestVars, editorVars
  <2>2. /\ loop' \in LoopState /\ loop'.pc = "notify" /\ loop'.class = loop.class
        /\ loop'.pending = loop.pending /\ loop'.extend = loop.extend
        /\ loop'.deferred = loop.deferred /\ loop'.extended = loop.extended
    BY <1>3, <1>l DEF Update, LoopState
  <2>3. TypeOK'
    BY <1>0, <2>1, <2>2, UpdatedType DEF TypeInv, TypeOK
  <2> QED
    BY <1>0, <1>b, <1>g, <2>1, <2>2, <2>3
    DEF TypeInv, LoopPhases, JvmPhases, Placed, Prepared
<1>4. CASE Notify
  <2>1. /\ UNCHANGED <<jvm, loaded, prepared, live, lastRequest, session,
                       breakpoints, nextBpId>>
        /\ shown' = {Notified(s) : s \in shown}
        /\ loop.pc = "notify"
    BY <1>4 DEF Notify, jvmVars, requestVars, sessionVars
  <2>2. /\ loop' \in LoopState /\ loop'.pc = "resume" /\ loop'.class = loop.class
        /\ loop'.pending = loop.pending /\ loop'.extend = loop.extend
        /\ loop'.deferred = loop.deferred /\ loop'.extended = loop.extended
    BY <1>4, <1>l DEF Notify, LoopState
  <2>3. ASSUME NEW s \in shown PROVE Notified(s) \in Shown
    <3> DEFINE own == {r \in loop.deferred : r.id = s.id}
               o == CHOOSE r \in own : TRUE
    <3>1. s \in Shown
      BY DEF TypeInv, TypeOK
    <3>2. CASE own = {}
      BY <3>1, <3>2 DEF Notified
    <3>3. CASE own # {}
      <4>1. o \in loop.deferred
        BY <3>3
      <4>2. o \in Result /\ o.classes # {}
            /\ \A i \in o.classes : Window(i.class, o.line) # {}
        BY <1>l, <4>1 DEF LoopState, TypeInv, Placed, Prepared
      <4>3. InstalledLine(o) \in Nat
        BY <4>2, InstalledLineType DEF Result
      <4>4. Notified(s) = [s EXCEPT !.verified = TRUE, !.line = InstalledLine(o)]
        BY <3>3 DEF Notified
      <4> QED
        BY <3>1, <4>3, <4>4 DEF Shown
    <3> QED
      BY <3>2, <3>3
  <2>4. TypeOK'
    BY <1>0, <2>1, <2>2, <2>3 DEF TypeInv, TypeOK
  <2> QED
    BY <1>0, <1>b, <1>g, <2>1, <2>2, <2>4
    DEF TypeInv, LoopPhases, JvmPhases, Placed, Prepared
<1>5. CASE LoopResumes
  <2>1. /\ UNCHANGED <<loaded, prepared, live, lastRequest, session, breakpoints,
                       nextBpId, shown>>
        /\ loop' = LoopIdle /\ loop.pc = "resume"
        /\ jvm' = IF Alive THEN "running" ELSE jvm
    BY <1>5 DEF LoopResumes, requestVars, sessionVars, editorVars
  <2>2. prepared = NoClass /\ jvm' \in {"running", "gone"}
        /\ (jvm' = "gone" => jvm = "gone")
    BY <1>b, <2>1 DEF TypeInv, TypeOK, LoopPhases, Alive
  <2>3. loop' \in LoopState /\ Prepared' = {} /\ loop'.pc = "select"
    BY <2>1 DEF LoopIdle, LoopState, Prepared
  <2>4. TypeOK'
    BY <1>0, <2>1, <2>2, <2>3 DEF TypeInv, TypeOK
  <2> QED
    BY <1>0, <1>b, <1>g, <2>1, <2>2, <2>3, <2>4
    DEF TypeInv, LoopPhases, JvmPhases, Placed, LoopIdle
<1>6. CASE LoopEnds
  <2>1. /\ jvm' = "gone" /\ loaded' = {} /\ live' = {} /\ lastRequest' = 0
        /\ session' = FALSE /\ breakpoints' = {} /\ nextBpId' = 1
        /\ loop' = [LoopIdle EXCEPT !.pc = "ended"] /\ prepared' = NoClass
        /\ shown' = shown
    BY <1>6 DEF LoopEnds, JvmGone, NoSession, editorVars
  <2>2. loop' \in LoopState /\ Prepared' = {} /\ loop'.pc = "ended"
    BY <2>1 DEF LoopIdle, LoopState, Prepared
  <2>3. /\ breakpoints' \subseteq Entry
        /\ \A e \in breakpoints' :
              e.id < nextBpId' /\ (e.state = "Installed" <=> e.classes # {})
        /\ \A r \in live' : r.id <= lastRequest'
        /\ live' \subseteq JvmRequest /\ loaded' \subseteq Classes
        /\ lastRequest' \in Nat /\ nextBpId' \in Nat \ {0}
    BY <2>1
  <2>4. TypeOK'
    BY <1>0, <2>1, <2>2, <2>3 DEF TypeInv, TypeOK
  <2> QED
    BY <1>0, <1>g, <2>1, <2>2, <2>4
    DEF TypeInv, LoopPhases, JvmPhases, Placed, LoopIdle
<1> QED
  BY <1>1, <1>2, <1>3, <1>4, <1>5, <1>6 DEF EventLoop

LEMMA SameTypes == TypeInv /\ UNCHANGED vars => TypeInv'
<1> SUFFICES ASSUME TypeInv, UNCHANGED vars PROVE TypeInv'
  OBVIOUS
<1>1. UNCHANGED <<jvm, loaded, prepared, live, lastRequest, session, breakpoints,
                  nextBpId, main, loop, shown, careful, edits>>
  BY DEF vars, jvmVars, requestVars, sessionVars, editorVars
<1>2. UNCHANGED <<Gathered, Prepared>>
  BY <1>1, SameHeld
<1> QED
  BY <1>1, <1>2
  DEF TypeInv, TypeOK, MainPhases, LoopPhases, JvmPhases, Placed

\* The strengthened type invariant.
LEMMA TypeInvariant == Spec => []TypeInv
<1>1. Init => TypeInv
  <2> SUFFICES ASSUME Init PROVE TypeInv
    OBVIOUS
  <2>1. main \in MainState /\ loop \in LoopState
    BY FilesAssumption DEF Init, MainIdle, LoopIdle, MainState, LoopState
  <2>2. TypeOK
    <3>1. /\ loaded \subseteq Classes /\ live \subseteq JvmRequest
          /\ breakpoints \subseteq Entry /\ shown \subseteq Shown
          /\ \A r \in live : r.id <= lastRequest
          /\ \A e \in breakpoints :
                e.id < nextBpId /\ (e.state = "Installed" <=> e.classes # {})
      BY DEF Init
    <3>2. careful \in BOOLEAN /\ edits \in 0 .. MaxEdits[careful]
      BY EditAssumption DEF Init
    <3>3. /\ jvm = "none" /\ session = FALSE /\ prepared = NoClass
          /\ lastRequest \in Nat /\ nextBpId \in Nat \ {0} /\ breakpoints = {}
      BY DEF Init
    <3> QED
      BY <2>1, <3>1, <3>2, <3>3 DEF TypeOK
  <2>3. Gathered = {} /\ Prepared = {}
    BY DEF Init, MainIdle, LoopIdle, Gathered, InHand, Prepared
  <2> QED
    BY <2>2, <2>3 DEF Init, TypeInv, MainPhases, LoopPhases, JvmPhases, Placed,
                      MainIdle, LoopIdle
<1>2. TypeInv /\ [Next]_vars => TypeInv'
  BY TypeOthers, SetType, TypeMain, TypeLoop, SameTypes
  DEF Next, MainTask, Finished
<1> QED
  BY <1>1, <1>2, PTL DEF Spec

\* Every state is well typed: ids in use have been handed out, only an
\* installed entry carries installs, a JVM that has gone has no requests, and
\* the lines the editor is shown are lines.
THEOREM TypeCorrect == Spec => []TypeOK
BY TypeInvariant, PTL DEF TypeInv

-----------------------------------------------------------------------------
(* An id stands for one breakpoint.                                        *)

\* What a sequence holds after its head is taken.
LEMMA TailElements ==
    ASSUME NEW S, NEW s \in Seq(S), s # <<>>
    PROVE  /\ 1 \in DOMAIN s /\ Head(s) = s[1]
           /\ \A i \in DOMAIN Tail(s) :
                  i + 1 \in DOMAIN s /\ i # 0 /\ i \in Nat /\ Tail(s)[i] = s[i + 1]
           /\ \A i \in DOMAIN s : i # 1 =>
                  i - 1 \in DOMAIN Tail(s) /\ Tail(s)[i - 1] = s[i]
<1>1. Len(s) \in Nat /\ Len(s) # 0 /\ DOMAIN s = 1 .. Len(s)
  OBVIOUS
<1>2. Tail(s) \in Seq(S) /\ Len(Tail(s)) = Len(s) - 1
  BY HeadTailProperties
<1>3. DOMAIN Tail(s) = 1 .. (Len(s) - 1)
  BY <1>2
<1>4. \A i \in DOMAIN Tail(s) : Tail(s)[i] = s[i + 1]
  BY <1>1, <1>3
<1> QED
  BY <1>1, <1>3, <1>4

\* The loop goes on with what it is at, and leaves the rest alone.
LEMMA LoopKeepsIds ==
    ASSUME TypeInv, InstallDeferred \/ InstallExtend \/ Update \/ Notify
    PROVE  /\ loop'.class = loop.class
           /\ \A w \in Sought' : \E v \in Sought : v.id = w.id /\ v.line = w.line
<1>l. loop \in LoopState
  BY DEF TypeInv, TypeOK
<1>1. CASE Update \/ Notify
  BY <1>1, <1>l DEF Update, Notify, LoopState, Sought, Prepared
<1>2. CASE \/ InstallDeferred /\ loop.pending = {}
           \/ InstallExtend /\ loop.extend = {}
  BY <1>2, <1>l DEF InstallDeferred, InstallExtend, LoopState, Sought, Prepared
<1>3. CASE InstallDeferred /\ loop.pending # {}
  <2>1. PICK w \in loop.pending :
           loop' = [loop EXCEPT !.pending = @ \ {w},
                                !.deferred = @ \cup ResultOf(w, loop.class)]
    BY <1>3 DEF InstallDeferred
  <2>2. \A r \in ResultOf(w, loop.class) : r.id = w.id /\ r.line = w.line
    BY DEF ResultOf
  <2> QED
    BY <1>l, <2>1, <2>2 DEF LoopState, Sought, Prepared
<1>4. CASE InstallExtend /\ loop.extend # {}
  <2>1. PICK w \in loop.extend :
           loop' = [loop EXCEPT !.extend = @ \ {w},
                                !.extended = @ \cup ResultOf(w, loop.class)]
    BY <1>4 DEF InstallExtend
  <2>2. \A r \in ResultOf(w, loop.class) : r.id = w.id /\ r.line = w.line
    BY DEF ResultOf
  <2> QED
    BY <1>l, <2>1, <2>2 DEF LoopState, Sought, Prepared
<1> QED
  BY <1>1, <1>2, <1>3, <1>4

\* The entries change what they hold, and nothing else.
LEMMA WritesKeepIds ==
    ASSUME TypeInv, Ids, StoreStates \/ Update, session
    PROVE  /\ \A e \in breakpoints' : \E f \in breakpoints :
                 e.id = f.id /\ e.file = f.file /\ e.line = f.line
           /\ \A e, f \in breakpoints' : e.id = f.id => e = f
           /\ \A e \in breakpoints' : e.state = "Rejected" => ClassesOf(e.file) = {}
<1>1. CASE StoreStates
  <2>1. breakpoints' = {Stored(e) : e \in breakpoints}
    BY <1>1 DEF StoreStates
  <2>2. ASSUME NEW e \in breakpoints, Stored(e).state = "Rejected"
        PROVE  ClassesOf(e.file) = {}
    <3> DEFINE own == {r \in main.results : r.id = e.id}
               is  == UNION {r.classes : r \in own}
    <3>1. CASE own = {}
      BY <2>2, <3>1 DEF Stored, Ids
    <3>2. CASE own # {}
      <4>1. e.file = main.file
        BY <3>2 DEF Ids
      <4>2. Stored(e).state = FinalState(main.file, is)
        <5>1. Stored(e) = [e EXCEPT !.state = FinalState(main.file, is),
                                    !.classes = is]
          BY <3>2 DEF Stored
        <5>2. e \in Entry
          BY DEF TypeInv, TypeOK
        <5> HIDE DEF is
        <5> QED
          BY <5>1, <5>2 DEF Entry
      <4> QED
        BY <2>2, <4>1, <4>2 DEF FinalState
    <3> QED
      BY <3>1, <3>2
  <2> QED
    BY <2>1, <2>2, StoredType DEF Ids
<1>2. CASE Update
  <2>1. breakpoints' = {Updated(e) : e \in breakpoints}
    BY <1>2 DEF Update
  <2>2. ASSUME NEW e \in breakpoints, Updated(e).state = "Rejected"
        PROVE  ClassesOf(e.file) = {}
    <3> DEFINE ds == UNION {r.classes : r \in {r \in loop.deferred : r.id = e.id}}
    <3>1. e \in Entry
      BY DEF TypeInv, TypeOK
    <3>2. \/ Updated(e).state = e.state
          \/ Updated(e).state = "Installed"
      <4>1. PICK d : /\ \/ d = e
                        \/ d = [e EXCEPT !.state = "Installed", !.classes = ds]
                     /\ \/ Updated(e) = d
                        \/ \E xs : Updated(e) = [d EXCEPT !.classes = xs]
        BY DEF Updated
      <4> HIDE DEF ds
      <4>2. d.state \in {e.state, "Installed"} /\ d \in [id : Nat, file : Files,
               line : Nat, state : {e.state, "Installed"}, classes : {e.classes, ds}]
        BY <3>1, <4>1 DEF Entry
      <4> QED
        BY <4>1, <4>2
    <3> QED
      BY <2>2, <3>2 DEF Ids
  <2> QED
    BY <2>1, <2>2, UpdatedType DEF Ids
<1> QED
  BY <1>1, <1>2

LEMMA IdsSet ==
    ASSUME TypeInv, Ids, NEW file \in Files, NEW lines \in Requests,
           SetBreakpoints(file, lines)
    PROVE  Ids'
<1> DEFINE new == [i \in 1 .. Len(lines) |->
                     [id |-> nextBpId + i - 1, line |-> lines[i]]]
           added == {[id |-> new[i].id, file |-> file, line |-> new[i].line,
                      state |-> "Pending", classes |-> {}] : i \in DOMAIN new}
<1>1. Len(lines) \in Nat /\ nextBpId \in Nat
  BY RequestsAssumption DEF TypeInv, TypeOK
<1>2. /\ session
      /\ breakpoints' = OtherFiles(file) \cup added
      /\ nextBpId' = nextBpId + Len(lines)
      /\ main' = [MainIdle EXCEPT !.pc = "clear", !.file = file,
                                  !.old = IdsOf(breakpoints \ OtherFiles(file)),
                                  !.todo = new]
      /\ UNCHANGED <<session, loop>>
  BY DEF SetBreakpoints, NextBpId, Retained
<1>3. /\ DOMAIN new = 1 .. Len(lines)
      /\ \A i \in DOMAIN new : new[i].id = nextBpId + i - 1
  OBVIOUS
<1> HIDE DEF new
<1>4. main'.file = file /\ main'.todo = new /\ main'.results = {}
  BY <1>2 DEF MainIdle
<1>5. \A j, k \in DOMAIN new : new[j].id = new[k].id => j = k
  BY <1>1, <1>3
<1>6. \A j \in DOMAIN new : nextBpId <= new[j].id /\ new[j].id < nextBpId'
                            /\ new[j].id \in Nat
  BY <1>1, <1>2, <1>3
<1>7. OtherFiles(file) \subseteq breakpoints
  BY DEF OtherFiles
<1>8. \A e \in breakpoints : e.id \in Nat /\ e.id < nextBpId
  BY DEF TypeInv, TypeOK, Entry
<1>9. \A w \in Sought : w.id \in Nat /\ w.id < nextBpId
  BY <1>2 DEF TypeInv, TypeOK, LoopState, Wanted, Result, Sought, Prepared, Ids
<1>10. \A e \in added : e.state = "Pending" /\ \E i \in DOMAIN new :
          e.id = new[i].id /\ e.line = new[i].line /\ e.file = file
  OBVIOUS
<1>11. \A e, f \in added : e.id = f.id => e = f
  BY <1>5
<1> HIDE DEF added
<1>12. \A e, f \in breakpoints' : e.id = f.id => e = f
  BY <1>1, <1>2, <1>6, <1>7, <1>8, <1>10, <1>11 DEF Ids
<1>13. \A e \in breakpoints' : \A j \in DOMAIN new :
          e.id = new[j].id => e.line = new[j].line /\ e.file = file
  BY <1>1, <1>2, <1>5, <1>6, <1>7, <1>8, <1>10
<1>14. Sought' = Sought /\ loop'.class = loop.class
  BY <1>2 DEF Sought, Prepared
<1>15. \A w \in Sought : w.id < nextBpId'
  BY <1>1, <1>2, <1>9
<1>16. \A e \in breakpoints' : \A w \in Sought :
          e.id = w.id => e.line = w.line /\ e.file = SourceOf[loop.class]
  BY <1>1, <1>2, <1>6, <1>7, <1>9, <1>10 DEF Ids
<1>17. \A e \in breakpoints' : e.state = "Rejected" => ClassesOf(e.file) = {}
  BY <1>2, <1>7, <1>10 DEF Ids
<1> QED
  BY <1>2, <1>4, <1>5, <1>6, <1>12, <1>13, <1>14, <1>15, <1>16, <1>17 DEF Ids

LEMMA IdsStep == TypeInv /\ Ids /\ [Next]_vars => Ids'
<1> SUFFICES ASSUME TypeInv, Ids, session', [Next]_vars PROVE Ids'
  BY DEF Ids
<1>m. main \in MainState /\ loop \in LoopState
  BY DEF TypeInv, TypeOK
<1>1. CASE UNCHANGED <<breakpoints, nextBpId, main, loop, session>>
  BY <1>1 DEF Ids, Sought, Prepared
<1>2. CASE Launch
  <2>1. /\ UNCHANGED <<breakpoints, nextBpId, main, loop>>
        /\ main.todo = <<>> /\ main.results = {} /\ Sought = {} /\ breakpoints = {}
    BY <1>2 DEF Launch, TypeInv, TypeOK, JvmPhases, MainIdle, LoopIdle, Sought,
                Prepared
  <2>2. Sought' = {} /\ DOMAIN main'.todo = {}
    BY <2>1 DEF Sought, Prepared
  <2> QED
    BY <2>1, <2>2 DEF Ids
<1>3. CASE Disconnect \/ LoopEnds
  BY <1>3 DEF Disconnect, LoopEnds, NoSession
<1>4. ASSUME NEW file \in Files, NEW lines \in Requests,
             SetBreakpoints(file, lines)
      PROVE  Ids'
  BY <1>4, IdsSet
<1>5. CASE ClearOld \/ ListLoaded \/ InstallOnLoaded
  <2>1. UNCHANGED <<breakpoints, nextBpId, loop, session>>
    BY <1>5 DEF ClearOld, ListLoaded, InstallOnLoaded, sessionVars
  <2>2. main'.todo = main.todo /\ main'.results = main.results
        /\ main'.file = main.file
    BY <1>m, <1>5 DEF ClearOld, ListLoaded, InstallOnLoaded, MainState
  <2> QED
    BY <2>1, <2>2 DEF Ids, Sought, Prepared
<1>6. CASE EntryInstalled
  <2>1. UNCHANGED <<breakpoints, nextBpId, loop, session>> /\ main.todo # <<>>
    BY <1>6 DEF EntryInstalled, sessionVars, TypeInv, MainPhases
  <2>2. /\ 1 \in DOMAIN main.todo /\ Head(main.todo) = main.todo[1]
        /\ \A i \in DOMAIN Tail(main.todo) :
              i + 1 \in DOMAIN main.todo /\ i # 0 /\ i \in Nat
              /\ Tail(main.todo)[i] = main.todo[i + 1]
    BY <1>m, <2>1, TailElements DEF MainState
  <2> DEFINE done == [id |-> Head(main.todo).id, line |-> Head(main.todo).line,
                      classes |-> main.classes]
  <2>3. /\ main'.results = main.results \cup {done}
        /\ done.id = main.todo[1].id /\ done.line = main.todo[1].line
    BY <1>m, <1>6, <2>2 DEF EntryInstalled, MainState
  <2> HIDE DEF done
  <2>4. main'.todo = Tail(main.todo) /\ main'.file = main.file
    BY <1>m, <1>6 DEF EntryInstalled, MainState
  <2>5. \A j \in DOMAIN main'.todo : \E k \in DOMAIN main.todo :
           k # 1 /\ k = j + 1 /\ j \in Nat /\ main'.todo[j] = main.todo[k]
    BY <2>2, <2>4
  <2>6. Sought' = Sought
    BY <2>1 DEF Sought, Prepared
  <2>7. session
    BY <2>1
  <2>8. \A j, k \in DOMAIN main'.todo : main'.todo[j].id = main'.todo[k].id => j = k
    BY <2>2, <2>5, <2>7 DEF Ids
  <2>9. \A j \in DOMAIN main'.todo : main'.todo[j].id # done.id
    BY <2>2, <2>3, <2>5, <2>7 DEF Ids
  <2>10. \A r \in main.results : r.id # done.id
    BY <2>2, <2>3, <2>7 DEF Ids
  <2>11. done.id < nextBpId /\ \A e \in breakpoints :
            e.id = done.id => e.line = done.line /\ e.file = main.file
    BY <2>2, <2>3, <2>7 DEF Ids
  <2>12. /\ \A r, q \in main'.results : r.id = q.id => r = q
         /\ \A r \in main'.results : r.id < nextBpId
         /\ \A e \in breakpoints : \A r \in main'.results :
                e.id = r.id => e.line = r.line /\ e.file = main'.file
    BY <2>3, <2>4, <2>7, <2>10, <2>11 DEF Ids
  <2>13. \A j \in DOMAIN main'.todo : \A r \in main'.results : r.id # main'.todo[j].id
    <3>1. \A j \in DOMAIN main'.todo : \A r \in main.results : r.id # main'.todo[j].id
      BY <2>5, <2>7 DEF Ids
    <3> QED
      BY <2>3, <2>9, <3>1
  <2>14. /\ \A j \in DOMAIN main'.todo : main'.todo[j].id < nextBpId
         /\ \A e \in breakpoints : \A j \in DOMAIN main'.todo :
                e.id = main'.todo[j].id => e.line = main'.todo[j].line /\ e.file = main'.file
    BY <2>4, <2>5, <2>7 DEF Ids
  <2>15. /\ \A e, f \in breakpoints : e.id = f.id => e = f
         /\ \A w \in Sought : w.id < nextBpId
         /\ \A e \in breakpoints : \A w \in Sought :
                e.id = w.id => e.line = w.line /\ e.file = SourceOf[loop.class]
         /\ \A e \in breakpoints : e.state = "Rejected" => ClassesOf(e.file) = {}
    BY <2>7 DEF Ids
  <2> QED
    BY <2>1, <2>6, <2>8, <2>12, <2>13, <2>14, <2>15 DEF Ids
<1>7. CASE StoreStates
  <2>1. UNCHANGED <<nextBpId, loop, session>>
    BY <1>7 DEF StoreStates
  <2>2. main'.todo = main.todo /\ main'.results = main.results
        /\ main'.file = main.file
    BY <1>m, <1>7 DEF StoreStates, MainState
  <2>3. Sought' = Sought
    BY <2>1 DEF Sought, Prepared
  <2> QED
    BY <1>7, <2>1, <2>2, <2>3, WritesKeepIds DEF Ids
<1>8. CASE Respond
  <2>1. UNCHANGED <<breakpoints, nextBpId, loop, session>> /\ main' = MainIdle
    BY <1>8 DEF Respond, sessionVars
  <2>2. main'.results = {} /\ DOMAIN main'.todo = {} /\ Sought' = Sought
    BY <2>1 DEF MainIdle, Sought, Prepared
  <2> QED
    BY <2>1, <2>2 DEF Ids
<1>9. CASE Collect
  <2>1. UNCHANGED <<breakpoints, nextBpId, main, session>>
    BY <1>9 DEF Collect, sessionVars
  <2>2. PICK pending \in SUBSET {e \in breakpoints : e.file = SourceOf[prepared]},
             extend \in SUBSET {e \in breakpoints : e.file = SourceOf[prepared]} :
           loop' = [LoopIdle EXCEPT
                      !.pc = IF pending = {} /\ extend = {} THEN "resume"
                             ELSE "deferred",
                      !.class = prepared,
                      !.pending = WantedOf(pending),
                      !.extend = WantedOf(extend)]
    BY <1>9 DEF Collect
  <2>3. loop'.class = prepared
        /\ Sought' = WantedOf(pending) \cup WantedOf(extend)
    BY <2>2 DEF LoopIdle, Sought, Prepared
  <2>4. \A w \in Sought' : \E e \in breakpoints :
           w.id = e.id /\ w.line = e.line /\ e.file = SourceOf[prepared]
    BY <2>2, <2>3 DEF WantedOf
  <2>5. \A e \in breakpoints : e.id < nextBpId
    BY DEF TypeInv, TypeOK
  <2> QED
    BY <2>1, <2>3, <2>4, <2>5 DEF Ids
<1>10. CASE InstallDeferred \/ InstallExtend \/ Notify
  <2>1. UNCHANGED <<breakpoints, nextBpId, main, session>>
    BY <1>10 DEF InstallDeferred, InstallExtend, Notify, sessionVars
  <2> QED
    BY <1>10, <2>1, LoopKeepsIds DEF Ids
<1>11. CASE Update
  <2>1. UNCHANGED <<nextBpId, main, session>>
    BY <1>11 DEF Update
  <2>2. /\ \A e \in breakpoints' : \E f \in breakpoints :
              e.id = f.id /\ e.file = f.file /\ e.line = f.line
        /\ \A e, f \in breakpoints' : e.id = f.id => e = f
        /\ \A e \in breakpoints' : e.state = "Rejected" => ClassesOf(e.file) = {}
    BY <1>11, <2>1, WritesKeepIds
  <2>3. /\ loop'.class = loop.class
        /\ \A w \in Sought' : \E v \in Sought : v.id = w.id /\ v.line = w.line
    BY <1>11, LoopKeepsIds
  <2>4. \A e \in breakpoints' : \A w \in Sought' :
           e.id = w.id => e.line = w.line /\ e.file = SourceOf[loop.class]
    BY <2>1, <2>2, <2>3 DEF Ids
  <2> QED
    BY <2>1, <2>2, <2>3, <2>4 DEF Ids
<1>12. CASE LoopResumes
  <2>1. UNCHANGED <<breakpoints, nextBpId, main, session>> /\ Sought' = {}
    BY <1>12 DEF LoopResumes, sessionVars, Sought, Prepared, LoopIdle
  <2> QED
    BY <2>1 DEF Ids
<1>13. ASSUME \/ \E c \in Classes : JvmLoads(c)
              \/ JvmStops \/ JvmDies \/ UserResumes \/ Finished \/ UNCHANGED vars
              \/ \E f \in Files : SetWithoutSession(f)
       PROVE  UNCHANGED <<breakpoints, nextBpId, main, loop, session>>
  BY <1>13 DEF JvmLoads, JvmStops, JvmDies, UserResumes, Finished, vars,
     SetWithoutSession, sessionVars
<1> QED
  BY <1>1, <1>2, <1>3, <1>4, <1>5, <1>6, <1>7, <1>8, <1>9, <1>10, <1>11, <1>12,
     <1>13
  DEF Next, MainTask, EventLoop

LEMMA IdsInvariant == Spec => []Ids
<1>1. Init => Ids
  BY DEF Init, Ids
<1> QED
  BY <1>1, IdsStep, TypeInvariant, PTL DEF Spec

-----------------------------------------------------------------------------
(* What a step does to the claims.                                         *)

\* It keeps or drops what is held, and clears what is to be cleared.
Keep ==
    /\ \A h \in Holders' : \A i \in h.classes :
           \E k \in Holders : k.id = h.id /\ i \in k.classes
    /\ \A e \in breakpoints' : \E f \in breakpoints :
           e.id = f.id /\ e.file = f.file /\ e.line = f.line
    /\ main'.old \subseteq main.old
    /\ lastRequest' = lastRequest
    /\ \A r \in live : r \in live' \/ r.id \in main.old

\* Or it installs breakpoint b on class c, near the line of its entry.
Gain(b, c, line) ==
    /\ Grant(c, line)
    /\ \A h \in Holders' : \A i \in h.classes :
           \/ \E k \in Holders : k.id = h.id /\ i \in k.classes
           \/ h.id = b /\ i \in Granted(c, line)
    /\ breakpoints' = breakpoints /\ main'.old = main.old
    /\ \A e \in breakpoints : e.id = b => SourceOf[c] = e.file /\ line = e.line

\* Or it replaces the entries of a file.
Replace(file) ==
    /\ \E added :
           /\ breakpoints' = OtherFiles(file) \cup added
           /\ \A e \in added : e.classes = {} /\ e.file = file
                               /\ e.id \in Nat /\ nextBpId <= e.id
    /\ Gathered' = {} /\ Prepared' = Prepared
    /\ main'.old = IdsOf(breakpoints \ OtherFiles(file))
    /\ UNCHANGED requestVars

\* A step that keeps what the tasks hold.
LEMMA UnchangedKeeps ==
    UNCHANGED <<breakpoints, main, loop, live, lastRequest>> => Keep
BY SameHeld DEF Keep, Holders

\* An install of the main task.
LEMMA MainInstalls ==
    ASSUME TypeInv, Ids, session, InstallOnLoaded
    PROVE  LET line == Head(main.todo).line
               b    == Head(main.todo).id
           IN  /\ b \in Nat /\ line \in Nat
               /\ \E c \in Classes :
                     /\ Gain(b, c, line)
                     /\ c \in main.found
                     /\ main'.todo = main.todo /\ main'.pc = "install"
                     /\ main'.found = main.found \ {c}
<1> DEFINE line == Head(main.todo).line
           b    == Head(main.todo).id
           h0   == [id |-> b, line |-> line, classes |-> main.classes]
<1>0. Prepared' = Prepared
  BY SameHeld DEF InstallOnLoaded
<1>1. PICK c \in main.found :
         /\ Grant(c, line)
         /\ main' = [main EXCEPT !.found = @ \ {c},
                                 !.classes = @ \cup Granted(c, line)]
  BY DEF InstallOnLoaded
<1>2. /\ main.pc = "install" /\ main.todo # <<>> /\ c \in Classes
      /\ SourceOf[c] = main.file
  BY <1>1 DEF InstallOnLoaded, TypeInv, MainPhases, ClassesOf
<1>3. Head(main.todo) \in Wanted /\ 1 \in DOMAIN main.todo
      /\ Head(main.todo) = main.todo[1]
  BY <1>2, HeadTailProperties, TailElements DEF TypeInv, TypeOK, MainState
<1>4. b \in Nat /\ line \in Nat
  BY <1>3 DEF Wanted
<1>5. /\ main'.results = main.results /\ main'.old = main.old
      /\ main'.todo = main.todo /\ main'.pc = "install"
      /\ main'.found = main.found \ {c}
      /\ main'.classes = main.classes \cup Granted(c, line)
      /\ UNCHANGED breakpoints
  BY <1>1, <1>2 DEF InstallOnLoaded, TypeInv, TypeOK, MainState, sessionVars
<1>6. h0 \in Holders
  BY <1>2 DEF Holders, Gathered, InHand
<1>7. \A h \in Holders' : h \in Holders \/
         (h.id = b /\ h.classes = main.classes \cup Granted(c, line))
  BY <1>0, <1>5 DEF Holders, Gathered, InHand
<1>8. \A h \in Holders' : \A i \in h.classes :
         \/ \E k \in Holders : k.id = h.id /\ i \in k.classes
         \/ h.id = b /\ i \in Granted(c, line)
  BY <1>6, <1>7
<1>9. \A e \in breakpoints : e.id = b => SourceOf[c] = e.file /\ line = e.line
  BY <1>2, <1>3 DEF Ids
<1>10. Gain(b, c, line)
  BY <1>1, <1>5, <1>8, <1>9 DEF Gain
<1> QED
  BY <1>1, <1>2, <1>4, <1>5, <1>10

LEMMA MainSteps ==
    ASSUME TypeInv, Ids, session,
           \/ ClearOld \/ ListLoaded \/ InstallOnLoaded \/ EntryInstalled
           \/ StoreStates \/ Respond
    PROVE  Keep \/ \E b \in Nat, c \in Classes, line \in Nat : Gain(b, c, line)
<1>m. main \in MainState
  BY DEF TypeInv, TypeOK
<1>0. UNCHANGED loop /\ Prepared' = Prepared
  BY DEF ClearOld, ListLoaded, InstallOnLoaded, EntryInstalled, StoreStates,
         Respond, Prepared
<1>1. CASE ClearOld
  <2>1. UNCHANGED <<breakpoints, lastRequest>>
    BY <1>1 DEF ClearOld, sessionVars
  <2>2. /\ main'.results = main.results /\ main'.pc # "install"
        /\ main'.old \subseteq main.old
    BY <1>1, <1>m DEF ClearOld, MainState
  <2>3. \A r \in live : r \in live' \/ r.id \in main.old
    BY <1>1 DEF ClearOld
  <2>4. Holders' \subseteq Holders
    BY <1>0, <2>1, <2>2 DEF Holders, Gathered, InHand
  <2> QED
    BY <2>1, <2>2, <2>3, <2>4 DEF Keep
<1>2. CASE ListLoaded
  <2>1. UNCHANGED <<breakpoints, live, lastRequest>>
    BY <1>2 DEF ListLoaded, sessionVars, requestVars
  <2>2. /\ main'.results = main.results /\ main'.old = main.old
        /\ main'.pc = "install" => main'.classes = {}
    BY <1>2, <1>m DEF ListLoaded, MainState
  <2>3. \A h \in Holders' : h \in Holders \/ h.classes = {}
    BY <1>0, <2>1, <2>2 DEF Holders, Gathered, InHand
  <2> QED
    BY <2>1, <2>2, <2>3 DEF Keep
<1>3. CASE InstallOnLoaded
  BY <1>3, MainInstalls
<1>4. CASE EntryInstalled
  <2>1. UNCHANGED <<breakpoints, live, lastRequest>> /\ main.pc = "install"
    BY <1>4 DEF EntryInstalled, sessionVars, requestVars
  <2> DEFINE done == [id |-> Head(main.todo).id, line |-> Head(main.todo).line,
                      classes |-> main.classes]
  <2>2. main' = [main EXCEPT !.pc = "list", !.todo = Tail(@),
                             !.results = @ \cup {done}]
    BY <1>4 DEF EntryInstalled
  <2>3. InHand = {done}
    BY <2>1 DEF InHand
  <2> HIDE DEF done
  <2>4. /\ main'.results = main.results \cup {done} /\ main'.old = main.old
        /\ main'.pc = "list"
    BY <1>m, <2>2 DEF MainState
  <2>5. Holders' = Holders
    BY <1>0, <2>1, <2>3, <2>4 DEF Holders, Gathered, InHand
  <2> QED
    BY <2>1, <2>4, <2>5 DEF Keep
<1>5. CASE StoreStates
  <2>1. UNCHANGED <<live, lastRequest>> /\ main.pc = "store"
        /\ breakpoints' = {Stored(e) : e \in breakpoints}
    BY <1>5 DEF StoreStates, requestVars
  <2>2. main'.results = main.results /\ main'.old = main.old /\ main'.pc = "respond"
    BY <1>5, <1>m DEF StoreStates, MainState
  <2>3. Gathered' = Gathered /\ Gathered = main.results
    BY <2>1, <2>2 DEF Gathered, InHand
  <2>4. \A e \in breakpoints : \A i \in Stored(e).classes :
           \/ i \in e.classes
           \/ \E r \in main.results : r.id = e.id /\ i \in r.classes
    <3> SUFFICES ASSUME NEW e \in breakpoints, NEW i \in Stored(e).classes,
                        i \notin e.classes
                 PROVE  \E r \in main.results : r.id = e.id /\ i \in r.classes
      OBVIOUS
    <3> DEFINE own == {r \in main.results : r.id = e.id}
               is  == UNION {r.classes : r \in own}
    <3>1. own # {} /\ Stored(e) = [e EXCEPT !.state = FinalState(main.file, is),
                                            !.classes = is]
      BY DEF Stored
    <3>2. e \in Entry
      BY DEF TypeInv, TypeOK
    <3> HIDE DEF is
    <3>3. i \in is
      BY <3>1, <3>2 DEF Entry
    <3> QED
      BY <3>3 DEF is
  <2>5. \A h \in Holders' : \A i \in h.classes :
           \E k \in Holders : k.id = h.id /\ i \in k.classes
    BY <1>0, <2>1, <2>3, <2>4, StoredType DEF Holders
  <2>6. \A e \in breakpoints' : \E f \in breakpoints :
           e.id = f.id /\ e.file = f.file /\ e.line = f.line
    BY <2>1, StoredType
  <2> QED
    BY <2>1, <2>2, <2>5, <2>6 DEF Keep
<1>6. CASE Respond
  <2>1. UNCHANGED <<breakpoints, live, lastRequest>> /\ main' = MainIdle
    BY <1>6 DEF Respond, sessionVars, requestVars
  <2>2. Gathered' = {} /\ main'.old = {}
    BY <2>1 DEF Gathered, InHand, MainIdle
  <2>3. Holders' \subseteq Holders
    BY <1>0, <2>1, <2>2 DEF Holders
  <2> QED
    BY <2>1, <2>2, <2>3 DEF Keep
<1> QED
  BY <1>1, <1>2, <1>3, <1>4, <1>5, <1>6

\* An install of the event loop.
LEMMA LoopInstalls ==
    ASSUME TypeInv, Ids, session, NEW w \in loop.pending \cup loop.extend,
           Grant(loop.class, w.line), UNCHANGED <<breakpoints, main>>,
           Prepared' = Prepared \cup ResultOf(w, loop.class),
           loop.class \in Classes
    PROVE  w.id \in Nat /\ w.line \in Nat /\ Gain(w.id, loop.class, w.line)
<1>1. w \in Wanted /\ w \in Sought
  BY DEF TypeInv, TypeOK, LoopState, Sought
<1>2. w.id \in Nat /\ w.line \in Nat
  BY <1>1 DEF Wanted
<1>3. \A r \in ResultOf(w, loop.class) :
         r.id = w.id /\ r.classes = Granted(loop.class, w.line)
  BY <1>1, ResultOfType DEF TypeInv
<1>4. Gathered' = Gathered
  BY SameHeld
<1>5. \A h \in Holders' : h \in Holders \/ h \in ResultOf(w, loop.class)
  BY <1>4 DEF Holders
<1>6. \A e \in breakpoints :
         e.id = w.id => SourceOf[loop.class] = e.file /\ w.line = e.line
  BY <1>1 DEF Ids
<1>7. Gain(w.id, loop.class, w.line)
  BY <1>3, <1>5, <1>6 DEF Gain
<1> QED
  BY <1>2, <1>7

LEMMA LoopSteps ==
    ASSUME TypeInv, Ids, session, session', EventLoop
    PROVE  Keep \/ \E b \in Nat, c \in Classes, line \in Nat : Gain(b, c, line)
<1>l. loop \in LoopState
  BY DEF TypeInv, TypeOK
<1>0. main' = main /\ Gathered' = Gathered
  BY SameHeld DEF EventLoop, Collect, InstallDeferred, InstallExtend, Update,
     Notify, LoopResumes, LoopEnds
<1>1. CASE Collect \/ LoopResumes
  <2>1. UNCHANGED <<breakpoints, live, lastRequest>> /\ Prepared' = {}
    <3>1. CASE LoopResumes
      BY <3>1 DEF LoopResumes, requestVars, sessionVars, Prepared, LoopIdle
    <3>2. CASE Collect
      <4>1. \E pc, c, ps, xs : loop' = [LoopIdle EXCEPT !.pc = pc, !.class = c,
                                          !.pending = ps, !.extend = xs]
        BY <3>2 DEF Collect
      <4>2. loop'.deferred = {} /\ loop'.extended = {}
        BY <4>1 DEF LoopIdle
      <4> QED
        BY <3>2, <4>2 DEF Collect, requestVars, sessionVars, Prepared
    <3> QED
      BY <1>1, <3>1, <3>2
  <2>2. Holders' \subseteq Holders
    BY <1>0, <2>1 DEF Holders
  <2> QED
    BY <1>0, <2>1, <2>2 DEF Keep
<1>2. CASE Notify
  <2>1. UNCHANGED <<breakpoints, live, lastRequest>> /\ Prepared' = Prepared
    BY <1>l, <1>2 DEF Notify, requestVars, sessionVars, Prepared, LoopState
  <2> QED
    BY <1>0, <2>1 DEF Keep, Holders
<1>3. CASE \/ InstallDeferred /\ loop.pending = {}
           \/ InstallExtend /\ loop.extend = {}
  <2>1. UNCHANGED <<breakpoints, live, lastRequest>> /\ Prepared' = Prepared
    BY <1>l, <1>3 DEF InstallDeferred, InstallExtend, requestVars, sessionVars,
                      Prepared, LoopState
  <2> QED
    BY <1>0, <2>1 DEF Keep, Holders
<1>4. CASE \/ InstallDeferred /\ loop.pending # {}
           \/ InstallExtend /\ loop.extend # {}
  <2>1. PICK w \in loop.pending \cup loop.extend :
           /\ Grant(loop.class, w.line)
           /\ \/ loop' = [loop EXCEPT !.pending = @ \ {w},
                                      !.deferred = @ \cup ResultOf(w, loop.class)]
              \/ loop' = [loop EXCEPT !.extend = @ \ {w},
                                      !.extended = @ \cup ResultOf(w, loop.class)]
    BY <1>4 DEF InstallDeferred, InstallExtend
  <2>2. Prepared' = Prepared \cup ResultOf(w, loop.class)
    BY <1>l, <2>1 DEF Prepared, LoopState
  <2>3. UNCHANGED breakpoints /\ loop.class \in Classes
    BY <1>4 DEF InstallDeferred, InstallExtend, sessionVars, TypeInv, LoopPhases
  <2> QED
    BY <1>0, <2>1, <2>2, <2>3, LoopInstalls
<1>5. CASE Update
  <2>1. /\ UNCHANGED <<live, lastRequest>> /\ Prepared' = Prepared
        /\ breakpoints' = {Updated(e) : e \in breakpoints}
    BY <1>l, <1>5 DEF Update, requestVars, Prepared, LoopState
  <2>2. \A e \in breakpoints : \A i \in Updated(e).classes :
           \/ i \in e.classes
           \/ \E r \in Prepared : r.id = e.id /\ i \in r.classes
    <3> SUFFICES ASSUME NEW e \in breakpoints, NEW i \in Updated(e).classes,
                        i \notin e.classes
                 PROVE  \E r \in Prepared : r.id = e.id /\ i \in r.classes
      OBVIOUS
    <3> DEFINE def == {r \in loop.deferred : r.id = e.id}
               ext == {r \in loop.extended : r.id = e.id}
               ds  == UNION {r.classes : r \in def}
               xs  == UNION {r.classes : r \in ext}
               d   == IF def = {} THEN e
                      ELSE [e EXCEPT !.state = "Installed", !.classes = ds]
    <3>1. e \in Entry
      BY DEF TypeInv, TypeOK
    <3>2. Updated(e) = IF d.state = "Installed" THEN [d EXCEPT !.classes = @ \cup xs]
                       ELSE d
      BY DEF Updated
    <3> HIDE DEF ds, xs, def
    <3>3. d \in [id : Nat, file : Files, line : Nat,
                 state : {"Pending", "Installed", "Rejected"}, classes : {e.classes, ds}]
      BY <3>1 DEF Entry
    <3> HIDE DEF d
    <3>4. i \in ds \cup xs
      BY <3>2, <3>3
    <3> QED
      BY <3>4 DEF ds, xs, def, Prepared
  <2>3. \A h \in Holders' : \A i \in h.classes :
           \E k \in Holders : k.id = h.id /\ i \in k.classes
    BY <1>0, <2>1, <2>2, UpdatedType DEF Holders
  <2>4. \A e \in breakpoints' : \E f \in breakpoints :
           e.id = f.id /\ e.file = f.file /\ e.line = f.line
    BY <2>1, UpdatedType
  <2> QED
    BY <1>0, <2>1, <2>3, <2>4 DEF Keep
<1>6. ~LoopEnds
  BY DEF LoopEnds, NoSession
<1> QED
  BY <1>1, <1>2, <1>3, <1>4, <1>5, <1>6 DEF EventLoop

LEMMA SetReplaces ==
    ASSUME TypeInv, NEW file \in Files, NEW lines \in Requests,
           SetBreakpoints(file, lines)
    PROVE  Replace(file)
<1> DEFINE new == [i \in 1 .. Len(lines) |->
                     [id |-> nextBpId + i - 1, line |-> lines[i]]]
           added == {[id |-> new[i].id, file |-> file, line |-> new[i].line,
                      state |-> "Pending", classes |-> {}] : i \in DOMAIN new}
<1>1. Len(lines) \in Nat /\ nextBpId \in Nat
  BY RequestsAssumption DEF TypeInv, TypeOK
<1>2. /\ breakpoints' = OtherFiles(file) \cup added
      /\ main' = [MainIdle EXCEPT !.pc = "clear", !.file = file,
                                  !.old = IdsOf(breakpoints \ OtherFiles(file)),
                                  !.todo = new]
      /\ UNCHANGED <<loop, requestVars>>
  BY DEF SetBreakpoints, Retained
<1>3. \A i \in DOMAIN new : new[i].id \in Nat /\ nextBpId <= new[i].id
  BY <1>1
<1> HIDE DEF new
<1>4. \A e \in added : e.classes = {} /\ e.file = file
                       /\ e.id \in Nat /\ nextBpId <= e.id
  BY <1>3
<1> HIDE DEF added
<1>5. main'.old = IdsOf(breakpoints \ OtherFiles(file)) /\ Gathered' = {}
  BY <1>2 DEF MainIdle, Gathered, InHand
<1>6. Prepared' = Prepared
  BY <1>2 DEF Prepared
<1> QED
  BY <1>2, <1>4, <1>5, <1>6 DEF Replace

\* What the steps of a session do while the JVM lives.
LEMMA StepKinds ==
    ASSUME TypeInv, Ids, [Next]_vars, session', Alive'
    PROVE  \/ Launch
           \/ /\ session /\ Alive
              /\ \/ Keep
                 \/ \E b \in Nat, c \in Classes, line \in Nat : Gain(b, c, line)
                 \/ \E file \in Files : Replace(file)
<1>1. CASE \/ \E c \in Classes : JvmLoads(c)
           \/ JvmStops \/ UserResumes \/ Finished \/ UNCHANGED vars
           \/ \E f \in Files : SetWithoutSession(f)
  <2>1. UNCHANGED <<breakpoints, main, loop, live, lastRequest, session>>
    BY <1>1 DEF JvmLoads, JvmStops, UserResumes, Finished, vars,
       SetWithoutSession, sessionVars, requestVars
  <2>2. Alive
    BY <1>1 DEF JvmLoads, JvmStops, UserResumes, Finished, vars,
       SetWithoutSession, jvmVars, Alive
  <2> QED
    BY <2>1, <2>2, UnchangedKeeps
<1>2. CASE JvmDies \/ Disconnect
  BY <1>2 DEF JvmDies, JvmGone, Alive, Disconnect, NoSession
<1>3. ASSUME NEW file \in Files, NEW lines \in Requests,
             SetBreakpoints(file, lines)
      PROVE  session /\ Alive /\ Replace(file)
  <2>1. session /\ Alive
    BY <1>3 DEF SetBreakpoints, jvmVars, Alive
  <2> QED
    BY <1>3, <2>1, SetReplaces
<1>4. CASE \/ ClearOld \/ ListLoaded \/ InstallOnLoaded \/ EntryInstalled
           \/ StoreStates \/ Respond
  <2>1. session /\ Alive
    BY <1>4 DEF ClearOld, ListLoaded, InstallOnLoaded, EntryInstalled,
       StoreStates, Respond, jvmVars, sessionVars, Alive
  <2> QED
    BY <1>4, <2>1, MainSteps
<1>5. CASE EventLoop
  <2>1. session
    BY <1>5 DEF EventLoop, Collect, InstallDeferred, InstallExtend, Update,
       Notify, LoopResumes, LoopEnds, NoSession, sessionVars
  <2>2. Alive
    BY <1>5 DEF EventLoop, Collect, InstallDeferred, InstallExtend, Update,
       Notify, LoopResumes, LoopEnds, JvmGone, jvmVars, Alive
  <2> QED
    BY <1>5, <2>1, <2>2, LoopSteps
<1> QED
  BY <1>1, <1>2, <1>3, <1>4, <1>5 DEF Next, MainTask

-----------------------------------------------------------------------------
(* Verified is never a lie.                                                *)

\* The requests held are among those granted, and ids among those handed out.
LEMMA HoldersType ==
    ASSUME TypeInv
    PROVE  \A h \in Holders : /\ h.id \in Nat
                              /\ \A i \in h.classes : i.class \in Classes /\ i.request \in Nat
<1>1. \A h \in breakpoints : h.id \in Nat /\ h.classes \subseteq Install
  BY DEF TypeInv, TypeOK, Entry
<1>2. \A h \in main.results \cup Prepared : h.id \in Nat /\ h.classes \subseteq Install
  BY DEF TypeInv, TypeOK, MainState, LoopState, Result, Prepared
<1>3. \A h \in InHand : h.id \in Nat /\ h.classes \subseteq Install
  <2>1. main.pc = "install" => Head(main.todo) \in Wanted
    BY HeadTailProperties DEF TypeInv, TypeOK, MainState, MainPhases
  <2>2. main.classes \subseteq Install
    BY DEF TypeInv, TypeOK, MainState
  <2> QED
    BY <2>1, <2>2 DEF InHand, Wanted
<1> QED
  BY <1>1, <1>2, <1>3 DEF Holders, Gathered, Install

\* Ids below the next one are those in use.
LEMMA HeldIds ==
    ASSUME TypeInv, Ids, session
    PROVE  \A h \in Holders : h.id < nextBpId
<1>1. \A h \in breakpoints : h.id < nextBpId
  BY DEF TypeInv, TypeOK
<1>2. \A h \in main.results \cup Prepared : h.id < nextBpId
  BY DEF Ids, Sought
<1>3. \A h \in InHand : h.id < nextBpId
  <2>1. main.pc = "install" => 1 \in DOMAIN main.todo /\ Head(main.todo) = main.todo[1]
    BY TailElements DEF TypeInv, TypeOK, MainState, MainPhases
  <2> QED
    BY <2>1 DEF InHand, Ids
<1> QED
  BY <1>1, <1>2, <1>3 DEF Holders, Gathered

LEMMA ClaimsKeep ==
    ASSUME TypeInv, Claims, session, Alive, Keep PROVE Claims'
<1>1. \A h, k \in Holders' : \A i \in h.classes, j \in k.classes :
         i.request = j.request => h.id = k.id
  <2> SUFFICES ASSUME NEW h \in Holders', NEW k \in Holders',
                      NEW i \in h.classes, NEW j \in k.classes,
                      i.request = j.request
               PROVE  h.id = k.id
    OBVIOUS
  <2>1. PICK h0 \in Holders : h0.id = h.id /\ i \in h0.classes
    BY DEF Keep
  <2>2. PICK k0 \in Holders : k0.id = k.id /\ j \in k0.classes
    BY DEF Keep
  <2> QED
    BY <2>1, <2>2 DEF Claims
<1>2. ASSUME NEW e \in breakpoints', NEW h \in Holders', NEW i \in h.classes,
             e.id = h.id
      PROVE  Good(e, i)' /\ i.request \notin main'.old
  <2>1. PICK f \in breakpoints : e.id = f.id /\ e.file = f.file /\ e.line = f.line
    BY DEF Keep
  <2>2. PICK k \in Holders : k.id = h.id /\ i \in k.classes
    BY DEF Keep
  <2>3. Good(f, i) /\ i.request \notin main.old
    BY <1>2, <2>1, <2>2 DEF Claims
  <2>4. [id |-> i.request, class |-> i.class, line |-> Nearest(i.class, f.line)] \in live'
    BY <2>3 DEF Good, Keep
  <2> QED
    BY <2>1, <2>3, <2>4 DEF Good, Keep
<1>3. \A n \in main'.old : n <= lastRequest'
  BY DEF Keep, Claims
<1>4. \A h \in Holders' : \A i \in h.classes : i.request <= lastRequest'
  BY DEF Keep, Claims
<1> QED
  BY <1>1, <1>2, <1>3, <1>4 DEF Claims

LEMMA ClaimsGain ==
    ASSUME TypeInv, Claims, session, Alive,
           NEW b \in Nat, NEW c \in Classes, NEW line \in Nat, Gain(b, c, line)
    PROVE  Claims'
<1>1. CASE ~Installs(c, line)
  <2>1. Granted(c, line) = {} /\ UNCHANGED <<live, lastRequest>>
    BY <1>1 DEF Gain, Grant, Granted, requestVars
  <2>2. Keep
    BY <2>1 DEF Gain, Keep
  <2> QED
    BY <2>2, ClaimsKeep
<1>2. CASE Installs(c, line)
  <2> DEFINE n == lastRequest + 1
             new == [class |-> c, request |-> n]
  <2>1. /\ Granted(c, line) = {new} /\ Window(c, line) # {}
        /\ lastRequest' = n
        /\ live' = live \cup {[id |-> n, class |-> c, line |-> Nearest(c, line)]}
    BY <1>2 DEF Gain, Grant, Granted, Installs
  <2>2. lastRequest \in Nat /\ n \in Nat /\ lastRequest < n
    BY DEF TypeInv, TypeOK
  <2>3. UNCHANGED breakpoints /\ main'.old = main.old
    BY DEF Gain
  <2>4. \A h \in Holders : \A i \in h.classes :
           i.request \in Nat /\ i.request <= lastRequest
    BY HoldersType DEF Claims
  <2>5. \A m \in main.old : m \in Nat /\ m <= lastRequest
    BY DEF Claims, TypeInv, TypeOK, MainState
  <2>6. \A h \in Holders' : \A i \in h.classes :
           \/ \E k \in Holders : k.id = h.id /\ i \in k.classes
           \/ h.id = b /\ i = new
    BY <2>1 DEF Gain
  <2>7. new.request = n /\ new.class = c
    OBVIOUS
  <2> HIDE DEF n, new
  <2>8. ASSUME NEW h \in Holders', NEW i \in h.classes PROVE i.request <= lastRequest'
    BY <2>1, <2>2, <2>4, <2>6, <2>7
  <2>9. ASSUME NEW h \in Holders', NEW k \in Holders',
               NEW i \in h.classes, NEW j \in k.classes, i.request = j.request
        PROVE  h.id = k.id
    <3>1. CASE i = new \/ j = new
      <4>1. i = new /\ j = new
        BY <2>2, <2>4, <2>6, <2>7, <2>9, <3>1
      <4>2. h.id = b /\ k.id = b
        BY <2>2, <2>4, <2>6, <2>7, <4>1
      <4> QED
        BY <4>2
    <3>2. CASE i # new /\ j # new
      <4>1. PICK h0 \in Holders : h0.id = h.id /\ i \in h0.classes
        BY <2>6, <3>2
      <4>2. PICK k0 \in Holders : k0.id = k.id /\ j \in k0.classes
        BY <2>6, <3>2
      <4> QED
        BY <2>9, <4>1, <4>2 DEF Claims
    <3> QED
      BY <3>1, <3>2
  <2>10. ASSUME NEW e \in breakpoints, NEW h \in Holders', NEW i \in h.classes,
                e.id = h.id
         PROVE  Good(e, i)' /\ i.request \notin main'.old
    <3>1. CASE i = new
      <4>1. h.id = b
        BY <2>2, <2>4, <2>6, <2>7, <3>1
      <4>2. SourceOf[c] = e.file /\ line = e.line
        BY <2>10, <4>1 DEF Gain
      <4>3. i.request \notin main'.old
        BY <2>2, <2>3, <2>5, <2>7, <3>1
      <4>4. [id |-> i.request, class |-> i.class, line |-> Nearest(i.class, e.line)]
                \in live'
        BY <2>1, <2>7, <3>1, <4>2
      <4> QED
        BY <2>1, <2>7, <3>1, <4>2, <4>3, <4>4 DEF Good
    <3>2. CASE i # new
      <4>1. PICK k \in Holders : k.id = h.id /\ i \in k.classes
        BY <2>6, <3>2
      <4>2. Good(e, i) /\ i.request \notin main.old
        BY <2>10, <4>1 DEF Claims
      <4> QED
        BY <2>1, <2>3, <4>2 DEF Good
    <3> QED
      BY <3>1, <3>2
  <2>11. \A m \in main'.old : m <= lastRequest'
    BY <2>1, <2>2, <2>3, <2>5
  <2> QED
    BY <2>3, <2>8, <2>9, <2>10, <2>11 DEF Claims
<1> QED
  BY <1>1, <1>2

\* Replacing entries: the requests to be cleared are claimed for them alone.
LEMMA ClaimsReplace ==
    ASSUME TypeInv, Ids, Claims, session, Alive, NEW file \in Files, Replace(file)
    PROVE  Claims'
<1>1. PICK added :
         /\ breakpoints' = OtherFiles(file) \cup added
         /\ \A e \in added : e.classes = {} /\ e.id \in Nat /\ nextBpId <= e.id
  BY DEF Replace
<1>2. UNCHANGED <<live, lastRequest>>
  BY DEF Replace, requestVars
<1>3. OtherFiles(file) \subseteq breakpoints
  BY DEF OtherFiles
<1>4. \A h \in Holders' : h \in Holders \/ h.classes = {}
  BY <1>1, <1>3 DEF Replace, Holders
<1>5. \A n \in main'.old : \E f \in breakpoints \ OtherFiles(file) :
         \E i \in f.classes : i.request = n
  BY DEF Replace, IdsOf
<1>6. breakpoints \subseteq Holders
  BY DEF Holders
<1>7. ASSUME NEW e \in breakpoints', NEW h \in Holders', NEW i \in h.classes,
             e.id = h.id
      PROVE  Good(e, i)' /\ i.request \notin main'.old
  <2>1. h \in Holders
    BY <1>4
  <2>2. h.id < nextBpId /\ h.id \in Nat /\ nextBpId \in Nat
    BY <2>1, HeldIds, HoldersType DEF TypeInv, TypeOK
  <2>3. e \in OtherFiles(file)
    BY <1>1, <1>7, <2>2
  <2>4. Good(e, i)
    BY <1>3, <1>7, <2>1, <2>3 DEF Claims
  <2>5. ASSUME i.request \in main'.old PROVE FALSE
    <3>1. PICK f \in breakpoints \ OtherFiles(file) :
             \E j \in f.classes : j.request = i.request
      BY <1>5, <2>5
    <3>2. f.id = h.id
      BY <1>6, <2>1, <3>1 DEF Claims
    <3>3. f = e
      BY <1>3, <1>7, <2>3, <3>1, <3>2 DEF Ids
    <3> QED
      BY <2>3, <3>1, <3>3
  <2> QED
    BY <1>2, <2>4, <2>5 DEF Good
<1>8. \A n \in main'.old : n <= lastRequest'
  BY <1>2, <1>5, <1>6 DEF Claims
<1>9. \A h, k \in Holders' : \A i \in h.classes, j \in k.classes :
         i.request = j.request => h.id = k.id
  BY <1>4 DEF Claims
<1>10. \A h \in Holders' : \A i \in h.classes : i.request <= lastRequest'
  BY <1>2, <1>4 DEF Claims
<1> QED
  BY <1>7, <1>8, <1>9, <1>10 DEF Claims

LEMMA NothingHeldAtLaunch ==
    TypeInv /\ Launch => Holders' = {} /\ breakpoints' = {} /\ main'.old = {}
<1> SUFFICES ASSUME TypeInv, Launch
             PROVE  Holders' = {} /\ breakpoints' = {} /\ main'.old = {}
  OBVIOUS
<1>1. /\ UNCHANGED <<breakpoints, main, loop>>
      /\ breakpoints = {} /\ main = MainIdle /\ loop = LoopIdle
  BY DEF Launch, TypeInv, TypeOK, JvmPhases
<1>2. Gathered = {} /\ Prepared = {}
  BY <1>1 DEF Gathered, InHand, Prepared, MainIdle, LoopIdle
<1> QED
  BY <1>1, <1>2, SameHeld DEF Holders, MainIdle

LEMMA ClaimsInvariant == Spec => []Claims
<1>1. Init => Claims
  BY DEF Init, Claims
<1>2. TypeInv /\ Ids /\ Claims /\ [Next]_vars => Claims'
  <2> SUFFICES ASSUME TypeInv, Ids, Claims, [Next]_vars, session', Alive'
               PROVE  Claims'
    BY DEF Claims
  <2>1. CASE Launch
    BY <2>1, NothingHeldAtLaunch DEF Claims
  <2> QED
    BY <2>1, StepKinds, ClaimsKeep, ClaimsGain, ClaimsReplace
<1> QED
  BY <1>1, <1>2, TypeInvariant, IdsInvariant, PTL DEF Spec

\* Verified is never a lie: as long as the JVM lives, each request recorded for
\* an entry is registered there, at the nearest line of a class of its file.
THEOREM RecordedRequestsLive == Spec => []RecordedIsLive
<1>1. TypeInv /\ Claims => RecordedIsLive
  BY DEF TypeInv, TypeOK, Claims, RecordedIsLive, Holders, Good
<1> QED
  BY <1>1, TypeInvariant, ClaimsInvariant, PTL

-----------------------------------------------------------------------------
(* No breakpoint is missed.                                                *)

\* A request that serves an entry goes on serving it, whatever happens.
LEMMA ServedKept ==
    ASSUME TypeInv, Ids, Claims, session, Alive,
           \/ Keep
           \/ \E b \in Nat, c \in Classes, line \in Nat : Gain(b, c, line)
           \/ \E file \in Files : Replace(file),
           NEW e \in breakpoints, NEW c \in Classes, Served(e, c),
           NEW f \in breakpoints', f.id = e.id, f.line = e.line
    PROVE  Served(f, c)'
<1>1. PICK r \in live : r.class = c /\ r.line = Nearest(c, e.line) /\ Serves(r, e)
  BY DEF Served
<1>2. r.id <= lastRequest /\ r.id \in Nat /\ lastRequest \in Nat
  BY DEF TypeInv, TypeOK, JvmRequest
<1>3. r \in live' /\ Serves(r, f)'
  <2>1. CASE Keep
    BY <1>1, <2>1 DEF Keep, Serves
  <2>2. ASSUME NEW b \in Nat, NEW d \in Classes, NEW line \in Nat, Gain(b, d, line)
        PROVE  r \in live' /\ Serves(r, f)'
    <3>1. r \in live'
      BY <2>2 DEF Gain, Grant, requestVars
    <3>2. \A i \in Granted(d, line) : i.request # r.id
      BY <1>2 DEF Granted
    <3> QED
      BY <1>1, <2>2, <3>1, <3>2 DEF Gain, Serves
  <2>3. ASSUME NEW file \in Files, Replace(file) PROVE r \in live' /\ Serves(r, f)'
    <3>1. PICK added :
             /\ breakpoints' = OtherFiles(file) \cup added
             /\ \A a \in added : a.classes = {} /\ a.id \in Nat /\ nextBpId <= a.id
      BY <2>3 DEF Replace
    <3>2. OtherFiles(file) \subseteq breakpoints
      BY DEF OtherFiles
    <3>3. \A h \in Holders' : h \in Holders \/ h.classes = {}
      BY <2>3, <3>1, <3>2 DEF Replace, Holders
    <3>4. e \in OtherFiles(file)
      <4>1. e.id \in Nat /\ e.id < nextBpId /\ nextBpId \in Nat
        BY DEF TypeInv, TypeOK, Entry
      <4>2. f \in OtherFiles(file)
        BY <3>1, <4>1
      <4> QED
        BY <3>2, <4>2 DEF Ids
    <3>5. r.id \notin main'.old
      <4> SUFFICES ASSUME r.id \in main'.old PROVE FALSE
        OBVIOUS
      <4>1. PICK g \in breakpoints \ OtherFiles(file) :
               \E i \in g.classes : i.request = r.id
        BY <2>3 DEF Replace, IdsOf
      <4>2. g.id = e.id
        BY <1>1, <4>1 DEF Serves, Holders
      <4> QED
        BY <3>4, <4>1, <4>2 DEF Ids
    <3> QED
      BY <1>1, <2>3, <3>3, <3>5 DEF Replace, Serves, requestVars
  <2> QED
    BY <2>1, <2>2, <2>3
<1> QED
  BY <1>1, <1>3 DEF Served

\* A new request serves the entry that it was made for.
LEMMA GainServes ==
    ASSUME TypeInv, Claims, session, Alive,
           NEW b \in Nat, NEW c \in Classes, NEW line \in Nat, Gain(b, c, line),
           NEW e \in breakpoints, e.id = b, Window(c, e.line) # {}
    PROVE  Served(e, c)'
<1> DEFINE n == lastRequest + 1
           r == [id |-> n, class |-> c, line |-> Nearest(c, e.line)]
<1>1. line = e.line /\ Installs(c, line)
  BY DEF Gain, Installs
<1>2. r \in live' /\ \A i \in Granted(c, line) : i.request = n
  BY <1>1 DEF Gain, Grant, Granted
<1>3. n \notin main'.old
  BY DEF Gain, Claims, TypeInv, TypeOK, MainState
<1>4. \A h \in Holders : \A i \in h.classes : i.request # n
  BY HoldersType DEF Claims, TypeInv, TypeOK
<1>5. \A h \in Holders' : \A i \in h.classes : i.request = n => h.id = e.id
  BY <1>4 DEF Gain
<1>6. r.id = n /\ r.class = c /\ r.line = Nearest(c, e.line)
  OBVIOUS
<1> HIDE DEF r, n
<1> QED
  BY <1>2, <1>3, <1>5, <1>6 DEF Served, Serves

\* A request that is recorded serves its entry.
LEMMA RecordedServes ==
    ASSUME TypeInv, Claims, session, Alive,
           NEW e \in breakpoints, NEW i \in e.classes
    PROVE  Served(e, i.class)
<1>1. e \in Holders
  BY DEF Holders
<1>2. Good(e, i) /\ i.request \notin main.old
  BY <1>1 DEF Claims
<1>3. \A h \in Holders : \A j \in h.classes : j.request = i.request => h.id = e.id
  BY <1>1 DEF Claims
<1> QED
  BY <1>2, <1>3 DEF Served, Serves, Good

\* Coverage holds on, if what the tasks had to install is still to be installed
\* or has been.
LEMMA CoverageKept ==
    ASSUME TypeInv, TypeInv', Ids, Claims, Coverage, session, Alive,
           \/ Keep
           \/ \E b \in Nat, c \in Classes, line \in Nat : Gain(b, c, line),
           \A e \in breakpoints, c \in loaded' :
               SourceOf[c] = e.file /\ Window(c, e.line) # {} =>
                   \/ c \in loaded /\ ~MainWill(e, c) /\ ~LoopWill(e, c)
                   \/ Served(e, c) \/ Served(e, c)'
                   \/ MainWill(e, c)' \/ LoopWill(e, c)'
    PROVE  Coverage'
<1> SUFFICES ASSUME NEW f \in breakpoints', NEW c \in loaded',
                    SourceOf[c] = f.file, Window(c, f.line) # {}
             PROVE  Served(f, c)' \/ MainWill(f, c)' \/ LoopWill(f, c)'
  BY DEF Coverage
<1>1. PICK e \in breakpoints : f.id = e.id /\ f.file = e.file /\ f.line = e.line
  BY DEF Keep, Gain
<1>2. c \in Classes
  BY DEF TypeInv, TypeOK
<1>3. CASE Served(e, c)
  BY <1>1, <1>2, <1>3, ServedKept
<1>4. CASE Served(e, c)'
  BY <1>1, <1>4 DEF Served, Serves
<1>5. CASE MainWill(e, c)' \/ LoopWill(e, c)'
  BY <1>1, <1>5 DEF MainWill, LoopWill
<1>6. CASE c \in loaded /\ ~MainWill(e, c) /\ ~LoopWill(e, c)
  BY <1>1, <1>3, <1>6 DEF Coverage
<1> QED
  BY <1>1, <1>3, <1>4, <1>5, <1>6

LEMMA CoverageOthers ==
    ASSUME TypeInv, TypeInv', Ids, Claims, Coverage, session, Alive,
           \/ \E c \in Classes : JvmLoads(c)
           \/ JvmStops \/ UserResumes \/ Finished \/ UNCHANGED vars
           \/ \E f \in Files : SetWithoutSession(f)
    PROVE  Coverage'
<1>1. /\ UNCHANGED <<breakpoints, main, loop, live, lastRequest>>
      /\ \/ UNCHANGED <<loaded, prepared>>
         \/ /\ jvm = "running" /\ prepared' \in Classes
            /\ loaded' = loaded \cup {prepared'}
  BY DEF JvmLoads, JvmStops, UserResumes, Finished, vars, SetWithoutSession,
         sessionVars, requestVars, jvmVars
<1>2. \A e, c : /\ MainWill(e, c)' = MainWill(e, c)
                /\ prepared' = prepared => LoopWill(e, c)' = LoopWill(e, c)
                /\ prepared' = c => LoopWill(e, c)'
  BY <1>1 DEF MainWill, LoopWill
<1>3. jvm = "running" => \A e : \A c \in Classes : ~LoopWill(e, c)
  BY ClassesAssumption DEF LoopWill, TypeInv, LoopPhases, JvmPhases, LoopIdle
<1>4. loaded \subseteq Classes
  BY DEF TypeInv, TypeOK
<1>5. ASSUME NEW e \in breakpoints, NEW c \in loaded',
             SourceOf[c] = e.file, Window(c, e.line) # {}
      PROVE  \/ c \in loaded /\ ~MainWill(e, c) /\ ~LoopWill(e, c)
             \/ Served(e, c) \/ Served(e, c)'
             \/ MainWill(e, c)' \/ LoopWill(e, c)'
  BY <1>1, <1>2, <1>3, <1>4
<1>6. Keep
  BY <1>1, UnchangedKeeps
<1> QED
  BY <1>5, <1>6, CoverageKept

LEMMA CoverageSet ==
    ASSUME TypeInv, TypeInv', Ids, Claims, Coverage, session, Alive,
           NEW file \in Files, NEW lines \in Requests, SetBreakpoints(file, lines)
    PROVE  Coverage'
<1> DEFINE new == [i \in 1 .. Len(lines) |->
                     [id |-> nextBpId + i - 1, line |-> lines[i]]]
           added == {[id |-> new[i].id, file |-> file, line |-> new[i].line,
                      state |-> "Pending", classes |-> {}] : i \in DOMAIN new}
<1>1. /\ breakpoints' = OtherFiles(file) \cup added
      /\ main' = [MainIdle EXCEPT !.pc = "clear", !.file = file,
                                  !.old = IdsOf(breakpoints \ OtherFiles(file)),
                                  !.todo = new]
      /\ UNCHANGED <<loop, loaded, prepared>> /\ main.pc = "idle"
  BY DEF SetBreakpoints, Retained, Asked, jvmVars
<1> HIDE DEF new
<1>2. main'.todo = new /\ main'.pc = "clear"
  BY <1>1 DEF MainIdle
<1>3. \A e, c : ~MainWill(e, c)
  BY <1>1 DEF MainWill, TypeInv, MainPhases, MainIdle
<1>4. \A e, c : LoopWill(e, c)' = LoopWill(e, c)
  BY <1>1 DEF LoopWill
<1>5. Replace(file)
  BY SetReplaces
<1> SUFFICES ASSUME NEW e \in breakpoints', NEW c \in loaded',
                    SourceOf[c] = e.file, Window(c, e.line) # {}
             PROVE  Served(e, c)' \/ MainWill(e, c)' \/ LoopWill(e, c)'
  BY DEF Coverage
<1>6. CASE e \in OtherFiles(file)
  <2>1. e \in breakpoints /\ c \in loaded /\ c \in Classes
    BY <1>1, <1>6 DEF OtherFiles, TypeInv, TypeOK
  <2>2. Served(e, c) \/ LoopWill(e, c)
    BY <1>3, <2>1 DEF Coverage
  <2> QED
    BY <1>4, <1>5, <2>1, <2>2, ServedKept
<1>7. CASE e \in added
  <2>1. \E j \in DOMAIN new : new[j].id = e.id
    BY <1>7
  <2> QED
    BY <1>2, <2>1 DEF MainWill
<1> QED
  BY <1>1, <1>6, <1>7

LEMMA CoverageMain ==
    ASSUME TypeInv, TypeInv', Ids, Claims, Coverage, session, Alive,
           \/ ClearOld \/ ListLoaded \/ InstallOnLoaded \/ EntryInstalled
           \/ StoreStates \/ Respond
    PROVE  Coverage'
<1>m. main \in MainState
  BY DEF TypeInv, TypeOK
<1>1. UNCHANGED <<loop, loaded, prepared>>
  BY DEF ClearOld, ListLoaded, InstallOnLoaded, EntryInstalled, StoreStates,
         Respond, jvmVars
<1>2. \A e, c : LoopWill(e, c)' = LoopWill(e, c)
  BY <1>1 DEF LoopWill
<1>3. Keep \/ \E b \in Nat, c \in Classes, line \in Nat : Gain(b, c, line)
  BY MainSteps
<1>4. ASSUME NEW e \in breakpoints, NEW c \in loaded,
             SourceOf[c] = e.file, Window(c, e.line) # {}, MainWill(e, c)
      PROVE  MainWill(e, c)' \/ Served(e, c)'
  <2>1. PICK j \in DOMAIN main.todo :
           main.todo[j].id = e.id /\ (main.pc = "install" /\ j = 1 => c \in main.found)
    BY <1>4 DEF MainWill
  <2>2. c \in Classes
    BY DEF TypeInv, TypeOK
  <2>3. CASE ClearOld
    <3>1. main'.todo = main.todo /\ main'.pc # "install"
      BY <1>m, <2>3 DEF ClearOld, MainState
    <3> QED
      BY <2>1, <3>1 DEF MainWill
  <2>4. CASE ListLoaded
    <3>1. main.todo # <<>>
      BY <2>1
    <3>2. main'.todo = main.todo /\ main'.found = ClassesOf(main.file) \cap loaded
      BY <1>m, <2>4, <3>1 DEF ListLoaded, MainState
    <3>3. e.file = main.file
      BY <2>1 DEF Ids
    <3>4. c \in main'.found
      BY <1>4, <2>2, <3>2, <3>3 DEF ClassesOf
    <3> QED
      BY <2>1, <3>2, <3>4 DEF MainWill
  <2>5. CASE InstallOnLoaded
    <3>1. PICK d \in Classes :
             /\ Gain(Head(main.todo).id, d, Head(main.todo).line)
             /\ main'.todo = main.todo /\ main'.found = main.found \ {d}
      BY <2>5, MainInstalls
    <3>2. main.pc = "install" /\ Head(main.todo) = main.todo[1]
      BY <1>m, <2>5, TailElements DEF InstallOnLoaded, TypeInv, MainPhases, MainState
    <3>3. CASE j = 1 /\ c = d
      <4>1. e.id = Head(main.todo).id
        BY <2>1, <3>2, <3>3
      <4>2. Head(main.todo).id \in Nat /\ Head(main.todo).line \in Nat
        BY <2>5, MainInstalls
      <4> QED
        BY <1>4, <3>1, <3>3, <4>1, <4>2, GainServes
    <3>4. CASE ~(j = 1 /\ c = d)
      BY <2>1, <3>1, <3>2, <3>4 DEF MainWill
    <3> QED
      BY <3>3, <3>4
  <2>6. CASE EntryInstalled
    <3>1. main.pc = "install" /\ main.found = {} /\ main.todo # <<>>
      BY <2>6 DEF EntryInstalled, TypeInv, MainPhases
    <3>2. main'.todo = Tail(main.todo) /\ main'.pc = "list"
      BY <1>m, <2>6 DEF EntryInstalled, MainState
    <3>3. j # 1
      BY <2>1, <3>1
    <3>4. j - 1 \in DOMAIN Tail(main.todo) /\ Tail(main.todo)[j - 1] = main.todo[j]
      BY <1>m, <3>1, <3>3, TailElements DEF MainState
    <3>5. \E k \in DOMAIN Tail(main.todo) : Tail(main.todo)[k].id = e.id
      BY <2>1, <3>4
    <3> QED
      BY <3>2, <3>5 DEF MainWill
  <2>7. ~StoreStates /\ ~Respond
    <3>1. main.todo # <<>>
      BY <2>1
    <3> QED
      BY <3>1 DEF StoreStates, Respond, TypeInv, MainPhases
  <2> QED
    BY <2>3, <2>4, <2>5, <2>6, <2>7
<1>5. ASSUME NEW e \in breakpoints, NEW c \in loaded',
             SourceOf[c] = e.file, Window(c, e.line) # {}
      PROVE  \/ c \in loaded /\ ~MainWill(e, c) /\ ~LoopWill(e, c)
             \/ Served(e, c) \/ Served(e, c)'
             \/ MainWill(e, c)' \/ LoopWill(e, c)'
  BY <1>1, <1>2, <1>4, <1>5
<1> QED
  BY <1>3, <1>5, CoverageKept

LEMMA CoverageLoop ==
    ASSUME TypeInv, TypeInv', Ids, Claims, Coverage, session, session', Alive,
           EventLoop
    PROVE  Coverage'
<1>l. loop \in LoopState
  BY DEF TypeInv, TypeOK
<1>0. ~LoopEnds
  BY DEF LoopEnds, NoSession
<1>1. UNCHANGED <<main, loaded>>
  BY <1>0 DEF EventLoop, Collect, InstallDeferred, InstallExtend, Update, Notify,
     LoopResumes, jvmVars
<1>2. \A e, c : MainWill(e, c)' = MainWill(e, c)
  BY <1>1 DEF MainWill
<1>3. Keep \/ \E b \in Nat, c \in Classes, line \in Nat : Gain(b, c, line)
  BY LoopSteps
<1>4. ASSUME NEW e \in breakpoints, NEW c \in loaded,
             SourceOf[c] = e.file, Window(c, e.line) # {}, LoopWill(e, c)
      PROVE  LoopWill(e, c)' \/ Served(e, c) \/ Served(e, c)'
  <2>1. c \in Classes /\ e \in Entry
    BY DEF TypeInv, TypeOK
  <2>2. CASE Collect
    <3> DEFINE ofSource == {f \in breakpoints : f.file = SourceOf[prepared]}
               pending  == {f \in ofSource : f.state = "Pending"}
               extend   == {f \in ofSource : ExtendsTo(f, prepared)}
    <3>1. loop' = [LoopIdle EXCEPT
                     !.pc = IF pending = {} /\ extend = {} THEN "resume"
                            ELSE "deferred",
                     !.class = prepared,
                     !.pending = WantedOf(pending),
                     !.extend = WantedOf(extend)]
          /\ loop.pc = "select"
      BY <2>2 DEF Collect
    <3>2. prepared = c
      BY <1>4, <3>1 DEF LoopWill, TypeInv, LoopPhases, LoopIdle
    <3> HIDE DEF ofSource, pending, extend
    <3>3. loop'.class = c /\ loop'.pending = WantedOf(pending)
          /\ loop'.extend = WantedOf(extend)
      BY <3>1, <3>2 DEF LoopIdle
    <3>4. CASE e \in pending \cup extend
      <4>1. [id |-> e.id, line |-> e.line] \in WantedOf(pending) \cup WantedOf(extend)
        BY <3>4 DEF WantedOf
      <4> QED
        BY <3>3, <4>1 DEF LoopWill
    <3>5. CASE e.state = "Rejected"
      BY <1>4, <2>1, <3>5 DEF Ids, ClassesOf
    <3>6. CASE e \notin pending \cup extend /\ e.state # "Rejected"
      <4>1. e.state = "Installed" /\ ~ExtendsTo(e, c)
        BY <1>4, <2>1, <3>2, <3>6 DEF ofSource, pending, extend, Entry
      <4>2. PICK i \in e.classes : i.class = c
        BY <4>1 DEF ExtendsTo
      <4> QED
        BY <4>2, RecordedServes
    <3> QED
      BY <3>4, <3>5, <3>6
  <2>3. CASE \/ InstallDeferred /\ loop.pending = {}
             \/ InstallExtend /\ loop.extend = {}
    <3>1. /\ prepared' = prepared /\ loop'.class = loop.class
          /\ loop'.pending = loop.pending /\ loop'.extend = loop.extend
      BY <1>l, <2>3 DEF InstallDeferred, InstallExtend, jvmVars, LoopState
    <3> QED
      BY <1>4, <3>1 DEF LoopWill
  <2>4. CASE \/ InstallDeferred /\ loop.pending # {}
             \/ InstallExtend /\ loop.extend # {}
    <3>1. PICK w \in loop.pending \cup loop.extend :
             /\ Grant(loop.class, w.line)
             /\ \/ loop' = [loop EXCEPT !.pending = @ \ {w},
                                        !.deferred = @ \cup ResultOf(w, loop.class)]
                \/ loop' = [loop EXCEPT !.extend = @ \ {w},
                                        !.extended = @ \cup ResultOf(w, loop.class)]
      BY <2>4 DEF InstallDeferred, InstallExtend
    <3>2. /\ Prepared' = Prepared \cup ResultOf(w, loop.class)
          /\ loop'.class = loop.class
          /\ \A v \in loop.pending \cup loop.extend :
                v = w \/ v \in loop'.pending \cup loop'.extend
      BY <1>l, <3>1 DEF Prepared, LoopState
    <3>3. UNCHANGED <<breakpoints, prepared>> /\ loop.class \in Classes
      BY <2>4 DEF InstallDeferred, InstallExtend, sessionVars, jvmVars, TypeInv,
                  LoopPhases
    <3>4. CASE loop.class = c /\ e.id = w.id
      <4>1. w.id \in Nat /\ w.line \in Nat /\ Gain(w.id, loop.class, w.line)
        BY <1>1, <3>1, <3>2, <3>3, LoopInstalls
      <4> QED
        BY <1>4, <3>3, <3>4, <4>1, GainServes
    <3>5. CASE ~(loop.class = c /\ e.id = w.id)
      BY <1>4, <3>2, <3>3, <3>5 DEF LoopWill
    <3> QED
      BY <3>4, <3>5
  <2>5. CASE Update \/ Notify \/ LoopResumes
    <3>1. prepared' = prepared /\ loop.pending \cup loop.extend = {}
      BY <2>5 DEF Update, Notify, LoopResumes, jvmVars, TypeInv, LoopPhases
    <3> QED
      BY <1>4, <3>1 DEF LoopWill
  <2> QED
    BY <1>0, <2>2, <2>3, <2>4, <2>5 DEF EventLoop
<1>5. ASSUME NEW e \in breakpoints, NEW c \in loaded',
             SourceOf[c] = e.file, Window(c, e.line) # {}
      PROVE  \/ c \in loaded /\ ~MainWill(e, c) /\ ~LoopWill(e, c)
             \/ Served(e, c) \/ Served(e, c)'
             \/ MainWill(e, c)' \/ LoopWill(e, c)'
  BY <1>1, <1>2, <1>4, <1>5
<1> QED
  BY <1>3, <1>5, CoverageKept

LEMMA CoverageInvariant == Spec => []Coverage
<1>1. Init => Coverage
  BY DEF Init, Coverage
<1>2. TypeInv /\ TypeInv' /\ Ids /\ Claims /\ Coverage /\ [Next]_vars => Coverage'
  <2> SUFFICES ASSUME TypeInv, TypeInv', Ids, Claims, Coverage, [Next]_vars,
                      session', Alive'
               PROVE  Coverage'
    BY DEF Coverage
  <2>1. CASE Launch
    BY <2>1, NothingHeldAtLaunch DEF Coverage
  <2>2. CASE ~Launch
    <3>1. session /\ Alive
      BY <2>2, StepKinds
    <3>2. ~JvmDies /\ ~Disconnect
      BY DEF JvmDies, JvmGone, Alive, Disconnect, NoSession
    <3> QED
      BY <2>2, <3>1, <3>2, CoverageOthers, CoverageSet, CoverageMain, CoverageLoop
      DEF Next, MainTask
  <2> QED
    BY <2>1, <2>2
<1> QED
  BY <1>1, <1>2, TypeInvariant, IdsInvariant, ClaimsInvariant, PTL DEF Spec

\* No breakpoint is missed: at rest every loaded class that has a line for an
\* entry has a request there, even if the two came at the same time.
THEOREM NoBreakpointMissed == Spec => []NoneMissed
<1>1. TypeInv /\ Coverage => NoneMissed
  <2> SUFFICES ASSUME TypeInv, Coverage, AtRest,
                      NEW e \in breakpoints, NEW c \in loaded,
                      SourceOf[c] = e.file, Window(c, e.line) # {}
               PROVE  \E r \in live : r.class = c /\ r.line = Nearest(c, e.line)
    BY DEF NoneMissed
  <2>1. Served(e, c) \/ MainWill(e, c) \/ LoopWill(e, c)
    BY DEF AtRest, Alive, Coverage
  <2>2. ~MainWill(e, c)
    BY DEF AtRest, MainWill, TypeInv, MainPhases, MainIdle
  <2>3. ~LoopWill(e, c)
    BY ClassesAssumption DEF AtRest, LoopWill, TypeInv, TypeOK, LoopPhases,
       JvmPhases, LoopIdle
  <2> QED
    BY <2>1, <2>2, <2>3 DEF Served
<1> QED
  BY <1>1, TypeInvariant, CoverageInvariant, PTL

-----------------------------------------------------------------------------
(* A careful editor.  It sets breakpoints only while the program is        *)
(* stopped, so the two tasks' critical sections do not overlap.            *)

\* The rest of a setBreakpoints request, and of the handling of a ClassPrepare.
Serving == \/ ClearOld \/ ListLoaded \/ InstallOnLoaded \/ EntryInstalled
           \/ StoreStates \/ Respond
Handling == \/ Collect \/ InstallDeferred \/ InstallExtend \/ Update
            \/ Notify \/ LoopResumes

Still == UNCHANGED <<breakpoints, nextBpId, main, loop, live, lastRequest, shown>>

LEMMA StaysCareful == [Next]_vars => careful' = careful
BY DEF Next, MainTask, EventLoop, JvmLoads, JvmStops, JvmDies, Launch, Disconnect,
       UserResumes, SetBreakpoints, SetWithoutSession, ClearOld, ListLoaded,
       InstallOnLoaded, EntryInstalled, StoreStates, Respond, Collect,
       InstallDeferred, InstallExtend, Update, Notify, LoopResumes, LoopEnds,
       Finished, vars, editorVars

LEMMA Alone ==
    ASSUME TypeInv, Apart, careful, Alive
    PROVE  /\ main.pc # "idle" => loop = LoopIdle /\ prepared = NoClass
           /\ loop.pc # "select" \/ prepared # NoClass => main = MainIdle
<1>1. main.pc # "idle" => jvm = "stopped"
  BY DEF Apart, Alive
<1>2. jvm = "stopped" => prepared = NoClass /\ loop.pc = "select"
  BY DEF TypeInv, JvmPhases
<1>3. loop.pc = "select" => loop = LoopIdle
  BY DEF TypeInv, LoopPhases, LoopIdle
<1>4. main.pc = "idle" => main = MainIdle
  BY DEF TypeInv, MainPhases
<1> QED
  BY <1>1, <1>2, <1>3, <1>4

LEMMA ApartInvariant == Spec => []Apart
<1>1. Init => Apart
  BY DEF Init, Apart, MainIdle
<1>2. TypeInv /\ Apart /\ [Next]_vars => Apart'
  <2> SUFFICES ASSUME TypeInv, Apart, [Next]_vars, careful, main'.pc # "idle"
               PROVE  jvm' \in {"stopped", "gone"}
    BY StaysCareful DEF Apart
  <2>1. CASE main.pc = "idle"
    <3>1. \E f \in Files, ls \in Requests : SetBreakpoints(f, ls)
      BY <2>1 DEF Next, MainTask, EventLoop, JvmLoads, JvmStops, JvmDies, Launch,
         Disconnect, UserResumes, SetWithoutSession, ClearOld, ListLoaded,
         InstallOnLoaded, EntryInstalled, StoreStates, Respond, Collect,
         InstallDeferred, InstallExtend, Update, Notify, LoopResumes, LoopEnds,
         Finished, vars
    <3>2. jvm' = jvm /\ jvm \notin {"running", "preparing"} /\ session
      BY <3>1 DEF SetBreakpoints, Asked, jvmVars
    <3> QED
      BY <3>2 DEF TypeInv, TypeOK
  <2>2. CASE main.pc # "idle"
    <3>1. jvm \in {"stopped", "gone"}
      BY <2>2 DEF Apart
    <3>2. LoopResumes => jvm = "gone" /\ ~Alive
      BY <3>1 DEF LoopResumes, TypeInv, JvmPhases, Alive
    <3>3. jvm' \in {jvm, "gone"}
      BY <2>2, <3>1, <3>2
      DEF Next, MainTask, EventLoop, JvmLoads, JvmStops, JvmDies, JvmGone, Launch,
         Disconnect, UserResumes, SetBreakpoints, Asked, SetWithoutSession, ClearOld,
         ListLoaded, InstallOnLoaded, EntryInstalled, StoreStates, Respond, Collect,
         InstallDeferred, InstallExtend, Update, Notify, LoopResumes, LoopEnds,
         Finished, vars, jvmVars
    <3> QED
      BY <3>1, <3>3
  <2> QED
    BY <2>1, <2>2
<1> QED
  BY <1>1, <1>2, TypeInvariant, PTL DEF Spec

\* What happens to a session with a careful editor while the JVM lives.
LEMMA CarefulSteps ==
    ASSUME TypeInv, Apart, careful, [Next]_vars, session', Alive'
    PROVE  \/ Launch
           \/ /\ session /\ Alive
              /\ \/ Still
                 \/ /\ loop' = loop /\ loop = LoopIdle
                    /\ \/ Serving
                       \/ \E f \in Files, ls \in Requests : SetBreakpoints(f, ls)
                 \/ main' = main /\ main = MainIdle /\ Handling
<1>1. CASE \/ \E c \in Classes : JvmLoads(c)
           \/ JvmStops \/ UserResumes \/ Finished \/ UNCHANGED vars
  BY <1>1 DEF JvmLoads, JvmStops, UserResumes, Finished, vars, sessionVars,
     requestVars, jvmVars, editorVars, Still, Alive
<1>2. ~JvmDies /\ ~Disconnect /\ ~LoopEnds
  BY DEF JvmDies, JvmGone, Alive, Disconnect, LoopEnds, NoSession
<1>3. ASSUME NEW f \in Files PROVE ~SetWithoutSession(f)
  BY DEF SetWithoutSession, sessionVars
<1>4. ASSUME NEW f \in Files, NEW ls \in Requests, SetBreakpoints(f, ls)
      PROVE  session /\ Alive /\ loop' = loop /\ loop = LoopIdle
  <2>1. /\ session /\ Alive /\ loop' = loop
        /\ jvm = "stopped"
    BY <1>4 DEF SetBreakpoints, Asked, jvmVars, Alive
  <2> QED
    BY <2>1 DEF TypeInv, JvmPhases, LoopPhases, LoopIdle
<1>5. CASE Serving
  <2>1. session /\ Alive /\ loop' = loop /\ main.pc # "idle"
    BY <1>5 DEF Serving, ClearOld, ListLoaded, InstallOnLoaded, EntryInstalled,
       StoreStates, Respond, jvmVars, sessionVars, Alive
  <2> QED
    BY <1>5, <2>1, Alone
<1>6. CASE Handling
  <2>1. /\ session /\ Alive /\ main' = main
        /\ loop.pc # "select" \/ prepared # NoClass
    BY <1>6 DEF Handling, Collect, InstallDeferred, InstallExtend, Update,
       Notify, LoopResumes, sessionVars, jvmVars, Alive
  <2> QED
    BY <1>6, <2>1, Alone
<1> QED
  BY <1>1, <1>2, <1>3, <1>4, <1>5, <1>6
  DEF Next, MainTask, EventLoop, Serving, Handling

\* The entries of the file that the main task is at.
LEMMA OwnEntriesSet ==
    ASSUME TypeInv, NEW file \in Files, NEW lines \in Requests,
           SetBreakpoints(file, lines)
    PROVE  OwnEntries'
<1> DEFINE new == [i \in 1 .. Len(lines) |->
                     [id |-> nextBpId + i - 1, line |-> lines[i]]]
           added == {[id |-> new[i].id, file |-> file, line |-> new[i].line,
                      state |-> "Pending", classes |-> {}] : i \in DOMAIN new}
<1>1. /\ breakpoints' = OtherFiles(file) \cup added
      /\ main' = [MainIdle EXCEPT !.pc = "clear", !.file = file,
                                  !.old = IdsOf(breakpoints \ OtherFiles(file)),
                                  !.todo = new]
  BY DEF SetBreakpoints, Retained
<1> HIDE DEF new
<1>2. /\ main'.todo = new /\ main'.pc = "clear" /\ main'.results = {}
      /\ main'.file = file
  BY <1>1 DEF MainIdle
<1>3. \A e \in added : e.state = "Pending" /\ \E j \in DOMAIN new : new[j].id = e.id
  OBVIOUS
<1>4. ASSUME NEW j \in DOMAIN new PROVE \E e \in added : new[j].id = e.id
  <2> DEFINE e0 == [id |-> new[j].id, file |-> file, line |-> new[j].line,
                    state |-> "Pending", classes |-> {}]
  <2>1. e0 \in added /\ e0.id = new[j].id
    OBVIOUS
  <2> QED
    BY <2>1
<1>5. \A e \in OtherFiles(file) : e.file # file
  BY DEF OtherFiles
<1> HIDE DEF added
<1> QED
  BY <1>1, <1>2, <1>3, <1>4, <1>5 DEF OwnEntries

\* Writing back gives an entry what was gathered for it.
LEMMA StoredGathers ==
    ASSUME TypeInv, Ids, session,
           NEW e \in breakpoints, NEW r \in main.results, e.id = r.id
    PROVE  /\ Stored(e).classes = r.classes
           /\ Stored(e).state = FinalState(main.file, r.classes)
<1> DEFINE own == {q \in main.results : q.id = e.id}
           is  == UNION {q.classes : q \in own}
<1>1. own = {r}
  BY DEF Ids
<1>2. is = r.classes
  BY <1>1
<1>3. Stored(e) = [e EXCEPT !.state = FinalState(main.file, r.classes),
                            !.classes = r.classes]
  BY <1>1, <1>2 DEF Stored
<1>4. e \in Entry
  BY DEF TypeInv, TypeOK
<1> QED
  BY <1>3, <1>4 DEF Entry

LEMMA OwnEntriesMain ==
    ASSUME TypeInv, Ids, OwnEntries, careful, session, Alive, Serving
    PROVE  OwnEntries'
<1>m. main \in MainState
  BY DEF TypeInv, TypeOK
<1>0. main.pc # "idle"
  BY DEF Serving, ClearOld, ListLoaded, InstallOnLoaded, EntryInstalled,
     StoreStates, Respond
<1>1. CASE ClearOld \/ ListLoaded \/ InstallOnLoaded
  <2>1. UNCHANGED breakpoints /\ main.pc # "respond"
    BY <1>1 DEF ClearOld, ListLoaded, InstallOnLoaded, sessionVars
  <2>2. main'.todo = main.todo /\ main'.results = main.results
        /\ main'.file = main.file /\ main'.pc # "respond"
    BY <1>m, <1>1 DEF ClearOld, ListLoaded, InstallOnLoaded, MainState
  <2> QED
    BY <1>0, <2>1, <2>2 DEF OwnEntries
<1>2. CASE EntryInstalled
  <2>1. UNCHANGED breakpoints /\ main.pc = "install" /\ main.todo # <<>>
    BY <1>2 DEF EntryInstalled, sessionVars, TypeInv, MainPhases
  <2> DEFINE done == [id |-> Head(main.todo).id, line |-> Head(main.todo).line,
                      classes |-> main.classes]
  <2>2. main' = [main EXCEPT !.pc = "list", !.todo = Tail(@),
                             !.results = @ \cup {done}]
    BY <1>2 DEF EntryInstalled
  <2>3. /\ 1 \in DOMAIN main.todo /\ done.id = main.todo[1].id
        /\ \A i \in DOMAIN Tail(main.todo) :
               i + 1 \in DOMAIN main.todo /\ Tail(main.todo)[i] = main.todo[i + 1]
        /\ \A i \in DOMAIN main.todo : i # 1 =>
               i - 1 \in DOMAIN Tail(main.todo) /\ Tail(main.todo)[i - 1] = main.todo[i]
    BY <1>m, <2>1, TailElements DEF MainState
  <2> HIDE DEF done
  <2>4. /\ main'.todo = Tail(main.todo) /\ main'.pc = "list"
        /\ main'.results = main.results \cup {done} /\ main'.file = main.file
    BY <1>m, <2>2 DEF MainState
  <2>5. ASSUME NEW e \in breakpoints, NEW j \in DOMAIN main.todo, main.todo[j].id = e.id
        PROVE  \/ \E k \in DOMAIN main'.todo : main'.todo[k].id = e.id
               \/ \E r \in main'.results : r.id = e.id
    <3>1. CASE j = 1
      BY <2>3, <2>4, <2>5, <3>1
    <3>2. CASE j # 1
      <4>1. j - 1 \in DOMAIN main'.todo /\ main'.todo[j - 1].id = e.id
        BY <2>3, <2>4, <2>5, <3>2
      <4> QED
        BY <4>1
    <3> QED
      BY <3>1, <3>2
  <2>6. \A e \in breakpoints : e.file = main.file =>
           \/ \E j \in DOMAIN main'.todo : main'.todo[j].id = e.id
           \/ \E r \in main'.results : r.id = e.id
    BY <1>0, <2>4, <2>5 DEF OwnEntries
  <2>7. \A j \in DOMAIN main'.todo : \E e \in breakpoints : main'.todo[j].id = e.id
    BY <1>0, <2>3, <2>4 DEF OwnEntries
  <2>8. \A r \in main'.results : \E e \in breakpoints : e.id = r.id
    <3>1. \E e \in breakpoints : e.id = done.id
      BY <1>0, <2>3 DEF OwnEntries
    <3> QED
      BY <1>0, <2>4, <3>1 DEF OwnEntries
  <2>9. \A e \in breakpoints : e.file = main.file => e.state = "Pending"
    BY <1>0, <2>1 DEF OwnEntries
  <2> QED
    BY <2>1, <2>4, <2>6, <2>7, <2>8, <2>9 DEF OwnEntries
<1>3. CASE StoreStates
  <2>1. breakpoints' = {Stored(e) : e \in breakpoints}
    BY <1>3 DEF StoreStates
  <2>2. /\ main'.todo = main.todo /\ main'.results = main.results
        /\ main'.file = main.file /\ main'.pc = "respond"
    BY <1>m, <1>3 DEF StoreStates, MainState
  <2>3. \A e \in breakpoints' : \E f \in breakpoints :
           e = Stored(f) /\ e.id = f.id /\ e.file = f.file
    BY <2>1, StoredType
  <2>4. \A f \in breakpoints : \E e \in breakpoints' : e.id = f.id
    BY <2>1, StoredType
  <2>5. \A e \in breakpoints', r \in main.results : e.id = r.id =>
           e.classes = r.classes /\ e.state = FinalState(main.file, r.classes)
    BY <2>3, StoredGathers
  <2> QED
    BY <1>0, <2>2, <2>3, <2>4, <2>5 DEF OwnEntries
<1>4. CASE Respond
  BY <1>4 DEF Respond, OwnEntries, MainIdle
<1> QED
  BY <1>1, <1>2, <1>3, <1>4 DEF Serving

LEMMA OwnEntriesInvariant == Spec => []OwnEntries
<1>1. Init => OwnEntries
  BY DEF Init, OwnEntries
<1>2. TypeInv /\ Ids /\ Apart /\ OwnEntries /\ [Next]_vars => OwnEntries'
  <2> SUFFICES ASSUME TypeInv, Ids, Apart, OwnEntries, [Next]_vars,
                      careful, session', Alive', main'.pc # "idle"
               PROVE  OwnEntries'
    BY StaysCareful DEF OwnEntries
  <2>1. ~Launch
    BY DEF Launch, MainIdle
  <2>2. CASE session /\ Still
    BY <2>1, <2>2, CarefulSteps DEF Still, OwnEntries
  <2>3. ~(main' = main /\ main = MainIdle)
    BY DEF MainIdle
  <2> QED
    BY <2>1, <2>2, <2>3, CarefulSteps, OwnEntriesMain, OwnEntriesSet
<1> QED
  BY <1>1, <1>2, TypeInvariant, IdsInvariant, ApartInvariant, PTL DEF Spec

\* What the second critical section of the event loop makes of an entry.
LEMMA UpdatedGathers ==
    ASSUME TypeInv, NEW e \in breakpoints
    PROVE  /\ \A r \in loop.deferred : r.id = e.id =>
                  Updated(e).state = "Installed" /\ r.classes \subseteq Updated(e).classes
           /\ \A r \in loop.extended : r.id = e.id /\ e.state = "Installed" =>
                  Updated(e).state = "Installed" /\ r.classes \subseteq Updated(e).classes
           /\ (\A r \in loop.deferred : r.id # e.id) =>
                  Updated(e).state = e.state /\ e.classes \subseteq Updated(e).classes
<1> DEFINE def == {r \in loop.deferred : r.id = e.id}
           ext == {r \in loop.extended : r.id = e.id}
           ds  == UNION {r.classes : r \in def}
           xs  == UNION {r.classes : r \in ext}
           d   == IF def = {} THEN e
                  ELSE [e EXCEPT !.state = "Installed", !.classes = ds]
<1>1. e \in Entry
  BY DEF TypeInv, TypeOK
<1>2. Updated(e) = IF d.state = "Installed" THEN [d EXCEPT !.classes = @ \cup xs]
                   ELSE d
  BY DEF Updated
<1>3. \A r \in def : r.classes \subseteq ds
  OBVIOUS
<1>4. \A r \in ext : r.classes \subseteq xs
  OBVIOUS
<1> HIDE DEF ds, xs
<1>5. def = {} => d = e
  OBVIOUS
<1>6. /\ def # {} => d.state = "Installed" /\ d.classes = ds
      /\ DOMAIN d = {"id", "file", "line", "state", "classes"}
      /\ d = [x \in DOMAIN d |-> d[x]]
  BY <1>1 DEF Entry
<1> HIDE DEF d, def, ext
<1>7. /\ Updated(e).state = d.state /\ d.classes \subseteq Updated(e).classes
      /\ d.state = "Installed" => xs \subseteq Updated(e).classes
  BY <1>2, <1>6
<1> QED
  BY <1>3, <1>4, <1>5, <1>6, <1>7 DEF def, ext

\* What the event loop is at, step by step.
LEMMA AsFoundLoop ==
    ASSUME TypeInv, AsFound, careful, session, Alive, Handling
    PROVE  AsFound'
<1>l. loop \in LoopState
  BY DEF TypeInv, TypeOK
<1>1. CASE Collect
  <2> DEFINE ofSource == {f \in breakpoints : f.file = SourceOf[prepared]}
             pending  == {f \in ofSource : f.state = "Pending"}
             extend   == {f \in ofSource : ExtendsTo(f, prepared)}
  <2>1. /\ loop' = [LoopIdle EXCEPT
                     !.pc = IF pending = {} /\ extend = {} THEN "resume"
                            ELSE "deferred",
                     !.class = prepared,
                     !.pending = WantedOf(pending),
                     !.extend = WantedOf(extend)]
        /\ UNCHANGED breakpoints
    BY <1>1 DEF Collect, sessionVars
  <2>2. /\ \A w \in WantedOf(pending) : \E e \in breakpoints :
               e.id = w.id /\ e.state = "Pending"
        /\ \A w \in WantedOf(extend) : \E e \in breakpoints :
               e.id = w.id /\ e.state = "Installed"
    BY DEF WantedOf, ExtendsTo
  <2> HIDE DEF pending, extend
  <2>3. /\ loop'.pc \in {"resume", "deferred"}
        /\ loop'.pending = WantedOf(pending) /\ loop'.extend = WantedOf(extend)
        /\ loop'.deferred = {} /\ loop'.extended = {}
    BY <2>1 DEF LoopIdle
  <2> QED
    BY <2>1, <2>2, <2>3 DEF AsFound
<1>2. CASE \/ InstallDeferred /\ loop.pending = {}
           \/ InstallExtend /\ loop.extend = {}
  <2>1. /\ UNCHANGED breakpoints /\ loop.pc \in {"deferred", "extend"}
        /\ loop'.pc \in {"extend", "update"}
        /\ loop'.pending = loop.pending /\ loop'.extend = loop.extend
        /\ loop'.deferred = loop.deferred /\ loop'.extended = loop.extended
    BY <1>l, <1>2 DEF InstallDeferred, InstallExtend, sessionVars, LoopState
  <2> QED
    BY <2>1 DEF AsFound
<1>3. CASE \/ InstallDeferred /\ loop.pending # {}
           \/ InstallExtend /\ loop.extend # {}
  <2>1. UNCHANGED breakpoints /\ loop.pc \in {"deferred", "extend"}
        /\ loop'.pc = loop.pc
    BY <1>l, <1>3 DEF InstallDeferred, InstallExtend, sessionVars, LoopState
  <2>2. /\ \A w \in loop'.pending \cup loop'.deferred :
               \E v \in loop.pending \cup loop.deferred : v.id = w.id
        /\ \A w \in loop'.extend \cup loop'.extended :
               \E v \in loop.extend \cup loop.extended : v.id = w.id
    <3>1. PICK w \in loop.pending \cup loop.extend :
             \/ loop' = [loop EXCEPT !.pending = @ \ {w},
                                     !.deferred = @ \cup ResultOf(w, loop.class)]
                /\ w \in loop.pending
             \/ loop' = [loop EXCEPT !.extend = @ \ {w},
                                     !.extended = @ \cup ResultOf(w, loop.class)]
                /\ w \in loop.extend
      BY <1>3 DEF InstallDeferred, InstallExtend
    <3>2. \A r \in ResultOf(w, loop.class) : r.id = w.id
      BY DEF ResultOf
    <3> QED
      BY <1>l, <3>1, <3>2 DEF LoopState
  <2> QED
    BY <2>1, <2>2 DEF AsFound
<1>4. CASE Update
  <2>1. /\ breakpoints' = {Updated(e) : e \in breakpoints}
        /\ loop.pc = "update" /\ loop'.pc = "notify" /\ loop'.deferred = loop.deferred
    BY <1>l, <1>4 DEF Update, LoopState
  <2>2. ASSUME NEW r \in loop.deferred
        PROVE  \E e \in breakpoints' :
                   e.id = r.id /\ e.state = "Installed" /\ r.classes \subseteq e.classes
    <3>1. PICK f \in breakpoints : f.id = r.id
      BY <2>1 DEF AsFound
    <3>2. /\ Updated(f) \in breakpoints' /\ Updated(f).id = r.id
          /\ Updated(f).state = "Installed" /\ r.classes \subseteq Updated(f).classes
      BY <2>1, <3>1, UpdatedType, UpdatedGathers
    <3> QED
      BY <3>2
  <2> QED
    BY <2>1, <2>2 DEF AsFound
<1>5. CASE Notify \/ LoopResumes
  <2>1. loop'.pc \in {"resume", "select"}
    <3>1. CASE Notify
      BY <1>l, <3>1 DEF Notify, LoopState
    <3>2. CASE LoopResumes
      BY <3>2 DEF LoopResumes, LoopIdle
    <3> QED
      BY <1>5, <3>1, <3>2
  <2> QED
    BY <2>1 DEF AsFound
<1> QED
  BY <1>1, <1>2, <1>3, <1>4, <1>5 DEF Handling

LEMMA AsFoundInvariant == Spec => []AsFound
<1>1. Init => AsFound
  BY DEF Init, AsFound
<1>2. TypeInv /\ Apart /\ AsFound /\ [Next]_vars => AsFound'
  <2> SUFFICES ASSUME TypeInv, Apart, AsFound, [Next]_vars,
                      careful, session', Alive'
               PROVE  AsFound'
    BY StaysCareful DEF AsFound
  <2>1. CASE session /\ Alive /\ Still
    BY <2>1 DEF Still, AsFound
  <2>2. CASE Launch \/ (loop' = loop /\ loop = LoopIdle)
    <3>1. loop'.pc = "select"
      BY <2>2 DEF Launch, TypeInv, JvmPhases, LoopIdle
    <3> QED
      BY <3>1 DEF AsFound
  <2> QED
    BY <2>1, <2>2, CarefulSteps, AsFoundLoop
<1> QED
  BY <1>1, <1>2, TypeInvariant, ApartInvariant, PTL DEF Spec

-----------------------------------------------------------------------------
(* No orphans.                                                             *)

\* What a request that was just granted is recorded in.
LEMMA GrantedRecorded ==
    ASSUME NEW c, NEW line, Grant(c, line), NEW r \in live', r \notin live
    PROVE  \E i \in Granted(c, line) : i.request = r.id
<1>1. Installs(c, line)
  BY DEF Grant, requestVars
<1>2. r.id = lastRequest + 1
  BY <1>1 DEF Grant
<1> QED
  BY <1>1, <1>2 DEF Granted

LEMMA RecordedSet ==
    ASSUME TypeInv, Recorded, careful, session, Alive, loop = LoopIdle,
           NEW file \in Files, NEW lines \in Requests, SetBreakpoints(file, lines)
    PROVE  Recorded'
<1>1. Replace(file) /\ main.pc = "idle"
  BY SetReplaces DEF SetBreakpoints, Asked
<1>2. main.old = {} /\ Gathered = {} /\ loop.pc = "select"
  BY <1>1 DEF TypeInv, MainPhases, MainIdle, Gathered, InHand, LoopIdle
<1>3. live' = live /\ OtherFiles(file) \subseteq breakpoints'
  BY <1>1 DEF Replace, requestVars
<1>4. ASSUME NEW r \in live PROVE r.id \in main'.old \/ Request(r.id, breakpoints')
  <2>1. PICK e \in breakpoints : \E i \in e.classes : i.request = r.id
    BY <1>2 DEF Recorded, Request
  <2>2. CASE e \in OtherFiles(file)
    BY <1>3, <2>1, <2>2 DEF Request
  <2>3. CASE e \notin OtherFiles(file)
    BY <1>1, <2>1, <2>3 DEF Replace, IdsOf
  <2> QED
    BY <2>2, <2>3
<1> QED
  BY <1>3, <1>4 DEF Recorded

LEMMA RecordedMain ==
    ASSUME TypeInv, Ids, OwnEntries, Recorded, careful, session, Alive,
           loop = LoopIdle, loop' = loop, Serving
    PROVE  Recorded'
<1>m. main \in MainState
  BY DEF TypeInv, TypeOK
<1>0. loop.pc = "select" /\ main.pc # "idle"
  BY DEF LoopIdle, Serving, ClearOld, ListLoaded, InstallOnLoaded, EntryInstalled,
     StoreStates, Respond
<1>1. CASE ClearOld
  <2>1. /\ main'.results = main.results /\ main.pc # "install" /\ main'.pc # "install"
        /\ main'.pc # "respond" /\ UNCHANGED breakpoints
    BY <1>m, <1>1 DEF ClearOld, MainState, sessionVars
  <2>2. \A r \in live' : r \in live /\ (r.id \in main.old => r.id \in main'.old)
    BY <1>m, <1>1 DEF ClearOld, MainState
  <2>3. Gathered' = Gathered
    BY <2>1 DEF Gathered, InHand
  <2> QED
    BY <1>0, <2>1, <2>2, <2>3 DEF Recorded
<1>2. CASE ListLoaded
  <2>1. /\ main'.results = main.results /\ main.pc = "list" /\ main'.old = main.old
        /\ main'.pc # "respond" /\ UNCHANGED <<breakpoints, live>>
    BY <1>m, <1>2 DEF ListLoaded, MainState, sessionVars, requestVars
  <2>2. Gathered \subseteq Gathered'
    BY <2>1 DEF Gathered, InHand
  <2> QED
    BY <1>0, <2>1, <2>2 DEF Recorded, Request
<1>3. CASE InstallOnLoaded
  <2> DEFINE line == Head(main.todo).line
  <2>1. PICK c \in main.found :
           /\ Grant(c, line)
           /\ main' = [main EXCEPT !.found = @ \ {c},
                                   !.classes = @ \cup Granted(c, line)]
    BY <1>3 DEF InstallOnLoaded
  <2>2. /\ main'.results = main.results /\ main'.old = main.old
        /\ main'.todo = main.todo /\ main'.pc = "install" /\ main.pc = "install"
        /\ main'.classes = main.classes \cup Granted(c, line)
        /\ UNCHANGED breakpoints
    BY <1>m, <1>3, <2>1 DEF InstallOnLoaded, MainState, sessionVars
  <2> DEFINE held(is) == [id |-> Head(main.todo).id, line |-> line, classes |-> is]
  <2>a. /\ Gathered = main.results \cup {held(main.classes)}
        /\ Gathered' = main.results \cup {held(main.classes \cup Granted(c, line))}
    BY <2>2 DEF Gathered, InHand
  <2>b. \A is : held(is).classes = is
    OBVIOUS
  <2> HIDE DEF held
  <2>3. \A n : Request(n, Gathered) => Request(n, Gathered')
    BY <2>a, <2>b DEF Request
  <2>4. \A i \in Granted(c, line) : Request(i.request, Gathered')
    BY <2>a, <2>b DEF Request
  <2>5. \A r \in live' : r \in live \/ \E i \in Granted(c, line) : i.request = r.id
    BY <2>1, GrantedRecorded
  <2> QED
    BY <1>0, <2>2, <2>3, <2>4, <2>5 DEF Recorded
<1>4. CASE EntryInstalled
  <2>1. UNCHANGED <<breakpoints, live>> /\ main.pc = "install"
    BY <1>4 DEF EntryInstalled, sessionVars, requestVars
  <2> DEFINE done == [id |-> Head(main.todo).id, line |-> Head(main.todo).line,
                      classes |-> main.classes]
  <2>2. main' = [main EXCEPT !.pc = "list", !.todo = Tail(@),
                             !.results = @ \cup {done}]
    BY <1>4 DEF EntryInstalled
  <2>3. InHand = {done}
    BY <2>1 DEF InHand
  <2> HIDE DEF done
  <2>4. /\ main'.results = main.results \cup {done} /\ main'.old = main.old
        /\ main'.pc = "list"
    BY <1>m, <2>2 DEF MainState
  <2>5. Gathered' = Gathered
    BY <2>1, <2>3, <2>4 DEF Gathered, InHand
  <2> QED
    BY <1>0, <2>1, <2>4, <2>5 DEF Recorded
<1>5. CASE StoreStates
  <2>1. /\ breakpoints' = {Stored(e) : e \in breakpoints}
        /\ live' = live /\ main.pc = "store" /\ main.old = {}
    BY <1>5 DEF StoreStates, requestVars, TypeInv, MainPhases
  <2>2. Gathered = main.results
    BY <2>1 DEF Gathered, InHand
  <2>3. ASSUME NEW r \in live PROVE Request(r.id, breakpoints')
    <3>1. CASE Request(r.id, Gathered)
      <4>1. PICK q \in main.results : \E i \in q.classes : i.request = r.id
        BY <2>2, <3>1 DEF Request
      <4>2. PICK e \in breakpoints : e.id = q.id
        BY <1>0 DEF OwnEntries
      <4>3. Stored(e).classes = q.classes
        BY <4>2, StoredGathers
      <4> QED
        BY <2>1, <4>1, <4>3 DEF Request
    <3>2. CASE Request(r.id, breakpoints)
      <4>1. PICK e \in breakpoints : \E i \in e.classes : i.request = r.id
        BY <3>2 DEF Request
      <4>2. e.file # main.file
        BY <1>0, <2>1, <4>1 DEF OwnEntries, TypeInv, TypeOK
      <4>3. Stored(e) = e
        BY <4>2 DEF Stored, Ids
      <4> QED
        BY <2>1, <4>1, <4>3 DEF Request
    <3> QED
      BY <1>0, <2>1, <3>1, <3>2 DEF Recorded
  <2> QED
    BY <2>1, <2>3 DEF Recorded
<1>6. CASE Respond
  <2>1. UNCHANGED <<breakpoints, live>> /\ main.pc = "respond" /\ main.old = {}
    BY <1>6 DEF Respond, sessionVars, requestVars, TypeInv, MainPhases
  <2> QED
    BY <1>0, <2>1 DEF Recorded
<1> QED
  BY <1>1, <1>2, <1>3, <1>4, <1>5, <1>6 DEF Serving

LEMMA RecordedLoop ==
    ASSUME TypeInv, Ids, AsFound, Recorded, careful, session, Alive,
           main = MainIdle, main' = main, Handling
    PROVE  Recorded'
<1>l. loop \in LoopState
  BY DEF TypeInv, TypeOK
<1>0. main.old = {} /\ \A n : ~Request(n, Gathered)
  BY DEF MainIdle, Gathered, InHand, Request
<1>1. CASE Collect \/ Notify \/ LoopResumes
  <2>1. /\ UNCHANGED <<breakpoints, live>>
        /\ loop.pc \notin {"deferred", "extend", "update"}
    BY <1>1 DEF Collect, Notify, LoopResumes, sessionVars, requestVars
  <2> QED
    BY <1>0, <2>1 DEF Recorded
<1>2. CASE \/ InstallDeferred /\ loop.pending = {}
           \/ InstallExtend /\ loop.extend = {}
  <2>1. /\ UNCHANGED <<breakpoints, live>> /\ loop'.pc \in {"extend", "update"}
        /\ Prepared' = Prepared
    BY <1>l, <1>2 DEF InstallDeferred, InstallExtend, sessionVars, requestVars,
                      LoopState, Prepared
  <2> QED
    BY <1>0, <2>1 DEF Recorded
<1>3. CASE \/ InstallDeferred /\ loop.pending # {}
           \/ InstallExtend /\ loop.extend # {}
  <2>1. PICK w \in loop.pending \cup loop.extend :
           /\ Grant(loop.class, w.line)
           /\ \/ loop' = [loop EXCEPT !.pending = @ \ {w},
                                      !.deferred = @ \cup ResultOf(w, loop.class)]
              \/ loop' = [loop EXCEPT !.extend = @ \ {w},
                                      !.extended = @ \cup ResultOf(w, loop.class)]
    BY <1>3 DEF InstallDeferred, InstallExtend
  <2>2. /\ Prepared' = Prepared \cup ResultOf(w, loop.class)
        /\ loop'.pc = loop.pc
    BY <1>l, <2>1 DEF Prepared, LoopState
  <2>3. UNCHANGED breakpoints /\ loop.pc \in {"deferred", "extend"}
    BY <1>3 DEF InstallDeferred, InstallExtend, sessionVars
  <2>4. \A n : Request(n, Prepared) => Request(n, Prepared')
    BY <2>2 DEF Request
  <2>5. ASSUME NEW i \in Granted(loop.class, w.line) PROVE Request(i.request, Prepared')
    <3>1. [id |-> w.id, line |-> w.line, classes |-> Granted(loop.class, w.line)]
             \in ResultOf(w, loop.class)
      BY <2>5 DEF ResultOf
    <3> QED
      BY <2>2, <3>1 DEF Request
  <2>6. \A r \in live' : r \in live \/
           \E i \in Granted(loop.class, w.line) : i.request = r.id
    BY <2>1, GrantedRecorded
  <2> QED
    BY <1>0, <2>2, <2>3, <2>4, <2>5, <2>6 DEF Recorded
<1>4. CASE Update
  <2>1. /\ breakpoints' = {Updated(e) : e \in breakpoints}
        /\ live' = live /\ loop.pc = "update"
    BY <1>4 DEF Update, requestVars
  <2>2. ASSUME NEW r \in live PROVE Request(r.id, breakpoints')
    <3>1. CASE Request(r.id, Prepared)
      <4>1. PICK q \in loop.deferred \cup loop.extended : \E i \in q.classes :
               i.request = r.id
        BY <3>1 DEF Request, Prepared
      <4>2. PICK e \in breakpoints : e.id = q.id /\
               (q \in loop.deferred \/ e.state = "Installed")
        BY <2>1, <4>1 DEF AsFound
      <4>3. q.classes \subseteq Updated(e).classes
        BY <4>1, <4>2, UpdatedGathers
      <4> QED
        BY <2>1, <4>1, <4>3 DEF Request
    <3>2. CASE Request(r.id, breakpoints)
      <4>1. PICK e \in breakpoints : \E i \in e.classes : i.request = r.id
        BY <3>2 DEF Request
      <4>2. e.state # "Pending"
        BY <4>1 DEF TypeInv, TypeOK
      <4>3. \A q \in loop.deferred : q.id # e.id
        BY <2>1, <4>2 DEF AsFound, Ids
      <4>4. e.classes \subseteq Updated(e).classes
        BY <4>3, UpdatedGathers
      <4> QED
        BY <2>1, <4>1, <4>4 DEF Request
    <3> QED
      BY <1>0, <3>1, <3>2 DEF Recorded, Request
  <2> QED
    BY <2>1, <2>2 DEF Recorded
<1> QED
  BY <1>1, <1>2, <1>3, <1>4 DEF Handling

LEMMA RecordedInvariant == Spec => []Recorded
<1>1. Init => Recorded
  BY DEF Init, Recorded
<1>2. TypeInv /\ Ids /\ CarefulInv /\ [Next]_vars => Recorded'
  <2> SUFFICES ASSUME TypeInv, Ids, CarefulInv, [Next]_vars,
                      careful, session', Alive'
               PROVE  Recorded'
    BY StaysCareful DEF Recorded
  <2>1. CASE session /\ Alive /\ Still
    BY <2>1, SameHeld DEF Still, CarefulInv, Recorded
  <2>2. CASE Launch
    <3>1. live' = {}
      BY <2>2 DEF Launch, requestVars, TypeInv, JvmPhases
    <3> QED
      BY <3>1 DEF Recorded
  <2> QED
    BY <2>1, <2>2, CarefulSteps, RecordedSet, RecordedMain, RecordedLoop
    DEF CarefulInv
<1> QED
  BY <1>1, <1>2, TypeInvariant, IdsInvariant, ApartInvariant, OwnEntriesInvariant,
     AsFoundInvariant, PTL DEF Spec, CarefulInv

\* Nothing the user cannot remove: at rest every request in the JVM is recorded
\* in an entry, for an editor that sets breakpoints while the program is stopped.
THEOREM NoRequestOrphaned == Spec => []NoOrphans
<1>1. TypeInv /\ Recorded => NoOrphans
  <2> SUFFICES ASSUME TypeInv, Recorded, careful, AtRest, NEW r \in live
               PROVE  r.id \in IdsOf(breakpoints)
    BY DEF NoOrphans
  <2>1. main.old = {} /\ Gathered = {}
    BY DEF AtRest, TypeInv, MainPhases, MainIdle, Gathered, InHand
  <2>2. Request(r.id, breakpoints)
    BY <2>1 DEF AtRest, Alive, Recorded, Request
  <2> QED
    BY <2>2 DEF Request, IdsOf
<1> QED
  BY <1>1, TypeInvariant, RecordedInvariant, PTL

\* A pending breakpoint waits for a class: at rest no loaded class has a line
\* for it, for an editor that sets breakpoints while the program is stopped.
THEOREM PendingWaits == Spec => []PendingAwaits
<1>1. TypeInv /\ Ids /\ Coverage /\ NoneMissed /\ Recorded => PendingAwaits
  <2> SUFFICES ASSUME TypeInv, Ids, Coverage, Recorded, careful, AtRest,
                      NEW e \in breakpoints, NEW c \in loaded,
                      e.state = "Pending", SourceOf[c] = e.file, Window(c, e.line) # {}
               PROVE  FALSE
    BY DEF PendingAwaits, PendingAwaitsItsClass
  <2>1. ~MainWill(e, c)
    BY DEF AtRest, MainWill, TypeInv, MainPhases, MainIdle
  <2>2. ~LoopWill(e, c)
    BY ClassesAssumption DEF AtRest, LoopWill, TypeInv, TypeOK, LoopPhases,
       JvmPhases, LoopIdle
  <2>3. PICK r \in live : Serves(r, e)
    BY <2>1, <2>2 DEF AtRest, Alive, Coverage, Served
  <2>4. main.old = {} /\ Gathered = {}
    BY DEF AtRest, TypeInv, MainPhases, MainIdle, Gathered, InHand
  <2>5. PICK f \in breakpoints : \E i \in f.classes : i.request = r.id
    BY <2>4 DEF AtRest, Alive, Recorded, Request
  <2>6. f = e
    BY <2>3, <2>5 DEF AtRest, Serves, Holders, Ids
  <2> QED
    BY <2>5, <2>6 DEF TypeInv, TypeOK
<1> QED
  BY <1>1, TypeInvariant, IdsInvariant, CoverageInvariant, NoBreakpointMissed,
     RecordedInvariant, PTL

-----------------------------------------------------------------------------
(* What the editor shows.                                                  *)

\* But for the events still to be sent, telling the same is not of a moment.
LEMMA SameKept ==
    ASSUME loop.pc # "notify", NEW s, NEW e, Same(s, e) PROVE Same(s, e)'
BY DEF Same

LEMMA MirroredSet ==
    ASSUME TypeInv, Mirrored, careful, session, Alive, loop = LoopIdle,
           NEW file \in Files, NEW lines \in Requests, SetBreakpoints(file, lines)
    PROVE  Mirrored'
<1>1. main.pc = "idle" /\ shown' = shown
  BY DEF SetBreakpoints, Asked
<1>2. main'.pc = "clear" /\ main'.file = file
  BY DEF SetBreakpoints, MainIdle
<1>3. PICK added : /\ breakpoints' = OtherFiles(file) \cup added
                   /\ \A e \in added : e.file = file
  BY SetReplaces DEF Replace
<1>4. \A s, e : Same(s, e) => Same(s, e)'
  BY SameKept DEF LoopIdle
<1>5. \A e \in breakpoints' : e.file # file => e \in breakpoints
  BY <1>3 DEF OtherFiles
<1>6. \A e \in breakpoints : e.file # file => e \in breakpoints'
  BY <1>3 DEF OtherFiles
<1>7. \A s, e : Same(s, e) => s.file = e.file
  BY DEF Same
<1> QED
  BY <1>1, <1>2, <1>4, <1>5, <1>6, <1>7 DEF Mirrored

LEMMA MirroredMain ==
    ASSUME TypeInv, Ids, OwnEntries, Mirrored, careful, session, Alive,
           loop = LoopIdle, loop' = loop, Serving
    PROVE  Mirrored'
<1>m. main \in MainState
  BY DEF TypeInv, TypeOK
<1>0. main.pc # "idle"
  BY DEF Serving, ClearOld, ListLoaded, InstallOnLoaded, EntryInstalled,
     StoreStates, Respond
<1>s. \A s, e : Same(s, e) => s.file = e.file /\ Same(s, e)'
  BY SameKept DEF LoopIdle, Same
<1>1. CASE ClearOld \/ ListLoaded \/ InstallOnLoaded \/ EntryInstalled
  <2>1. UNCHANGED <<breakpoints, shown>>
    BY <1>1 DEF ClearOld, ListLoaded, InstallOnLoaded, EntryInstalled,
       sessionVars, editorVars
  <2>2. main'.file = main.file /\ main'.pc # "idle"
    BY <1>m, <1>1 DEF ClearOld, ListLoaded, InstallOnLoaded, EntryInstalled, MainState
  <2> QED
    BY <1>0, <1>s, <2>1, <2>2 DEF Mirrored
<1>2. CASE StoreStates
  <2>1. breakpoints' = {Stored(e) : e \in breakpoints} /\ shown' = shown
    BY <1>2 DEF StoreStates, editorVars
  <2>2. main'.file = main.file /\ main'.pc # "idle"
    BY <1>m, <1>2 DEF StoreStates, MainState
  <2>3. \A e \in breakpoints : e.file # main.file => Stored(e) = e
    BY DEF Stored, Ids
  <2>4. \A e \in breakpoints : Stored(e).file = e.file
    BY StoredType
  <2>5. \A e \in breakpoints' : e.file # main.file => e \in breakpoints
    BY <2>1, <2>3, <2>4
  <2>6. \A e \in breakpoints : e.file # main.file => e \in breakpoints'
    BY <2>1, <2>3
  <2> QED
    BY <1>0, <1>s, <2>1, <2>2, <2>5, <2>6 DEF Mirrored
<1>3. CASE Respond
  <2> DEFINE tell(r) == [id |-> r.id, file |-> main.file, line |-> ShownLine(r),
                         verified |-> Verified(r.classes)]
  <2>1. /\ shown' = {s \in shown : s.file # main.file} \cup {tell(r) : r \in main.results}
        /\ main' = MainIdle /\ UNCHANGED breakpoints
        /\ main.pc = "respond" /\ main.todo = <<>>
    BY <1>3 DEF Respond, sessionVars, TypeInv, MainPhases
  <2>2. ASSUME NEW r \in main.results, NEW e \in breakpoints, r.id = e.id,
               NEW s, s = tell(r)
        PROVE  Same(s, e)'
    <3>1. e.line = r.line /\ e.file = main.file
      BY <2>2 DEF Ids
    <3>2. e.classes = r.classes /\ (e.state = "Installed" <=> r.classes # {})
      BY <1>0, <2>1, <2>2 DEF OwnEntries, TypeInv, TypeOK
    <3>3. /\ s.id = r.id /\ s.file = main.file
          /\ s.verified = (r.classes # {}) /\ s.line = ShownLine(r)
      BY <2>2 DEF Verified
    <3>4. r.classes # {} => \E i \in r.classes : ShownLine(r) = Nearest(i.class, r.line)
      <4>1. r \in Result /\ \A i \in r.classes : Window(i.class, r.line) # {}
        BY <1>m DEF MainState, TypeInv, Placed, Gathered
      <4> QED
        BY <4>1, InstalledLineType DEF Result, ShownLine
    <3> HIDE DEF tell
    <3> QED
      BY <2>2, <3>1, <3>2, <3>3, <3>4 DEF Same
  <2> HIDE DEF tell
  <2>3. ASSUME NEW e \in breakpoints PROVE \E s \in shown' : Same(s, e)'
    <3>1. CASE e.file # main.file
      <4>1. PICK s \in shown : Same(s, e)
        BY <3>1 DEF Mirrored
      <4> QED
        BY <1>s, <2>1, <3>1, <4>1
    <3>2. CASE e.file = main.file
      <4>1. PICK r \in main.results : r.id = e.id
        BY <1>0, <2>1, <3>2 DEF OwnEntries
      <4> QED
        BY <2>1, <2>2, <4>1
    <3> QED
      BY <3>1, <3>2
  <2>4. ASSUME NEW s \in shown' PROVE \E e \in breakpoints : Same(s, e)'
    <3>1. CASE s \in shown /\ s.file # main.file
      BY <1>s, <3>1 DEF Mirrored
    <3>2. CASE ~(s \in shown /\ s.file # main.file)
      <4>1. PICK r \in main.results : s = tell(r)
        BY <2>1, <3>2
      <4>2. PICK e \in breakpoints : e.id = r.id
        BY <1>0 DEF OwnEntries
      <4> QED
        BY <2>2, <4>1, <4>2
    <3> QED
      BY <3>1, <3>2
  <2> QED
    BY <2>1, <2>3, <2>4 DEF Mirrored
<1> QED
  BY <1>1, <1>2, <1>3 DEF Serving

\* An event tells the editor what the event loop wrote back.
LEMMA NotifiedSame ==
    ASSUME TypeInv, Ids, AsFound, careful, session, Alive, loop.pc = "notify",
           loop'.pc = "resume",
           NEW s \in shown, NEW e \in breakpoints, Same(s, e),
           NEW t, t = Notified(s)
    PROVE  Same(t, e)'
<1> DEFINE own == {r \in loop.deferred : r.id = s.id}
           r == CHOOSE q \in own : TRUE
<1>1. s.id = e.id /\ s.file = e.file
  BY DEF Same
<1>2. CASE own = {}
  BY <1>1, <1>2 DEF Notified, Same
<1>3. CASE own # {}
  <2>1. r \in loop.deferred /\ r.id = s.id
    BY <1>3
  <2>2. t = [s EXCEPT !.verified = TRUE, !.line = InstalledLine(r)]
    BY <1>3 DEF Notified
  <2>3. s \in Shown
    BY DEF TypeInv, TypeOK
  <2> HIDE DEF r
  <2>4. /\ t.id = s.id /\ t.file = s.file
        /\ t.verified = TRUE /\ t.line = InstalledLine(r)
    BY <2>2, <2>3 DEF Shown
  <2>5. r \in Result /\ r.classes # {} /\ \A i \in r.classes : Window(i.class, r.line) # {}
    BY <2>1 DEF TypeInv, TypeOK, LoopState, Placed, Prepared
  <2>6. \E i \in r.classes : InstalledLine(r) = Nearest(i.class, r.line)
    BY <2>5, InstalledLineType DEF Result
  <2>7. e.line = r.line
    BY <1>1, <2>1 DEF Ids, Sought, Prepared
  <2>8. e.state = "Installed" /\ r.classes \subseteq e.classes
    BY <1>1, <2>1 DEF AsFound, Ids
  <2> QED
    BY <1>1, <2>4, <2>6, <2>7, <2>8 DEF Same
<1> QED
  BY <1>2, <1>3

LEMMA MirroredLoop ==
    ASSUME TypeInv, Ids, AsFound, Mirrored, careful, session, Alive,
           main = MainIdle, main' = main, Handling
    PROVE  Mirrored'
<1>l. loop \in LoopState
  BY DEF TypeInv, TypeOK
<1>0. main.pc = "idle"
  BY DEF MainIdle
<1>1. CASE Collect \/ InstallDeferred \/ InstallExtend \/ LoopResumes
  <2>1. UNCHANGED <<breakpoints, shown>> /\ loop.pc # "notify"
    BY <1>1 DEF Collect, InstallDeferred, InstallExtend, LoopResumes,
       sessionVars, editorVars
  <2> QED
    BY <1>0, <2>1, SameKept DEF Mirrored
<1>2. CASE Update
  <2>1. /\ breakpoints' = {Updated(e) : e \in breakpoints} /\ shown' = shown
        /\ loop.pc = "update" /\ loop'.pc = "notify" /\ loop'.deferred = loop.deferred
    BY <1>l, <1>2 DEF Update, LoopState, editorVars
  <2>2. ASSUME NEW s \in shown, NEW e \in breakpoints, Same(s, e),
               NEW f, f = Updated(e)
        PROVE  Same(s, f)'
    <3>1. f.id = e.id /\ f.file = e.file /\ f.line = e.line
      BY <2>2, UpdatedType
    <3>2. CASE \E r \in loop.deferred : r.id = e.id
      <4>1. e.state = "Pending"
        BY <2>1, <3>2 DEF AsFound, Ids
      <4>2. ~s.verified
        BY <2>1, <2>2, <4>1 DEF Same
      <4> QED
        BY <2>1, <2>2, <3>1, <3>2, <4>2 DEF Same
    <3>3. CASE \A r \in loop.deferred : r.id # e.id
      <4>1. f.state = e.state /\ e.classes \subseteq f.classes
        BY <2>2, <3>3, UpdatedGathers
      <4> QED
        BY <2>1, <2>2, <3>1, <4>1 DEF Same
    <3> QED
      BY <3>2, <3>3
  <2>3. \A e \in breakpoints : \E f \in breakpoints' : f = Updated(e)
    BY <2>1
  <2>4. \A f \in breakpoints' : \E e \in breakpoints : f = Updated(e)
    BY <2>1
  <2> QED
    BY <1>0, <2>1, <2>2, <2>3, <2>4 DEF Mirrored
<1>3. CASE Notify
  <2>1. /\ shown' = {Notified(s) : s \in shown} /\ UNCHANGED breakpoints
        /\ loop.pc = "notify" /\ loop'.pc = "resume"
    BY <1>l, <1>3 DEF Notify, LoopState, sessionVars
  <2>2. \A s \in shown, e \in breakpoints, t \in shown' :
           Same(s, e) /\ t = Notified(s) => Same(t, e)'
    BY <2>1, NotifiedSame
  <2>3. \A s \in shown : \E t \in shown' : t = Notified(s)
    BY <2>1
  <2>4. \A t \in shown' : \E s \in shown : t = Notified(s)
    BY <2>1
  <2> QED
    BY <1>0, <2>1, <2>2, <2>3, <2>4 DEF Mirrored
<1> QED
  BY <1>1, <1>2, <1>3 DEF Handling

LEMMA MirroredInvariant == Spec => []Mirrored
<1>1. Init => Mirrored
  BY DEF Init, Mirrored
<1>2. TypeInv /\ Ids /\ CarefulInv /\ Mirrored /\ [Next]_vars => Mirrored'
  <2> SUFFICES ASSUME TypeInv, Ids, CarefulInv, Mirrored, [Next]_vars,
                      careful, session', Alive'
               PROVE  Mirrored'
    BY StaysCareful DEF Mirrored
  <2>1. CASE session /\ Alive /\ Still
    BY <2>1 DEF Still, Mirrored, Same
  <2>2. CASE Launch
    <3>1. shown' = {} /\ breakpoints' = {}
      BY <2>2 DEF Launch, editorVars, TypeInv, TypeOK, JvmPhases
    <3> QED
      BY <3>1 DEF Mirrored
  <2> QED
    BY <2>1, <2>2, CarefulSteps, MirroredSet, MirroredMain, MirroredLoop
    DEF CarefulInv
<1> QED
  BY <1>1, <1>2, TypeInvariant, IdsInvariant, ApartInvariant, OwnEntriesInvariant,
     AsFoundInvariant, RecordedInvariant, PTL DEF Spec, CarefulInv

\* The editor is not misled: at rest it shows exactly the entries there are, as
\* verified exactly those that are installed, and these at a line where a request
\* of theirs is, if it sets breakpoints while the program is stopped.
THEOREM EditorNotMisled == Spec => []ShownIsTrue
<1>1. TypeInv /\ Claims /\ Mirrored => ShownIsTrue
  <2> SUFFICES ASSUME TypeInv, Claims, Mirrored, careful, AtRest PROVE ShownIsTrue
    BY DEF ShownIsTrue
  <2>1. \A s, e : Same(s, e) => /\ s.id = e.id /\ s.file = e.file
                                /\ s.verified <=> e.state = "Installed"
    BY DEF Same, AtRest
  <2>2. /\ \A e \in breakpoints : \E s \in shown : Same(s, e)
        /\ \A s \in shown : \E e \in breakpoints : Same(s, e)
    BY DEF Mirrored, AtRest, Alive
  <2>3. \A s \in shown : s.verified \in BOOLEAN
    BY DEF TypeInv, TypeOK, Shown
  <2>4. {<<s.id, s.file, s.verified>> : s \in shown} =
            {<<e.id, e.file, e.state = "Installed">> : e \in breakpoints}
    <3>1. ASSUME NEW s \in shown, NEW e \in breakpoints, Same(s, e)
          PROVE  <<s.id, s.file, s.verified>> = <<e.id, e.file, e.state = "Installed">>
      BY <2>1, <2>3, <3>1
    <3> QED
      BY <2>2, <3>1
  <2>5. ASSUME NEW s \in shown, s.verified
        PROVE  \E r \in live : /\ r.id \in IdsOf({e \in breakpoints : e.id = s.id})
                               /\ r.line = s.line
    <3>1. PICK e \in breakpoints : Same(s, e)
      BY <2>2
    <3>2. PICK i \in e.classes : s.line = Nearest(i.class, e.line)
      BY <2>5, <3>1 DEF Same
    <3>3. [id |-> i.request, class |-> i.class, line |-> Nearest(i.class, e.line)]
              \in live
      BY DEF Claims, AtRest, Alive, Holders, Good
    <3>4. i.request \in IdsOf({f \in breakpoints : f.id = s.id})
      BY <3>1 DEF Same, IdsOf
    <3> QED
      BY <3>2, <3>3, <3>4
  <2> QED
    BY <2>4, <2>5 DEF ShownIsTrue
<1> QED
  BY <1>1, TypeInvariant, ClaimsInvariant, MirroredInvariant, PTL

=============================================================================
