-------------------------- MODULE InspectionProofs -------------------------
(***************************************************************************)
(* Theorems about module Inspection, for any threads, stacks, methods and  *)
(* tables, and any number of stops and of requests.                        *)
(*                                                                         *)
(* There are three arguments: what is decoded from the tables of a class   *)
(* file is what the source says; the references counted through a snapshot *)
(* are distinct; and only one of JVM, event loop, editor and main task has *)
(* the turn, so that a request never outlives the stop it is about.        *)
(***************************************************************************)
EXTENDS Inspection, SequenceTheorems, FiniteSetTheorems, WellFoundedInduction, TLAPS

-----------------------------------------------------------------------------
(* The invariants: types.                                                  *)

LoopState == [pc : {"select", "list", "build", "store", "announce", "ended"},
              stopped : Threads \cup {NoThread}, todo : SUBSET Threads,
              threads : Seq(SnapshotThread), nextRef : Nat \ {0}]

Requests == [kind : Inspections \cup {"continue", "step"},
             thread : Threads \cup {NoThread}, frame : FrameIds \cup {0},
             ref : Nat, name : Names \cup {""},
             from : {"running", "stopped", "refused", "ended"}]

\* References are counted, below n, and none for a frame without locals.
Counted(ts, n) ==
    \A p, q \in Positions(ts) :
        LET f == FrameAt(ts, p)
            g == FrameAt(ts, q)
        IN  /\ f.ref \in 0 .. n - 1
            /\ f.ref = 0 <=> f.locals = {}
            /\ f.ref = g.ref /\ f.ref # 0 => p = q

\* Where the event loop may be, and what it holds there.
LoopPhases ==
    /\ loop.pc \in {"select", "announce", "ended"} =>
           loop = [LoopIdle EXCEPT !.pc = loop.pc]
    /\ loop.pc \in {"list", "build", "store"} =>
           loop.stopped \in Threads /\ stops >= 1
    /\ loop.pc = "list" => loop.threads = <<>> /\ loop.nextRef = 1
    /\ loop.pc = "store" => loop.todo = {}

LoopTypes == loop \in LoopState /\ LoopPhases /\ Counted(loop.threads, loop.nextRef)

\* A reference is 0 exactly for a frame without locals, and else one of its own.
Distinct(ts) ==
    \A p, q \in Positions(ts) :
        LET f == FrameAt(ts, p)
            g == FrameAt(ts, q)
        IN  /\ f.ref = 0 <=> f.locals = {}
            /\ f.ref = g.ref /\ f.ref # 0 => p = q

SnapshotTypes ==
    /\ snapshot \in [stopped : Threads \cup {NoThread}, threads : Seq(SnapshotThread)]
    /\ Distinct(snapshot.threads)

InboxTypes ==
    /\ inbox \in Seq(Requests) /\ Len(inbox) <= MaxRequests
    /\ \A i \in DOMAIN inbox : /\ inbox[i].kind = "scopes" => inbox[i].frame # 0
                               /\ inbox[i].kind = "stackTrace" => inbox[i].thread # NoThread

OtherTypes ==
    /\ jvm \in {"running", "suspended", "gone"} /\ stack \in Stacks
    /\ stops \in 0 .. MaxStops
    /\ main \in {"idle", "stepping", "resuming"}
    /\ editor \in {"running", "stopped", "refused", "ended"}
    /\ frames \subseteq FrameIds
    /\ references \subseteq [ref : Nat \ {0}, frame : FrameIds]

TypeInv == LoopTypes /\ SnapshotTypes /\ InboxTypes /\ OtherTypes

-----------------------------------------------------------------------------
(* The invariants: what a list of threads shows of the stacks.             *)

Once(ts)   == \A i, j \in DOMAIN ts : ts[i].id = ts[j].id => i = j
Listed(ts) == {ts[i].id : i \in DOMAIN ts}

NothingUntrue(ts) ==
    \A i \in DOMAIN ts : \A k \in DOMAIN ts[i].frames :
        LET f   == ts[i].frames[k]
            raw == stack[ts[i].id][k]
        IN  /\ k \in DOMAIN stack[ts[i].id] /\ f.id = raw.id
            /\ f.line \in {TrueLine(raw), 0} /\ f.locals \in {TrueLocals(raw), {}}

Entire(ts) ==
    \A i \in DOMAIN ts :
        /\ DOMAIN ts[i].frames = DOMAIN stack[ts[i].id]
        /\ \A k \in DOMAIN ts[i].frames :
               /\ ts[i].frames[k].line = TrueLine(stack[ts[i].id][k])
               /\ ts[i].frames[k].locals = TrueLocals(stack[ts[i].id][k])

LoopIsTrue ==
    /\ Once(loop.threads) /\ NothingUntrue(loop.threads)
    /\ Listed(loop.threads) \cap loop.todo = {}
    /\ jvm # "gone" =>
           /\ Entire(loop.threads)
           /\ loop.pc \in {"build", "store"} => Listed(loop.threads) \cup loop.todo = Threads
           /\ loop.pc \in {"list", "build", "store"} => stack[loop.stopped] # <<>>

LoopInv == LoopTypes /\ LoopIsTrue

SnapshotIsTrue ==
    snapshot # NoSnapshot =>
        /\ Once(snapshot.threads) /\ NothingUntrue(snapshot.threads)
        /\ snapshot.stopped \in Threads
        /\ jvm # "gone" =>
               /\ Entire(snapshot.threads) /\ Listed(snapshot.threads) = Threads
               /\ stack[snapshot.stopped] # <<>>

-----------------------------------------------------------------------------
(* The invariants: whose turn it is, and what may be asked.                *)

Quiet == main = "idle" /\ inbox = <<>> /\ editor = "running"

\* The requests not yet handled: all inspections, but perhaps the last.
AllInspect == \A i \in DOMAIN inbox : inbox[i].kind \in Inspections
LastResumes ==
    /\ inbox # <<>> /\ inbox[Len(inbox)].kind \in {"continue", "step"}
    /\ \A i \in 1 .. Len(inbox) - 1 : inbox[i].kind \in Inspections

JvmsTurn    == jvm = "running" /\ loop.pc = "select" /\ Quiet /\ snapshot = NoSnapshot
LoopsTurn   == /\ jvm = "suspended" /\ Quiet
               /\ \/ loop.pc \in {"list", "build", "store"} /\ snapshot = NoSnapshot
                  \/ loop.pc = "announce" /\ snapshot # NoSnapshot
EditorsTurn == /\ jvm = "suspended" /\ loop.pc = "select" /\ main = "idle" /\ AllInspect
               /\ \/ editor = "stopped" /\ snapshot # NoSnapshot
                  \/ editor = "refused"
MainsTurn   == /\ jvm = "suspended" /\ loop.pc = "select" /\ editor = "running"
               /\ \/ main = "idle" /\ LastResumes
                  \/ main # "idle" /\ inbox = <<>> /\ snapshot = NoSnapshot

Turns == jvm # "gone" => JvmsTurn \/ LoopsTurn \/ EditorsTurn \/ MainsTurn

\* The frame ids, and the references, of the present stop.
PresentIds       == {raw.id : raw \in RawFrames}
Refers(ref, id)  == \E p \in Positions(snapshot.threads) :
                        LET f == FrameAt(snapshot.threads, p)
                        IN  f.id = id /\ f.ref = ref /\ ref # 0

Sound(r) ==
    /\ r.kind = "scopes" => r.frame \in PresentIds
    /\ r.kind = "evaluate" => r.frame \in PresentIds \cup {0}
    /\ r.kind = "variables" => Refers(r.ref, r.frame)

\* What the editor holds, and what it has asked, is about this stop.
AskedSoundly ==
    /\ editor = "running" => frames = {} /\ references = {}
    /\ jvm # "gone" =>
           /\ editor = "stopped" =>
                  /\ frames \subseteq PresentIds
                  /\ \A x \in references : Refers(x.ref, x.frame)
           /\ \A i \in DOMAIN inbox : inbox[i].from = "stopped" =>
                  snapshot # NoSnapshot /\ Sound(inbox[i])

StopInv == TypeInv /\ LoopIsTrue /\ SnapshotIsTrue /\ Turns /\ AskedSoundly

-----------------------------------------------------------------------------
(* What the tables of a class file say.                                    *)

\* A set of numbers that is not empty has a least one.
LEMMA LeastNat ==
    ASSUME NEW T, T \subseteq Nat, T # {}
    PROVE  \E x \in T : \A y \in T : x <= y
<1>1. IsWellFoundedOn(OpToRel(<, Nat), Nat)
  BY NatLessThanWellFounded
<1>2. PICK x \in T : \A y \in T : ~(<<y, x>> \in OpToRel(<, Nat))
  BY <1>1, WFMin
<1>3. ASSUME NEW y \in T PROVE x <= y
  <2>1. x \in Nat /\ y \in Nat
    OBVIOUS
  <2>2. ~(y < x)
    BY <1>2, <2>1 DEF OpToRel
  <2> QED
    BY <2>1, <2>2
<1> QED
  BY <1>3

\* A set of numbers none of which is above n has a greatest one.
LEMMA GreatestNat ==
    ASSUME NEW n \in Nat, NEW T, T \subseteq 0 .. n, T # {}
    PROVE  \E x \in T : \A y \in T : y <= x
<1> DEFINE below == {n - x : x \in T}
<1>0. \A x \in T : x \in Int /\ n - x \in Nat
  <2>1. \A x \in 0 .. n : x \in Int /\ n - x \in Nat
    OBVIOUS
  <2> QED
    BY <2>1
<1>1. below \subseteq Nat /\ below # {}
  BY <1>0
<1>2. PICK b \in below : \A c \in below : b <= c
  <2> HIDE DEF below
  <2> QED
    BY <1>1, LeastNat
<1>3. PICK x \in T : b = n - x
  OBVIOUS
<1>4. \A y \in T : n - x <= n - y
  BY <1>2, <1>3
<1> QED
  BY <1>0, <1>4

\* The indices of the code of a method.
LEMMA Indices ==
    ASSUME NEW m \in DOMAIN LineOf
    PROVE  \E size \in Nat :
               /\ DOMAIN LineOf[m] = 0 .. size - 1
               /\ \A i \in 0 .. size - 1 : LineOf[m][i] \in Nat
               /\ DOMAIN ScopeOf[m] = 0 .. size - 1
               /\ \A i \in 0 .. size - 1 :
                      ScopeOf[m][i] \in SUBSET [name : Names, slot : Nat]
<1> DEFINE indices == DOMAIN LineOf[m]
           size    == Cardinality(indices)
<1>1. /\ IsFiniteSet(indices) /\ indices = 0 .. size - 1
      /\ LineOf[m] \in [indices -> Nat]
      /\ ScopeOf[m] \in [indices -> SUBSET [name : Names, slot : Nat]]
  BY TablesAssumption
<1>2. size \in Nat
  BY <1>1, FS_CardinalityType
<1> QED
  BY <1>1, <1>2

\* The last entry of the LineNumberTable at or before an index has its line: in
\* between the line does not change.
LEMMA LineTrue ==
    ASSUME NEW raw \in StackFrames
    PROVE  LineAt(raw) = TrueLine(raw) /\ LineAt(raw) \in Nat
<1> DEFINE m == raw.method
           x == raw.index
           line(i) == LineOf[m][i]
           reached == {e \in LineTable(m) : e.index <= x}
<1>1. m \in DOMAIN LineOf /\ (x \in DOMAIN LineOf[m] \/ DOMAIN LineOf[m] = {})
  BY StacksAssumption
<1>2. PICK size \in Nat : /\ DOMAIN LineOf[m] = 0 .. size - 1
                          /\ \A i \in 0 .. size - 1 : LineOf[m][i] \in Nat
  BY <1>1, Indices
<1> DEFINE changes == {i \in 0 .. size - 1 : i = 0 \/ line(i) # line(i - 1)}
<1>3. LineTable(m) = {[index |-> i, line |-> line(i)] : i \in changes}
  BY <1>2 DEF LineTable
<1>4. CASE DOMAIN LineOf[m] = {}
  <2>1. changes = {}
    BY <1>2, <1>4
  <2>2. reached = {}
    BY <1>3, <2>1
  <2> QED
    BY <1>4, <2>2 DEF LineAt, TrueLine, HasSource
<1>5. CASE x \in DOMAIN LineOf[m]
  <2> DEFINE T == {i \in changes : i <= x}
  <2>1. x \in Nat /\ x <= size - 1
    BY <1>2, <1>5
  <2>2. 0 \in T
    BY <2>1
  <2>3. PICK j \in T : \A i \in T : i <= j
    <3>1. T \subseteq 0 .. x
      BY <2>1
    <3> HIDE DEF T
    <3> QED
      BY <2>1, <2>2, <3>1, GreatestNat
  <2>4. j \in 0 .. x /\ j \in changes
    BY <2>1, <2>3
  <2>5. line(j) = line(x)
    <3> SUFFICES ASSUME line(j) # line(x) PROVE FALSE
      OBVIOUS
    <3> DEFINE others == {k \in j .. x : line(k) # line(j)}
    <3>1. others \subseteq Nat /\ x \in others
      BY <2>1, <2>4
    <3>2. PICK k \in others : \A i \in others : k <= i
      <4> HIDE DEF others
      <4> QED
        BY <3>1, LeastNat
    <3>3. k \in j .. x /\ k # j /\ line(k) # line(j)
      BY <3>2
    <3>4. k - 1 \in j .. x /\ k - 1 \notin others
      BY <2>1, <2>4, <3>2, <3>3
    <3>5. line(k - 1) = line(j)
      BY <3>4
    <3>6. k \in T
      BY <2>1, <2>4, <3>3, <3>5
    <3> QED
      BY <2>1, <2>3, <2>4, <3>3, <3>6
  <2> DEFINE last == CHOOSE e \in reached : \A d \in reached : d.index <= e.index
             top  == [index |-> j, line |-> line(j)]
  <2>6. /\ top \in reached
        /\ \A e \in reached : e.index \in T /\ e.line = line(e.index)
    BY <1>3, <2>1, <2>4
  <2>7. \A d \in reached : d.index <= top.index
    BY <2>3, <2>6
  <2>8. last \in reached /\ \A d \in reached : d.index <= last.index
    <3> HIDE DEF reached, top
    <3> QED
      BY <2>6, <2>7
  <2>9. last.index = j
    <3>1. top.index = j
      OBVIOUS
    <3>2. last.index \in T /\ j <= last.index
      <4> HIDE DEF reached, last, top, T
      <4> QED
        BY <2>6, <2>8, <3>1
    <3>3. last.index <= j
      <4> HIDE DEF T, last
      <4> QED
        BY <2>3, <3>2
    <3>4. last.index \in Int /\ j \in Int
      <4> HIDE DEF last
      <4> QED
        BY <2>3, <3>2
    <3> HIDE DEF last
    <3> QED
      BY <3>2, <3>3, <3>4
  <2>10. last.line = line(x)
    <3> HIDE DEF last, reached
    <3> QED
      BY <2>5, <2>6, <2>8, <2>9
  <2>11. LineAt(raw) = last.line
    <3>1. reached # {}
      BY <2>6
    <3> QED
      BY <3>1 DEF LineAt
  <2>12. TrueLine(raw) = line(x)
    BY <1>5 DEF TrueLine, HasSource
  <2> QED
    BY <1>2, <1>5, <2>10, <2>11, <2>12
<1> QED
  BY <1>1, <1>4, <1>5

\* A variable is in scope at an index just if one of its ranges has the index.
LEMMA ScopesTrue ==
    ASSUME NEW m \in DOMAIN LineOf, NEW x \in DOMAIN ScopeOf[m], NEW v
    PROVE  v \in ScopeOf[m][x] <=> \E r \in ScopesOf(m, v) : r[1] <= x /\ x < r[2]
<1>1. PICK size \in Nat : DOMAIN ScopeOf[m] = 0 .. size - 1
  BY Indices
<1> DEFINE In(i) == InScopeAt(m, v, i)
<1>2. x \in Nat /\ x < size
  BY <1>1
<1>3. In(x) <=> v \in ScopeOf[m][x]
  BY DEF InScopeAt
<1>4. \A i : In(i) => i \in 0 .. size - 1
  BY <1>1 DEF InScopeAt
<1>5. ASSUME NEW r \in ScopesOf(m, v), r[1] <= x, x < r[2]
      PROVE  In(x)
  <2>1. /\ r[1] \in 0 .. size - 1 /\ r[2] \in {i + 1 : i \in 0 .. size - 1}
        /\ \A i \in r[1] .. r[2] - 1 : In(i)
    BY <1>1 DEF ScopesOf
  <2>2. x \in r[1] .. r[2] - 1
    BY <1>2, <1>5, <2>1
  <2> QED
    BY <2>1, <2>2
<1>6. ASSUME In(x)
      PROVE  \E r \in ScopesOf(m, v) : r[1] <= x /\ x < r[2]
  <2> DEFINE starts == {a \in 0 .. x : \A i \in a .. x : In(i)}
             ends   == {b \in Nat : b > x /\ ~In(b)}
  <2> HIDE DEF In
  <2>1. starts \subseteq Nat /\ x \in starts
    BY <1>2, <1>6
  <2>2. PICK a \in starts : \A c \in starts : a <= c
    <3> HIDE DEF starts
    <3> QED
      BY <2>1, LeastNat
  <2>3. ends \subseteq Nat /\ size \in ends
    BY <1>2, <1>4
  <2>4. PICK b \in ends : \A c \in ends : b <= c
    <3> HIDE DEF ends
    <3> QED
      BY <2>3, LeastNat
  <2>5. /\ a \in Nat /\ a <= x /\ \A i \in a .. x : In(i)
        /\ b \in Nat /\ x < b /\ ~In(b)
    BY <1>2, <2>2, <2>4
  <2>6. a > 0 => ~In(a - 1)
    <3> SUFFICES ASSUME a > 0, In(a - 1) PROVE FALSE
      OBVIOUS
    <3>1. \A i \in a - 1 .. x : i = a - 1 \/ i \in a .. x
      BY <1>2, <2>5
    <3>2. a - 1 \in starts
      BY <1>2, <2>5, <3>1
    <3> QED
      BY <2>2, <2>5, <3>2
  <2>7. \A i \in x + 1 .. b - 1 : In(i)
    <3> SUFFICES ASSUME NEW i \in x + 1 .. b - 1, ~In(i) PROVE FALSE
      OBVIOUS
    <3>1. i \in ends
      BY <1>2, <2>5
    <3> QED
      BY <1>2, <2>4, <2>5, <3>1
  <2>8. \A i \in a .. b - 1 : In(i)
    <3>1. \A i \in a .. b - 1 : i \in a .. x \/ i \in x + 1 .. b - 1
      BY <1>2, <2>5
    <3> QED
      BY <2>5, <2>7, <3>1
  <2>9. a \in 0 .. size - 1 /\ b - 1 \in 0 .. size - 1 /\ b = (b - 1) + 1
    <3>1. In(a) /\ In(b - 1)
      BY <1>2, <2>5, <2>8
    <3> QED
      BY <1>4, <2>5, <3>1
  <2>10. <<a, b>> \in ScopesOf(m, v)
    <3>1. /\ a < b /\ \A i \in a .. b - 1 : InScopeAt(m, v, i)
          /\ a > 0 => ~InScopeAt(m, v, a - 1)
          /\ ~InScopeAt(m, v, b)
      BY <1>2, <2>5, <2>6, <2>8 DEF In
    <3>2. <<a, b>> \in (DOMAIN ScopeOf[m]) \X {i + 1 : i \in DOMAIN ScopeOf[m]}
      BY <1>1, <2>9
    <3> QED
      BY <3>1, <3>2 DEF ScopesOf
  <2> QED
    BY <2>5, <2>10
<1> QED
  BY <1>3, <1>5, <1>6

\* The entries of the LocalVariableTable that are in scope at an index.
LEMMA TableTrue ==
    ASSUME NEW m \in DOMAIN LineOf, NEW x \in DOMAIN ScopeOf[m]
    PROVE  /\ \A w \in VariableTable(m) : InScope(w, x) =>
                  \E v \in ScopeOf[m][x] : v.name = w.name /\ v.slot = w.slot
           /\ \A v \in ScopeOf[m][x] : \E w \in VariableTable(m) :
                  InScope(w, x) /\ v.name = w.name /\ v.slot = w.slot
<1>1. PICK size \in Nat : DOMAIN ScopeOf[m] = 0 .. size - 1
  BY Indices
<1>2. x \in Nat
  BY <1>1
<1> DEFINE Entry(v, r) == [name |-> v.name, slot |-> v.slot,
                           codeIndex |-> r[1], length |-> r[2] - r[1]]
<1>3. ASSUME NEW v, NEW r \in ScopesOf(m, v)
      PROVE  InScope(Entry(v, r), x) <=> r[1] <= x /\ x < r[2]
  <2>1. r[1] \in Nat /\ r[2] \in Int
    BY <1>1 DEF ScopesOf
  <2>2. Entry(v, r).codeIndex = r[1] /\ Entry(v, r).length = r[2] - r[1]
    OBVIOUS
  <2> HIDE DEF Entry
  <2>3. r[1] + (r[2] - r[1]) = r[2]
    BY <2>1
  <2> QED
    BY <2>2, <2>3 DEF InScope
<1>4. ASSUME NEW w \in VariableTable(m), InScope(w, x)
      PROVE  \E v \in ScopeOf[m][x] : v.name = w.name /\ v.slot = w.slot
  <2>1. PICK v \in UNION {ScopeOf[m][i] : i \in DOMAIN ScopeOf[m]} :
            \E r \in ScopesOf(m, v) : w = Entry(v, r)
    BY DEF VariableTable
  <2>2. PICK r \in ScopesOf(m, v) : w = Entry(v, r)
    BY <2>1
  <2>3. v.name = w.name /\ v.slot = w.slot
    BY <2>2
  <2>4. r[1] <= x /\ x < r[2]
    <3> HIDE DEF Entry
    <3> QED
      BY <1>3, <1>4, <2>2
  <2> QED
    BY <2>3, <2>4, ScopesTrue
<1>5. ASSUME NEW v \in ScopeOf[m][x]
      PROVE  \E w \in VariableTable(m) :
                 InScope(w, x) /\ v.name = w.name /\ v.slot = w.slot
  <2>1. PICK r \in ScopesOf(m, v) : r[1] <= x /\ x < r[2]
    BY ScopesTrue
  <2>2. Entry(v, r) \in VariableTable(m)
    BY DEF VariableTable
  <2>3. Entry(v, r).name = v.name /\ Entry(v, r).slot = v.slot
    OBVIOUS
  <2>4. InScope(Entry(v, r), x)
    <3> HIDE DEF Entry
    <3> QED
      BY <1>3, <2>1
  <2> HIDE DEF Entry
  <2> QED
    BY <2>2, <2>3, <2>4
<1> QED
  BY <1>4, <1>5

\* The locals that collect_frame_variables finds are those in scope.
LEMMA LocalsTrue ==
    ASSUME NEW raw \in StackFrames
    PROVE  /\ Locals(raw) = TrueLocals(raw)
           /\ \A l \in TrueLocals(raw) : \E v \in [name : Names, slot : Nat] :
                  l = [name |-> v.name, value |-> ValueOf(raw, v.slot)]
<1> DEFINE m == raw.method
           x == raw.index
           Shown(v) == [name |-> v.name, value |-> ValueOf(raw, v.slot)]
<1>1. m \in DOMAIN LineOf /\ (x \in DOMAIN LineOf[m] \/ DOMAIN LineOf[m] = {})
  BY StacksAssumption
<1>2. PICK size \in Nat :
          /\ DOMAIN LineOf[m] = 0 .. size - 1 /\ DOMAIN ScopeOf[m] = 0 .. size - 1
          /\ \A i \in 0 .. size - 1 : ScopeOf[m][i] \in SUBSET [name : Names, slot : Nat]
  BY <1>1, Indices
<1>3. Locals(raw) = {Shown(v) : v \in {w \in VariableTable(m) : raw.readable /\ InScope(w, x)}}
  BY DEF Locals
<1>4. CASE ~raw.readable
  BY <1>3, <1>4 DEF TrueLocals
<1>5. CASE DOMAIN LineOf[m] = {}
  <2>1. VariableTable(m) = {}
    BY <1>2, <1>5 DEF VariableTable
  <2> QED
    BY <1>3, <1>5, <2>1 DEF TrueLocals, HasSource
<1>6. CASE raw.readable /\ x \in DOMAIN LineOf[m]
  <2>1. x \in DOMAIN ScopeOf[m] /\ \A v \in ScopeOf[m][x] : v \in [name : Names, slot : Nat]
    BY <1>2, <1>6
  <2>2. TrueLocals(raw) = {Shown(v) : v \in ScopeOf[m][x]}
    BY <1>6 DEF TrueLocals, HasSource
  <2>3. ASSUME NEW w \in VariableTable(m), InScope(w, x) PROVE Shown(w) \in TrueLocals(raw)
    <3>1. PICK v \in ScopeOf[m][x] : v.name = w.name /\ v.slot = w.slot
      BY <1>1, <2>1, <2>3, TableTrue
    <3> QED
      BY <2>2, <3>1
  <2>4. ASSUME NEW v \in ScopeOf[m][x] PROVE Shown(v) \in Locals(raw)
    <3>1. PICK w \in VariableTable(m) : InScope(w, x) /\ v.name = w.name /\ v.slot = w.slot
      BY <1>1, <2>1, TableTrue
    <3>2. Shown(v) = Shown(w)
      BY <3>1
    <3>3. Shown(w) \in Locals(raw)
      <4> HIDE DEF Shown
      <4> QED
        BY <1>3, <1>6, <3>1
    <3> HIDE DEF Shown
    <3> QED
      BY <3>2, <3>3
  <2> HIDE DEF Shown
  <2>5. Locals(raw) = TrueLocals(raw)
    BY <1>3, <1>6, <2>2, <2>3, <2>4
  <2>6. \A l \in TrueLocals(raw) : \E v \in [name : Names, slot : Nat] : l = Shown(v)
    BY <2>1, <2>2
  <2> QED
    BY <2>5, <2>6 DEF Shown
<1> QED
  BY <1>1, <1>4, <1>5, <1>6

-----------------------------------------------------------------------------
(* References.                                                             *)

\* The frames with locals among the first i, in a thread.
LEMMA FewerWithLocals ==
    ASSUME NEW t, NEW read, NEW i \in Nat
    PROVE  /\ IsFiniteSet(WithLocals(t, i, read))
           /\ Cardinality(WithLocals(t, i, read)) \in Nat
           /\ i \in WithLocals(t, i, read) => Cardinality(WithLocals(t, i, read)) >= 1
           /\ \A j \in Nat : i <= j =>
                  Cardinality(WithLocals(t, i, read)) <= Cardinality(WithLocals(t, j, read))
           /\ \A j \in Nat : i < j /\ j \in WithLocals(t, j, read) =>
                  Cardinality(WithLocals(t, i, read)) < Cardinality(WithLocals(t, j, read))
<1> DEFINE W(k) == WithLocals(t, k, read)
<1>1. ASSUME NEW k \in Nat PROVE IsFiniteSet(W(k)) /\ Cardinality(W(k)) \in Nat
  <2>1. IsFiniteSet(1 .. k)
    BY FS_Interval
  <2>2. W(k) \subseteq 1 .. k
    BY DEF WithLocals
  <2>3. IsFiniteSet(W(k))
    <3> HIDE DEF W
    <3> QED
      BY <2>1, <2>2, FS_Subset
  <2> QED
    BY <2>3, FS_CardinalityType
<1>2. ASSUME NEW k \in Nat, k \in W(k) PROVE Cardinality(W(k)) >= 1
  <2> HIDE DEF W
  <2>1. Cardinality(W(k)) # 0
    BY <1>1, <1>2, FS_EmptySet
  <2> QED
    BY <1>1, <2>1
<1>3. ASSUME NEW j \in Nat, i <= j PROVE Cardinality(W(i)) <= Cardinality(W(j))
  <2>1. W(i) \subseteq W(j)
    BY <1>3 DEF WithLocals
  <2> HIDE DEF W
  <2> QED
    BY <1>1, <2>1, FS_Subset
<1>4. ASSUME NEW j \in Nat, i < j, j \in W(j) PROVE Cardinality(W(i)) < Cardinality(W(j))
  <2>1. W(i) \subseteq W(j) \ {j}
    BY <1>4 DEF WithLocals
  <2> HIDE DEF W
  <2>2. /\ IsFiniteSet(W(j) \ {j})
        /\ Cardinality(W(j) \ {j}) = Cardinality(W(j)) - 1
    BY <1>1, <1>4, FS_RemoveElement
  <2>3. Cardinality(W(i)) <= Cardinality(W(j) \ {j})
    BY <2>1, <2>2, FS_Subset
  <2> QED
    BY <1>1, <2>2, <2>3
<1> QED
  BY <1>1, <1>2, <1>3, <1>4

\* The references of the first n frames of a thread are distinct, and lie
\* between the counter before and the counter after the thread.
LEMMA ThreadCounted ==
    ASSUME NEW t, NEW read, NEW n \in Nat, loop.nextRef \in Nat \ {0}
    PROVE  LET after == loop.nextRef + Cardinality(WithLocals(t, n, read))
           IN  /\ after \in Nat \ {0} /\ after >= loop.nextRef
               /\ \A i \in 1 .. n :
                      \/ LocalsRead(t, i, read) = {} /\ VarsRef(t, i, read) = 0
                      \/ /\ LocalsRead(t, i, read) # {}
                         /\ VarsRef(t, i, read) \in loop.nextRef .. after - 1
               /\ \A i, j \in 1 .. n :
                      VarsRef(t, i, read) = VarsRef(t, j, read)
                          /\ VarsRef(t, i, read) # 0 => i = j
<1> DEFINE W(k) == WithLocals(t, k, read)
           after == loop.nextRef + Cardinality(W(n))
<1>1. ASSUME NEW i \in 1 .. n PROVE i \in W(i) <=> LocalsRead(t, i, read) # {}
  BY DEF WithLocals
<1> HIDE DEF W
<1>2. /\ Cardinality(W(n)) \in Nat
      /\ \A i \in 1 .. n : /\ Cardinality(W(i)) \in Nat
                           /\ i \in W(i) => Cardinality(W(i)) >= 1
                           /\ Cardinality(W(i)) <= Cardinality(W(n))
      /\ \A i, j \in 1 .. n : i < j /\ j \in W(j) => Cardinality(W(i)) < Cardinality(W(j))
  <2>1. \A i \in 1 .. n : i \in Nat
    OBVIOUS
  <2> QED
    BY <2>1, FewerWithLocals DEF W
<1>3. \A i \in 1 .. n : VarsRef(t, i, read) =
          IF i \in W(i) THEN loop.nextRef + Cardinality(W(i)) - 1 ELSE 0
  BY DEF VarsRef, W
<1>4. after \in Nat \ {0} /\ after >= loop.nextRef
  BY <1>2
<1>5. ASSUME NEW i \in 1 .. n, i \in W(i)
      PROVE  VarsRef(t, i, read) \in loop.nextRef .. after - 1
  <2>1. Cardinality(W(i)) \in 1 .. Cardinality(W(n))
    BY <1>2, <1>5
  <2>2. VarsRef(t, i, read) = loop.nextRef + Cardinality(W(i)) - 1
    BY <1>3, <1>5
  <2> QED
    BY <1>2, <2>1, <2>2
<1>6. ASSUME NEW i \in 1 .. n, NEW j \in 1 .. n,
             VarsRef(t, i, read) = VarsRef(t, j, read), VarsRef(t, i, read) # 0
      PROVE  i = j
  <2>1. i \in W(i) /\ j \in W(j)
    BY <1>3, <1>6
  <2>2. Cardinality(W(i)) = Cardinality(W(j))
    BY <1>2, <1>3, <1>6, <2>1
  <2>3. ~(i < j) /\ ~(j < i)
    BY <1>2, <2>1, <2>2
  <2> QED
    BY <2>3
<1> QED
  BY <1>1, <1>3, <1>4, <1>5, <1>6 DEF W

\* One more thread.
LEMMA OneMoreThread ==
    ASSUME NEW ts \in Seq(SnapshotThread), NEW th \in SnapshotThread
    PROVE  LET more == Append(ts, th)
               l    == Len(ts) + 1
           IN  /\ more \in Seq(SnapshotThread)
               /\ Len(ts) \in Nat /\ DOMAIN ts = 1 .. Len(ts)
               /\ DOMAIN more = DOMAIN ts \cup {l} /\ l \notin DOMAIN ts
               /\ \A i \in DOMAIN ts : more[i] = ts[i]
               /\ more[l] = th
               /\ Positions(more) = Positions(ts) \cup {<<l, k>> : k \in DOMAIN th.frames}
               /\ \A p \in Positions(ts) : /\ FrameAt(more, p) = FrameAt(ts, p)
                                           /\ p[1] \in DOMAIN ts /\ p = <<p[1], p[2]>>
                                           /\ p[2] \in DOMAIN ts[p[1]].frames
               /\ \A k : FrameAt(more, <<l, k>>) = th.frames[k]
<1> DEFINE more == Append(ts, th)
           l    == Len(ts) + 1
<1>1. /\ more \in Seq(SnapshotThread) /\ Len(ts) \in Nat /\ DOMAIN ts = 1 .. Len(ts)
      /\ Len(more) = l /\ DOMAIN more = 1 .. l
      /\ \A i \in 1 .. Len(ts) : more[i] = ts[i]
      /\ more[l] = th
  BY AppendProperties
<1> HIDE DEF more
<1>2. DOMAIN more = DOMAIN ts \cup {l} /\ l \notin DOMAIN ts
  BY <1>1
<1>3. ASSUME NEW p \in Positions(ts)
      PROVE  /\ p[1] \in DOMAIN ts /\ p = <<p[1], p[2]>> /\ p[2] \in DOMAIN ts[p[1]].frames
             /\ FrameAt(more, p) = FrameAt(ts, p) /\ p \in Positions(more)
  <2>1. PICK i \in DOMAIN ts : p \in {i} \X DOMAIN ts[i].frames
    BY DEF Positions
  <2> QED
    BY <1>1, <1>2, <2>1 DEF Positions, FrameAt
<1>4. ASSUME NEW p \in Positions(more)
      PROVE  p \in Positions(ts) \/ \E k \in DOMAIN th.frames : p = <<l, k>>
  <2>1. PICK i \in DOMAIN more : p \in {i} \X DOMAIN more[i].frames
    BY DEF Positions
  <2>2. CASE i \in DOMAIN ts
    BY <1>1, <2>1, <2>2 DEF Positions
  <2>3. CASE i = l
    BY <1>1, <2>1, <2>3
  <2> QED
    BY <1>2, <2>2, <2>3
<1>5. ASSUME NEW k \in DOMAIN th.frames
      PROVE  <<l, k>> \in Positions(more)
  <2>1. <<l, k>> \in {l} \X DOMAIN more[l].frames
    BY <1>1
  <2> QED
    BY <1>2, <2>1 DEF Positions
<1>6. \A k : FrameAt(more, <<l, k>>) = th.frames[k]
  BY <1>1 DEF FrameAt
<1>7. Positions(more) = Positions(ts) \cup {<<l, k>> : k \in DOMAIN th.frames}
  BY <1>3, <1>4, <1>5
<1> QED
  BY <1>1, <1>2, <1>3, <1>6, <1>7 DEF more

\* The references of a snapshot stay distinct when a thread is added.
LEMMA CountedMore ==
    ASSUME NEW ts \in Seq(SnapshotThread), NEW th \in SnapshotThread,
           NEW n \in Nat \ {0}, NEW after \in Nat \ {0}, after >= n, Counted(ts, n),
           \A k \in DOMAIN th.frames :
               \/ th.frames[k].locals = {} /\ th.frames[k].ref = 0
               \/ th.frames[k].locals # {} /\ th.frames[k].ref \in n .. after - 1,
           \A k, q \in DOMAIN th.frames :
               th.frames[k].ref = th.frames[q].ref /\ th.frames[k].ref # 0 => k = q
    PROVE  Counted(Append(ts, th), after)
<1> DEFINE more == Append(ts, th)
           l    == Len(ts) + 1
<1>1. /\ Positions(more) = Positions(ts) \cup {<<l, k>> : k \in DOMAIN th.frames}
      /\ \A p \in Positions(ts) : FrameAt(more, p) = FrameAt(ts, p)
      /\ \A k : FrameAt(more, <<l, k>>) = th.frames[k]
  BY OneMoreThread
<1> HIDE DEF more
<1>2. ASSUME NEW p \in Positions(ts)
      PROVE  /\ FrameAt(more, p).ref \in 0 .. n - 1
             /\ FrameAt(more, p).ref = 0 <=> FrameAt(more, p).locals = {}
  BY <1>1 DEF Counted
<1>3. ASSUME NEW k \in DOMAIN th.frames
      PROVE  /\ FrameAt(more, <<l, k>>).ref \in {0} \cup (n .. after - 1)
             /\ FrameAt(more, <<l, k>>).ref = 0 <=> FrameAt(more, <<l, k>>).locals = {}
  BY <1>1
<1>4. ASSUME NEW p \in Positions(more)
      PROVE  /\ FrameAt(more, p).ref \in 0 .. after - 1
             /\ FrameAt(more, p).ref = 0 <=> FrameAt(more, p).locals = {}
  <2>1. CASE p \in Positions(ts)
    BY <1>2, <2>1
  <2>2. CASE \E k \in DOMAIN th.frames : p = <<l, k>>
    BY <1>3, <2>2
  <2> QED
    BY <1>1, <2>1, <2>2
<1>5. ASSUME NEW p \in Positions(more), NEW q \in Positions(more),
             FrameAt(more, p).ref = FrameAt(more, q).ref, FrameAt(more, p).ref # 0
      PROVE  p = q
  <2>1. CASE p \in Positions(ts) /\ q \in Positions(ts)
    BY <1>1, <1>5, <2>1 DEF Counted
  <2>2. CASE p \in Positions(ts) /\ \E k \in DOMAIN th.frames : q = <<l, k>>
    BY <1>2, <1>3, <1>5, <2>2
  <2>3. CASE q \in Positions(ts) /\ \E k \in DOMAIN th.frames : p = <<l, k>>
    BY <1>2, <1>3, <1>5, <2>3
  <2>4. CASE /\ \E k \in DOMAIN th.frames : p = <<l, k>>
             /\ \E k \in DOMAIN th.frames : q = <<l, k>>
    <3>1. PICK k, j \in DOMAIN th.frames : p = <<l, k>> /\ q = <<l, j>>
      BY <2>4
    <3> QED
      BY <1>1, <1>5, <3>1
  <2> QED
    BY <1>1, <2>1, <2>2, <2>3, <2>4
<1>6. Counted(more, after)
  BY <1>4, <1>5 DEF Counted
<1> QED
  BY <1>6 DEF more

-----------------------------------------------------------------------------
(* The frames of a thread, as they are read.                               *)

LEMMA StackTyped ==
    ASSUME stack \in Stacks, NEW t \in Threads
    PROVE  /\ stack[t] \in Seq(StackFrames) /\ Len(stack[t]) \in Nat
           /\ DOMAIN stack[t] = 1 .. Len(stack[t])
           /\ \A i \in DOMAIN stack[t] : /\ stack[t][i] \in StackFrames
                                         /\ stack[t][i].id \in FrameIds
<1>1. stack[t] \in Seq(StackFrames)
  BY StacksAssumption
<1>2. \A i \in 1 .. Len(stack[t]) : stack[t][i] \in StackFrames
  BY <1>1
<1> QED
  BY <1>1, <1>2 DEF FrameIds

\* A thread as it is read, perhaps in part: typed, and its references counted.
LEMMA FramesTyped ==
    ASSUME stack \in Stacks, stops \in 1 .. MaxStops, loop.nextRef \in Nat \ {0},
           NEW t \in Threads, NEW lines, NEW read
    PROVE  LET fs    == FramesOf(t, lines, read)
               after == loop.nextRef + Cardinality(WithLocals(t, Len(fs), read))
           IN  /\ fs \in Seq(Frame) /\ Len(fs) = Len(stack[t])
               /\ DOMAIN fs = DOMAIN stack[t]
               /\ after \in Nat \ {0} /\ after >= loop.nextRef
               /\ \A k \in DOMAIN fs :
                      \/ fs[k].locals = {} /\ fs[k].ref = 0
                      \/ fs[k].locals # {} /\ fs[k].ref \in loop.nextRef .. after - 1
               /\ \A k, q \in DOMAIN fs :
                      fs[k].ref = fs[q].ref /\ fs[k].ref # 0 => k = q
<1> DEFINE n     == Len(stack[t])
           fs    == FramesOf(t, lines, read)
           after == loop.nextRef + Cardinality(WithLocals(t, n, read))
<1>1. n \in Nat /\ DOMAIN stack[t] = 1 .. n
  BY StackTyped
<1>2. /\ DOMAIN fs = 1 .. n
      /\ \A k \in 1 .. n : /\ fs[k].ref = VarsRef(t, k, read)
                            /\ fs[k].locals = LocalsRead(t, k, read)
  BY DEF FramesOf
<1>7. ASSUME NEW k \in 1 .. n
       PROVE  fs[k] = [id |-> stack[t][k].id, line |-> LineRead(t, k, lines),
                       ref |-> VarsRef(t, k, read), locals |-> LocalsRead(t, k, read)]
  BY DEF FramesOf
<1>11. fs = [k \in 1 .. n |-> fs[k]]
  BY DEF FramesOf
<1> HIDE DEF fs
<1>3. /\ after \in Nat \ {0} /\ after >= loop.nextRef
      /\ \A i \in 1 .. n :
             \/ LocalsRead(t, i, read) = {} /\ VarsRef(t, i, read) = 0
             \/ /\ LocalsRead(t, i, read) # {}
                /\ VarsRef(t, i, read) \in loop.nextRef .. after - 1
      /\ \A i, j \in 1 .. n :
             VarsRef(t, i, read) = VarsRef(t, j, read) /\ VarsRef(t, i, read) # 0 => i = j
  BY <1>1, ThreadCounted
<1>4. ASSUME NEW k \in 1 .. n PROVE fs[k] \in Frame
  <2>1. stack[t][k] \in StackFrames /\ stack[t][k].id \in FrameIds
    BY <1>1, StackTyped
  <2>2. LineAt(stack[t][k]) \in Nat
    BY <2>1, LineTrue
  <2>3. VarsRef(t, k, read) \in Nat
    BY <1>3
  <2>4. LocalsRead(t, k, read) \subseteq Local
    <3>1. SUFFICES ASSUME NEW l \in Locals(stack[t][k]) PROVE l \in Local
      BY DEF LocalsRead
    <3>2. PICK v \in [name : Names, slot : Nat] :
              l = [name |-> v.name, value |-> ValueOf(stack[t][k], v.slot)]
      BY <2>1, LocalsTrue
    <3>3. ValueOf(stack[t][k], v.slot) \in Value
      BY <2>1 DEF ValueOf, Value
    <3> QED
      BY <3>2, <3>3 DEF Local
  <2>5. LineRead(t, k, lines) \in Nat
    BY <2>2 DEF LineRead
  <2>6. fs[k] = [id |-> stack[t][k].id, line |-> LineRead(t, k, lines),
                 ref |-> VarsRef(t, k, read), locals |-> LocalsRead(t, k, read)]
    BY <1>7
  <2> QED
    BY <2>1, <2>3, <2>4, <2>5, <2>6 DEF Frame
<1>6. fs \in Seq(Frame) /\ Len(fs) = n
  BY <1>1, <1>11, <1>4
<1> HIDE DEF after
<1>8. /\ \A k \in DOMAIN fs :
             \/ fs[k].locals = {} /\ fs[k].ref = 0
             \/ fs[k].locals # {} /\ fs[k].ref \in loop.nextRef .. after - 1
      /\ \A k, q \in DOMAIN fs :
             fs[k].ref = fs[q].ref /\ fs[k].ref # 0 => k = q
  BY <1>2, <1>3
<1> QED
  BY <1>1, <1>2, <1>3, <1>6, <1>8 DEF fs, after

\* What is read of a thread is true; and all of it, unless it is cut short.
LEMMA FramesTrue ==
    ASSUME stack \in Stacks, NEW t \in Threads, NEW lines \in Nat, NEW read \in Nat
    PROVE  LET fs == FramesOf(t, lines, read)
           IN  /\ DOMAIN fs = DOMAIN stack[t]
               /\ \A k \in DOMAIN fs :
                      LET raw == stack[t][k]
                      IN  /\ fs[k].id = raw.id
                          /\ fs[k].line \in {TrueLine(raw), 0}
                          /\ fs[k].locals \in {TrueLocals(raw), {}}
                          /\ lines = Len(stack[t]) => fs[k].line = TrueLine(raw)
                          /\ read = Len(stack[t]) => fs[k].locals = TrueLocals(raw)
<1> DEFINE fs == FramesOf(t, lines, read)
<1>1. Len(stack[t]) \in Nat /\ DOMAIN stack[t] = 1 .. Len(stack[t])
  BY StackTyped
<1>2. /\ DOMAIN fs = 1 .. Len(stack[t])
      /\ \A k \in 1 .. Len(stack[t]) :
             /\ fs[k].id = stack[t][k].id /\ fs[k].line = LineRead(t, k, lines)
             /\ fs[k].locals = LocalsRead(t, k, read)
  BY DEF FramesOf
<1> HIDE DEF fs
<1>3. ASSUME NEW k \in 1 .. Len(stack[t])
      PROVE  LET raw == stack[t][k]
             IN  /\ fs[k].id = raw.id
                 /\ fs[k].line \in {TrueLine(raw), 0}
                 /\ fs[k].locals \in {TrueLocals(raw), {}}
                 /\ lines = Len(stack[t]) => fs[k].line = TrueLine(raw)
                 /\ read = Len(stack[t]) => fs[k].locals = TrueLocals(raw)
  <2> DEFINE raw == stack[t][k]
  <2>1. raw \in StackFrames
    BY <1>1, StackTyped
  <2>2. LineAt(raw) = TrueLine(raw) /\ Locals(raw) = TrueLocals(raw)
    BY <2>1, LineTrue, LocalsTrue
  <2>3. /\ fs[k].id = raw.id
        /\ fs[k].line = LineRead(t, k, lines)
        /\ fs[k].locals = LocalsRead(t, k, read)
    BY <1>2
  <2>6. /\ LineRead(t, k, lines) = IF k <= lines THEN LineAt(raw) ELSE 0
        /\ LocalsRead(t, k, read) = IF k <= read THEN Locals(raw) ELSE {}
    BY DEF LineRead, LocalsRead
  <2>4. k <= Len(stack[t])
    BY <1>1
  <2> HIDE DEF raw
  <2>5. /\ fs[k].line \in {TrueLine(raw), 0} /\ fs[k].locals \in {TrueLocals(raw), {}}
        /\ lines = Len(stack[t]) => fs[k].line = TrueLine(raw)
        /\ read = Len(stack[t]) => fs[k].locals = TrueLocals(raw)
    BY <2>2, <2>3, <2>4, <2>6
  <2> QED
    BY <2>3, <2>5 DEF raw
<1> QED
  BY <1>1, <1>2, <1>3 DEF fs

-----------------------------------------------------------------------------
(* What a list of threads shows.                                           *)

\* It does not depend on anything but the present stop.
LEMMA SameStop ==
    ASSUME UNCHANGED <<stack, stops>>
    PROVE  /\ NothingUntrue(loop.threads)' <=> NothingUntrue(loop'.threads)
           /\ Entire(loop.threads)' <=> Entire(loop'.threads)
           /\ NothingUntrue(snapshot.threads)' <=> NothingUntrue(snapshot'.threads)
           /\ Entire(snapshot.threads)' <=> Entire(snapshot'.threads)
           /\ PresentIds' = PresentIds
<1>1. stack' = stack /\ stops' = stops
  OBVIOUS
<1>2. \A raw : TrueLocals(raw)' = TrueLocals(raw) /\ TrueLine(raw)' = TrueLine(raw)
  BY <1>1 DEF TrueLocals, ValueOf, TrueLine, HasSource
<1>3. NothingUntrue(loop.threads)' <=> NothingUntrue(loop'.threads)
  BY <1>1 DEF NothingUntrue, TrueLocals, ValueOf, TrueLine, HasSource
<1>4. Entire(loop.threads)' <=> Entire(loop'.threads)
  BY <1>1 DEF Entire, TrueLocals, ValueOf, TrueLine, HasSource
<1>5. NothingUntrue(snapshot.threads)' <=> NothingUntrue(snapshot'.threads)
  BY <1>1 DEF NothingUntrue, TrueLocals, ValueOf, TrueLine, HasSource
<1>6. Entire(snapshot.threads)' <=> Entire(snapshot'.threads)
  BY <1>1 DEF Entire, TrueLocals, ValueOf, TrueLine, HasSource
<1>7. PresentIds' = PresentIds
  BY <1>1 DEF PresentIds, RawFrames
<1> QED
  BY <1>3, <1>4, <1>5, <1>6, <1>7

\* One more thread, with nothing untrue in it.
LEMMA TrueMore ==
    ASSUME NEW ts \in Seq(SnapshotThread), NEW th \in SnapshotThread,
           Once(ts), NothingUntrue(ts), th.id \notin Listed(ts),
           \A k \in DOMAIN th.frames :
               LET raw == stack[th.id][k]
               IN  /\ k \in DOMAIN stack[th.id] /\ th.frames[k].id = raw.id
                   /\ th.frames[k].line \in {TrueLine(raw), 0}
                   /\ th.frames[k].locals \in {TrueLocals(raw), {}}
    PROVE  LET more == Append(ts, th)
           IN  /\ Once(more) /\ NothingUntrue(more)
               /\ Listed(more) = Listed(ts) \cup {th.id}
               /\ /\ Entire(ts) /\ DOMAIN th.frames = DOMAIN stack[th.id]
                  /\ \A k \in DOMAIN th.frames :
                         /\ th.frames[k].line = TrueLine(stack[th.id][k])
                         /\ th.frames[k].locals = TrueLocals(stack[th.id][k])
                  => Entire(more)
<1> DEFINE more == Append(ts, th)
           l    == Len(ts) + 1
<1>1. /\ DOMAIN more = DOMAIN ts \cup {l} /\ l \notin DOMAIN ts
      /\ \A i \in DOMAIN ts : more[i] = ts[i]
      /\ more[l] = th
  BY OneMoreThread
<1> HIDE DEF more, l
<1>2. Once(more)
  BY <1>1 DEF Once, Listed
<1>3. NothingUntrue(more)
  <2> SUFFICES ASSUME NEW i \in DOMAIN more, NEW k \in DOMAIN more[i].frames
               PROVE  LET f   == more[i].frames[k]
                          raw == stack[more[i].id][k]
                      IN  /\ k \in DOMAIN stack[more[i].id] /\ f.id = raw.id
                          /\ f.line \in {TrueLine(raw), 0}
                          /\ f.locals \in {TrueLocals(raw), {}}
    BY DEF NothingUntrue
  <2>1. CASE i \in DOMAIN ts
    BY <1>1, <2>1 DEF NothingUntrue
  <2>2. CASE i = l
    BY <1>1, <2>2
  <2> QED
    BY <1>1, <2>1, <2>2
<1>4. Listed(more) = Listed(ts) \cup {th.id}
  BY <1>1 DEF Listed
<1>5. ASSUME Entire(ts), DOMAIN th.frames = DOMAIN stack[th.id],
             \A k \in DOMAIN th.frames :
                 /\ th.frames[k].line = TrueLine(stack[th.id][k])
                 /\ th.frames[k].locals = TrueLocals(stack[th.id][k])
      PROVE  Entire(more)
  <2> SUFFICES ASSUME NEW i \in DOMAIN more
               PROVE  /\ DOMAIN more[i].frames = DOMAIN stack[more[i].id]
                      /\ \A k \in DOMAIN more[i].frames :
                             /\ more[i].frames[k].line = TrueLine(stack[more[i].id][k])
                             /\ more[i].frames[k].locals = TrueLocals(stack[more[i].id][k])
    BY DEF Entire
  <2>1. CASE i \in DOMAIN ts
    BY <1>1, <1>5, <2>1 DEF Entire
  <2>2. CASE i = l
    BY <1>1, <1>5, <2>2
  <2> QED
    BY <1>1, <2>1, <2>2
<1> QED
  BY <1>2, <1>3, <1>4, <1>5 DEF more

-----------------------------------------------------------------------------
(* The event loop builds a snapshot.                                       *)

\* A thread is added, read entirely or, if the JVM has died by now, in part.
LEMMA ThreadBuilt ==
    ASSUME TypeInv, LoopIsTrue, loop.pc = "build", NEW t \in loop.todo,
           NEW fs \in Seq(Frame), NEW after \in Nat \ {0}, after >= loop.nextRef,
           loop' = [loop EXCEPT !.todo = @ \ {t},
                                !.threads = Append(@, [id |-> t, frames |-> fs]),
                                !.nextRef = after],
           UNCHANGED <<stack, stops>>, jvm # "gone" \/ jvm' = "gone",
           \A k \in DOMAIN fs :
               \/ fs[k].locals = {} /\ fs[k].ref = 0
               \/ fs[k].locals # {} /\ fs[k].ref \in loop.nextRef .. after - 1,
           \A k, q \in DOMAIN fs : fs[k].ref = fs[q].ref /\ fs[k].ref # 0 => k = q,
           \A k \in DOMAIN fs :
               LET raw == stack[t][k]
               IN  /\ k \in DOMAIN stack[t] /\ fs[k].id = raw.id
                   /\ fs[k].line \in {TrueLine(raw), 0}
                   /\ fs[k].locals \in {TrueLocals(raw), {}},
           jvm' # "gone" =>
               /\ DOMAIN fs = DOMAIN stack[t]
               /\ \A k \in DOMAIN fs : /\ fs[k].line = TrueLine(stack[t][k])
                                       /\ fs[k].locals = TrueLocals(stack[t][k]),
           jvm' = jvm \/ jvm' = "gone"
    PROVE  LoopInv'
<1> DEFINE th   == [id |-> t, frames |-> fs]
           ts   == loop.threads
           more == Append(ts, th)
<1>1. /\ loop \in LoopState /\ ts \in Seq(SnapshotThread) /\ loop.nextRef \in Nat \ {0}
      /\ t \in Threads /\ Counted(ts, loop.nextRef)
  BY DEF TypeInv, LoopTypes, LoopState
<1>2. th \in SnapshotThread /\ th.id = t /\ th.frames = fs
  BY <1>1 DEF SnapshotThread
<1>3. /\ loop'.pc = "build" /\ loop'.stopped = loop.stopped
      /\ loop'.todo = loop.todo \ {t} /\ loop'.threads = more /\ loop'.nextRef = after
      /\ loop' \in LoopState
  <2>1. more \in Seq(SnapshotThread)
    <3> HIDE DEF th, ts
    <3> QED
      BY <1>1, <1>2, OneMoreThread
  <2> HIDE DEF more
  <2> QED
    BY <1>1, <2>1 DEF LoopState, more, th, ts
<1> HIDE DEF th
<1>4. Counted(more, after)
  <2> HIDE DEF ts
  <2>1. /\ \A k \in DOMAIN th.frames :
               \/ th.frames[k].locals = {} /\ th.frames[k].ref = 0
               \/ th.frames[k].locals # {} /\ th.frames[k].ref \in loop.nextRef .. after - 1
        /\ \A k, q \in DOMAIN th.frames :
               th.frames[k].ref = th.frames[q].ref /\ th.frames[k].ref # 0 => k = q
    BY <1>2
  <2> QED
    BY <1>1, <1>2, <2>1, CountedMore
<1>5. LoopPhases'
  BY <1>3 DEF TypeInv, LoopTypes, LoopPhases
<1>6. /\ Once(more) /\ NothingUntrue(more) /\ Listed(more) = Listed(ts) \cup {t}
      /\ jvm' # "gone" => Entire(more)
  <2> HIDE DEF ts
  <2>1. t \notin Listed(ts) /\ Once(ts) /\ NothingUntrue(ts)
    BY DEF LoopIsTrue, ts
  <2>2. \A k \in DOMAIN th.frames :
            LET raw == stack[th.id][k]
            IN  /\ k \in DOMAIN stack[th.id] /\ th.frames[k].id = raw.id
                /\ th.frames[k].line \in {TrueLine(raw), 0}
                /\ th.frames[k].locals \in {TrueLocals(raw), {}}
    BY <1>2
  <2>3. /\ Once(more) /\ NothingUntrue(more) /\ Listed(more) = Listed(ts) \cup {t}
        /\ /\ Entire(ts) /\ DOMAIN th.frames = DOMAIN stack[th.id]
           /\ \A k \in DOMAIN th.frames :
                  /\ th.frames[k].line = TrueLine(stack[th.id][k])
                  /\ th.frames[k].locals = TrueLocals(stack[th.id][k])
           => Entire(more)
    BY <1>1, <1>2, <2>1, <2>2, TrueMore
  <2>4. jvm' # "gone" => Entire(ts)
    BY DEF LoopIsTrue, ts
  <2> QED
    BY <1>2, <2>3, <2>4
<1> HIDE DEF more
<1>7. LoopIsTrue'
  <2>1. Once(loop'.threads) /\ NothingUntrue(loop.threads)'
    BY <1>3, <1>6, SameStop
  <2>2. Listed(loop'.threads) \cap loop'.todo = {}
    BY <1>3, <1>6 DEF LoopIsTrue
  <2>3. ASSUME jvm' # "gone"
        PROVE  /\ Entire(loop.threads)'
               /\ Listed(loop'.threads) \cup loop'.todo = Threads
               /\ stack'[loop'.stopped] # <<>>
    <3>1. jvm # "gone" /\ stack' = stack
      BY <2>3
    <3>2. Listed(ts) \cup loop.todo = Threads /\ stack[loop.stopped] # <<>>
      BY <3>1 DEF LoopIsTrue
    <3> QED
      BY <1>3, <1>6, <2>3, <3>1, <3>2, SameStop
  <2> QED
    BY <1>3, <2>1, <2>2, <2>3 DEF LoopIsTrue
<1>8. Counted(loop.threads, loop.nextRef)'
  BY <1>3, <1>4
<1> QED
  BY <1>3, <1>5, <1>7, <1>8 DEF LoopInv, LoopTypes

\* BuildThread and BuildCutShort do that.
LEMMA ThreadRead ==
    ASSUME TypeInv, LoopIsTrue, loop.pc = "build", NEW t \in loop.todo,
           NEW lines \in Nat, NEW read \in Nat, Built(t, FramesOf(t, lines, read), read),
           UNCHANGED <<stack, stops>>, jvm # "gone",
           \/ jvm' = "gone"
           \/ jvm' = jvm /\ lines = Len(stack[t]) /\ read = Len(stack[t])
    PROVE  LoopInv'
<1> DEFINE fs    == FramesOf(t, lines, read)
           after == loop.nextRef + Cardinality(WithLocals(t, Len(fs), read))
<1>1. /\ stack \in Stacks /\ t \in Threads /\ loop.nextRef \in Nat \ {0}
      /\ stops \in 1 .. MaxStops
  BY BoundsAssumption DEF TypeInv, OtherTypes, LoopTypes, LoopState, LoopPhases
<1>2. /\ fs \in Seq(Frame) /\ Len(fs) = Len(stack[t])
      /\ after \in Nat \ {0} /\ after >= loop.nextRef
      /\ \A k \in DOMAIN fs :
             \/ fs[k].locals = {} /\ fs[k].ref = 0
             \/ fs[k].locals # {} /\ fs[k].ref \in loop.nextRef .. after - 1
      /\ \A k, q \in DOMAIN fs : fs[k].ref = fs[q].ref /\ fs[k].ref # 0 => k = q
  BY <1>1, FramesTyped
<1>3. /\ DOMAIN fs = DOMAIN stack[t]
      /\ \A k \in DOMAIN fs :
             LET raw == stack[t][k]
             IN  /\ fs[k].id = raw.id
                 /\ fs[k].line \in {TrueLine(raw), 0}
                 /\ fs[k].locals \in {TrueLocals(raw), {}}
                 /\ lines = Len(stack[t]) => fs[k].line = TrueLine(raw)
                 /\ read = Len(stack[t]) => fs[k].locals = TrueLocals(raw)
  BY <1>1, FramesTrue
<1>4. loop' = [loop EXCEPT !.todo = @ \ {t},
                           !.threads = Append(@, [id |-> t, frames |-> fs]),
                           !.nextRef = after]
  BY <1>1 DEF Built, TypeInv, LoopTypes, LoopState
<1> HIDE DEF fs, after
<1>5. jvm' # "gone" =>
          /\ DOMAIN fs = DOMAIN stack[t]
          /\ \A k \in DOMAIN fs : /\ fs[k].line = TrueLine(stack[t][k])
                                  /\ fs[k].locals = TrueLocals(stack[t][k])
  BY <1>3
<1>6. \A k \in DOMAIN fs :
          LET raw == stack[t][k]
          IN  /\ k \in DOMAIN stack[t] /\ fs[k].id = raw.id
              /\ fs[k].line \in {TrueLine(raw), 0}
              /\ fs[k].locals \in {TrueLocals(raw), {}}
  BY <1>3
<1> QED
  BY <1>2, <1>4, <1>5, <1>6, ThreadBuilt

LEMMA ThreadBlank ==
    ASSUME TypeInv, LoopIsTrue, loop.pc = "build", NEW t \in loop.todo,
           Built(t, <<>>, 0), UNCHANGED <<stack, stops>>, jvm = "gone", jvm' = jvm
    PROVE  LoopInv'
<1> DEFINE fs == <<>>
           after == loop.nextRef + Cardinality(WithLocals(t, Len(fs), 0))
<1>1. loop.nextRef \in Nat \ {0} /\ loop \in LoopState
  BY DEF TypeInv, LoopTypes, LoopState
<1>2. fs \in Seq(Frame) /\ DOMAIN fs = {}
  OBVIOUS
<1>3. after \in Nat \ {0} /\ after >= loop.nextRef
  <2>1. Len(fs) \in Nat
    OBVIOUS
  <2>2. Cardinality(WithLocals(t, Len(fs), 0)) \in Nat
    BY <2>1, FewerWithLocals
  <2> QED
    BY <1>1, <2>2
<1>4. loop' = [loop EXCEPT !.todo = @ \ {t},
                           !.threads = Append(@, [id |-> t, frames |-> fs]),
                           !.nextRef = after]
  BY <1>1 DEF Built, LoopState
<1> HIDE DEF fs, after
<1> QED
  BY <1>2, <1>3, <1>4, ThreadBuilt

-----------------------------------------------------------------------------
(* Types: the parts.                                                       *)

LEMMA TypeParts == TypeInv => TypeOK
BY DEF TypeInv, LoopTypes, LoopState, SnapshotTypes, Distinct, InboxTypes, OtherTypes,
       TypeOK

LEMMA EmptyCounted ==
    /\ Counted(<<>>, 1) /\ Distinct(<<>>)
    /\ Once(<<>>) /\ NothingUntrue(<<>>) /\ Entire(<<>>) /\ Listed(<<>>) = {}
<1>1. Positions(<<>>) = {}
  BY DEF Positions
<1> QED
  BY <1>1 DEF Counted, Distinct, Once, NothingUntrue, Entire, Listed

LEMMA CountedDistinct ==
    ASSUME NEW ts, NEW n, Counted(ts, n)
    PROVE  Distinct(ts)
BY DEF Counted, Distinct

\* No snapshot shows nothing; a snapshot that is stored is not no snapshot.
LEMMA NoSnapshotTyped == snapshot = NoSnapshot => SnapshotTypes /\ SnapshotIsTrue
<1> SUFFICES ASSUME snapshot = NoSnapshot PROVE SnapshotTypes /\ SnapshotIsTrue
  OBVIOUS
<1>1. /\ snapshot.stopped = NoThread /\ snapshot.threads = <<>>
      /\ snapshot \in [stopped : Threads \cup {NoThread}, threads : Seq(SnapshotThread)]
  BY DEF NoSnapshot
<1> QED
  BY <1>1, EmptyCounted DEF SnapshotTypes, SnapshotIsTrue

\* The event loop at rest, but for its pc and the thread that stopped.
LEMMA LoopFields ==
    ASSUME NEW pc, NEW t
    PROVE  /\ LET l == [LoopIdle EXCEPT !.pc = pc]
              IN  /\ l.pc = pc /\ l.stopped = NoThread /\ l.todo = {}
                  /\ l.threads = <<>> /\ l.nextRef = 1
           /\ LET l == [LoopIdle EXCEPT !.pc = pc, !.stopped = t]
              IN  /\ l.pc = pc /\ l.stopped = t /\ l.todo = {}
                  /\ l.threads = <<>> /\ l.nextRef = 1
           /\ LoopIdle = [LoopIdle EXCEPT !.pc = "select"]
           /\ LoopIdle.pc = "select"
BY DEF LoopIdle

LEMMA LoopTyped ==
    ASSUME NEW pc \in {"select", "list", "build", "store", "announce", "ended"},
           NEW t \in Threads \cup {NoThread}
    PROVE  /\ [LoopIdle EXCEPT !.pc = pc] \in LoopState
           /\ [LoopIdle EXCEPT !.pc = pc, !.stopped = t] \in LoopState
<1>1. LoopIdle \in LoopState
  BY DEF LoopState, LoopIdle
<1> QED
  BY <1>1 DEF LoopState

\* The event loop at rest.
Rests(pc) == loop = [LoopIdle EXCEPT !.pc = pc]

LEMMA LoopAtRest ==
    Rests("select") \/ Rests("announce") \/ Rests("ended") => LoopInv
<1> SUFFICES ASSUME NEW pc \in {"select", "announce", "ended"}, Rests(pc)
             PROVE  LoopInv
  OBVIOUS
<1>1. /\ loop.pc = pc /\ loop.stopped = NoThread /\ loop.todo = {} /\ loop.threads = <<>>
      /\ loop.nextRef = 1 /\ loop \in LoopState
  BY LoopFields, LoopTyped DEF Rests
<1>2. LoopPhases
  BY <1>1 DEF LoopPhases, Rests
<1>3. LoopIsTrue
  BY <1>1, EmptyCounted DEF LoopIsTrue
<1> QED
  BY <1>1, <1>2, <1>3, EmptyCounted DEF LoopInv, LoopTypes

\* What was true of an earlier state of the JVM is true when it has died.
LEMMA LoopKept ==
    ASSUME LoopInv, UNCHANGED <<stack, stops, loop>>, jvm # "gone" \/ jvm' = "gone"
    PROVE  LoopInv'
<1>1. /\ LoopTypes'
      /\ NothingUntrue(loop.threads)' <=> NothingUntrue(loop.threads)
      /\ Entire(loop.threads)' <=> Entire(loop.threads)
  <2>1. loop' = loop /\ stops' = stops
    OBVIOUS
  <2>2. NothingUntrue(loop'.threads) <=> NothingUntrue(loop.threads)
    BY <2>1
  <2>3. Entire(loop'.threads) <=> Entire(loop.threads)
    BY <2>1
  <2>4. LoopTypes'
    BY <2>1 DEF LoopInv, LoopTypes, LoopPhases
  <2> QED
    BY <2>2, <2>3, <2>4, SameStop
<1> QED
  BY <1>1 DEF LoopInv, LoopIsTrue

LEMMA SnapshotKept ==
    ASSUME SnapshotTypes, SnapshotIsTrue, UNCHANGED <<stack, stops, snapshot>>,
           jvm # "gone" \/ jvm' = "gone"
    PROVE  SnapshotTypes' /\ SnapshotIsTrue'
<1>1. /\ NothingUntrue(snapshot.threads)' <=> NothingUntrue(snapshot.threads)
      /\ Entire(snapshot.threads)' <=> Entire(snapshot.threads)
  <2>1. snapshot' = snapshot
    OBVIOUS
  <2>2. NothingUntrue(snapshot'.threads) <=> NothingUntrue(snapshot.threads)
    BY <2>1
  <2>3. Entire(snapshot'.threads) <=> Entire(snapshot.threads)
    BY <2>1
  <2> QED
    BY <2>2, <2>3, SameStop
<1>2. SnapshotTypes'
  BY DEF SnapshotTypes
<1> QED
  BY <1>1, <1>2 DEF SnapshotIsTrue

\* Nothing new is asked, and what was asked stays sound.
LEMMA AskedKept ==
    ASSUME AskedSoundly, UNCHANGED <<stack, stops, snapshot, inbox, editorVars>>,
           jvm # "gone" \/ jvm' = "gone"
    PROVE  AskedSoundly'
<1>1. PresentIds' = PresentIds
  BY SameStop
<1>2. \A i \in DOMAIN inbox : Sound(inbox[i])' <=> Sound(inbox[i])
  BY <1>1 DEF Sound, Refers
<1>3. \A x \in references : Refers(x.ref, x.frame)' <=> Refers(x.ref, x.frame)
  BY DEF Refers
<1>4. UNCHANGED <<snapshot, inbox, editor, frames, references>>
  BY DEF editorVars
<1> QED
  BY <1>1, <1>2, <1>3, <1>4 DEF AskedSoundly

-----------------------------------------------------------------------------
(* Steps of the JVM.                                                       *)

LEMMA InvStops ==
    ASSUME StopInv, NEW t \in Threads, JvmStops(t)
    PROVE  StopInv'
<1>1. /\ JvmsTurn
      /\ snapshot' = NoSnapshot /\ inbox' = <<>> /\ main' = "idle" /\ editor' = "running"
      /\ UNCHANGED <<frames, references>>
      /\ jvm' = "suspended" /\ stops' = stops + 1
  <2>1. /\ jvm = "running" /\ jvm' = "suspended" /\ stops' = stops + 1
        /\ UNCHANGED <<snapshot, main, inbox, editor, frames, references>>
    BY DEF JvmStops, editorVars
  <2>2. JvmsTurn
    BY <2>1 DEF StopInv, Turns, LoopsTurn, EditorsTurn, MainsTurn
  <2> QED
    BY <2>1, <2>2 DEF JvmsTurn, Quiet
<1>2. stack' \in Stacks /\ stack'[t] # <<>> /\ stops < MaxStops /\ stops \in Nat
  BY DEF JvmStops, StopInv, TypeInv, OtherTypes
<1>3. /\ loop'.pc = "list" /\ loop'.stopped = t /\ loop'.todo = {}
      /\ loop'.threads = <<>> /\ loop'.nextRef = 1 /\ loop' \in LoopState
  <2>1. loop' = [LoopIdle EXCEPT !.pc = "list", !.stopped = t]
    BY DEF JvmStops
  <2>2. t \in Threads \cup {NoThread}
    OBVIOUS
  <2>3. [LoopIdle EXCEPT !.pc = "list", !.stopped = t] \in LoopState
    BY <2>2, LoopTyped
  <2> QED
    BY <2>1, <2>3, LoopFields
<1>4. LoopInv'
  <2>1. LoopTypes'
    BY <1>1, <1>2, <1>3, EmptyCounted DEF LoopTypes, LoopPhases
  <2>2. NothingUntrue(loop.threads)' /\ Entire(loop.threads)'
    BY <1>3 DEF NothingUntrue, Entire
  <2>3. LoopIsTrue'
    BY <1>2, <1>3, <2>2, EmptyCounted DEF LoopIsTrue
  <2> QED
    BY <2>1, <2>3 DEF LoopInv
<1>5. SnapshotTypes' /\ SnapshotIsTrue'
  <2>1. (snapshot = NoSnapshot)'
    BY <1>1
  <2> QED
    BY <2>1, NoSnapshotTyped, PTL
<1>6. InboxTypes' /\ OtherTypes'
  BY <1>1, <1>2, BoundsAssumption DEF StopInv, TypeInv, InboxTypes, OtherTypes
<1>7. Turns'
  BY <1>1, <1>3 DEF Turns, LoopsTurn, Quiet
<1>8. AskedSoundly'
  BY <1>1 DEF StopInv, AskedSoundly, JvmsTurn, Quiet
<1> QED
  BY <1>4, <1>5, <1>6, <1>7, <1>8 DEF StopInv, TypeInv, LoopInv

LEMMA InvDies ==
    ASSUME StopInv, JvmDies
    PROVE  StopInv'
<1>1. /\ jvm' = "gone" /\ UNCHANGED <<stack, stops, snapshot, loop, main, inbox, editorVars>>
      /\ LoopInv /\ SnapshotTypes /\ SnapshotIsTrue /\ AskedSoundly
  BY DEF JvmDies, StopInv, TypeInv, LoopInv
<1>2. LoopInv' /\ SnapshotTypes' /\ SnapshotIsTrue' /\ AskedSoundly'
  BY <1>1, LoopKept, SnapshotKept, AskedKept
<1>3. InboxTypes' /\ OtherTypes' /\ Turns'
  BY <1>1 DEF StopInv, TypeInv, InboxTypes, OtherTypes, Turns, editorVars
<1> QED
  BY <1>2, <1>3 DEF StopInv, TypeInv, LoopInv

-----------------------------------------------------------------------------
(* Steps of the event loop.                                                *)

\* While it builds a snapshot, nobody else does anything, unless the JVM dies.
LEMMA InvBuilds ==
    ASSUME StopInv, LoopInv', loop.pc \in {"list", "build"}, loop'.pc \in {"build", "store"},
           UNCHANGED <<stack, stops, snapshot, main, inbox, editorVars>>,
           jvm' = jvm \/ jvm' = "gone"
    PROVE  StopInv'
<1>1. SnapshotTypes' /\ SnapshotIsTrue' /\ AskedSoundly'
  BY SnapshotKept, AskedKept DEF StopInv, TypeInv
<1>2. InboxTypes' /\ OtherTypes'
  BY DEF StopInv, TypeInv, InboxTypes, OtherTypes, editorVars
<1>3. Turns'
  BY DEF StopInv, Turns, JvmsTurn, LoopsTurn, EditorsTurn, MainsTurn, Quiet, editorVars
<1> QED
  BY <1>1, <1>2, <1>3 DEF StopInv, TypeInv, LoopInv

LEMMA InvLists ==
    ASSUME StopInv, ListThreads
    PROVE  StopInv'
<1>1. /\ loop \in LoopState /\ loop.pc = "list" /\ LoopPhases /\ LoopIsTrue
      /\ Counted(loop.threads, loop.nextRef) /\ loop.threads = <<>>
  BY DEF StopInv, TypeInv, LoopTypes, LoopPhases, ListThreads
<1>2. /\ loop'.pc = "build" /\ loop'.threads = <<>>
      /\ UNCHANGED <<loop.stopped, loop.nextRef>>
      /\ loop'.todo = IF jvm = "gone" THEN {} ELSE Threads
      /\ loop' \in LoopState /\ UNCHANGED <<jvm, stack, stops>>
  BY <1>1 DEF ListThreads, LoopState, jvmVars
<1>3. LoopTypes'
  BY <1>1, <1>2 DEF LoopTypes, LoopPhases
<1>4. NothingUntrue(loop.threads)' /\ Entire(loop.threads)'
  BY <1>2 DEF NothingUntrue, Entire
<1>5. LoopIsTrue'
  BY <1>1, <1>2, <1>4, EmptyCounted DEF LoopIsTrue
<1>6. /\ UNCHANGED <<stack, stops, snapshot, main, inbox, editorVars>>
      /\ jvm' = jvm /\ loop.pc \in {"list", "build"} /\ loop'.pc \in {"build", "store"}
  BY <1>1, <1>2 DEF ListThreads
<1> QED
  BY <1>3, <1>5, <1>6, InvBuilds DEF LoopInv

LEMMA InvBuildThread ==
    ASSUME StopInv, BuildThread
    PROVE  StopInv'
<1>1. PICK t \in loop.todo :
          IF jvm = "gone" THEN Built(t, <<>>, 0)
          ELSE Built(t, FramesOf(t, Len(stack[t]), Len(stack[t])), Len(stack[t]))
  BY DEF BuildThread
<1>2. /\ TypeInv /\ LoopIsTrue /\ loop.pc = "build" /\ UNCHANGED <<jvm, stack, stops>>
      /\ UNCHANGED <<stack, stops, snapshot, main, inbox, editorVars>>
  BY DEF StopInv, BuildThread, jvmVars
<1>3. t \in Threads /\ stack \in Stacks /\ loop \in LoopState
  BY <1>2 DEF TypeInv, OtherTypes, LoopTypes, LoopState
<1>4. Len(stack[t]) \in Nat
  BY <1>3, StackTyped
<1>5. LoopInv'
  <2>1. CASE jvm = "gone"
    BY <1>1, <1>2, <2>1, ThreadBlank
  <2>2. CASE jvm # "gone"
    <3>1. Built(t, FramesOf(t, Len(stack[t]), Len(stack[t])), Len(stack[t]))
      BY <1>1, <2>2
    <3> QED
      BY <1>2, <1>4, <2>2, <3>1, ThreadRead
  <2> QED
    BY <2>1, <2>2
<1>6. loop'.pc = "build"
  <2>1. PICK fs, read : Built(t, fs, read)
    BY <1>1
  <2> QED
    BY <1>2, <1>3, <2>1 DEF Built, LoopState
<1> QED
  BY <1>2, <1>5, <1>6, InvBuilds

LEMMA InvCutShort ==
    ASSUME StopInv, BuildCutShort
    PROVE  StopInv'
<1>1. PICK t \in loop.todo : \E read \in 0 .. Len(stack[t]) :
          \E lines \in {read, read + 1} : Built(t, FramesOf(t, lines, read), read)
  BY DEF BuildCutShort
<1>2. PICK read \in 0 .. Len(stack[t]) :
          \E lines \in {read, read + 1} : Built(t, FramesOf(t, lines, read), read)
  BY <1>1
<1>3. PICK lines \in {read, read + 1} : Built(t, FramesOf(t, lines, read), read)
  BY <1>2
<1>4. /\ TypeInv /\ LoopIsTrue /\ loop.pc = "build" /\ jvm # "gone" /\ jvm' = "gone"
      /\ UNCHANGED <<stack, stops, snapshot, main, inbox, editorVars>>
  BY DEF StopInv, BuildCutShort
<1>5. read \in Nat /\ lines \in Nat /\ loop \in LoopState
  <2>1. t \in Threads /\ stack \in Stacks /\ loop \in LoopState
    BY <1>4 DEF TypeInv, OtherTypes, LoopTypes, LoopState
  <2>2. Len(stack[t]) \in Nat
    BY <2>1, StackTyped
  <2> QED
    BY <2>1, <2>2
<1>6. LoopInv'
  BY <1>3, <1>4, <1>5, ThreadRead
<1>7. loop'.pc = "build"
  BY <1>3, <1>4, <1>5 DEF Built, LoopState
<1> QED
  BY <1>4, <1>6, <1>7, InvBuilds

LEMMA InvBuilt ==
    ASSUME StopInv, SnapshotBuilt
    PROVE  StopInv'
<1>1. /\ loop \in LoopState /\ loop.pc = "build" /\ loop.todo = {}
      /\ LoopPhases /\ LoopIsTrue /\ Counted(loop.threads, loop.nextRef)
  BY DEF StopInv, TypeInv, LoopTypes, SnapshotBuilt
<1>2. /\ loop'.pc = "store" /\ loop' \in LoopState
      /\ loop'.threads = loop.threads /\ loop'.stopped = loop.stopped
      /\ loop'.nextRef = loop.nextRef /\ loop'.todo = {}
      /\ UNCHANGED <<jvm, stack, stops>>
  BY <1>1 DEF SnapshotBuilt, LoopState, jvmVars
<1>3. LoopTypes'
  BY <1>1, <1>2 DEF LoopTypes, LoopPhases
<1>4. /\ NothingUntrue(loop.threads)' <=> NothingUntrue(loop.threads)
      /\ Entire(loop.threads)' <=> Entire(loop.threads)
  BY <1>2, SameStop
<1>5. LoopIsTrue'
  BY <1>1, <1>2, <1>4 DEF LoopIsTrue
<1>6. /\ UNCHANGED <<stack, stops, snapshot, main, inbox, editorVars>> /\ jvm' = jvm
      /\ loop.pc \in {"list", "build"} /\ loop'.pc \in {"build", "store"}
  BY <1>1, <1>2 DEF SnapshotBuilt
<1> QED
  BY <1>3, <1>5, <1>6, InvBuilds DEF LoopInv

\* What the loop has built becomes the snapshot.
LEMMA InvStores ==
    ASSUME StopInv, Store
    PROVE  StopInv'
<1>1. /\ loop \in LoopState /\ loop.pc = "store" /\ loop.todo = {}
      /\ loop.stopped \in Threads /\ LoopIsTrue /\ Counted(loop.threads, loop.nextRef)
  BY DEF StopInv, TypeInv, LoopTypes, LoopPhases, Store
<1>2. /\ snapshot'.stopped = loop.stopped /\ snapshot'.threads = loop.threads
      /\ snapshot' \in [stopped : Threads \cup {NoThread}, threads : Seq(SnapshotThread)]
      /\ loop' = [LoopIdle EXCEPT !.pc = "announce"]
      /\ UNCHANGED <<jvm, stack, stops, main, inbox, editor, frames, references>>
  BY <1>1 DEF Store, LoopState, jvmVars, editorVars
<1>3. LoopInv' /\ loop'.pc = "announce"
  <2>1. loop'.pc = "announce" /\ Rests("announce")'
    BY <1>2, LoopFields DEF Rests
  <2>2. LoopInv'
    BY <2>1, LoopAtRest, PTL
  <2> QED
    BY <2>1, <2>2
<1>4. snapshot' # NoSnapshot
  BY <1>1, <1>2, ThreadsAssumption DEF NoSnapshot
<1>5. SnapshotTypes'
  BY <1>1, <1>2, CountedDistinct DEF SnapshotTypes
<1>6. SnapshotIsTrue'
  <2>1. /\ NothingUntrue(snapshot.threads)' <=> NothingUntrue(loop.threads)
        /\ Entire(snapshot.threads)' <=> Entire(loop.threads)
    BY <1>2, SameStop
  <2> QED
    BY <1>1, <1>2, <2>1 DEF LoopIsTrue, SnapshotIsTrue
<1>7. InboxTypes' /\ OtherTypes'
  BY <1>2 DEF StopInv, TypeInv, InboxTypes, OtherTypes
<1>8. jvm # "gone" => LoopsTurn /\ Quiet
  BY <1>1 DEF StopInv, Turns, JvmsTurn, LoopsTurn, EditorsTurn, MainsTurn
<1>9. Turns'
  BY <1>2, <1>3, <1>4, <1>8 DEF Turns, LoopsTurn, Quiet
<1>10. AskedSoundly'
  BY <1>2, <1>8 DEF StopInv, AskedSoundly, Quiet
<1> QED
  BY <1>3, <1>5, <1>6, <1>7, <1>9, <1>10 DEF StopInv, TypeInv, LoopInv

LEMMA InvAnnounces ==
    ASSUME StopInv, Announce
    PROVE  StopInv'
<1>1. /\ loop' = LoopIdle /\ loop.pc = "announce" /\ editor' = "stopped"
      /\ UNCHANGED <<jvm, stack, stops, snapshot, main, inbox, frames, references>>
  BY DEF Announce, jvmVars
<1>2. LoopInv' /\ loop'.pc = "select"
  <2>1. loop'.pc = "select" /\ Rests("select")'
    BY <1>1, LoopFields DEF Rests
  <2>2. LoopInv'
    BY <2>1, LoopAtRest, PTL
  <2> QED
    BY <2>1, <2>2
<1>3. SnapshotTypes' /\ SnapshotIsTrue'
  BY <1>1, SnapshotKept DEF StopInv, TypeInv
<1>4. InboxTypes' /\ OtherTypes'
  BY <1>1 DEF StopInv, TypeInv, InboxTypes, OtherTypes
<1>5. jvm # "gone" => LoopsTurn
  BY <1>1 DEF StopInv, Turns, JvmsTurn, LoopsTurn, EditorsTurn, MainsTurn
<1>6. Turns'
  BY <1>1, <1>2, <1>5 DEF Turns, LoopsTurn, EditorsTurn, Quiet, AllInspect
<1>7. AskedSoundly'
  BY <1>1, <1>5 DEF StopInv, AskedSoundly, LoopsTurn, Quiet
<1> QED
  BY <1>2, <1>3, <1>4, <1>6, <1>7 DEF StopInv, TypeInv, LoopInv

LEMMA InvEnds ==
    ASSUME StopInv, LoopEnds
    PROVE  StopInv'
<1>1. /\ jvm' = "gone" /\ snapshot' = NoSnapshot /\ editor' = "ended"
      /\ loop' = [LoopIdle EXCEPT !.pc = "ended"]
      /\ UNCHANGED <<stack, stops, main, inbox, frames, references>>
  BY DEF LoopEnds, jvmVars
<1>2. LoopInv'
  <2>1. Rests("ended")'
    BY <1>1 DEF Rests
  <2> QED
    BY <2>1, LoopAtRest, PTL
<1>3. SnapshotTypes' /\ SnapshotIsTrue'
  <2>1. (snapshot = NoSnapshot)'
    BY <1>1
  <2> QED
    BY <2>1, NoSnapshotTyped, PTL
<1>4. InboxTypes' /\ OtherTypes' /\ Turns' /\ AskedSoundly'
  BY <1>1 DEF StopInv, TypeInv, InboxTypes, OtherTypes, Turns, AskedSoundly
<1> QED
  BY <1>2, <1>3, <1>4 DEF StopInv, TypeInv, LoopInv

-----------------------------------------------------------------------------
(* Finding a frame in the snapshot.                                        *)

LEMMA PositionsIn ==
    ASSUME NEW ts \in Seq(SnapshotThread), NEW p \in Positions(ts)
    PROVE  /\ p[1] \in DOMAIN ts /\ p[1] \in Nat /\ p[2] \in Nat
           /\ p[2] \in DOMAIN ts[p[1]].frames /\ p = <<p[1], p[2]>>
           /\ FrameAt(ts, p) = ts[p[1]].frames[p[2]] /\ FrameAt(ts, p) \in Frame
<1>1. PICK i \in DOMAIN ts : p \in {i} \X DOMAIN ts[i].frames
  BY DEF Positions
<1>2. ts[i] \in SnapshotThread /\ i \in Nat
  OBVIOUS
<1>3. ts[i].frames \in Seq(Frame)
  BY <1>2 DEF SnapshotThread
<1>4. p[1] = i /\ p[2] \in DOMAIN ts[i].frames /\ p = <<p[1], p[2]>>
  BY <1>1
<1> QED
  BY <1>2, <1>3, <1>4 DEF FrameAt

LEMMA PositionIs ==
    ASSUME NEW ts \in Seq(SnapshotThread), NEW i \in DOMAIN ts,
           NEW k \in DOMAIN ts[i].frames
    PROVE  <<i, k>> \in Positions(ts) /\ FrameAt(ts, <<i, k>>) = ts[i].frames[k]
BY DEF Positions, FrameAt

\* The frames of a thread are those of some thread of the snapshot with its id.
LEMMA ThreadFound ==
    ASSUME SnapshotTypes, NEW t
    PROVE  /\ \/ FramesOfThread(t) = <<>>
              \/ \E i \in DOMAIN snapshot.threads :
                     /\ snapshot.threads[i].id = t
                     /\ FramesOfThread(t) = snapshot.threads[i].frames
           /\ t \in Listed(snapshot.threads) =>
                  \E i \in DOMAIN snapshot.threads :
                      /\ snapshot.threads[i].id = t
                      /\ FramesOfThread(t) = snapshot.threads[i].frames
<1> DEFINE ts    == snapshot.threads
           same  == {i \in DOMAIN ts : ts[i].id = t}
           first == {i \in DOMAIN ts :
                         ts[i].id = t /\ \A j \in 1 .. i - 1 : ts[j].id # t}
           found == CHOOSE i \in first : TRUE
<1>1. ts \in Seq(SnapshotThread)
  BY DEF SnapshotTypes
<1>2. FramesOfThread(t) = IF first = {} THEN <<>> ELSE ts[found].frames
  BY DEF FramesOfThread
<1>3. first # {} => found \in DOMAIN ts /\ ts[found].id = t
  <2>1. first # {} => found \in first
    <3> HIDE DEF first
    <3> QED
      OBVIOUS
  <2> QED
    BY <2>1
<1>4. t \in Listed(ts) => first # {}
  <2> SUFFICES ASSUME t \in Listed(ts) PROVE first # {}
    OBVIOUS
  <2>1. same # {} /\ same \subseteq Nat
    BY <1>1 DEF Listed
  <2>2. PICK i \in same : \A j \in same : i <= j
    <3> HIDE DEF same
    <3> QED
      BY <2>1, LeastNat
  <2>3. i \in DOMAIN ts /\ i \in Nat /\ DOMAIN ts = 1 .. Len(ts) /\ Len(ts) \in Nat
    BY <1>1, <2>2
  <2>4. \A j \in 1 .. i - 1 : ts[j].id # t
    <3> SUFFICES ASSUME NEW j \in 1 .. i - 1, ts[j].id = t PROVE FALSE
      OBVIOUS
    <3>1. j \in same
      BY <2>3
    <3> QED
      BY <2>2, <2>3, <3>1
  <2> QED
    BY <2>2, <2>4
<1> HIDE DEF first, found
<1> QED
  BY <1>2, <1>3, <1>4

\* The first of some frames is one of them; if there is just one, it is that.
LEMMA FirstFound ==
    ASSUME SnapshotTypes, NEW fs
    PROVE  /\ \A f \in FirstOf(fs) :
                  /\ f \in fs
                  /\ \E p \in Positions(snapshot.threads) : f = FrameAt(snapshot.threads, p)
           /\ \A p \in Positions(snapshot.threads) :
                  (/\ FrameAt(snapshot.threads, p) \in fs
                   /\ \A q \in Positions(snapshot.threads) :
                          FrameAt(snapshot.threads, q) \in fs => q = p)
                  => FirstOf(fs) = {FrameAt(snapshot.threads, p)}
<1> DEFINE ts    == snapshot.threads
           found == {p \in Positions(ts) : FrameAt(ts, p) \in fs}
           least == {q \in found : \A r \in found : ~Before(r, q)}
<1>1. ts \in Seq(SnapshotThread)
  BY DEF SnapshotTypes
<1>2. FirstOf(fs) = {FrameAt(ts, p) : p \in least}
  BY DEF FirstOf
<1>3. least \subseteq found
  OBVIOUS
<1>4. ASSUME NEW p \in Positions(ts), FrameAt(ts, p) \in fs,
             \A q \in Positions(ts) : FrameAt(ts, q) \in fs => q = p
      PROVE  FirstOf(fs) = {FrameAt(ts, p)}
  <2>1. found = {p}
    BY <1>4
  <2>2. ~Before(p, p)
    BY <1>1, PositionsIn DEF Before
  <2>3. least = {p}
    <3> HIDE DEF found
    <3> QED
      BY <2>1, <2>2
  <2> HIDE DEF least
  <2> QED
    BY <1>2, <2>3
<1>5. ASSUME NEW f \in FirstOf(fs)
      PROVE  f \in fs /\ \E p \in Positions(ts) : f = FrameAt(ts, p)
  <2>1. PICK p \in least : f = FrameAt(ts, p)
    <3> HIDE DEF least
    <3> QED
      BY <1>2
  <2> QED
    BY <1>3, <2>1
<1> QED
  BY <1>4, <1>5

-----------------------------------------------------------------------------
(* Steps of the editor.                                                    *)

\* What is asked anew is sound, by the snapshot there is.
LEMMA AskedAgain ==
    ASSUME UNCHANGED <<stack, snapshot>>,
           editor' = "running" => frames' = {} /\ references' = {},
           jvm' # "gone" =>
               /\ editor' = "stopped" =>
                      /\ frames' \subseteq PresentIds
                      /\ \A x \in references' : Refers(x.ref, x.frame)
               /\ \A i \in DOMAIN inbox' : inbox'[i].from = "stopped" =>
                      snapshot # NoSnapshot /\ Sound(inbox'[i])
    PROVE  AskedSoundly'
<1>1. PresentIds' = PresentIds
  BY DEF PresentIds, RawFrames
<1>2. ASSUME NEW ref, NEW id PROVE Refers(ref, id)' <=> Refers(ref, id)
  BY DEF Refers
<1>3. ASSUME NEW r PROVE Sound(r)' <=> Sound(r)
  BY <1>1 DEF Sound, Refers
<1>4. jvm' # "gone" /\ editor' = "stopped" =>
          \A x \in references' : Refers(x.ref, x.frame)'
  BY <1>2
<1>5. jvm' # "gone" =>
          \A i \in DOMAIN inbox' : inbox'[i].from = "stopped" =>
              snapshot' # NoSnapshot /\ Sound(inbox[i])'
  BY <1>1 DEF Sound, Refers
<1> QED
  BY <1>1, <1>4, <1>5 DEF AskedSoundly

\* A request is added to those that wait.
LEMMA OneMoreRequest ==
    ASSUME StopInv, NEW r \in Requests, Len(inbox) < MaxRequests,
           r.kind = "scopes" => r.frame # 0, r.kind = "stackTrace" => r.thread # NoThread,
           inbox' = Append(inbox, r)
    PROVE  /\ InboxTypes'
           /\ DOMAIN inbox' = 1 .. Len(inbox) + 1 /\ Len(inbox') = Len(inbox) + 1
           /\ Len(inbox) \in Nat /\ inbox'[Len(inbox) + 1] = r
           /\ \A i \in 1 .. Len(inbox) : inbox'[i] = inbox[i]
<1>1. /\ inbox \in Seq(Requests)
      /\ \A i \in DOMAIN inbox : /\ inbox[i].kind = "scopes" => inbox[i].frame # 0
                                 /\ inbox[i].kind = "stackTrace" => inbox[i].thread # NoThread
  BY DEF StopInv, TypeInv, InboxTypes
<1>2. /\ inbox' \in Seq(Requests) /\ Len(inbox') = Len(inbox) + 1 /\ Len(inbox) \in Nat
      /\ DOMAIN inbox = 1 .. Len(inbox) /\ DOMAIN inbox' = 1 .. Len(inbox) + 1
      /\ inbox'[Len(inbox) + 1] = r /\ \A i \in 1 .. Len(inbox) : inbox'[i] = inbox[i]
  BY <1>1
<1>3. Len(inbox') <= MaxRequests
  BY <1>2, BoundsAssumption
<1>4. ASSUME NEW i \in DOMAIN inbox'
      PROVE  /\ inbox'[i].kind = "scopes" => inbox'[i].frame # 0
             /\ inbox'[i].kind = "stackTrace" => inbox'[i].thread # NoThread
  <2>1. CASE i = Len(inbox) + 1
    BY <1>2, <2>1
  <2>2. CASE i # Len(inbox) + 1
    BY <1>1, <1>2, <2>2
  <2> QED
    BY <2>1, <2>2
<1> QED
  BY <1>2, <1>3, <1>4 DEF InboxTypes

LEMMA InvAsk ==
    ASSUME StopInv, NEW r \in Requests, Ask(r), r.kind \in Inspections,
           r.kind = "scopes" => r.frame # 0, r.kind = "stackTrace" => r.thread # NoThread,
           jvm # "gone" /\ r.from = "stopped" => snapshot # NoSnapshot /\ Sound(r)
    PROVE  StopInv'
<1>1. /\ editor \in {"stopped", "refused"} /\ Len(inbox) < MaxRequests
      /\ inbox' = Append(inbox, r)
      /\ UNCHANGED <<jvm, stack, stops, snapshot, loop, main, editor, frames, references>>
  BY DEF Ask, jvmVars, editorVars
<1>2. /\ InboxTypes'
      /\ DOMAIN inbox' = 1 .. Len(inbox) + 1
      /\ Len(inbox) \in Nat /\ inbox'[Len(inbox) + 1] = r
      /\ \A i \in 1 .. Len(inbox) : inbox'[i] = inbox[i]
      /\ DOMAIN inbox = 1 .. Len(inbox)
  BY <1>1, OneMoreRequest DEF StopInv, TypeInv, InboxTypes
<1>3. LoopInv' /\ SnapshotTypes' /\ SnapshotIsTrue'
  BY <1>1, LoopKept, SnapshotKept DEF StopInv, TypeInv, LoopInv
<1>4. OtherTypes'
  BY <1>1 DEF StopInv, TypeInv, OtherTypes
<1>5. ASSUME NEW i \in DOMAIN inbox'
      PROVE  inbox'[i] = r \/ (i \in DOMAIN inbox /\ inbox'[i] = inbox[i])
  BY <1>2
<1>6. Turns'
  <2>1. jvm # "gone" => EditorsTurn
    BY <1>1 DEF StopInv, Turns, JvmsTurn, LoopsTurn, MainsTurn, Quiet
  <2>2. AllInspect => AllInspect'
    BY <1>5 DEF AllInspect
  <2> QED
    BY <1>1, <2>1, <2>2 DEF Turns, EditorsTurn
<1>7. AskedSoundly'
  <2>1. \A i \in DOMAIN inbox' : jvm # "gone" /\ inbox'[i].from = "stopped" =>
            snapshot # NoSnapshot /\ Sound(inbox'[i])
    BY <1>5 DEF StopInv, AskedSoundly
  <2> QED
    BY <1>1, <2>1, AskedAgain DEF StopInv, AskedSoundly
<1> QED
  BY <1>2, <1>3, <1>4, <1>6, <1>7 DEF StopInv, TypeInv, LoopInv

LEMMA InvAsks ==
    ASSUME StopInv, EditorAsks
    PROVE  StopInv'
<1>1. /\ editor \in {"running", "stopped", "refused", "ended"}
      /\ frames \subseteq FrameIds /\ references \subseteq [ref : Nat \ {0}, frame : FrameIds]
  BY DEF StopInv, TypeInv, OtherTypes
<1>2. editor = "stopped" /\ jvm # "gone" =>
          /\ snapshot # NoSnapshot /\ frames \subseteq PresentIds
          /\ \A x \in references : Refers(x.ref, x.frame)
  BY DEF StopInv, AskedSoundly, Turns, JvmsTurn, LoopsTurn, EditorsTurn, MainsTurn, Quiet
<1>3. ASSUME NEW kind \in Inspections, NEW thread \in Threads \cup {NoThread},
             NEW frame \in FrameIds \cup {0}, NEW ref \in Nat, NEW name \in Names \cup {""},
             Ask(Request(kind, thread, frame, ref, name)),
             kind = "scopes" => frame \in frames,
             kind = "stackTrace" => thread # NoThread,
             kind = "evaluate" => frame \in frames \cup {0},
             kind = "variables" => \E x \in references : x.ref = ref /\ x.frame = frame
      PROVE  StopInv'
  <2>1. PICK r : r = Request(kind, thread, frame, ref, name)
    OBVIOUS
  <2>2. /\ r.kind = kind /\ r.thread = thread /\ r.frame = frame /\ r.ref = ref
        /\ r.from = editor /\ r \in Requests
    BY <1>1, <1>3, <2>1 DEF Request, Requests
  <2>3. kind = "scopes" => frame # 0
    BY <1>1, <1>3, ThreadsAssumption
  <2>4. jvm # "gone" /\ r.from = "stopped" => snapshot # NoSnapshot /\ Sound(r)
    BY <1>2, <1>3, <2>2 DEF Sound
  <2> QED
    BY <1>3, <2>1, <2>2, <2>3, <2>4, InvAsk
<1>4. CASE Ask(Request("threads", NoThread, 0, 0, ""))
  BY <1>3, <1>4 DEF Inspections
<1>5. ASSUME NEW t \in Threads, Ask(Request("stackTrace", t, 0, 0, "")) PROVE StopInv'
  BY <1>3, <1>5, ThreadsAssumption DEF Inspections
<1>6. ASSUME NEW f \in frames, Ask(Request("scopes", NoThread, f, 0, "")) PROVE StopInv'
  BY <1>1, <1>3, <1>6 DEF Inspections
<1>7. ASSUME NEW x \in references, Ask(Request("variables", NoThread, x.frame, x.ref, ""))
      PROVE  StopInv'
  <2>1. x.frame \in FrameIds \cup {0} /\ x.ref \in Nat
    BY <1>1
  <2> QED
    BY <1>3, <1>7, <2>1 DEF Inspections
<1>8. ASSUME NEW f \in frames \cup {0}, NEW n \in Names,
             Ask(Request("evaluate", NoThread, f, 0, n))
      PROVE  StopInv'
  BY <1>1, <1>3, <1>8 DEF Inspections
<1> QED
  BY <1>4, <1>5, <1>6, <1>7, <1>8 DEF EditorAsks

LEMMA InvResumes ==
    ASSUME StopInv, EditorResumes
    PROVE  StopInv'
<1>1. PICK kind \in {"continue", "step"} :
          inbox' = Append(inbox, Request(kind, NoThread, 0, 0, ""))
  BY DEF EditorResumes
<1>2. /\ editor \in {"stopped", "refused"} /\ Len(inbox) < MaxRequests
      /\ editor' = "running" /\ frames' = {} /\ references' = {}
      /\ UNCHANGED <<jvm, stack, stops, snapshot, loop, main>>
  BY DEF EditorResumes, jvmVars
<1>3. PICK r : r = Request(kind, NoThread, 0, 0, "")
  OBVIOUS
<1>4. r \in Requests /\ r.kind = kind /\ r.from = editor /\ r.frame = 0
  BY <1>2, <1>3 DEF Request, Requests
<1>5. /\ InboxTypes'
      /\ DOMAIN inbox' = 1 .. Len(inbox) + 1 /\ Len(inbox') = Len(inbox) + 1
      /\ Len(inbox) \in Nat /\ inbox'[Len(inbox) + 1] = r
      /\ \A i \in 1 .. Len(inbox) : inbox'[i] = inbox[i]
  BY <1>1, <1>2, <1>3, <1>4, OneMoreRequest
<1>6. DOMAIN inbox = 1 .. Len(inbox)
  BY DEF StopInv, TypeInv, InboxTypes
<1>7. LoopInv' /\ SnapshotTypes' /\ SnapshotIsTrue'
  BY <1>2, LoopKept, SnapshotKept DEF StopInv, TypeInv, LoopInv
<1>8. OtherTypes'
  BY <1>2 DEF StopInv, TypeInv, OtherTypes
<1>9. jvm # "gone" => EditorsTurn
  BY <1>2 DEF StopInv, Turns, JvmsTurn, LoopsTurn, MainsTurn, Quiet
<1>10. Turns'
  <2>1. AllInspect => LastResumes'
    <3>1. inbox' # <<>> /\ inbox'[Len(inbox')].kind \in {"continue", "step"}
      <4>1. Len(<<>>) = 0 /\ Len(inbox') # 0
        BY <1>5
      <4>2. inbox'[Len(inbox')] = r
        BY <1>5
      <4> QED
        BY <1>1, <1>4, <4>1, <4>2
    <3>2. 1 .. Len(inbox') - 1 = DOMAIN inbox
      BY <1>5, <1>6
    <3>3. \A i \in DOMAIN inbox : inbox'[i] = inbox[i]
      BY <1>5, <1>6
    <3> QED
      BY <3>1, <3>2, <3>3 DEF AllInspect, LastResumes
  <2> QED
    BY <1>2, <1>9, <2>1 DEF Turns, EditorsTurn, MainsTurn
<1>11. AskedSoundly'
  <2>1. jvm # "gone" /\ editor = "stopped" => snapshot # NoSnapshot /\ Sound(r)
    BY <1>1, <1>4, <1>9 DEF EditorsTurn, Sound
  <2>2. ASSUME NEW i \in DOMAIN inbox', jvm # "gone", inbox'[i].from = "stopped"
        PROVE  snapshot # NoSnapshot /\ Sound(inbox'[i])
    <3>1. CASE i = Len(inbox) + 1
      BY <1>4, <1>5, <2>1, <2>2, <3>1
    <3>2. CASE i # Len(inbox) + 1
      <4>1. i \in DOMAIN inbox /\ inbox'[i] = inbox[i]
        BY <1>5, <1>6, <3>2
      <4> QED
        BY <2>2, <4>1 DEF StopInv, AskedSoundly
    <3> QED
      BY <3>1, <3>2
  <2> QED
    BY <1>2, <2>2, AskedAgain
<1> QED
  BY <1>5, <1>7, <1>8, <1>10, <1>11 DEF StopInv, TypeInv, LoopInv

-----------------------------------------------------------------------------
(* Steps of the main task.                                                 *)

\* A request is taken from those that wait.
LEMMA OneRequestLess ==
    ASSUME StopInv, inbox # <<>>, inbox' = Tail(inbox)
    PROVE  /\ InboxTypes'
           /\ \A i \in DOMAIN inbox' : i + 1 \in DOMAIN inbox /\ inbox'[i] = inbox[i + 1]
           /\ Head(inbox) \in Requests /\ Head(inbox) = inbox[1] /\ 1 \in DOMAIN inbox
           /\ Head(inbox).kind = "scopes" => Head(inbox).frame # 0
           /\ AllInspect => AllInspect'
           /\ LastResumes /\ Head(inbox).kind \in Inspections => LastResumes'
           /\ LastResumes /\ Head(inbox).kind \notin Inspections => inbox' = <<>>
<1>1. /\ inbox \in Seq(Requests) /\ Len(inbox) <= MaxRequests
      /\ \A i \in DOMAIN inbox : /\ inbox[i].kind = "scopes" => inbox[i].frame # 0
                                 /\ inbox[i].kind = "stackTrace" => inbox[i].thread # NoThread
  BY DEF StopInv, TypeInv, InboxTypes
<1>2. /\ Len(inbox) \in Nat /\ Len(inbox) >= 1 /\ DOMAIN inbox = 1 .. Len(inbox)
      /\ inbox' \in Seq(Requests) /\ Len(inbox') = Len(inbox) - 1
      /\ DOMAIN inbox' = 1 .. Len(inbox) - 1
      /\ \A i \in 1 .. Len(inbox) - 1 : inbox'[i] = inbox[i + 1]
      /\ Head(inbox) = inbox[1] /\ inbox[1] \in Requests
  BY <1>1
<1>3. \A i \in DOMAIN inbox' : i + 1 \in DOMAIN inbox /\ inbox'[i] = inbox[i + 1]
  BY <1>2
<1>4. InboxTypes'
  <2>1. Len(inbox') <= MaxRequests
    BY <1>1, <1>2, BoundsAssumption
  <2> QED
    BY <1>1, <1>2, <1>3, <2>1 DEF InboxTypes
<1>5. 1 \in DOMAIN inbox
  BY <1>2
<1>6. AllInspect => AllInspect'
  BY <1>3 DEF AllInspect
<1>7. ASSUME LastResumes, Head(inbox).kind \in Inspections
      PROVE  LastResumes'
  <2>1. Len(inbox) # 1
    BY <1>2, <1>7 DEF LastResumes, Inspections
  <2>2. Len(inbox') >= 1 /\ inbox'[Len(inbox')] = inbox[Len(inbox)]
    BY <1>2, <2>1
  <2>3. \A i \in 1 .. Len(inbox') - 1 :
            i + 1 \in 1 .. Len(inbox) - 1 /\ inbox'[i] = inbox[i + 1]
    BY <1>2
  <2>4. inbox' # <<>>
    <3>1. Len(<<>>) = 0 /\ Len(inbox') # 0
      BY <1>2, <2>1
    <3> QED
      BY <3>1
  <2> QED
    BY <1>7, <2>2, <2>3, <2>4 DEF LastResumes
<1>8. ASSUME LastResumes, Head(inbox).kind \notin Inspections
      PROVE  inbox' = <<>>
  <2>1. Len(inbox) = 1
    <3> SUFFICES ASSUME Len(inbox) # 1 PROVE FALSE
      OBVIOUS
    <3>1. 1 \in 1 .. Len(inbox) - 1
      BY <1>2
    <3> QED
      BY <1>2, <1>8, <3>1 DEF LastResumes
  <2> QED
    BY <1>2, <2>1
<1> QED
  BY <1>1, <1>2, <1>3, <1>4, <1>5, <1>6, <1>7, <1>8

\* The frame ids the editor is given are of its thread, now.
LEMMA IdsGiven ==
    ASSUME StopInv, NEW t
    PROVE  LET given == {f.id : f \in ToSet(StackTrace(t))}
           IN  given \subseteq FrameIds /\ (snapshot # NoSnapshot => given \subseteq PresentIds)
<1> DEFINE fs == FramesOfThread(t)
           ts == snapshot.threads
<1>1. SnapshotTypes /\ SnapshotIsTrue /\ stack \in Stacks /\ ts \in Seq(SnapshotThread)
  BY DEF StopInv, TypeInv, SnapshotTypes, OtherTypes
<1>2. ASSUME NEW f \in ToSet(StackTrace(t))
      PROVE  f.id \in FrameIds /\ (snapshot # NoSnapshot => f.id \in PresentIds)
  <2>1. PICK k \in DOMAIN fs : f.id = fs[k].id
    BY DEF ToSet, StackTrace
  <2>2. PICK i \in DOMAIN ts : ts[i].id = t /\ fs = ts[i].frames
    <3>1. fs # <<>>
      BY <2>1
    <3> HIDE DEF fs
    <3>2. fs = <<>> \/ \E i \in DOMAIN ts : ts[i].id = t /\ fs = ts[i].frames
      BY <1>1, ThreadFound DEF fs
    <3> QED
      BY <3>1, <3>2
  <2>3. ts[i] \in SnapshotThread /\ ts[i].frames \in Seq(Frame) /\ t \in Threads
    <3>1. ts[i] \in SnapshotThread
      BY <1>1
    <3> QED
      BY <2>2, <3>1 DEF SnapshotThread
  <2>4. f.id \in FrameIds
    <3>1. fs[k] \in Frame
      BY <2>1, <2>2, <2>3
    <3> QED
      BY <2>1, <3>1 DEF Frame
  <2>5. ASSUME snapshot # NoSnapshot PROVE f.id \in PresentIds
    <3>1. k \in DOMAIN stack[t] /\ f.id = stack[t][k].id
      BY <1>1, <2>1, <2>2, <2>5 DEF SnapshotIsTrue, NothingUntrue
    <3>2. stack[t][k] \in ToSet(stack[t])
      BY <3>1 DEF ToSet
    <3> QED
      BY <2>3, <3>1, <3>2 DEF PresentIds, RawFrames
  <2> QED
    BY <2>4, <2>5
<1> QED
  BY <1>2

\* A reference the editor is given is that of a frame in the snapshot.
LEMMA RefsGiven ==
    ASSUME StopInv, NEW id, NEW ref \in {f.ref : f \in FindFrame(id)}, ref # 0
    PROVE  ref \in Nat \ {0} /\ Refers(ref, id)
<1>1. PICK f \in FindFrame(id) : ref = f.ref
  OBVIOUS
<1>2. SnapshotTypes
  BY DEF StopInv, TypeInv
<1>3. /\ f \in Frame /\ f.id = id
      /\ \E p \in Positions(snapshot.threads) : f = FrameAt(snapshot.threads, p)
  BY <1>1, <1>2, FirstFound DEF FindFrame
<1> QED
  BY <1>1, <1>3 DEF Frame, Refers

LEMMA InvInspection ==
    ASSUME StopInv, HandleInspection
    PROVE  StopInv'
<1> DEFINE r == Head(inbox)
<1>1. /\ main = "idle" /\ inbox # <<>> /\ r.kind \in Inspections /\ inbox' = Tail(inbox)
      /\ UNCHANGED <<jvm, stack, stops, snapshot, loop, main, editor>>
  BY DEF HandleInspection, Receive, jvmVars
<1>2. /\ InboxTypes' /\ r \in Requests
      /\ r.kind = "scopes" => r.frame # 0
      /\ \A i \in DOMAIN inbox' : i + 1 \in DOMAIN inbox /\ inbox'[i] = inbox[i + 1]
      /\ AllInspect => AllInspect'
      /\ LastResumes => LastResumes'
  BY <1>1, OneRequestLess
<1>3. LoopInv' /\ SnapshotTypes' /\ SnapshotIsTrue'
  BY <1>1, LoopKept, SnapshotKept DEF StopInv, TypeInv, LoopInv
<1>4. \/ frames' = frames
      \/ /\ editor # "running" /\ frames' = frames \cup {f.id : f \in ToSet(StackTrace(r.thread))}
  BY DEF HandleInspection, Answer
<1>5. \/ references' = references
      \/ /\ editor # "running" /\ r.frame # 0
         /\ references' = references \cup
                {[ref |-> v, frame |-> r.frame] : v \in {f.ref : f \in FindFrame(r.frame)} \ {0}}
  BY <1>2 DEF HandleInspection, Answer
<1>6. /\ frames' \subseteq FrameIds
      /\ snapshot # NoSnapshot /\ frames \subseteq PresentIds => frames' \subseteq PresentIds
  <2>1. frames \subseteq FrameIds
    BY DEF StopInv, TypeInv, OtherTypes
  <2> QED
    BY <1>4, <2>1, IdsGiven
<1>7. /\ references' \subseteq [ref : Nat \ {0}, frame : FrameIds]
      /\ (\A x \in references : Refers(x.ref, x.frame)) =>
              \A x \in references' : Refers(x.ref, x.frame)
  <2>1. references \subseteq [ref : Nat \ {0}, frame : FrameIds]
    BY DEF StopInv, TypeInv, OtherTypes
  <2>2. ASSUME NEW x \in references', x \notin references
        PROVE  x \in [ref : Nat \ {0}, frame : FrameIds] /\ Refers(x.ref, x.frame)
    <3>1. PICK v \in {f.ref : f \in FindFrame(r.frame)} \ {0} :
              x = [ref |-> v, frame |-> r.frame]
      BY <1>5, <2>2
    <3>2. v \in Nat \ {0} /\ Refers(v, r.frame)
      BY <3>1, RefsGiven
    <3>3. r.frame \in FrameIds
      BY <1>2, <1>5, <2>2 DEF Requests
    <3> QED
      BY <3>1, <3>2, <3>3
  <2> QED
    BY <2>1, <2>2
<1>8. OtherTypes'
  BY <1>1, <1>6, <1>7 DEF StopInv, TypeInv, OtherTypes
<1>9. jvm # "gone" => EditorsTurn \/ (MainsTurn /\ LastResumes)
  BY <1>1 DEF StopInv, Turns, JvmsTurn, LoopsTurn, MainsTurn, Quiet
<1>10. Turns'
  BY <1>1, <1>2, <1>9 DEF Turns, EditorsTurn, MainsTurn
<1>11. AskedSoundly'
  <2>1. editor' = "running" => frames' = {} /\ references' = {}
    BY <1>1, <1>4, <1>5 DEF StopInv, AskedSoundly
  <2>2. ASSUME jvm # "gone", editor = "stopped"
        PROVE  frames' \subseteq PresentIds /\ \A x \in references' : Refers(x.ref, x.frame)
    <3>1. snapshot # NoSnapshot
      BY <1>9, <2>2 DEF EditorsTurn, MainsTurn
    <3> QED
      BY <1>6, <1>7, <2>2, <3>1 DEF StopInv, AskedSoundly
  <2>3. \A i \in DOMAIN inbox' : jvm # "gone" /\ inbox'[i].from = "stopped" =>
            snapshot # NoSnapshot /\ Sound(inbox'[i])
    BY <1>2 DEF StopInv, AskedSoundly
  <2> QED
    BY <1>1, <2>1, <2>2, <2>3, AskedAgain
<1> QED
  BY <1>2, <1>3, <1>8, <1>10, <1>11 DEF StopInv, TypeInv, LoopInv

\* A request to resume is the last one; the snapshot is dropped.
LEMMA InvResumed ==
    ASSUME StopInv, Receive({"continue", "step"}), snapshot' = NoSnapshot,
           UNCHANGED <<jvm, stack, stops, loop, frames, references>>,
           \/ main' \in {"stepping", "resuming"} /\ editor' = editor
           \/ main' = "idle" /\ editor' \in {"refused", "ended"}
              /\ (editor' = "ended" => editor = "ended")
    PROVE  StopInv'
<1>1. /\ main = "idle" /\ inbox # <<>> /\ inbox' = Tail(inbox)
      /\ Head(inbox).kind \in {"continue", "step"} /\ Head(inbox).kind \notin Inspections
  BY DEF Receive, Inspections
<1>2. /\ InboxTypes' /\ Head(inbox) = inbox[1] /\ 1 \in DOMAIN inbox
      /\ LastResumes => inbox' = <<>>
  BY <1>1, OneRequestLess
<1>3. jvm # "gone" => MainsTurn /\ inbox' = <<>>
  BY <1>1, <1>2 DEF StopInv, Turns, JvmsTurn, LoopsTurn, EditorsTurn, MainsTurn, Quiet,
         AllInspect
<1>4. LoopInv'
  BY LoopKept DEF StopInv, TypeInv, LoopInv
<1>5. SnapshotTypes' /\ SnapshotIsTrue'
  <2>1. (snapshot = NoSnapshot)'
    OBVIOUS
  <2> QED
    BY <2>1, NoSnapshotTyped, PTL
<1>6. OtherTypes'
  BY DEF StopInv, TypeInv, OtherTypes
<1>7. Turns'
  <2> SUFFICES ASSUME jvm' # "gone" PROVE EditorsTurn' \/ MainsTurn'
    BY DEF Turns
  <2>1. MainsTurn /\ inbox' = <<>>
    BY <1>3
  <2> QED
    BY <1>1, <2>1 DEF EditorsTurn, MainsTurn, AllInspect
<1>8. AskedSoundly'
  BY <1>3 DEF StopInv, AskedSoundly, MainsTurn
<1> QED
  BY <1>2, <1>4, <1>5, <1>6, <1>7, <1>8 DEF StopInv, TypeInv, LoopInv

LEMMA InvHandles ==
    ASSUME StopInv, HandleContinue \/ HandleStep
    PROVE  StopInv'
<1>1. editor \in {"running", "stopped", "refused", "ended"}
  BY DEF StopInv, TypeInv, OtherTypes
<1>2. CASE HandleContinue
  BY <1>2, InvResumed DEF HandleContinue, Receive, jvmVars, editorVars
<1>3. CASE HandleStep
  BY <1>1, <1>3, InvResumed DEF HandleStep, Receive, Refuse, jvmVars
<1> QED
  BY <1>2, <1>3

LEMMA InvMain ==
    ASSUME StopInv, StepSet \/ StepSetFails \/ Resume
    PROVE  StopInv'
<1>1. /\ main # "idle" /\ main' \in {"idle", "resuming"}
      /\ UNCHANGED <<stack, stops, snapshot, loop, inbox, frames, references>>
      /\ jvm' \in {"running", "suspended", "gone"} /\ (jvm' = "gone" <=> jvm = "gone")
      /\ editor' \in {editor, "refused"}
  BY DEF StopInv, TypeInv, OtherTypes, StepSet, StepSetFails, Resume, Refuse, jvmVars,
         editorVars
<1>2. jvm # "gone" => MainsTurn /\ inbox = <<>> /\ snapshot = NoSnapshot
  BY <1>1 DEF StopInv, Turns, JvmsTurn, LoopsTurn, EditorsTurn, MainsTurn, Quiet
<1>3. LoopInv' /\ SnapshotTypes' /\ SnapshotIsTrue'
  BY <1>1, LoopKept, SnapshotKept DEF StopInv, TypeInv, LoopInv
<1>4. InboxTypes' /\ OtherTypes'
  BY <1>1 DEF StopInv, TypeInv, InboxTypes, OtherTypes
<1>5. Turns'
  <2> SUFFICES ASSUME jvm' # "gone" PROVE JvmsTurn' \/ EditorsTurn' \/ MainsTurn'
    BY DEF Turns
  <2>1. MainsTurn /\ inbox = <<>> /\ snapshot = NoSnapshot
    BY <1>1, <1>2
  <2>2. CASE StepSet
    BY <1>1, <2>1, <2>2 DEF StepSet, MainsTurn, editorVars, jvmVars
  <2>3. CASE StepSetFails
    BY <1>1, <2>1, <2>3 DEF StepSetFails, Refuse, MainsTurn, EditorsTurn, AllInspect, jvmVars
  <2>4. CASE Resume
    BY <1>1, <2>1, <2>4 DEF Resume, MainsTurn, JvmsTurn, Quiet, editorVars
  <2> QED
    BY <2>2, <2>3, <2>4
<1>6. AskedSoundly'
  <2>1. editor' = "running" => frames' = {} /\ references' = {}
    BY <1>1 DEF StopInv, AskedSoundly
  <2>2. jvm # "gone" => inbox' = <<>> /\ editor = "running"
    BY <1>1, <1>2 DEF MainsTurn
  <2> QED
    BY <1>1, <2>1, <2>2, AskedAgain
<1> QED
  BY <1>3, <1>4, <1>5, <1>6 DEF StopInv, TypeInv, LoopInv

-----------------------------------------------------------------------------
(* The invariant holds.                                                    *)

LEMMA StopInvInit == Init => StopInv
<1> SUFFICES ASSUME Init PROVE StopInv
  OBVIOUS
<1>1. /\ jvm = "running" /\ stack \in Stacks /\ stops = 0
      /\ snapshot = NoSnapshot /\ loop = LoopIdle /\ main = "idle" /\ inbox = <<>>
      /\ editor = "running" /\ frames = {} /\ references = {}
  BY DEF Init
<1>2. LoopInv
  <2>1. Rests("select")
    BY <1>1, LoopFields DEF Rests
  <2> QED
    BY <2>1, LoopAtRest
<1>3. SnapshotTypes /\ SnapshotIsTrue
  BY <1>1, NoSnapshotTyped
<1>4. InboxTypes /\ OtherTypes
  BY <1>1, BoundsAssumption DEF InboxTypes, OtherTypes
<1>5. Turns
  BY <1>1, LoopFields DEF Turns, JvmsTurn, Quiet
<1>6. AskedSoundly
  BY <1>1 DEF AskedSoundly
<1> QED
  BY <1>2, <1>3, <1>4, <1>5, <1>6 DEF StopInv, TypeInv, LoopInv

LEMMA StopInvNext == StopInv /\ [Next]_vars => StopInv'
<1> SUFFICES ASSUME StopInv, [Next]_vars PROVE StopInv'
  OBVIOUS
<1>1. ASSUME NEW t \in Threads, JvmStops(t) PROVE StopInv'
  BY <1>1, InvStops
<1>2. CASE JvmDies
  BY <1>2, InvDies
<1>3. CASE EventLoop
  BY <1>3, InvLists, InvBuildThread, InvCutShort, InvBuilt, InvStores, InvAnnounces, InvEnds
     DEF EventLoop
<1>4. CASE EditorAsks \/ EditorResumes
  BY <1>4, InvAsks, InvResumes
<1>5. CASE MainTask
  BY <1>5, InvInspection, InvHandles, InvMain DEF MainTask
<1>6. CASE UNCHANGED vars
  <2>1. UNCHANGED <<jvm, stack, stops, snapshot, loop, main, inbox, editor, frames, references>>
    BY <1>6 DEF vars, jvmVars, editorVars
  <2>2. LoopInv' /\ SnapshotTypes' /\ SnapshotIsTrue' /\ AskedSoundly'
    BY <2>1, LoopKept, SnapshotKept, AskedKept DEF StopInv, TypeInv, LoopInv, editorVars
  <2>3. InboxTypes' /\ OtherTypes' /\ Turns'
    BY <2>1 DEF StopInv, TypeInv, InboxTypes, OtherTypes, Turns, JvmsTurn, LoopsTurn,
           EditorsTurn, MainsTurn, Quiet, AllInspect, LastResumes
  <2> QED
    BY <2>2, <2>3 DEF StopInv, TypeInv, LoopInv
<1> QED
  BY <1>1, <1>2, <1>3, <1>4, <1>5, <1>6 DEF Next

LEMMA StopInvAlways == Spec => []StopInv
BY StopInvInit, StopInvNext, PTL DEF Spec

-----------------------------------------------------------------------------
(* What follows from it.                                                   *)

\* A snapshot of a program that still stands there has every thread, with all
\* of its frames as they are.
LEMMA Standing ==
    ASSUME StopInv, snapshot # NoSnapshot, jvm # "gone", NEW t \in Threads
    PROVE  \E i \in DOMAIN snapshot.threads :
               LET fs == snapshot.threads[i].frames
               IN  /\ snapshot.threads[i].id = t /\ FramesOfThread(t) = fs
                   /\ fs \in Seq(Frame) /\ DOMAIN fs = DOMAIN stack[t]
                   /\ \A k \in DOMAIN stack[t] :
                          /\ fs[k].id = stack[t][k].id
                          /\ fs[k].line = TrueLine(stack[t][k])
                          /\ fs[k].locals = TrueLocals(stack[t][k])
<1> DEFINE ts == snapshot.threads
<1>1. /\ SnapshotTypes /\ ts \in Seq(SnapshotThread)
      /\ NothingUntrue(ts) /\ Entire(ts) /\ Listed(ts) = Threads
  BY DEF StopInv, TypeInv, SnapshotTypes, SnapshotIsTrue
<1>2. PICK i \in DOMAIN ts : ts[i].id = t /\ FramesOfThread(t) = ts[i].frames
  BY <1>1, ThreadFound
<1>3. ts[i].frames \in Seq(Frame)
  <2>1. ts[i] \in SnapshotThread
    BY <1>1
  <2> QED
    BY <2>1 DEF SnapshotThread
<1>4. /\ DOMAIN ts[i].frames = DOMAIN stack[t]
      /\ \A k \in DOMAIN ts[i].frames :
             /\ ts[i].frames[k].line = TrueLine(stack[t][k])
             /\ ts[i].frames[k].locals = TrueLocals(stack[t][k])
  BY <1>1, <1>2 DEF Entire
<1>5. \A k \in DOMAIN ts[i].frames : ts[i].frames[k].id = stack[t][k].id
  BY <1>1, <1>2 DEF NothingUntrue
<1> QED
  BY <1>2, <1>3, <1>4, <1>5

\* A frame id is that of one frame of the stacks, and of one in the snapshot.
LEMMA FrameOfId ==
    ASSUME StopInv, snapshot # NoSnapshot, jvm # "gone", NEW id \in PresentIds
    PROVE  \E p \in Positions(snapshot.threads) :
               LET f == FrameAt(snapshot.threads, p)
               IN  /\ f.id = id /\ f.locals = TrueLocals(TheFrame(id))
                   /\ \A q \in Positions(snapshot.threads) :
                          FrameAt(snapshot.threads, q).id = id => q = p
<1> DEFINE ts == snapshot.threads
<1>1. /\ ts \in Seq(SnapshotThread) /\ stack \in Stacks
      /\ Once(ts) /\ NothingUntrue(ts) /\ Listed(ts) = Threads
  BY DEF StopInv, TypeInv, SnapshotTypes, OtherTypes, SnapshotIsTrue
<1>2. PICK t \in Threads : \E raw \in ToSet(stack[t]) : raw.id = id
  BY DEF PresentIds, RawFrames
<1>3. PICK k \in DOMAIN stack[t] : stack[t][k].id = id
  BY <1>2 DEF ToSet
<1>4. ASSUME NEW u \in Threads, NEW j \in DOMAIN stack[u], stack[u][j].id = id
      PROVE  u = t /\ j = k
  BY <1>1, <1>3, <1>4, StacksAssumption
<1>5. TheFrame(id) = stack[t][k]
  <2>1. stack[t][k] \in RawFrames /\ stack[t][k].id = id
    BY <1>3 DEF RawFrames, ToSet
  <2>2. ASSUME NEW raw \in RawFrames, raw.id = id PROVE raw = stack[t][k]
    <3>1. PICK u \in Threads : raw \in ToSet(stack[u])
      BY DEF RawFrames
    <3>2. PICK j \in DOMAIN stack[u] : raw = stack[u][j]
      BY <3>1 DEF ToSet
    <3> QED
      BY <1>4, <2>2, <3>2
  <2> QED
    BY <2>1, <2>2 DEF TheFrame
<1>6. PICK i \in DOMAIN ts :
          LET fs == ts[i].frames
          IN  /\ ts[i].id = t /\ DOMAIN fs = DOMAIN stack[t]
              /\ \A m \in DOMAIN stack[t] :
                     /\ fs[m].id = stack[t][m].id
                     /\ fs[m].locals = TrueLocals(stack[t][m])
  BY Standing
<1>7. PICK p \in Positions(ts) : p = <<i, k>> /\ FrameAt(ts, p) = ts[i].frames[k]
  BY <1>1, <1>3, <1>6, PositionIs
<1>8. FrameAt(ts, p).id = id /\ FrameAt(ts, p).locals = TrueLocals(TheFrame(id))
  BY <1>3, <1>5, <1>6, <1>7
<1>9. ASSUME NEW q \in Positions(ts), FrameAt(ts, q).id = id
      PROVE  q = p
  <2>1. /\ q[1] \in DOMAIN ts /\ q[2] \in DOMAIN ts[q[1]].frames /\ q = <<q[1], q[2]>>
        /\ FrameAt(ts, q) = ts[q[1]].frames[q[2]]
    BY <1>1, PositionsIn
  <2>2. ts[q[1]].id \in Threads
    BY <1>1, <2>1 DEF Listed
  <2>3. q[2] \in DOMAIN stack[ts[q[1]].id] /\ stack[ts[q[1]].id][q[2]].id = id
    BY <1>1, <1>9, <2>1 DEF NothingUntrue
  <2>4. ts[q[1]].id = t /\ q[2] = k
    BY <1>4, <2>2, <2>3
  <2>5. q[1] = i
    BY <1>1, <1>6, <2>1, <2>4 DEF Once
  <2> QED
    BY <1>7, <2>1, <2>4, <2>5
<1> QED
  BY <1>8, <1>9

\* Asked for a frame by its id, the main task finds that frame, and by its
\* reference, the same.
LEMMA FrameFound ==
    ASSUME StopInv, snapshot # NoSnapshot, jvm # "gone", NEW id \in PresentIds
    PROVE  \E f : /\ f.locals = TrueLocals(TheFrame(id))
                  /\ f.ref = 0 <=> f.locals = {}
                  /\ FindFrame(id) = {f}
                  /\ \A ref : Refers(ref, id) => FindFrameByVarsRef(ref) = {f}
<1> DEFINE ts == snapshot.threads
<1>1. PICK p \in Positions(ts) :
          /\ FrameAt(ts, p).id = id /\ FrameAt(ts, p).locals = TrueLocals(TheFrame(id))
          /\ \A q \in Positions(ts) : FrameAt(ts, q).id = id => q = p
  BY FrameOfId
<1>2. SnapshotTypes /\ Distinct(ts) /\ ts \in Seq(SnapshotThread)
  BY DEF StopInv, TypeInv, SnapshotTypes
<1>3. \A q \in Positions(ts) : FrameAt(ts, q) \in Frame
  BY <1>2, PositionsIn
<1>4. FindFrame(id) = {FrameAt(ts, p)}
  <2> DEFINE fs == {f \in Frame : f.id = id}
  <2>1. FrameAt(ts, p) \in fs /\ \A q \in Positions(ts) : FrameAt(ts, q) \in fs => q = p
    BY <1>1, <1>3
  <2> HIDE DEF fs
  <2>2. FirstOf(fs) = {FrameAt(ts, p)}
    BY <1>2, <2>1, FirstFound
  <2> QED
    BY <2>2 DEF FindFrame, fs
<1>5. ASSUME NEW ref, Refers(ref, id)
      PROVE  FindFrameByVarsRef(ref) = {FrameAt(ts, p)}
  <2> DEFINE fs == {f \in Frame : f.ref = ref}
  <2>1. FrameAt(ts, p).ref = ref /\ ref # 0
    BY <1>1, <1>5 DEF Refers
  <2>2. \A q \in Positions(ts) : FrameAt(ts, q).ref = ref => q = p
    BY <1>2, <2>1 DEF Distinct
  <2>3. FrameAt(ts, p) \in fs /\ \A q \in Positions(ts) : FrameAt(ts, q) \in fs => q = p
    BY <1>3, <2>1, <2>2
  <2> HIDE DEF fs
  <2>4. FirstOf(fs) = {FrameAt(ts, p)}
    BY <1>2, <2>3, FirstFound
  <2> QED
    BY <2>4 DEF FindFrameByVarsRef, fs
<1>6. FrameAt(ts, p).ref = 0 <=> FrameAt(ts, p).locals = {}
  BY <1>2 DEF Distinct
<1> QED
  BY <1>1, <1>4, <1>5, <1>6

LEMMA StackAnswered ==
    ASSUME StopInv, snapshot # NoSnapshot, jvm # "gone", NEW t \in Threads
    PROVE  StackTrace(t) = [k \in DOMAIN stack[t] |->
               [id |-> stack[t][k].id, line |-> TrueLine(stack[t][k])]]
<1> DEFINE fs == FramesOfThread(t)
<1>1. /\ DOMAIN fs = DOMAIN stack[t]
      /\ \A k \in DOMAIN stack[t] : /\ fs[k].id = stack[t][k].id
                                    /\ fs[k].line = TrueLine(stack[t][k])
  BY Standing
<1> HIDE DEF fs
<1>2. StackTrace(t) = [k \in DOMAIN fs |-> [id |-> fs[k].id, line |-> fs[k].line]]
  BY DEF StackTrace, fs
<1> QED
  BY <1>1, <1>2

LEMMA AnswersFollow == StopInv => AnswersAreTrue
<1> SUFFICES ASSUME StopInv, inbox # <<>>, Head(inbox).from = "stopped", jvm # "gone"
             PROVE  LET r == Head(inbox)
                    IN  /\ r.kind = "threads" => Answer(r) = Threads
                        /\ r.kind = "stackTrace" =>
                              Answer(r) = [i \in DOMAIN stack[r.thread] |->
                                  [id |-> stack[r.thread][i].id,
                                   line |-> TrueLine(stack[r.thread][i])]]
                        /\ r.kind = "scopes" =>
                              /\ Cardinality(Answer(r)) = 1
                              /\ Answer(r) = {0} <=> TrueLocals(TheFrame(r.frame)) = {}
                        /\ r.kind = "variables" => Answer(r) = TrueLocals(TheFrame(r.frame))
                        /\ r.kind = "evaluate" /\ r.frame # 0 =>
                              Answer(r) = NamedIn(TrueLocals(TheFrame(r.frame)), r.name)
  BY DEF AnswersAreTrue
<1>1. PICK r : r = Head(inbox)
  OBVIOUS
<1>2. /\ inbox \in Seq(Requests)
      /\ \A i \in DOMAIN inbox : inbox[i].kind = "stackTrace" => inbox[i].thread # NoThread
  BY DEF StopInv, TypeInv, InboxTypes
<1>3. 1 \in DOMAIN inbox /\ r = inbox[1] /\ r \in Requests
  BY <1>1, <1>2
<1>4. snapshot # NoSnapshot /\ Sound(r)
  BY <1>1, <1>3 DEF StopInv, AskedSoundly
<1>5. ASSUME r.kind = "threads" PROVE Answer(r) = Threads
  <2>1. Answer(r) = {th.id : th \in ToSet(snapshot.threads)}
    BY <1>5 DEF Answer
  <2>2. Listed(snapshot.threads) = Threads
    BY <1>4 DEF StopInv, SnapshotIsTrue
  <2> QED
    BY <2>1, <2>2 DEF Listed, ToSet
<1>6. ASSUME r.kind = "stackTrace"
      PROVE  Answer(r) = [i \in DOMAIN stack[r.thread] |->
                 [id |-> stack[r.thread][i].id, line |-> TrueLine(stack[r.thread][i])]]
  <2>1. r.thread \in Threads
    BY <1>2, <1>3, <1>6 DEF Requests
  <2>2. Answer(r) = StackTrace(r.thread)
    BY <1>6 DEF Answer
  <2> QED
    BY <1>4, <2>1, <2>2, StackAnswered
<1>7. ASSUME r.kind = "scopes"
      PROVE  /\ Cardinality(Answer(r)) = 1
             /\ Answer(r) = {0} <=> TrueLocals(TheFrame(r.frame)) = {}
  <2>1. r.frame \in PresentIds
    BY <1>4, <1>7 DEF Sound
  <2>2. PICK f : /\ f.locals = TrueLocals(TheFrame(r.frame)) /\ FindFrame(r.frame) = {f}
                 /\ f.ref = 0 <=> f.locals = {}
    BY <1>4, <2>1, FrameFound
  <2>3. Answer(r) = {f.ref}
    BY <1>7, <2>2 DEF Answer
  <2> QED
    BY <2>2, <2>3, FS_Singleton
<1>8. ASSUME r.kind = "variables" PROVE Answer(r) = TrueLocals(TheFrame(r.frame))
  <2>1. Refers(r.ref, r.frame)
    BY <1>4, <1>8 DEF Sound
  <2>2. r.frame \in PresentIds
    <3>1. PICK p \in Positions(snapshot.threads) :
              FrameAt(snapshot.threads, p).id = r.frame
      BY <2>1 DEF Refers
    <3>2. snapshot.threads \in Seq(SnapshotThread) /\ NothingUntrue(snapshot.threads)
          /\ Listed(snapshot.threads) = Threads
      BY <1>4 DEF StopInv, TypeInv, SnapshotTypes, SnapshotIsTrue
    <3>3. /\ p[1] \in DOMAIN snapshot.threads
          /\ p[2] \in DOMAIN snapshot.threads[p[1]].frames
          /\ snapshot.threads[p[1]].frames[p[2]].id = r.frame
      BY <3>1, <3>2, PositionsIn
    <3>4. PICK t \in Threads : t = snapshot.threads[p[1]].id
      BY <3>2, <3>3 DEF Listed
    <3>5. p[2] \in DOMAIN stack[t] /\ stack[t][p[2]].id = r.frame
      BY <3>2, <3>3, <3>4 DEF NothingUntrue
    <3> QED
      BY <3>5 DEF PresentIds, RawFrames, ToSet
  <2>3. PICK f : /\ f.locals = TrueLocals(TheFrame(r.frame))
                 /\ FindFrameByVarsRef(r.ref) = {f}
    BY <1>4, <2>1, <2>2, FrameFound
  <2>4. Answer(r) = UNION {g.locals : g \in {f}}
    BY <1>8, <2>3 DEF Answer
  <2> QED
    BY <2>3, <2>4
<1>9. ASSUME r.kind = "evaluate", r.frame # 0
      PROVE  Answer(r) = NamedIn(TrueLocals(TheFrame(r.frame)), r.name)
  <2>1. r.frame \in PresentIds
    BY <1>4, <1>9 DEF Sound
  <2>2. PICK f : f.locals = TrueLocals(TheFrame(r.frame)) /\ FindFrame(r.frame) = {f}
    BY <1>4, <2>1, FrameFound
  <2>3. UNION {g.locals : g \in FindFrame(r.frame)} = f.locals
    BY <2>2
  <2>4. Answer(r) = Evaluate(r.frame, r.name)
    BY <1>9 DEF Answer
  <2> QED
    BY <1>9, <2>2, <2>3, <2>4 DEF Evaluate, NamedIn
<1> QED
  BY <1>1, <1>5, <1>6, <1>7, <1>8, <1>9

LEMMA FaithfulFollows == StopInv => SnapshotIsFaithful
<1> SUFFICES ASSUME StopInv, snapshot # NoSnapshot
             PROVE  /\ \A th \in ToSet(snapshot.threads) : \A i \in DOMAIN th.frames :
                           LET f   == th.frames[i]
                               raw == stack[th.id][i]
                           IN  /\ i \in DOMAIN stack[th.id] /\ f.id = raw.id
                               /\ f.line \in {TrueLine(raw), 0}
                               /\ f.locals \in {TrueLocals(raw), {}}
                    /\ jvm # "gone" =>
                           \A t \in Threads : \E th \in ToSet(snapshot.threads) :
                               /\ th.id = t /\ DOMAIN th.frames = DOMAIN stack[t]
                               /\ \A i \in DOMAIN stack[t] :
                                      /\ th.frames[i].line = TrueLine(stack[t][i])
                                      /\ th.frames[i].locals = TrueLocals(stack[t][i])
  BY DEF SnapshotIsFaithful
<1>1. ASSUME NEW th \in ToSet(snapshot.threads), NEW k \in DOMAIN th.frames
      PROVE  LET f   == th.frames[k]
                 raw == stack[th.id][k]
             IN  /\ k \in DOMAIN stack[th.id] /\ f.id = raw.id
                 /\ f.line \in {TrueLine(raw), 0}
                 /\ f.locals \in {TrueLocals(raw), {}}
  <2>1. PICK i \in DOMAIN snapshot.threads : th = snapshot.threads[i]
    BY DEF ToSet
  <2>2. NothingUntrue(snapshot.threads)
    BY DEF StopInv, SnapshotIsTrue
  <2> QED
    BY <2>1, <2>2 DEF NothingUntrue
<1>2. ASSUME jvm # "gone", NEW t \in Threads
      PROVE  \E th \in ToSet(snapshot.threads) :
                 /\ th.id = t /\ DOMAIN th.frames = DOMAIN stack[t]
                 /\ \A k \in DOMAIN stack[t] :
                        /\ th.frames[k].line = TrueLine(stack[t][k])
                        /\ th.frames[k].locals = TrueLocals(stack[t][k])
  <2>1. PICK i \in DOMAIN snapshot.threads :
            LET fs == snapshot.threads[i].frames
            IN  /\ snapshot.threads[i].id = t /\ DOMAIN fs = DOMAIN stack[t]
                /\ \A k \in DOMAIN stack[t] :
                       /\ fs[k].line = TrueLine(stack[t][k])
                       /\ fs[k].locals = TrueLocals(stack[t][k])
    BY <1>2, Standing
  <2>2. snapshot.threads[i] \in ToSet(snapshot.threads)
    BY DEF ToSet
  <2> QED
    BY <2>1, <2>2
<1> QED
  BY <1>1, <1>2

LEMMA TopFollows == StopInv => TopIsWhereItStopped
<1> SUFFICES ASSUME StopInv, snapshot # NoSnapshot, jvm # "gone", NEW n \in Names
             PROVE  Evaluate(0, n) = NamedIn(TrueLocals(stack[snapshot.stopped][1]), n)
  BY DEF TopIsWhereItStopped
<1> DEFINE t  == snapshot.stopped
           fs == FramesOfThread(t)
<1>1. t \in Threads /\ stack[t] # <<>> /\ stack \in Stacks
  BY DEF StopInv, SnapshotIsTrue, TypeInv, OtherTypes
<1>2. 1 \in DOMAIN stack[t]
  <2>1. stack[t] \in Seq(StackFrames)
    BY <1>1, StackTyped
  <2> QED
    BY <1>1, <2>1
<1>3. DOMAIN fs = DOMAIN stack[t] /\ fs[1].locals = TrueLocals(stack[t][1])
  BY <1>1, <1>2, Standing
<1>4. fs # <<>>
  BY <1>2, <1>3
<1>5. TopFrame = {fs[1]}
  BY <1>4 DEF TopFrame
<1>6. UNION {f.locals : f \in TopFrame} = TrueLocals(stack[t][1])
  BY <1>3, <1>5
<1> QED
  BY <1>6 DEF Evaluate, NamedIn

-----------------------------------------------------------------------------
(* The theorems.                                                           *)

\* The types of the state, and in a snapshot a variables reference is 0 just
\* for a frame without locals and no two frames share another
\* (SnapshotThread and its frames, server.rs:74).
THEOREM TypeCorrect == Spec => []TypeOK
<1>1. StopInv => TypeOK
  BY TypeParts DEF StopInv
<1> QED
  BY <1>1, StopInvAlways, PTL

\* For every program, tables and stacks: a snapshot has every thread with all of
\* its frames in order, each with its line and the locals in scope there, and of
\* a JVM that died under it nothing that is not true (server.rs:1191).
THEOREM SnapshotFaithful == Spec => []SnapshotIsFaithful
BY StopInvAlways, FaithfulFollows, PTL

\* Whatever the editor asks while it knows the program stopped is answered from
\* that stop, about the thread or frame it asked for (server.rs:616).
THEOREM AnswersTrue == Spec => []AnswersAreTrue
BY StopInvAlways, AnswersFollow, PTL

\* Without a frame, an expression is evaluated in the top frame of the thread
\* that stopped (server.rs:779).
THEOREM TopTrue == Spec => []TopIsWhereItStopped
BY StopInvAlways, TopFollows, PTL

=============================================================================
