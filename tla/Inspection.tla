---------------------------- MODULE Inspection -----------------------------
(***************************************************************************)
(* Looking at a stopped program: the event loop builds a snapshot of all   *)
(* threads from JDWP tables, the main task answers threads, stackTrace,    *)
(* scopes, variables and evaluate from it until the program is resumed.    *)
(*                                                                         *)
(* The editor names frames by the JVM's frame ids and locals by variable   *)
(* references; the first are reused by the JVM from stop to stop, the      *)
(* second are counted from 1 in every snapshot.  Every suspension reports  *)
(* one stop (the other case is the subject of module Execution).  Reading  *)
(* the values of a frame may fail, and the JVM may die at any time, also   *)
(* while the snapshot is built: what is asked of it from then on is left   *)
(* blank.  The names of methods, classes, files and threads are left out.  *)
(***************************************************************************)
EXTENDS Naturals, Sequences, SequencesExt, FiniteSetsExt

CONSTANTS
    Threads,        \* threads of the program
    NoThread,       \* "no thread"
    Names,          \* names of local variables
    LineOf,         \* per method, the source line of each code index, if any
    ScopeOf,        \* per method, the (name, slot) in scope at each code index
    Stacks,         \* the stacks the program may stop with
    MaxStops,       \* bound: stops
    MaxRequests     \* bound: requests waiting for the main task

\* The frames on these stacks, as [id, method, index, readable], and their ids.
StackFrames == UNION {ToSet(s[t]) : s \in Stacks, t \in Threads}
FrameIds    == {raw.id : raw \in StackFrames}

ASSUME ThreadsAssumption == NoThread \notin Threads /\ 0 \notin FrameIds
ASSUME BoundsAssumption  == MaxStops \in Nat /\ MaxRequests \in Nat

\* The code of a method, if it has any, has the indices from 0 up.
ASSUME TablesAssumption ==
    /\ DOMAIN ScopeOf = DOMAIN LineOf
    /\ \A m \in DOMAIN LineOf :
           LET indices == DOMAIN LineOf[m]
           IN  /\ IsFiniteSet(indices) /\ indices = 0 .. Cardinality(indices) - 1
               /\ LineOf[m] \in [indices -> Nat]
               /\ ScopeOf[m] \in [indices -> SUBSET [name : Names, slot : Nat]]

\* A frame is in the code of its method.  JDWP: a frame id is unique in the
\* whole VM while its thread is suspended.
ASSUME StacksAssumption ==
    /\ Stacks \subseteq [Threads -> Seq(StackFrames)]
    /\ \A raw \in StackFrames :
           /\ raw.method \in DOMAIN LineOf /\ raw.readable \in BOOLEAN
           /\ \/ raw.index \in DOMAIN LineOf[raw.method]
              \/ DOMAIN LineOf[raw.method] = {}
    /\ \A s \in Stacks : \A t, u \in Threads :
           \A i \in DOMAIN s[t], j \in DOMAIN s[u] :
               s[t][i].id = s[u][j].id => t = u /\ i = j

VARIABLES
    jvm,            \* "running", "suspended" or "gone"
    stack,          \* frames of each thread, innermost first
    stops,          \* number of stops so far
    snapshot,       \* DebugSession::snapshot
    loop,           \* the event loop: where it is, and the snapshot it builds
    main,           \* "idle", "stepping" or "resuming"
    inbox,          \* requests not yet handled
    editor,         \* "running", "stopped", "refused" after a failed step, or
                    \* "ended" after the terminated event
    frames,         \* the frame ids the editor was given in this stop
    references      \* the variables references it was given, for which frame

jvmVars == <<jvm, stack, stops>>
editorVars == <<editor, frames, references>>
vars == <<jvmVars, snapshot, loop, main, inbox, editorVars>>

-----------------------------------------------------------------------------
(* Tables of the class file, as the compiler writes them.                  *)

\* LineNumberTable: an entry wherever the line changes.
LineTable(m) ==
    {[index |-> i, line |-> LineOf[m][i]] :
        i \in {j \in DOMAIN LineOf[m] : j = 0 \/ LineOf[m][j] # LineOf[m][j-1]}}

InScopeAt(m, v, i) == i \in DOMAIN ScopeOf[m] /\ v \in ScopeOf[m][i]

\* The ranges of indices, from a to before b, in which a variable is in scope.
ScopesOf(m, v) ==
    {r \in (DOMAIN ScopeOf[m]) \X {i + 1 : i \in DOMAIN ScopeOf[m]} :
        /\ r[1] < r[2]
        /\ \A i \in r[1] .. r[2] - 1 : InScopeAt(m, v, i)
        /\ r[1] > 0 => ~InScopeAt(m, v, r[1] - 1)
        /\ ~InScopeAt(m, v, r[2])}

\* LocalVariableTable: an entry for each range.
VariableTable(m) ==
    UNION {{[name |-> v.name, slot |-> v.slot,
             codeIndex |-> r[1], length |-> r[2] - r[1]] : r \in ScopesOf(m, v)} :
           v \in UNION {ScopeOf[m][i] : i \in DOMAIN ScopeOf[m]}}

-----------------------------------------------------------------------------
(* Types.                                                                  *)

Value == [stop : 1 .. MaxStops, frame : FrameIds, slot : Nat]
Local == [name : Names, value : Value]
Frame == [id : FrameIds, line : Nat, ref : Nat, locals : SUBSET Local]
SnapshotThread == [id : Threads, frames : Seq(Frame)]

NoSnapshot == [stopped |-> NoThread, threads |-> <<>>]
LoopIdle == [pc |-> "select", stopped |-> NoThread, todo |-> {},
             threads |-> <<>>, nextRef |-> 1]

\* The frames of the threads ts: by thread, and by frame of the thread.
Positions(ts)  == UNION {{i} \X DOMAIN ts[i].frames : i \in DOMAIN ts}
FrameAt(ts, p) == ts[p[1]].frames[p[2]]

\* A request: about which thread, frame, reference or name, and whether the
\* editor knew the program stopped when it asked.
Request(kind, thread, frame, ref, name) ==
    [kind |-> kind, thread |-> thread, frame |-> frame, ref |-> ref,
     name |-> name, from |-> editor]

(* The type invariant.  A reference is 0 exactly for a frame without       *)
(* locals, and else one of its own.                                        *)
TypeOK ==
    /\ jvm \in {"running", "suspended", "gone"} /\ stack \in Stacks
    /\ stops \in 0 .. MaxStops
    /\ snapshot.stopped \in Threads \cup {NoThread}
    /\ snapshot.threads \in Seq(SnapshotThread)
    /\ \A p, q \in Positions(snapshot.threads) :
           LET f == FrameAt(snapshot.threads, p)
               g == FrameAt(snapshot.threads, q)
           IN  /\ f.ref = 0 <=> f.locals = {}
               /\ f.ref = g.ref /\ f.ref # 0 => p = q
    /\ loop.pc \in {"select", "list", "build", "store", "announce", "ended"}
    /\ main \in {"idle", "stepping", "resuming"}
    /\ editor \in {"running", "stopped", "refused", "ended"}
    /\ frames \subseteq FrameIds
    /\ references \subseteq [ref : Nat \ {0}, frame : FrameIds]
    /\ Len(inbox) <= MaxRequests

Init ==
    /\ jvm = "running" /\ stack \in Stacks /\ stops = 0
    /\ snapshot = NoSnapshot /\ loop = LoopIdle
    /\ main = "idle" /\ inbox = <<>>
    /\ editor = "running" /\ frames = {} /\ references = {}

-----------------------------------------------------------------------------
(* The event loop.  A stop suspends all threads; the event is taken when   *)
(* the loop is free.                                                       *)

JvmStops(t) ==
    /\ jvm = "running" /\ loop.pc = "select" /\ stops < MaxStops
    /\ jvm' = "suspended"
    /\ stack' \in {s \in Stacks : s[t] # <<>>}
    /\ stops' = stops + 1
    /\ loop' = [LoopIdle EXCEPT !.pc = "list", !.stopped = t]
    /\ UNCHANGED <<snapshot, main, inbox, editorVars>>

JvmDies ==
    /\ jvm # "gone"
    /\ jvm' = "gone"
    /\ UNCHANGED <<stack, stops, snapshot, loop, main, inbox, editorVars>>

ListThreads ==
    /\ loop.pc = "list"
    /\ loop' = [loop EXCEPT !.pc = "build",
                            !.todo = IF jvm = "gone" THEN {} ELSE Threads]
    /\ UNCHANGED <<jvmVars, snapshot, main, inbox, editorVars>>

\* The line of the last entry at or before the index; 0, if there is none.
LineAt(raw) ==
    LET reached == {e \in LineTable(raw.method) : e.index <= raw.index}
    IN  IF reached = {} THEN 0 ELSE (CHOOSE e \in reached : \A d \in reached : d.index <= e.index).line

ValueOf(raw, slot) == [stop |-> stops, frame |-> raw.id, slot |-> slot]

\* Mutant of InScope: a variable is still in scope at the end of its range.
InScopeToo(v, index) ==
    v.codeIndex <= index /\ index <= v.codeIndex + v.length
InScope(v, index) ==
    v.codeIndex <= index /\ index < v.codeIndex + v.length

\* collect_frame_variables: none if the values cannot be read.
Locals(raw) ==
    {[name |-> v.name, value |-> ValueOf(raw, v.slot)] :
        v \in {w \in VariableTable(raw.method) :
                  raw.readable /\ InScope(w, raw.index)}}

\* The frames of thread t, with lines for the first `lines` and locals for the
\* first `read` of them; these are all, unless the JVM dies meanwhile.
LineRead(t, i, lines)  == IF i <= lines THEN LineAt(stack[t][i]) ELSE 0
LocalsRead(t, i, read) == IF i <= read THEN Locals(stack[t][i]) ELSE {}

WithLocals(t, last, read) == {i \in 1 .. last : LocalsRead(t, i, read) # {}}

\* Mutant of VarsRef: the counter starts again in each thread.
VarsRefPerThread(t, i, read) ==
    IF i \notin WithLocals(t, i, read) THEN 0
    ELSE Cardinality(WithLocals(t, i, read))

\* variables_ref of frame i of thread t: counted through the snapshot.
VarsRef(t, i, read) ==
    IF i \notin WithLocals(t, i, read) THEN 0
    ELSE loop.nextRef + Cardinality(WithLocals(t, i, read)) - 1

FramesOf(t, lines, read) ==
    [i \in 1 .. Len(stack[t]) |->
        [id |-> stack[t][i].id,
         line |-> LineRead(t, i, lines), ref |-> VarsRef(t, i, read),
         locals |-> LocalsRead(t, i, read)]]

Built(t, fs, read) ==
    loop' = [loop EXCEPT
        !.todo = @ \ {t}, !.threads = Append(@, [id |-> t, frames |-> fs]),
        !.nextRef = @ + Cardinality(WithLocals(t, Len(fs), read))]

\* One thread, in whatever order the JVM listed them; a JVM that has died has
\* no frames to tell.
BuildThread ==
    /\ loop.pc = "build"
    /\ \E t \in loop.todo :
           LET all == Len(stack[t]) IN
           IF jvm = "gone" THEN Built(t, <<>>, 0)
                           ELSE Built(t, FramesOf(t, all, all), all)
    /\ UNCHANGED <<jvmVars, snapshot, main, inbox, editorVars>>

\* The JVM dies once it has listed the frames of the thread.
BuildCutShort ==
    /\ loop.pc = "build" /\ jvm # "gone"
    /\ \E t \in loop.todo : \E read \in 0 .. Len(stack[t]) :
           \E lines \in {read, read + 1} : Built(t, FramesOf(t, lines, read), read)
    /\ jvm' = "gone"
    /\ UNCHANGED <<stack, stops, snapshot, main, inbox, editorVars>>

SnapshotBuilt ==
    /\ loop.pc = "build" /\ loop.todo = {}
    /\ loop' = [loop EXCEPT !.pc = "store"]
    /\ UNCHANGED <<jvmVars, snapshot, main, inbox, editorVars>>

\* Mutant of Store: the snapshot is lost.
StoreNothing ==
    /\ loop.pc = "store"
    /\ loop' = [LoopIdle EXCEPT !.pc = "announce"]
    /\ UNCHANGED <<jvmVars, snapshot, main, inbox, editorVars>>

Store ==
    /\ loop.pc = "store"
    /\ snapshot' = [stopped |-> loop.stopped, threads |-> loop.threads]
    /\ loop' = [LoopIdle EXCEPT !.pc = "announce"]
    /\ UNCHANGED <<jvmVars, main, inbox, editorVars>>

Announce ==
    /\ loop.pc = "announce"
    /\ editor' = "stopped"
    /\ loop' = LoopIdle
    /\ UNCHANGED <<jvmVars, snapshot, main, inbox, frames, references>>

\* VmDeath: the session is dropped, the snapshot with it, and the editor told.
LoopEnds ==
    /\ loop.pc = "select" /\ jvm = "gone"
    /\ snapshot' = NoSnapshot
    /\ editor' = "ended"
    /\ loop' = [LoopIdle EXCEPT !.pc = "ended"]
    /\ UNCHANGED <<jvmVars, main, inbox, frames, references>>

EventLoop == \/ ListThreads \/ BuildThread \/ BuildCutShort \/ SnapshotBuilt
             \/ Store \/ Announce \/ LoopEnds

-----------------------------------------------------------------------------
(* The editor.  It asks about what it was given in this stop, and forgets  *)
(* it when it resumes the program.  It may ask ahead of the answers.       *)

Ask(request) ==
    /\ editor \in {"stopped", "refused"} /\ Len(inbox) < MaxRequests
    /\ inbox' = Append(inbox, request)
    /\ UNCHANGED <<jvmVars, snapshot, loop, main, editorVars>>

EditorAsks ==
    \/ Ask(Request("threads", NoThread, 0, 0, ""))
    \/ \E t \in Threads : Ask(Request("stackTrace", t, 0, 0, ""))
    \/ \E f \in frames : Ask(Request("scopes", NoThread, f, 0, ""))
    \/ \E r \in references :
           Ask(Request("variables", NoThread, r.frame, r.ref, ""))
    \/ \E f \in frames \cup {0}, n \in Names :
           Ask(Request("evaluate", NoThread, f, 0, n))

EditorResumes ==
    /\ editor \in {"stopped", "refused"} /\ Len(inbox) < MaxRequests
    /\ \E kind \in {"continue", "step"} :
           inbox' = Append(inbox, Request(kind, NoThread, 0, 0, ""))
    /\ editor' = "running" /\ frames' = {} /\ references' = {}
    /\ UNCHANGED <<jvmVars, snapshot, loop, main>>

-----------------------------------------------------------------------------
(* The main task: answers.  Without a snapshot every answer is empty.      *)

\* The frames of the first thread with the id.
FramesOfThread(t) ==
    LET first == {i \in DOMAIN snapshot.threads :
                     /\ snapshot.threads[i].id = t
                     /\ \A j \in 1 .. i - 1 : snapshot.threads[j].id # t}
    IN  IF first = {} THEN <<>>
        ELSE snapshot.threads[CHOOSE i \in first : TRUE].frames

StackTrace(t) ==
    LET fs == FramesOfThread(t)
    IN  [i \in DOMAIN fs |-> [id |-> fs[i].id, line |-> fs[i].line]]

\* The first of the frames among fs, as a set of at most one.
Before(p, q) == p[1] < q[1] \/ (p[1] = q[1] /\ p[2] < q[2])
FirstOf(fs) ==
    LET found == {p \in Positions(snapshot.threads) :
                     FrameAt(snapshot.threads, p) \in fs}
    IN  {FrameAt(snapshot.threads, p) :
            p \in {q \in found : \A r \in found : ~Before(r, q)}}

FindFrame(id)           == FirstOf({f \in Frame : f.id = id})
FindFrameByVarsRef(ref) == FirstOf({f \in Frame : f.ref = ref})

\* Mutant of TopFrame: the top frame of whatever thread comes first.
TopOfAll == FirstOf(Frame)
TopFrame ==
    LET fs == FramesOfThread(snapshot.stopped)
    IN  IF fs = <<>> THEN {} ELSE {fs[1]}

Evaluate(id, name) ==
    LET chosen == IF id = 0 THEN TopFrame ELSE FindFrame(id)
    IN  {l.value : l \in {k \in UNION {f.locals : f \in chosen} : k.name = name}}

\* The answer to a request.
Answer(r) ==
    CASE r.kind = "threads"    -> {th.id : th \in ToSet(snapshot.threads)}
      [] r.kind = "stackTrace" -> StackTrace(r.thread)
      [] r.kind = "scopes"     -> {f.ref : f \in FindFrame(r.frame)}
      [] r.kind = "variables"  -> UNION {f.locals : f \in FindFrameByVarsRef(r.ref)}
      [] r.kind = "evaluate"   -> Evaluate(r.frame, r.name)

Inspections == {"threads", "stackTrace", "scopes", "variables", "evaluate"}

Receive(kinds) ==
    /\ main = "idle" /\ inbox # <<>> /\ Head(inbox).kind \in kinds
    /\ inbox' = Tail(inbox)

\* The editor keeps the ids and references in the answer, unless it has
\* resumed the program since.
HandleInspection ==
    /\ Receive(Inspections)
    /\ LET r == Head(inbox)
       IN  /\ frames' = IF editor # "running" /\ r.kind = "stackTrace"
                        THEN frames \cup {f.id : f \in ToSet(Answer(r))}
                        ELSE frames
           /\ references' = IF editor # "running" /\ r.kind = "scopes"
                            THEN references \cup
                                 {[ref |-> v, frame |-> r.frame] :
                                     v \in Answer(r) \ {0}}
                            ELSE references
    /\ UNCHANGED <<jvmVars, snapshot, loop, main, editor>>

-----------------------------------------------------------------------------
(* The main task: resuming.                                                *)

HandleContinue ==
    /\ Receive({"continue"})
    /\ snapshot' = NoSnapshot
    /\ main' = "resuming"
    /\ UNCHANGED <<jvmVars, loop, editorVars>>

\* An error response; the editor knows that the program has not moved on.
Refuse == editor' = IF editor = "ended" THEN editor ELSE "refused"

\* "no stopped thread" after a failed step, or no session any more.
HandleStep ==
    /\ Receive({"step"})
    /\ IF snapshot.stopped = NoThread
       THEN Refuse /\ UNCHANGED main
       ELSE main' = "stepping" /\ UNCHANGED editor
    /\ snapshot' = NoSnapshot
    /\ UNCHANGED <<jvmVars, loop, frames, references>>

StepSet ==
    /\ main = "stepping" /\ jvm # "gone"
    /\ main' = "resuming"
    /\ UNCHANGED <<jvmVars, snapshot, loop, inbox, editorVars>>

\* The JVM refuses, or has died: a program that lives stays suspended, but its
\* snapshot is gone.
StepSetFails ==
    /\ main = "stepping"
    /\ main' = "idle"
    /\ Refuse
    /\ UNCHANGED <<jvmVars, snapshot, loop, inbox, frames, references>>

Resume ==
    /\ main = "resuming"
    /\ jvm' = IF jvm = "gone" THEN jvm ELSE "running"
    /\ main' = "idle"
    /\ UNCHANGED <<stack, stops, snapshot, loop, inbox, editorVars>>

MainTask == \/ HandleInspection \/ HandleContinue \/ HandleStep
            \/ StepSet \/ StepSetFails \/ Resume

-----------------------------------------------------------------------------
Next == \/ \E t \in Threads : JvmStops(t)
        \/ JvmDies \/ EventLoop \/ EditorAsks \/ EditorResumes \/ MainTask

Spec == Init /\ [][Next]_vars

-----------------------------------------------------------------------------
(* Properties.  What the program shows at a frame, by its source.          *)

HasSource(raw) == raw.index \in DOMAIN LineOf[raw.method]
TrueLine(raw) == IF HasSource(raw) THEN LineOf[raw.method][raw.index] ELSE 0
TrueLocals(raw) ==
    IF ~raw.readable \/ ~HasSource(raw) THEN {}
    ELSE {[name |-> v.name, value |-> ValueOf(raw, v.slot)] :
             v \in ScopeOf[raw.method][raw.index]}

RawFrames == UNION {ToSet(stack[t]) : t \in Threads}
TheFrame(id) == CHOOSE raw \in RawFrames : raw.id = id

\* What is decoded from the tables is what the source says: while there is a
\* snapshot, it has every thread with its frames, in order, with the line the
\* program is at and exactly the locals in scope there, with the values of this
\* stop.  Of a JVM that has died it may have blanks, but nothing that is not true.
SnapshotIsFaithful ==
    snapshot # NoSnapshot =>
        /\ \A th \in ToSet(snapshot.threads) : \A i \in DOMAIN th.frames :
               LET f   == th.frames[i]
                   raw == stack[th.id][i]
               IN  /\ i \in DOMAIN stack[th.id] /\ f.id = raw.id
                   /\ f.line \in {TrueLine(raw), 0}
                   /\ f.locals \in {TrueLocals(raw), {}}
        /\ jvm # "gone" =>
               \A t \in Threads : \E th \in ToSet(snapshot.threads) :
                   /\ th.id = t /\ DOMAIN th.frames = DOMAIN stack[t]
                   /\ \A i \in DOMAIN stack[t] :
                          /\ th.frames[i].line = TrueLine(stack[t][i])
                          /\ th.frames[i].locals = TrueLocals(stack[t][i])

NamedIn(locals, name) == {l.value : l \in {k \in locals : k.name = name}}

\* A request that was sent while the program was known to be stopped, and still
\* is, is answered from that very stop and about that very thread or frame: ids
\* and references lead back to the frame they were handed out for, though the
\* next stop will hand out the same ones again.
AnswersAreTrue ==
    main = "idle" /\ inbox # <<>> /\ Head(inbox).from = "stopped" /\ jvm # "gone" =>
        LET r == Head(inbox)
        IN  /\ r.kind = "threads" => Answer(r) = Threads
            /\ r.kind = "stackTrace" =>
                  Answer(r) = [i \in DOMAIN stack[r.thread] |->
                      [id |-> stack[r.thread][i].id,
                       line |-> TrueLine(stack[r.thread][i])]]
            /\ r.kind = "scopes" =>
                  /\ Cardinality(Answer(r)) = 1
                  /\ Answer(r) = {0} <=> TrueLocals(TheFrame(r.frame)) = {}
            /\ r.kind = "variables" => Answer(r) = TrueLocals(TheFrame(r.frame))
            /\ r.kind = "evaluate" /\ r.frame # 0 =>
                  Answer(r) = NamedIn(TrueLocals(TheFrame(r.frame)), r.name)

\* Without a frame, an expression is evaluated where the program stopped.
TopIsWhereItStopped ==
    snapshot # NoSnapshot /\ jvm # "gone" =>
        \A n \in Names : Evaluate(0, n) =
            NamedIn(TrueLocals(stack[snapshot.stopped][1]), n)

=============================================================================
