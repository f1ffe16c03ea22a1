---------------------------- MODULE Breakpoints ----------------------------
(***************************************************************************)
(* Breakpoints asked for by the editor and requests installed in the JVM.  *)
(*                                                                         *)
(* The main task handles setBreakpoints: it replaces the entries of one    *)
(* source file and installs each on the classes already loaded.  The event *)
(* loop handles ClassPrepare: it installs the entries that wait for the    *)
(* class just loaded.  Both read the entries under the session lock,       *)
(* release it while they talk to the JVM, and take it again to write back  *)
(* what they did.  A critical section is one action and so is a command    *)
(* that changes the JVM.                                                   *)
(*                                                                         *)
(* One launch: breakpoints may be set before it, the JVM may die at any    *)
(* time, and the session ends with it or by a disconnect, whatever the two *)
(* tasks are doing.  A JVM that lives accepts every breakpoint at a        *)
(* location it reported itself; one that has died answers with errors.     *)
(***************************************************************************)
EXTENDS Naturals, Sequences, FiniteSets

CONSTANTS
    Files,              \* source files
    Classes,            \* classes the program may load
    NoClass,            \* "no class"
    SourceOf,           \* SourceMap::by_class: the file of each class
    LinesOf,            \* the executable lines of each class
    Requests,           \* what the editor may ask for: sequences of lines
    MaxEdits            \* bound: setBreakpoints requests, by careful

ASSUME FilesAssumption == Files # {}
ASSUME ClassesAssumption == NoClass \notin Classes
ASSUME SourceOfAssumption == SourceOf \in [Classes -> Files]
ASSUME LinesOfAssumption == LinesOf \in [Classes -> SUBSET Nat]
ASSUME RequestsAssumption == Requests \subseteq Seq(Nat)
ASSUME EditAssumption == MaxEdits \in [BOOLEAN -> Nat]

VARIABLES
    jvm,            \* "none", "stopped" for the user, "running", "preparing"
                    \* a class, or "gone"
    loaded,         \* classes loaded so far
    prepared,       \* the class whose ClassPrepare is not yet handled
    live,           \* breakpoint requests registered in the JVM
    lastRequest,    \* id of the last request the JVM granted
    session,        \* is there a session
    breakpoints,    \* DebugSession::breakpoints
    nextBpId,       \* DebugSession::next_bp_id
    main,           \* the main task: where it is, and its locals
    loop,           \* the event loop: where it is, and its locals
    shown,          \* the breakpoints with an id, as the editor shows them
    careful,        \* never changes: does the editor set breakpoints only
                    \* while the JVM is stopped?
    edits           \* setBreakpoints requests so far

jvmVars == <<jvm, loaded, prepared>>
requestVars == <<live, lastRequest>>
sessionVars == <<session, breakpoints, nextBpId>>
editorVars == <<shown, careful, edits>>
vars == <<jvmVars, requestVars, sessionVars, main, loop, editorVars>>

-----------------------------------------------------------------------------
(* Types.                                                                  *)

Wanted  == [id : Nat, line : Nat]               \* an entry still to install
Install == [class : Classes, request : Nat]     \* (class name, JDWP id)
\* An entry and its installs.
Result  == [id : Nat, line : Nat, classes : SUBSET Install]

\* BreakpointEntry; "classes" is the payload of BpState::Installed.
Entry == [id : Nat, file : Files, line : Nat,
          state : {"Pending", "Installed", "Rejected"},
          classes : SUBSET Install]

JvmRequest == [id : Nat, class : Classes, line : Nat]

\* A breakpoint as the editor shows it.
Shown == [id : Nat, file : Files, line : Nat, verified : BOOLEAN]

MainState == [pc : {"idle", "clear", "list", "install", "store", "respond"},
              file : Files, old : SUBSET Nat, todo : Seq(Wanted),
              found : SUBSET Classes, classes : SUBSET Install,
              results : SUBSET Result]
LoopState == [pc : {"select", "deferred", "extend", "update", "notify",
                    "resume", "ended"},
              class : Classes \cup {NoClass},
              pending : SUBSET Wanted, extend : SUBSET Wanted,
              deferred : SUBSET Result, extended : SUBSET Result]

MainIdle == [pc |-> "idle", file |-> CHOOSE f \in Files : TRUE, old |-> {},
             todo |-> <<>>, found |-> {}, classes |-> {}, results |-> {}]
LoopIdle == [pc |-> "select", class |-> NoClass, pending |-> {},
             extend |-> {}, deferred |-> {}, extended |-> {}]

(* The type invariant.  Ids in use have been handed out, only an installed *)
(* entry carries installs, and a JVM that has gone takes its requests.     *)
TypeOK ==
    /\ jvm \in {"none", "stopped", "running", "preparing", "gone"}
    /\ loaded \subseteq Classes
    /\ prepared \in Classes \cup {NoClass}
    /\ live \subseteq JvmRequest
    /\ lastRequest \in Nat
    /\ session \in BOOLEAN /\ (session => jvm # "none")
    /\ jvm = "gone" => live = {}
    /\ breakpoints \subseteq Entry /\ (breakpoints # {} => session)
    /\ \A r \in live : r.id <= lastRequest
    /\ \A e \in breakpoints :
           e.id < nextBpId /\ (e.state = "Installed" <=> e.classes # {})
    /\ nextBpId \in Nat \ {0}
    /\ main \in MainState
    /\ loop \in LoopState
    /\ shown \subseteq Shown
    /\ careful \in BOOLEAN
    /\ edits \in 0 .. MaxEdits[careful]

\* The server has started.
Init ==
    /\ jvm = "none" /\ loaded = {} /\ prepared = NoClass
    /\ live = {} /\ lastRequest = 0
    /\ session = FALSE /\ breakpoints = {} /\ nextBpId = 1
    /\ main = MainIdle /\ loop = LoopIdle
    /\ shown = {} /\ careful \in BOOLEAN /\ edits = 0

-----------------------------------------------------------------------------
(* Lines.                                                                  *)

MaxGap == 2

\* SourceMap::classes_for_source.
ClassesOf(file) == {c \in Classes : SourceOf[c] = file}

\* The executable lines of class c that a breakpoint on `line` may move to.
Window(c, line) == {l \in LinesOf[c] : line <= l /\ l <= line + MaxGap}

Nearest(c, line) == CHOOSE l \in Window(c, line) :
                        \A m \in Window(c, line) : l <= m

Alive == jvm \in {"stopped", "running", "preparing"}

\* A JVM that has gone reports no lines, and accepts no request.
Installs(c, line) == Alive /\ Window(c, line) # {}

\* try_install_at_nearest_line: the JVM grants a new request, if c has a line.
Grant(c, line) ==
    IF ~Installs(c, line)
    THEN UNCHANGED requestVars
    ELSE /\ lastRequest' = lastRequest + 1
         /\ live' = live \cup {[id |-> lastRequest', class |-> c,
                                line |-> Nearest(c, line)]}

\* The install that Grant(c, line) returned, as a set of at most one.
Granted(c, line) == IF ~Installs(c, line) THEN {}
                    ELSE {[class |-> c, request |-> lastRequest + 1]}

\* installed_line: the first line of those that r was installed on.
InstalledLine(r) ==
    LET lines == {Nearest(i.class, r.line) : i \in r.classes}
    IN  CHOOSE l \in lines : \A m \in lines : l <= m

\* The line the editor is told: the one installed, or the one it asked for.
ShownLine(r) == IF r.classes = {} THEN r.line ELSE InstalledLine(r)

-----------------------------------------------------------------------------
(* The JVM, the session, and the user's resume.                            *)

\* do_launch: the session is stored; the JVM waits for configurationDone.
Launch ==
    /\ jvm = "none" /\ main.pc = "idle"
    /\ jvm' = "stopped"
    /\ session' = TRUE
    /\ UNCHANGED <<loaded, prepared, requestVars, breakpoints, nextBpId, main,
                   loop, editorVars>>

NoSession == session' = FALSE /\ breakpoints' = {} /\ nextBpId' = 1

\* disconnect: the session is dropped; the event loop is left to end the JVM.
Disconnect ==
    /\ session /\ main.pc = "idle"
    /\ NoSession
    /\ UNCHANGED <<jvmVars, requestVars, main, loop, editorVars>>

\* What the JVM knew is lost with it.
JvmGone == jvm' = "gone" /\ loaded' = {} /\ live' = {} /\ lastRequest' = 0

JvmDies ==
    /\ Alive
    /\ JvmGone
    /\ UNCHANGED <<prepared, sessionVars, main, loop, editorVars>>

JvmLoads(c) ==
    /\ jvm = "running" /\ c \notin loaded
    /\ jvm' = "preparing"
    /\ loaded' = loaded \cup {c}
    /\ prepared' = c
    /\ UNCHANGED <<requestVars, sessionVars, main, loop, editorVars>>

JvmStops ==
    /\ jvm = "running"
    /\ jvm' = "stopped"
    /\ UNCHANGED <<loaded, prepared, requestVars, sessionVars, main, loop,
                   editorVars>>

\* configurationDone or continue, handled when the main task is free.
UserResumes ==
    /\ session /\ jvm = "stopped" /\ main.pc = "idle"
    /\ jvm' = "running"
    /\ UNCHANGED <<loaded, prepared, requestVars, sessionVars, main, loop,
                   editorVars>>

-----------------------------------------------------------------------------
(* setBreakpoints.                                                         *)

IdsOf(entries) == {i.request : i \in UNION {e.classes : e \in entries}}

OtherFiles(file) == {e \in breakpoints : e.file # file}

\* Mutant of Retained: the entries that are replaced stay in the session.
RetainedAll(file) == breakpoints

\* `retain`: the entries that survive a setBreakpoints for `file`.
Retained(file) == OtherFiles(file)

\* Mutant of NextBpId: ids are handed out again.
SameBpId(n) == nextBpId
NextBpId(n) == nextBpId + n

\* A setBreakpoints request that is well formed.
Asked ==
    /\ main.pc = "idle"
    /\ careful => jvm \notin {"running", "preparing"}
    /\ edits < MaxEdits[careful]
    /\ edits' = edits + 1

\* Without a session, the lines are answered as unverified and without ids, and
\* forgotten.
SetWithoutSession(file) ==
    /\ Asked /\ ~session
    /\ shown' = {s \in shown : s.file # file}
    /\ UNCHANGED <<jvmVars, requestVars, sessionVars, main, loop, careful>>

\* The first critical section: the file's entries are replaced, and the ids of
\* the requests they had are kept to be cleared.
SetBreakpoints(file, lines) ==
    LET new == [i \in 1 .. Len(lines) |->
                    [id |-> nextBpId + i - 1, line |-> lines[i]]]
    IN  /\ Asked /\ session
        /\ breakpoints' = Retained(file) \cup
               {[id |-> new[i].id, file |-> file, line |-> new[i].line,
                 state |-> "Pending", classes |-> {}] : i \in DOMAIN new}
        /\ nextBpId' = NextBpId(Len(lines))
        /\ main' = [MainIdle EXCEPT !.pc = "clear", !.file = file,
                                    !.old = IdsOf(breakpoints \ OtherFiles(file)),
                                    !.todo = new]
        /\ UNCHANGED <<jvmVars, requestVars, session, loop, shown, careful>>

\* Mutant of ClearOld: the requests of the replaced entries stay in the JVM.
KeepOld ==
    /\ main.pc = "clear"
    /\ main' = [main EXCEPT !.pc = "list", !.old = {}]
    /\ UNCHANGED <<jvmVars, requestVars, sessionVars, loop, editorVars>>

\* One EventRequest.Clear for each of the old ids.
ClearOld ==
    /\ main.pc = "clear"
    /\ IF main.old = {}
       THEN /\ main' = [main EXCEPT !.pc = "list"]
            /\ UNCHANGED live
       ELSE \E id \in main.old :
                /\ live' = {r \in live : r.id # id}
                /\ main' = [main EXCEPT !.old = @ \ {id}]
    /\ UNCHANGED <<jvmVars, lastRequest, sessionVars, loop, editorVars>>

\* The next entry: vm_all_classes lists the classes loaded at this instant, or
\* fails.  Without source mapping there is nothing to install on.
ListLoaded ==
    /\ main.pc = "list"
    /\ main' = IF main.todo = <<>>
               THEN [main EXCEPT !.pc = "store"]
               ELSE [main EXCEPT !.pc = "install",
                                 !.found = IF Alive THEN ClassesOf(main.file) \cap loaded
                                           ELSE {},
                                 !.classes = {}]
    /\ UNCHANGED <<jvmVars, requestVars, sessionVars, loop, editorVars>>

\* One class of the list, in whatever order the JVM listed them.
InstallOnLoaded ==
    /\ main.pc = "install"
    /\ main.found # {}
    /\ \E c \in main.found :
           /\ Grant(c, Head(main.todo).line)
           /\ main' = [main EXCEPT
                 !.found = @ \ {c},
                 !.classes = @ \cup Granted(c, Head(main.todo).line)]
    /\ UNCHANGED <<jvmVars, sessionVars, loop, editorVars>>

EntryInstalled ==
    /\ main.pc = "install"
    /\ main.found = {}
    /\ main' = [main EXCEPT
          !.pc = "list",
          !.todo = Tail(@),
          !.results = @ \cup {[id |-> Head(main.todo).id,
                               line |-> Head(main.todo).line,
                               classes |-> main.classes]}]
    /\ UNCHANGED <<jvmVars, requestVars, sessionVars, loop, editorVars>>

\* The state of an entry of `file` that was installed on `classes`.
FinalState(file, classes) ==
    CASE ClassesOf(file) = {} -> "Rejected"
      [] ClassesOf(file) # {} /\ classes = {} -> "Pending"
      [] OTHER -> "Installed"

\* What the second critical section makes of entry e.
Stored(e) ==
    LET own == {r \in main.results : r.id = e.id}
        is  == UNION {r.classes : r \in own}
    IN  IF own = {} THEN e
        ELSE [e EXCEPT !.state = FinalState(main.file, is), !.classes = is]

\* The second critical section: the state of each new entry that is still
\* there becomes what the installation made of it, whatever it is now.
StoreStates ==
    /\ main.pc = "store"
    /\ breakpoints' = {Stored(e) : e \in breakpoints}
    /\ main' = [main EXCEPT !.pc = "respond"]
    /\ UNCHANGED <<jvmVars, requestVars, session, nextBpId, loop, editorVars>>

\* Mutant of Verified: every breakpoint is shown as verified.
AllVerified(classes) == TRUE
Verified(classes) == classes # {}

\* The response is the editor's new view of the file.
Respond ==
    /\ main.pc = "respond"
    /\ shown' = {s \in shown : s.file # main.file} \cup
                {[id |-> r.id, file |-> main.file, line |-> ShownLine(r),
                  verified |-> Verified(r.classes)] : r \in main.results}
    /\ main' = MainIdle
    /\ UNCHANGED <<jvmVars, requestVars, sessionVars, loop, careful, edits>>

MainTask == \/ \E f \in Files : \/ \E ls \in Requests : SetBreakpoints(f, ls)
                               \/ SetWithoutSession(f)
            \/ Launch \/ Disconnect \/ UserResumes
            \/ ClearOld \/ ListLoaded \/ InstallOnLoaded \/ EntryInstalled
            \/ StoreStates \/ Respond

-----------------------------------------------------------------------------
(* ClassPrepare.                                                           *)

\* Mutant of ExtendsTo: installed entries never gain a class.
NeverExtends(e, c) == FALSE

\* ExtendBreakpointInstall: e is installed, but not on class c.
ExtendsTo(e, c) ==
    e.state = "Installed" /\ \A i \in e.classes : i.class # c

WantedOf(entries) == {[id |-> e.id, line |-> e.line] : e \in entries}

\* The first critical section: what waits for the class, and what it extends.
Collect ==
    /\ loop.pc = "select"
    /\ session /\ prepared # NoClass
    /\ LET ofSource == {e \in breakpoints : e.file = SourceOf[prepared]}
           pending  == {e \in ofSource : e.state = "Pending"}
           extend   == {e \in ofSource : ExtendsTo(e, prepared)}
       IN  loop' = [LoopIdle EXCEPT
                      !.pc = IF pending = {} /\ extend = {} THEN "resume"
                             ELSE "deferred",
                      !.class = prepared,
                      !.pending = WantedOf(pending),
                      !.extend = WantedOf(extend)]
    /\ prepared' = NoClass
    /\ UNCHANGED <<jvm, loaded, requestVars, sessionVars, main, editorVars>>

\* The results of an install of w on class c: one if granted.
ResultOf(w, c) ==
    {[id |-> w.id, line |-> w.line, classes |-> is] :
        is \in {Granted(c, w.line)} \ {{}}}

InstallDeferred ==
    /\ loop.pc = "deferred"
    /\ IF loop.pending = {}
       THEN /\ loop' = [loop EXCEPT !.pc = "extend"]
            /\ UNCHANGED requestVars
       ELSE \E w \in loop.pending :
                /\ Grant(loop.class, w.line)
                /\ loop' = [loop EXCEPT !.pending = @ \ {w},
                                        !.deferred = @ \cup ResultOf(w, loop.class)]
    /\ UNCHANGED <<jvmVars, sessionVars, main, editorVars>>

InstallExtend ==
    /\ loop.pc = "extend"
    /\ IF loop.extend = {}
       THEN /\ loop' = [loop EXCEPT !.pc = "update"]
            /\ UNCHANGED requestVars
       ELSE \E w \in loop.extend :
                /\ Grant(loop.class, w.line)
                /\ loop' = [loop EXCEPT !.extend = @ \ {w},
                                        !.extended = @ \cup ResultOf(w, loop.class)]
    /\ UNCHANGED <<jvmVars, sessionVars, main, editorVars>>

\* What the second critical section makes of entry e.  A deferred install
\* replaces the state whatever it is; an extension adds to an installed entry.
Updated(e) ==
    LET def == {r \in loop.deferred : r.id = e.id}
        ext == {r \in loop.extended : r.id = e.id}
        d   == IF def = {} THEN e
               ELSE [e EXCEPT !.state = "Installed",
                              !.classes = UNION {r.classes : r \in def}]
    IN  IF d.state = "Installed"
        THEN [d EXCEPT !.classes = @ \cup UNION {r.classes : r \in ext}]
        ELSE d

\* Mutant of Update: the installs are not written back.
UpdateNothing ==
    /\ loop.pc = "update"
    /\ loop' = [loop EXCEPT !.pc = "notify"]
    /\ UNCHANGED <<jvmVars, requestVars, sessionVars, main, editorVars>>

\* The second critical section; a session that has gone has no entries.
Update ==
    /\ loop.pc = "update"
    /\ breakpoints' = {Updated(e) : e \in breakpoints}
    /\ loop' = [loop EXCEPT !.pc = "notify"]
    /\ UNCHANGED <<jvmVars, requestVars, session, nextBpId, main, editorVars>>

\* What the editor makes of the "breakpoint" events: it ignores one for a
\* breakpoint it does not show.
Notified(s) ==
    LET own == {r \in loop.deferred : r.id = s.id}
    IN  IF own = {} THEN s
        ELSE [s EXCEPT !.verified = TRUE,
                       !.line = InstalledLine(CHOOSE r \in own : TRUE)]

\* A "breakpoint" event for each deferred install.
Notify ==
    /\ loop.pc = "notify"
    /\ shown' = {Notified(s) : s \in shown}
    /\ loop' = [loop EXCEPT !.pc = "resume"]
    /\ UNCHANGED <<jvmVars, requestVars, sessionVars, main, careful, edits>>

LoopResumes ==
    /\ loop.pc = "resume"
    /\ jvm' = IF Alive THEN "running" ELSE jvm
    /\ loop' = LoopIdle
    /\ UNCHANGED <<loaded, prepared, requestVars, sessionVars, main, editorVars>>

\* VmDeath, which comes behind a ClassPrepare, or the end of the session, on
\* which the JVM is killed.  (A ClassPrepare that finds no session is passed
\* over, and the JVM stays suspended until then.)
LoopEnds ==
    /\ loop.pc = "select" /\ jvm # "none"
    /\ ~session \/ (jvm = "gone" /\ prepared = NoClass)
    /\ JvmGone /\ NoSession
    /\ loop' = [LoopIdle EXCEPT !.pc = "ended"]
    /\ prepared' = NoClass
    /\ UNCHANGED <<main, editorVars>>

EventLoop == \/ Collect \/ InstallDeferred \/ InstallExtend \/ Update
             \/ Notify \/ LoopResumes \/ LoopEnds

\* The JVM has gone, and no request is being handled.
Finished == loop.pc = "ended" /\ main.pc = "idle" /\ UNCHANGED vars

-----------------------------------------------------------------------------
Next == \/ \E c \in Classes : JvmLoads(c)
        \/ JvmStops \/ JvmDies \/ MainTask \/ EventLoop \/ Finished

Spec == Init /\ [][Next]_vars

-----------------------------------------------------------------------------
(* Properties.  "At rest" both tasks have finished what they were doing.   *)

AtRest == session /\ main.pc = "idle" /\ loop.pc = "select"
          /\ jvm \in {"stopped", "running"}

\* Verified is never a lie: each request recorded for an installed entry is
\* registered in the JVM, on a class of the entry's file, at the nearest line
\* of that class - whatever the two tasks do to the entry at the same time, as
\* long as the JVM lives.
RecordedIsLive ==
    Alive => \A e \in breakpoints : \A i \in e.classes :
        /\ SourceOf[i.class] = e.file
        /\ Window(i.class, e.line) # {}
        /\ [id |-> i.request, class |-> i.class,
            line |-> Nearest(i.class, e.line)] \in live

\* No breakpoint is missed: at rest, every loaded class that has a line for an
\* entry has a request there, even if class and entry came at the same time.
NoneMissed ==
    AtRest => \A e \in breakpoints, c \in loaded :
        SourceOf[c] = e.file /\ Window(c, e.line) # {} =>
            \E r \in live : r.class = c /\ r.line = Nearest(c, e.line)

\* Nothing the user cannot remove: at rest, every request in the JVM is
\* recorded in an entry, so that replacing the entry clears it - if the editor
\* sets breakpoints only while the program is stopped.
NoOrphans == careful /\ AtRest => \A r \in live : r.id \in IdsOf(breakpoints)

\* "Class not yet loaded; install when ClassPrepare fires" (server.rs:32): at
\* rest, no loaded class has a line for a pending entry.
PendingAwaitsItsClass ==
    AtRest => \A e \in breakpoints, c \in loaded :
        e.state = "Pending" /\ SourceOf[c] = e.file => Window(c, e.line) = {}

\* The same, of an editor that sets breakpoints only while the program is
\* stopped: the two tasks' critical sections do not overlap.
PendingAwaits == careful => PendingAwaitsItsClass

\* The editor is not misled: at rest it shows exactly the entries there are,
\* as verified exactly those that are installed, and these at a line where the
\* program may stop - if it is careful.
ShownIsTrue ==
    careful /\ AtRest =>
        /\ {<<s.id, s.file, s.verified>> : s \in shown} =
               {<<e.id, e.file, e.state = "Installed">> : e \in breakpoints}
        /\ \A s \in shown : s.verified =>
               \E r \in live : r.id \in IdsOf({e \in breakpoints : e.id = s.id})
                              /\ r.line = s.line

=============================================================================
