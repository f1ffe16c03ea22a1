----------------------------- MODULE Execution -----------------------------
(***************************************************************************)
(* Who may resume the debugged JVM, and when.                              *)
(*                                                                         *)
(* Two tasks of the server drive the JVM: the MAIN task, which handles the *)
(* editor's DAP requests one at a time, and the EVENT LOOP, which handles  *)
(* the JVM's events one at a time.  They share the session (behind a       *)
(* mutex), and both release the mutex around every JDWP command, so that   *)
(* their steps interleave at each command.                                 *)
(*                                                                         *)
(* A critical section is one action; a JDWP command is one action, at the  *)
(* instant the JVM executes it.  The JVM is modelled from the JDWP         *)
(* contract the code relies on: every event the server asks for suspends   *)
(* all threads, and one VirtualMachine.Resume lets them all run.           *)
(***************************************************************************)
EXTENDS Naturals, Sequences, FiniteSets

CONSTANTS
    Threads,        \* threads of the debugged program
    NoThread,       \* "no thread": no snapshot, no thread in hand
    Composites,     \* what one suspension may report: sequences of stop kinds
    MaxSteps,       \* bound: single-step requests the JVM grants
    MaxEvents,      \* bound: events waiting for the event loop
    MaxRequests     \* bound: requests waiting for the main task

StopKinds == {"Breakpoint", "Step"}

ASSUME ThreadsAssumption == NoThread \notin Threads
ASSUME CompositesAssumption == Composites \subseteq Seq(StopKinds) \ {<<>>}
ASSUME BoundsAssumption ==
    MaxSteps \in Nat /\ MaxEvents \in Nat /\ MaxRequests \in Nat

VARIABLES
    jvm,            \* "running", "suspended" or "dead"
    stepRequests,   \* the single-step requests registered in the JVM
    lastRequest,    \* id of the last single-step request granted
    eventRx,        \* events read from the connection, not yet handled
    session,        \* is there a session (Backend::session is Some)
    snapshot,       \* the thread DebugSession::snapshot stopped in
    pendingStep,    \* DebugSession::pending_step_request; 0 is None
    main,           \* the main task: where it is, and its locals
    loop,           \* the event loop: where it is, and its locals
    editor,         \* what the editor believes of the program
    inbox,          \* requests the editor sent, not yet handled
    single          \* never changes: does a suspension report one stop only?

jvmVars     == <<jvm, stepRequests, lastRequest>>
sessionVars == <<session, snapshot, pendingStep>>
editorVars  == <<editor, inbox>>
vars == <<jvmVars, eventRx, sessionVars, main, loop, editorVars, single>>

-----------------------------------------------------------------------------
(* Types.  Request id 0 stands for "none".                                 *)

StepRequest == [id : Nat \ {0}, thread : Threads]

Event == [kind : StopKinds \cup {"ClassPrepare", "Exception", "VmDeath"},
          thread : Threads \cup {NoThread},
          request : Nat]

MainPcs == {"idle", "continueClear", "stepClear", "stepSet", "stepStore",
            "resume"}
LoopPcs == {"select", "resume", "exceptionResume", "clear", "build",
            "announce", "ending", "done"}

MainIdle   == [pc |-> "idle", thread |-> NoThread, step |-> 0]
LoopAt(pc) == [pc |-> pc, thread |-> NoThread, step |-> 0, fired |-> 0]

(* The type invariant; a step about to be requested has its thread.        *)
TypeOK ==
    /\ jvm \in {"running", "suspended", "dead"}
    /\ stepRequests \subseteq StepRequest
    /\ lastRequest \in Nat
    /\ eventRx \in Seq(Event)
    /\ session \in BOOLEAN
    /\ snapshot \in Threads \cup {NoThread}
    /\ pendingStep \in Nat
    /\ main \in [pc : MainPcs, thread : Threads \cup {NoThread}, step : Nat]
    /\ main.pc \in {"stepClear", "stepSet"} => main.thread \in Threads
    /\ loop \in [pc : LoopPcs, thread : Threads \cup {NoThread},
                 step : Nat, fired : Nat]
    /\ editor \in {"configuring", "running", "stopped", "gone"}
    /\ inbox \in Seq({"configurationDone", "continue", "step", "disconnect"})
    /\ single \in BOOLEAN

(* The state do_launch leaves: the JVM was started with suspend=y, and the *)
(* session has just been stored.                                           *)
Init ==
    /\ jvm = "suspended"
    /\ stepRequests = {}
    /\ lastRequest = 0
    /\ eventRx = <<>>
    /\ session = TRUE
    /\ snapshot = NoThread
    /\ pendingStep = 0
    /\ main = MainIdle
    /\ loop = LoopAt("select")
    /\ editor = "configuring"
    /\ inbox = <<>>
    /\ single \in BOOLEAN

-----------------------------------------------------------------------------
(* The JVM.  Every event request has policy SUSPEND_ALL, so nothing fires  *)
(* while the JVM is suspended, and one packet may carry several events of  *)
(* the same location (a step that lands on a breakpoint).                  *)

\* Effect of the command VirtualMachine.Resume.
ResumeJvm == jvm' = IF jvm = "suspended" THEN "running" ELSE jvm

\* Effect of EventRequest.Clear(SingleStep, id).
ClearInJvm(id) == stepRequests' = {r \in stepRequests : r.id # id}

Suspend(events) ==
    /\ jvm = "running"
    /\ Len(eventRx) + Len(events) <= MaxEvents
    /\ jvm' = "suspended"
    /\ eventRx' = eventRx \o events
    /\ UNCHANGED <<stepRequests, lastRequest, sessionVars, main, loop,
                   editorVars>>

\* Thread t stops, reporting the kinds of c in their order.  A Step event is
\* reported only for a request that is live, on its own thread.
JvmStop(t) ==
    \E c \in Composites, id \in 0 .. lastRequest :
        /\ single => Len(c) = 1
        /\ (id = 0) <=> (\A i \in DOMAIN c : c[i] # "Step")
        /\ id # 0 => [id |-> id, thread |-> t] \in stepRequests
        /\ Suspend([i \in 1 .. Len(c) |->
                        [kind |-> c[i], thread |-> t,
                         request |-> IF c[i] = "Step" THEN id ELSE 0]])

JvmClassPrepare(t) ==
    Suspend(<<[kind |-> "ClassPrepare", thread |-> t, request |-> 0]>>)

JvmException(t) ==
    Suspend(<<[kind |-> "Exception", thread |-> t, request |-> 0]>>)

\* The process ends or the connection closes; the read loop passes on what it
\* had read, then VmDeath.
JvmDeath ==
    /\ jvm # "dead"
    /\ jvm' = "dead"
    /\ stepRequests' = {}
    /\ eventRx' = Append(eventRx, [kind |-> "VmDeath", thread |-> NoThread,
                                   request |-> 0])
    /\ UNCHANGED <<lastRequest, sessionVars, main, loop, editorVars>>

Jvm == /\ UNCHANGED single
       /\ \/ \E t \in Threads :
                 JvmStop(t) \/ JvmClassPrepare(t) \/ JvmException(t)
          \/ JvmDeath

-----------------------------------------------------------------------------
(* The editor: a client that respects DAP.  It configures once, resumes    *)
(* only a program it was told has stopped, and may leave at any time.      *)

Send(request) == inbox' = Append(inbox, request)

EditorConfigured ==
    /\ editor = "configuring"
    /\ editor' = "running"
    /\ Send("configurationDone")
    /\ UNCHANGED <<jvmVars, eventRx, sessionVars, main, loop>>

EditorResumes(request) ==
    /\ editor = "stopped"
    /\ Len(inbox) < MaxRequests
    /\ editor' = "running"
    /\ Send(request)
    /\ UNCHANGED <<jvmVars, eventRx, sessionVars, main, loop>>

EditorLeaves ==
    /\ editor # "gone"
    /\ editor' = "gone"
    /\ Send("disconnect")
    /\ UNCHANGED <<jvmVars, eventRx, sessionVars, main, loop>>

Editor == /\ UNCHANGED single
          /\ \/ EditorConfigured
             \/ EditorResumes("continue")
             \/ EditorResumes("step")
             \/ EditorLeaves

-----------------------------------------------------------------------------
(* The main task.                                                          *)

Receive(request) ==
    /\ main.pc = "idle"
    /\ inbox # <<>>
    /\ Head(inbox) = request
    /\ inbox' = Tail(inbox)

DropSession ==
    /\ session' = FALSE
    /\ snapshot' = NoThread
    /\ pendingStep' = 0

\* What the editor makes of a "stopped" event, or of an error response to a
\* step: the program is stopped.
EditorSeesStop == editor' = IF editor = "gone" THEN "gone" ELSE "stopped"

\* One action: the session lock is held until the JVM has answered.
HandleConfigurationDone ==
    /\ Receive("configurationDone")
    /\ IF session THEN ResumeJvm ELSE UNCHANGED jvm
    /\ UNCHANGED <<stepRequests, lastRequest, eventRx, sessionVars, main,
                   loop, editor>>

\* Mutant of ClearSnapshot: the snapshot of the last stop survives a resume.
KeepSnapshot == snapshot' = snapshot
ClearSnapshot == snapshot' = NoThread

\* The critical section of continue; the ok response was sent before it.
HandleContinue ==
    /\ Receive("continue")
    /\ IF session
       THEN /\ ClearSnapshot
            /\ pendingStep' = 0
            /\ main' = [main EXCEPT !.pc = IF pendingStep = 0 THEN "resume"
                                           ELSE "continueClear",
                                    !.step = pendingStep]
       ELSE UNCHANGED <<snapshot, pendingStep, main>>
    /\ UNCHANGED <<jvmVars, eventRx, session, loop, editor>>

\* Mutant of ContinueClear: the taken request is forgotten, never cleared.
ContinueForgets ==
    /\ main.pc = "continueClear"
    /\ main' = [main EXCEPT !.pc = "resume", !.step = 0]
    /\ UNCHANGED <<jvmVars, eventRx, sessionVars, loop, editorVars>>

ContinueClear ==
    /\ main.pc = "continueClear"
    /\ ClearInJvm(main.step)
    /\ main' = [main EXCEPT !.pc = "resume", !.step = 0]
    /\ UNCHANGED <<jvm, lastRequest, eventRx, sessionVars, loop, editorVars>>

\* Mutant of ThreadToStep: a step without a stopped thread is let through.
AnyThreadToStep == session
ThreadToStep == session /\ snapshot # NoThread

\* The critical section of next, stepIn and stepOut.
HandleStep ==
    /\ Receive("step")
    /\ IF ThreadToStep
       THEN /\ ClearSnapshot
            /\ pendingStep' = 0
            /\ main' = [pc     |-> IF pendingStep = 0 THEN "stepSet"
                                   ELSE "stepClear",
                        thread |-> snapshot,
                        step   |-> pendingStep]
            /\ UNCHANGED editor
       ELSE /\ EditorSeesStop         \* "no active debug session",
                                      \* "no stopped thread"
            /\ UNCHANGED <<snapshot, pendingStep, main>>
    /\ UNCHANGED <<jvmVars, eventRx, session, loop>>

\* Mutant of StepClear: registers the new request beside the old one.
StepKeepsOld ==
    /\ main.pc = "stepClear"
    /\ main' = [main EXCEPT !.pc = "stepSet", !.step = 0]
    /\ UNCHANGED <<jvmVars, eventRx, sessionVars, loop, editorVars>>

StepClear ==
    /\ main.pc = "stepClear"
    /\ ClearInJvm(main.step)
    /\ main' = [main EXCEPT !.pc = "stepSet", !.step = 0]
    /\ UNCHANGED <<jvm, lastRequest, eventRx, sessionVars, loop, editorVars>>

\* The JVM grants a request only on a thread without one.
StepSet ==
    /\ main.pc = "stepSet"
    /\ jvm # "dead"
    /\ lastRequest < MaxSteps
    /\ \A r \in stepRequests : r.thread # main.thread
    /\ lastRequest' = lastRequest + 1
    /\ stepRequests' = stepRequests \cup
                       {[id |-> lastRequest', thread |-> main.thread]}
    /\ main' = [main EXCEPT !.pc = "stepStore", !.step = lastRequest']
    /\ UNCHANGED <<jvm, eventRx, sessionVars, loop, editorVars>>

\* The JVM refuses (the thread has ended, the connection is lost): an error
\* response, and nothing is resumed.
StepSetFails ==
    /\ main.pc = "stepSet"
    /\ main' = MainIdle
    /\ EditorSeesStop
    /\ UNCHANGED <<jvmVars, eventRx, sessionVars, loop, inbox>>

\* Mutant of StepStore: the granted id is not remembered.
StepForgets ==
    /\ main.pc = "stepStore"
    /\ main' = [main EXCEPT !.pc = "resume"]
    /\ UNCHANGED <<jvmVars, eventRx, sessionVars, loop, editorVars>>

StepStore ==
    /\ main.pc = "stepStore"
    /\ pendingStep' = IF session THEN main.step ELSE pendingStep
    /\ main' = [main EXCEPT !.pc = "resume"]
    /\ UNCHANGED <<jvmVars, eventRx, session, snapshot, loop, editorVars>>

\* The last command of continue and of a step.
Resume ==
    /\ main.pc = "resume"
    /\ ResumeJvm
    /\ main' = MainIdle
    /\ UNCHANGED <<stepRequests, lastRequest, eventRx, sessionVars, loop,
                   editorVars>>

HandleDisconnect ==
    /\ Receive("disconnect")
    /\ DropSession
    /\ UNCHANGED <<jvmVars, eventRx, main, loop, editor>>

MainTask ==
    /\ UNCHANGED single
    /\ \/ HandleConfigurationDone \/ HandleContinue \/ ContinueClear
       \/ HandleStep \/ StepClear \/ StepSet \/ StepSetFails
       \/ StepStore \/ Resume \/ HandleDisconnect

-----------------------------------------------------------------------------
(* The event loop.  Every arm but VmDeath and Exception looks for the      *)
(* session first, and without one drops the event and leaves the JVM as it *)
(* is.                                                                     *)

Take(kind) ==
    /\ loop.pc = "select"
    /\ eventRx # <<>>
    /\ Head(eventRx).kind = kind
    /\ eventRx' = Tail(eventRx)

LoopWithoutSession ==
    /\ ~session
    /\ \E kind \in StopKinds \cup {"ClassPrepare"} : Take(kind)
    /\ UNCHANGED <<jvmVars, sessionVars, main, loop, editorVars>>

\* Mutant of LoopClassPrepare: a class without breakpoints is not resumed.
LoopIgnoresClass ==
    /\ session
    /\ Take("ClassPrepare")
    /\ UNCHANGED <<jvmVars, sessionVars, main, loop, editorVars>>

\* Installing breakpoints is the subject of module Breakpoints; here the
\* handler is what suspends nothing and resumes once.
LoopClassPrepare ==
    /\ session
    /\ Take("ClassPrepare")
    /\ loop' = LoopAt("resume")
    /\ UNCHANGED <<jvmVars, sessionVars, main, editorVars>>

LoopResume ==
    /\ loop.pc = "resume"
    /\ ResumeJvm
    /\ loop' = LoopAt("select")
    /\ UNCHANGED <<stepRequests, lastRequest, eventRx, sessionVars, main,
                   editorVars>>

\* The exception's class is queried, then the JVM is resumed under the lock.
LoopException ==
    /\ Take("Exception")
    /\ loop' = LoopAt("exceptionResume")
    /\ UNCHANGED <<jvmVars, sessionVars, main, editorVars>>

LoopExceptionResume ==
    /\ loop.pc = "exceptionResume"
    /\ IF session THEN ResumeJvm ELSE UNCHANGED jvm
    /\ loop' = LoopAt("select")
    /\ UNCHANGED <<stepRequests, lastRequest, eventRx, sessionVars, main,
                   editorVars>>

LoopBreakpoint ==
    /\ session
    /\ Take("Breakpoint")
    /\ loop' = [LoopAt("build") EXCEPT !.thread = Head(eventRx).thread]
    /\ UNCHANGED <<jvmVars, sessionVars, main, editorVars>>

\* Takes whatever request is pending: the event's own id is not looked at.
LoopStep ==
    /\ session
    /\ Take("Step")
    /\ pendingStep' = 0
    /\ loop' = [pc     |-> IF pendingStep = 0 THEN "build" ELSE "clear",
                thread |-> Head(eventRx).thread,
                step   |-> pendingStep,
                fired  |-> Head(eventRx).request]
    /\ UNCHANGED <<jvmVars, session, snapshot, main, editorVars>>

LoopClear ==
    /\ loop.pc = "clear"
    /\ ClearInJvm(loop.step)
    /\ loop' = [loop EXCEPT !.pc = "build"]
    /\ UNCHANGED <<jvm, lastRequest, eventRx, sessionVars, main, editorVars>>

\* build_snapshot issues its queries while loop.pc is "build"; this is the
\* critical section that stores what they returned.
LoopStore ==
    /\ loop.pc = "build"
    /\ snapshot' = IF session THEN loop.thread ELSE snapshot
    /\ loop' = [loop EXCEPT !.pc = "announce"]
    /\ UNCHANGED <<jvmVars, eventRx, session, pendingStep, main, editorVars>>

\* Mutant of LoopAnnounce: the "stopped" event is lost.
LoopSilent ==
    /\ loop.pc = "announce"
    /\ loop' = LoopAt("select")
    /\ UNCHANGED <<jvmVars, eventRx, sessionVars, main, editorVars>>

\* The "stopped" event.
LoopAnnounce ==
    /\ loop.pc = "announce"
    /\ EditorSeesStop
    /\ loop' = LoopAt("select")
    /\ UNCHANGED <<jvmVars, eventRx, sessionVars, main, inbox>>

\* Waits up to a second for the process to end.
LoopVmDeath ==
    /\ Take("VmDeath")
    /\ loop' = LoopAt("ending")
    /\ UNCHANGED <<jvmVars, sessionVars, main, editorVars>>

\* Mutant of LoopKill: the signal of a dropped session is not acted upon.
LoopDeafToKill == FALSE /\ UNCHANGED vars

\* The session was dropped, and kill_tx with it: kill the process.
LoopKill ==
    /\ loop.pc = "select"
    /\ ~session
    /\ jvm' = "dead"
    /\ stepRequests' = {}
    /\ loop' = LoopAt("ending")
    /\ UNCHANGED <<lastRequest, eventRx, sessionVars, main, editorVars>>

\* Drops the session and sends "terminated".
LoopEnd ==
    /\ loop.pc = "ending"
    /\ DropSession
    /\ loop' = LoopAt("done")
    /\ editor' = "gone"
    /\ UNCHANGED <<jvmVars, eventRx, main, inbox>>

EventLoop ==
    /\ UNCHANGED single
    /\ \/ LoopWithoutSession \/ LoopClassPrepare \/ LoopResume
       \/ LoopException \/ LoopExceptionResume \/ LoopBreakpoint
       \/ LoopStep \/ LoopClear \/ LoopStore \/ LoopAnnounce
       \/ LoopVmDeath \/ LoopKill \/ LoopEnd

-----------------------------------------------------------------------------
\* The debugging is over and every task is at rest.
Finished ==
    /\ jvm = "dead" /\ loop.pc = "done"
    /\ main.pc = "idle" /\ inbox = <<>> /\ editor = "gone"
    /\ UNCHANGED vars

Next == Jvm \/ Editor \/ MainTask \/ EventLoop \/ Finished

Spec == Init /\ [][Next]_vars

\* Both tasks are scheduled by the runtime as long as they can move.  Nothing
\* is assumed of the JVM or of the editor.
Fairness == WF_vars(MainTask) /\ WF_vars(EventLoop)

FairSpec == Spec /\ Fairness

-----------------------------------------------------------------------------
(* Safety.                                                                 *)

\* No step request is lost track of: while there is a session, a request the
\* JVM may still fire is the session's pending_step_request or is in the
\* hands of the task that is about to clear it or to store it.  This is what
\* the three `take()`s and the store of server.rs have to keep between them.
StepAccounted ==
    session => \A r \in stepRequests :
        \/ r.id = pendingStep
        \/ main.pc \in {"continueClear", "stepClear", "stepStore"}
              /\ main.step = r.id
        \/ loop.pc = "clear" /\ loop.step = r.id

\* No suspension is forgotten: while there is a session, a suspended JVM is
\* in the user's hands, or a task or a queue holds what will resume it or
\* hand it to the user.  Each arm of the event loop must resume or announce.
SuspensionAccounted ==
    session /\ jvm = "suspended" =>
        \/ editor \in {"configuring", "stopped"}
        \/ inbox # <<>>
        \/ main.pc # "idle"
        \/ eventRx # <<>>
        \/ loop.pc # "select"

\* What is shown to the user is a stopped program: while there is a session,
\* the JVM is not running while a snapshot is being built or announced, nor
\* as long as the session keeps one (server.rs:116, and build_snapshot's
\* requirement that the JVM be suspended).
SnapshotOfStoppedJvm ==
    session /\ (snapshot # NoThread \/ loop.pc \in {"build", "announce"})
        => jvm # "running"

\* The same, where a suspension reports one stop: the user cannot resume from
\* the first of two while the event loop still has the second.
SnapshotOfStoppedProgram == single => SnapshotOfStoppedJvm

\* A step event clears the request that fired, not a later one of the user -
\* where a suspension reports one stop.
StepClearsItsOwn == single /\ loop.pc = "clear" => loop.step = loop.fired

\* "Clear any outstanding step request so it does not fire after resume"
\* (server.rs:535): when continue resumes, no step request is live - where a
\* suspension reports one stop, so that the event loop holds none either.
NoStepAfterContinue ==
    single /\ main.pc = "resume" /\ main.step = 0 => stepRequests = {}

-----------------------------------------------------------------------------
(* What makes the two accounts inductive.                                  *)

\* While the main task holds a step request, or is about to store one, the
\* session has none: nothing it takes or overwrites is lost.
PendingTaken ==
    main.pc \in {"continueClear", "stepClear", "stepSet", "stepStore"} =>
        pendingStep = 0

\* An editor that has left said so last: its disconnect is still to come.
LeavingToCome ==
    session /\ editor = "gone" =>
        inbox # <<>> /\ inbox[Len(inbox)] = "disconnect"

StepInv == StepAccounted /\ PendingTaken
SuspensionInv == SuspensionAccounted /\ LeavingToCome

-----------------------------------------------------------------------------
(* Liveness.                                                               *)

\* A suspended program does not stay suspended behind the user's back: it
\* runs again, ends, or the editor is told, or the session is over.
SuspensionResolved ==
    (session /\ jvm = "suspended") ~>
        (~session \/ jvm # "suspended" \/ editor \in {"configuring", "stopped"})

\* When the editor leaves, the JVM does not survive it (server.rs:111, and the
\* doc of spawn_event_loop).
LeavingEndsJvm == (editor = "gone") ~> (jvm = "dead" /\ loop.pc = "done")

-----------------------------------------------------------------------------
(* What the user sees: module Debuggee.                                    *)

DebuggingOver == ~session \/ jvm = "dead" \/ editor = "gone"

Waiting(kinds) == {i \in DOMAIN eventRx : eventRx[i].kind \in kinds}

Sent(requests) == \E i \in DOMAIN inbox : inbox[i] \in requests

\* The events that the event loop only resumes from.
PauseKinds == {"ClassPrepare", "Exception"}

JustPaused == \/ loop.pc \in {"resume", "exceptionResume"}
              \/ Waiting(PauseKinds) # {}

ProgramSeen == IF DebuggingOver THEN "over"
               ELSE IF jvm = "running" THEN "running"
               ELSE IF JustPaused THEN "paused" ELSE "stopped"

\* The thread of a stop goes from the event to the event loop, from there to
\* the snapshot, and from the snapshot to the main task that steps it.
QueuedThreads == {eventRx[i].thread : i \in Waiting(StopKinds)}

ThreadSeen ==
    IF DebuggingOver THEN {}
    ELSE (QueuedThreads \cup {loop.thread, snapshot, main.thread}) \ {NoThread}

UserSeen == IF ~DebuggingOver /\ editor \in {"configuring", "stopped"}
            THEN "looking" ELSE "waiting"

\* An order is in the inbox, or being carried out by the main task; only a
\* step has a thread.
StepOrdered == main.thread # NoThread \/ Sent({"step"})
GoOrdered   == \/ main.pc # "idle" /\ main.thread = NoThread
               \/ Sent({"configurationDone", "continue"})

OrderSeen == IF DebuggingOver THEN "none"
             ELSE IF StepOrdered THEN "step"
             ELSE IF GoOrdered THEN "go" ELSE "none"

StepsSeen == IF DebuggingOver THEN {} ELSE {r.thread : r \in stepRequests}

User == INSTANCE Debuggee WITH
            program <- ProgramSeen, at <- ThreadSeen, user <- UserSeen,
            order <- OrderSeen, steps <- StepsSeen

\* Where a suspension reports one stop, the two tasks between them are the
\* debugger the user is promised: a stop is shown before it is resumed, and
\* the program runs again only by an order - a step with one request in force,
\* on the thread that was shown, a go with none.
IsDebuggee ==
    /\ single => User!DebuggeeInit
    /\ [][single => User!DebuggeeNext]_(User!debuggeeVars)

=============================================================================
