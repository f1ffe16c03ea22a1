------------------------------ MODULE Session ------------------------------
(***************************************************************************)
(* The life of debug sessions: launch, exceptions, the end of the JVM, the *)
(* editor's disconnect, a further launch, and the end of the server.       *)
(*                                                                         *)
(* The main task and the event loops share the session behind a mutex      *)
(* which they hold, in two places, while they wait for the JVM.  How long  *)
(* a JDWP call may take is the subject of module JdwpClient: a call        *)
(* returns while the connection is open or only just closed, and may wait  *)
(* for ever once the read loop has cleared the map of pending replies.     *)
(***************************************************************************)
EXTENDS Naturals, Sequences

CONSTANTS
    ExceptionClasses,   \* classes of uncaught exceptions
    NoException,        \* "none"
    MaxExceptions,      \* bound: uncaught exceptions, of all launches, by patient
    MaxLaunches         \* bound: launch requests

ASSUME ExceptionsAssumption ==
    NoException \notin ExceptionClasses /\ MaxExceptions \in [BOOLEAN -> Nat]
ASSUME LaunchesAssumption == MaxLaunches \in Nat \ {0}

VARIABLES
    \* Of each launch:
    proc,           \* the JVM's process: "none", "running" or "exited"
    conn,           \* "none", "open", "closed", or "cleared" by the read loop
    suspended,      \* is the JVM suspended
    eventRx,        \* exceptions and "VmDeath" on their way to its event loop
    loop,           \* where its event loop is; "none" before it is spawned
    queried,        \* the loop's class_sig, the event, and the JVM it asks
    raised,         \* of them all: the uncaught exceptions, in their order
    \* Of the server:
    launches,       \* launch requests handled so far; the last is the current
    lock,           \* who holds the session lock: "free", "main" or "loop"
    session,        \* the launch whose session it is, or 0
    exception,      \* DebugSession::pending_exception_class
    main,           \* where the main task is
    inbox,          \* requests not yet handled
    \* Of the editor:
    editor,         \* "new", "launching", "launched", "configured", "left" or
                    \* "closed": it has closed the server's stdin
    patient,        \* never changes: does it await terminated before it
                    \* launches again or closes stdin?
    terminated,     \* the terminated events sent
    \* History:
    dropped,        \* the launches whose session a disconnect has dropped
    letGo           \* the launches whose process the server has let go

jvmVars     == <<proc, conn, suspended, raised>>
sessionVars == <<session, exception>>
loopVars    == <<loop, queried>>
historyVars == <<dropped, letGo>>
vars == <<jvmVars, eventRx, loopVars, launches, lock, sessionVars, main, inbox,
          editor, patient, terminated, historyVars>>

-----------------------------------------------------------------------------
Launches   == 1 .. MaxLaunches
Exceptions == ExceptionClasses \cup {NoException}
NoQuery    == [event |-> NoException, class |-> NoException, jvm |-> 0]

MainPcs == {"idle", "building", "connecting", "registering", "storing",
            "responding", "configuring", "leaving", "hung", "returned"}
OwningPcs == {"select", "query", "set", "resume", "exiting", "hung"}
LoopPcs == OwningPcs \cup {"none", "ending", "reporting", "done", "cancelled"}

(* The type invariant; the lock is held by who is waiting under it.        *)
TypeOK ==
    /\ proc \in [Launches -> {"none", "running", "exited"}]
    /\ conn \in [Launches -> {"none", "open", "closed", "cleared"}]
    /\ suspended \in [Launches -> BOOLEAN]
    /\ raised \in Seq([launch : Launches, class : ExceptionClasses])
    /\ eventRx \in [Launches -> Seq(Exceptions \cup {"VmDeath"})]
    /\ loop \in [Launches -> LoopPcs]
    /\ queried \in [Launches -> [event : Exceptions, class : Exceptions,
                                 jvm : 0 .. MaxLaunches]]
    /\ launches \in 0 .. MaxLaunches
    /\ lock \in {"free", "main", "loop"}
    /\ lock = "main" => main \in {"configuring", "hung"}
    /\ lock = "loop" => \E n \in Launches : loop[n] \in {"resume", "hung"}
    /\ session \in 0 .. launches
    /\ exception \in Exceptions
    /\ main \in MainPcs
    /\ inbox \in Seq({"launch", "configurationDone", "disconnect"})
    /\ editor \in {"new", "launching", "launched", "configured", "left",
                   "closed"}
    /\ patient \in BOOLEAN
    /\ terminated \in Seq([by : {"launch", "loop", "disconnect"},
                           launch : 0 .. MaxLaunches, cause : Exceptions])
    /\ dropped \subseteq Launches /\ letGo \subseteq Launches

\* The server has started.
Init ==
    /\ proc = [n \in Launches |-> "none"]
    /\ conn = [n \in Launches |-> "none"]
    /\ suspended = [n \in Launches |-> FALSE]
    /\ raised = <<>>
    /\ eventRx = [n \in Launches |-> <<>>]
    /\ loop = [n \in Launches |-> "none"]
    /\ queried = [n \in Launches |-> NoQuery]
    /\ launches = 0 /\ lock = "free"
    /\ session = 0 /\ exception = NoException
    /\ main = "idle" /\ inbox = <<>>
    /\ editor = "new" /\ patient \in BOOLEAN /\ terminated = <<>>
    /\ dropped = {} /\ letGo = {}

-----------------------------------------------------------------------------
(* The JVM.  The connection closes when the process ends, or before it.    *)

\* The classes are alike: which of them is the first makes no difference.
JvmRaises(n, c) ==
    /\ conn[n] = "open" /\ ~suspended[n] /\ Len(raised) < MaxExceptions[patient]
    /\ raised = <<>> => c = CHOOSE d \in ExceptionClasses : TRUE
    /\ suspended' = [suspended EXCEPT ![n] = TRUE]
    /\ raised' = Append(raised, [launch |-> n, class |-> c])
    /\ eventRx' = [eventRx EXCEPT ![n] = Append(@, c)]
    /\ UNCHANGED <<proc, conn, loopVars, launches, lock, sessionVars, main,
                   inbox, editor, patient, terminated, historyVars>>

\* The connection of n as the end of its process, or the JVM, leaves it.
Closed(n) == [conn EXCEPT ![n] = IF @ = "open" THEN "closed" ELSE @]

JvmCloses(n) ==
    /\ conn[n] = "open"
    /\ conn' = Closed(n)
    /\ UNCHANGED <<proc, suspended, raised, eventRx, loopVars, launches, lock,
                   sessionVars, main, inbox, editor, patient, terminated,
                   historyVars>>

JvmExits(n) ==
    /\ proc[n] = "running"
    /\ proc' = [proc EXCEPT ![n] = "exited"]
    /\ conn' = Closed(n)
    /\ UNCHANGED <<suspended, raised, eventRx, loopVars, launches, lock,
                   sessionVars, main, inbox, editor, patient, terminated,
                   historyVars>>

\* The read loop: the pending replies are cleared, then VmDeath is passed on.
ReadLoopCloses(n) ==
    /\ conn[n] = "closed" /\ main # "returned"
    /\ conn' = [conn EXCEPT ![n] = "cleared"]
    /\ eventRx' = [eventRx EXCEPT ![n] = Append(@, "VmDeath")]
    /\ UNCHANGED <<proc, suspended, raised, loopVars, launches, lock,
                   sessionVars, main, inbox, editor, patient, terminated,
                   historyVars>>

\* A call that is issued now to the JVM of n may never return.
MayHang(n) == conn[n] = "cleared"

\* What VirtualMachine.Resume does, if it still reaches the JVM of n.
ResumeJvm(n) == suspended' = [suspended EXCEPT ![n] = @ /\ conn[n] # "open"]

-----------------------------------------------------------------------------
(* The editor: it launches, configures once per launch, and leaves when it *)
(* likes.  A patient one waits for the terminated event of a launch before *)
(* the next, and closes stdin last of all.                                 *)

\* A terminated event of the last launch has been sent.
Told ==
    /\ \A i \in DOMAIN inbox : inbox[i] # "launch"
    /\ \E i \in DOMAIN terminated : terminated[i].launch = launches

EditorSends(to, request) ==
    /\ editor' = to
    /\ inbox' = Append(inbox, request)
    /\ UNCHANGED <<jvmVars, eventRx, loopVars, launches, lock, sessionVars,
                   main, patient, terminated, historyVars>>

EditorLaunches ==
    /\ launches < MaxLaunches
    /\ \/ editor = "new"
       \/ editor \in {"launched", "configured"} /\ (patient => Told)
    /\ EditorSends("launching", "launch")

EditorConfigures ==
    editor = "launched" /\ EditorSends("configured", "configurationDone")

EditorLeaves ==
    editor \notin {"left", "closed"} /\ EditorSends("left", "disconnect")

EditorCloses ==
    /\ editor # "closed"
    /\ patient => editor = "left" /\ Told
    /\ editor' = "closed"
    /\ UNCHANGED <<jvmVars, eventRx, loopVars, launches, lock, sessionVars,
                   main, inbox, patient, terminated, historyVars>>

Editor == EditorLaunches \/ EditorConfigures \/ EditorLeaves \/ EditorCloses

-----------------------------------------------------------------------------
(* launch.                                                                 *)

Receive(request) ==
    /\ main = "idle"
    /\ inbox # <<>>
    /\ Head(inbox) = request
    /\ inbox' = Tail(inbox)

Terminated(by, n, cause) ==
    terminated' = Append(terminated, [by |-> by, launch |-> n, cause |-> cause])

HandleLaunch ==
    /\ Receive("launch")
    /\ main' = "building"
    /\ launches' = launches + 1
    /\ UNCHANGED <<jvmVars, eventRx, loopVars, lock, sessionVars, editor,
                   patient, terminated, historyVars>>

\* Build, source roots, main class, class path and source map are ready (see
\* module Project), and the process has been spawned.
Spawn ==
    /\ main = "building"
    /\ main' = "connecting"
    /\ proc' = [proc EXCEPT ![launches] = "running"]
    /\ suspended' = [suspended EXCEPT ![launches] = TRUE]
    /\ UNCHANGED <<conn, raised, eventRx, loopVars, launches, lock,
                   sessionVars, inbox, editor, patient, terminated,
                   historyVars>>

\* The JVM has advertised its port, and the handshake is done.
Connect ==
    /\ main = "connecting" /\ proc[launches] = "running"
    /\ main' = "registering"
    /\ conn' = [conn EXCEPT ![launches] = "open"]
    /\ UNCHANGED <<proc, suspended, raised, eventRx, loopVars, launches, lock,
                   sessionVars, inbox, editor, patient, terminated,
                   historyVars>>

\* The id sizes, and the ClassPrepare and exception requests; only the second
\* has to succeed.
Register ==
    /\ main = "registering"
    /\ main' = "storing"
    /\ UNCHANGED <<jvmVars, eventRx, loopVars, launches, lock, sessionVars,
                   inbox, editor, patient, terminated, historyVars>>

RegisterHangs ==
    /\ main = "registering" /\ MayHang(launches)
    /\ main' = "hung"
    /\ UNCHANGED <<jvmVars, eventRx, loopVars, launches, lock, sessionVars,
                   inbox, editor, patient, terminated, historyVars>>

\* The editor has the response to its launch.
LaunchAnswered ==
    editor' = IF editor = "launching" THEN "launched" ELSE editor

\* Any step of the launch may fail: an error response and a terminated event.
\* A process that was spawned is neither killed nor waited for.
LaunchFails ==
    /\ main \in {"building", "connecting", "registering"}
    /\ main = "registering" => conn[launches] # "open"
    /\ main' = "idle"
    /\ letGo' = IF proc[launches] = "running" THEN letGo \cup {launches}
                ELSE letGo
    /\ Terminated("launch", launches, NoException)
    /\ LaunchAnswered
    /\ UNCHANGED <<jvmVars, eventRx, loopVars, launches, lock, sessionVars,
                   inbox, patient, dropped>>

\* Mutant of SpawnEventLoop: the session is left without an event loop.
SpawnNothing == UNCHANGED loop
SpawnEventLoop == loop' = [loop EXCEPT ![launches] = "select"]

\* A session that is still there is replaced, and its kill_tx dropped.
StoreSession ==
    /\ main = "storing" /\ lock = "free"
    /\ session' = launches
    /\ exception' = NoException
    /\ SpawnEventLoop
    /\ main' = "responding"
    /\ UNCHANGED <<jvmVars, eventRx, queried, launches, lock, inbox, editor,
                   patient, terminated, historyVars>>

RespondToLaunch ==
    /\ main = "responding"
    /\ main' = "idle"
    /\ LaunchAnswered
    /\ UNCHANGED <<jvmVars, eventRx, loopVars, launches, lock, sessionVars,
                   inbox, patient, terminated, historyVars>>

-----------------------------------------------------------------------------
(* configurationDone, disconnect and the end of stdin.                     *)

\* Locks the session, and keeps it locked while the JVM is resumed.
HandleConfigurationDone ==
    /\ lock = "free"
    /\ Receive("configurationDone")
    /\ IF session # 0 THEN main' = "configuring" /\ lock' = "main"
                      ELSE UNCHANGED <<main, lock>>
    /\ UNCHANGED <<jvmVars, eventRx, loopVars, launches, sessionVars, editor,
                   patient, terminated, historyVars>>

\* Mutant of Unlock: the lock is kept.
StayLocked == UNCHANGED lock
Unlock == lock' = "free"

ConfigurationResume ==
    /\ main = "configuring"
    /\ ResumeJvm(session)
    /\ Unlock
    /\ main' = "idle"
    /\ UNCHANGED <<proc, conn, raised, eventRx, loopVars, launches,
                   sessionVars, inbox, editor, patient, terminated,
                   historyVars>>

ConfigurationHangs ==
    /\ main = "configuring" /\ MayHang(session)
    /\ main' = "hung"
    /\ UNCHANGED <<jvmVars, eventRx, loopVars, launches, lock, sessionVars,
                   inbox, editor, patient, terminated, historyVars>>

\* Drops the session; the kill signal goes with it.
HandleDisconnect ==
    /\ lock = "free"
    /\ Receive("disconnect")
    /\ main' = IF session # 0 THEN "idle" ELSE "leaving"
    /\ dropped' = dropped \cup ({session} \ {0})
    /\ session' = 0
    /\ exception' = NoException
    /\ UNCHANGED <<jvmVars, eventRx, loopVars, launches, lock, editor, patient,
                   terminated, letGo>>

\* Mutant of TerminateDirectly: nothing is sent without a session.
LeaveSilently ==
    /\ main = "leaving"
    /\ main' = "idle"
    /\ UNCHANGED <<jvmVars, eventRx, loopVars, launches, lock, sessionVars,
                   inbox, editor, patient, terminated, historyVars>>

\* There was no session: the main task sends terminated itself.
TerminateDirectly ==
    /\ main = "leaving"
    /\ main' = "idle"
    /\ Terminated("disconnect", launches, NoException)
    /\ UNCHANGED <<jvmVars, eventRx, loopVars, launches, lock, sessionVars,
                   inbox, editor, patient, historyVars>>

\* The read error ends main, and the runtime takes every task with it.  The
\* child processes are not killed: they are not spawned with kill_on_drop.
MainReturns ==
    /\ main = "idle" /\ inbox = <<>> /\ editor = "closed"
    /\ main' = "returned"
    /\ loop' = [n \in Launches |-> IF loop[n] \in {"none", "done"}
                                   THEN loop[n] ELSE "cancelled"]
    /\ lock' = "free" /\ session' = 0 /\ exception' = NoException
    /\ conn' = [n \in Launches |-> IF conn[n] = "open" THEN "closed"
                                   ELSE conn[n]]
    /\ UNCHANGED <<proc, suspended, raised, eventRx, queried, launches, inbox,
                   editor, patient, terminated, historyVars>>

MainTask == \/ HandleLaunch \/ Spawn \/ Connect \/ Register \/ RegisterHangs
            \/ LaunchFails \/ StoreSession \/ RespondToLaunch
            \/ HandleConfigurationDone \/ ConfigurationResume
            \/ ConfigurationHangs \/ HandleDisconnect \/ TerminateDirectly
            \/ MainReturns

-----------------------------------------------------------------------------
(* The event loop of launch n.  It finds whatever session there is.        *)

LoopMoves(n, from, to) == loop[n] = from /\ loop' = [loop EXCEPT ![n] = to]

\* Mutant of Unseen: a later exception replaces the first.
AlwaysUnseen == TRUE
Unseen == exception = NoException

\* The first critical section of ExceptionUncaught: only the first exception
\* of a session is looked into.
TakeException(n) ==
    /\ lock = "free"
    /\ eventRx[n] # <<>> /\ Head(eventRx[n]) \in ExceptionClasses
    /\ eventRx' = [eventRx EXCEPT ![n] = Tail(@)]
    /\ queried' = [queried EXCEPT ![n] = [event |-> Head(eventRx[n]),
                                          class |-> NoException,
                                          jvm |-> session]]
    /\ LoopMoves(n, "select", IF session # 0 /\ Unseen THEN "query" ELSE "set")
    /\ UNCHANGED <<jvmVars, launches, lock, sessionVars, main, inbox, editor,
                   patient, terminated, historyVars>>

\* What the session's JVM says of the class of the exception: nothing, if the
\* connection has gone; anything, if it is not the JVM that raised it.
ClassesSaid(n) ==
    CASE conn[queried[n].jvm] # "open" -> {NoException}
      [] queried[n].jvm # n            -> Exceptions
      [] OTHER                         -> {queried[n].event}

\* Two calls, without the lock; an error leaves the class unknown.
QueryClass(n) ==
    /\ LoopMoves(n, "query", "set")
    /\ \E c \in ClassesSaid(n) : queried' = [queried EXCEPT ![n].class = c]
    /\ UNCHANGED <<jvmVars, eventRx, launches, lock, sessionVars, main, inbox,
                   editor, patient, terminated, historyVars>>

\* The second critical section, kept while the JVM is resumed.
SetException(n) ==
    /\ lock = "free"
    /\ exception' = IF session # 0 /\ Unseen THEN queried[n].class
                    ELSE exception
    /\ lock' = IF session # 0 THEN "loop" ELSE lock
    /\ LoopMoves(n, "set", IF session # 0 THEN "resume" ELSE "select")
    /\ queried' = [queried EXCEPT ![n] = NoQuery]
    /\ UNCHANGED <<jvmVars, eventRx, launches, session, main, inbox, editor,
                   patient, terminated, historyVars>>

ExceptionResume(n) ==
    /\ LoopMoves(n, "resume", "select")
    /\ ResumeJvm(session)
    /\ Unlock
    /\ UNCHANGED <<proc, conn, raised, eventRx, queried, launches, sessionVars,
                   main, inbox, editor, patient, terminated, historyVars>>

LoopHangs(n) ==
    /\ \/ LoopMoves(n, "query", "hung") /\ MayHang(queried[n].jvm)
       \/ LoopMoves(n, "resume", "hung") /\ MayHang(session)
    /\ UNCHANGED <<jvmVars, eventRx, queried, launches, lock, sessionVars,
                   main, inbox, editor, patient, terminated, historyVars>>

TakeVmDeath(n) ==
    /\ eventRx[n] # <<>> /\ Head(eventRx[n]) = "VmDeath"
    /\ eventRx' = [eventRx EXCEPT ![n] = Tail(@)]
    /\ LoopMoves(n, "select", "exiting")
    /\ UNCHANGED <<jvmVars, queried, launches, lock, sessionVars, main, inbox,
                   editor, patient, terminated, historyVars>>

\* At most a second for the process to exit; one that has not is let go.
AwaitExit(n) ==
    /\ LoopMoves(n, "exiting", "ending")
    /\ letGo' = IF proc[n] = "running" THEN letGo \cup {n} ELSE letGo
    /\ UNCHANGED <<jvmVars, eventRx, queried, launches, lock, sessionVars,
                   main, inbox, editor, patient, terminated, dropped>>

\* Mutant of Kill: the event loop ends, but the process does not.
KillNobody(n) ==
    /\ session # n
    /\ LoopMoves(n, "select", "ending")
    /\ UNCHANGED <<jvmVars, eventRx, queried, launches, lock, sessionVars,
                   main, inbox, editor, patient, terminated, historyVars>>

\* The session of n, and kill_tx with it, was dropped.
Kill(n) ==
    /\ session # n
    /\ proc' = [proc EXCEPT ![n] = "exited"]
    /\ conn' = Closed(n)
    /\ LoopMoves(n, "select", "ending")
    /\ UNCHANGED <<suspended, raised, eventRx, queried, launches, lock,
                   sessionVars, main, inbox, editor, patient, terminated,
                   historyVars>>

\* Mutant of EndSession: terminated is sent before the session is dropped.
EndSessionLate(n) ==
    \/ /\ Terminated("loop", n, exception)
       /\ LoopMoves(n, "ending", "reporting")
       /\ UNCHANGED <<jvmVars, eventRx, queried, launches, lock, sessionVars,
                      main, inbox, editor, patient, historyVars>>
    \/ /\ lock = "free"
       /\ session' = 0 /\ exception' = NoException
       /\ LoopMoves(n, "reporting", "done")
       /\ UNCHANGED <<jvmVars, eventRx, queried, launches, lock, main, inbox,
                      editor, patient, terminated, historyVars>>

\* The exception is taken, and the session - whoever's it is - dropped.
EndSession(n) ==
    /\ lock = "free"
    /\ queried' = [queried EXCEPT ![n] = [NoQuery EXCEPT !.class = exception]]
    /\ session' = 0
    /\ exception' = NoException
    /\ LoopMoves(n, "ending", "reporting")
    /\ UNCHANGED <<jvmVars, eventRx, launches, lock, main, inbox, editor,
                   patient, terminated, historyVars>>

\* Mutant of Report: the terminated event is not sent.
ReportNothing(n) ==
    /\ LoopMoves(n, "reporting", "done")
    /\ queried' = [queried EXCEPT ![n] = NoQuery]
    /\ UNCHANGED <<jvmVars, eventRx, launches, lock, sessionVars, main, inbox,
                   editor, patient, terminated, historyVars>>

\* The terminated event; derive_termination_cause names the exception class.
Report(n) ==
    /\ Terminated("loop", n, queried[n].class)
    /\ LoopMoves(n, "reporting", "done")
    /\ queried' = [queried EXCEPT ![n] = NoQuery]
    /\ UNCHANGED <<jvmVars, eventRx, launches, lock, sessionVars, main, inbox,
                   editor, patient, historyVars>>

EventLoop(n) ==
    \/ TakeException(n) \/ QueryClass(n) \/ SetException(n)
    \/ ExceptionResume(n) \/ LoopHangs(n) \/ TakeVmDeath(n) \/ AwaitExit(n)
    \/ Kill(n) \/ EndSession(n) \/ Report(n)

-----------------------------------------------------------------------------
Next == \/ \E n \in Launches :
               \/ \E c \in ExceptionClasses : JvmRaises(n, c)
               \/ JvmCloses(n) \/ JvmExits(n) \/ ReadLoopCloses(n)
               \/ EventLoop(n)
        \/ Editor \/ MainTask

Spec == Init /\ [][Next]_vars

\* The tasks are scheduled whenever they can move.  The editor may stay and
\* the JVM may live for ever.
Fairness == /\ WF_vars(MainTask)
            /\ \A n \in Launches : WF_vars(EventLoop(n)) /\ WF_vars(ReadLoopCloses(n))

FairSpec == Spec /\ Fairness

-----------------------------------------------------------------------------
(* Properties.                                                             *)

\* The program of launch n raised an exception of class c before any other.
IsFirst(n, c) ==
    \E i \in DOMAIN raised : /\ raised[i] = [launch |-> n, class |-> c]
                             /\ \A j \in 1 .. (i - 1) : raised[j].launch # n

\* The cause reported for the end of a program is the first uncaught exception
\* it raised, or none - never a later one ("keep first exception",
\* server.rs:873), nor another program's, if the editor is patient.
CauseIsFirstException ==
    patient => \A i \in DOMAIN terminated :
        terminated[i].cause # NoException =>
            IsFirst(terminated[i].launch, terminated[i].cause)

\* The session and the JVM are never left alone: a session has an event loop
\* that has not ended, so that the end of its JVM will still be seen, and a
\* running JVM has an owner - the launch in progress, or an event loop that has
\* not ended - unless the server ended, or let it go: when its launch failed
\* after the spawn, or it outlived the second that AwaitExit gives it.
JvmIsOwned ==
    /\ session # 0 => loop[session] \in OwningPcs \cup {"ending"}
    /\ \A n \in Launches :
           proc[n] = "running" /\ main # "returned" /\ n \notin letGo =>
               (n = launches /\ loop[n] = "none") \/ loop[n] \in OwningPcs

Hung == main = "hung" \/ \E n \in Launches : loop[n] = "hung"

ToldOf(n) == \E i \in DOMAIN terminated : terminated[i].launch = n

\* The end of a JVM is reported to the editor, unless a task hangs in a JDWP
\* call that it issued too late, or the server itself ends.
DeathIsReported ==
    \A n \in Launches : (session = n /\ conn[n] = "cleared") ~>
                            (ToldOf(n) \/ Hung \/ main = "returned")

\* An editor that leaves is told that the debugging has ended, whether its
\* disconnect comes before, during or after the launch or the end.
LeavingIsAnswered ==
    (editor = "left") ~> \/ Told /\ main = "idle" /\ inbox = <<>>
                         \/ Hung \/ main = "returned"

\* The JVM closed its connection, and its process was still there when the second
\* that the event loop waits for it was over (server.rs:853): it was let go.
Outlived(n) == n \in letGo /\ conn[n] = "cleared"

\* A disconnect takes the JVM with it (server.rs:1171) - in all cases but three.
\* The editor may close stdin before it is told so.  A task may hang in a JDWP call
\* that it issued too late.  And the JVM may have closed its connection: the event
\* loop then waits for the process, does not see the signal of a disconnect that
\* comes now, and lets a process go that outlives the wait.  NoJvmLeft excepts
\* neither the first nor the last of them, and fails.
DisconnectKills ==
    \A n \in Launches :
        (n \in dropped /\ patient) ~> (proc[n] = "exited" \/ Outlived(n) \/ Hung)

\* A session ends by its own event loop or by a disconnect, if the editor is
\* patient: the loop of an earlier launch does not take it away.
OnlyItsOwnEnd ==
    [][patient /\ session # 0 /\ session' # session =>
           \/ loop'[session] # loop[session]
           \/ session \in dropped' \/ main' = "returned"]_vars

\* "Dropping kill_tx signals the event-loop task to kill the JVM"
\* (server.rs:1171): when the event loop of a session that a disconnect has dropped
\* is over, by itself or with the server, the JVM is no longer running.
NoJvmLeft ==
    \A n \in dropped : loop[n] \in {"done", "cancelled"} => proc[n] # "running"

=============================================================================
