--------------------------- MODULE SessionProofs ---------------------------
(***************************************************************************)
(* Theorems about module Session, for any number of launches and of        *)
(* exceptions.                                                             *)
(***************************************************************************)
EXTENDS Session, SequenceTheorems, TLAPS

-----------------------------------------------------------------------------
(* The inductive invariant.                                                *)

Starting  == {"building", "connecting", "registering", "storing"}
Launching == Starting \cup {"responding"}
Requests  == {"launch", "configurationDone", "disconnect"}

\* The editor has one launch at a time in progress: it is in the inbox or in
\* the hands of the main task, and the editor awaits its response or has gone.
OneLaunch ==
    /\ \A i \in DOMAIN inbox : inbox[i] = "launch" =>
           /\ launches < MaxLaunches
           /\ main \notin Launching
           /\ editor \in {"launching", "left", "closed"}
           /\ \A j \in DOMAIN inbox : inbox[j] = "launch" => i = j
    /\ main \in Launching =>
           launches \in Launches /\ editor \in {"launching", "left", "closed"}

\* The launch in progress has no event loop yet, and those to come have nothing.
NothingAhead ==
    /\ main \in Starting => loop[launches] = "none"
    /\ \A n \in Launches : n > launches => loop[n] = "none" /\ proc[n] # "running"

\* A running JVM without an event loop is that of the launch in progress, or
\* has been let go.
Owned ==
    /\ session # 0 => loop[session] \in OwningPcs \cup {"ending"}
    /\ \A n \in Launches :
           proc[n] = "running" /\ main # "returned" /\ n \notin letGo =>
               \/ /\ n = launches /\ loop[n] = "none"
                  /\ main \in Starting \cup {"hung"}
               \/ loop[n] \in OwningPcs

SessionInv == TypeOK /\ OneLaunch /\ NothingAhead /\ Owned

-----------------------------------------------------------------------------
(* The JVM and the event loops.                                            *)

\* What owns a JVM is not disturbed by the end of a process.
LEMMA Quiet ==
    ASSUME OneLaunch, NothingAhead, Owned,
           UNCHANGED <<loop, launches, session, main, inbox, editor, letGo>>,
           \A n \in Launches : proc'[n] = "running" => proc[n] = "running"
    PROVE  OneLaunch' /\ NothingAhead' /\ Owned'
<1>1. OneLaunch'
  BY DEF OneLaunch, Launches
<1>2. NothingAhead' /\ Owned'
  BY DEF NothingAhead, Owned, Launches, OwningPcs, Launching, Starting
<1> QED
  BY <1>1, <1>2

\* An event loop gives up its JVM only when it has ended or is let go, and its
\* session only by ending it.
LEMMA LoopKeeps ==
    ASSUME OneLaunch, NothingAhead, Owned, loop \in [Launches -> LoopPcs],
           NEW n \in Launches, NEW from, NEW to, LoopMoves(n, from, to),
           from # "none", to # "none",
           UNCHANGED <<launches, main, inbox, editor>>,
           letGo \subseteq letGo',
           \A m \in Launches : proc'[m] = "running" => proc[m] = "running",
           session' # 0 =>
               /\ session' = session
               /\ to \in OwningPcs \cup {"ending"}
                      \/ from \notin OwningPcs \cup {"ending"},
           \/ to \in OwningPcs \/ from \notin OwningPcs
           \/ proc'[n] # "running" \/ n \in letGo'
    PROVE  OneLaunch' /\ NothingAhead' /\ Owned'
<1>1. /\ loop[n] = from /\ loop'[n] = to
      /\ \A m \in Launches \ {n} : loop'[m] = loop[m]
  BY DEF LoopMoves
<1>2. OneLaunch'
  BY DEF OneLaunch, Launches
<1>3. NothingAhead'
  BY <1>1 DEF NothingAhead, OneLaunch, Launching, Starting, Launches
<1>4. session' # 0 => loop'[session'] \in OwningPcs \cup {"ending"}
  BY <1>1 DEF Owned, LoopMoves
<1>5. ASSUME NEW m \in Launches, proc'[m] = "running", main' # "returned",
             m \notin letGo'
      PROVE  \/ /\ m = launches' /\ loop'[m] = "none"
                /\ main' \in Starting \cup {"hung"}
             \/ loop'[m] \in OwningPcs
  <2>1. \/ /\ m = launches /\ loop[m] = "none"
           /\ main \in Starting \cup {"hung"}
        \/ loop[m] \in OwningPcs
    BY <1>5 DEF Owned
  <2> QED
    BY <1>1, <1>5, <2>1
<1>6. Owned'
  BY <1>4, <1>5 DEF Owned, Launches, Launching, Starting, OwningPcs
<1> QED
  BY <1>2, <1>3, <1>6

LEMMA InvJvm ==
    ASSUME SessionInv, NEW n \in Launches,
           \/ \E c \in ExceptionClasses : JvmRaises(n, c)
           \/ JvmCloses(n) \/ JvmExits(n) \/ ReadLoopCloses(n)
    PROVE  SessionInv'
<1> USE DEF SessionInv
<1>1. /\ UNCHANGED <<loop, queried, launches, lock, session, exception, main,
                     inbox, editor, patient, terminated, dropped, letGo>>
      /\ proc' \in [Launches -> {"none", "running", "exited"}]
      /\ \A m \in Launches : proc'[m] = "running" => proc[m] = "running"
      /\ conn' \in [Launches -> {"none", "open", "closed", "cleared"}]
      /\ suspended' \in [Launches -> BOOLEAN]
  BY DEF JvmRaises, JvmCloses, JvmExits, ReadLoopCloses, Closed, TypeOK, loopVars,
         sessionVars, historyVars
<1>2. /\ raised' \in Seq([launch : Launches, class : ExceptionClasses])
      /\ eventRx' \in [Launches -> Seq(Exceptions \cup {"VmDeath"})]
  <2>1. /\ raised \in Seq([launch : Launches, class : ExceptionClasses])
        /\ eventRx \in [Launches -> Seq(Exceptions \cup {"VmDeath"})]
    BY DEF TypeOK
  <2>2. ASSUME NEW c \in ExceptionClasses, JvmRaises(n, c)
        PROVE  /\ raised' \in Seq([launch : Launches, class : ExceptionClasses])
               /\ eventRx' \in [Launches -> Seq(Exceptions \cup {"VmDeath"})]
    BY <2>1, <2>2, AppendProperties DEF JvmRaises, Exceptions
  <2>3. CASE ReadLoopCloses(n)
    BY <2>1, <2>3, AppendProperties DEF ReadLoopCloses
  <2> QED
    BY <2>1, <2>2, <2>3 DEF JvmCloses, JvmExits
<1>3. TypeOK'
  BY <1>1, <1>2 DEF TypeOK
<1> QED
  BY <1>1, <1>3, Quiet

\* The event loop of launch n.
LEMMA InvLoop ==
    ASSUME SessionInv, NEW n \in Launches, EventLoop(n)
    PROVE  SessionInv'
<1> USE DEF SessionInv
<1>1. CASE TakeException(n)
  <2>1. /\ eventRx' \in [Launches -> Seq(Exceptions \cup {"VmDeath"})]
        /\ Head(eventRx[n]) \in Exceptions
    BY <1>1, HeadTailProperties DEF TakeException, TypeOK, Exceptions
  <2>2. queried' \in [Launches -> [event : Exceptions, class : Exceptions,
                                   jvm : 0 .. MaxLaunches]]
    BY <1>1, <2>1, LaunchesAssumption
       DEF TakeException, TypeOK, Exceptions, Launches
  <2>3. PICK to \in {"query", "set"} : LoopMoves(n, "select", to)
    BY <1>1 DEF TakeException
  <2>4. TypeOK'
    BY <1>1, <2>1, <2>2, <2>3
       DEF TypeOK, TakeException, LoopMoves, jvmVars, sessionVars, historyVars,
           LoopPcs, OwningPcs
  <2> QED
    BY <1>1, <2>3, <2>4, LoopKeeps
       DEF TakeException, jvmVars, sessionVars, historyVars, OwningPcs, TypeOK
<1>2. CASE QueryClass(n)
  <2>1. \E c \in Exceptions : queried' = [queried EXCEPT ![n].class = c]
    BY <1>2 DEF QueryClass, ClassesSaid, TypeOK, Exceptions
  <2>2. TypeOK'
    BY <1>2, <2>1
       DEF TypeOK, QueryClass, LoopMoves, jvmVars, sessionVars, historyVars,
           LoopPcs, OwningPcs
  <2> QED
    BY <1>2, <2>2, LoopKeeps
       DEF QueryClass, jvmVars, sessionVars, historyVars, OwningPcs, TypeOK
<1>3. CASE SetException(n)
  <2>1. PICK to \in {"resume", "select"} : LoopMoves(n, "set", to)
    BY <1>3 DEF SetException
  <2>2. queried' \in [Launches -> [event : Exceptions, class : Exceptions,
                                   jvm : 0 .. MaxLaunches]]
        /\ exception' \in Exceptions
    BY <1>3, LaunchesAssumption DEF SetException, TypeOK, Exceptions, NoQuery
  <2>3. TypeOK'
    BY <1>3, <2>1, <2>2
       DEF TypeOK, SetException, LoopMoves, jvmVars, historyVars, LoopPcs,
           OwningPcs
  <2> QED
    BY <1>3, <2>1, <2>3, LoopKeeps
       DEF SetException, jvmVars, historyVars, OwningPcs, TypeOK
<1>4. CASE ExceptionResume(n)
  <2>1. TypeOK'
    BY <1>4
       DEF TypeOK, ExceptionResume, LoopMoves, ResumeJvm, Unlock, sessionVars,
           historyVars, LoopPcs, OwningPcs
  <2> QED
    BY <1>4, <2>1, LoopKeeps
       DEF ExceptionResume, sessionVars, historyVars, OwningPcs, TypeOK
<1>5. CASE LoopHangs(n)
  <2>1. PICK from \in {"query", "resume"} : LoopMoves(n, from, "hung")
    BY <1>5 DEF LoopHangs
  <2>2. TypeOK'
    BY <1>5, <2>1
       DEF TypeOK, LoopHangs, LoopMoves, jvmVars, sessionVars, historyVars,
           LoopPcs, OwningPcs
  <2> QED
    BY <1>5, <2>1, <2>2, LoopKeeps
       DEF LoopHangs, jvmVars, sessionVars, historyVars, OwningPcs, TypeOK
<1>6. CASE TakeVmDeath(n)
  <2>1. eventRx' \in [Launches -> Seq(Exceptions \cup {"VmDeath"})]
    BY <1>6, HeadTailProperties DEF TakeVmDeath, TypeOK
  <2>2. TypeOK'
    BY <1>6, <2>1
       DEF TypeOK, TakeVmDeath, LoopMoves, jvmVars, sessionVars, historyVars,
           LoopPcs, OwningPcs
  <2> QED
    BY <1>6, <2>2, LoopKeeps
       DEF TakeVmDeath, jvmVars, sessionVars, historyVars, OwningPcs, TypeOK
<1>7. CASE AwaitExit(n)
  <2>1. TypeOK'
    BY <1>7
       DEF TypeOK, AwaitExit, LoopMoves, jvmVars, sessionVars, LoopPcs, OwningPcs
  <2> QED
    BY <1>7, <2>1, LoopKeeps
       DEF AwaitExit, jvmVars, sessionVars, OwningPcs, TypeOK
<1>8. CASE Kill(n)
  <2>1. TypeOK'
    BY <1>8
       DEF TypeOK, Kill, LoopMoves, Closed, sessionVars, historyVars, LoopPcs,
           OwningPcs
  <2> QED
    BY <1>8, <2>1, LoopKeeps
       DEF Kill, sessionVars, historyVars, OwningPcs, TypeOK
<1>9. CASE EndSession(n)
  <2>1. queried' \in [Launches -> [event : Exceptions, class : Exceptions,
                                   jvm : 0 .. MaxLaunches]]
    <3>1. [NoQuery EXCEPT !.class = exception] =
             [event |-> NoException, class |-> exception, jvm |-> 0]
      BY DEF NoQuery
    <3> QED
      BY <1>9, <3>1, LaunchesAssumption DEF EndSession, TypeOK, Exceptions
  <2>2. TypeOK'
    BY <1>9, <2>1
       DEF TypeOK, EndSession, LoopMoves, jvmVars, historyVars, LoopPcs,
           OwningPcs, Exceptions
  <2> QED
    BY <1>9, <2>2, LoopKeeps
       DEF EndSession, jvmVars, historyVars, OwningPcs, TypeOK
<1>10. CASE Report(n)
  <2>1. queried' \in [Launches -> [event : Exceptions, class : Exceptions,
                                   jvm : 0 .. MaxLaunches]]
    BY <1>10, LaunchesAssumption DEF Report, TypeOK, Exceptions, NoQuery
  <2>2. terminated' \in Seq([by : {"launch", "loop", "disconnect"},
                             launch : 0 .. MaxLaunches, cause : Exceptions])
    BY <1>10, AppendProperties DEF Report, Terminated, TypeOK, Launches
  <2>3. TypeOK'
    BY <1>10, <2>1, <2>2
       DEF TypeOK, Report, LoopMoves, jvmVars, sessionVars, historyVars, LoopPcs,
           OwningPcs
  <2> QED
    BY <1>10, <2>3, LoopKeeps
       DEF Report, jvmVars, sessionVars, historyVars, OwningPcs, TypeOK
<1> QED
  BY <1>1, <1>2, <1>3, <1>4, <1>5, <1>6, <1>7, <1>8, <1>9, <1>10 DEF EventLoop

-----------------------------------------------------------------------------
(* The editor and the main task.                                           *)

LEMMA InvEditor ==
    ASSUME SessionInv, Editor
    PROVE  SessionInv'
<1> USE DEF SessionInv
<1>1. CASE EditorCloses
  <2>1. TypeOK'
    BY <1>1 DEF EditorCloses, TypeOK, jvmVars, loopVars, sessionVars, historyVars
  <2>2. OneLaunch' /\ NothingAhead' /\ Owned'
    BY <1>1 DEF EditorCloses, OneLaunch, NothingAhead, Owned, Launches, Launching,
                Starting, OwningPcs, jvmVars, loopVars, sessionVars, historyVars
  <2> QED
    BY <2>1, <2>2
<1>2. ASSUME NEW to \in {"launching", "configured", "left"}, NEW request \in Requests,
             EditorSends(to, request),
             \/ request # "launch" /\ (to = "left" \/ editor = "launched")
             \/ /\ request = "launch" /\ to = "launching" /\ launches < MaxLaunches
                /\ editor \in {"new", "launched", "configured"}
      PROVE  SessionInv'
  <2>1. inbox \in Seq(Requests) /\ inbox' = Append(inbox, request)
    BY <1>2 DEF EditorSends, TypeOK, Requests
  <2>2. /\ inbox' \in Seq(Requests)
        /\ Len(inbox) \in Nat /\ DOMAIN inbox = 1 .. Len(inbox)
        /\ DOMAIN inbox' = 1 .. Len(inbox) + 1
        /\ \A i \in 1 .. Len(inbox) : inbox'[i] = inbox[i]
        /\ inbox'[Len(inbox) + 1] = request
    BY <2>1, AppendProperties
  <2>3. /\ UNCHANGED <<proc, conn, suspended, raised, eventRx, loop, queried,
                       launches, lock, session, exception, main, patient,
                       terminated, dropped, letGo>>
        /\ editor' = to
    BY <1>2 DEF EditorSends, jvmVars, loopVars, sessionVars, historyVars
  <2>4. TypeOK'
    BY <2>2, <2>3 DEF TypeOK, Requests
  <2>5. ASSUME request # "launch" PROVE OneLaunch'
    <3>1. \A i \in DOMAIN inbox' : inbox'[i] = "launch" =>
             i \in DOMAIN inbox /\ inbox[i] = "launch"
      BY <2>2, <2>5
    <3>2. editor \in {"launching", "left", "closed"} => to = "left"
      BY <1>2, <2>5
    <3>3. ASSUME NEW i \in DOMAIN inbox', inbox'[i] = "launch"
          PROVE  /\ launches' < MaxLaunches /\ main' \notin Launching
                 /\ editor' \in {"launching", "left", "closed"}
                 /\ \A j \in DOMAIN inbox' : inbox'[j] = "launch" => i = j
      BY <2>2, <2>3, <3>1, <3>2, <3>3 DEF OneLaunch
    <3>4. main' \in Launching => launches' \in Launches
                                 /\ editor' \in {"launching", "left", "closed"}
      BY <1>2, <2>3, <2>5 DEF OneLaunch
    <3> QED
      BY <3>3, <3>4 DEF OneLaunch, Launches, Launching, Starting
  <2>6. ASSUME request = "launch" PROVE OneLaunch'
    <3>1. /\ \A i \in DOMAIN inbox : inbox[i] # "launch"
          /\ main \notin Launching
      BY <1>2, <2>6 DEF OneLaunch
    <3>2. \A i \in DOMAIN inbox' : inbox'[i] = "launch" => i = Len(inbox) + 1
      BY <2>2, <3>1
    <3>3. ASSUME NEW i \in DOMAIN inbox', inbox'[i] = "launch"
          PROVE  /\ launches' < MaxLaunches /\ main' \notin Launching
                 /\ editor' \in {"launching", "left", "closed"}
                 /\ \A j \in DOMAIN inbox' : inbox'[j] = "launch" => i = j
      BY <1>2, <2>3, <2>6, <3>1, <3>2, <3>3
    <3>4. main' \notin Launching
      BY <2>3, <3>1
    <3> QED
      BY <3>3, <3>4 DEF OneLaunch, Launches, Launching, Starting
  <2>7. OneLaunch'
    BY <2>5, <2>6
  <2>8. NothingAhead' /\ Owned'
    BY <2>3 DEF NothingAhead, Owned, Launches, Launching, Starting, OwningPcs
  <2> QED
    BY <2>4, <2>7, <2>8
<1> QED
  BY <1>1, <1>2 DEF Editor, EditorLaunches, EditorConfigures, EditorLeaves, Requests

\* A request is taken from the inbox: what is left of it.
LEMMA Received ==
    ASSUME SessionInv, NEW request, Receive(request)
    PROVE  /\ inbox \in Seq(Requests) /\ inbox' \in Seq(Requests) /\ main = "idle"
           /\ 1 \in DOMAIN inbox /\ inbox[1] = request
           /\ \A i \in DOMAIN inbox' : /\ i \in Nat /\ i + 1 \in DOMAIN inbox
                                       /\ inbox'[i] = inbox[i + 1]
<1>1. /\ inbox \in Seq(Requests) /\ inbox # <<>> /\ inbox' = Tail(inbox)
      /\ Head(inbox) = request /\ main = "idle"
  BY DEF Receive, SessionInv, TypeOK, Requests
<1> QED
  BY <1>1, HeadTailProperties

\* The main task does something else than handling a launch.
LEMMA MainKeeps ==
    ASSUME SessionInv, UNCHANGED <<proc, loop, launches>>,
           main \notin Launching, main' \notin Launching, main' # "returned",
           session' \in {0, session}, letGo' = letGo, editor' = editor,
           main = "hung" => main' = "hung", main # "returned",
           inbox' = inbox \/ \E request \in Requests : Receive(request)
    PROVE  OneLaunch' /\ NothingAhead' /\ Owned'
<1> USE DEF SessionInv
<1>1. OneLaunch'
  <2>1. CASE inbox' = inbox
    BY <2>1 DEF OneLaunch, Launching, Starting, Launches
  <2>2. CASE \E request \in Requests : Receive(request)
    <3>1. \A i \in DOMAIN inbox' : /\ i \in Nat /\ i + 1 \in DOMAIN inbox
                                  /\ inbox'[i] = inbox[i + 1]
      BY <2>2, Received
    <3>2. ASSUME NEW i \in DOMAIN inbox', inbox'[i] = "launch"
          PROVE  /\ launches' < MaxLaunches /\ main' \notin Launching
                 /\ editor' \in {"launching", "left", "closed"}
                 /\ \A j \in DOMAIN inbox' : inbox'[j] = "launch" => i = j
      BY <3>1, <3>2 DEF OneLaunch
    <3> QED
      BY <3>2 DEF OneLaunch, Launching, Starting
  <2> QED
    BY <2>1, <2>2
<1>2. NothingAhead' /\ Owned'
  BY DEF NothingAhead, Owned, Launches, Launching, Starting, OwningPcs
<1> QED
  BY <1>1, <1>2

LEMMA InvMain ==
    ASSUME SessionInv, MainTask
    PROVE  SessionInv'
<1> USE DEF SessionInv
<1>1. CASE HandleLaunch
  <2>1. /\ inbox \in Seq(Requests) /\ inbox' \in Seq(Requests) /\ main = "idle"
        /\ 1 \in DOMAIN inbox /\ inbox[1] = "launch"
        /\ \A i \in DOMAIN inbox' : /\ i \in Nat /\ i + 1 \in DOMAIN inbox
                                    /\ inbox'[i] = inbox[i + 1]
    BY <1>1, Received DEF HandleLaunch
  <2>2. /\ launches < MaxLaunches /\ editor \in {"launching", "left", "closed"}
        /\ \A j \in DOMAIN inbox : inbox[j] = "launch" => j = 1
    BY <2>1 DEF OneLaunch
  <2>3. /\ launches \in Nat /\ launches' = launches + 1 /\ launches' \in Launches
        /\ MaxLaunches \in Nat
    BY <1>1, <2>2, LaunchesAssumption DEF HandleLaunch, TypeOK, Launches
  <2>4. /\ main' = "building"
        /\ UNCHANGED <<proc, conn, suspended, raised, eventRx, loop, queried, lock,
                       session, exception, editor, patient, terminated, dropped,
                       letGo>>
    BY <1>1 DEF HandleLaunch, jvmVars, loopVars, sessionVars, historyVars
  <2>5. TypeOK'
    BY <2>1, <2>3, <2>4 DEF TypeOK, Requests, MainPcs, Launches
  <2>6. OneLaunch'
    <3>1. \A i \in DOMAIN inbox' : inbox'[i] # "launch"
      BY <2>1, <2>2
    <3> QED
      BY <2>2, <2>3, <2>4, <3>1 DEF OneLaunch, Launches
  <2>7. NothingAhead'
    BY <2>3, <2>4 DEF NothingAhead, Launches
  <2>8. Owned'
    BY <2>1, <2>3, <2>4 DEF Owned, Launching, Starting, OwningPcs
  <2> QED
    BY <2>5, <2>6, <2>7, <2>8
<1>2. CASE Spawn
  <2>1. launches \in Launches /\ main = "building" /\ main' = "connecting"
    BY <1>2 DEF Spawn, OneLaunch, Launching, Starting
  <2>2. /\ UNCHANGED <<conn, raised, eventRx, loop, queried, launches, lock,
                       session, exception, inbox, editor, patient, terminated,
                       dropped, letGo>>
        /\ proc' = [proc EXCEPT ![launches] = "running"]
        /\ suspended' = [suspended EXCEPT ![launches] = TRUE]
    BY <1>2 DEF Spawn, loopVars, sessionVars, historyVars
  <2>3. TypeOK'
    BY <2>1, <2>2 DEF TypeOK, MainPcs
  <2>4. OneLaunch'
    BY <2>1, <2>2 DEF OneLaunch, Launching, Starting, Launches
  <2>5. NothingAhead'
    BY <2>1, <2>2 DEF NothingAhead, Launching, Starting, TypeOK, Launches
  <2>6. Owned'
    BY <2>1, <2>2 DEF Owned, NothingAhead, Launching, Starting, OwningPcs, TypeOK
  <2> QED
    BY <2>3, <2>4, <2>5, <2>6
<1>3. CASE Connect \/ Register \/ RegisterHangs
  <2>1. /\ UNCHANGED <<proc, suspended, raised, eventRx, loop, queried, launches,
                       lock, session, exception, inbox, editor, patient,
                       terminated, dropped, letGo>>
        /\ conn' = conn \/ conn' = [conn EXCEPT ![launches] = "open"]
        /\ main \in {"connecting", "registering"}
        /\ main' \in {"registering", "storing", "hung"}
    BY <1>3 DEF Connect, Register, RegisterHangs, jvmVars, loopVars, sessionVars,
                historyVars
  <2>2. TypeOK'
    BY <2>1 DEF TypeOK, MainPcs
  <2>3. OneLaunch'
    BY <2>1 DEF OneLaunch, Launching, Starting, Launches
  <2>4. NothingAhead' /\ Owned'
    BY <2>1 DEF NothingAhead, Owned, Launching, Starting, Launches, OwningPcs
  <2> QED
    BY <2>2, <2>3, <2>4
<1>4. CASE LaunchFails
  <2>1. /\ UNCHANGED <<proc, conn, suspended, raised, eventRx, loop, queried,
                       launches, lock, session, exception, inbox, patient,
                       dropped>>
        /\ main \in Launching /\ main' = "idle"
        /\ letGo' = IF proc[launches] = "running" THEN letGo \cup {launches}
                    ELSE letGo
    BY <1>4 DEF LaunchFails, Launching, Starting, jvmVars, loopVars, sessionVars
  <2>2. launches \in Launches /\ editor' \in {"launched", "left", "closed"}
    BY <1>4, <2>1 DEF LaunchFails, LaunchAnswered, OneLaunch
  <2>3. terminated' \in Seq([by : {"launch", "loop", "disconnect"},
                             launch : 0 .. MaxLaunches, cause : Exceptions])
    BY <1>4, <2>2, AppendProperties
       DEF LaunchFails, Terminated, TypeOK, Launches, Exceptions
  <2>4. TypeOK'
    BY <2>1, <2>2, <2>3 DEF TypeOK, MainPcs, Launching, Starting
  <2>5. OneLaunch'
    BY <2>1, <2>2 DEF OneLaunch, Launching, Starting
  <2>6. NothingAhead'
    BY <2>1 DEF NothingAhead, Launching, Starting, Launches
  <2>7. Owned'
    BY <2>1, <2>2 DEF Owned, Launching, Starting, OwningPcs
  <2> QED
    BY <2>4, <2>5, <2>6, <2>7
<1>5. CASE StoreSession
  <2>1. /\ UNCHANGED <<proc, conn, suspended, raised, eventRx, queried, launches,
                       lock, inbox, editor, patient, terminated, dropped, letGo>>
        /\ main = "storing" /\ main' = "responding" /\ lock = "free"
        /\ session' = launches /\ exception' = NoException
        /\ loop' = [loop EXCEPT ![launches] = "select"]
    BY <1>5 DEF StoreSession, SpawnEventLoop, jvmVars, historyVars
  <2>2. launches \in Launches
    BY <2>1 DEF OneLaunch, Launching, Starting
  <2>3. TypeOK'
    BY <2>1, <2>2 DEF TypeOK, MainPcs, LoopPcs, OwningPcs, Exceptions, Launches
  <2>4. OneLaunch'
    BY <2>1 DEF OneLaunch, Launching, Starting, Launches
  <2>5. NothingAhead'
    BY <2>1, <2>2 DEF NothingAhead, Launching, Starting, Launches, TypeOK
  <2>6. Owned'
    BY <2>1, <2>2 DEF Owned, Launching, Starting, OwningPcs, TypeOK
  <2> QED
    BY <2>3, <2>4, <2>5, <2>6
<1>6. CASE RespondToLaunch
  <2>1. /\ UNCHANGED <<proc, conn, suspended, raised, eventRx, loop, queried,
                       launches, lock, session, exception, inbox, patient,
                       terminated, dropped, letGo>>
        /\ main = "responding" /\ main' = "idle"
    BY <1>6 DEF RespondToLaunch, jvmVars, loopVars, sessionVars, historyVars
  <2>2. launches \in Launches /\ editor' \in {"launched", "left", "closed"}
    BY <1>6, <2>1 DEF RespondToLaunch, LaunchAnswered, OneLaunch, Launching, Starting
  <2>3. TypeOK'
    BY <2>1, <2>2 DEF TypeOK, MainPcs
  <2>4. OneLaunch'
    BY <2>1, <2>2 DEF OneLaunch, Launching, Starting
  <2>5. NothingAhead'
    BY <2>1 DEF NothingAhead, Launching, Starting, Launches
  <2>6. Owned'
    BY <2>1 DEF Owned, Launching, Starting, OwningPcs
  <2> QED
    BY <2>3, <2>4, <2>5, <2>6
<1>7. CASE HandleConfigurationDone
  <2>1. /\ inbox' \in Seq(Requests) /\ main = "idle" /\ main' \in {"idle", "configuring"}
        /\ lock' = "main" => main' = "configuring"
        /\ lock' \in {"free", "main"}
        /\ UNCHANGED <<proc, conn, suspended, raised, eventRx, loop, queried,
                       launches, session, exception, editor, patient, terminated,
                       dropped, letGo>>
    BY <1>7, Received
       DEF HandleConfigurationDone, Receive, jvmVars, loopVars, sessionVars,
           historyVars
  <2>2. TypeOK'
    BY <2>1 DEF TypeOK, MainPcs, Requests
  <2>3. OneLaunch' /\ NothingAhead' /\ Owned'
    BY <1>7, <2>1, MainKeeps DEF HandleConfigurationDone, Requests, Launching, Starting
  <2> QED
    BY <2>2, <2>3
<1>8. CASE ConfigurationResume
  <2>1. TypeOK'
    BY <1>8 DEF ConfigurationResume, ResumeJvm, Unlock, TypeOK, MainPcs, loopVars,
                sessionVars, historyVars
  <2>2. OneLaunch' /\ NothingAhead' /\ Owned'
    BY <1>8, MainKeeps DEF ConfigurationResume, Launching, Starting, loopVars,
                           sessionVars, historyVars
  <2> QED
    BY <2>1, <2>2
<1>9. CASE ConfigurationHangs
  <2>1. TypeOK'
    BY <1>9 DEF ConfigurationHangs, TypeOK, MainPcs, jvmVars, loopVars,
                sessionVars, historyVars
  <2>2. OneLaunch' /\ NothingAhead' /\ Owned'
    BY <1>9, MainKeeps DEF ConfigurationHangs, Launching, Starting, jvmVars,
                           loopVars, sessionVars, historyVars
  <2> QED
    BY <2>1, <2>2
<1>10. CASE HandleDisconnect
  <2>1. /\ inbox' \in Seq(Requests) /\ main = "idle" /\ main' \in {"idle", "leaving"}
        /\ lock = "free" /\ session' = 0 /\ exception' = NoException
        /\ dropped' = dropped \cup ({session} \ {0})
        /\ UNCHANGED <<proc, conn, suspended, raised, eventRx, loop, queried,
                       launches, lock, editor, patient, terminated, letGo>>
    BY <1>10, Received DEF HandleDisconnect, Receive, jvmVars, loopVars
  <2>2. dropped' \subseteq Launches
    BY <2>1, LaunchesAssumption DEF TypeOK, Launches
  <2>3. TypeOK'
    BY <2>1, <2>2, LaunchesAssumption DEF TypeOK, MainPcs, Requests, Exceptions
  <2>4. OneLaunch' /\ NothingAhead' /\ Owned'
    BY <1>10, <2>1, MainKeeps DEF HandleDisconnect, Requests, Launching, Starting
  <2> QED
    BY <2>3, <2>4
<1>11. CASE TerminateDirectly
  <2>1. terminated' \in Seq([by : {"launch", "loop", "disconnect"},
                             launch : 0 .. MaxLaunches, cause : Exceptions])
    BY <1>11, AppendProperties
       DEF TerminateDirectly, Terminated, TypeOK, Exceptions
  <2>2. TypeOK'
    BY <1>11, <2>1 DEF TerminateDirectly, TypeOK, MainPcs, jvmVars, loopVars,
                       sessionVars, historyVars
  <2>3. OneLaunch' /\ NothingAhead' /\ Owned'
    BY <1>11, MainKeeps DEF TerminateDirectly, Launching, Starting, jvmVars,
                            loopVars, sessionVars, historyVars
  <2> QED
    BY <2>2, <2>3
<1>12. CASE MainReturns
  <2>1. /\ main' = "returned" /\ session' = 0 /\ inbox = <<>>
        /\ UNCHANGED <<proc, suspended, raised, eventRx, queried, launches, inbox,
                       editor, patient, terminated, dropped, letGo>>
        /\ loop' = [n \in Launches |-> IF loop[n] \in {"none", "done"}
                                       THEN loop[n] ELSE "cancelled"]
    BY <1>12 DEF MainReturns, historyVars
  <2>2. TypeOK'
    BY <1>12, <2>1, LaunchesAssumption
       DEF MainReturns, TypeOK, MainPcs, LoopPcs, OwningPcs, Exceptions
  <2>3. OneLaunch' /\ NothingAhead' /\ Owned'
    BY <2>1 DEF OneLaunch, NothingAhead, Owned, Launching, Starting, Launches
  <2> QED
    BY <2>2, <2>3
<1> QED
  BY <1>1, <1>2, <1>3, <1>4, <1>5, <1>6, <1>7, <1>8, <1>9, <1>10, <1>11, <1>12
     DEF MainTask

-----------------------------------------------------------------------------
(* The theorems.                                                           *)

LEMMA InvStutters ==
    ASSUME SessionInv, UNCHANGED vars
    PROVE  SessionInv'
<1>1. UNCHANGED <<proc, conn, suspended, raised, eventRx, loop, queried, launches,
                  lock, session, exception, main, inbox, editor, patient,
                  terminated, dropped, letGo>>
  BY DEF vars, jvmVars, loopVars, sessionVars, historyVars
<1>2. TypeOK'
  BY <1>1 DEF SessionInv, TypeOK
<1>3. OneLaunch' /\ NothingAhead' /\ Owned'
  BY <1>1 DEF SessionInv, OneLaunch, NothingAhead, Owned
<1> QED
  BY <1>2, <1>3 DEF SessionInv

LEMMA InvInit == Init => SessionInv
<1> SUFFICES ASSUME Init PROVE SessionInv
  OBVIOUS
<1>1. TypeOK
  BY LaunchesAssumption
     DEF Init, TypeOK, LoopPcs, MainPcs, Exceptions, NoQuery, Launches
<1>2. OneLaunch /\ NothingAhead /\ Owned
  BY DEF Init, OneLaunch, NothingAhead, Owned, Launching, Starting, Launches
<1> QED
  BY <1>1, <1>2 DEF SessionInv

\* The invariant that the theorems below rest on.
LEMMA SessionInvariant == Spec => []SessionInv
<1>1. SessionInv /\ [Next]_vars => SessionInv'
  BY InvJvm, InvLoop, InvEditor, InvMain, InvStutters DEF Next
<1> QED
  BY InvInit, <1>1, PTL DEF Spec

\* Every variable keeps its type, for any number of launches, exceptions and
\* exception classes, and the session lock is only ever held by a task that is
\* at a place of the code (server.rs:886, server.rs:1153) that waits under it.
THEOREM TypeCorrect == Spec => []TypeOK
<1>1. SessionInv => TypeOK
  BY DEF SessionInv
<1> QED
  BY SessionInvariant, <1>1, PTL

\* A session always has an event loop that will see the end of its JVM, and a
\* running JVM always has an owner - the launch in progress, or an event loop
\* that has not ended - whatever the order in which the editor launches again,
\* disconnects and closes stdin, and the JVM raises exceptions and ends, unless
\* the server has ended, or let the process go (server.rs:855, launcher.rs:78).
THEOREM JvmOwned == Spec => []JvmIsOwned
<1>1. SessionInv => JvmIsOwned
  BY DEF SessionInv, Owned, JvmIsOwned
<1> QED
  BY SessionInvariant, <1>1, PTL

-----------------------------------------------------------------------------
(* A patient editor has one launch at a time.                              *)

\* Launch n has no event loop that might still do something.
Over(n) == loop[n] \in {"none", "done", "cancelled"}

\* The editor launches again when the last launch is over, and until then only
\* its own event loop tells so, or the main task when the editor has left.
OneAtATime ==
    /\ \A n \in Launches : n < launches => Over(n)
    /\ session \in {0, launches}
    /\ \A n \in Launches : n > launches => ~ToldOf(n)
    /\ main \in Starting => session = 0 /\ ~ToldOf(launches)
    /\ editor = "new" => launches = 0
    /\ editor \notin {"left", "closed"} =>
           /\ main # "leaving"
           /\ \A i \in DOMAIN inbox : inbox[i] # "disconnect"
           /\ launches # 0 /\ ~Over(launches) => ~ToldOf(launches)
    /\ (\E i \in DOMAIN inbox : inbox[i] = "launch") =>
           session = 0 /\ (launches # 0 => Over(launches))

\* A terminated event tells of one launch.
LEMMA TellsOfOne ==
    ASSUME TypeOK, NEW by, NEW n, NEW cause, Terminated(by, n, cause), NEW m
    PROVE  ToldOf(m)' <=> ToldOf(m) \/ m = n
<1>1. /\ DOMAIN terminated = 1 .. Len(terminated) /\ Len(terminated) \in Nat
      /\ DOMAIN terminated' = 1 .. Len(terminated) + 1
      /\ \A i \in 1 .. Len(terminated) : terminated'[i] = terminated[i]
      /\ terminated'[Len(terminated) + 1] = [by |-> by, launch |-> n, cause |-> cause]
  <2> DEFINE T == [by : {"launch", "loop", "disconnect"},
                   launch : 0 .. MaxLaunches, cause : Exceptions]
             t == [by |-> by, launch |-> n, cause |-> cause]
  <2>1. terminated \in Seq(T) /\ terminated' = Append(terminated, t)
    BY DEF TypeOK, Terminated
  <2> HIDE DEF T, t
  <2>2. /\ DOMAIN terminated = 1 .. Len(terminated) /\ Len(terminated) \in Nat
        /\ DOMAIN terminated' = 1 .. Len(terminated) + 1
        /\ \A i \in 1 .. Len(terminated) : terminated'[i] = terminated[i]
        /\ terminated'[Len(terminated) + 1] = t
    BY <2>1
  <2> QED
    BY <2>2 DEF t
<1>2. terminated'[Len(terminated) + 1].launch = n
  BY <1>1
<1>3. Len(terminated) + 1 \in DOMAIN terminated'
  BY <1>1
<1>4. ASSUME ToldOf(m) PROVE ToldOf(m)'
  BY <1>1, <1>4 DEF ToldOf
<1>5. ASSUME m = n PROVE ToldOf(m)'
  BY <1>2, <1>3, <1>5 DEF ToldOf
<1>6. ASSUME ToldOf(m)' PROVE ToldOf(m) \/ m = n
  <2>1. PICK i \in DOMAIN terminated' : terminated'[i].launch = m
    BY <1>6 DEF ToldOf
  <2> QED
    BY <1>1, <1>2, <2>1 DEF ToldOf
<1> QED
  BY <1>4, <1>5, <1>6

\* An event loop that has something to do is that of the current launch, which
\* is not being started, nor about to be followed by another.
LEMMA LoopIsCurrent ==
    ASSUME SessionInv, OneAtATime, NEW n \in Launches, ~Over(n)
    PROVE  /\ n = launches /\ main \notin Starting
           /\ ~ \E i \in DOMAIN inbox : inbox[i] = "launch"
<1>1. launches \in Nat /\ n \in Nat /\ n # 0
  BY LaunchesAssumption DEF SessionInv, TypeOK, Launches
<1>2. ~(n < launches) /\ ~(n > launches)
  BY DEF OneAtATime, SessionInv, NothingAhead, Over
<1>3. n = launches
  BY <1>1, <1>2
<1> QED
  BY <1>1, <1>3 DEF OneAtATime, SessionInv, NothingAhead, Over

\* What happens outside of the main task and the event loops.
LEMMA OneJvm ==
    ASSUME OneAtATime, NEW n \in Launches,
           \/ \E c \in ExceptionClasses : JvmRaises(n, c)
           \/ JvmCloses(n) \/ JvmExits(n) \/ ReadLoopCloses(n)
    PROVE  OneAtATime'
  BY DEF OneAtATime, JvmRaises, JvmCloses, JvmExits, ReadLoopCloses, Over, ToldOf,
         Launches, Starting, loopVars, sessionVars, historyVars

LEMMA OneEditor ==
    ASSUME SessionInv, patient, OneAtATime, Editor
    PROVE  OneAtATime'
<1>1. /\ UNCHANGED <<loop, launches, session, main, terminated>>
      /\ editor' # "new"
  BY DEF Editor, EditorLaunches, EditorConfigures, EditorLeaves, EditorCloses,
         EditorSends, loopVars, sessionVars
<1>2. /\ \A n \in Launches : n < launches' => Over(n)'
      /\ session' \in {0, launches'}
      /\ \A n \in Launches : n > launches' => ~ToldOf(n)'
      /\ main' \in Starting => session' = 0 /\ ~ToldOf(launches)'
  BY <1>1 DEF OneAtATime, Over, ToldOf, Starting
<1>3. ASSUME NEW request \in Requests, inbox' = Append(inbox, request)
      PROVE  \A i \in DOMAIN inbox' :
                 \/ inbox'[i] = request
                 \/ i \in DOMAIN inbox /\ inbox'[i] = inbox[i]
  <2>1. inbox \in Seq(Requests)
    BY DEF SessionInv, TypeOK, Requests
  <2>2. /\ Len(inbox) \in Nat /\ DOMAIN inbox = 1 .. Len(inbox)
        /\ DOMAIN inbox' = 1 .. Len(inbox) + 1
        /\ \A i \in 1 .. Len(inbox) : inbox'[i] = inbox[i]
        /\ inbox'[Len(inbox) + 1] = request
    BY <1>3, <2>1, AppendProperties
  <2> QED
    BY <2>2
<1>4. CASE EditorLaunches
  <2>1. /\ editor \notin {"left", "closed"} /\ editor' = "launching"
        /\ inbox' = Append(inbox, "launch")
        /\ editor = "new" \/ ToldOf(launches)
    BY <1>4 DEF EditorLaunches, EditorSends, Told, ToldOf
  <2>2. launches # 0 => Over(launches)
    BY <2>1 DEF OneAtATime
  <2>3. session = 0
    BY <2>2 DEF OneAtATime, SessionInv, Owned, Over, OwningPcs
  <2>4. /\ main' # "leaving"
        /\ \A i \in DOMAIN inbox' : inbox'[i] # "disconnect"
    BY <1>1, <1>3, <2>1 DEF OneAtATime, Requests
  <2> QED
    BY <1>1, <1>2, <2>2, <2>3, <2>4 DEF OneAtATime, Over
<1>5. CASE EditorConfigures
  <2>1. /\ editor \notin {"left", "closed"}
        /\ inbox' = Append(inbox, "configurationDone")
    BY <1>5 DEF EditorConfigures, EditorSends
  <2>2. \A i \in DOMAIN inbox' :
            inbox'[i] \in {"launch", "disconnect"} =>
                i \in DOMAIN inbox /\ inbox'[i] = inbox[i]
    BY <1>3, <2>1 DEF Requests
  <2> QED
    BY <1>1, <1>2, <2>1, <2>2 DEF OneAtATime, Over, ToldOf
<1>6. CASE EditorLeaves \/ EditorCloses
  <2>1. /\ editor' \in {"left", "closed"}
        /\ inbox' = Append(inbox, "disconnect") \/ inbox' = inbox
    BY <1>6 DEF EditorLeaves, EditorCloses, EditorSends
  <2>2. \A i \in DOMAIN inbox' :
            inbox'[i] = "launch" => i \in DOMAIN inbox /\ inbox'[i] = inbox[i]
    BY <1>3, <2>1 DEF Requests
  <2> QED
    BY <1>1, <1>2, <2>1, <2>2 DEF OneAtATime, Over, ToldOf
<1> QED
  BY <1>4, <1>5, <1>6 DEF Editor

LEMMA OneLoop ==
    ASSUME SessionInv, OneAtATime, NEW n \in Launches, EventLoop(n)
    PROVE  OneAtATime'
<1>1. PICK from, to : LoopMoves(n, from, to) /\ from \notin {"none", "done", "cancelled"}
  BY DEF EventLoop, TakeException, QueryClass, SetException, ExceptionResume,
         LoopHangs, TakeVmDeath, AwaitExit, Kill, EndSession, Report, LoopMoves
<1>2. /\ loop[n] = from /\ loop'[n] = to
      /\ \A m \in Launches \ {n} : loop'[m] = loop[m]
  BY <1>1 DEF LoopMoves, SessionInv, TypeOK
<1>3. ~Over(n)
  BY <1>1, <1>2 DEF Over
<1>4. /\ n = launches /\ main \notin Starting
      /\ ~ \E i \in DOMAIN inbox : inbox[i] = "launch"
  BY <1>3, LoopIsCurrent
<1>5. /\ UNCHANGED <<launches, main, inbox, editor>>
      /\ session' \in {0, session}
  BY DEF EventLoop, TakeException, QueryClass, SetException, ExceptionResume,
         LoopHangs, TakeVmDeath, AwaitExit, Kill, EndSession, Report, sessionVars
<1>6. \/ UNCHANGED terminated
      \/ Over(n)' /\ \A m \in Launches \cup {0} : ToldOf(m)' <=> ToldOf(m) \/ m = n
  <2>1. CASE Report(n)
    <3>1. Over(n)'
      BY <2>1 DEF Report, Over, SessionInv, LoopMoves, TypeOK
    <3>2. Terminated("loop", n, queried[n].class) /\ TypeOK
      BY <2>1 DEF Report, SessionInv
    <3>3. \A m \in Launches \cup {0} : ToldOf(m)' <=> ToldOf(m) \/ m = n
      BY <3>2, TellsOfOne
    <3> QED
      BY <3>1, <3>3
  <2> QED
    BY <2>1 DEF EventLoop, TakeException, QueryClass, SetException, ExceptionResume,
                LoopHangs, TakeVmDeath, AwaitExit, Kill, EndSession
<1>7. launches \in Nat /\ \A m \in Launches : m \in Nat /\ m # 0
  BY LaunchesAssumption DEF SessionInv, TypeOK, Launches
<1>8. \A m \in Launches : m < launches' => Over(m)'
  BY <1>2, <1>4, <1>5, <1>7 DEF OneAtATime, Over
<1>9. \A m \in Launches : m > launches' => ~ToldOf(m)'
  BY <1>4, <1>5, <1>6, <1>7 DEF OneAtATime, ToldOf
<1>10. editor' \notin {"left", "closed"} /\ ~Over(launches)' => ~ToldOf(launches)'
  BY <1>3, <1>4, <1>5, <1>6, <1>7 DEF OneAtATime, ToldOf
<1> QED
  BY <1>4, <1>5, <1>8, <1>9, <1>10 DEF OneAtATime

LEMMA OneMain ==
    ASSUME SessionInv, OneAtATime, MainTask
    PROVE  OneAtATime'
<1> USE DEF SessionInv
<1>1. launches \in Nat /\ \A n \in Launches : n \in Nat /\ n # 0
  BY LaunchesAssumption DEF TypeOK, Launches
<1>2. CASE HandleLaunch
  <2>1. /\ inbox' \in Seq(Requests) /\ 1 \in DOMAIN inbox /\ inbox[1] = "launch"
        /\ \A i \in DOMAIN inbox' : /\ i \in Nat /\ i + 1 \in DOMAIN inbox
                                    /\ inbox'[i] = inbox[i + 1]
    BY <1>2, Received DEF HandleLaunch
  <2>2. /\ launches < MaxLaunches /\ editor \in {"launching", "left", "closed"}
        /\ \A j \in DOMAIN inbox : inbox[j] = "launch" => j = 1
    BY <2>1 DEF OneLaunch
  <2>3. /\ launches' = launches + 1 /\ launches' \in Launches /\ main' = "building"
        /\ UNCHANGED <<loop, session, editor, terminated>>
    BY <1>1, <1>2, <2>2, LaunchesAssumption
       DEF HandleLaunch, loopVars, sessionVars, TypeOK, Launches
  <2>4. session = 0 /\ (launches # 0 => Over(launches))
    BY <2>1 DEF OneAtATime
  <2>5. \A n \in Launches : n < launches' => Over(n)'
    BY <1>1, <2>3, <2>4 DEF OneAtATime, Over
  <2>6. loop'[launches'] = "none"
    BY <1>1, <2>3 DEF NothingAhead
  <2>7. \A n \in Launches : n >= launches' => ~ToldOf(n)'
    BY <1>1, <2>3 DEF OneAtATime, ToldOf
  <2>8. ~ToldOf(launches)'
    <3>1. PICK n \in Launches : n = launches'
      BY <2>3
    <3>2. ~ToldOf(n)'
      BY <1>1, <2>7, <3>1
    <3> QED
      BY <3>1, <3>2 DEF ToldOf
  <2>9. \A i \in DOMAIN inbox' : inbox'[i] # "launch"
    BY <2>1, <2>2
  <2>10. editor' \notin {"left", "closed"} => \A i \in DOMAIN inbox' : inbox'[i] # "disconnect"
    BY <2>1, <2>3 DEF OneAtATime
  <2> QED
    BY <1>1, <2>2, <2>3, <2>4, <2>5, <2>7, <2>8, <2>9, <2>10 DEF OneAtATime
<1>3. CASE Spawn \/ Connect \/ Register \/ RegisterHangs
  BY <1>3 DEF Spawn, Connect, Register, RegisterHangs, OneAtATime, Over, ToldOf,
              Starting, jvmVars, loopVars, sessionVars
<1>4. CASE LaunchFails
  <2>1. /\ UNCHANGED <<loop, launches, session, inbox>>
        /\ main \in Starting /\ main' = "idle" /\ editor' # "new"
        /\ editor' \notin {"left", "closed"} => editor \notin {"left", "closed"}
        /\ Terminated("launch", launches, NoException)
    BY <1>4 DEF LaunchFails, Starting, LaunchAnswered, loopVars, sessionVars,
                OneLaunch, Launching
  <2>2. \A n \in Launches : n > launches' => ~ToldOf(n)'
    BY <1>1, <2>1, TellsOfOne DEF OneAtATime
  <2>3. /\ Over(launches)'
        /\ ~ \E i \in DOMAIN inbox : inbox[i] = "launch"
    BY <2>1 DEF NothingAhead, OneLaunch, Over, Launching
  <2> QED
    BY <2>1, <2>2, <2>3 DEF OneAtATime, Over, Starting
<1>5. CASE StoreSession
  <2>1. /\ UNCHANGED <<launches, inbox, editor, terminated>>
        /\ main = "storing" /\ main' = "responding"
        /\ session' = launches
        /\ loop' = [loop EXCEPT ![launches] = "select"]
    BY <1>5 DEF StoreSession, SpawnEventLoop
  <2>2. ~ \E i \in DOMAIN inbox : inbox[i] = "launch"
    BY <2>1 DEF OneLaunch, Launching, Starting
  <2>3. \A n \in Launches : n < launches' => Over(n)'
    BY <1>1, <2>1 DEF OneAtATime, Over, TypeOK
  <2>4. /\ \A n \in Launches : n > launches' => ~ToldOf(n)'
        /\ ~ToldOf(launches)'
    BY <2>1 DEF OneAtATime, ToldOf, Starting
  <2> QED
    BY <2>1, <2>2, <2>3, <2>4 DEF OneAtATime, Starting
<1>6. CASE RespondToLaunch
  BY <1>6 DEF RespondToLaunch, LaunchAnswered, OneAtATime, Over, ToldOf, Starting,
              jvmVars, loopVars, sessionVars
<1>7. ASSUME NEW request \in {"configurationDone", "disconnect"}, Receive(request),
             UNCHANGED <<loop, launches, editor, terminated>>,
             session' \in {0, session}, main' \notin Starting,
             main' # "leaving" \/ request = "disconnect"
      PROVE  OneAtATime'
  <2>1. /\ 1 \in DOMAIN inbox /\ inbox[1] = request
        /\ \A i \in DOMAIN inbox' : /\ i \in Nat /\ i + 1 \in DOMAIN inbox
                                    /\ inbox'[i] = inbox[i + 1]
    BY <1>7, Received
  <2>2. editor' \notin {"left", "closed"} =>
            /\ main' # "leaving"
            /\ \A i \in DOMAIN inbox' : inbox'[i] # "disconnect"
    BY <1>7, <2>1 DEF OneAtATime
  <2>3. (\E i \in DOMAIN inbox' : inbox'[i] = "launch") =>
            \E i \in DOMAIN inbox : inbox[i] = "launch"
    BY <2>1
  <2> QED
    BY <1>7, <2>2, <2>3 DEF OneAtATime, Over, ToldOf
<1>8. CASE HandleConfigurationDone
  BY <1>7, <1>8 DEF HandleConfigurationDone, loopVars, sessionVars, Receive, Starting
<1>9. CASE HandleDisconnect
  BY <1>7, <1>9 DEF HandleDisconnect, loopVars, Starting
<1>10. CASE ConfigurationResume \/ ConfigurationHangs
  BY <1>10 DEF ConfigurationResume, ConfigurationHangs, OneAtATime, Over, ToldOf,
               Starting, jvmVars, loopVars, sessionVars
<1>11. CASE TerminateDirectly
  <2>1. /\ UNCHANGED <<loop, launches, session, inbox, editor>>
        /\ main = "leaving" /\ main' = "idle"
        /\ Terminated("disconnect", launches, NoException)
    BY <1>11 DEF TerminateDirectly, loopVars, sessionVars
  <2>2. editor \in {"left", "closed"}
    BY <2>1 DEF OneAtATime
  <2>3. \A n \in Launches : n > launches' => ~ToldOf(n)'
    BY <1>1, <2>1, TellsOfOne DEF OneAtATime
  <2> QED
    BY <2>1, <2>2, <2>3 DEF OneAtATime, Over, Starting
<1>12. CASE MainReturns
  <2>1. /\ UNCHANGED <<launches, inbox, editor, terminated>>
        /\ main' = "returned" /\ session' = 0 /\ editor = "closed"
        /\ \A n \in Launches : loop'[n] \in {"none", "done", "cancelled"}
    BY <1>12 DEF MainReturns
  <2>2. \A n \in Launches : Over(n)'
    BY <2>1 DEF Over
  <2>3. launches # 0 => Over(launches)'
    BY <2>1, <2>2 DEF TypeOK, Launches, Over
  <2> QED
    BY <2>1, <2>2, <2>3 DEF OneAtATime, ToldOf, Starting
<1> QED
  BY <1>2, <1>3, <1>4, <1>5, <1>6, <1>8, <1>9, <1>10, <1>11, <1>12 DEF MainTask

\* Whether the editor is patient never changes.
LEMMA StaysPatient ==
    ASSUME [Next]_vars
    PROVE  UNCHANGED patient
<1>1. CASE \E n \in Launches : \/ \E c \in ExceptionClasses : JvmRaises(n, c)
                               \/ JvmCloses(n) \/ JvmExits(n) \/ ReadLoopCloses(n)
  BY <1>1 DEF JvmRaises, JvmCloses, JvmExits, ReadLoopCloses
<1>2. CASE \E n \in Launches : EventLoop(n)
  BY <1>2 DEF EventLoop, TakeException, QueryClass, SetException, ExceptionResume,
              LoopHangs, TakeVmDeath, AwaitExit, Kill, EndSession, Report
<1>3. CASE Editor
  BY <1>3 DEF Editor, EditorLaunches, EditorConfigures, EditorLeaves, EditorCloses,
              EditorSends
<1>4. CASE MainTask
  BY <1>4 DEF MainTask, HandleLaunch, Spawn, Connect, Register, RegisterHangs,
              LaunchFails, StoreSession, RespondToLaunch, HandleConfigurationDone,
              ConfigurationResume, ConfigurationHangs, HandleDisconnect,
              TerminateDirectly, MainReturns
<1>5. CASE UNCHANGED vars
  BY <1>5 DEF vars
<1> QED
  BY <1>1, <1>2, <1>3, <1>4, <1>5 DEF Next

\* The invariant of the sessions of a patient editor.
LEMMA OneLaunchAtATime == Spec => [](patient => OneAtATime)
<1>1. Init => OneAtATime
  BY LaunchesAssumption DEF Init, OneAtATime, Over, ToldOf, Starting
<1>2. ASSUME SessionInv, patient, OneAtATime, [Next]_vars
      PROVE  OneAtATime'
  <2>1. CASE UNCHANGED vars
    BY <1>2, <2>1 DEF OneAtATime, Over, ToldOf, vars, loopVars, sessionVars
  <2> QED
    BY <1>2, <2>1, OneJvm, OneEditor, OneLoop, OneMain DEF Next
<1>3. SessionInv /\ (patient => OneAtATime) /\ [Next]_vars => (patient => OneAtATime)'
  BY <1>2, StaysPatient
<1> QED
  BY <1>1, <1>3, SessionInvariant, PTL DEF Spec

\* A session is ended by the event loop of its own launch, by a disconnect of
\* the editor (server.rs:1171) or by the end of the server, never by the event
\* loop of an earlier launch, which finds whatever session there is
\* (server.rs:915) - if the editor launches again only after the terminated
\* event.
THEOREM EndsItself == Spec => OnlyItsOwnEnd
<1>1. ASSUME SessionInv, patient => OneAtATime, [Next]_vars, patient, session # 0,
             session' # session
      PROVE  \/ loop'[session] # loop[session]
             \/ session \in dropped' \/ main' = "returned"
  <2>1. OneAtATime /\ session = launches /\ session \in Launches
    BY <1>1 DEF OneAtATime, SessionInv, TypeOK, Launches
  <2>2. CASE \E n \in Launches : EventLoop(n)
    <3>1. PICK n \in Launches : EventLoop(n)
      BY <2>2
    <3>2. EndSession(n)
      BY <1>1, <3>1
         DEF EventLoop, TakeException, QueryClass, SetException, ExceptionResume,
             LoopHangs, TakeVmDeath, AwaitExit, Kill, Report, sessionVars
    <3>3. /\ loop[n] = "ending" /\ loop'[n] = "reporting"
      BY <1>1, <3>2 DEF EndSession, LoopMoves, SessionInv, TypeOK
    <3>4. n = session
      <4>1. ~Over(n)
        BY <3>3 DEF Over
      <4> QED
        BY <1>1, <2>1, <4>1, LoopIsCurrent
    <3> QED
      BY <3>3, <3>4
  <2>3. CASE MainTask
    <3>1. ~StoreSession
      BY <1>1, <2>1 DEF StoreSession, OneAtATime, Starting
    <3> QED
      BY <1>1, <2>3, <3>1
         DEF MainTask, HandleLaunch, Spawn, Connect, Register, RegisterHangs,
             LaunchFails, RespondToLaunch, HandleConfigurationDone,
             ConfigurationResume, ConfigurationHangs, HandleDisconnect,
             TerminateDirectly, MainReturns, sessionVars
  <2>4. CASE Editor
    BY <1>1, <2>4 DEF Editor, EditorLaunches, EditorConfigures, EditorLeaves,
                      EditorCloses, EditorSends, sessionVars
  <2>5. CASE \E n \in Launches : \/ \E c \in ExceptionClasses : JvmRaises(n, c)
                                 \/ JvmCloses(n) \/ JvmExits(n) \/ ReadLoopCloses(n)
    BY <1>1, <2>5 DEF JvmRaises, JvmCloses, JvmExits, ReadLoopCloses, sessionVars
  <2>6. CASE UNCHANGED vars
    BY <1>1, <2>6 DEF vars, sessionVars
  <2> QED
    BY <1>1, <2>2, <2>3, <2>4, <2>5, <2>6 DEF Next
<1>2. SessionInv /\ (patient => OneAtATime) /\ [Next]_vars =>
          [patient /\ session # 0 /\ session' # session =>
               \/ loop'[session] # loop[session]
               \/ session \in dropped' \/ main' = "returned"]_vars
  BY <1>1
<1> QED
  BY <1>2, SessionInvariant, OneLaunchAtATime, PTL DEF Spec, OnlyItsOwnEnd

-----------------------------------------------------------------------------
(* The first exception of a program.                                       *)

\* Launch n has raised nothing.
Quietly(n) == \A i \in DOMAIN raised : raised[i].launch # n

\* No exception of launch n has been taken by its event loop.
NoneTaken(n) ==
    \/ Quietly(n) /\ eventRx[n] = <<>>
    \/ eventRx[n] # <<>> /\ IsFirst(n, Head(eventRx[n]))

\* No class that the event loop of n may yet learn is stored: one is there, the
\* JVM does not tell any more, or there is no session for it.
Settled(n) == exception # NoException \/ conn[n] # "open" \/ session # n

FirstIfAny(n, c) == c # NoException => IsFirst(n, c)

\* Wherever an exception is on its way to the session of n, it is the first, or
\* it will not be stored.
OnItsWay(n) ==
    /\ n > launches => conn[n] = "none"
    /\ conn[n] = "none" => Quietly(n) /\ eventRx[n] = <<>>
    /\ loop[n] = "none" => NoneTaken(n) \/ conn[n] \in {"closed", "cleared"}
    /\ loop[n] = "select" => NoneTaken(n) \/ Settled(n)
    /\ loop[n] = "query" =>
           /\ queried[n].jvm = n /\ queried[n].event \in ExceptionClasses
           /\ IsFirst(n, queried[n].event) \/ conn[n] # "open"
    /\ loop[n] = "set" => IF queried[n].class = NoException THEN Settled(n)
                          ELSE IsFirst(n, queried[n].class)
    /\ loop[n] = "resume" => Settled(n)
    /\ loop[n] = "reporting" => FirstIfAny(n, queried[n].class)

\* What has been reported.
Causes ==
    \A i \in DOMAIN terminated :
        terminated[i].cause # NoException =>
            IsFirst(terminated[i].launch, terminated[i].cause)

FirstOnly ==
    /\ main \in {"building", "connecting"} => conn[launches] = "none"
    /\ session = 0 => exception = NoException
    /\ FirstIfAny(session, exception)
    /\ \A n \in Launches : OnItsWay(n)
    /\ Causes

PatientInv == SessionInv /\ OneAtATime /\ FirstOnly

\* What a launch has raised first stays so.
LEMMA StaysFirst ==
    ASSUME TypeOK,
           \/ raised' = raised
           \/ \E m \in Launches, d \in ExceptionClasses :
                  raised' = Append(raised, [launch |-> m, class |-> d]),
           NEW n, NEW c, IsFirst(n, c)
    PROVE  IsFirst(n, c)'
<1>1. CASE raised' = raised
  BY <1>1 DEF IsFirst
<1>2. ASSUME NEW m \in Launches, NEW d \in ExceptionClasses,
             raised' = Append(raised, [launch |-> m, class |-> d])
      PROVE  IsFirst(n, c)'
  <2> DEFINE R == [launch : Launches, class : ExceptionClasses]
             r == [launch |-> m, class |-> d]
  <2>1. raised \in Seq(R) /\ raised' = Append(raised, r)
    BY <1>2 DEF TypeOK
  <2> HIDE DEF R, r
  <2>2. /\ DOMAIN raised = 1 .. Len(raised) /\ Len(raised) \in Nat
        /\ DOMAIN raised' = 1 .. Len(raised) + 1
        /\ \A i \in 1 .. Len(raised) : raised'[i] = raised[i]
    BY <2>1
  <2>3. PICK i \in DOMAIN raised : /\ raised[i] = [launch |-> n, class |-> c]
                                   /\ \A j \in 1 .. (i - 1) : raised[j].launch # n
    BY DEF IsFirst
  <2>4. /\ i \in DOMAIN raised' /\ raised'[i] = raised[i]
        /\ \A j \in 1 .. (i - 1) : raised'[j] = raised[j]
    BY <2>2, <2>3
  <2>5. \A j \in 1 .. (i - 1) : raised'[j].launch # n
    BY <2>3, <2>4
  <2> QED
    BY <2>3, <2>4, <2>5 DEF IsFirst
<1> QED
  BY <1>1, <1>2

\* An exception is the first of a program that had raised nothing, and is
\* nothing to any other.
LEMMA Raises ==
    ASSUME TypeOK, NEW n \in Launches, NEW c \in ExceptionClasses,
           raised' = Append(raised, [launch |-> n, class |-> c])
    PROVE  /\ \A m \in Launches : m # n /\ Quietly(m) => Quietly(m)'
           /\ Quietly(n) => IsFirst(n, c)'
<1> DEFINE R == [launch : Launches, class : ExceptionClasses]
           r == [launch |-> n, class |-> c]
<1>1. raised \in Seq(R) /\ raised' = Append(raised, r) /\ r.launch = n
  BY DEF TypeOK
<1> HIDE DEF R, r
<1>2. /\ DOMAIN raised = 1 .. Len(raised) /\ Len(raised) \in Nat
      /\ DOMAIN raised' = 1 .. Len(raised) + 1
      /\ \A i \in 1 .. Len(raised) : raised'[i] = raised[i]
      /\ raised'[Len(raised) + 1] = r
  BY <1>1
<1>3. ASSUME NEW m \in Launches, m # n, Quietly(m) PROVE Quietly(m)'
  BY <1>1, <1>2, <1>3 DEF Quietly
<1>4. ASSUME Quietly(n) PROVE IsFirst(n, c)'
  <2>1. \A j \in 1 .. (Len(raised) + 1 - 1) : raised'[j].launch # n
    BY <1>2, <1>4 DEF Quietly
  <2>2. Len(raised) + 1 \in DOMAIN raised'
    BY <1>2
  <2>3. raised'[Len(raised) + 1] = [launch |-> n, class |-> c]
    BY <1>2 DEF r
  <2> QED
    BY <2>1, <2>2, <2>3 DEF IsFirst
<1> QED
  BY <1>3, <1>4

\* A launch that a step leaves alone, or whose connection it closes.
LEMMA KeepsItsWay ==
    ASSUME NEW n, OnItsWay(n),
           loop'[n] = loop[n], queried'[n] = queried[n], eventRx'[n] = eventRx[n],
           \A c : IsFirst(n, c) => IsFirst(n, c)', Quietly(n) => Quietly(n)',
           n > launches' => n > launches,
           \/ conn'[n] = conn[n]
           \/ conn[n] \notin {"none", "closed", "cleared"} /\ conn'[n] = "closed",
           Over(n) \/ (Settled(n) => Settled(n)')
    PROVE  OnItsWay(n)'
<1> DEFINE h == Head(eventRx[n])
           e == queried[n].event
           c == queried[n].class
<1>1. /\ Head(eventRx'[n]) = h
      /\ queried'[n].event = e /\ queried'[n].class = c /\ queried'[n].jvm = queried[n].jvm
  OBVIOUS
<1>2. NoneTaken(n) => NoneTaken(n)'
  <2>1. IsFirst(n, h) => \E i \in DOMAIN raised' :
            /\ raised'[i] = [launch |-> n, class |-> h]
            /\ \A j \in 1 .. (i - 1) : raised'[j].launch # n
    BY DEF IsFirst
  <2> QED
    BY <1>1, <2>1 DEF NoneTaken, IsFirst
<1>3. IsFirst(n, e) => IsFirst(n, queried[n].event)'
  <2>1. IsFirst(n, e) => \E i \in DOMAIN raised' :
            /\ raised'[i] = [launch |-> n, class |-> e]
            /\ \A j \in 1 .. (i - 1) : raised'[j].launch # n
    BY DEF IsFirst
  <2> QED
    BY <1>1, <2>1 DEF IsFirst
<1>4. IsFirst(n, c) => IsFirst(n, queried[n].class)'
  <2>1. IsFirst(n, c) => \E i \in DOMAIN raised' :
            /\ raised'[i] = [launch |-> n, class |-> c]
            /\ \A j \in 1 .. (i - 1) : raised'[j].launch # n
    BY DEF IsFirst
  <2> QED
    BY <1>1, <2>1 DEF IsFirst
<1> QED
  BY <1>1, <1>2, <1>3, <1>4 DEF OnItsWay, FirstIfAny, Over

\* Nothing new is raised or reported.
LEMMA SameFirst ==
    ASSUME raised' = raised
    PROVE  /\ \A n, c : IsFirst(n, c) <=> IsFirst(n, c)'
           /\ \A n : Quietly(n) <=> Quietly(n)'
  BY DEF IsFirst, Quietly

\* What the session holds and what has been reported stay as they are.
LEMMA ReportsStay ==
    ASSUME FirstIfAny(session, exception), Causes,
           UNCHANGED <<session, exception, terminated>>,
           \A n, c : IsFirst(n, c) => IsFirst(n, c)'
    PROVE  FirstIfAny(session, exception)' /\ Causes'
<1>1. FirstIfAny(session, exception)'
  BY DEF FirstIfAny, IsFirst
<1>2. ASSUME NEW i \in DOMAIN terminated, NEW n, NEW c,
             n = terminated[i].launch, c = terminated[i].cause, c # NoException
      PROVE  IsFirst(n, c)'
  BY <1>2 DEF Causes
<1> QED
  BY <1>1, <1>2 DEF Causes, IsFirst

LEMMA FirstJvm ==
    ASSUME PatientInv, NEW n \in Launches,
           \/ \E c \in ExceptionClasses : JvmRaises(n, c)
           \/ JvmCloses(n) \/ JvmExits(n) \/ ReadLoopCloses(n)
    PROVE  FirstOnly'
<1> USE DEF PatientInv, SessionInv
<1>1. /\ UNCHANGED <<loop, queried, launches, session, exception, main, terminated>>
      /\ \A m \in Launches \ {n} : eventRx'[m] = eventRx[m] /\ conn'[m] = conn[m]
      /\ \/ raised' = raised
         \/ \E m \in Launches, d \in ExceptionClasses :
                raised' = Append(raised, [launch |-> m, class |-> d])
  BY DEF JvmRaises, JvmCloses, JvmExits, ReadLoopCloses, Closed, TypeOK, loopVars,
         sessionVars
<1>2. \A m, c : IsFirst(m, c) => IsFirst(m, c)'
  BY <1>1, StaysFirst
<1>3. \A m \in Launches \ {n} : Quietly(m) => Quietly(m)'
  <2>1. CASE raised' = raised
    BY <2>1 DEF Quietly
  <2>2. CASE \E c \in ExceptionClasses : JvmRaises(n, c)
    BY <2>2, Raises DEF JvmRaises
  <2> QED
    BY <2>1, <2>2 DEF JvmCloses, JvmExits, ReadLoopCloses
<1>4. ASSUME NEW m \in Launches \ {n} PROVE OnItsWay(m)'
  <2>1. Settled(m) => Settled(m)'
    BY <1>1 DEF Settled
  <2> QED
    BY <1>1, <1>2, <1>3, <2>1, KeepsItsWay DEF FirstOnly
<1>5. OnItsWay(n) /\ n \in Launches
  BY DEF FirstOnly
<1>6. ASSUME NEW c \in ExceptionClasses, JvmRaises(n, c) PROVE OnItsWay(n)'
  <2>1. /\ conn[n] = "open" /\ conn' = conn
        /\ raised' = Append(raised, [launch |-> n, class |-> c])
        /\ eventRx[n] \in Seq(Exceptions \cup {"VmDeath"})
        /\ c \in Exceptions \cup {"VmDeath"}
        /\ eventRx'[n] = Append(eventRx[n], c)
    BY <1>6 DEF JvmRaises, TypeOK, Exceptions
  <2>2. ASSUME NoneTaken(n) PROVE NoneTaken(n)'
    <3>1. CASE eventRx[n] = <<>> /\ Quietly(n)
      <4>1. IsFirst(n, c)'
        BY <2>1, <3>1, Raises
      <4>2. eventRx'[n] # <<>> /\ Head(eventRx'[n]) = c
        BY <2>1, <3>1
      <4> QED
        BY <4>1, <4>2 DEF NoneTaken, IsFirst
    <3>2. CASE eventRx[n] # <<>> /\ IsFirst(n, Head(eventRx[n]))
      <4>1. eventRx'[n] # <<>> /\ Head(eventRx'[n]) = Head(eventRx[n])
        BY <2>1, <3>2, AppendProperties
      <4>2. \E i \in DOMAIN raised' :
                /\ raised'[i] = [launch |-> n, class |-> Head(eventRx[n])]
                /\ \A j \in 1 .. (i - 1) : raised'[j].launch # n
        BY <1>2, <3>2 DEF IsFirst
      <4> QED
        BY <4>1, <4>2 DEF NoneTaken, IsFirst
    <3> QED
      BY <2>2, <3>1, <3>2 DEF NoneTaken
  <2>3. Settled(n) => Settled(n)'
    BY <1>1, <2>1 DEF Settled
  <2>4. loop[n] = "query" => IsFirst(n, queried[n].event)'
    <3>1. loop[n] = "query" => IsFirst(n, queried[n].event)
      BY <1>5, <2>1 DEF OnItsWay
    <3> QED
      BY <1>1, <1>2, <3>1 DEF IsFirst
  <2>5. IsFirst(n, queried[n].class) => IsFirst(n, queried[n].class)'
    BY <1>1, <1>2 DEF IsFirst
  <2> QED
    BY <1>1, <1>5, <2>1, <2>2, <2>3, <2>4, <2>5 DEF OnItsWay, FirstIfAny
<1>7. ASSUME JvmCloses(n) \/ JvmExits(n) PROVE OnItsWay(n)'
  <2>1. /\ raised' = raised /\ eventRx' = eventRx
        /\ \/ conn'[n] = conn[n]
           \/ conn[n] \notin {"none", "closed", "cleared"} /\ conn'[n] = "closed"
    BY <1>7 DEF JvmCloses, JvmExits, Closed, TypeOK
  <2>2. Settled(n) => Settled(n)'
    BY <1>1, <2>1 DEF Settled
  <2> QED
    BY <1>1, <1>2, <1>5, <2>1, <2>2, SameFirst, KeepsItsWay
<1>8. ASSUME ReadLoopCloses(n) PROVE OnItsWay(n)'
  <2>1. /\ raised' = raised /\ conn[n] = "closed" /\ conn'[n] = "cleared"
    BY <1>8 DEF ReadLoopCloses, TypeOK
  <2>2. IsFirst(n, queried[n].class) => IsFirst(n, queried[n].class)'
    BY <1>1, <1>2 DEF IsFirst
  <2> QED
    BY <1>1, <1>5, <2>1, <2>2 DEF OnItsWay, FirstIfAny, Settled
<1>9. OnItsWay(n)'
  BY <1>6, <1>7, <1>8
<1>10. FirstIfAny(session, exception)' /\ Causes'
  BY <1>1, <1>2, ReportsStay DEF FirstOnly
<1>11. main' \in {"building", "connecting"} => conn'[launches'] = "none"
  <2>1. ASSUME NEW m \in Launches, conn[m] = "none" PROVE conn'[m] = "none"
    BY <2>1 DEF JvmRaises, JvmCloses, JvmExits, ReadLoopCloses, Closed, TypeOK
  <2>2. main \in {"building", "connecting"} =>
            launches \in Launches /\ conn[launches] = "none"
    BY DEF FirstOnly, OneLaunch, Launching, Starting
  <2> QED
    BY <1>1, <2>1, <2>2
<1> QED
  BY <1>1, <1>4, <1>9, <1>10, <1>11 DEF FirstOnly

\* A terminated event names the first exception of its launch, or none.
LEMMA ReportsGrow ==
    ASSUME TypeOK, Causes, raised' = raised,
           NEW by, NEW n, NEW c, Terminated(by, n, c), FirstIfAny(n, c)
    PROVE  Causes'
<1> DEFINE T == [by : {"launch", "loop", "disconnect"},
                 launch : 0 .. MaxLaunches, cause : Exceptions]
           t == [by |-> by, launch |-> n, cause |-> c]
<1>1. /\ terminated \in Seq(T) /\ terminated' = Append(terminated, t)
      /\ t.launch = n /\ t.cause = c
  BY DEF TypeOK, Terminated
<1> HIDE DEF T, t
<1>2. /\ DOMAIN terminated = 1 .. Len(terminated) /\ Len(terminated) \in Nat
      /\ DOMAIN terminated' = 1 .. Len(terminated) + 1
      /\ \A i \in 1 .. Len(terminated) : terminated'[i] = terminated[i]
      /\ terminated'[Len(terminated) + 1] = t
  BY <1>1
<1>3. ASSUME NEW i \in DOMAIN terminated', NEW m, NEW d,
             m = terminated'[i].launch, d = terminated'[i].cause, d # NoException
      PROVE  IsFirst(m, d)
  <2>1. CASE i \in 1 .. Len(terminated)
    BY <1>2, <1>3, <2>1 DEF Causes
  <2>2. CASE i = Len(terminated) + 1
    BY <1>1, <1>2, <1>3, <2>2 DEF FirstIfAny
  <2> QED
    BY <1>2, <2>1, <2>2
<1> QED
  BY <1>3 DEF Causes, IsFirst

LEMMA FirstLoop ==
    ASSUME PatientInv, NEW n \in Launches, EventLoop(n)
    PROVE  FirstOnly'
<1> USE DEF PatientInv, SessionInv
<1>1. PICK from, to : LoopMoves(n, from, to) /\ from \notin {"none", "done", "cancelled"}
  BY DEF EventLoop, TakeException, QueryClass, SetException, ExceptionResume,
         LoopHangs, TakeVmDeath, AwaitExit, Kill, EndSession, Report, LoopMoves
<1>2. /\ loop[n] = from /\ loop'[n] = to
      /\ \A m \in Launches \ {n} : loop'[m] = loop[m]
  BY <1>1 DEF LoopMoves, TypeOK
<1>3. n = launches /\ main \notin Starting /\ session \in {0, n} /\ n # 0
  <2>1. ~Over(n)
    BY <1>1, <1>2 DEF Over
  <2> QED
    BY <2>1, LoopIsCurrent, LaunchesAssumption DEF OneAtATime, Launches
<1>4. ASSUME NEW m \in Launches \ {n}, ~Over(m) PROVE FALSE
  BY <1>3, <1>4, LoopIsCurrent
<1>5. /\ UNCHANGED <<launches, main, raised>>
      /\ \A m \in Launches \ {n} : /\ queried'[m] = queried[m]
                                   /\ eventRx'[m] = eventRx[m]
                                   /\ conn'[m] = conn[m]
  BY DEF EventLoop, TakeException, QueryClass, SetException, ExceptionResume,
         LoopHangs, TakeVmDeath, AwaitExit, Kill, Closed, EndSession, Report,
         jvmVars, sessionVars, TypeOK
<1>6. ASSUME NEW m \in Launches \ {n} PROVE OnItsWay(m)'
  BY <1>2, <1>4, <1>5, SameFirst, KeepsItsWay DEF FirstOnly
<1>7. main' \notin {"building", "connecting"}
  BY <1>3, <1>5 DEF Starting
<1>8. SUFFICES FirstIfAny(session, exception)' /\ Causes' /\ OnItsWay(n)'
  <2>1. session' = 0 => exception' = NoException
    BY DEF FirstOnly, EventLoop, TakeException, QueryClass, SetException,
           ExceptionResume, LoopHangs, TakeVmDeath, AwaitExit, Kill, EndSession,
           Report, sessionVars
  <2> QED
    BY <1>6, <1>7, <2>1 DEF FirstOnly
<1>9. OnItsWay(n) /\ FirstIfAny(session, exception) /\ Causes
  BY DEF FirstOnly
<1>10. UNCHANGED <<session, exception, terminated>> =>
           FirstIfAny(session, exception)' /\ Causes'
  BY <1>5, <1>9, SameFirst, ReportsStay
<1>11. \A m, c : IsFirst(m, c) => IsFirst(m, c)'
  BY <1>5, SameFirst
<1>12. CASE TakeException(n)
  <2>1. /\ eventRx[n] # <<>> /\ Head(eventRx[n]) \in ExceptionClasses
        /\ queried'[n] = [event |-> Head(eventRx[n]), class |-> NoException,
                          jvm |-> session]
        /\ loop[n] = "select"
        /\ loop'[n] = IF session # 0 /\ Unseen THEN "query" ELSE "set"
        /\ UNCHANGED <<conn, session, exception, terminated>>
    BY <1>12 DEF TakeException, LoopMoves, TypeOK, jvmVars, sessionVars
  <2>2. NoneTaken(n) \/ Settled(n)
    BY <1>9, <2>1 DEF OnItsWay
  <2>3. conn[n] # "none" /\ ~(n > launches)
    BY <1>9, <2>1 DEF OnItsWay
  <2>4. CASE session # 0 /\ Unseen
    <3>1. /\ queried'[n].jvm = n /\ queried'[n].event = Head(eventRx[n])
          /\ loop'[n] = "query"
      BY <1>3, <2>1, <2>4
    <3>2. IsFirst(n, Head(eventRx[n])) \/ conn[n] # "open"
      BY <1>3, <2>1, <2>2, <2>4 DEF NoneTaken, Settled, Unseen
    <3>3. IsFirst(n, queried[n].event)' \/ conn'[n] # "open"
      BY <1>5, <2>1, <3>1, <3>2 DEF IsFirst
    <3> QED
      BY <1>5, <1>10, <2>1, <2>3, <3>1, <3>3 DEF OnItsWay
  <2>5. CASE ~(session # 0 /\ Unseen)
    <3>1. Settled(n)'
      BY <1>3, <2>1, <2>5 DEF Settled, Unseen
    <3>2. loop'[n] = "set" /\ queried'[n].class = NoException
      BY <2>1, <2>5
    <3> QED
      BY <1>5, <1>10, <2>1, <2>3, <3>1, <3>2 DEF OnItsWay
  <2> QED
    BY <2>4, <2>5
<1>13. CASE QueryClass(n)
  <2>1. /\ loop[n] = "query" /\ loop'[n] = "set"
        /\ UNCHANGED <<conn, eventRx, session, exception, terminated>>
    BY <1>13 DEF QueryClass, LoopMoves, TypeOK, jvmVars, sessionVars
  <2>2. PICK c \in ClassesSaid(n) : queried' = [queried EXCEPT ![n].class = c]
    BY <1>13 DEF QueryClass
  <2>3. queried'[n].class = c
    BY <2>2 DEF TypeOK
  <2>4. /\ queried[n].jvm = n /\ queried[n].event \in ExceptionClasses
        /\ IsFirst(n, queried[n].event) \/ conn[n] # "open"
        /\ conn[n] = "none" => Quietly(n) /\ eventRx[n] = <<>>
        /\ ~(n > launches) \/ conn[n] = "none"
    BY <1>9, <2>1 DEF OnItsWay
  <2>5. IF conn[n] = "open" THEN c = queried[n].event ELSE c = NoException
    <3>1. CASE conn[n] = "open"
      <4>1. ClassesSaid(n) = {queried[n].event}
        BY <2>4, <3>1 DEF ClassesSaid
      <4> QED
        BY <2>2, <3>1, <4>1
    <3>2. CASE conn[n] # "open"
      <4>1. ClassesSaid(n) = {NoException}
        BY <2>4, <3>2 DEF ClassesSaid
      <4> QED
        BY <2>2, <3>2, <4>1
    <3> QED
      BY <3>1, <3>2
  <2>6. c = NoException => Settled(n)'
    BY <2>1, <2>4, <2>5, ExceptionsAssumption DEF Settled
  <2>7. c # NoException => IsFirst(n, queried[n].class)'
    <3>1. c # NoException => IsFirst(n, c)
      BY <2>4, <2>5
    <3> QED
      BY <1>5, <2>3, <3>1 DEF IsFirst
  <2>8. Quietly(n) => Quietly(n)'
    BY <1>5 DEF Quietly
  <2> QED
    BY <1>5, <1>10, <2>1, <2>3, <2>4, <2>6, <2>7, <2>8 DEF OnItsWay
<1>14. CASE SetException(n)
  <2>1. /\ loop[n] = "set" /\ queried'[n] = NoQuery
        /\ loop'[n] = IF session # 0 THEN "resume" ELSE "select"
        /\ UNCHANGED <<conn, eventRx, session, terminated>>
        /\ exception' = IF session # 0 /\ Unseen THEN queried[n].class ELSE exception
    BY <1>14 DEF SetException, LoopMoves, TypeOK, jvmVars
  <2>2. /\ IF queried[n].class = NoException THEN Settled(n)
           ELSE IsFirst(n, queried[n].class)
        /\ conn[n] = "none" => Quietly(n) /\ eventRx[n] = <<>>
        /\ ~(n > launches) \/ conn[n] = "none"
    BY <1>9, <2>1 DEF OnItsWay
  <2>3. Settled(n)'
    BY <1>3, <2>1, <2>2 DEF Settled, Unseen
  <2>4. FirstIfAny(session, exception)'
    <3>1. session # 0 => session = n
      BY <1>3
    <3>2. exception' # NoException => IsFirst(session, exception')
      BY <1>9, <2>1, <2>2, <3>1 DEF FirstIfAny
    <3> QED
      BY <1>5, <2>1, <3>2 DEF FirstIfAny, IsFirst
  <2>5. Causes'
    BY <1>5, <1>9, <2>1 DEF Causes, IsFirst
  <2>6. Quietly(n) => Quietly(n)'
    BY <1>5 DEF Quietly
  <2> QED
    BY <1>5, <2>1, <2>2, <2>3, <2>4, <2>5, <2>6 DEF OnItsWay
<1>15. CASE ExceptionResume(n)
  <2>1. /\ loop[n] = "resume" /\ loop'[n] = "select"
        /\ UNCHANGED <<conn, eventRx, session, exception, terminated>>
    BY <1>15 DEF ExceptionResume, LoopMoves, TypeOK, sessionVars
  <2>2. Settled(n)'
    BY <1>9, <2>1 DEF OnItsWay, Settled
  <2>3. Quietly(n) => Quietly(n)'
    BY <1>5 DEF Quietly
  <2> QED
    BY <1>5, <1>9, <1>10, <2>1, <2>2, <2>3 DEF OnItsWay
<1>16. CASE LoopHangs(n) \/ TakeVmDeath(n) \/ AwaitExit(n) \/ Kill(n)
  <2>1. /\ loop'[n] \in {"hung", "exiting", "ending"}
        /\ UNCHANGED <<session, exception, terminated>>
        /\ conn'[n] = "none" => conn[n] = "none"
        /\ conn[n] = "none" => conn'[n] = "none"
        /\ eventRx'[n] = eventRx[n] \/ eventRx[n] # <<>>
    BY <1>16 DEF LoopHangs, TakeVmDeath, AwaitExit, Kill, Closed, LoopMoves, TypeOK,
                 jvmVars, sessionVars
  <2>2. Quietly(n) => Quietly(n)'
    BY <1>5 DEF Quietly
  <2> QED
    BY <1>5, <1>9, <1>10, <2>1, <2>2 DEF OnItsWay
<1>17. CASE EndSession(n)
  <2>1. /\ loop'[n] = "reporting" /\ session' = 0 /\ exception' = NoException
        /\ queried'[n] = [NoQuery EXCEPT !.class = exception]
        /\ UNCHANGED <<conn, eventRx, terminated>>
    BY <1>17 DEF EndSession, LoopMoves, TypeOK, jvmVars
  <2>2. queried'[n].class = exception
    BY <2>1 DEF NoQuery
  <2>3. exception # NoException => session = n
    BY <1>3 DEF FirstOnly
  <2>4. FirstIfAny(n, queried[n].class)'
    <3>1. exception # NoException => IsFirst(n, exception)
      BY <1>9, <2>3 DEF FirstIfAny
    <3> QED
      BY <1>5, <2>2, <3>1 DEF FirstIfAny, IsFirst
  <2>5. FirstIfAny(session, exception)' /\ Causes'
    BY <1>5, <1>9, <2>1 DEF FirstIfAny, Causes, IsFirst
  <2>6. Quietly(n) => Quietly(n)'
    BY <1>5 DEF Quietly
  <2> QED
    BY <1>5, <1>9, <2>1, <2>4, <2>5, <2>6 DEF OnItsWay
<1>18. CASE Report(n)
  <2>1. /\ loop[n] = "reporting" /\ loop'[n] = "done"
        /\ Terminated("loop", n, queried[n].class)
        /\ UNCHANGED <<conn, eventRx, session, exception>>
    BY <1>18 DEF Report, LoopMoves, TypeOK, jvmVars, sessionVars
  <2>2. FirstIfAny(n, queried[n].class)
    BY <1>9, <2>1 DEF OnItsWay
  <2>3. Causes'
    BY <1>5, <1>9, <2>1, <2>2, ReportsGrow
  <2>4. FirstIfAny(session, exception)'
    BY <1>5, <1>9, <2>1 DEF FirstIfAny, IsFirst
  <2>5. Quietly(n) => Quietly(n)'
    BY <1>5 DEF Quietly
  <2> QED
    BY <1>5, <1>9, <2>1, <2>3, <2>4, <2>5 DEF OnItsWay
<1> QED
  BY <1>12, <1>13, <1>14, <1>15, <1>16, <1>17, <1>18 DEF EventLoop

\* What the main task does to a launch, but for its connection and its session.
LEMMA FirstMain ==
    ASSUME PatientInv, MainTask
    PROVE  FirstOnly'
<1> USE DEF PatientInv, SessionInv
<1>1. UNCHANGED <<raised, eventRx, queried>>
  BY DEF MainTask, HandleLaunch, Spawn, Connect, Register, RegisterHangs,
         LaunchFails, StoreSession, RespondToLaunch, HandleConfigurationDone,
         ConfigurationResume, ConfigurationHangs, HandleDisconnect,
         TerminateDirectly, MainReturns, jvmVars, loopVars
<1>2. /\ \A m, c : IsFirst(m, c) => IsFirst(m, c)'
      /\ \A m : Quietly(m) => Quietly(m)'
  BY <1>1, SameFirst
<1>3. launches \in Nat /\ \A n \in Launches : n \in Nat /\ n # 0
  BY LaunchesAssumption DEF TypeOK, Launches
<1>4. Causes'
  <2>1. CASE LaunchFails \/ TerminateDirectly
    <3>1. PICK by : Terminated(by, launches, NoException)
      BY <2>1 DEF LaunchFails, TerminateDirectly
    <3> QED
      BY <1>1, <3>1, ReportsGrow DEF FirstOnly, FirstIfAny
  <2>2. CASE UNCHANGED terminated
    BY <1>2, <2>2 DEF FirstOnly, Causes, IsFirst
  <2> QED
    BY <2>1, <2>2
       DEF MainTask, HandleLaunch, Spawn, Connect, Register, RegisterHangs,
           StoreSession, RespondToLaunch, HandleConfigurationDone,
           ConfigurationResume, ConfigurationHangs, HandleDisconnect, MainReturns
<1>5. FirstIfAny(session, exception)' /\ (session' = 0 => exception' = NoException)
  <2>1. CASE exception' = NoException
    BY <2>1 DEF FirstIfAny
  <2>2. CASE UNCHANGED <<session, exception>>
    BY <1>2, <2>2 DEF FirstOnly, FirstIfAny, IsFirst
  <2> QED
    BY <2>1, <2>2
       DEF MainTask, HandleLaunch, Spawn, Connect, Register, RegisterHangs,
           LaunchFails, StoreSession, RespondToLaunch, HandleConfigurationDone,
           ConfigurationResume, ConfigurationHangs, HandleDisconnect,
           TerminateDirectly, MainReturns, sessionVars
<1>6. ASSUME UNCHANGED <<loop, conn>>, launches' \in {launches, launches + 1},
             session' \in {0, session}, session' # 0 => exception' = exception,
             NEW n \in Launches
      PROVE  OnItsWay(n)'
  <2>1. Settled(n) => Settled(n)'
    BY <1>3, <1>6 DEF Settled
  <2> QED
    BY <1>1, <1>2, <1>3, <1>6, <2>1, KeepsItsWay DEF FirstOnly
<1>7. CASE HandleLaunch
  <2>1. /\ main' = "building" /\ launches' = launches + 1
        /\ UNCHANGED <<loop, conn, session, exception>>
    BY <1>7 DEF HandleLaunch, jvmVars, loopVars, sessionVars
  <2>2. launches' \in Launches
    <3>1. SessionInv' /\ SessionInv
      BY InvMain
    <3> QED
      BY <2>1, <3>1 DEF OneLaunch, Launching, Starting
  <2>3. conn'[launches'] = "none"
    BY <1>3, <2>1, <2>2 DEF FirstOnly, OnItsWay
  <2> QED
    BY <1>4, <1>5, <1>6, <2>1, <2>3 DEF FirstOnly
<1>8. CASE Connect
  <2>1. /\ main = "connecting" /\ main' = "registering"
        /\ conn' = [conn EXCEPT ![launches] = "open"]
        /\ UNCHANGED <<loop, launches, session, exception>>
    BY <1>8 DEF Connect, loopVars, sessionVars
  <2>2. /\ launches \in Launches /\ conn[launches] = "none"
        /\ loop[launches] = "none"
    BY <2>1 DEF FirstOnly, OneLaunch, NothingAhead, Launching, Starting
  <2>3. /\ conn'[launches] = "open"
        /\ \A n \in Launches \ {launches} : conn'[n] = conn[n]
    BY <2>1, <2>2 DEF TypeOK
  <2>4. ASSUME NEW n \in Launches \ {launches} PROVE OnItsWay(n)'
    <3>1. Settled(n) => Settled(n)'
      BY <2>1, <2>3 DEF Settled
    <3> QED
      BY <1>1, <1>2, <2>1, <2>3, <3>1, KeepsItsWay DEF FirstOnly
  <2>5. ASSUME NEW n \in Launches, n = launches PROVE OnItsWay(n)'
    <3>1. Quietly(n) /\ eventRx[n] = <<>>
      BY <2>2, <2>5 DEF FirstOnly, OnItsWay
    <3>2. NoneTaken(n)'
      BY <1>1, <1>2, <3>1 DEF NoneTaken
    <3>3. loop'[n] = "none" /\ conn'[n] = "open" /\ ~(n > launches')
      BY <1>3, <2>1, <2>2, <2>3, <2>5
    <3> QED
      BY <3>2, <3>3 DEF OnItsWay
  <2> QED
    BY <1>4, <1>5, <2>1, <2>4, <2>5 DEF FirstOnly
<1>9. CASE StoreSession
  <2>1. /\ main = "storing" /\ main' = "responding"
        /\ session' = launches /\ exception' = NoException
        /\ loop' = [loop EXCEPT ![launches] = "select"]
        /\ UNCHANGED <<conn, launches>>
    BY <1>9 DEF StoreSession, SpawnEventLoop, jvmVars
  <2>2. launches \in Launches /\ loop[launches] = "none"
    BY <2>1 DEF OneLaunch, NothingAhead, Launching, Starting
  <2>3. ASSUME NEW n \in Launches \ {launches} PROVE OnItsWay(n)'
    <3>1. Settled(n)' /\ loop'[n] = loop[n]
      BY <2>1, <2>2 DEF Settled, TypeOK
    <3> QED
      BY <1>1, <1>2, <2>1, <3>1, KeepsItsWay DEF FirstOnly
  <2>4. ASSUME NEW n \in Launches, n = launches PROVE OnItsWay(n)'
    <3>1. /\ NoneTaken(n) \/ conn[n] \in {"closed", "cleared"}
          /\ conn[n] = "none" => Quietly(n) /\ eventRx[n] = <<>>
      BY <2>2, <2>4 DEF FirstOnly, OnItsWay
    <3>2. NoneTaken(n)' \/ Settled(n)'
      <4>1. NoneTaken(n) => NoneTaken(n)'
        BY <1>1 DEF NoneTaken, Quietly, IsFirst
      <4>2. conn[n] \in {"closed", "cleared"} => Settled(n)'
        BY <2>1 DEF Settled
      <4> QED
        BY <3>1, <4>1, <4>2
    <3>3. loop'[n] = "select" /\ ~(n > launches')
      BY <1>3, <2>1, <2>2, <2>4 DEF TypeOK
    <3> QED
      BY <1>1, <1>2, <2>1, <3>1, <3>2, <3>3 DEF OnItsWay
  <2> QED
    BY <1>4, <1>5, <2>1, <2>3, <2>4 DEF FirstOnly
<1>10. CASE MainReturns
  <2>1. /\ main' = "returned" /\ session' = 0 /\ UNCHANGED launches
        /\ loop' = [n \in Launches |-> IF loop[n] \in {"none", "done"}
                                       THEN loop[n] ELSE "cancelled"]
        /\ conn' = [n \in Launches |-> IF conn[n] = "open" THEN "closed"
                                       ELSE conn[n]]
    BY <1>10 DEF MainReturns
  <2>2. ASSUME NEW n \in Launches PROVE OnItsWay(n)'
    <3>1. /\ n > launches => conn[n] = "none"
          /\ conn[n] = "none" => Quietly(n) /\ eventRx[n] = <<>>
      BY DEF FirstOnly, OnItsWay
    <3>2. /\ loop'[n] \in {"none", "done", "cancelled"}
          /\ conn'[n] = "none" => conn[n] = "none"
          /\ conn[n] = "none" => conn'[n] = "none"
      BY <2>1
    <3>3. conn'[n] \in {"none", "closed", "cleared"}
      BY <2>1 DEF TypeOK
    <3>4. conn'[n] = "none" => NoneTaken(n)'
      BY <1>1, <1>2, <3>1, <3>2 DEF NoneTaken
    <3> QED
      BY <1>1, <1>2, <2>1, <3>1, <3>2, <3>3, <3>4 DEF OnItsWay
  <2> QED
    BY <1>4, <1>5, <2>1, <2>2 DEF FirstOnly
<1>11. CASE \/ Spawn \/ Register \/ RegisterHangs \/ LaunchFails \/ RespondToLaunch
            \/ HandleConfigurationDone \/ ConfigurationResume \/ ConfigurationHangs
            \/ HandleDisconnect \/ TerminateDirectly
  <2>1. /\ UNCHANGED <<loop, conn, launches>>
        /\ session' \in {0, session} /\ (session' # 0 => exception' = exception)
        /\ main' \notin {"building", "connecting"} \/ main = "building"
    BY <1>11 DEF Spawn, Register, RegisterHangs, LaunchFails, RespondToLaunch,
                 HandleConfigurationDone, ConfigurationResume, ConfigurationHangs,
                 HandleDisconnect, TerminateDirectly, Receive, jvmVars, loopVars,
                 sessionVars
  <2> QED
    BY <1>4, <1>5, <1>6, <2>1 DEF FirstOnly
<1> QED
  BY <1>7, <1>8, <1>9, <1>10, <1>11 DEF MainTask

\* The invariant of the exceptions of a patient editor's programs.
LEMMA FirstExceptionOnly == Spec => [](patient => FirstOnly)
<1>1. ASSUME Init PROVE FirstOnly
  <2>1. \A n \in Launches : OnItsWay(n)
    BY <1>1 DEF Init, OnItsWay, Quietly, NoneTaken
  <2> QED
    BY <1>1, <2>1 DEF Init, FirstOnly, FirstIfAny, Causes
<1>2. ASSUME SessionInv, OneAtATime, FirstOnly, [Next]_vars
      PROVE  FirstOnly'
  <2>1. PatientInv
    BY <1>2 DEF PatientInv
  <2>2. ASSUME UNCHANGED <<raised, eventRx, loop, queried, conn, launches, session,
                           exception, main, terminated>>
        PROVE  FirstOnly'
    <3>1. ASSUME NEW n \in Launches PROVE OnItsWay(n)'
      <4>1. Settled(n) => Settled(n)'
        BY <2>2 DEF Settled
      <4> QED
        BY <1>2, <2>2, <4>1, SameFirst, KeepsItsWay DEF FirstOnly
    <3>2. FirstIfAny(session, exception)' /\ Causes'
      BY <1>2, <2>2, SameFirst, ReportsStay DEF FirstOnly
    <3> QED
      BY <1>2, <2>2, <3>1, <3>2 DEF FirstOnly
  <2>3. CASE Editor \/ UNCHANGED vars
    BY <2>2, <2>3 DEF Editor, EditorLaunches, EditorConfigures, EditorLeaves,
                      EditorCloses, EditorSends, vars, jvmVars, loopVars, sessionVars
  <2> QED
    BY <1>2, <2>1, <2>3, FirstJvm, FirstLoop, FirstMain DEF Next
<1>3. /\ Init => (patient => FirstOnly)
      /\ SessionInv /\ (patient => OneAtATime) /\ (patient => FirstOnly) /\ [Next]_vars
             => (patient => FirstOnly)'
  BY <1>1, <1>2, StaysPatient
<1> QED
  BY <1>3, SessionInvariant, OneLaunchAtATime, PTL DEF Spec

\* The cause that a terminated event names is the first uncaught exception of
\* its program, or none (server.rs:873) - never a later one, although the
\* session is unlocked between the look at the exception and its storing, nor
\* one of another program, although the event loop stores it in whatever
\* session there is - if the editor launches again only after that event.
THEOREM NamesFirstException == Spec => []CauseIsFirstException
<1>1. (patient => FirstOnly) => CauseIsFirstException
  BY DEF FirstOnly, Causes, CauseIsFirstException
<1> QED
  BY FirstExceptionOnly, <1>1, PTL

=============================================================================
