-------------------------- MODULE ExecutionProofs --------------------------
(***************************************************************************)
(* Theorems about module Execution, for every value of its constants: any  *)
(* number of threads, of granted step requests and of queued events, and   *)
(* any composites, those with several stops included; and that it imple- *)
(* ments the debugger of module Debuggee.                                  *)
(***************************************************************************)
EXTENDS Execution, SequenceTheorems, TLAPS

-----------------------------------------------------------------------------
(* Type correctness.                                                       *)

\* The events of one suspension are events.
LEMMA StopEventsType ==
    ASSUME NEW t \in Threads, NEW c \in Composites, NEW id \in Nat
    PROVE  LET events == [i \in 1 .. Len(c) |->
                            [kind |-> c[i], thread |-> t,
                             request |-> IF c[i] = "Step" THEN id ELSE 0]]
           IN  /\ events \in Seq(Event)
               /\ events # <<>>
               /\ Len(events) = Len(c)
<1> DEFINE events == [i \in 1 .. Len(c) |->
                        [kind |-> c[i], thread |-> t,
                         request |-> IF c[i] = "Step" THEN id ELSE 0]]
<1>1. c \in Seq(StopKinds) /\ c # <<>>
  BY CompositesAssumption
<1>2. Len(c) \in Nat /\ Len(c) # 0
  BY <1>1
<1>3. \A i \in 1 .. Len(c) : c[i] \in StopKinds
  BY <1>1
<1>4. \A i \in 1 .. Len(c) : events[i] \in Event
  BY <1>3 DEF Event
<1>5. events \in Seq(Event) /\ Len(events) = Len(c)
  BY <1>2, <1>4
<1>6. events # <<>>
  BY <1>2, <1>5
<1> QED
  BY <1>5, <1>6

\* An event taken from the queue is an event, and the rest is a queue.
LEMMA TakeType ==
    ASSUME TypeOK, NEW kind, Take(kind)
    PROVE  Head(eventRx) \in Event /\ eventRx' \in Seq(Event)
BY HeadTailProperties DEF TypeOK, Take

\* A request taken from the inbox leaves an inbox.
LEMMA ReceiveType ==
    ASSUME TypeOK, NEW request, Receive(request)
    PROVE  inbox' \in Seq({"configurationDone", "continue", "step",
                           "disconnect"})
BY HeadTailProperties DEF TypeOK, Receive

LEMMA TypeJvm == TypeOK /\ Jvm => TypeOK'
<1> SUFFICES ASSUME TypeOK, Jvm PROVE TypeOK'
  OBVIOUS
<1>0. single' = single
  BY DEF Jvm
<1> USE <1>0
<1>1. ASSUME NEW t \in Threads, JvmStop(t) PROVE TypeOK'
  <2>1. PICK c \in Composites, id \in 0 .. lastRequest :
           Suspend([i \in 1 .. Len(c) |->
                      [kind |-> c[i], thread |-> t,
                       request |-> IF c[i] = "Step" THEN id ELSE 0]])
    BY <1>1 DEF JvmStop
  <2>2. id \in Nat
    BY DEF TypeOK
  <2>3. eventRx' \in Seq(Event)
    BY <2>1, <2>2, StopEventsType, ConcatProperties DEF Suspend, TypeOK
  <2> QED
    BY <2>1, <2>3 DEF TypeOK, Suspend, sessionVars, editorVars
<1>2. ASSUME NEW t \in Threads, JvmClassPrepare(t) \/ JvmException(t)
      PROVE  TypeOK'
  <2>1. PICK e \in Event : Suspend(<<e>>)
    BY <1>2 DEF JvmClassPrepare, JvmException, Event
  <2>2. eventRx' \in Seq(Event)
    BY <2>1, ConcatProperties DEF Suspend, TypeOK
  <2> QED
    BY <2>1, <2>2 DEF TypeOK, Suspend, sessionVars, editorVars
<1>3. CASE JvmDeath
  <2>1. eventRx' \in Seq(Event)
    BY <1>3, AppendProperties DEF JvmDeath, TypeOK, Event
  <2> QED
    BY <1>3, <2>1 DEF TypeOK, JvmDeath, sessionVars, editorVars
<1> QED
  BY <1>1, <1>2, <1>3 DEF Jvm

LEMMA TypeEditor == TypeOK /\ Editor => TypeOK'
<1> SUFFICES ASSUME TypeOK, Editor PROVE TypeOK'
  OBVIOUS
<1>0. single' = single
  BY DEF Editor
<1> USE <1>0
<1> DEFINE Requests == {"configurationDone", "continue", "step", "disconnect"}
<1>1. PICK request \in Requests : Send(request)
  BY DEF Editor, EditorConfigured, EditorResumes, EditorLeaves
<1>2. inbox' \in Seq(Requests)
  BY <1>1, AppendProperties DEF Send, TypeOK
<1>3. editor' \in {"running", "gone"}
  BY DEF Editor, EditorConfigured, EditorResumes, EditorLeaves
<1>4. UNCHANGED <<jvmVars, eventRx, sessionVars, main, loop>>
  BY DEF Editor, EditorConfigured, EditorResumes, EditorLeaves
<1> QED
  BY <1>2, <1>3, <1>4 DEF TypeOK, jvmVars, sessionVars

LEMMA TypeMain == TypeOK /\ MainTask => TypeOK'
<1> SUFFICES ASSUME TypeOK, MainTask PROVE TypeOK'
  OBVIOUS
<1>0. single' = single
  BY DEF MainTask
<1> USE <1>0
<1> USE DEF TypeOK, jvmVars, sessionVars, editorVars, MainPcs, MainIdle,
            ResumeJvm, ClearSnapshot, DropSession, EditorSeesStop
<1>1. CASE HandleConfigurationDone
  BY <1>1, ReceiveType DEF HandleConfigurationDone
<1>2. CASE HandleContinue
  <2>1. inbox' \in Seq({"configurationDone", "continue", "step", "disconnect"})
    BY <1>2, ReceiveType DEF HandleContinue
  <2>2. main' \in [pc : MainPcs, thread : Threads \cup {NoThread}, step : Nat]
    BY <1>2 DEF HandleContinue
  <2>3. main'.pc \in {"idle", "continueClear", "resume"}
    BY <1>2 DEF HandleContinue, Receive
  <2> QED
    BY <1>2, <2>1, <2>2, <2>3 DEF HandleContinue
<1>3. CASE ContinueClear
  BY <1>3 DEF ContinueClear, ClearInJvm
<1>4. CASE HandleStep
  BY <1>4, ReceiveType DEF HandleStep, ThreadToStep
<1>5. CASE StepClear
  BY <1>5 DEF StepClear, ClearInJvm
<1>6. CASE StepSet
  <2>1. main.thread \in Threads
    BY <1>6 DEF StepSet
  <2>2. lastRequest' \in Nat \ {0}
    BY <1>6 DEF StepSet
  <2>3. main' \in [pc : MainPcs, thread : Threads \cup {NoThread}, step : Nat]
    BY <1>6, <2>1, <2>2 DEF StepSet
  <2>4. stepRequests' \subseteq StepRequest
    BY <1>6, <2>1, <2>2 DEF StepSet, StepRequest
  <2> QED
    BY <1>6, <2>2, <2>3, <2>4 DEF StepSet
<1>7. CASE StepSetFails
  BY <1>7 DEF StepSetFails
<1>8. CASE StepStore
  BY <1>8 DEF StepStore
<1>9. CASE Resume
  BY <1>9 DEF Resume
<1>10. CASE HandleDisconnect
  BY <1>10, ReceiveType DEF HandleDisconnect
<1> QED
  BY <1>1, <1>2, <1>3, <1>4, <1>5, <1>6, <1>7, <1>8, <1>9, <1>10 DEF MainTask

LEMMA TypeLoop == TypeOK /\ EventLoop => TypeOK'
<1> SUFFICES ASSUME TypeOK, EventLoop PROVE TypeOK'
  OBVIOUS
<1>0. single' = single
  BY DEF EventLoop
<1> USE <1>0
<1> USE DEF TypeOK, jvmVars, sessionVars, editorVars, LoopPcs, LoopAt,
            ResumeJvm, DropSession, EditorSeesStop
<1>1. CASE LoopWithoutSession
  BY <1>1, TakeType DEF LoopWithoutSession
<1>2. CASE LoopClassPrepare
  BY <1>2, TakeType DEF LoopClassPrepare
<1>3. CASE LoopResume
  BY <1>3 DEF LoopResume
<1>4. CASE LoopException
  BY <1>4, TakeType DEF LoopException
<1>5. CASE LoopExceptionResume
  BY <1>5 DEF LoopExceptionResume
<1>6. CASE LoopBreakpoint
  <2>1. Head(eventRx).thread \in Threads \cup {NoThread}
    BY <1>6, TakeType DEF LoopBreakpoint, Event
  <2> QED
    BY <1>6, <2>1, TakeType DEF LoopBreakpoint
<1>7. CASE LoopStep
  <2>1. /\ Head(eventRx).thread \in Threads \cup {NoThread}
        /\ Head(eventRx).request \in Nat
    BY <1>7, TakeType DEF LoopStep, Event
  <2>2. loop' \in [pc : LoopPcs, thread : Threads \cup {NoThread},
                   step : Nat, fired : Nat]
    BY <1>7, <2>1 DEF LoopStep
  <2> QED
    BY <1>7, <2>2, TakeType DEF LoopStep
<1>8. CASE LoopClear
  BY <1>8 DEF LoopClear, ClearInJvm
<1>9. CASE LoopStore
  BY <1>9 DEF LoopStore
<1>10. CASE LoopAnnounce
  BY <1>10 DEF LoopAnnounce
<1>11. CASE LoopVmDeath
  BY <1>11, TakeType DEF LoopVmDeath
<1>12. CASE LoopKill
  BY <1>12 DEF LoopKill
<1>13. CASE LoopEnd
  BY <1>13 DEF LoopEnd
<1> QED
  BY <1>1, <1>2, <1>3, <1>4, <1>5, <1>6, <1>7, <1>8, <1>9, <1>10, <1>11,
     <1>12, <1>13
  DEF EventLoop

\* Every state of the server and of its environment is well typed: queues
\* hold events and requests, and a step being requested has a thread.
THEOREM TypeCorrect == Spec => []TypeOK
<1>1. Init => TypeOK
  BY DEF Init, TypeOK, MainIdle, LoopAt, MainPcs, LoopPcs, Event
<1>2. TypeOK /\ [Next]_vars => TypeOK'
  <2> SUFFICES ASSUME TypeOK, [Next]_vars PROVE TypeOK'
    OBVIOUS
  <2>1. CASE UNCHANGED vars
    BY <2>1 DEF vars, jvmVars, sessionVars, editorVars, TypeOK
  <2>2. CASE Finished
    BY <2>1, <2>2 DEF Finished
  <2> QED
    BY <2>1, <2>2, TypeJvm, TypeEditor, TypeMain, TypeLoop DEF Next
<1> QED
  BY <1>1, <1>2, PTL DEF Spec

-----------------------------------------------------------------------------
(* No step request is lost track of.                                       *)

LEMMA StepInvMain == TypeOK /\ StepInv /\ MainTask => StepInv'
<1> SUFFICES ASSUME TypeOK, StepInv, MainTask PROVE StepInv'
  OBVIOUS
<1>t. \A r \in stepRequests : r.id # 0
  BY DEF TypeOK, StepRequest
<1>m. main \in [pc : MainPcs, thread : Threads \cup {NoThread}, step : Nat]
  BY DEF TypeOK
<1> USE DEF StepInv, StepAccounted, PendingTaken, jvmVars, sessionVars
<1>1. CASE HandleConfigurationDone
  BY <1>1 DEF HandleConfigurationDone
<1>2. CASE HandleContinue
  BY <1>2, <1>m, <1>t DEF HandleContinue, Receive
<1>3. CASE ContinueClear
  BY <1>3, <1>m DEF ContinueClear, ClearInJvm
<1>4. CASE HandleStep
  BY <1>4, <1>m, <1>t DEF HandleStep, ThreadToStep, Receive
<1>5. CASE StepClear
  BY <1>5, <1>m DEF StepClear, ClearInJvm
<1>6. CASE StepSet
  <2>1. main'.pc = "stepStore" /\ main'.step = lastRequest'
    BY <1>6, <1>m DEF StepSet
  <2>2. \A r \in stepRequests' : r \in stepRequests \/ r.id = lastRequest'
    BY <1>6 DEF StepSet
  <2> QED
    BY <1>6, <1>t, <2>1, <2>2 DEF StepSet
<1>7. CASE StepSetFails
  BY <1>7 DEF StepSetFails, MainIdle
<1>8. CASE StepStore
  BY <1>8, <1>m, <1>t DEF StepStore
<1>9. CASE Resume
  BY <1>9 DEF Resume, MainIdle
<1>10. CASE HandleDisconnect
  BY <1>10 DEF HandleDisconnect, DropSession
<1> QED
  BY <1>1, <1>2, <1>3, <1>4, <1>5, <1>6, <1>7, <1>8, <1>9, <1>10 DEF MainTask

LEMMA StepInvLoop == TypeOK /\ StepInv /\ EventLoop => StepInv'
<1> SUFFICES ASSUME TypeOK, StepInv, EventLoop PROVE StepInv'
  OBVIOUS
<1>t. \A r \in stepRequests : r.id # 0
  BY DEF TypeOK, StepRequest
<1>l. loop \in [pc : LoopPcs, thread : Threads \cup {NoThread},
                step : Nat, fired : Nat]
  BY DEF TypeOK
<1> USE DEF StepInv, StepAccounted, PendingTaken, jvmVars, sessionVars
<1>1. CASE \/ LoopWithoutSession \/ LoopClassPrepare \/ LoopException
           \/ LoopBreakpoint \/ LoopVmDeath
  BY <1>1 DEF LoopWithoutSession, LoopClassPrepare, LoopException,
              LoopBreakpoint, LoopVmDeath, Take
<1>2. CASE LoopResume \/ LoopExceptionResume \/ LoopStore \/ LoopAnnounce
  BY <1>2 DEF LoopResume, LoopExceptionResume, LoopStore, LoopAnnounce
<1>3. CASE LoopStep
  BY <1>3, <1>t DEF LoopStep, Take
<1>4. CASE LoopClear
  BY <1>4 DEF LoopClear, ClearInJvm
<1>5. CASE LoopKill
  BY <1>5 DEF LoopKill
<1>6. CASE LoopEnd
  BY <1>6 DEF LoopEnd, DropSession
<1> QED
  BY <1>1, <1>2, <1>3, <1>4, <1>5, <1>6 DEF EventLoop

\* The strengthening of StepAccounted is an invariant.
LEMMA StepInvariant == Spec => []StepInv
<1>1. Init => StepInv
  BY DEF Init, StepInv, StepAccounted, PendingTaken, MainIdle
<1>2. TypeOK /\ StepInv /\ [Next]_vars => StepInv'
  <2> SUFFICES ASSUME TypeOK, StepInv, [Next]_vars PROVE StepInv'
    OBVIOUS
  <2> USE DEF StepInv, StepAccounted, PendingTaken, jvmVars, sessionVars
  <2>1. CASE UNCHANGED vars \/ Finished
    BY <2>1 DEF Finished, vars
  <2>2. CASE Jvm
    <3>1. /\ stepRequests' \subseteq stepRequests
          /\ UNCHANGED <<session, pendingStep, main, loop>>
      BY <2>2 DEF Jvm, JvmStop, JvmClassPrepare, JvmException, JvmDeath,
                  Suspend
    <3> QED
      BY <3>1
  <2>3. CASE Editor
    BY <2>3 DEF Editor, EditorConfigured, EditorResumes, EditorLeaves
  <2> QED
    BY <2>1, <2>2, <2>3, StepInvMain, StepInvLoop DEF Next
<1> QED
  BY <1>1, <1>2, TypeCorrect, PTL DEF Spec

\* While there is a session, every step request that may still fire is the
\* session's pending_step_request, or a task is about to clear or store it.
THEOREM StepsAccounted == Spec => []StepAccounted
<1>1. StepInv => StepAccounted
  BY DEF StepInv
<1> QED
  BY <1>1, StepInvariant, PTL

-----------------------------------------------------------------------------
(* No suspension is forgotten.                                             *)

\* Whatever request is received, one that the editor sent last stays last.
LEMMA ReceiveKeepsLast ==
    ASSUME TypeOK, LeavingToCome, NEW request, Receive(request),
           request # "disconnect", session, editor = "gone"
    PROVE  inbox' # <<>> /\ inbox'[Len(inbox')] = "disconnect"
<1>1. inbox \in Seq({"configurationDone", "continue", "step", "disconnect"})
  BY DEF TypeOK
<1>2. Len(inbox) \in Nat /\ inbox # <<>> /\ inbox[Len(inbox)] = "disconnect"
  BY <1>1 DEF LeavingToCome
<1>3. inbox[1] # "disconnect"
  BY <1>1, <1>2 DEF Receive
<1>4. Len(inbox) > 1
  BY <1>1, <1>2, <1>3
<1>5. Len(Tail(inbox)) = Len(inbox) - 1
      /\ Tail(inbox)[Len(inbox) - 1] = inbox[Len(inbox)]
  BY <1>1, <1>4
<1>6. inbox' = Tail(inbox) /\ Tail(inbox) # <<>>
  BY <1>1, <1>4, <1>5 DEF Receive
<1> QED
  BY <1>2, <1>5, <1>6

LEMMA SuspensionInvMain == TypeOK /\ SuspensionInv /\ MainTask => SuspensionInv'
<1> SUFFICES ASSUME TypeOK, SuspensionInv, MainTask PROVE SuspensionInv'
  OBVIOUS
<1>m. main \in [pc : MainPcs, thread : Threads \cup {NoThread}, step : Nat]
  BY DEF TypeOK
<1> USE DEF SuspensionInv, jvmVars, sessionVars, editorVars
<1>1. CASE HandleConfigurationDone
  <2>1. LeavingToCome'
    BY <1>1, ReceiveKeepsLast DEF HandleConfigurationDone, LeavingToCome
  <2>2. session => jvm' # "suspended"
    BY <1>1 DEF HandleConfigurationDone, ResumeJvm
  <2> QED
    BY <1>1, <2>1, <2>2 DEF HandleConfigurationDone, SuspensionAccounted
<1>2. CASE HandleContinue
  <2>1. LeavingToCome'
    BY <1>2, ReceiveKeepsLast DEF HandleContinue, LeavingToCome
  <2>2. session => main'.pc # "idle"
    BY <1>2, <1>m DEF HandleContinue
  <2> QED
    BY <1>2, <2>1, <2>2 DEF HandleContinue, SuspensionAccounted
<1>3. CASE HandleStep
  <2>1. session /\ editor = "gone" =>
          inbox' # <<>> /\ inbox'[Len(inbox')] = "disconnect"
    BY <1>3, ReceiveKeepsLast DEF HandleStep
  <2>2. main'.pc # "idle" \/ editor' \in {"stopped", "gone"}
    BY <1>3, <1>m DEF HandleStep, ThreadToStep, EditorSeesStop
  <2>3. editor' = "gone" => editor = "gone"
    BY <1>3 DEF HandleStep, EditorSeesStop
  <2>4. session' = session
    BY <1>3 DEF HandleStep
  <2> QED
    BY <2>1, <2>2, <2>3, <2>4 DEF SuspensionAccounted, LeavingToCome
<1>4. CASE ContinueClear \/ StepClear \/ StepSet \/ StepStore
  <2>1. main'.pc # "idle"
    BY <1>4, <1>m DEF ContinueClear, StepClear, StepSet, StepStore
  <2>2. UNCHANGED <<session, editor, inbox>>
    BY <1>4 DEF ContinueClear, StepClear, StepSet, StepStore
  <2> QED
    BY <2>1, <2>2 DEF SuspensionAccounted, LeavingToCome
<1>5. CASE StepSetFails
  BY <1>5 DEF StepSetFails, EditorSeesStop, TypeOK, SuspensionAccounted,
              LeavingToCome
<1>6. CASE Resume
  BY <1>6 DEF Resume, ResumeJvm, SuspensionAccounted, LeavingToCome
<1>7. CASE HandleDisconnect
  BY <1>7 DEF HandleDisconnect, DropSession, SuspensionAccounted, LeavingToCome
<1> QED
  BY <1>1, <1>2, <1>3, <1>4, <1>5, <1>6, <1>7 DEF MainTask

LEMMA SuspensionInvLoop ==
    TypeOK /\ SuspensionInv /\ EventLoop => SuspensionInv'
<1> SUFFICES ASSUME TypeOK, SuspensionInv, EventLoop PROVE SuspensionInv'
  OBVIOUS
<1>l. loop \in [pc : LoopPcs, thread : Threads \cup {NoThread},
                step : Nat, fired : Nat]
  BY DEF TypeOK
<1> USE DEF SuspensionInv, SuspensionAccounted, LeavingToCome, jvmVars,
            sessionVars, editorVars
<1>1. CASE LoopWithoutSession
  BY <1>1 DEF LoopWithoutSession
<1>2. CASE LoopClassPrepare \/ LoopException \/ LoopBreakpoint \/ LoopStep
           \/ LoopVmDeath
  <2>1. loop'.pc # "select"
    BY <1>2 DEF LoopClassPrepare, LoopException, LoopBreakpoint, LoopStep,
                LoopVmDeath, LoopAt
  <2>2. UNCHANGED <<session, editor, inbox>>
    BY <1>2 DEF LoopClassPrepare, LoopException, LoopBreakpoint, LoopStep,
                LoopVmDeath
  <2> QED
    BY <2>1, <2>2
<1>3. CASE LoopClear \/ LoopStore
  <2>1. loop'.pc # "select"
    BY <1>3, <1>l DEF LoopClear, LoopStore
  <2>2. UNCHANGED <<session, editor, inbox>>
    BY <1>3 DEF LoopClear, LoopStore
  <2> QED
    BY <2>1, <2>2
<1>4. CASE LoopResume \/ LoopExceptionResume
  BY <1>4 DEF LoopResume, LoopExceptionResume, ResumeJvm
<1>5. CASE LoopAnnounce
  BY <1>5 DEF LoopAnnounce, EditorSeesStop
<1>6. CASE LoopKill \/ LoopEnd
  BY <1>6 DEF LoopKill, LoopEnd, DropSession
<1> QED
  BY <1>1, <1>2, <1>3, <1>4, <1>5, <1>6 DEF EventLoop

LEMMA SuspensionInvJvm == TypeOK /\ SuspensionInv /\ Jvm => SuspensionInv'
<1> SUFFICES ASSUME TypeOK, SuspensionInv, Jvm PROVE SuspensionInv'
  OBVIOUS
<1>1. UNCHANGED <<session, editor, inbox>>
  BY DEF Jvm, JvmStop, JvmClassPrepare, JvmException, JvmDeath, Suspend,
         sessionVars, editorVars
<1>2. jvm' = "dead" \/ eventRx' # <<>>
  <2>1. ASSUME NEW events \in Seq(Event), events # <<>>, Suspend(events)
        PROVE  eventRx' # <<>>
    BY <2>1, ConcatProperties DEF Suspend, TypeOK
  <2>2. ASSUME NEW t \in Threads, JvmStop(t) PROVE eventRx' # <<>>
    <3>1. PICK c \in Composites, id \in 0 .. lastRequest :
             Suspend([i \in 1 .. Len(c) |->
                        [kind |-> c[i], thread |-> t,
                         request |-> IF c[i] = "Step" THEN id ELSE 0]])
      BY <2>2 DEF JvmStop
    <3>2. id \in Nat
      BY DEF TypeOK
    <3> QED
      BY <2>1, <3>1, <3>2, StopEventsType
  <2>3. ASSUME NEW t \in Threads, JvmClassPrepare(t) \/ JvmException(t)
        PROVE  eventRx' # <<>>
    <3>1. PICK e \in Event : Suspend(<<e>>)
      BY <2>3 DEF JvmClassPrepare, JvmException, Event
    <3>2. <<e>> \in Seq(Event) /\ <<e>> # <<>>
      OBVIOUS
    <3> QED
      BY <2>1, <3>1, <3>2
  <2> QED
    BY <2>2, <2>3 DEF Jvm, JvmDeath
<1> QED
  BY <1>1, <1>2 DEF SuspensionInv, SuspensionAccounted, LeavingToCome

LEMMA SuspensionInvEditor ==
    TypeOK /\ SuspensionInv /\ Editor => SuspensionInv'
<1> SUFFICES ASSUME TypeOK, SuspensionInv, Editor PROVE SuspensionInv'
  OBVIOUS
<1>1. PICK request \in {"configurationDone", "continue", "step", "disconnect"} :
         /\ Send(request)
         /\ editor' = "gone" => request = "disconnect"
  BY DEF Editor, EditorConfigured, EditorResumes, EditorLeaves
<1>2. inbox' # <<>> /\ inbox'[Len(inbox')] = request
  BY <1>1, AppendProperties DEF Send, TypeOK
<1> QED
  BY <1>1, <1>2 DEF SuspensionInv, SuspensionAccounted, LeavingToCome

\* While there is a session, a suspended JVM is in the user's hands, or a task
\* or a queue holds what will resume it or hand it to the user.
THEOREM SuspensionsAccounted == Spec => []SuspensionAccounted
<1>1. Init => SuspensionInv
  BY DEF Init, SuspensionInv, SuspensionAccounted, LeavingToCome
<1>2. TypeOK /\ SuspensionInv /\ [Next]_vars => SuspensionInv'
  <2> SUFFICES ASSUME TypeOK, SuspensionInv, [Next]_vars PROVE SuspensionInv'
    OBVIOUS
  <2>1. CASE UNCHANGED vars \/ Finished
    BY <2>1 DEF Finished, vars, jvmVars, sessionVars, editorVars,
                SuspensionInv, SuspensionAccounted, LeavingToCome
  <2> QED
    BY <2>1, SuspensionInvJvm, SuspensionInvEditor, SuspensionInvMain,
       SuspensionInvLoop DEF Next
<1>3. SuspensionInv => SuspensionAccounted
  BY DEF SuspensionInv
<1> QED
  BY <1>1, <1>2, <1>3, TypeCorrect, PTL DEF Spec

-----------------------------------------------------------------------------
(* Single stops: the turn.                                                 *)
(*                                                                         *)
(* Where a suspension reports one stop, what will resume the JVM is in one *)
(* place at a time: with the user, in a request or in the hands of the     *)
(* main task, in an event or in the hands of the event loop.               *)

EditorHolds == editor \in {"configuring", "stopped"}
InboxHolds  == \E i \in DOMAIN inbox : inbox[i] # "disconnect"
MainHolds   == main.pc # "idle"
QueueHolds  == \E i \in DOMAIN eventRx : eventRx[i].kind # "VmDeath"
LoopHolds   == loop.pc \notin {"select", "ending", "done"}

\* At most one request, and at most one event, is not about leaving.
OneRequest == \A i, j \in DOMAIN inbox :
                  inbox[i] # "disconnect" /\ inbox[j] # "disconnect" => i = j
OneEvent   == \A i, j \in DOMAIN eventRx :
                  eventRx[i].kind # "VmDeath" /\ eventRx[j].kind # "VmDeath"
                      => i = j

\* One of the five has the turn, by one request or one event.
OneHolder ==
    /\ EditorHolds => ~InboxHolds /\ ~MainHolds /\ ~QueueHolds /\ ~LoopHolds
    /\ InboxHolds => ~MainHolds /\ ~QueueHolds /\ ~LoopHolds
    /\ MainHolds => ~QueueHolds /\ ~LoopHolds
    /\ QueueHolds => ~LoopHolds
    /\ OneRequest /\ OneEvent

\* Nobody has it while the JVM runs.
HeldIsStopped ==
    EditorHolds \/ InboxHolds \/ MainHolds \/ QueueHolds \/ LoopHolds
        => jvm # "running"

\* A session keeps a snapshot until somebody takes the turn to resume.
SnapshotKept ==
    snapshot # NoThread =>
        /\ session /\ jvm # "running"
        /\ editor # "configuring"
        /\ \A i \in DOMAIN inbox : inbox[i] # "configurationDone"
        /\ ~MainHolds /\ ~QueueHolds
        /\ loop.pc \in {"select", "announce", "ending"}

\* The step that has fired is the one that is pending, until its event is taken.
FiredIsPending ==
    /\ session => \A i \in DOMAIN eventRx :
           eventRx[i].kind = "Step" => eventRx[i].request = pendingStep
    /\ loop.pc = "clear" => loop.step = loop.fired

\* A continue that clears a step request clears the only one.
ContinueClearsAll ==
    /\ main.pc = "continueClear" => \A r \in stepRequests : r.id = main.step
    /\ main.pc = "stepStore" => main.step # 0
    /\ main.pc = "resume" /\ main.step = 0 => stepRequests = {}

TurnInv == /\ OneHolder /\ HeldIsStopped /\ SnapshotKept
           /\ FiredIsPending /\ ContinueClearsAll

\* What a queue holds after its head is taken, or after an element is added.
LEMMA TailElements ==
    ASSUME NEW S, NEW s \in Seq(S), s # <<>>
    PROVE  /\ 1 \in DOMAIN s /\ Head(s) = s[1]
           /\ \A i \in DOMAIN Tail(s) :
                  i + 1 \in DOMAIN s /\ i # 0 /\ i \in Nat /\ Tail(s)[i] = s[i + 1]
<1>1. Len(s) \in Nat /\ Len(s) # 0 /\ DOMAIN s = 1 .. Len(s)
  OBVIOUS
<1>2. Tail(s) \in Seq(S) /\ Len(Tail(s)) = Len(s) - 1
  BY HeadTailProperties
<1>3. DOMAIN Tail(s) = 1 .. (Len(s) - 1)
  BY <1>2
<1>4. \A i \in DOMAIN Tail(s) : Tail(s)[i] = s[i + 1]
  BY <1>1, <1>3
<1> QED
  BY <1>1, <1>3, <1>4

LEMMA AppendElements ==
    ASSUME NEW S, NEW s \in Seq(S), NEW e \in S, NEW q \in {Append(s, e), s \o <<e>>}
    PROVE  /\ \A i \in DOMAIN s : i \in DOMAIN q /\ q[i] = s[i]
           /\ \A i \in DOMAIN q :
                 \/ i \in DOMAIN s /\ q[i] = s[i]
                 \/ i = Len(s) + 1 /\ q[i] = e
<1>1. q \in Seq(S) /\ Len(q) = Len(s) + 1
  BY AppendProperties, ConcatProperties
<1>2. Len(s) \in Nat /\ DOMAIN s = 1 .. Len(s) /\ DOMAIN q = 1 .. (Len(s) + 1)
  BY <1>1
<1>3. \A i \in 1 .. Len(s) : q[i] = s[i]
  BY <1>1, <1>2
<1>4. q[Len(s) + 1] = e
  BY <1>1, <1>2
<1> QED
  BY <1>2, <1>3, <1>4

LEMMA ReceiveTurn ==
    ASSUME TypeOK, OneRequest, NEW request, Receive(request)
    PROVE  /\ request # "disconnect" => InboxHolds /\ ~InboxHolds'
           /\ InboxHolds' => InboxHolds
           /\ OneRequest'
           /\ \A i \in DOMAIN inbox' : \E j \in DOMAIN inbox : inbox'[i] = inbox[j]
<1>1. /\ 1 \in DOMAIN inbox /\ request = inbox[1]
      /\ \A i \in DOMAIN inbox' :
            i + 1 \in DOMAIN inbox /\ i # 0 /\ i \in Nat /\ inbox'[i] = inbox[i + 1]
  BY TailElements DEF TypeOK, Receive
<1>2. OneRequest'
  BY <1>1 DEF OneRequest
<1> QED
  BY <1>1, <1>2 DEF OneRequest, InboxHolds

LEMMA TakeTurn ==
    ASSUME TypeOK, OneEvent, NEW kind, Take(kind)
    PROVE  /\ kind # "VmDeath" => QueueHolds /\ ~QueueHolds'
           /\ QueueHolds' => QueueHolds
           /\ OneEvent'
           /\ \A i \in DOMAIN eventRx' :
                  \E j \in DOMAIN eventRx : eventRx'[i] = eventRx[j]
           /\ \E j \in DOMAIN eventRx : Head(eventRx) = eventRx[j]
<1>1. /\ 1 \in DOMAIN eventRx /\ Head(eventRx) = eventRx[1]
      /\ kind = eventRx[1].kind
      /\ \A i \in DOMAIN eventRx' :
            i + 1 \in DOMAIN eventRx /\ i # 0 /\ i \in Nat
            /\ eventRx'[i] = eventRx[i + 1]
  BY TailElements DEF TypeOK, Take
<1>2. OneEvent'
  BY <1>1 DEF OneEvent
<1> QED
  BY <1>1, <1>2 DEF OneEvent, QueueHolds

LEMMA SendTurn ==
    ASSUME TypeOK, OneRequest,
           NEW request \in {"configurationDone", "continue", "step", "disconnect"},
           Send(request), request = "disconnect" \/ ~InboxHolds
    PROVE  /\ InboxHolds' => InboxHolds \/ request # "disconnect"
           /\ OneRequest'
           /\ \A i \in DOMAIN inbox' :
                  inbox'[i] = request \/ \E j \in DOMAIN inbox : inbox'[i] = inbox[j]
<1>1. \A i \in DOMAIN inbox' : \/ i \in DOMAIN inbox /\ inbox'[i] = inbox[i]
                               \/ i = Len(inbox) + 1 /\ inbox'[i] = request
  BY AppendElements DEF TypeOK, Send
<1>2. OneRequest'
  BY <1>1 DEF OneRequest, InboxHolds
<1> QED
  BY <1>1, <1>2 DEF InboxHolds

\* The reading of one event from the connection; the end of the JVM is one.
LEMMA ReadTurn ==
    ASSUME TypeOK, OneEvent, NEW e \in Event,
           eventRx' \in {Append(eventRx, e), eventRx \o <<e>>},
           e.kind = "VmDeath" \/ ~QueueHolds
    PROVE  /\ QueueHolds' => QueueHolds \/ e.kind # "VmDeath"
           /\ OneEvent'
           /\ \A i \in DOMAIN eventRx' :
                  eventRx'[i] = e \/ \E j \in DOMAIN eventRx : eventRx'[i] = eventRx[j]
<1>1. \A i \in DOMAIN eventRx' : \/ i \in DOMAIN eventRx /\ eventRx'[i] = eventRx[i]
                                 \/ i = Len(eventRx) + 1 /\ eventRx'[i] = e
  BY AppendElements DEF TypeOK
<1>2. OneEvent'
  BY <1>1 DEF OneEvent, QueueHolds
<1> QED
  BY <1>1, <1>2 DEF QueueHolds

-----------------------------------------------------------------------------
(* Each actor passes the turn on.                                          *)

LEMMA TurnEditor == TypeOK /\ TurnInv /\ Editor => TurnInv'
<1> SUFFICES ASSUME TypeOK, TurnInv, Editor PROVE TurnInv'
  OBVIOUS
<1>1. PICK request \in {"configurationDone", "continue", "step", "disconnect"} :
         /\ Send(request)
         /\ request # "disconnect" => EditorHolds
         /\ request = "configurationDone" => editor = "configuring"
         /\ editor' \in {"running", "gone"}
  BY DEF Editor, EditorConfigured, EditorResumes, EditorLeaves, EditorHolds
<1>2. UNCHANGED <<jvmVars, eventRx, sessionVars, main, loop>>
  BY DEF Editor, EditorConfigured, EditorResumes, EditorLeaves
<1>3. /\ InboxHolds' => InboxHolds \/ EditorHolds
      /\ OneRequest'
      /\ \A i \in DOMAIN inbox' :
            inbox'[i] = request \/ \E j \in DOMAIN inbox : inbox'[i] = inbox[j]
  BY <1>1, SendTurn DEF TurnInv, OneHolder
<1>4. ~EditorHolds'
  BY <1>1 DEF EditorHolds
<1>5. OneHolder'
  BY <1>2, <1>3, <1>4
  DEF TurnInv, OneHolder, MainHolds, QueueHolds, LoopHolds, OneEvent
<1>6. HeldIsStopped'
  BY <1>2, <1>3, <1>4
  DEF TurnInv, HeldIsStopped, MainHolds, QueueHolds, LoopHolds, jvmVars
<1>7. SnapshotKept'
  BY <1>1, <1>2, <1>3
  DEF TurnInv, SnapshotKept, MainHolds, QueueHolds, jvmVars, sessionVars
<1>8. FiredIsPending' /\ ContinueClearsAll'
  BY <1>2 DEF TurnInv, FiredIsPending, ContinueClearsAll, jvmVars, sessionVars
<1> QED
  BY <1>5, <1>6, <1>7, <1>8 DEF TurnInv

\* What every step of the JVM but its end comes to, when stops are single.
LEMMA SingleStop ==
    ASSUME TypeOK, single, Jvm
    PROVE  \/ JvmDeath
           \/ \E e \in Event :
                 /\ e.kind # "VmDeath" /\ e.thread \in Threads
                 /\ e.kind = "Step" => \E r \in stepRequests : r.id = e.request
                 /\ Suspend(<<e>>)
<1>1. ASSUME NEW t \in Threads, JvmStop(t)
      PROVE  \E e \in Event :
                 /\ e.kind # "VmDeath" /\ e.thread \in Threads
                 /\ e.kind = "Step" => \E r \in stepRequests : r.id = e.request
                 /\ Suspend(<<e>>)
  <2> DEFINE stop(c, id) == [i \in 1 .. Len(c) |->
                               [kind |-> c[i], thread |-> t,
                                request |-> IF c[i] = "Step" THEN id ELSE 0]]
  <2>1. PICK c \in Composites, id \in 0 .. lastRequest :
           /\ Len(c) = 1
           /\ (id = 0) <=> (\A i \in DOMAIN c : c[i] # "Step")
           /\ id # 0 => [id |-> id, thread |-> t] \in stepRequests
           /\ Suspend(stop(c, id))
    BY <1>1 DEF JvmStop
  <2> DEFINE e == [kind |-> c[1], thread |-> t,
                   request |-> IF c[1] = "Step" THEN id ELSE 0]
  <2>2. c \in Seq(StopKinds) /\ id \in Nat
    BY CompositesAssumption DEF TypeOK
  <2>3. DOMAIN c = {1} /\ c[1] \in StopKinds
    BY <2>1, <2>2
  <2>4. e \in Event /\ e.kind # "VmDeath" /\ e.thread \in Threads
    BY <2>2, <2>3 DEF Event, StopKinds
  <2>5. stop(c, id) = <<e>>
    BY <2>1
  <2>6. ASSUME e.kind = "Step" PROVE \E r \in stepRequests : r.id = e.request
    <3>1. id # 0 /\ e.request = id
      BY <2>1, <2>3, <2>6
    <3> QED
      BY <2>1, <3>1
  <2> QED
    BY <2>1, <2>4, <2>5, <2>6
<1>2. ASSUME NEW t \in Threads, JvmClassPrepare(t) \/ JvmException(t)
      PROVE  \E e \in Event : /\ e.kind \in {"ClassPrepare", "Exception"}
                              /\ e.thread \in Threads
                              /\ Suspend(<<e>>)
  BY <1>2 DEF JvmClassPrepare, JvmException, Event
<1>3. ASSUME NEW t \in Threads, JvmClassPrepare(t) \/ JvmException(t)
      PROVE  \E e \in Event :
                 /\ e.kind # "VmDeath" /\ e.thread \in Threads
                 /\ e.kind = "Step" => \E r \in stepRequests : r.id = e.request
                 /\ Suspend(<<e>>)
  BY <1>2, <1>3
<1> QED
  BY <1>1, <1>3 DEF Jvm

LEMMA TurnJvm == TypeOK /\ single /\ StepInv /\ TurnInv /\ Jvm => TurnInv'
<1> SUFFICES ASSUME TypeOK, single, StepInv, TurnInv, Jvm PROVE TurnInv'
  OBVIOUS
<1>1. CASE JvmDeath
  <2>1. PICK e \in Event : /\ e.kind = "VmDeath"
                           /\ eventRx' = Append(eventRx, e)
    BY <1>1 DEF JvmDeath, Event
  <2>2. /\ QueueHolds' => QueueHolds
        /\ OneEvent'
        /\ \A i \in DOMAIN eventRx' :
              eventRx'[i] = e \/ \E j \in DOMAIN eventRx : eventRx'[i] = eventRx[j]
    BY <2>1, ReadTurn DEF TurnInv, OneHolder
  <2>3. /\ jvm' = "dead" /\ stepRequests' = {}
        /\ UNCHANGED <<session, snapshot, pendingStep, main, loop, editor, inbox>>
    BY <1>1 DEF JvmDeath, sessionVars, editorVars
  <2>4. OneHolder'
    BY <2>2, <2>3 DEF TurnInv, OneHolder, EditorHolds, InboxHolds, MainHolds,
                      LoopHolds, OneRequest
  <2>5. FiredIsPending'
    BY <2>1, <2>2, <2>3 DEF TurnInv, FiredIsPending
  <2> QED
    BY <2>2, <2>3, <2>4, <2>5
    DEF TurnInv, HeldIsStopped, SnapshotKept, ContinueClearsAll, MainHolds
<1>2. CASE ~JvmDeath
  <2>1. PICK e \in Event :
           /\ e.kind # "VmDeath"
           /\ e.kind = "Step" => \E r \in stepRequests : r.id = e.request
           /\ Suspend(<<e>>)
    BY <1>2, SingleStop
  <2>2. /\ jvm = "running" /\ jvm' = "suspended"
        /\ eventRx' = eventRx \o <<e>>
        /\ UNCHANGED <<stepRequests, session, snapshot, pendingStep, main, loop,
                       editor, inbox>>
    BY <2>1 DEF Suspend, sessionVars, editorVars
  <2>3. ~EditorHolds /\ ~InboxHolds /\ ~MainHolds /\ ~QueueHolds /\ ~LoopHolds
    BY <2>2 DEF TurnInv, HeldIsStopped
  <2>4. /\ OneEvent'
        /\ \A i \in DOMAIN eventRx' :
              eventRx'[i] = e \/ \E j \in DOMAIN eventRx : eventRx'[i] = eventRx[j]
    BY <2>2, <2>3, ReadTurn DEF TurnInv, OneHolder
  <2>5. OneHolder'
    BY <2>2, <2>3, <2>4 DEF TurnInv, OneHolder, EditorHolds, InboxHolds,
                            MainHolds, LoopHolds, OneRequest
  <2>6. session /\ e.kind = "Step" => e.request = pendingStep
    BY <2>1, <2>3 DEF StepInv, StepAccounted, MainHolds, LoopHolds
  <2>7. FiredIsPending'
    BY <2>2, <2>4, <2>6 DEF TurnInv, FiredIsPending
  <2>8. snapshot = NoThread
    BY <2>2 DEF TurnInv, SnapshotKept
  <2> QED
    BY <2>2, <2>5, <2>7, <2>8
    DEF TurnInv, HeldIsStopped, SnapshotKept, ContinueClearsAll
<1> QED
  BY <1>1, <1>2

\* While the main task has the turn it moves the steps and the program.
LEMMA TurnMainHolds ==
    ASSUME TypeOK, StepInv, TurnInv, MainTask, MainHolds PROVE TurnInv'
<1>m. main \in [pc : MainPcs, thread : Threads \cup {NoThread}, step : Nat]
  BY DEF TypeOK
<1>1. \/ ContinueClear \/ StepClear \/ StepSet \/ StepSetFails
      \/ StepStore \/ Resume
  BY DEF MainTask, MainHolds, HandleConfigurationDone, HandleContinue,
         HandleStep, HandleDisconnect, Receive
<1>2. UNCHANGED <<inbox, eventRx, loop, session, snapshot>>
  BY <1>1 DEF ContinueClear, StepClear, StepSet, StepSetFails, StepStore,
              Resume, editorVars, sessionVars
<1>3. /\ ~EditorHolds /\ ~InboxHolds /\ ~QueueHolds /\ ~LoopHolds
      /\ jvm # "running" /\ snapshot = NoThread
  BY DEF TurnInv, OneHolder, HeldIsStopped, SnapshotKept
<1>4. UNCHANGED <<InboxHolds, QueueHolds, LoopHolds, OneRequest, OneEvent>>
  BY <1>2 DEF InboxHolds, QueueHolds, LoopHolds, OneRequest, OneEvent
<1>5. \/ EditorHolds' /\ ~MainHolds' /\ jvm' = jvm
      \/ ~EditorHolds' /\ MainHolds' /\ jvm' = jvm
      \/ ~EditorHolds' /\ ~MainHolds'
  <2>1. CASE ContinueClear \/ StepClear \/ StepSet \/ StepStore
    BY <1>m, <1>3, <2>1 DEF ContinueClear, StepClear, StepSet, StepStore,
         EditorHolds, MainHolds, jvmVars, editorVars
  <2>2. CASE StepSetFails
    BY <2>2 DEF StepSetFails, EditorSeesStop, MainIdle, EditorHolds, MainHolds,
                jvmVars
  <2>3. CASE Resume
    BY <1>3, <2>3 DEF Resume, MainIdle, EditorHolds, MainHolds, editorVars
  <2> QED
    BY <1>1, <2>1, <2>2, <2>3
<1>6. OneHolder' /\ HeldIsStopped' /\ SnapshotKept'
  BY <1>2, <1>3, <1>4, <1>5 DEF TurnInv, OneHolder, HeldIsStopped, SnapshotKept
<1>7. FiredIsPending'
  BY <1>2, <1>3 DEF TurnInv, FiredIsPending, QueueHolds, LoopHolds
<1>8. ContinueClearsAll'
  <2> USE DEF TurnInv, ContinueClearsAll, jvmVars
  <2>1. CASE ContinueClear
    BY <1>m, <2>1 DEF ContinueClear, ClearInJvm
  <2>2. CASE StepClear
    BY <1>m, <2>2 DEF StepClear, ClearInJvm
  <2>3. CASE StepSet
    BY <1>m, <2>3 DEF StepSet, TypeOK
  <2>4. CASE StepSetFails \/ Resume
    BY <2>4 DEF StepSetFails, Resume, MainIdle
  <2>5. CASE StepStore
    BY <1>m, <2>5 DEF StepStore
  <2> QED
    BY <1>1, <2>1, <2>2, <2>3, <2>4, <2>5
<1> QED
  BY <1>6, <1>7, <1>8 DEF TurnInv

\* An idle main task takes the turn with the request that is about it; a
\* disconnect takes nothing from nobody.
LEMMA TurnMainReceives ==
    ASSUME TypeOK, StepInv, TurnInv, MainTask, ~MainHolds PROVE TurnInv'
<1>m. main \in [pc : MainPcs, thread : Threads \cup {NoThread}, step : Nat]
  BY DEF TypeOK
<1>1. \/ HandleConfigurationDone \/ HandleContinue \/ HandleStep
      \/ HandleDisconnect
  BY DEF MainTask, MainHolds, ContinueClear, StepClear, StepSet, StepSetFails,
         StepStore, Resume
<1>2. UNCHANGED <<stepRequests, eventRx, loop>>
  BY <1>1 DEF HandleConfigurationDone, HandleContinue, HandleStep,
              HandleDisconnect, jvmVars
<1>3. UNCHANGED <<QueueHolds, LoopHolds, OneEvent>>
  BY <1>2 DEF QueueHolds, LoopHolds, OneEvent
<1>4. CASE HandleDisconnect
  <2>1. /\ InboxHolds' => InboxHolds
        /\ OneRequest'
    BY <1>4, ReceiveTurn DEF TurnInv, OneHolder, HandleDisconnect
  <2>2. /\ snapshot' = NoThread /\ session' = FALSE
        /\ UNCHANGED <<jvm, stepRequests, main, editor>>
    BY <1>4 DEF HandleDisconnect, DropSession, jvmVars
  <2> QED
    BY <1>2, <1>3, <2>1, <2>2
    DEF TurnInv, OneHolder, HeldIsStopped, SnapshotKept, FiredIsPending,
        ContinueClearsAll, EditorHolds, MainHolds
<1>5. CASE ~HandleDisconnect
  <2>1. PICK request \in {"configurationDone", "continue", "step"} :
           Receive(request)
    BY <1>1, <1>5 DEF HandleConfigurationDone, HandleContinue, HandleStep
  <2>2. InboxHolds /\ ~InboxHolds' /\ OneRequest'
    BY <2>1, ReceiveTurn DEF TurnInv, OneHolder
  <2>3. ~EditorHolds /\ ~QueueHolds /\ ~LoopHolds /\ jvm # "running"
    BY <2>2 DEF TurnInv, OneHolder, HeldIsStopped
  <2>4. session' = session
    BY <1>1, <1>5 DEF HandleConfigurationDone, HandleContinue, HandleStep,
                      sessionVars
  <2>5. /\ MainHolds' => ~EditorHolds'
        /\ MainHolds' \/ EditorHolds' => jvm' # "running"
        /\ MainHolds' => snapshot' = NoThread
        /\ snapshot' # NoThread => snapshot' = snapshot
        /\ EditorHolds' => editor' = "stopped"
    BY <1>m, <1>1, <1>5, <2>3
    DEF HandleConfigurationDone, HandleContinue, HandleStep, ClearSnapshot,
        EditorHolds, MainHolds, jvmVars, sessionVars, EditorSeesStop
  <2>6. OneHolder' /\ HeldIsStopped'
    BY <1>3, <2>2, <2>3, <2>5 DEF TurnInv, OneHolder, HeldIsStopped
  <2>7. SnapshotKept'
    <3>1. CASE snapshot' = NoThread
      BY <3>1 DEF SnapshotKept
    <3>2. CASE snapshot' # NoThread
      <4>1. snapshot' = snapshot /\ ~MainHolds'
        BY <2>5, <3>2
      <4>2. \A i \in DOMAIN inbox : inbox[i] # "configurationDone"
        BY <3>2, <4>1 DEF TurnInv, SnapshotKept
      <4>3. ~HandleConfigurationDone
        BY <2>1, <4>2, TailElements DEF HandleConfigurationDone, Receive, TypeOK
      <4>4. jvm' = jvm
        BY <1>1, <1>5, <4>3 DEF HandleContinue, HandleStep, jvmVars
      <4>5. \A i \in DOMAIN inbox' : inbox'[i] # "configurationDone"
        BY <2>2 DEF InboxHolds
      <4>6. editor' # "configuring"
        BY <2>3, <2>5 DEF EditorHolds
      <4> QED
        BY <1>2, <1>3, <2>4, <3>2, <4>1, <4>4, <4>5, <4>6
        DEF TurnInv, SnapshotKept
    <3> QED
      BY <3>1, <3>2
  <2>8. FiredIsPending'
    BY <1>2, <2>3 DEF TurnInv, FiredIsPending, QueueHolds, LoopHolds
  <2>9. ContinueClearsAll'
    <3>1. CASE HandleConfigurationDone
      BY <3>1 DEF HandleConfigurationDone, TurnInv, ContinueClearsAll
    <3>2. CASE HandleContinue /\ ~session
      BY <3>2 DEF HandleContinue, TurnInv, ContinueClearsAll, jvmVars
    <3>3. CASE HandleContinue /\ session
      <4>1. \A r \in stepRequests : r.id = pendingStep /\ r.id # 0
        BY <2>3, <3>3
        DEF StepInv, StepAccounted, LoopHolds, HandleContinue, Receive, TypeOK,
            StepRequest
      <4>2. /\ main'.pc \in {"resume", "continueClear"}
            /\ main'.step = pendingStep
            /\ main'.pc = "resume" => pendingStep = 0
        BY <1>m, <3>3 DEF HandleContinue
      <4> QED
        BY <1>2, <4>1, <4>2 DEF ContinueClearsAll
    <3>4. CASE HandleStep
      BY <1>2, <3>4 DEF HandleStep, Receive, TurnInv, ContinueClearsAll
    <3> QED
      BY <1>1, <1>5, <3>1, <3>2, <3>3, <3>4
  <2> QED
    BY <2>6, <2>7, <2>8, <2>9 DEF TurnInv
<1> QED
  BY <1>4, <1>5

\* The event loop takes the turn with an event, and passes it to the program
\* or to the editor.
LEMMA TurnLoop == TypeOK /\ StepInv /\ TurnInv /\ EventLoop => TurnInv'
<1> SUFFICES ASSUME TypeOK, StepInv, TurnInv, EventLoop PROVE TurnInv'
  OBVIOUS
<1>l. loop \in [pc : LoopPcs, thread : Threads \cup {NoThread},
                step : Nat, fired : Nat]
  BY DEF TypeOK
<1>1. CASE LoopHolds
  <2>1. \/ LoopResume \/ LoopExceptionResume \/ LoopClear \/ LoopStore
        \/ LoopAnnounce
    BY <1>1 DEF EventLoop, LoopHolds, LoopWithoutSession, LoopClassPrepare,
       LoopException, LoopBreakpoint, LoopStep, LoopVmDeath, LoopKill, LoopEnd,
       Take
  <2>2. UNCHANGED <<inbox, eventRx, main, session, pendingStep>>
    BY <2>1 DEF LoopResume, LoopExceptionResume, LoopClear, LoopStore,
                LoopAnnounce, sessionVars, editorVars
  <2>3. UNCHANGED <<InboxHolds, QueueHolds, MainHolds, OneRequest, OneEvent>>
    BY <2>2 DEF InboxHolds, QueueHolds, MainHolds, OneRequest, OneEvent
  <2>4. /\ ~EditorHolds /\ ~InboxHolds /\ ~QueueHolds /\ ~MainHolds
        /\ jvm # "running"
    BY <1>1 DEF TurnInv, OneHolder, HeldIsStopped
  <2>5. \/ EditorHolds' /\ editor' = "stopped" /\ ~LoopHolds' /\ jvm' = jvm
        \/ ~EditorHolds' /\ LoopHolds' /\ jvm' = jvm
        \/ ~EditorHolds' /\ ~LoopHolds'
    <3>1. CASE LoopClear \/ LoopStore
      BY <1>l, <2>4, <3>1 DEF LoopClear, LoopStore, EditorHolds, LoopHolds,
           jvmVars, editorVars
    <3>2. CASE LoopAnnounce
      BY <3>2 DEF LoopAnnounce, EditorSeesStop, LoopAt, EditorHolds, LoopHolds,
                  jvmVars
    <3>3. CASE LoopResume \/ LoopExceptionResume
      BY <2>4, <3>3 DEF LoopResume, LoopExceptionResume, LoopAt, EditorHolds,
                        LoopHolds, editorVars
    <3> QED
      BY <2>1, <3>1, <3>2, <3>3
  <2>6. OneHolder' /\ HeldIsStopped'
    BY <2>2, <2>3, <2>4, <2>5 DEF TurnInv, OneHolder, HeldIsStopped
  <2>7. SnapshotKept'
    <3>1. \A i \in DOMAIN inbox' : inbox'[i] # "configurationDone"
      BY <2>2, <2>4 DEF InboxHolds
    <3>2. CASE LoopStore
      <4>1. loop'.pc = "announce" /\ jvm' = jvm /\ editor' = editor
        BY <1>l, <3>2 DEF LoopStore, jvmVars, editorVars
      <4>2. snapshot' # NoThread => session
        BY <3>2 DEF LoopStore, TurnInv, SnapshotKept
      <4> QED
        BY <2>2, <2>3, <2>4, <3>1, <4>1, <4>2 DEF SnapshotKept, EditorHolds
    <3>3. CASE LoopAnnounce
      <4>1. /\ loop'.pc = "select" /\ jvm' = jvm /\ snapshot' = snapshot
            /\ editor' # "configuring"
        BY <3>3 DEF LoopAnnounce, EditorSeesStop, LoopAt, jvmVars, sessionVars
      <4> QED
        BY <2>2, <2>3, <2>4, <3>1, <4>1 DEF SnapshotKept, TurnInv
    <3>4. CASE LoopResume \/ LoopExceptionResume \/ LoopClear
      <4>1. snapshot' = NoThread
        BY <3>4 DEF LoopResume, LoopExceptionResume, LoopClear, sessionVars,
                    TurnInv, SnapshotKept
      <4> QED
        BY <4>1 DEF SnapshotKept
    <3> QED
      BY <2>1, <3>2, <3>3, <3>4
  <2>8. loop'.pc # "clear"
    BY <1>l, <2>1 DEF LoopResume, LoopExceptionResume, LoopClear, LoopStore,
                LoopAnnounce, LoopAt
  <2>9. FiredIsPending' /\ ContinueClearsAll'
    BY <2>2, <2>4, <2>8
    DEF FiredIsPending, ContinueClearsAll, QueueHolds, MainHolds
  <2> QED
    BY <2>6, <2>7, <2>9 DEF TurnInv
<1>2. CASE \/ LoopWithoutSession \/ LoopClassPrepare \/ LoopException
           \/ LoopBreakpoint \/ LoopStep
  <2>1. PICK kind \in {"Breakpoint", "Step", "ClassPrepare", "Exception"} :
           Take(kind)
    BY <1>2 DEF LoopWithoutSession, LoopClassPrepare, LoopException,
                LoopBreakpoint, LoopStep, StopKinds
  <2>2. /\ QueueHolds /\ ~QueueHolds' /\ OneEvent'
        /\ \E j \in DOMAIN eventRx : Head(eventRx) = eventRx[j]
    BY <2>1, TakeTurn DEF TurnInv, OneHolder
  <2>3. /\ ~EditorHolds /\ ~InboxHolds /\ ~MainHolds /\ ~LoopHolds
        /\ jvm # "running" /\ snapshot = NoThread
    BY <2>2 DEF TurnInv, OneHolder, HeldIsStopped, SnapshotKept
  <2>4. UNCHANGED <<jvm, stepRequests, session, snapshot, main, editor, inbox>>
    BY <1>2 DEF LoopWithoutSession, LoopClassPrepare, LoopException,
                LoopBreakpoint, LoopStep, jvmVars, sessionVars, editorVars
  <2>5. OneHolder' /\ HeldIsStopped' /\ SnapshotKept' /\ ContinueClearsAll'
    BY <2>2, <2>3, <2>4
    DEF TurnInv, OneHolder, HeldIsStopped, SnapshotKept, ContinueClearsAll,
        EditorHolds, InboxHolds, MainHolds, OneRequest
  <2>6. \A i \in DOMAIN eventRx' : eventRx'[i].kind # "Step"
    BY <2>2 DEF QueueHolds
  <2>7. loop'.pc = "clear" => loop'.step = loop'.fired
    <3>1. CASE LoopStep
      <4>1. Head(eventRx).kind = "Step" /\ session
        BY <3>1 DEF LoopStep, Take
      <4>2. Head(eventRx).request = pendingStep
        BY <2>2, <4>1 DEF TurnInv, FiredIsPending
      <4> QED
        BY <3>1, <4>2 DEF LoopStep
    <3>2. CASE LoopWithoutSession
      BY <2>1, <3>2 DEF LoopWithoutSession, Take
    <3>3. CASE LoopClassPrepare \/ LoopException \/ LoopBreakpoint
      BY <3>3 DEF LoopClassPrepare, LoopException, LoopBreakpoint, LoopAt
    <3> QED
      BY <1>2, <3>1, <3>2, <3>3
  <2> QED
    BY <2>5, <2>6, <2>7 DEF TurnInv, FiredIsPending
<1>3. CASE LoopVmDeath
  <2>1. /\ QueueHolds' => QueueHolds
        /\ OneEvent'
        /\ \A i \in DOMAIN eventRx' :
              \E j \in DOMAIN eventRx : eventRx'[i] = eventRx[j]
    BY <1>3, TakeTurn DEF TurnInv, OneHolder, LoopVmDeath
  <2>2. /\ UNCHANGED <<jvm, stepRequests, session, snapshot, pendingStep, main,
                       editor, inbox>>
        /\ loop.pc = "select" /\ loop'.pc = "ending"
    BY <1>3 DEF LoopVmDeath, Take, LoopAt, jvmVars, sessionVars, editorVars
  <2>3. FiredIsPending'
    BY <2>1, <2>2 DEF TurnInv, FiredIsPending
  <2> QED
    BY <2>1, <2>2, <2>3
    DEF TurnInv, OneHolder, HeldIsStopped, SnapshotKept, ContinueClearsAll,
        EditorHolds, InboxHolds, MainHolds, LoopHolds, OneRequest
<1>4. CASE LoopKill
  <2>1. /\ UNCHANGED <<eventRx, session, snapshot, pendingStep, main, editor,
                       inbox>>
        /\ loop.pc = "select" /\ loop'.pc = "ending"
        /\ jvm' = "dead" /\ stepRequests' = {}
    BY <1>4 DEF LoopKill, LoopAt, sessionVars, editorVars
  <2> QED
    BY <2>1
    DEF TurnInv, OneHolder, HeldIsStopped, SnapshotKept, FiredIsPending,
        ContinueClearsAll, EditorHolds, InboxHolds, MainHolds, LoopHolds,
        QueueHolds, OneRequest, OneEvent
<1>5. CASE LoopEnd
  <2>1. /\ UNCHANGED <<jvm, stepRequests, eventRx, main, inbox>>
        /\ session' = FALSE /\ snapshot' = NoThread /\ editor' = "gone"
        /\ loop.pc = "ending" /\ loop'.pc = "done"
    BY <1>5 DEF LoopEnd, LoopAt, DropSession, jvmVars
  <2> QED
    BY <2>1
    DEF TurnInv, OneHolder, HeldIsStopped, SnapshotKept, FiredIsPending,
        ContinueClearsAll, EditorHolds, InboxHolds, MainHolds, LoopHolds,
        QueueHolds, OneRequest, OneEvent
<1> QED
  BY <1>1, <1>2, <1>3, <1>4, <1>5
  DEF EventLoop, LoopHolds, LoopResume, LoopExceptionResume, LoopClear,
      LoopStore, LoopAnnounce

LEMMA SingleKept == [Next]_vars => single' = single
BY DEF Next, Jvm, Editor, MainTask, EventLoop, Finished, vars

\* Where a suspension reports one stop, there is one turn to resume the JVM.
THEOREM OneTurn == Spec => [](single => TurnInv)
<1>1. Init => (single => TurnInv)
  BY DEF Init, TurnInv, OneHolder, OneRequest, OneEvent, HeldIsStopped,
         SnapshotKept, FiredIsPending, ContinueClearsAll, EditorHolds,
         InboxHolds, MainHolds, QueueHolds, LoopHolds, MainIdle, LoopAt
<1>2. TypeOK /\ StepInv /\ (single => TurnInv) /\ [Next]_vars
          => (single => TurnInv)'
  <2> SUFFICES ASSUME TypeOK, StepInv, single, TurnInv, [Next]_vars
               PROVE  TurnInv'
    BY SingleKept
  <2>1. CASE UNCHANGED vars \/ Finished
    <3>1. UNCHANGED <<jvm, stepRequests, eventRx, session, snapshot, pendingStep,
                      main, loop, editor, inbox>>
      BY <2>1 DEF Finished, vars, jvmVars, sessionVars, editorVars
    <3>2. UNCHANGED <<EditorHolds, InboxHolds, MainHolds, QueueHolds, LoopHolds,
                      OneRequest, OneEvent>>
      BY <3>1 DEF EditorHolds, InboxHolds, MainHolds, QueueHolds, LoopHolds,
                  OneRequest, OneEvent
    <3> QED
      BY <3>1, <3>2 DEF TurnInv, OneHolder, HeldIsStopped, SnapshotKept,
                        FiredIsPending, ContinueClearsAll
  <2>2. CASE MainTask
    BY <2>2, TurnMainHolds, TurnMainReceives
  <2> QED
    BY <2>1, <2>2, TurnJvm, TurnEditor, TurnLoop DEF Next
<1> QED
  BY <1>1, <1>2, TypeCorrect, StepInvariant, PTL DEF Spec

\* Where a suspension reports one stop, a snapshot shows a stopped program:
\* the JVM does not run while one is built, announced or kept.
THEOREM SnapshotsOfStoppedProgram == Spec => []SnapshotOfStoppedProgram
<1>1. (single => TurnInv) => SnapshotOfStoppedProgram
  BY DEF TurnInv, HeldIsStopped, SnapshotKept, LoopHolds,
         SnapshotOfStoppedProgram, SnapshotOfStoppedJvm
<1> QED
  BY <1>1, OneTurn, PTL

\* Where a suspension reports one stop, the step request that a step event
\* clears is the one that fired.
THEOREM StepsClearTheirOwn == Spec => []StepClearsItsOwn
<1>1. (single => TurnInv) => StepClearsItsOwn
  BY DEF TurnInv, FiredIsPending, StepClearsItsOwn
<1> QED
  BY <1>1, OneTurn, PTL

\* Where a suspension reports one stop, no step request is live when
\* "continue" resumes the program.
THEOREM ContinueLeavesNoStep == Spec => []NoStepAfterContinue
<1>1. (single => TurnInv) => NoStepAfterContinue
  BY DEF TurnInv, ContinueClearsAll, NoStepAfterContinue
<1> QED
  BY <1>1, OneTurn, PTL

-----------------------------------------------------------------------------
(* The debugger of Debuggee.  Where a suspension reports one stop, the     *)
(* main task and the event loop implement it, for any number of threads    *)
(* and any bounds.                                                         *)

-----------------------------------------------------------------------------
(* What the queues hold.                                                   *)

LEMMA NothingQueued ==
    ASSUME TypeOK, ~QueueHolds
    PROVE  /\ Waiting(StopKinds) = {} /\ Waiting(PauseKinds) = {}
           /\ QueuedThreads = {}
BY DEF QueueHolds, Waiting, QueuedThreads, StopKinds, PauseKinds

\* The one event that suspended the JVM, at the head of the queue.
LEMMA HeadQueued ==
    ASSUME TypeOK, OneEvent, NEW kind, Take(kind), kind # "VmDeath"
    PROVE  /\ 1 \in Waiting({kind}) /\ Head(eventRx) = eventRx[1]
           /\ kind \in StopKinds =>
                 QueuedThreads = {Head(eventRx).thread} /\ Waiting(PauseKinds) = {}
           /\ kind \in PauseKinds =>
                 QueuedThreads = {} /\ Waiting(PauseKinds) # {}
<1>1. /\ 1 \in DOMAIN eventRx /\ Head(eventRx) = eventRx[1]
      /\ eventRx[1].kind = kind
  BY TailElements DEF TypeOK, Take
<1>2. \A i \in DOMAIN eventRx : eventRx[i].kind # "VmDeath" => i = 1
  BY <1>1 DEF OneEvent
<1>3. \A kinds : "VmDeath" \notin kinds =>
          Waiting(kinds) = IF kind \in kinds THEN {1} ELSE {}
  BY <1>1, <1>2 DEF Waiting
<1>4. "VmDeath" \notin StopKinds /\ "VmDeath" \notin PauseKinds
      /\ "VmDeath" \notin {kind} /\ \A k : ~(k \in StopKinds /\ k \in PauseKinds)
  BY DEF StopKinds, PauseKinds
<1>5. /\ Waiting({kind}) = {1}
      /\ Waiting(StopKinds) = IF kind \in StopKinds THEN {1} ELSE {}
      /\ Waiting(PauseKinds) = IF kind \in PauseKinds THEN {1} ELSE {}
  BY <1>3, <1>4
<1>6. kind \in StopKinds => QueuedThreads = {eventRx[1].thread}
  BY <1>5 DEF QueuedThreads
<1>7. kind \notin StopKinds => QueuedThreads = {}
  BY <1>5 DEF QueuedThreads
<1> QED
  BY <1>1, <1>4, <1>5, <1>6, <1>7

\* What is left in a queue was there.
LEMMA TailQueued ==
    ASSUME TypeOK, NEW kind, Take(kind), NEW kinds, NEW i \in Waiting(kinds)'
    PROVE  \E j \in Waiting(kinds) : eventRx[j] = eventRx'[i]
<1>1. i \in DOMAIN eventRx' /\ eventRx'[i].kind \in kinds
  BY DEF Waiting
<1>2. i + 1 \in DOMAIN eventRx /\ eventRx'[i] = eventRx[i + 1]
  BY <1>1, TailElements DEF TypeOK, Take
<1> QED
  BY <1>1, <1>2 DEF Waiting

LEMMA TailSent ==
    ASSUME TypeOK, NEW request, Receive(request), NEW requests, Sent(requests)'
    PROVE  Sent(requests)
<1>1. PICK i \in DOMAIN inbox' : inbox'[i] \in requests
  BY DEF Sent
<1>2. i + 1 \in DOMAIN inbox /\ inbox'[i] = inbox[i + 1]
  BY <1>1, TailElements DEF TypeOK, Receive
<1> QED
  BY <1>1, <1>2 DEF Sent

-----------------------------------------------------------------------------
(* What the turn leaves to say of threads and of steps.                    *)

\* Nothing steps before the program starts.
FreshStart == editor = "configuring" \/ Sent({"configurationDone"})
                  => stepRequests = {}

\* The step the main task has requested is the only one, on its thread.
StepInForce ==
    /\ session /\ jvm # "dead"
    /\ main.pc = "stepStore" \/ (main.pc = "resume" /\ main.step # 0)
    => stepRequests = {[id |-> main.step, thread |-> main.thread]}

\* The main task has a thread from the moment it takes it from the snapshot
\* until it resumes, and so does the event loop until it announces the stop.
MainThread ==
    /\ main.pc \in {"idle", "continueClear"} => main.thread = NoThread
    /\ main.pc \in {"stepClear", "stepSet", "stepStore"} => main.thread \in Threads
    /\ main.pc = "resume" => ((main.thread = NoThread) <=> (main.step = 0))

LoopThread ==
    IF loop.pc \in {"clear", "build", "announce"} THEN loop.thread \in Threads
                                                  ELSE loop.thread = NoThread

EventThreads == \A i \in Waiting(StopKinds) : eventRx[i].thread \in Threads

\* The stop that is announced is the one the session keeps.
ShownIsKept == loop.pc = "announce" /\ session => snapshot = loop.thread

\* The request the event loop clears is no longer the session's.
ClearTook == loop.pc = "clear" => pendingStep = 0

\* The end of the JVM is not announced before it has ended.
DeathIsTrue == Waiting({"VmDeath"}) # {} => jvm = "dead"

UserInv == /\ FreshStart /\ StepInForce /\ MainThread /\ LoopThread
           /\ EventThreads /\ ShownIsKept /\ ClearTook /\ DeathIsTrue

LEMMA UserInvEditor == TypeOK /\ TurnInv /\ UserInv /\ Editor => UserInv'
<1> SUFFICES ASSUME TypeOK, TurnInv, UserInv, Editor PROVE UserInv'
  OBVIOUS
<1>1. UNCHANGED <<jvmVars, eventRx, sessionVars, main, loop>>
  BY DEF Editor, EditorConfigured, EditorResumes, EditorLeaves
<1>2. /\ editor' # "configuring"
      /\ Sent({"configurationDone"})' =>
            editor = "configuring" \/ Sent({"configurationDone"})
  <2>1. PICK request \in {"configurationDone", "continue", "step", "disconnect"} :
           /\ Send(request)
           /\ request = "configurationDone" => editor = "configuring"
           /\ editor' \in {"running", "gone"}
    BY DEF Editor, EditorConfigured, EditorResumes, EditorLeaves
  <2>2. \A i \in DOMAIN inbox' : \/ i \in DOMAIN inbox /\ inbox'[i] = inbox[i]
                                 \/ inbox'[i] = request
    BY <2>1, AppendElements DEF TypeOK, Send
  <2> QED
    BY <2>1, <2>2 DEF Sent
<1>3. \A kinds : Waiting(kinds)' = Waiting(kinds)
  BY <1>1 DEF Waiting
<1> QED
  BY <1>1, <1>2, <1>3
  DEF UserInv, FreshStart, StepInForce, MainThread, LoopThread, EventThreads,
      ShownIsKept, ClearTook, DeathIsTrue, jvmVars, sessionVars

LEMMA UserInvJvm == TypeOK /\ single /\ TurnInv /\ UserInv /\ Jvm => UserInv'
<1> SUFFICES ASSUME TypeOK, single, TurnInv, UserInv, Jvm PROVE UserInv'
  OBVIOUS
<1>1. CASE JvmDeath
  <2>1. PICK e \in Event : /\ e.kind = "VmDeath"
                           /\ eventRx' = Append(eventRx, e)
    BY <1>1 DEF JvmDeath, Event
  <2>2. \A i \in DOMAIN eventRx' : \/ i \in DOMAIN eventRx /\ eventRx'[i] = eventRx[i]
                                   \/ eventRx'[i] = e
    BY <2>1, AppendElements DEF TypeOK
  <2>3. EventThreads'
    BY <2>1, <2>2 DEF UserInv, EventThreads, Waiting, StopKinds
  <2>4. /\ jvm' = "dead" /\ stepRequests' = {}
        /\ UNCHANGED <<session, snapshot, pendingStep, main, loop>>
    BY <1>1 DEF JvmDeath, sessionVars
  <2> QED
    BY <2>3, <2>4
    DEF UserInv, FreshStart, StepInForce, MainThread, LoopThread, ShownIsKept,
        ClearTook, DeathIsTrue
<1>2. CASE ~JvmDeath
  <2>1. PICK e \in Event : /\ e.kind # "VmDeath" /\ e.thread \in Threads
                           /\ Suspend(<<e>>)
    BY <1>2, SingleStop
  <2>2. /\ jvm = "running" /\ jvm' = "suspended"
        /\ eventRx' = eventRx \o <<e>>
        /\ UNCHANGED <<stepRequests, session, snapshot, pendingStep, main, loop,
                       editor, inbox>>
    BY <2>1 DEF Suspend, sessionVars, editorVars
  <2>3. \A i \in DOMAIN eventRx' : \/ i \in DOMAIN eventRx /\ eventRx'[i] = eventRx[i]
                                   \/ eventRx'[i] = e
    BY <2>2, AppendElements DEF TypeOK
  <2>4. EventThreads'
    BY <2>1, <2>3 DEF UserInv, EventThreads, Waiting
  <2>5. Waiting({"VmDeath"})' = {}
    BY <2>1, <2>2, <2>3 DEF UserInv, DeathIsTrue, Waiting
  <2>6. ~MainHolds /\ Sent({"configurationDone"})' = Sent({"configurationDone"})
    BY <2>2 DEF TurnInv, HeldIsStopped, Sent
  <2> QED
    BY <2>2, <2>4, <2>5, <2>6
    DEF UserInv, FreshStart, StepInForce, MainThread, LoopThread, ShownIsKept,
        ClearTook, DeathIsTrue, MainHolds
<1> QED
  BY <1>1, <1>2

LEMMA UserInvMain ==
    TypeOK /\ StepInv /\ TurnInv /\ UserInv /\ MainTask => UserInv'
<1> SUFFICES ASSUME TypeOK, StepInv, TurnInv, UserInv, MainTask PROVE UserInv'
  OBVIOUS
<1>m. main \in [pc : MainPcs, thread : Threads \cup {NoThread}, step : Nat]
  BY DEF TypeOK
<1>n. NoThread \notin Threads
  BY ThreadsAssumption
<1>1. UNCHANGED <<eventRx, loop, lastRequest>> \/ StepSet
  BY DEF MainTask, HandleConfigurationDone, HandleContinue, ContinueClear,
         HandleStep, StepClear, StepSetFails, StepStore, Resume,
         HandleDisconnect, jvmVars
<1>2. UNCHANGED <<eventRx, loop>>
  BY <1>1 DEF StepSet
<1>3. LoopThread' /\ EventThreads'
  BY <1>2 DEF UserInv, LoopThread, EventThreads, Waiting
<1>4. DeathIsTrue'
  <2>1. jvm = "dead" => jvm' = "dead"
    BY DEF MainTask, HandleConfigurationDone, HandleContinue, ContinueClear,
           HandleStep, StepClear, StepSet, StepSetFails, StepStore, Resume,
           HandleDisconnect, ResumeJvm, jvmVars
  <2> QED
    BY <1>2, <2>1 DEF UserInv, DeathIsTrue, Waiting
<1>5. ASSUME LoopHolds PROVE HandleDisconnect
  <2>1. ~MainHolds /\ ~InboxHolds
    BY <1>5 DEF TurnInv, OneHolder
  <2>2. ASSUME NEW request, Receive(request) PROVE request = "disconnect"
    BY <2>1, <2>2, ReceiveTurn DEF TurnInv, OneHolder
  <2> QED
    BY <2>1, <2>2
    DEF MainTask, MainHolds, HandleConfigurationDone, HandleContinue,
        ContinueClear, HandleStep, StepClear, StepSet, StepSetFails, StepStore,
        Resume
<1>6. ShownIsKept' /\ ClearTook'
  <2>1. LoopHolds => session' = FALSE /\ pendingStep' = 0
    BY <1>5 DEF HandleDisconnect, DropSession
  <2> QED
    BY <1>2, <2>1 DEF ShownIsKept, ClearTook, LoopHolds
<1>7. FreshStart'
  <2>1. /\ stepRequests' \subseteq stepRequests \/ StepSet
        /\ editor' = "configuring" => editor = "configuring"
    BY DEF MainTask, HandleConfigurationDone, HandleContinue, ContinueClear,
           HandleStep, StepClear, StepSetFails, StepStore, Resume,
           HandleDisconnect, ClearInJvm, jvmVars, editorVars, EditorSeesStop,
           StepSet
  <2>2. CASE StepSet
    <3>1. ~EditorHolds /\ ~InboxHolds /\ UNCHANGED <<editor, inbox>>
      BY <2>2 DEF StepSet, MainHolds, TurnInv, OneHolder, editorVars
    <3> QED
      BY <3>1 DEF FreshStart, EditorHolds, InboxHolds, Sent
  <2>3. CASE ~StepSet
    <3>1. Sent({"configurationDone"})' => Sent({"configurationDone"})
      <4>1. CASE inbox' = inbox
        BY <4>1 DEF Sent
      <4>2. CASE inbox' # inbox
        <5>1. PICK request : Receive(request)
          BY <4>2 DEF MainTask, HandleConfigurationDone, HandleContinue,
             ContinueClear, HandleStep, StepClear, StepSet, StepSetFails,
             StepStore, Resume, HandleDisconnect, editorVars
        <5> QED
          BY <5>1, TailSent
      <4> QED
        BY <4>1, <4>2
    <3> QED
      BY <2>1, <2>3, <3>1 DEF UserInv, FreshStart
  <2> QED
    BY <2>2, <2>3
<1>8. MainThread' /\ StepInForce'
  <2> USE DEF UserInv, MainThread, StepInForce
  <2>1. CASE HandleConfigurationDone \/ HandleDisconnect
    BY <2>1 DEF HandleConfigurationDone, HandleDisconnect, Receive
  <2>2. CASE HandleContinue
    BY <2>2, <1>m DEF HandleContinue, Receive
  <2>3. CASE ContinueClear
    BY <2>3, <1>m DEF ContinueClear
  <2>4. CASE HandleStep
    BY <2>4, <1>m, <1>n DEF HandleStep, Receive, ThreadToStep, TypeOK
  <2>5. CASE StepClear
    BY <2>5, <1>m DEF StepClear
  <2>6. CASE StepSet
    <3>1. session => stepRequests = {}
      <4>1. \A r \in stepRequests : r.id # 0
        BY DEF TypeOK, StepRequest
      <4>2. ~LoopHolds
        BY <2>6 DEF StepSet, MainHolds, TurnInv, OneHolder
      <4> QED
        BY <2>6, <4>1, <4>2
        DEF StepSet, StepInv, StepAccounted, PendingTaken, LoopHolds
    <3>2. /\ main'.pc = "stepStore" /\ main'.step = lastRequest'
          /\ main'.thread = main.thread /\ main.thread \in Threads
      BY <2>6, <1>m DEF StepSet
    <3>3. session' => stepRequests' = {[id |-> main'.step, thread |-> main'.thread]}
      BY <2>6, <3>1, <3>2 DEF StepSet, sessionVars
    <3> QED
      BY <3>2, <3>3
  <2>7. CASE StepSetFails \/ Resume
    BY <2>7 DEF StepSetFails, Resume, MainIdle
  <2>8. CASE StepStore
    <3>1. main.step # 0
      BY <2>8 DEF StepStore, TurnInv, ContinueClearsAll
    <3> QED
      BY <2>8, <3>1, <1>m, <1>n DEF StepStore, jvmVars
  <2> QED
    BY <2>1, <2>2, <2>3, <2>4, <2>5, <2>6, <2>7, <2>8 DEF MainTask
<1> QED
  BY <1>3, <1>4, <1>6, <1>7, <1>8 DEF UserInv

LEMMA UserInvLoop ==
    TypeOK /\ TurnInv /\ UserInv /\ EventLoop => UserInv'
<1> SUFFICES ASSUME TypeOK, TurnInv, UserInv, EventLoop PROVE UserInv'
  OBVIOUS
<1>l. loop \in [pc : LoopPcs, thread : Threads \cup {NoThread},
                step : Nat, fired : Nat]
  BY DEF TypeOK
<1>n. NoThread \notin Threads
  BY ThreadsAssumption
<1>1. /\ main' = main /\ inbox' = inbox
      /\ stepRequests' \subseteq stepRequests
      /\ editor' = "configuring" => editor = "configuring"
      /\ jvm = "dead" => jvm' = "dead"
      /\ session' => session
  BY DEF EventLoop, LoopWithoutSession, LoopClassPrepare, LoopResume,
     LoopException, LoopExceptionResume, LoopBreakpoint, LoopStep, LoopClear,
     LoopStore, LoopAnnounce, LoopVmDeath, LoopKill, LoopEnd, ClearInJvm,
     ResumeJvm, EditorSeesStop, DropSession, jvmVars, sessionVars, editorVars
<1>2. FreshStart' /\ MainThread'
  BY <1>1 DEF UserInv, FreshStart, MainThread, Sent
<1>3. eventRx' = eventRx \/ \E kind : Take(kind)
  BY DEF EventLoop, LoopWithoutSession, LoopClassPrepare, LoopResume,
     LoopException, LoopExceptionResume, LoopBreakpoint, LoopStep, LoopClear,
     LoopStore, LoopAnnounce, LoopVmDeath, LoopKill, LoopEnd
<1>4. ASSUME NEW kinds, NEW i \in Waiting(kinds)'
      PROVE  \E j \in Waiting(kinds) : eventRx[j] = eventRx'[i]
  <2>1. CASE eventRx' = eventRx
    BY <2>1, <1>4 DEF Waiting
  <2> QED
    BY <1>3, <1>4, <2>1, TailQueued
<1>5. EventThreads' /\ DeathIsTrue'
  BY <1>1, <1>4 DEF UserInv, EventThreads, DeathIsTrue
<1>6. StepInForce'
  <2>1. stepRequests' = stepRequests \/ LoopClear \/ jvm' = "dead"
    BY DEF EventLoop, LoopWithoutSession, LoopClassPrepare, LoopResume,
       LoopException, LoopExceptionResume, LoopBreakpoint, LoopStep,
       LoopStore, LoopAnnounce, LoopVmDeath, LoopKill, LoopEnd, jvmVars
  <2>2. LoopClear => ~MainHolds
    BY DEF LoopClear, LoopHolds, TurnInv, OneHolder
  <2> QED
    BY <1>1, <2>1, <2>2 DEF UserInv, StepInForce, MainHolds
<1>7. LoopThread' /\ ShownIsKept' /\ ClearTook'
  <2> USE DEF UserInv, LoopThread, ShownIsKept, ClearTook
  <2>1. CASE LoopWithoutSession
    BY <2>1 DEF LoopWithoutSession, sessionVars
  <2>2. CASE LoopClassPrepare \/ LoopResume \/ LoopException
             \/ LoopExceptionResume \/ LoopAnnounce \/ LoopVmDeath \/ LoopKill
             \/ LoopEnd
    BY <2>2 DEF LoopClassPrepare, LoopResume, LoopException,
       LoopExceptionResume, LoopAnnounce, LoopVmDeath, LoopKill, LoopEnd,
       LoopAt
  <2>3. CASE LoopBreakpoint \/ LoopStep
    <3>1. Head(eventRx).thread \in Threads
      <4>1. PICK kind \in StopKinds : Take(kind)
        BY <2>3 DEF LoopBreakpoint, LoopStep, StopKinds
      <4>2. 1 \in Waiting({kind}) /\ Head(eventRx) = eventRx[1]
        BY <4>1, HeadQueued DEF StopKinds, TurnInv, OneHolder
      <4> QED
        BY <4>1, <4>2 DEF EventThreads, Waiting
    <3> QED
      BY <2>3, <3>1 DEF LoopBreakpoint, LoopStep, LoopAt
  <2>4. CASE LoopClear \/ LoopStore
    BY <2>4, <1>l DEF LoopClear, LoopStore, sessionVars
  <2> QED
    BY <2>1, <2>2, <2>3, <2>4 DEF EventLoop
<1> QED
  BY <1>2, <1>5, <1>6, <1>7 DEF UserInv

LEMMA UserInvariant == Spec => [](single => UserInv)
<1>1. Init => (single => UserInv)
  BY DEF Init, UserInv, FreshStart, StepInForce, MainThread, LoopThread,
         EventThreads, ShownIsKept, ClearTook, DeathIsTrue, Waiting, MainIdle,
         LoopAt
<1>2. TypeOK /\ StepInv /\ (single => TurnInv) /\ (single => UserInv)
          /\ [Next]_vars => (single => UserInv)'
  <2> SUFFICES ASSUME TypeOK, StepInv, single, TurnInv, UserInv, [Next]_vars
               PROVE  UserInv'
    BY SingleKept
  <2>1. CASE UNCHANGED vars \/ Finished
    <3>1. UNCHANGED <<jvm, stepRequests, eventRx, session, snapshot, pendingStep,
                      main, loop, editor, inbox>>
      BY <2>1 DEF Finished, vars, jvmVars, sessionVars, editorVars
    <3> QED
      BY <3>1 DEF UserInv, FreshStart, StepInForce, MainThread, LoopThread,
         EventThreads, ShownIsKept, ClearTook, DeathIsTrue, Waiting, Sent
  <2> QED
    BY <2>1, UserInvJvm, UserInvEditor, UserInvMain, UserInvLoop DEF Next
<1> QED
  BY <1>1, <1>2, TypeCorrect, StepInvariant, OneTurn, PTL DEF Spec

-----------------------------------------------------------------------------
(* What the user sees, by who has the turn.                                *)

Seen(program, at, user, order) ==
    /\ ProgramSeen = program /\ ThreadSeen = at
    /\ UserSeen = user /\ OrderSeen = order

View == ~DebuggingOver =>
    /\ jvm = "running" => Seen("running", {}, "waiting", "none")
    /\ EditorHolds => Seen("stopped", {snapshot} \ {NoThread}, "looking", "none")
    /\ InboxHolds => Seen("stopped", {snapshot} \ {NoThread}, "waiting",
                          IF Sent({"step"}) THEN "step" ELSE "go")
    /\ MainHolds => Seen("stopped", {main.thread} \ {NoThread}, "waiting",
                         IF main.thread = NoThread THEN "go" ELSE "step")
    /\ QueueHolds => Seen(IF Waiting(PauseKinds) = {} THEN "stopped" ELSE "paused",
                          QueuedThreads \ {NoThread}, "waiting", "none")
    /\ LoopHolds => Seen(IF loop.pc \in {"resume", "exceptionResume"}
                         THEN "paused" ELSE "stopped",
                         {loop.thread} \ {NoThread}, "waiting", "none")
    /\ StepsSeen = {r.thread : r \in stepRequests}

LEMMA Views == TypeOK /\ TurnInv /\ UserInv => View
<1> SUFFICES ASSUME TypeOK, TurnInv, UserInv, ~DebuggingOver PROVE View
  BY DEF View
<1>1. ~MainHolds => main.thread = NoThread
  BY DEF MainHolds, UserInv, MainThread
<1>2. ~LoopHolds => /\ loop.thread = NoThread
                    /\ loop.pc \notin {"resume", "exceptionResume"}
  BY DEF LoopHolds, UserInv, LoopThread
<1>3. ~QueueHolds => QueuedThreads = {} /\ Waiting(PauseKinds) = {}
  BY NothingQueued
<1>4. /\ ~InboxHolds => /\ ~Sent({"step"})
                        /\ ~Sent({"configurationDone", "continue"})
      /\ InboxHolds => \/ Sent({"step"})
                       \/ Sent({"configurationDone", "continue"})
  BY DEF InboxHolds, Sent, TypeOK
<1>5. /\ UserSeen = IF EditorHolds THEN "looking" ELSE "waiting"
      /\ ThreadSeen = (QueuedThreads \cup {loop.thread, snapshot, main.thread})
                      \ {NoThread}
      /\ StepsSeen = {r.thread : r \in stepRequests}
      /\ ProgramSeen = IF jvm = "running" THEN "running"
                       ELSE IF JustPaused THEN "paused" ELSE "stopped"
  BY DEF UserSeen, ThreadSeen, StepsSeen, ProgramSeen, EditorHolds
<1>6. /\ StepOrdered => OrderSeen = "step"
      /\ ~StepOrdered /\ GoOrdered => OrderSeen = "go"
      /\ ~StepOrdered /\ ~GoOrdered => OrderSeen = "none"
  BY DEF OrderSeen
<1>7. CASE jvm = "running"
  <2>1. ~EditorHolds /\ ~InboxHolds /\ ~MainHolds /\ ~QueueHolds /\ ~LoopHolds
    BY <1>7 DEF TurnInv, HeldIsStopped
  <2>2. snapshot = NoThread
    BY <1>7 DEF TurnInv, SnapshotKept
  <2>3. OrderSeen = "none"
    BY <1>1, <1>4, <1>6, <2>1 DEF StepOrdered, GoOrdered, MainHolds
  <2>4. Seen("running", {}, "waiting", "none")
    BY <1>1, <1>2, <1>3, <1>5, <1>7, <2>1, <2>2, <2>3 DEF Seen
  <2> QED
    BY <1>5, <2>1, <2>4 DEF View
<1>8. CASE EditorHolds
  <2>1. ~InboxHolds /\ ~MainHolds /\ ~QueueHolds /\ ~LoopHolds /\ jvm # "running"
    BY <1>8 DEF TurnInv, OneHolder, HeldIsStopped
  <2>2. OrderSeen = "none"
    BY <1>1, <1>4, <1>6, <2>1 DEF StepOrdered, GoOrdered, MainHolds
  <2>3. Seen("stopped", {snapshot} \ {NoThread}, "looking", "none")
    BY <1>1, <1>2, <1>3, <1>5, <1>8, <2>1, <2>2 DEF Seen, JustPaused
  <2> QED
    BY <1>5, <2>1, <2>3 DEF View
<1>9. CASE InboxHolds
  <2>1. ~EditorHolds /\ ~MainHolds /\ ~QueueHolds /\ ~LoopHolds /\ jvm # "running"
    BY <1>9 DEF TurnInv, OneHolder, HeldIsStopped
  <2>2. OrderSeen = IF Sent({"step"}) THEN "step" ELSE "go"
    BY <1>1, <1>4, <1>6, <1>9, <2>1 DEF StepOrdered, GoOrdered
  <2>3. Seen("stopped", {snapshot} \ {NoThread}, "waiting",
             IF Sent({"step"}) THEN "step" ELSE "go")
    BY <1>1, <1>2, <1>3, <1>5, <2>1, <2>2 DEF Seen, JustPaused
  <2> QED
    BY <1>5, <2>1, <2>3, <1>9 DEF View
<1>10. CASE MainHolds
  <2>1. /\ ~EditorHolds /\ ~InboxHolds /\ ~QueueHolds /\ ~LoopHolds
        /\ jvm # "running" /\ snapshot = NoThread
    BY <1>10 DEF TurnInv, OneHolder, HeldIsStopped, SnapshotKept
  <2>2. OrderSeen = IF main.thread = NoThread THEN "go" ELSE "step"
    BY <1>4, <1>6, <1>10, <2>1 DEF StepOrdered, GoOrdered, MainHolds
  <2>3. Seen("stopped", {main.thread} \ {NoThread}, "waiting",
             IF main.thread = NoThread THEN "go" ELSE "step")
    BY <1>2, <1>3, <1>5, <2>1, <2>2 DEF Seen, JustPaused
  <2> QED
    BY <1>5, <2>1, <2>3 DEF View
<1>11. CASE QueueHolds
  <2>1. /\ ~EditorHolds /\ ~InboxHolds /\ ~MainHolds /\ ~LoopHolds
        /\ jvm # "running" /\ snapshot = NoThread
    BY <1>11 DEF TurnInv, OneHolder, HeldIsStopped, SnapshotKept
  <2>2. OrderSeen = "none"
    BY <1>1, <1>4, <1>6, <2>1 DEF StepOrdered, GoOrdered, MainHolds
  <2>3. Seen(IF Waiting(PauseKinds) = {} THEN "stopped" ELSE "paused",
             QueuedThreads \ {NoThread}, "waiting", "none")
    BY <1>1, <1>2, <1>5, <2>1, <2>2 DEF Seen, JustPaused
  <2> QED
    BY <1>5, <2>1, <2>3 DEF View
<1>12. CASE LoopHolds
  <2>1. /\ ~EditorHolds /\ ~InboxHolds /\ ~MainHolds /\ ~QueueHolds
        /\ jvm # "running"
    BY <1>12 DEF TurnInv, OneHolder, HeldIsStopped
  <2>2. OrderSeen = "none"
    BY <1>1, <1>4, <1>6, <2>1 DEF StepOrdered, GoOrdered, MainHolds
  <2>3. snapshot \in {loop.thread, NoThread}
    BY <1>12 DEF TurnInv, SnapshotKept, UserInv, ShownIsKept, LoopHolds,
                 DebuggingOver
  <2>4. Seen(IF loop.pc \in {"resume", "exceptionResume"}
             THEN "paused" ELSE "stopped",
             {loop.thread} \ {NoThread}, "waiting", "none")
    BY <1>1, <1>3, <1>5, <2>1, <2>2, <2>3 DEF Seen, JustPaused
  <2> QED
    BY <1>5, <2>1, <2>4 DEF View
<1>13. CASE /\ ~EditorHolds /\ ~InboxHolds /\ ~MainHolds /\ ~QueueHolds
            /\ ~LoopHolds /\ jvm # "running"
  BY <1>5, <1>13 DEF View
<1> QED
  BY <1>7, <1>8, <1>9, <1>10, <1>11, <1>12, <1>13

-----------------------------------------------------------------------------
(* Every step of the tasks, the JVM and the editor is one of Debuggee.     *)

UserStep == User!DebuggeeNext \/ UNCHANGED User!debuggeeVars

\* The debugging is over for good, and when it ends the user sees it end.
LEMMA OverImplements ==
    ASSUME [Next]_vars, DebuggingOver \/ DebuggingOver'
    PROVE  UserStep
<1>1. DebuggingOver => DebuggingOver'
  <2>1. /\ session' => session
        /\ jvm = "dead" => jvm' = "dead"
        /\ editor = "gone" => editor' = "gone"
    <3>1. CASE Jvm
      <4>1. JvmDeath \/ \E events : Suspend(events)
        BY <3>1 DEF Jvm, JvmStop, JvmClassPrepare, JvmException
      <4> QED
        BY <4>1 DEF JvmDeath, Suspend, sessionVars, editorVars
    <3>2. CASE Editor
      BY <3>2 DEF Editor, EditorConfigured, EditorResumes, EditorLeaves,
                  jvmVars, sessionVars
    <3>3. CASE MainTask
      BY <3>3 DEF MainTask, HandleConfigurationDone, HandleContinue,
         ContinueClear, HandleStep, StepClear, StepSet, StepSetFails, StepStore,
         Resume, HandleDisconnect, ResumeJvm, DropSession, EditorSeesStop,
         jvmVars, sessionVars, editorVars
    <3>4. CASE EventLoop
      BY <3>4 DEF EventLoop, LoopWithoutSession, LoopClassPrepare, LoopResume,
         LoopException, LoopExceptionResume, LoopBreakpoint, LoopStep,
         LoopClear, LoopStore, LoopAnnounce, LoopVmDeath, LoopKill, LoopEnd,
         ResumeJvm, DropSession, EditorSeesStop, jvmVars, sessionVars,
         editorVars
    <3>5. CASE Finished \/ UNCHANGED vars
      BY <3>5 DEF Finished, vars, jvmVars, sessionVars, editorVars
    <3> QED
      BY <3>1, <3>2, <3>3, <3>4, <3>5 DEF Next
  <2> QED
    BY <2>1 DEF DebuggingOver
<1>2. DebuggingOver => /\ ProgramSeen = "over" /\ ThreadSeen = {}
                       /\ UserSeen = "waiting" /\ OrderSeen = "none"
                       /\ StepsSeen = {}
  BY DEF ProgramSeen, ThreadSeen, UserSeen, OrderSeen, StepsSeen
<1>3. /\ ProgramSeen' = "over" /\ ThreadSeen' = {}
      /\ UserSeen' = "waiting" /\ OrderSeen' = "none" /\ StepsSeen' = {}
  BY <1>1 DEF ProgramSeen, ThreadSeen, UserSeen, OrderSeen, StepsSeen
<1>4. ~DebuggingOver => ProgramSeen # "over"
  BY DEF ProgramSeen
<1>5. CASE DebuggingOver
  BY <1>2, <1>3, <1>5 DEF UserStep, User!debuggeeVars
<1>6. CASE ~DebuggingOver
  <2>1. User!End
    BY <1>3, <1>4, <1>6 DEF User!End
  <2> QED
    BY <2>1 DEF UserStep, User!DebuggeeNext
<1> QED
  BY <1>5, <1>6

\* The editor's requests are the user's orders.
LEMMA EditorImplements ==
    ASSUME TypeOK, TurnInv, View, View', Editor,
           ~DebuggingOver, ~DebuggingOver'
    PROVE  UserStep
<1>1. PICK request \in {"configurationDone", "continue", "step"} :
         Send(request) /\ EditorHolds
  BY DEF Editor, EditorConfigured, EditorResumes, EditorLeaves, EditorHolds,
         DebuggingOver
<1>2. UNCHANGED <<stepRequests, snapshot>>
  BY DEF Editor, EditorConfigured, EditorResumes, EditorLeaves, jvmVars,
         sessionVars
<1>3. ~InboxHolds
  BY <1>1 DEF TurnInv, OneHolder
<1>4. /\ \A i \in DOMAIN inbox' : \/ i \in DOMAIN inbox /\ inbox'[i] = inbox[i]
                                  \/ inbox'[i] = request
      /\ \E i \in DOMAIN inbox' : inbox'[i] = request
  <2>1. inbox' = Append(inbox, request)
    BY <1>1 DEF Send
  <2>2. Len(inbox') \in DOMAIN inbox' /\ inbox'[Len(inbox')] = request
    BY <2>1, AppendProperties DEF TypeOK
  <2> QED
    BY <2>1, <2>2, AppendElements DEF TypeOK
<1>5. InboxHolds' /\ (Sent({"step"})' <=> request = "step")
  BY <1>3, <1>4 DEF InboxHolds, Sent
<1>6. /\ Seen("stopped", {snapshot} \ {NoThread}, "looking", "none")
      /\ Seen("stopped", {snapshot} \ {NoThread}, "waiting",
              IF request = "step" THEN "step" ELSE "go")'
      /\ StepsSeen' = StepsSeen
  BY <1>1, <1>2, <1>5 DEF View
<1>7. User!Give(IF request = "step" THEN "step" ELSE "go")
  BY <1>2, <1>6 DEF Seen, User!Give
<1> QED
  BY <1>7 DEF UserStep, User!DebuggeeNext

\* The events of the JVM stop the program, or pause it.
LEMMA JvmImplements ==
    ASSUME TypeOK, single, TurnInv, UserInv, View, View', Jvm,
           ~DebuggingOver, ~DebuggingOver'
    PROVE  UserStep
<1>1. ~JvmDeath
  BY DEF JvmDeath, DebuggingOver
<1>2. PICK e \in Event : /\ e.kind # "VmDeath" /\ e.thread \in Threads
                         /\ Suspend(<<e>>)
  BY <1>1, SingleStop
<1>3. /\ jvm = "running" /\ eventRx' = eventRx \o <<e>>
      /\ UNCHANGED stepRequests
  BY <1>2 DEF Suspend
<1>4. ~QueueHolds /\ \A i \in DOMAIN eventRx : FALSE
  BY <1>3 DEF TurnInv, HeldIsStopped, UserInv, DeathIsTrue, Waiting, QueueHolds
<1>5. eventRx \in Seq(Event)
  BY DEF TypeOK
<1>6. eventRx = <<>>
  <2>1. Len(eventRx) \in Nat /\ DOMAIN eventRx = 1 .. Len(eventRx)
    BY <1>5
  <2>2. Len(eventRx) = 0
    BY <1>4, <2>1
  <2> QED
    BY <1>5, <2>2
<1>7. DOMAIN eventRx' = {1} /\ eventRx'[1] = e
  BY <1>3, <1>6
<1>8. /\ QueueHolds'
      /\ Waiting(PauseKinds)' = IF e.kind \in PauseKinds THEN {1} ELSE {}
      /\ Waiting(StopKinds)' = IF e.kind \in StopKinds THEN {1} ELSE {}
  BY <1>2, <1>7 DEF QueueHolds, Waiting
<1>9. /\ e.kind \in PauseKinds \/ e.kind \in StopKinds
      /\ ~(e.kind \in PauseKinds /\ e.kind \in StopKinds)
  BY <1>2 DEF Event, PauseKinds, StopKinds
<1>10. /\ Seen("running", {}, "waiting", "none")
       /\ Seen(IF Waiting(PauseKinds) = {} THEN "stopped" ELSE "paused",
               QueuedThreads \ {NoThread}, "waiting", "none")'
       /\ StepsSeen' = StepsSeen
  BY <1>3, <1>8 DEF View
<1>11. CASE e.kind \in PauseKinds
  <2>1. QueuedThreads' = {}
    BY <1>8, <1>9, <1>11 DEF QueuedThreads
  <2>2. User!Pause
    BY <1>8, <1>10, <1>11, <2>1 DEF Seen, User!Pause
  <2> QED
    BY <2>2 DEF UserStep, User!DebuggeeNext
<1>12. CASE e.kind \in StopKinds
  <2>1. QueuedThreads' = {e.thread}
    BY <1>7, <1>8, <1>12 DEF QueuedThreads
  <2>2. QueuedThreads' \ {NoThread} = {e.thread}
    BY <1>2, <2>1, ThreadsAssumption
  <2>3. User!Stop(e.thread)
    BY <1>8, <1>9, <1>10, <1>12, <2>2 DEF Seen, User!Stop
  <2> QED
    BY <1>2, <2>3 DEF UserStep, User!DebuggeeNext
<1> QED
  BY <1>9, <1>11, <1>12

\* The main task carries out the orders.
LEMMA MainHoldsImplements ==
    ASSUME TypeOK, StepInv, TurnInv, UserInv, TurnInv', View, View', MainTask,
           MainHolds, ~DebuggingOver, ~DebuggingOver'
    PROVE  UserStep
<1>m. main \in [pc : MainPcs, thread : Threads \cup {NoThread}, step : Nat]
  BY DEF TypeOK
<1>1. \/ ContinueClear \/ StepClear \/ StepSet \/ StepSetFails
      \/ StepStore \/ Resume
  BY DEF MainTask, MainHolds, HandleConfigurationDone, HandleContinue,
         HandleStep, HandleDisconnect, Receive
<1>2. Seen("stopped", {main.thread} \ {NoThread}, "waiting",
           IF main.thread = NoThread THEN "go" ELSE "step")
  BY DEF View
<1>3. /\ StepsSeen = {r.thread : r \in stepRequests}
      /\ StepsSeen' = {r.thread : r \in stepRequests'}
  BY DEF View
<1>4. /\ session /\ jvm \notin {"running", "dead"}
      /\ ~LoopHolds /\ snapshot = NoThread
  BY DEF DebuggingOver, TurnInv, OneHolder, HeldIsStopped, SnapshotKept
<1>5. MainHolds' /\ main'.thread = main.thread
      => Seen("stopped", {main.thread} \ {NoThread}, "waiting",
              IF main.thread = NoThread THEN "go" ELSE "step")'
  BY DEF View
<1>6. CASE ContinueClear \/ StepClear
  <2>1. stepRequests' = {}
    <3>1. \A r \in stepRequests : r.id = main.step
      <4>1. \A r \in stepRequests : r.id # 0
        BY DEF TypeOK, StepRequest
      <4> QED
        BY <1>4, <1>6, <4>1
        DEF ContinueClear, StepClear, StepInv, StepAccounted, PendingTaken,
            LoopHolds
    <3> QED
      BY <1>6, <3>1 DEF ContinueClear, StepClear, ClearInJvm
  <2>2. MainHolds' /\ main'.thread = main.thread
    BY <1>m, <1>6 DEF ContinueClear, StepClear, MainHolds
  <2>3. StepsSeen' = {}
    BY <1>3, <2>1
  <2>4. User!EndStep \/ UNCHANGED User!debuggeeVars
    BY <1>2, <1>5, <2>2, <2>3 DEF Seen, User!EndStep, User!debuggeeVars
  <2> QED
    BY <2>4 DEF UserStep, User!DebuggeeNext
<1>7. CASE StepSet
  <2>1. stepRequests = {}
    <3>1. \A r \in stepRequests : r.id # 0
      BY DEF TypeOK, StepRequest
    <3> QED
      BY <1>4, <1>7, <3>1
      DEF StepSet, StepInv, StepAccounted, PendingTaken, LoopHolds
  <2>2. stepRequests' = {[id |-> lastRequest', thread |-> main.thread]}
    BY <1>7, <2>1 DEF StepSet
  <2>3. StepsSeen = {} /\ StepsSeen' = {main.thread}
    BY <1>3, <2>1, <2>2
  <2>4. main.thread # NoThread
    BY <1>7, ThreadsAssumption DEF StepSet, TypeOK
  <2>5. MainHolds' /\ main'.thread = main.thread
    BY <1>m, <1>7 DEF StepSet, MainHolds
  <2>6. ThreadSeen = {main.thread}
    BY <1>2, <2>4 DEF Seen
  <2>7. User!StartStep
    BY <1>2, <1>5, <2>3, <2>4, <2>5, <2>6 DEF Seen, User!StartStep
  <2> QED
    BY <2>7 DEF UserStep, User!DebuggeeNext
<1>8. CASE StepSetFails
  <2>1. /\ EditorHolds' /\ snapshot' = NoThread
        /\ stepRequests' = stepRequests
    BY <1>4, <1>8 DEF StepSetFails, EditorSeesStop, EditorHolds, DebuggingOver,
                      jvmVars, sessionVars
  <2>2. Seen("stopped", {snapshot} \ {NoThread}, "looking", "none")'
    BY <2>1 DEF View
  <2>3. ThreadSeen' = {}
    BY <2>1, <2>2 DEF Seen
  <2>4. main.thread # NoThread
    BY <1>8, ThreadsAssumption DEF StepSetFails, TypeOK
  <2>5. User!Refuse
    BY <1>2, <1>3, <2>1, <2>2, <2>3, <2>4 DEF Seen, User!Refuse
  <2> QED
    BY <2>5 DEF UserStep, User!DebuggeeNext
<1>9. CASE StepStore
  <2>1. /\ MainHolds' /\ main'.thread = main.thread
        /\ stepRequests' = stepRequests
    BY <1>m, <1>9 DEF StepStore, MainHolds, jvmVars
  <2> QED
    BY <1>2, <1>3, <1>5, <2>1 DEF Seen, UserStep, User!debuggeeVars
<1>10. CASE Resume
  <2>1. jvm' = "running" /\ stepRequests' = stepRequests
    BY <1>4, <1>10 DEF Resume, ResumeJvm, TypeOK
  <2>2. Seen("running", {}, "waiting", "none")'
    BY <2>1 DEF View
  <2>3. CASE main.thread = NoThread
    <3>1. stepRequests = {}
      BY <1>10, <2>3 DEF Resume, UserInv, MainThread, TurnInv, ContinueClearsAll
    <3>2. StepsSeen = {} /\ ThreadSeen = {} /\ OrderSeen = "go"
      BY <1>2, <1>3, <2>3, <3>1 DEF Seen
    <3> QED
      BY <1>2, <1>3, <2>1, <2>2, <3>2
      DEF Seen, User!Resume, UserStep, User!DebuggeeNext
  <2>4. CASE main.thread # NoThread
    <3>1. stepRequests = {[id |-> main.step, thread |-> main.thread]}
      BY <1>4, <1>10, <2>4 DEF Resume, UserInv, MainThread, StepInForce
    <3>2. StepsSeen = {main.thread}
      BY <1>3, <3>1
    <3>3. ThreadSeen = {main.thread} /\ OrderSeen = "step"
      BY <1>2, <2>4 DEF Seen
    <3>4. User!Resume
      BY <1>2, <1>3, <2>1, <2>2, <3>2, <3>3 DEF Seen, User!Resume
    <3> QED
      BY <3>4 DEF UserStep, User!DebuggeeNext
  <2> QED
    BY <2>3, <2>4
<1> QED
  BY <1>1, <1>6, <1>7, <1>8, <1>9, <1>10

\* The main task receives an order: it goes on with a go at once, takes the
\* thread it shows for a step, or refuses to step without one.
LEMMA MainReceivesImplements ==
    ASSUME TypeOK, TurnInv, UserInv, View, View', MainTask, ~MainHolds,
           ~DebuggingOver, ~DebuggingOver'
    PROVE  UserStep
<1>m. main \in [pc : MainPcs, thread : Threads \cup {NoThread}, step : Nat]
  BY DEF TypeOK
<1>1. HandleConfigurationDone \/ HandleContinue \/ HandleStep
  BY DEF MainTask, MainHolds, ContinueClear, StepClear, StepSet, StepSetFails,
         StepStore, Resume, HandleDisconnect, DropSession, DebuggingOver
<1>2. PICK request \in {"configurationDone", "continue", "step"} :
         /\ Receive(request)
         /\ HandleConfigurationDone <=> request = "configurationDone"
         /\ HandleContinue <=> request = "continue"
         /\ HandleStep <=> request = "step"
  BY <1>1 DEF HandleConfigurationDone, HandleContinue, HandleStep, Receive
<1>3. 1 \in DOMAIN inbox /\ inbox[1] = request
  BY <1>2, TailElements DEF TypeOK, Receive
<1>4. InboxHolds /\ \A i \in DOMAIN inbox : inbox[i] # "disconnect" => i = 1
  BY <1>3 DEF InboxHolds, TurnInv, OneHolder, OneRequest
<1>5. Sent({"step"}) <=> request = "step"
  BY <1>3, <1>4 DEF Sent
<1>6. Seen("stopped", {snapshot} \ {NoThread}, "waiting",
           IF request = "step" THEN "step" ELSE "go")
  BY <1>4, <1>5 DEF View
<1>7. session /\ jvm \notin {"running", "dead"} /\ editor # "gone"
  BY <1>4 DEF DebuggingOver, TurnInv, HeldIsStopped
<1>8. stepRequests' = stepRequests
  BY <1>1 DEF HandleConfigurationDone, HandleContinue, HandleStep, jvmVars
<1>9. /\ StepsSeen = {r.thread : r \in stepRequests}
      /\ StepsSeen' = StepsSeen
  BY <1>8 DEF View
<1>10. CASE HandleConfigurationDone
  <2>1. jvm' = "running"
    BY <1>7, <1>10 DEF HandleConfigurationDone, ResumeJvm, TypeOK
  <2>2. Seen("running", {}, "waiting", "none")'
    BY <2>1 DEF View
  <2>3. snapshot = NoThread /\ stepRequests = {}
    BY <1>2, <1>3, <1>10 DEF TurnInv, SnapshotKept, UserInv, FreshStart, Sent
  <2>4. ThreadSeen = {} /\ StepsSeen = {} /\ OrderSeen = "go"
    BY <1>2, <1>6, <1>9, <1>10, <2>3 DEF Seen
  <2>5. User!Resume
    BY <1>6, <1>9, <2>2, <2>4 DEF Seen, User!Resume
  <2> QED
    BY <2>5 DEF UserStep, User!DebuggeeNext
<1>11. CASE HandleContinue
  <2>1. MainHolds' /\ main'.thread = NoThread
    BY <1>7, <1>11, <1>m DEF HandleContinue, Receive, MainHolds, UserInv,
                             MainThread
  <2>2. Seen("stopped", {main.thread} \ {NoThread}, "waiting",
             IF main.thread = NoThread THEN "go" ELSE "step")'
    BY <2>1 DEF View
  <2>3. ThreadSeen' = {} /\ OrderSeen' = "go"
    BY <2>1, <2>2 DEF Seen
  <2>4. OrderSeen = "go"
    BY <1>2, <1>6, <1>11 DEF Seen
  <2>5. User!Leave \/ UNCHANGED User!debuggeeVars
    BY <1>6, <1>9, <2>2, <2>3, <2>4 DEF Seen, User!Leave, User!debuggeeVars
  <2> QED
    BY <2>5 DEF UserStep, User!DebuggeeNext
<1>12. CASE HandleStep /\ ThreadToStep
  <2>1. /\ MainHolds' /\ main'.thread = snapshot
        /\ snapshot # NoThread
    BY <1>12 DEF HandleStep, ThreadToStep, MainHolds
  <2>2. Seen("stopped", {main.thread} \ {NoThread}, "waiting",
             IF main.thread = NoThread THEN "go" ELSE "step")'
    BY <2>1 DEF View
  <2>3. OrderSeen = "step"
    BY <1>2, <1>6, <1>12 DEF Seen
  <2> QED
    BY <1>6, <1>9, <2>1, <2>2, <2>3 DEF Seen, UserStep, User!debuggeeVars
<1>13. CASE HandleStep /\ ~ThreadToStep
  <2>1. EditorHolds' /\ snapshot = NoThread /\ snapshot' = NoThread
    BY <1>7, <1>13 DEF HandleStep, ThreadToStep, EditorSeesStop, EditorHolds
  <2>2. Seen("stopped", {snapshot} \ {NoThread}, "looking", "none")'
    BY <2>1 DEF View
  <2>3. ThreadSeen' = {} /\ OrderSeen = "step"
    BY <1>2, <1>6, <1>13, <2>1, <2>2 DEF Seen
  <2>4. User!Refuse
    BY <1>6, <1>9, <2>2, <2>3 DEF Seen, User!Refuse
  <2> QED
    BY <2>4 DEF UserStep, User!DebuggeeNext
<1> QED
  BY <1>1, <1>10, <1>11, <1>12, <1>13

\* The event loop shows the stops, and lets the program run on from a pause.
LEMMA LoopImplements ==
    ASSUME TypeOK, StepInv, TurnInv, UserInv, View, View', EventLoop,
           ~DebuggingOver, ~DebuggingOver'
    PROVE  UserStep
<1>l. loop \in [pc : LoopPcs, thread : Threads \cup {NoThread},
                step : Nat, fired : Nat]
  BY DEF TypeOK
<1>0. session /\ session' /\ jvm # "dead" /\ editor # "gone"
  BY DEF DebuggingOver
<1>1. \/ LoopClassPrepare \/ LoopException \/ LoopBreakpoint \/ LoopStep
      \/ LoopResume \/ LoopExceptionResume \/ LoopClear \/ LoopStore
      \/ LoopAnnounce
  <2>1. ~LoopWithoutSession /\ ~LoopKill /\ ~LoopEnd
    BY <1>0 DEF LoopWithoutSession, LoopKill, LoopEnd, DropSession
  <2>2. ~LoopVmDeath
    <3>1. ASSUME LoopVmDeath PROVE FALSE
      <4>1. 1 \in DOMAIN eventRx /\ eventRx[1].kind = "VmDeath"
        BY <3>1, TailElements DEF TypeOK, LoopVmDeath, Take
      <4> QED
        BY <1>0, <4>1 DEF UserInv, DeathIsTrue, Waiting
    <3> QED
      BY <3>1
  <2> QED
    BY <2>1, <2>2 DEF EventLoop
<1>2. /\ StepsSeen = {r.thread : r \in stepRequests}
      /\ StepsSeen' = {r.thread : r \in stepRequests'}
  BY DEF View
<1>3. CASE LoopClassPrepare \/ LoopException
  <2>1. PICK kind \in PauseKinds : Take(kind)
    BY <1>3 DEF LoopClassPrepare, LoopException, PauseKinds
  <2>2. QueuedThreads = {} /\ Waiting(PauseKinds) # {} /\ QueueHolds
    BY <2>1, HeadQueued, TakeTurn DEF PauseKinds, TurnInv, OneHolder
  <2>3. /\ LoopHolds' /\ loop'.pc \in {"resume", "exceptionResume"}
        /\ loop'.thread = NoThread /\ stepRequests' = stepRequests
    BY <1>3 DEF LoopClassPrepare, LoopException, LoopAt, LoopHolds, jvmVars
  <2>4. Seen("paused", {}, "waiting", "none")
    BY <2>2 DEF View
  <2>5. Seen("paused", {}, "waiting", "none")'
    BY <2>3 DEF View, Seen
  <2> QED
    BY <1>2, <2>3, <2>4, <2>5 DEF Seen, UserStep, User!debuggeeVars
<1>4. CASE LoopBreakpoint \/ LoopStep
  <2>1. PICK kind \in StopKinds : Take(kind)
    BY <1>4 DEF LoopBreakpoint, LoopStep, StopKinds
  <2>2. /\ QueuedThreads = {Head(eventRx).thread}
        /\ Waiting(PauseKinds) = {} /\ QueueHolds
    BY <2>1, HeadQueued, TakeTurn DEF StopKinds, TurnInv, OneHolder
  <2>3. /\ LoopHolds' /\ loop'.pc \in {"clear", "build"}
        /\ loop'.thread = Head(eventRx).thread
        /\ stepRequests' = stepRequests
    BY <1>4 DEF LoopBreakpoint, LoopStep, LoopAt, LoopHolds, jvmVars
  <2>4. Seen("stopped", QueuedThreads \ {NoThread}, "waiting", "none")
    BY <2>2 DEF View
  <2>5. Seen("stopped", {loop.thread} \ {NoThread}, "waiting", "none")'
    BY <2>3 DEF View, Seen
  <2>6. ThreadSeen' = ThreadSeen
    BY <2>2, <2>3, <2>4, <2>5 DEF Seen
  <2> QED
    BY <1>2, <2>3, <2>4, <2>5, <2>6 DEF Seen, UserStep, User!debuggeeVars
<1>5. ASSUME LoopHolds
      PROVE  Seen(IF loop.pc \in {"resume", "exceptionResume"}
                  THEN "paused" ELSE "stopped",
                  {loop.thread} \ {NoThread}, "waiting", "none")
  BY <1>5 DEF View
<1>6. CASE LoopResume \/ LoopExceptionResume
  <2>1. LoopHolds /\ loop.pc \in {"resume", "exceptionResume"}
    BY <1>6 DEF LoopResume, LoopExceptionResume, LoopHolds
  <2>2. loop.thread = NoThread /\ jvm # "running"
    BY <2>1 DEF UserInv, LoopThread, TurnInv, HeldIsStopped
  <2>3. jvm' = "running" /\ stepRequests' = stepRequests
    BY <1>0, <1>6, <2>2
    DEF LoopResume, LoopExceptionResume, ResumeJvm, TypeOK
  <2>4. Seen("running", {}, "waiting", "none")'
    BY <2>3 DEF View
  <2>5. Seen("paused", {}, "waiting", "none")
    BY <1>5, <2>1, <2>2 DEF Seen
  <2>6. User!RunOn
    BY <1>2, <2>3, <2>4, <2>5 DEF Seen, User!RunOn
  <2> QED
    BY <2>6 DEF UserStep, User!DebuggeeNext
<1>7. CASE LoopClear
  <2>1. stepRequests' = {}
    <3>1. \A r \in stepRequests : r.id # 0
      BY DEF TypeOK, StepRequest
    <3>2. ~MainHolds /\ pendingStep = 0
      BY <1>7 DEF LoopClear, LoopHolds, TurnInv, OneHolder, UserInv, ClearTook
    <3>3. \A r \in stepRequests : r.id = loop.step
      BY <1>0, <3>1, <3>2 DEF StepInv, StepAccounted, MainHolds
    <3> QED
      BY <1>7, <3>3 DEF LoopClear, ClearInJvm
  <2>2. /\ LoopHolds /\ loop.pc = "clear"
        /\ LoopHolds' /\ loop'.pc = "build" /\ loop'.thread = loop.thread
    BY <1>7, <1>l DEF LoopClear, LoopHolds
  <2>3. Seen("stopped", {loop.thread} \ {NoThread}, "waiting", "none")
    BY <1>5, <2>2 DEF Seen
  <2>4. Seen("stopped", {loop.thread} \ {NoThread}, "waiting", "none")'
    BY <2>2 DEF View, Seen
  <2>5. StepsSeen' = {}
    BY <1>2, <2>1
  <2>6. ThreadSeen' = ThreadSeen
    BY <2>2, <2>3, <2>4 DEF Seen
  <2>7. User!EndStep \/ UNCHANGED User!debuggeeVars
    BY <2>3, <2>4, <2>5, <2>6 DEF Seen, User!EndStep, User!debuggeeVars
  <2> QED
    BY <2>7 DEF UserStep, User!DebuggeeNext
<1>8. CASE LoopStore
  <2>1. /\ LoopHolds /\ loop.pc = "build"
        /\ LoopHolds' /\ loop'.pc = "announce" /\ loop'.thread = loop.thread
        /\ stepRequests' = stepRequests
    BY <1>8, <1>l DEF LoopStore, LoopHolds, jvmVars
  <2>2. Seen("stopped", {loop.thread} \ {NoThread}, "waiting", "none")
    BY <1>5, <2>1 DEF Seen
  <2>3. Seen("stopped", {loop.thread} \ {NoThread}, "waiting", "none")'
    BY <2>1 DEF View, Seen
  <2>4. ThreadSeen' = ThreadSeen
    BY <2>1, <2>2, <2>3 DEF Seen
  <2> QED
    BY <1>2, <2>1, <2>2, <2>3, <2>4 DEF Seen, UserStep, User!debuggeeVars
<1>9. CASE LoopAnnounce
  <2>1. /\ LoopHolds /\ loop.pc = "announce"
        /\ snapshot' = snapshot /\ stepRequests' = stepRequests
        /\ EditorHolds'
    BY <1>0, <1>9 DEF LoopAnnounce, LoopHolds, EditorSeesStop, EditorHolds,
                      jvmVars, sessionVars
  <2>2. snapshot = loop.thread /\ loop.thread \in Threads
    BY <1>0, <2>1 DEF UserInv, ShownIsKept, LoopThread
  <2>3. loop.thread # NoThread
    BY <2>2, ThreadsAssumption
  <2>4. Seen("stopped", {loop.thread} \ {NoThread}, "waiting", "none")
    BY <1>5, <2>1 DEF Seen
  <2>5. Seen("stopped", {snapshot} \ {NoThread}, "looking", "none")'
    BY <2>1 DEF View
  <2>6. ThreadSeen = {loop.thread} /\ ThreadSeen' = {loop.thread}
    BY <2>1, <2>2, <2>3, <2>4, <2>5 DEF Seen
  <2>7. User!Show
    BY <1>2, <2>1, <2>4, <2>5, <2>6 DEF Seen, User!Show
  <2> QED
    BY <2>7 DEF UserStep, User!DebuggeeNext
<1> QED
  BY <1>1, <1>3, <1>4, <1>6, <1>7, <1>8, <1>9

\* Where a suspension reports one stop, every behaviour of the main task and
\* the event loop, seen by its user, is one of the debugger of Debuggee.
THEOREM ImplementsDebuggee == Spec => IsDebuggee
<1> DEFINE Inv == TypeOK /\ StepInv /\ (single => TurnInv) /\ (single => UserInv)
<1>1. Init /\ Inv => (single => User!DebuggeeInit)
  <2> SUFFICES ASSUME Init, Inv, single PROVE User!DebuggeeInit
    OBVIOUS
  <2>1. /\ EditorHolds /\ ~DebuggingOver
        /\ snapshot = NoThread /\ stepRequests = {}
    BY DEF Init, EditorHolds, DebuggingOver
  <2>2. View
    BY Views
  <2>3. /\ Seen("stopped", {snapshot} \ {NoThread}, "looking", "none")
        /\ StepsSeen = {r.thread : r \in stepRequests}
    BY <2>1, <2>2 DEF View
  <2>4. ThreadSeen = {} /\ StepsSeen = {}
    BY <2>1, <2>3 DEF Seen
  <2> QED
    BY <2>3, <2>4 DEF Seen, User!DebuggeeInit
<1>2. Inv /\ Inv' /\ [Next]_vars
          => [single => User!DebuggeeNext]_(User!debuggeeVars)
  <2> SUFFICES ASSUME Inv, Inv', [Next]_vars, single PROVE UserStep
    BY DEF UserStep
  <2>1. TypeOK' /\ TurnInv' /\ UserInv'
    BY SingleKept
  <2>2. View
    BY Views
  <2>3. View'
    <3>1. (TypeOK /\ TurnInv /\ UserInv => View)'
      BY Views, PTL
    <3> QED
      BY <2>1, <3>1
  <2>4. CASE DebuggingOver \/ DebuggingOver'
    BY <2>4, OverImplements
  <2>5. CASE ~DebuggingOver /\ ~DebuggingOver'
    <3>1. CASE UNCHANGED vars \/ Finished
      <4>1. UNCHANGED <<jvm, stepRequests, eventRx, session, snapshot, main,
                        loop, editor, inbox>>
        BY <3>1 DEF Finished, vars, jvmVars, sessionVars, editorVars
      <4>2. \A kinds : Waiting(kinds)' = Waiting(kinds)
        BY <4>1 DEF Waiting
      <4>3. \A requests : Sent(requests)' = Sent(requests)
        BY <4>1 DEF Sent
      <4>4. UNCHANGED <<DebuggingOver, JustPaused, QueuedThreads, StepOrdered,
                        GoOrdered>>
        BY <4>1, <4>2, <4>3 DEF DebuggingOver, JustPaused, QueuedThreads,
                                StepOrdered, GoOrdered
      <4> QED
        BY <4>1, <4>4
        DEF UserStep, User!debuggeeVars, ProgramSeen, ThreadSeen, UserSeen,
            OrderSeen, StepsSeen
    <3>2. CASE MainTask
      BY <2>1, <2>2, <2>3, <2>5, <3>2, MainHoldsImplements,
         MainReceivesImplements
    <3>3. CASE Jvm \/ Editor \/ EventLoop
      BY <2>2, <2>3, <2>5, <3>3, JvmImplements, EditorImplements,
         LoopImplements
    <3> QED
      BY <3>1, <3>2, <3>3 DEF Next
  <2> QED
    BY <2>4, <2>5
<1>3. Spec => []Inv
  BY TypeCorrect, StepInvariant, OneTurn, UserInvariant, PTL
<1> QED
  BY <1>1, <1>2, <1>3, PTL DEF Spec, IsDebuggee
=============================================================================
