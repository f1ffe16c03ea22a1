---------------------------- MODULE JdwpClient -----------------------------
(***************************************************************************)
(* The JDWP client: callers of send_command, the write loop and the read   *)
(* loop, three kinds of task that meet in the map of pending replies and   *)
(* in two channels.  The JVM at the other end carries out commands, emits  *)
(* events and may close the connection between any two steps.              *)
(*                                                                         *)
(* A packet is its kind and its id; the payload of a reply is the command  *)
(* it answers.  Ids do not wrap: that takes 2^32 commands.                 *)
(***************************************************************************)
EXTENDS Naturals, Sequences, FiniteSets

CONSTANTS
    Callers,        \* the tasks that issue commands
    MaxCalls,       \* bound: calls to send_command
    MaxEvents       \* bound: events the JVM emits

ASSUME BoundsAssumption == MaxCalls \in Nat /\ MaxEvents \in Nat

VARIABLES
    conn,           \* the TCP connection: "open" or "closed"
    nextId,         \* JdwpClient::next_id
    pending,        \* JdwpClient::pending: id and the caller awaiting it
    caller,         \* where each caller is in send_command, and with what id
    slot,           \* the caller's oneshot: the reply in it, 0 if empty
    returned,       \* what the last send_command returned; 0 is an error
    writeTx,        \* packets on their way to the write loop
    writeLoop,      \* "running" or "ended"
    toJvm,          \* commands the JVM has received
    carriedOut,     \* commands the JVM has carried out
    answering,      \* those of them it has not answered yet
    emitted,        \* number of events the JVM has emitted
    wire,           \* packets on their way to the read loop
    readLoop,       \* "reading", "clearing", "signalling" or "ended"
    eventRx,        \* events on their way to the event loop
    consumer        \* the event loop: "running", "ending" or "ended"

callVars == <<nextId, caller, returned>>
writeVars == <<writeTx, writeLoop>>
jvmVars == <<toJvm, carriedOut, answering, emitted>>
eventVars == <<eventRx, consumer>>
vars == <<conn, callVars, pending, slot, writeVars, jvmVars, wire, readLoop,
          eventVars>>

-----------------------------------------------------------------------------
Ids    == 1 .. MaxCalls
Idle   == [pc |-> "idle", id |-> 0]
Packet == [kind : {"reply", "event", "VmDeath"}, id : 0 .. MaxCalls]

(* The type invariant; a caller past the insert has an id of its own.      *)
TypeOK ==
    /\ conn \in {"open", "closed"}
    /\ nextId \in 1 .. MaxCalls + 1
    /\ pending \subseteq [id : Ids, caller : Callers]
    /\ caller \in [Callers -> [pc : {"idle", "insert", "enqueue", "await"},
                               id : 0 .. MaxCalls]]
    /\ \A c \in Callers : caller[c].pc # "idle" =>
           /\ caller[c].id \in Ids
           /\ \A d \in Callers \ {c} : caller[d].id # caller[c].id
    /\ slot \in [Callers -> 0 .. MaxCalls]
    /\ returned \in [Callers -> 0 .. MaxCalls]
    /\ writeTx \in Seq(Ids) /\ writeLoop \in {"running", "ended"}
    /\ toJvm \subseteq Ids /\ carriedOut \subseteq Ids
    /\ answering \subseteq carriedOut
    /\ emitted \in 0 .. MaxEvents
    /\ wire \in Seq(Packet)
    /\ readLoop \in {"reading", "clearing", "signalling", "ended"}
    /\ eventRx \in Seq({"event", "VmDeath"})
    /\ consumer \in {"running", "ending", "ended"}

\* The state after the handshake.
Init ==
    /\ conn = "open" /\ nextId = 1 /\ pending = {}
    /\ caller = [c \in Callers |-> Idle]
    /\ slot = [c \in Callers |-> 0]
    /\ returned = [c \in Callers |-> 0]
    /\ writeTx = <<>> /\ writeLoop = "running"
    /\ toJvm = {} /\ carriedOut = {} /\ answering = {} /\ emitted = 0
    /\ wire = <<>> /\ readLoop = "reading"
    /\ eventRx = <<>> /\ consumer = "running"

-----------------------------------------------------------------------------
(* send_command.                                                           *)

\* Mutant of Fresh: the id is read, but not advanced.
Stale == nextId
Fresh == nextId + 1

AllocateId(c) ==
    /\ caller[c].pc = "idle"
    /\ nextId <= MaxCalls
    /\ nextId' = Fresh
    /\ caller' = [caller EXCEPT ![c] = [pc |-> "insert", id |-> nextId]]
    /\ UNCHANGED <<conn, pending, slot, returned, writeVars, jvmVars, wire,
                   readLoop, eventVars>>

\* Under the lock of the map; an entry with the same id is dropped.
InsertSender(c) ==
    /\ caller[c].pc = "insert"
    /\ pending' = {p \in pending : p.id # caller[c].id} \cup
                  {[id |-> caller[c].id, caller |-> c]}
    /\ caller' = [caller EXCEPT ![c].pc = "enqueue"]
    /\ UNCHANGED <<conn, nextId, slot, returned, writeVars, jvmVars, wire,
                   readLoop, eventVars>>

\* send_command of caller c returns `result`.
Returns(c, result) ==
    /\ caller' = [caller EXCEPT ![c] = Idle]
    /\ returned' = [returned EXCEPT ![c] = result]
    /\ slot' = [slot EXCEPT ![c] = 0]
    /\ UNCHANGED <<conn, nextId, pending, jvmVars, wire, readLoop, eventVars>>

EnqueueCommand(c) ==
    /\ caller[c].pc = "enqueue"
    /\ writeLoop = "running"
    /\ writeTx' = Append(writeTx, caller[c].id)
    /\ caller' = [caller EXCEPT ![c].pc = "await"]
    /\ UNCHANGED <<conn, nextId, pending, slot, returned, writeLoop, jvmVars,
                   wire, readLoop, eventVars>>

\* "JDWP write channel closed": the entry of the map stays behind.
EnqueueFails(c) ==
    /\ caller[c].pc = "enqueue"
    /\ writeLoop = "ended"
    /\ Returns(c, 0)
    /\ UNCHANGED writeVars

AwaitReturns(c) ==
    /\ caller[c].pc = "await"
    /\ slot[c] # 0
    /\ Returns(c, slot[c])
    /\ UNCHANGED writeVars

\* The sender lives in the map; when it is gone without having sent anything,
\* the await ends with "JDWP reply channel dropped".
AwaitFails(c) ==
    /\ caller[c].pc = "await"
    /\ slot[c] = 0
    /\ [id |-> caller[c].id, caller |-> c] \notin pending
    /\ Returns(c, 0)
    /\ UNCHANGED writeVars

SendCommand(c) == \/ InsertSender(c) \/ EnqueueCommand(c) \/ EnqueueFails(c)
                  \/ AwaitReturns(c) \/ AwaitFails(c)

-----------------------------------------------------------------------------
(* The write loop.                                                         *)

WriteOne ==
    /\ writeLoop = "running" /\ writeTx # <<>>
    /\ writeTx' = Tail(writeTx)
    /\ toJvm' = IF conn = "open" THEN toJvm \cup {Head(writeTx)} ELSE toJvm
    /\ UNCHANGED <<conn, callVars, pending, slot, writeLoop, carriedOut,
                   answering, emitted, wire, readLoop, eventVars>>

\* Writing to a closed connection may also fail, which ends the loop.
WriteFails ==
    /\ writeLoop = "running" /\ writeTx # <<>> /\ conn = "closed"
    /\ writeLoop' = "ended"
    /\ writeTx' = <<>>
    /\ UNCHANGED <<conn, callVars, pending, slot, jvmVars, wire, readLoop,
                   eventVars>>

-----------------------------------------------------------------------------
(* The JVM.                                                                *)

JvmCarriesOut(n) ==
    /\ conn = "open" /\ n \in toJvm
    /\ toJvm' = toJvm \ {n}
    /\ carriedOut' = carriedOut \cup {n}
    /\ answering' = answering \cup {n}
    /\ UNCHANGED <<conn, callVars, pending, slot, writeVars, emitted, wire,
                   readLoop, eventVars>>

JvmReplies(n) ==
    /\ conn = "open" /\ n \in answering
    /\ answering' = answering \ {n}
    /\ wire' = Append(wire, [kind |-> "reply", id |-> n])
    /\ UNCHANGED <<conn, callVars, pending, slot, writeVars, toJvm, carriedOut,
                   emitted, readLoop, eventVars>>

JvmEmits(kind) ==
    /\ conn = "open" /\ emitted < MaxEvents
    /\ emitted' = emitted + 1
    /\ wire' = Append(wire, [kind |-> kind, id |-> 0])
    /\ UNCHANGED <<conn, callVars, pending, slot, writeVars, toJvm, carriedOut,
                   answering, readLoop, eventVars>>

JvmCloses ==
    /\ conn = "open"
    /\ conn' = "closed"
    /\ UNCHANGED <<callVars, pending, slot, writeVars, jvmVars, wire, readLoop,
                   eventVars>>

-----------------------------------------------------------------------------
(* The read loop.                                                          *)

\* Mutant of Addressee: a reply goes to some caller that waits.
AnyAddressee(n) == {p \in pending : caller[p.caller].pc = "await"}
Addressee(n) == {p \in pending : p.id = n}

\* The sender is taken from the map and sends; a reply nobody waits for is
\* dropped.
ReadReply ==
    /\ readLoop = "reading" /\ wire # <<>> /\ Head(wire).kind = "reply"
    /\ wire' = Tail(wire)
    /\ IF Addressee(Head(wire).id) = {}
       THEN UNCHANGED <<pending, slot>>
       ELSE \E p \in Addressee(Head(wire).id) :
                /\ pending' = pending \ {p}
                /\ slot' = [slot EXCEPT ![p.caller] = Head(wire).id]
    /\ UNCHANGED <<conn, callVars, writeVars, jvmVars, readLoop, eventVars>>

\* Once the event loop is gone, the first event ends the read loop at once.
ReadEvent ==
    /\ readLoop = "reading" /\ wire # <<>> /\ Head(wire).kind # "reply"
    /\ wire' = Tail(wire)
    /\ IF consumer # "ended"
       THEN /\ eventRx' = Append(eventRx, Head(wire).kind)
            /\ UNCHANGED readLoop
       ELSE /\ readLoop' = "ended"
            /\ UNCHANGED eventRx
    /\ UNCHANGED <<conn, callVars, pending, slot, writeVars, jvmVars, consumer>>

\* A reset may discard packets that were on the wire.
ReadEof ==
    /\ readLoop = "reading" /\ conn = "closed"
    /\ readLoop' = "clearing"
    /\ wire' = <<>>
    /\ UNCHANGED <<conn, callVars, pending, slot, writeVars, jvmVars, eventVars>>

\* Mutant of ClearPending: the senders are kept.
KeepPending ==
    /\ readLoop = "clearing"
    /\ readLoop' = "signalling"
    /\ UNCHANGED <<conn, callVars, pending, slot, writeVars, jvmVars, wire,
                   eventVars>>

ClearPending ==
    /\ readLoop = "clearing"
    /\ pending' = {}
    /\ readLoop' = "signalling"
    /\ UNCHANGED <<conn, callVars, slot, writeVars, jvmVars, wire, eventVars>>

\* Mutant of SignalDeath: the read loop ends without a word.
EndSilently ==
    /\ readLoop = "signalling"
    /\ readLoop' = "ended"
    /\ UNCHANGED <<conn, callVars, pending, slot, writeVars, jvmVars, wire,
                   eventVars>>

SignalDeath ==
    /\ readLoop = "signalling"
    /\ readLoop' = "ended"
    /\ eventRx' = IF consumer # "ended" THEN Append(eventRx, "VmDeath")
                  ELSE eventRx
    /\ UNCHANGED <<conn, callVars, pending, slot, writeVars, jvmVars, wire,
                   consumer>>

ReadLoop == ReadReply \/ ReadEvent \/ ReadEof \/ ClearPending \/ SignalDeath

-----------------------------------------------------------------------------
(* The event loop, as far as the client can tell.                          *)

ConsumeEvent ==
    /\ consumer = "running" /\ eventRx # <<>>
    /\ eventRx' = Tail(eventRx)
    /\ consumer' = IF Head(eventRx) = "VmDeath" THEN "ending" ELSE "running"
    /\ UNCHANGED <<conn, callVars, pending, slot, writeVars, jvmVars, wire,
                   readLoop>>

\* It drops the receiver some time after VmDeath, or as soon as it is told to
\* kill the JVM.
ConsumerEnds ==
    /\ consumer \in {"running", "ending"}
    /\ consumer' = "ended"
    /\ eventRx' = <<>>
    /\ UNCHANGED <<conn, callVars, pending, slot, writeVars, jvmVars, wire,
                   readLoop>>

-----------------------------------------------------------------------------
Next == \/ \E c \in Callers : AllocateId(c) \/ SendCommand(c)
        \/ WriteOne \/ WriteFails
        \/ \E n \in Ids : JvmCarriesOut(n) \/ JvmReplies(n)
        \/ \E kind \in {"event", "VmDeath"} : JvmEmits(kind)
        \/ JvmCloses
        \/ ReadLoop
        \/ ConsumeEvent \/ ConsumerEnds

Spec == Init /\ [][Next]_vars

\* The tasks are scheduled, and a JVM whose connection is open carries out and
\* answers its commands.  Nobody has to call, to emit, to close or to kill.
Fairness ==
    /\ \A c \in Callers : WF_vars(SendCommand(c))
    /\ WF_vars(WriteOne \/ WriteFails)
    /\ \A n \in Ids : WF_vars(JvmCarriesOut(n) \/ JvmReplies(n))
    /\ WF_vars(ReadLoop)
    /\ WF_vars(ConsumeEvent)

FairSpec == Spec /\ Fairness

-----------------------------------------------------------------------------
(* Properties.                                                             *)

\* The client implements Rpc: at most one execution per call, and a reply only
\* to the caller whose command it answers.
Promise == INSTANCE Rpc WITH
              asked <- nextId - 1,
              call <- [c \in Callers |-> caller[c].id],
              outcome <- returned

ImplementsRpc == Promise!RpcSpec

Registered(c) == [id |-> caller[c].id, caller |-> c] \in pending

\* A call whose sender is in the map before the read loop clears it returns,
\* whatever becomes of the connection - unless the event loop goes away and
\* takes the read loop with it.
RegisteredCallReturns ==
    \A c \in Callers :
        (caller[c].pc = "await" /\ Registered(c)
             /\ readLoop \in {"reading", "clearing"})
            ~> (caller[c].pc = "idle" \/ consumer = "ended")

\* The event loop learns that the connection is closed.
CloseIsNoticed == (conn = "closed") ~> (consumer # "running")

\* "any `send_command` calls that are awaiting a reply unblock with an error
\* instead of blocking forever" (jdwp.rs:261): every call returns.
EveryCallReturns ==
    \A c \in Callers : (caller[c].pc = "await") ~> (caller[c].pc # "await")

=============================================================================
