# Verification of dapintar

dapintar is a debug adapter for JVM programs. An editor speaks the Debug Adapter
Protocol (DAP) to it on stdin/stdout; it builds and starts the program, and
speaks the Java Debug Wire Protocol (JDWP) to the JVM over TCP. This directory
holds TLA+ models of its tasks, its queues and its decoders, TLC configurations that
check them on small instances, and TLAPS proofs of theorems about them.

Paths below are relative to `src/`: `server.rs` is `server/src/server.rs`,
`main.rs` is `server/src/main.rs`; `jdwp.rs`, `launcher.rs`, `source_map.rs`, `transport.rs`,
`main_class.rs` are in `dap_core/src/`, `gradle.rs` is in `dap_core/src/build_tools/`.

## 1. The system

### Tasks, and what they share

    editor --stdin--> MAIN TASK --+                     +--> WRITE LOOP --TCP--> JVM
                                  |-- session (mutex) --|
    editor <--stdout-- writer <---+                     +--- READ LOOP <--TCP--- JVM
                                  |                     |
                                  +---- EVENT LOOP <----+  (event channel)

| task | started by | does |
|---|---|---|
| main task | `main.rs:32` | reads DAP messages and awaits `handle_message` for each: requests are handled strictly one at a time |
| event loop | `spawn_event_loop`, `server.rs:835`, one per launch | handles the JVM's events one at a time; owns the child process and the kill signal |
| read loop | `JdwpClient::connect`, `jdwp.rs:217` | hands replies to their callers and events to the event loop; at the end of the connection clears the pending map and sends `VmDeath` |
| write loop | `jdwp.rs:208` | writes the packets of a channel to the socket |
| stderr task | `spawn_stderr_task`, `server.rs:808`, one per launch | sends each line of the program's stderr to the editor |
| DAP writer | `main.rs:21` | writes the messages of a channel to stdout |

The main task and the event loop share `Backend::session`, a `Mutex<Option<DebugSession>>`.
Almost every handler locks it, copies what it needs, unlocks, awaits one or more
JDWP commands and locks again to write back. These unlocked stretches are where
the hard behaviour of the program is. Two places keep the mutex while they await
the JVM: `configurationDone` (`server.rs:1153`) and the exception arm
(`server.rs:885`). Dropping the session drops `kill_tx`, which is how the event
loop learns that it has to kill the JVM.

### Components

| component | state | operations | correct if | modelled in |
|---|---|---|---|---|
| Execution control (`server.rs`) | snapshot, `pending_step_request`; in the JVM: suspension, step requests | configurationDone, continue, next/stepIn/stepOut, disconnect; arms Breakpoint, Step, ClassPrepare, Exception, VmDeath, kill | no suspension and no step request is lost track of; what is shown is a stopped program; a step ends its own request; the program runs again only by the user's order | `Execution`, `Debuggee` |
| Breakpoints (`server.rs`, `source_map.rs`) | the entries and their installs; in the JVM: breakpoint requests | setBreakpoints, arm ClassPrepare | what is recorded is installed; no loaded class is missed; nothing stays in the JVM that the user cannot remove; the editor shows the truth | `Breakpoints` |
| JDWP client (`jdwp.rs`) | pending map, next id, two channels; the bytes of packets | `send_command`, write loop, read loop, the commands, event parsing | a reply reaches the caller whose command it answers; a command is carried out at most once; calls return when the connection ends; packets are decoded to what was meant | `JdwpClient`, `Rpc`, `Wire`, `Decoding` |
| Session lifecycle (`server.rs`, `launcher.rs`, `main.rs`) | session, mutex, process, connection | launch, configurationDone, disconnect, exceptions, end of the JVM, end of stdin | a session and a JVM have an owner; the end is reported, with the first exception as its cause; leaving is answered and ends the JVM | `Session` |
| DAP dispatch and transport (`main.rs`, `transport.rs`, `types.rs`, `server.rs`) | sequence counter, message channel, stdin, stdout | framing, `handle_message`, `send`, the stderr task, the writer | requests are read whole and answered once, in order; numbers are unique; what is written can be parsed | `Transport` |
| Stack and variables (`server.rs`) | the snapshot's frames and reference table | build_snapshot, threads, stackTrace, scopes, variables, evaluate | every reference handed out can be looked up; answers are about the stop and frame asked about | `Inspection` |
| Source map (`source_map.rs`) | two maps between classes and files | build, resolve, insert | the maps agree, and a class has the file it was compiled from | `Project` |
| Class file parser (`source_map.rs`) | a cursor | parse_class_info | the class and file named are the compiler's, or none | `ClassFile`, `Decoding` |
| Main class detection (`main_class.rs`) | none | scan of the source roots | the main class launched exists | `Project` |
| Build tools (`gradle.rs`, ...) | none | build, source roots, class path | a failed build reports its errors | `Project`, in part |
| JVM launcher (`launcher.rs`) | child process | spawn, wait for the port, connect, register events | see Session lifecycle | phases in `Session` |

## 2. The modules

### Execution

Who may resume the JVM, and when. One action per critical section and one per
JDWP command, the command taking place at the instant the JVM executes it.

* `main.pc` is the point of a handler the main task has reached, `main.thread`
  and `main.step` its locals (`thread_id`, `old_step_req` or the new request id).
  `HandleContinue`, `ContinueClear`, `Resume` are the three parts of
  `handle_continue`; `HandleStep`, `StepClear`, `StepSet`/`StepSetFails`,
  `StepStore`, `Resume` those of `handle_step_command`; `HandleConfigurationDone`
  and `HandleDisconnect` are one action each.
* `loop.pc` is the same for the event loop. `LoopBreakpoint`, `LoopStep`,
  `LoopClear`, `LoopStore`, `LoopAnnounce` are the Breakpoint and Step arms
  (`build_snapshot`'s queries happen while `loop.pc = "build"`);
  `LoopClassPrepare` and `LoopException` with their resumes, `LoopVmDeath`,
  `LoopKill` and `LoopEnd` the others; `LoopWithoutSession` is the `continue` of
  the arms that find no session.
* The JVM comes from the JDWP contract the code relies on: all event requests
  have policy SUSPEND_ALL, one `VirtualMachine.Resume` undoes a suspension, a
  thread has at most one step request, and one suspension may report several
  events of one location. `parse_composite_event` (`jdwp.rs:732`) unpacks those
  into single events in the channel. Which stops a suspension may report
  together is the constant `Composites`.
* The editor respects DAP: it sends configurationDone once, resumes only what it
  was told has stopped, and may leave at any time.

A `session` that is gone never comes back: a further launch is a matter of `Session`.
The variable `single`, which never changes, tells two kinds of programs apart: in one
each suspension reports one event, in the other it may report several. Both are in the
same run; `MCExecution` gives the second tighter bounds (`Colocated`).

`Debuggee` is what all this is to the user, where a suspension reports one event: a
program that runs, stops in a thread, is paused by the debugger for its own ends, or is
over; a user who looks at a stop or waits; an order to go or to step being carried out; and
the threads with a step in force. It resumes (`Resume`) by an order only: a step with one
step in force, on the thread shown, a go with none. It keeps neither requests' ids nor the
two tasks nor queues. `User` in `Execution` instantiates it: the thread of a stop is that of
the event in the queue, then of the event loop, then of the snapshot, then of the main task
that steps it (`ThreadSeen`); an order is a request in the inbox, then the main task
at work (`OrderSeen`); an exception or a loaded class is a pause (`JustPaused`); the debugging is over
when session, JVM or editor has gone. `IsDebuggee` says that every step of the tasks, the
JVM and the editor is a step of `Debuggee` or leaves its variables as they are.

### Breakpoints

`setBreakpoints` in the main task against `ClassPrepare` in the event loop. Both
copy what they have to install, talk to the JVM without the lock, and write back.
Breakpoints may be set before the launch (`SetWithoutSession`: answered and forgotten);
the JVM may die (`JvmDies`) and the session end (`Disconnect`, `LoopEnds`) at any step of
either task, after which installs fail and write-backs find nothing.
`SetBreakpoints`, `ClearOld`, `ListLoaded`, `InstallOnLoaded`, `EntryInstalled`,
`StoreStates`, `Respond` follow `handle_set_breakpoints` and
`install_on_loaded_classes`; `Collect`, `InstallDeferred`, `InstallExtend`,
`Update`, `Notify`, `LoopResumes` follow the ClassPrepare arm. The choice of a
line (`Window`, `Nearest`) is that of `try_install_at_nearest_line` over the
sorted lines of a class. `breakpoints` is a set, as no property depends on the
order of entries. `shown` is the editor's view, with the line it was told
(`ShownLine`). The variable `careful` says whether the
editor sets breakpoints only while the JVM is stopped; both kinds of editor are in the
same run, and some properties are promised to the careful one only.

### JdwpClient and Rpc

`Rpc` is the promise of `send_command`: each call is carried out at most once and
returns once, with its own reply or an error. `JdwpClient` is the code:
`AllocateId`, `InsertSender`, `EnqueueCommand`, `AwaitReturns`/`AwaitFails` are
the parts of `send_command`; `WriteOne`, `WriteFails` the write loop; `ReadReply`,
`ReadEvent`, `ReadEof`, `ClearPending`, `SignalDeath` the read loop. The JVM
carries out commands in any order, may close the connection at any instant, and a
reset may discard what is on the wire. `Promise` instantiates `Rpc` with
`asked <- nextId - 1`, `call <- caller[c].id`, `outcome <- returned`, and
`ImplementsRpc` says that every behaviour of the client is one of `Rpc`.

### Session

The life of debug sessions, with the mutex explicit because two handlers hold it while
they wait. `launch` is the sequence `HandleLaunch`, `Spawn`, `Connect`, `Register`,
`StoreSession`, `SpawnEventLoop`, each phase of which may fail; a second launch may
follow in the same server, so the process, the connection, the events and the event
loop are functions of the launch, and `session` is the number of the launch whose
session is stored. What `JdwpClient` shows about calls enters here: a call issued
after the read loop has cleared the pending map may never return (`LoopHangs`,
`ConfigurationHangs`). The event loop's exception arm is split at its critical
sections (`TakeException`, `QueryClass`, `SetException`), its end at the wait for the
process, the drop of the session and the `terminated` event (`AwaitExit`,
`EndSession`, `Report`). `main` returns when stdin ends (`MainReturns`), which cancels
the event loops. A `patient` editor waits for `terminated` before it launches again
or closes stdin; an impatient one does not, and both are in the same run. The history
variable `letGo` holds the launches whose process the server has given up on: its
launch failed after the spawn, or it outlived the second of `server.rs:855`. In that
second the loop looks at no signal (`AwaitExit`), so that a disconnect that comes then
does not end the process: `DisconnectKills` excepts it (`Outlived`), and says so;
`NoJvmLeft`, the sentence of the source, does not.

### Transport

DAP on stdin and stdout. The editor frames documents soundly, unusually (further
headers, a repeated Content-Length) or wrongly (a length that is off by one, missing or
no number); the pipe delivers them in pieces (`Deliver`). `ReadLine`, `ReadBody`,
`ReadEof` are `read_message`, whose loop keeps the *last* length announced. `Handle` is
`handle_message`: `Says` lists the messages the handler of each request sends, whatever
its outcome. Each of the main task, the event loop and the stderr task draws a sequence
number (`Draw`) and sends (`SendMessage`) in two steps; `WriteHeader` and `WriteBody`
are the writer. A document is a sequence of bytes that is JSON only as a whole, and has
more bytes than characters.

### Project

What `do_launch` does before it starts the JVM, over a project of source files, class
files, roots and gradle files: `Build` (with `ErrorsOf`, the choice of the lines
reported), `GetSourceRoots`, `FindMain` (with `MainLines`, `HasMain`, `Fqn`),
`GetClasspath`, `CollectClass` for one class file after the other in any order of the
directory listing (`Matches`, `Resolved`, `Insert`), `Launch`. Lines of text and package
names are atoms, with those distinctions the code makes: a package line, a
comment, an annotation, a main method of each of the patterns; and a file may be one
that `read_to_string` refuses (`utf8`), which hides it from `file_package_matches` and
fails the search for the main class. What gradle prints is
external: `Outputs` and the fields of a project. So is what the compilers do: a class file
remembers the source file it was compiled from (`of`), and is in the package that file
declares (`Declared`), by whatever line. `MapIsTrue` compares the map with `of`, never with
what the code makes of a file (`PackageMatches`).

### Wire, ClassFile and Decoding

`Wire` is the JDWP encoding of `jdwp.rs`: a cursor over bytes (`Read`), the layout of
each reply that is read, the packet header, the composite event packet with its three
special cases (a VM_START passed over, a VM_DEATH without fields, an unknown kind that
ends the packet), and the requests that carry data. Numbers are the digits that are
written (`BigEndian`, `Number`). `ClassFile` is `parse_class_info`: the constant pool,
with its two hash maps, and what is skipped unread behind it. Each loop of the code is a
function of the number of turns (`Cursors`, `Records`, `DecodeEvents`, `Pools`,
`Attributes`, `Members`, `Searches`): what has been read after each of them.
A string of a packet is an error unless it is UTF-8 (`IsUtf8`); a name in a class file is
read in any case, with a replacement character for each sequence that is not (`Lossy`).

`Decoding` is the other side, external to the repository and written a second time from
the two formats: the agent and the compiler write a document byte by byte, and the
program may decode at any moment what there is (`Decode`). Some names have a character
beyond ASCII. `MCDecoding` compares `IsUtf8` with the encodings of all characters, over all
strings of up to four of the bytes at the limits of the encoding, and `Lossy` with examples.
`BoundsAssumption` says of the class files what their format does: what is counted there is
counted in two bytes.

### Inspection

What the user sees of a stopped program. The event loop builds the snapshot, a
list of threads with their frames,
thread by thread (`BuildThread`: `build_snapshot` and `collect_frame_variables`),
stores it (`Store`) and sends `stopped` (`Announce`); the main task answers
threads, stackTrace, scopes, variables and evaluate from it (`HandleInspection`,
with `Answer` what each handler returns) until a continue or a step drops it. The
JVM may die at any moment, also in the midst of a thread (`BuildCutShort`): the rest of
the snapshot is blank, and the session ends when the loop is free (`LoopEnds`). The
tables the JVM reports are derived from a description of the source: `LineOf` and
`ScopeOf` give the line and the variables in scope at each code index,
`LineTable` and `VariableTable` what a compiler writes for them, and the model of
the code has to decode these (`LineAt`, `InScope`, `Locals`) back to the source's
truth. The editor asks only about ids and references it was given in this stop,
but may ask ahead of the answers. Frame ids are unique among the frames of one
stop (the JDWP contract `find_frame` relies on) and recur from stop to stop.

### How they fit together

The modules are views of the same tasks, each with the part of the state its questions
need. `Execution` treats the work of ClassPrepare as one wait before a resume (details
in `Breakpoints`), takes calls that return (details in `JdwpClient`), and starts from a
stored session (details in `Session`). `Breakpoints` and `Inspection` have one launch each. `Session`
keeps only the ends of `JdwpClient`'s connection: open, closed, cleared. `Transport`
keeps of each handler only the messages it sends. `Project` gives `Breakpoints` its
`SourceOf`, `Wire` gives `JdwpClient` its packets, and `ClassFile` gives `Project` the
names in its class files. `JdwpClient` implements `Rpc` by the refinement mapping
`Promise`, and `Execution` implements `Debuggee` by `User`.

## 3. Runs

Twelve runs; eight find no error, four find the violation they look for.

| run | what it asks | instance | states |
|---|---|---|---|
| `execution` | `StepAccounted`, `SuspensionAccounted`, `SuspensionResolved`, `LeavingEndsJvm`; for a program whose suspensions report one event: `SnapshotOfStoppedProgram`, `NoStepAfterContinue`, `IsDebuggee` | 2 threads, 4 steps, 3 events, 2 requests waiting; or 1 thread, 2 steps and two events at once | 822 k |
| `breakpoints` | `RecordedIsLive`, `NoneMissed`; for a careful editor: `NoOrphans`, `PendingAwaits`, `ShownIsTrue` | 3 files, 3 classes, 3 edits (2 if not careful) | 8.4 M |
| `client` | `ImplementsRpc`, `RegisteredCallReturns`, `CloseIsNoticed` | 2 callers, 3 calls, 1 event | 96 k |
| `session` | `JvmIsOwned`, `OnlyItsOwnEnd`, `CauseIsFirstException`, `DeathIsReported`, `LeavingIsAnswered`, `DisconnectKills` | 2 launches, 2 exceptions (1 if not patient) | 290 k |
| `inspection` | `SnapshotIsFaithful`, `AnswersAreTrue`, `TopIsWhereItStopped` | 2 threads, 3 stacks, 2 stops, 2 requests waiting | 198 k |
| `transport` | `NumbersAreUnique`, `AnsweredInOrder`, `ReadsWhatWasSent`, `StdoutParses`, `RequestIsAnswered` | 2 documents, 1 event of the other tasks | 725 k |
| `project` | `MapIsTwoWay`, `MapIsTrue`, `MainClassExists` | 1280 projects of up to 8 source files | 246 k |
| `decoding` | `PacketsAreUnderstood`, `ClassFilesAreUnderstood` | lists and composites of up to 3, the class files of `Shapes` | 105 k |
| `execution_phantom_stop`, `breakpoints_overwritten`, `client_stranded`, `session_left_jvm` | one property each, violated: section 6 | | |

The type invariant `TypeOK` of a module is checked in its run as well.

Why the instances are large enough:

* `execution`: two threads let a step be pending on one thread while the other stops;
  four step requests are more than the two that can be in play (the pending one and the
  one being set). `MaxEvents = 3` leaves room for a composite of two and an event of the
  next suspension; two steps of the second program are a step that is pending while the
  next is asked for. All safety properties are also proved for any number of threads,
  steps and events (section 5), so the second program's one thread limits only the
  liveness properties. `JvmDeath` and `disconnect` are always allowed, beyond the bounds.
* `breakpoints`: a file with a class and a nested class whose executable lines
  interleave, a file of one class, a file no class came from; requests with no line,
  one, two that move to the same executable line of a class, and one past the end. Two
  edits are one that installs and one that replaces; the third lets a replacement be
  replaced. `MaxGap` is the code's 2, with lines chosen on both sides of its end.
* `client`: three calls of two callers are enough for one to be answered late, one to be
  stranded and one to follow; ids are never reused below 2^32 calls.
* `session`: two exceptions are the least with which "the first" means anything, two
  launches the least with which an event loop may meet another's session.
* `inspection`: the stacks hold a method with two variables of one name in successive
  scopes that share a boundary index, a loop that returns to a line, a method without
  locals, one without a line table, a frame whose values cannot be read, a thread without frames, and the same
  frame ids for different frames; two stops are one whose references may become stale
  and one that hands them out again; two waiting requests let the editor ask and resume
  at once.
* `transport`: two documents are one that can spoil the framing of the next; every kind
  of request comes in every kind of frame, cut at every byte. One event of the loop and one
  of stderr let three tasks hold a number at once.
* `project`: the files hold two of one name in different packages and directories, a Java
  file in the directory of another package than its own, a package after a comment and one
  after an annotation, a file without a package, one that is not UTF-8, and all three
  languages; class files include one without a SourceFile attribute and those left
  over from an earlier build. Every subset of the files is a project, built by gradle or
  found as it is, with two orders of the roots.
* `decoding`: every reply with up to three items, every sequence of up to three of seven
  kinds of events, every request, and class files with each tag of constant and with
  members and attributes of different lengths - each decoded at every length from none
  of its bytes to all. A character of two bytes in a name and in a string is cut in two
  there.

Deadlock is checked for `Execution` and `Breakpoints`, which stop only in `Finished`.
The other systems do stop: when the bounds are used up, when the server has returned,
when the document is written, and - what `client_stranded` is about - when a call never
returns.

Each property of a passing run has a mutant in `PROJECT.json`: a definition of the
module (`KeepSnapshot`, `ContinueForgets`, `RetainedAll`, `KeepPending`,
`SpawnNothing`, `CharCount`, `MatchesName`, `OneSlot`, ...) that is a plausible bug
in the code it replaces, and with which TLC finds the property violated.

## 4. Fairness

* `Execution`: weak fairness of the main task and of the event loop. Both are tokio
  tasks that the runtime polls as long as they can move, and a JDWP command on an
  open connection is answered. Nothing is assumed of the JVM or the editor: the
  program may run for ever, the user may never come back.
* `JdwpClient`: weak fairness of every caller that has begun a call, of both loops,
  of the event loop's reading, and of the JVM carrying out and answering each
  command while the connection is open. Nobody has to call, emit, close or kill.
* `Session`: weak fairness of the main task, of each event loop and of each read
  loop's end. The editor may stay and the JVM may live for ever. A build may also
  fail, but does not take for ever.
* `Transport`: weak fairness of the main task, the writer and the two other senders.
  The editor need not write, close or deliver anything; `RequestIsAnswered` is about what
  has arrived.

In none of them is strong fairness needed. `Breakpoints`, `Inspection`, `Project` and
`Decoding` state no liveness.

## 5. Proofs

Each theorem holds for every value of the constants that meets the named assumptions of
its module, which TLC evaluates in the runs. Each inductive invariant was checked by TLC
before it was proved.

| module | theorem | states |
|---|---|---|
| `ExecutionProofs` | `TypeCorrect` | `Spec => []TypeOK` |
| | `StepsAccounted` | `Spec => []StepAccounted`: while there is a session, each step request the JVM may still fire is the session's, or in the hands of the task about to clear or store it |
| | `SuspensionsAccounted` | `Spec => []SuspensionAccounted`: while there is a session, a suspended JVM is in the user's hands or something is under way that resumes it or reports it |
| | `OneTurn` | `Spec => [](single => TurnInv)`: if a suspension reports one stop, at most one of five actors has the turn, and session and JVM are as it leaves them |
| | `SnapshotsOfStoppedProgram` | `Spec => []SnapshotOfStoppedProgram`: if so, a snapshot is never one of a running JVM |
| | `StepsClearTheirOwn` | `Spec => []StepClearsItsOwn`: if so, a Step event clears the request that fired |
| | `ContinueLeavesNoStep` | `Spec => []NoStepAfterContinue`: if so, no step request is live when a continue resumes |
| | `ImplementsDebuggee` | `Spec => IsDebuggee`: if so, the two tasks are an implementation of `Debuggee` |
| `BreakpointsProofs` | `TypeCorrect` | `Spec => []TypeOK` |
| | `RecordedRequestsLive` | `Spec => []RecordedIsLive`: what the session records as installed is registered in the JVM, at the nearest line of the class |
| | `NoBreakpointMissed` | `Spec => []NoneMissed`: at rest, each loaded class that has a line for an entry has a request there |
| | `NoRequestOrphaned` | `Spec => []NoOrphans`: each request in the JVM is recorded, if the editor is careful |
| | `PendingWaits` | `Spec => []PendingAwaits`: no loaded class has a line for a pending entry, if the editor is careful |
| | `EditorNotMisled` | `Spec => []ShownIsTrue`: the editor shows the entries, verified exactly if installed, at lines installed, if it is careful |
| `JdwpClientProofs` | `TypeCorrect` | `Spec => []TypeOK` |
| | `ClientImplementsRpc` | `Spec => ImplementsRpc`: the client is an implementation of `Rpc` |
| `SessionProofs` | `TypeCorrect` | `Spec => []TypeOK` |
| | `JvmOwned` | `Spec => []JvmIsOwned`: a session has an event loop that will see the end of its JVM, a running JVM has an owner |
| | `EndsItself` | `Spec => OnlyItsOwnEnd`: if the editor is patient, a session is ended by its own event loop, a disconnect or the end of the server |
| | `NamesFirstException` | `Spec => []CauseIsFirstException`: the cause reported is the first uncaught exception of that program, or none, if the editor is patient |
| `InspectionProofs` | `TypeCorrect` | `Spec => []TypeOK`: among other things, the references in a snapshot are distinct |
| | `SnapshotFaithful` | `Spec => []SnapshotIsFaithful`: a snapshot has all threads and frames, with the lines and locals of the source; of a JVM that died under it, nothing untrue |
| | `AnswersTrue` | `Spec => []AnswersAreTrue`: an editor that knows the program is stopped is answered from that stop, about the thread, frame or reference it named |
| | `TopTrue` | `Spec => []TopIsWhereItStopped`: without a frame, the top frame of the thread that stopped |
| `ProjectProofs` | `MapTwoWay` | `Spec => []MapIsTwoWay`: the two halves of the source map agree |
| | `MapTrue` | `Spec => []MapIsTrue`: a class has the file it was compiled from, or none; and it has one if that file is in place |
| `TransportProofs` | `TypeCorrect` | `Spec => []TypeOK` |
| | `WrittenParses` | `Spec => []StdoutParses`: each length announced is that of the bytes up to the next header |
| | `ReadsTheStream` | `Spec => []ReadsWhatWasSent`: documents are read whole, in order and without a gap, up to the first whose header is wrong |
| | `AnswersTheRequests` | `Spec => []AnsweredInOrder`: answers leave in the order of the requests, none twice, and only the request in hand may lack its own |
| | `NumbersUnique` | `Spec => []NumbersAreUnique` |
| `DecodingProofs` | `ParseClassInfoAgrees` | of the first bytes of any sequence of bytes, `ParseClassInfo` makes nothing or what it makes of the whole |
| | `PacketsUnderstood` | `Spec => []PacketsAreUnderstood`: every reply, composite event and request is decoded to what its writer meant, a part of one to nothing or the same |
| | `ClassFilesUnderstood` | `Spec => []ClassFilesAreUnderstood`: so is every class file |

### Execution

For any threads, composites and bounds. Assumed: `NoThread` is no thread, a composite is
a nonempty sequence of stops, the bounds are natural numbers.

`TypeOK` is inductive; beyond types it says that a step about to be requested has
a thread (without it `StepSet` could not be typed). The proof has one lemma per
actor; queues need facts about `\o`, `Append` and `Head` from `SequenceTheorems`.

`StepAccounted` is not inductive: `StepStore` overwrites `pending_step_request`,
and nothing in the property says that there was none. The code's reason is that
the handlers `take()` the pending id before they clear, set or store:
`PendingTaken`, with which `StepInv == StepAccounted /\ PendingTaken` is inductive.
Each step that changes `pendingStep` or `stepRequests` is treated on its own:
a taken id is in `main.step` or `loop.step` afterwards, a cleared one is no longer
live, a granted one is in `main.step` until stored.

`SuspensionAccounted` is not inductive either: if the editor has gone, its
disconnect is the only thing in the inbox that will end the suspension, and the
handling of an earlier `continue` must not empty the inbox. `LeavingToCome` says
that the last request in the inbox of an editor that has gone is its disconnect,
as long as the session lives; `SuspensionInv == SuspensionAccounted /\
LeavingToCome` is inductive. `ReceiveKeepsLast` is the lemma on queues it needs.

The three properties of single stops have one reason, and no code states it: the main
task and the event loop never work at the same time, because each is only started by
what the other, by way of the editor or the JVM, has finished. `TurnInv` says so.
`OneHolder`: of the editor waiting for the user, a request in the inbox, the main task,
an event in the queue and the event loop, one at most has the turn, and it is one
request and one event (a disconnect and a VmDeath aside, which may come at any time).
`HeldIsStopped`: nobody has it while the JVM runs. `SnapshotKept`: a snapshot is there
only while nobody is about to resume. `FiredIsPending`: the step request that fired is
the one the session has stored. `ContinueClearsAll`: the request a continue takes is the
only one live, which needs `StepInv`. An event that shares its suspension with another
gives the turn away twice, and each of the three properties fails. `StepsClearTheirOwn`
has no run of its own: `IsDebuggee` asks for more, namely that no step is left in force.

`ImplementsDebuggee` rests on `TurnInv`, `StepInv` and on what
the turn leaves to say of threads and steps, `UserInv`: the step request just granted is
the only one, on the thread the main task took from the snapshot (`StepInForce`); the stop
announced is the one stored (`ShownIsKept`); nothing steps before the program has started
(`FreshStart`); each task has a thread exactly while it works on a stop (`MainThread`,
`LoopThread`). TLC has checked `UserInv` on the instance of `execution`. `View` reads from
the holder of the turn what the user sees; with `View` before and after a step, each
action is a short argument that the action it is in `Debuggee` is enabled: `Resume`, for
one, needs `StepInForce` for a step, `ContinueClearsAll` or `FreshStart` for a go. Once
the debugging is over it stays over, so that the steps of a session that is ending need
no case of their own.

### Breakpoints

For any files, classes and executable lines, any requests and any number of edits.
Assumed: there is a file, each class has a file, lines are natural numbers.

What is hard is that two tasks write the same entries, and that requests are removed by
the numbers found in entries. The argument is about claims: whoever holds installs - an
entry, the main task with its results (`Gathered`), the event loop with what it has yet
to write back (`Prepared`) - claims the requests in them for one breakpoint.

* `TypeInv` adds to `TypeOK` what each task holds at each point (`MainPhases`,
  `LoopPhases`, `JvmPhases`), and that what is installed is on a line of a class of the
  right file (`Placed`).
* `Ids`: an id stands for one breakpoint, at one line of one file, wherever it is held.
* `Claims`: no request is claimed for two breakpoints, and what is claimed for an entry
  that is still there is live and will not be cleared. So replacing one file's
  breakpoints never clears another's request, and a write-back that comes late adds
  what is live, or finds no entry. `RecordedIsLive` follows.
* `Coverage`: for each entry and each loaded class that has a line for it, there is a
  request nobody will clear (`Served`), or the main task (`MainWill`) or the event loop
  (`LoopWill`) has yet to come to it: a class that loads after the main task has listed
  the classes is the event loop's, which sees the entries already there. At rest the last
  two are void: `NoneMissed`.

All steps but a few do one of three things to the claims, and are treated together: they
keep them (`Keep`), add an install of one breakpoint (`Gain`), or replace those of a
file (`Replace`); `StepKinds` says which does which.

For a careful editor four more parts make up `CarefulInv`. `Apart`: the main task is at
work only while the JVM is stopped, hence while the event loop is idle. `OwnEntries`: the
entries of its file are those the main task is at. `AsFound`: an entry is still in the
state in which the event loop found it. `Recorded`: each request is an entry's, or is
about to be cleared or recorded. `Mirrored` says of the editor's view, one entry at a
time, what `ShownIsTrue` says of the whole.

### JdwpClient

For any callers, calls, events and orders of delivery. The refinement has two
obligations: the initial state maps to one of `Rpc`, and each step to a step of `Rpc` or
to none. Most steps map to none; those that count are `AllocateId` (a call is made),
`JvmCarriesOut`, and the two ends of a call. That a caller gets *its* reply, and that
the JVM does not carry a command out twice, does not follow from types. `ClientInv` adds
the reasons: ids in use were allocated (`IdsAllocated`); a command is in one place at a
time - with its caller, in the channel, on its way to the JVM, or carried out
(`SentOnce`); a reply on the wire answers a command that was carried out
(`RepliesAnswer`); a sender in the pending map belongs to the call its caller is in, or
to one that failed before it was sent (`SendersOwned`); and what is in a caller's slot is
the reply to its own call, whose sender is used up (`SlotsAnswer`).

### Session

For any number of launches, exceptions and exception classes. `JvmIsOwned` needs to know
why a launch never starts when another is on its way, and why the loop of the current
launch does not run before its session is stored. `OneLaunch` says that of the launch
requests one is in progress at a time, in the inbox or in the hands of the main task;
`NothingAhead` that the launch in progress has no event loop yet, and later ones neither
loop nor process; `Owned` is `JvmIsOwned` with the places of `launch` at which the main
task is the owner. The lemma `LoopKeeps` is the argument for all steps of an event loop:
it gives up its JVM only by ending it or letting it go, and its session only by ending
it. `MainKeeps` is the same for what the main task does outside `launch`.

An event loop does not look whose session it finds, so that everything about a second
launch rests on the editor's patience. `OneAtATime` is what it comes to: the loops of
all earlier launches are over, the session is the last launch's or none, and the editor
has been told the end of the last launch only if its loop is over - unless the editor
has left, after which the main task may say so itself (`TerminateDirectly`). So a loop
that still does something is that of the current launch (`LoopIsCurrent`), and
`OnlyItsOwnEnd` follows step by step.

`CauseIsFirstException` is about a value that passes from the JVM's queue through a
query, made without the lock, to the session and to the event loop's locals before it is
sent. `OnItsWay` follows it: at each point of the loop the exception at hand is the first
its program raised, or it will not be stored - as one is stored already, the connection is
no longer open, or the session has gone (`Settled`, which stays true once it is). When the
loop is at `select` and nothing is settled, it has taken no exception yet (`NoneTaken`), so
that the head of the queue is the first.

### Inspection

For any threads, stacks, methods and tables, and any number of stops and requests.
Assumed: the code of a method has the indices from 0 up, each with a line and a set of
variables (or a method has no tables); a frame is within the code of its method; frame
ids are unique among the frames of a stop (the JDWP contract); 0 is no frame id, as
`handle_evaluate` takes it for none. There are three arguments.

*Tables.* `LineTrue`: the entry of the LineNumberTable with the greatest index at or
before the frame's has the frame's line, since from there on the line never changes - if
it did, it would at a least index, where there is an entry. `ScopesTrue`: a variable is in
scope at an index just if one of its ranges holds the index; the range is found from the
least index from which it is in scope and the least at which it no longer is. With them
`LocalsTrue`: `InScope` selects exactly the variables of the source.

*References.* `Counted`: those in the threads built so far are below `nextRef` and
distinct, and 0 stands for a frame without locals. Within a thread the reference of a
frame grows with the number of frames before it that have locals (`FewerWithLocals`);
the next thread starts above (`CountedMore`).

*Turns.* Which stop an answer is about depends on who may act. `Turns`: while the JVM
lives, the turn is the JVM's, the event loop's, the editor's or the main task's. In the
editor's turn all requests that wait are inspections; in the main task's the last one
resumes, and the snapshot is dropped when it is handled. So a request never meets the
snapshot of a later stop (`AskedSoundly`: what the editor holds and has asked names frames
and references of the present one). `LoopIsTrue` and `SnapshotIsTrue` say that each thread
is there once, with its frames in order; the frame of an id is then one (`FrameOfId`), and
the first that `find_frame` meets is that one (`FrameFound`).

`StopInv` joins all parts. Once the JVM has gone `Turns` and the rest of `AskedSoundly`
promise nothing, and of `SnapshotIsTrue` there remains that nothing shown is untrue.

### Project

For any projects, of any size, and any order of the listings. Assumed: a file has one of
the three languages and declares one package at most, the roots are a sequence, and of a
compiler (`ProjectsAssumption`) that the SourceFile attribute names the file the class was
compiled from, and that the class is in the package this file declares.

`MapIsTwoWay` becomes inductive with `Reading` (a class in the map has been read, so that
a class compiled once is inserted once) and `Lists` (a list of classes is a sequence of
its elements). What it says for classes compiled twice, the first half, needs neither.

`MapIsTrue` speaks of compilers and of files that may have changed since, of which the
code knows nothing. `FoundInv` says what the code does know: the file of a class is one that
`resolve_source` finds for a class file of that name, and each class file for which
it finds one has its class in the map. From there the property is an argument about
single files. A file in place matches the package it declares and no other
(`PackageInPlace`); so the namesakes that `Distinct` admits are not found (`FindsNoOther`),
and the file itself is, in the first root that has a match (`FindsIt`, which needs a least
root, `LeastNat`). If no other can be found, what is found is the file the class was compiled
from.

### Transport

For any number of documents and events, and any lengths of texts. `NumbersAreUnique` is
about what was sent; the number of a message is older than its sending. `HandsDiffer`:
what tasks hold unsent has different numbers, at most that of the counter, and each its
own. `SentEarlier`: what was sent has other numbers than what is held, and smaller ones
than what the same task holds. A task that draws takes a number above all others.

`TypeInv` is `TypeOK` with the types of the streams, and `SentLast` for the suffix; the last
conjunct of `TypeOK`, that a header never starts at a byte of a text, is a consequence of
`Stream` below.

`WrittenInv` says of stdout what the writer keeps: each header is followed by its text, but
the last one while the writer is in its body, or for ever if it ended there.

*Reading.* No variable says what the editor has written in all, or how much of it was read.
`Stream` says that they exist: a sequence `w`, of which `r` items are read and whose rest is
`stdin` followed by `unsent`; document `d` is framed behind `start[d]`, with its blank line at
`blank[d]` and its text from there to `start[d + 1]` (`FramedIn`, which all framings of the
editor have: `FrameForm`). `InFrame` says where in the frame of the next document the reader
is: the last length of a sound header is that of the text, and no length of an unsound one is.
So `BodyInFrame`: what is read as a body is a document just if the header was sound - a text
cut short, or with a byte of what follows, is not the text of any. A sound document cannot
fail, at the end of stdin either, since all of it is in `w`.

*Answers.* `Owed` is what main has still to answer, in its list or in its hand. `AnswerInv`:
it owes one answer at most, once, and that to the last document read; what is answered is what
was asked but for that, in order; the other tasks answer nothing. `Stream` gives that the
documents read are numbered 1, 2, ..., so that the one in hand is above all answered.

### Decoding

For replies and composite events of any length, and class files with any constants,
interfaces, members and attributes. Assumed: `BoundsAssumption`. The strings and names are
those of `Decoding`, which are UTF-8 (`AllAreUtf8`, for all of them). The state is simple
(`Made`: the outcome, if there is one, is what the bytes written so far decode to); what is
hard is what the loops compute, for data of any size. That takes induction, which the
lemma `Induction` gets from the well-foundedness of `<` on the naturals: a set that holds 0
and each successor of its elements holds all naturals. `UpTo` is the same for the turns of a
loop, and each proof names the set of turns after which what it claims is so. There are
three arguments.

*What is there is read.* `Holds` says that bytes are at a place of a document, `Stands`
that a cursor has come there without a failure. `ReadThere` is the step: of bytes that are
there, a cursor that stands there reads those and stands behind them. `Number1`, `Number2`
and `Number4` say that the digits of a number give it back, and `FlattenHolds` at which
offset each item of a list is. With them a field is read as it was written
(`ReadFieldThere`), a record whose layout matches its fields (`Matches`,
`ReadRecordThere`), a list (`ReadListThere`), a packet (`FramedThere`); and
`ReplyUnderstood`, `CompositeUnderstood` and `RequestUnderstood` follow once the two layouts
of each command, event and request are shown to match (`HeadMatches`, `ItemMatches`,
`EventMatches`; `Spells` for requests, which the program writes and the agent reads).

*The class file.* `PoolThere` follows the loop of the constant pool: after the constants
that are of no use (`ConstantsThere`: each is passed over and takes one index or two) the
names are entered under their own indices (`Filled`, `Names`), and the remaining turns
change nothing (`TurnsIdle`). `MembersThere` passes over fields and methods, whatever their
attributes hold; `SearchThere` finds the first SourceFile attribute, if there is one.
`ClassFileUnderstood` joins them part by part (`Parts`).

*A part of a document.* Two cursors `Agree` if the first, which reads the part, has failed or
is the same as the second, which reads the whole. Every read keeps this, and every loop:
`ParseClassInfoAgrees`. A packet is not decoded before it is all there
(`PartOfPacket`), and of a request the agent makes nothing or the same (`PartOfRequest`).

### Only model-checked

All liveness: temporal reasoning about `ENABLED` is beyond the prover. `MainClassExists`:
it rests on which classes gradle's compilers make of a file, and a theorem would assume
little less than it says; the projects of the run have what they make. Every other
invariant, action property and refinement that a passing run checks has a theorem.

## 6. Findings

Each of the first four is a behaviour TLC exhibits against a sentence of the source.

* `execution_phantom_stop` - two stops in one suspension (a step landing on a
  breakpoint, two breakpoints on one location): the user resumes from the first,
  and the second becomes a snapshot and a `stopped` event of a running JVM. The
  comment at `server.rs:116` says the snapshot is cleared on resume.
* `breakpoints_overwritten` - a class loads while setBreakpoints installs: the
  event loop installs the entry, setBreakpoints then stores `Pending` over it.
  The JVM's request can no longer be removed (`server.rs:32`).
* `client_stranded` - a call whose sender is inserted after the read loop has
  cleared the map is never unblocked, contrary to `jdwp.rs:261`.
* `session_left_jvm` - an editor that closes stdin right after its disconnect ends the
  server before the event loop has seen that `kill_tx` is gone, and the JVM stays
  behind, contrary to `server.rs:1171`. The property is also violated by a second way: the
  JVM closes its connection and lingers, the event loop waits a second for it
  (`server.rs:853`) without looking at `kill_rx`, the disconnect comes, and the
  process that outlives the second is let go (`Outlived`), contrary to `server.rs:833`
  and `server.rs:1171`. `DisconnectKills` excepts both.

Further consequences and disagreements, which have no run of their own:

* In the situation of `execution_phantom_stop` the Step arm takes whatever request is
  pending and so clears the step the user has just asked for (`server.rs:1080`;
  the comment at `server.rs:1072` speaks of *the* step request), and a continue may
  resume while the event loop still holds a request it has not cleared:
  `StepClearsItsOwn` and `NoStepAfterContinue` of `Execution` fail without `single`,
  and so does the implementation of `Debuggee`.
* A consequence of `client_stranded`: configurationDone waits with the session locked,
  and if its resume is stranded, the event loop cannot take the lock and never reports
  the end (`ConfigurationHangs` in `Session`; the liveness properties exempt it).
* A disconnect after the event loop has dropped the session, and before it has sent
  `terminated`, sends another (`server.rs:1177`): `LeavingIsAnswered` asks for at least one.
* Breakpoints set before `launch` are answered as unverified and forgotten
  (`server.rs:431`), though `initialized`, which invites an editor to set them, is sent
  in answer to `initialize`: an editor has to send `launch` first.
* Breakpoint ids start at 1 in every session (`server.rs:350`). An event loop of an
  earlier launch that is in the ClassPrepare arm while an editor that does not wait for
  `terminated` launches again would write its installs to the new session's entries.
* Sequence numbers are unique, but two tasks' messages may leave in the other order than
  their numbers (`server.rs:145`); nothing in the repository promises otherwise.
* A Kotlin main function is compiled to a class named after its file with `Kt`
  appended; `main_class.rs:126` derives the name without it. `MainClassExists`
  leaves Kotlin out.
* A build that fails with errors of no known pattern, on stderr only, is reported with an
  empty message (`gradle.rs:74`).
* An annotation before the `package` line, or a line of a block comment that does not
  begin like a comment, hides the package from `file_package_matches` (`source_map.rs:211`):
  the file's classes have no entry, or it is taken for one of the default package.
  `MapIsTrue` promises completeness only for files in place (`InPlace`), and truth only if
  the namesakes of a file are.
* Of a class compiled twice, left over in a second class directory, `by_class` has the last
  and the JVM loads the first; `by_source` lists the name under both files.
  `MapIsTrue` excepts such a class (`Once`), and a file with a namesake in its own package
  (`Distinct`): which of the two is found depends on the order of the listing.
* `derive_fqn` takes the directory of a file for its package. A Java or Groovy file with a
  main method that lies elsewhere gives a main class that does not exist;
  `MainClassExists` asks only about files that lie where their package says.
* The README names the launch argument `projectDir`, the code reads `projectRoot`
  (`server.rs:224`). The comment at `server.rs:37` says that an entry without an
  executable line is `Rejected`; by `server.rs:475` it stays `Pending` if its file
  has classes. `launcher.rs:73` drops the program's stdout once the port is known.

## 7. Not modelled, and why

* The JDWP handshake, and commands whose replies nothing uses; the text of DAP JSON,
  names and the text of values in a snapshot, wording of messages, the text of the port
  advertisement, the scripts that query gradle: formatting, or the text of other programs.
* Names in a class file with a NUL or a character beyond U+FFFF: compilers write these in
  modified UTF-8, `from_utf8_lossy` (`source_map.rs:252`) mangles them, and the class or
  its file is not found. `Lossy` does what the code does; the documents of `Decoding`
  have no such name, and what it makes of one is checked in `MCDecoding`.
* A live JVM that refuses a breakpoint at a line it reported itself: no JVM does.
* A second launch in `Breakpoints` and `Inspection`, and two stops in one suspension in
  `Inspection`: `Session` and `Execution` have these.
* Messages still in the channel when `main` returns are lost; `RequestIsAnswered` makes no
  promise to an editor that has closed stdin.
* Wrap-around of ids and request counters, which takes 2^32 of them, and of the sum of a
  requested line and the gap (`server.rs:1464`): executable lines have 16 bits in a class
  file, so that a wrapped sum excludes the same lines.

## 8. Plan

1. A second launch in `Breakpoints`, with the event loop of the first still at work.

## 9. Running

    tlc -config MCExecution.cfg MCExecution      # and likewise the others
    tlapm ExecutionProofs.tla                    # and the other *Proofs modules

The configuration of each run is named in `PROJECT.json`.
