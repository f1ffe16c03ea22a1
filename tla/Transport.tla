----------------------------- MODULE Transport -----------------------------
(***************************************************************************)
(* DAP messages on stdin and stdout.                                       *)
(*                                                                         *)
(* The main task reads one framed message at a time from stdin and handles *)
(* it.  It, the event loop and the task that forwards the JVM's stderr     *)
(* number their messages from one counter and put them into one channel,   *)
(* in two steps; a writer task frames them onto stdout.  When main returns *)
(* the runtime cancels the other tasks.                                    *)
(*                                                                         *)
(* A document is the JSON text of a message: a sequence of bytes which is  *)
(* JSON only as a whole.  What a handler does besides sending messages is  *)
(* the subject of the other modules; here it ends, and its outcome is any. *)
(***************************************************************************)
EXTENDS Naturals, Sequences, SequencesExt, FiniteSets

CONSTANTS
    Length,         \* document kind -> characters and bytes of its text
    MaxDocuments,   \* bound: documents the editor writes
    MaxEvents       \* bound: events of the event loop and lines of stderr

\* Requests - "other" stands for all that are just answered - and documents
\* that are ignored: no requests, or requests that lack a field.
Commands == {"initialize", "launch", "other", "disconnect", "unknown"}
Kinds    == Commands \cup {"ignored"}
OutKind  == "out"   \* what the server writes

ASSUME LengthAssumption ==
    /\ Length \in [Kinds \cup {OutKind} -> [chars : Nat \ {0}, bytes : Nat \ {0}]]
    /\ \A k \in DOMAIN Length : Length[k].chars <= Length[k].bytes
ASSUME BoundsAssumption == MaxDocuments \in Nat /\ MaxEvents \in Nat

VARIABLES
    documents,      \* the documents of the editor, as it wrote them
    unsent,         \* what the editor has written that has not arrived
    stdin,          \* what has arrived and is not read
    editor,         \* "open" or "closed": the editor's end of stdin
    reader,         \* read_message: its pc, and the lengths announced so far
    received,       \* the documents read
    main,           \* "reading", "handling", "leaving", "parting" or "returned"
    session,        \* is there a session
    loop,           \* the event loop: "none", "on" or "ended"
    seq,            \* Backend::seq
    todo,           \* of each task: the messages it is going to send
    hand,           \* of each task: the message it has numbered, not yet sent
    channel,        \* messages on their way to the writer
    writer,         \* "idle", "body" or "ended"
    stdout,         \* what has been written
    sent,           \* history: the messages put into the channel
    events          \* events of the loop and of stderr so far

inVars   == <<documents, unsent, stdin, editor>>
mainVars == <<reader, received, main>>
taskVars == <<session, loop, events>>
sendVars == <<seq, todo, hand>>
outVars  == <<channel, writer, stdout>>
vars == <<inVars, mainVars, taskVars, sendVars, outVars, sent>>

Tasks == {"main", "loop", "stderr"}

-----------------------------------------------------------------------------
(* What stdin and stdout carry: lines of a header, and bytes of documents. *)

LengthLine(n) == [is |-> "length", value |-> n]
BadLength     == [is |-> "badLength"]
OtherLine     == [is |-> "other"]
BlankLine     == [is |-> "blank"]
Bytes(k, d)   == [i \in 1 .. Length[k].bytes |-> [is |-> "byte", doc |-> d, at |-> i]]

\* How the editor may frame document d of kind k.
PlainFrame(k, d) == <<LengthLine(Length[k].bytes), BlankLine>> \o Bytes(k, d)
WellFramed(k, d) ==
    { <<OtherLine, LengthLine(Length[k].bytes), BlankLine>> \o Bytes(k, d),
      <<LengthLine(1), LengthLine(Length[k].bytes), BlankLine>> \o Bytes(k, d) }
IllFramed(k, d) ==
    { <<LengthLine(Length[k].bytes - 1), BlankLine>> \o Bytes(k, d),
      <<LengthLine(Length[k].bytes + 1), BlankLine>> \o Bytes(k, d),
      <<BadLength, BlankLine>> \o Bytes(k, d),
      <<OtherLine, BlankLine>> \o Bytes(k, d) }

\* What the server says: an answer to a request, or an event (request 0).
Message == [request : Nat, event : {"", "initialized", "terminated", "stopped",
                                    "output", "spawn"}]
Answer(d)  == [request |-> d, event |-> ""]
Event(e)   == [request |-> 0, event |-> e]
Spawn      == Event("spawn")    \* never sent: SpawnTasks takes its place
Numbered   == [number : Nat, by : Tasks, message : Message]
Nothing    == [number |-> 0, by |-> "main", message |-> Answer(0)]

(* The type invariant.                                                     *)
TypeOK ==
    /\ documents \in Seq([kind : Kinds, framed : BOOLEAN])
    /\ Len(documents) <= MaxDocuments
    /\ editor \in {"open", "closed"}
    /\ reader.pc \in {"header", "body", "failed"}
    /\ reader.lengths \in Seq(Nat)
    /\ reader.pc = "header" /\ stdin # <<>> => Head(stdin).is # "byte"
    /\ received \in Seq(1 .. Len(documents))
    /\ main \in {"reading", "handling", "leaving", "parting", "returned"}
    /\ session \in BOOLEAN /\ (session => loop = "on")
    /\ loop \in {"none", "on", "ended"}
    /\ seq \in Nat
    /\ todo \in [Tasks -> Seq(Message)]
    /\ hand \in [Tasks -> Numbered]
    /\ channel \in Seq(Numbered) /\ IsSuffix(channel, sent)
    /\ writer \in {"idle", "body", "ended"}
    /\ events \in 0 .. MaxEvents

Init ==
    /\ documents = <<>> /\ unsent = <<>> /\ stdin = <<>> /\ editor = "open"
    /\ reader = [pc |-> "header", lengths |-> <<>>] /\ received = <<>>
    /\ main = "reading" /\ session = FALSE /\ loop = "none"
    /\ seq = 0
    /\ todo = [t \in Tasks |-> <<>>] /\ hand = [t \in Tasks |-> Nothing]
    /\ channel = <<>> /\ writer = "idle" /\ stdout = <<>>
    /\ sent = <<>> /\ events = 0

-----------------------------------------------------------------------------
(* The editor: it launches at most once, and may close stdin.              *)

Writes(k, framed, frame) ==
    /\ editor = "open" /\ unsent = <<>>
    /\ Len(documents) < MaxDocuments
    /\ k = "launch" => \A i \in DOMAIN documents : documents[i].kind # k
    /\ documents' = Append(documents, [kind |-> k, framed |-> framed])
    /\ unsent' = frame
    /\ UNCHANGED <<stdin, editor, mainVars, taskVars, sendVars, outVars, sent>>

\* The framing does not depend on the command: it is varied for one of them.
EditorWrites ==
    LET d == Len(documents) + 1 IN
        \/ \E k \in Kinds : Writes(k, TRUE, PlainFrame(k, d))
        \/ \E f \in WellFramed("other", d) : Writes("other", TRUE, f)
        \/ \E f \in IllFramed("other", d) : Writes("other", FALSE, f)

\* The pipe delivers all of it, or all but the last byte first.
Deliver ==
    \E n \in {Len(unsent) - 1, Len(unsent)} \ {0} :
        /\ unsent # <<>>
        /\ stdin' = stdin \o SubSeq(unsent, 1, n)
        /\ unsent' = SubSeq(unsent, n + 1, Len(unsent))
        /\ UNCHANGED <<documents, editor, mainVars, taskVars, sendVars, outVars,
                       sent>>

EditorCloses ==
    /\ editor = "open" /\ unsent = <<>>
    /\ editor' = "closed"
    /\ UNCHANGED <<documents, unsent, stdin, mainVars, taskVars, sendVars,
                   outVars, sent>>

-----------------------------------------------------------------------------
(* DapReader::read_message, and handle_message.                            *)

\* Mutant of ReaderFails: what cannot be read is skipped.
ReaderSkips ==
    /\ reader' = [pc |-> "header", lengths |-> <<>>]
    /\ stdin' = IF stdin = <<>> THEN stdin ELSE Tail(stdin)
    /\ UNCHANGED <<received, main, todo>>
ReaderFails ==
    /\ reader' = [reader EXCEPT !.pc = "failed"]
    /\ UNCHANGED <<stdin, received, main, todo>>

\* Mutant of Announced: the first length counts.
FirstAnnounced == Head(reader.lengths)
\* content_length: the last one counts.
Announced == Last(reader.lengths)

\* One line of the header; a length that is no number, or none at all, fails.
ReadLine ==
    /\ main = "reading" /\ reader.pc = "header"
    /\ stdin # <<>>
    /\ LET line == Head(stdin) IN
       IF \/ line = BadLength
          \/ line = BlankLine /\ reader.lengths = <<>>
       THEN ReaderFails
       ELSE /\ reader' = CASE line.is = "length" ->
                                [reader EXCEPT !.lengths = Append(@, line.value)]
                           [] line = BlankLine -> [reader EXCEPT !.pc = "body"]
                           [] OTHER -> reader
            /\ stdin' = Tail(stdin)
            /\ UNCHANGED <<received, main, todo>>
    /\ UNCHANGED <<documents, unsent, editor, taskVars, seq, hand, outVars, sent>>

\* Is the body the whole text of a document?
IsDocument(body) ==
    \E d \in DOMAIN documents : body = Bytes(documents[d].kind, d)

\* Mutant of Says: a build that failed is answered by do_launch and again by
\* handle_launch.
SaysTwice(k, d) ==
    CASE k = "ignored" -> {<<>>}
      [] k = "launch"  -> {<<Answer(d), Event("terminated"), Answer(d),
                             Event("terminated")>>}
      [] OTHER         -> {<<Answer(d)>>}

\* The messages the handler of document d, of kind k, sends; the terminated
\* event of a disconnect is left to Leave.
Says(k, d) ==
    CASE k = "initialize" -> {<<Answer(d), Event("initialized")>>}
      [] k = "launch"     -> {<<Spawn, Answer(d)>>,
                              <<Answer(d), Event("terminated")>>}
      [] k = "ignored"    -> {<<>>}
      [] OTHER            -> {<<Answer(d)>>}

\* Mutant of Handle: an unknown command is only logged.
HandleKnown(k, d) ==
    \E messages \in Says(k, d) :
        todo' = [todo EXCEPT !["main"] = IF k = "unknown" THEN <<>> ELSE messages]
Handle(k, d) == \E messages \in Says(k, d) : todo' = [todo EXCEPT !["main"] = messages]

\* The body: exactly the bytes announced.  It must be JSON.
ReadBody ==
    /\ main = "reading" /\ reader.pc = "body"
    /\ Len(stdin) >= Announced
    /\ LET body == SubSeq(stdin, 1, Announced) IN
       IF ~IsDocument(body) THEN ReaderFails
       ELSE LET d == body[1].doc IN
            /\ stdin' = SubSeq(stdin, Announced + 1, Len(stdin))
            /\ reader' = [pc |-> "header", lengths |-> <<>>]
            /\ received' = Append(received, d)
            /\ main' = "handling"
            /\ Handle(documents[d].kind, d)
    /\ UNCHANGED <<documents, unsent, editor, taskVars, seq, hand, outVars, sent>>

\* The end of stdin, before a line or in the midst of a body.
ReadEof ==
    /\ main = "reading" /\ reader.pc # "failed"
    /\ editor = "closed"
    /\ Len(stdin) < IF reader.pc = "body" THEN Announced ELSE 1
    /\ ReaderFails
    /\ UNCHANGED <<documents, unsent, editor, taskVars, seq, hand, outVars, sent>>

\* A read error: main returns, and the tasks are cancelled wherever they are.
MainReturns ==
    /\ main = "reading" /\ reader.pc = "failed"
    /\ main' = "returned"
    /\ todo' = [t \in Tasks |-> <<>>] /\ hand' = [t \in Tasks |-> Nothing]
    /\ session' = FALSE
    /\ loop' = IF loop = "on" THEN "ended" ELSE loop
    /\ channel' = <<>> /\ writer' = "ended"
    /\ UNCHANGED <<inVars, reader, received, events, seq, stdout, sent>>

-----------------------------------------------------------------------------
(* Sending a message.                                                      *)

\* Mutant of NextSeq: each task counts for itself.
OwnSeq(t) == Cardinality({i \in DOMAIN sent : sent[i].by = t}) + 1
\* next_seq: the counter after its atomic increment.
NextSeq(t) == seq + 1

Draw(t) ==
    /\ hand[t] = Nothing /\ todo[t] # <<>> /\ Head(todo[t]) # Spawn
    /\ hand' = [hand EXCEPT ![t] = [number |-> NextSeq(t), by |-> t,
                                    message |-> Head(todo[t])]]
    /\ todo' = [todo EXCEPT ![t] = Tail(@)]
    /\ seq' = seq + 1
    /\ UNCHANGED <<inVars, mainVars, taskVars, outVars, sent>>

\* After the writer has ended, a failed send is logged at most.
SendMessage(t) ==
    /\ hand[t] # Nothing
    /\ IF writer = "ended" THEN UNCHANGED <<channel, sent>>
       ELSE /\ channel' = Append(channel, hand[t])
            /\ sent' = Append(sent, hand[t])
    /\ hand' = [hand EXCEPT ![t] = Nothing]
    /\ UNCHANGED <<inVars, mainVars, taskVars, seq, todo, writer, stdout>>

AllSaid(t) == todo[t] = <<>> /\ hand[t] = Nothing

\* Launch has stored the session and spawned the two tasks; the answer follows.
SpawnTasks ==
    /\ todo["main"] # <<>> /\ Head(todo["main"]) = Spawn
    /\ todo' = [todo EXCEPT !["main"] = Tail(@)]
    /\ session' = TRUE /\ loop' = "on"
    /\ UNCHANGED <<inVars, mainVars, events, seq, hand, outVars, sent>>

\* The handler of the current request has sent all it has to.
HandlerEnds ==
    /\ main \in {"handling", "parting"} /\ AllSaid("main")
    /\ main' = IF main = "handling" /\ documents[Last(received)].kind = "disconnect"
               THEN "leaving" ELSE "reading"
    /\ UNCHANGED <<inVars, reader, received, taskVars, sendVars, outVars, sent>>

\* disconnect, once it is answered: the session is dropped; without one, main
\* sends terminated itself.
Leave ==
    /\ main = "leaving"
    /\ session' = FALSE
    /\ todo' = IF session THEN todo
               ELSE [todo EXCEPT !["main"] = <<Event("terminated")>>]
    /\ main' = "parting"
    /\ UNCHANGED <<inVars, reader, received, loop, events, seq, hand, outVars, sent>>

\* An event of the event loop, or a line of stderr, which may come after it.
Emit(t, e) ==
    /\ AllSaid(t) /\ events < MaxEvents
    /\ main # "returned"
    /\ IF t = "loop" THEN loop = "on" ELSE loop # "none"
    /\ todo' = [todo EXCEPT ![t] = <<Event(e)>>]
    /\ events' = events + 1
    /\ UNCHANGED <<inVars, mainVars, session, loop, seq, hand, outVars, sent>>

\* The end of the JVM, or of the session.
LoopEnds ==
    /\ loop = "on" /\ AllSaid("loop")
    /\ loop' = "ended" /\ session' = FALSE
    /\ todo' = [todo EXCEPT !["loop"] = <<Event("terminated")>>]
    /\ UNCHANGED <<inVars, mainVars, events, seq, hand, outVars, sent>>

-----------------------------------------------------------------------------
(* The writer task: DapWriter::send for each message of the channel.       *)

\* Mutant of ContentLength: characters are counted instead of bytes.
CharCount(k) == Length[k].chars
ContentLength(k) == Length[k].bytes

WriteHeader ==
    /\ writer = "idle" /\ channel # <<>>
    /\ stdout' = stdout \o <<LengthLine(ContentLength(OutKind)), BlankLine>>
    /\ writer' = "body"
    /\ UNCHANGED <<inVars, mainVars, taskVars, sendVars, channel, sent>>

WriteBody ==
    /\ writer = "body"
    /\ stdout' = stdout \o Bytes(OutKind, Head(channel).number)
    /\ channel' = Tail(channel)
    /\ writer' = "idle"
    /\ UNCHANGED <<inVars, mainVars, taskVars, sendVars, sent>>

\* The editor has closed stdout: the writer ends, and the channel with it.
WriteFails ==
    /\ writer = "body" \/ (writer = "idle" /\ channel # <<>>)
    /\ writer' = "ended"
    /\ channel' = <<>>
    /\ UNCHANGED <<inVars, mainVars, taskVars, sendVars, stdout, sent>>

Writer == WriteHeader \/ WriteBody \/ WriteFails

-----------------------------------------------------------------------------
MainTask == \/ ReadLine \/ ReadBody \/ ReadEof \/ MainReturns
            \/ Draw("main") \/ SendMessage("main")
            \/ SpawnTasks \/ HandlerEnds \/ Leave

OtherTask(t) == Draw(t) \/ SendMessage(t)

Next == \/ EditorWrites \/ Deliver \/ EditorCloses
        \/ MainTask \/ Writer
        \/ OtherTask("loop") \/ OtherTask("stderr")
        \/ Emit("loop", "stopped") \/ Emit("stderr", "output") \/ LoopEnds

Spec == Init /\ [][Next]_vars

FairSpec == /\ Spec /\ WF_vars(MainTask) /\ WF_vars(Writer)
            /\ WF_vars(OtherTask("loop")) /\ WF_vars(OtherTask("stderr"))

-----------------------------------------------------------------------------
(* Properties.                                                             *)

\* No two messages ever have the same number, and those of one task leave in
\* the order of their numbers; those of two tasks may not (server.rs:145 and
\* :814 draw the number before, and apart from, the send).
NumbersAreUnique ==
    \A j \in DOMAIN sent : \A i \in 1 .. j - 1 :
        /\ sent[i].number # sent[j].number
        /\ sent[i].by = sent[j].by => sent[i].number < sent[j].number

IsRequest(d) == documents[d].kind # "ignored"

\* Each request gets exactly one answer, in the order of the requests, whatever
\* the other tasks send in between and whichever way its handler ends: answers
\* leave in the order of the documents, none twice, and all requests read have
\* theirs but perhaps the one in hand.
AnsweredInOrder ==
    LET answered  == {sent[i].message.request : i \in DOMAIN sent} \ {0}
        requested == {d \in Range(received) : IsRequest(d)}
    IN  writer # "ended" =>
            /\ \A j \in DOMAIN sent : \A i \in 1 .. j - 1 :
                   sent[j].message.request # 0 =>
                       sent[i].message.request < sent[j].message.request
            /\ \/ answered = requested
               \/ /\ main = "handling"
                  /\ answered = requested \ {Last(received)}

\* Documents are read whole, in order and without a gap, and all of them up to
\* the first whose header is wrong (test_multiple_messages, transport.rs:91):
\* what follows a bad header is never taken for a message.
ReadsWhatWasSent ==
    LET wrong == {d \in DOMAIN documents : ~documents[d].framed} IN
    /\ received = [i \in 1 .. Len(received) |-> i]
    /\ reader.pc = "failed" =>
           \/ wrong = {} /\ Len(received) = Len(documents)
           \/ \E d \in wrong : d = Len(received) + 1

\* What the server writes can be read again: each length announced on stdout is
\* that of the bytes up to the next header, or of those still to be written.
StdoutParses ==
    \A i \in DOMAIN stdout : stdout[i].is = "length" =>
        LET end == i + 1 + stdout[i].value IN
        IF end < Len(stdout) THEN stdout[end + 1].is = "length"
        ELSE \A j \in i + 1 .. Len(stdout) : stdout[j].is # "length"

\* A request that has arrived in a sound stream is answered on stdout, unless
\* stdout is closed or the server ends first.
RequestIsAnswered ==
    \A d \in 1 .. MaxDocuments :
        (/\ d \in DOMAIN documents /\ unsent = <<>> /\ IsRequest(d)
         /\ \A c \in 1 .. d : documents[c].framed)
        ~> \/ writer = "ended"
           \/ \E i \in 1 .. Len(sent) - Len(channel) :
                  sent[i].message.request = d

=============================================================================
