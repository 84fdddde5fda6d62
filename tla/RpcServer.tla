------------------------------ MODULE RpcServer ------------------------------
(***************************************************************************)
(* The JSONL server over stdin and stdout (rpc.rs): one loop that writes   *)
(* responses and events and starts a thread per request, the request       *)
(* threads, and the session they call.  The session is the worker of       *)
(* SessionRuntime seen from outside: it takes commands from its bounded    *)
(* channel, answers each, owes each accepted one a terminal event, blocks  *)
(* while the event channel is full, and exits after a shutdown.  A run may *)
(* ask for an approval: it then waits for an answer or the cancel flag and *)
(* takes no command.                                                       *)
(*                                                                         *)
(* A frame is a request or the end of the input: EOF, an unreadable frame  *)
(* and the limit on request ids all close it.  The hello exchange, frames  *)
(* that get a protocol error and events other than terminals are left out. *)
(***************************************************************************)
EXTENDS Naturals, Sequences, FiniteSets, Functions

CONSTANTS
    Request,       \* the requests of the connection
    Kind,          \* [Request -> Kinds]
    MaxInFlight,   \* MAX_IN_FLIGHT_REQUESTS
    Capacity,      \* COMMAND_QUEUE_CAPACITY of the session
    EventCapacity, \* EVENT_QUEUE_CAPACITY of the session
    Detached,      \* the shutdown the server sends without a command id
    Eof,           \* the end of the input
    None           \* no request

Kinds == {"command", "query", "abort", "shutdown"}

ASSUME RpcAssumption ==
    /\ IsFiniteSet(Request)
    /\ Kind \in [Request -> Kinds]
    /\ MaxInFlight \in Nat \ {0} /\ Capacity \in Nat /\ EventCapacity \in Nat \ {0}
    /\ MaxInFlight <= Capacity
    /\ {Detached, Eof, None} \cap Request = {}

VARIABLES
    input,       \* frames the client has written and the server not taken
    inputClosed, \* the loop's input_closed
    thread,      \* where each request stands
    reply,       \* the result of each request
    inFlight,    \* the in_flight counter
    responses,   \* the response channel
    server,      \* control point of the serve loop
    ended,       \* how the loop ended
    connected,   \* the server still holds SessionEvents
    told,        \* requests whose terminal event has been written
    chan,        \* the session's command channel
    events,      \* the session's event channel: terminals by request
    worker,      \* the session's worker
    owed,        \* accepted commands without a terminal event
    run,         \* what the worker does with the command it took when idle
    emitting,    \* the command whose terminal the worker is sending
    accepted,    \* history: commands the session accepted
    cancel       \* the cancel flag shared by the server and the session

clientVars  == <<input>>
threadVars  == <<thread, reply, responses>>
serverVars  == <<inputClosed, inFlight, server, ended, connected, told>>
sessionVars == <<chan, events, worker, owed, run, emitting, accepted>>
vars == <<clientVars, threadVars, serverVars, sessionVars, cancel>>

Init ==
    /\ input = <<>>
    /\ inputClosed = FALSE
    /\ thread = [r \in Request |-> "unsent"]
    /\ reply = [r \in Request |-> "none"]
    /\ inFlight = 0
    /\ responses = <<>>
    /\ server = "responses"
    /\ ended = "no"
    /\ connected = TRUE
    /\ told = {}
    /\ chan = <<>>
    /\ events = <<>>
    /\ worker = "up"
    /\ owed = {}
    /\ emitting = None
    /\ accepted = {}
    /\ run = "none"
    /\ cancel = FALSE

-----------------------------------------------------------------------------
(* The client.                                                             *)

ClientOpen == Eof \notin Range(input) /\ ~inputClosed

ClientSends(r) ==
    /\ ClientOpen /\ thread[r] = "unsent"
    /\ input' = Append(input, r)
    /\ thread' = [thread EXCEPT ![r] = "written"]
    /\ UNCHANGED <<reply, responses, serverVars, sessionVars, cancel>>

ClientCloses ==
    /\ ClientOpen
    /\ input' = Append(input, Eof)
    /\ UNCHANGED <<threadVars, serverVars, sessionVars, cancel>>

-----------------------------------------------------------------------------
(* A request thread (spawn_request, handle_request).                       *)

Finish(r, result) ==
    /\ thread' = [thread EXCEPT ![r] = "finished"]
    /\ reply' = [reply EXCEPT ![r] = result]

\* list_models, get_snapshot, approval_response: answered without the channel;
\* the last two fail on a session that is gone, the last when nothing is pending.
AnswerQuery(r) ==
    /\ thread[r] = "running" /\ Kind[r] = "query"
    /\ \/ \E result \in {"ok", "error"} : Finish(r, result) /\ UNCHANGED run
       \/ run = "asking" /\ Finish(r, "ok") /\ run' = "going"
    /\ UNCHANGED <<clientVars, responses, serverVars, chan, events, worker, owed, emitting,
                   accepted, cancel>>

IsControl(c) == c = Detached \/ Kind[c] \in {"abort", "shutdown"}

\* submit: a blocking send, then the wait for the admission.  Abort and shutdown
\* raise the cancel flag before they are sent.
SubmitCommand(r) ==
    /\ thread[r] = "running" /\ Kind[r] # "query"
    /\ \/ /\ worker # "gone" /\ Len(chan) < Capacity
          /\ chan' = Append(chan, r)
          /\ thread' = [thread EXCEPT ![r] = "submitted"]
          /\ UNCHANGED reply
       \/ /\ worker = "gone"
          /\ Finish(r, "error")
          /\ UNCHANGED chan
    /\ cancel' = (cancel \/ IsControl(r))
    /\ UNCHANGED <<clientVars, responses, serverVars, events, worker, owed, run, emitting, accepted>>

\* The serve loop has returned and dropped its end of the response channel.
LoopReturned == server \in {"cleanup", "done"}

\* The result goes to the server's response channel, unless it is closed.
HandIn(r) ==
    /\ thread[r] = "finished"
    /\ \/ /\ ~LoopReturned /\ Len(responses) < MaxInFlight
          /\ responses' = Append(responses, r)
          /\ thread' = [thread EXCEPT ![r] = "handed"]
          /\ UNCHANGED inFlight
       \/ /\ LoopReturned
          /\ thread' = [thread EXCEPT ![r] = "dropped"]
          /\ inFlight' = inFlight - 1
          /\ UNCHANGED responses
    /\ UNCHANGED <<clientVars, reply, inputClosed, server, ended, connected, told, sessionVars,
                   cancel>>

-----------------------------------------------------------------------------
(* The session.                                                            *)

\* The worker takes a command between two runs, or a run looks at the channel.
Receives == run = "going" \/ (run = "none" /\ owed = {})

\* Taken between runs, every command but abort and shutdown lowers the flag; a
\* run that finds one of these raises it.
FlagAfter(c) ==
    IF IsControl(c) THEN cancel \/ run = "going" \/ (c # Detached /\ Kind[c] = "abort")
                    ELSE cancel /\ run = "going"

\* A busy session turns some away, an idle one those it finds invalid.
TakeCommand ==
    /\ worker = "up" /\ emitting = None /\ chan # <<>> /\ Receives
    /\ LET c == Head(chan)
       IN  \/ /\ c = Detached
              /\ worker' = "stopping"
              /\ cancel' = FlagAfter(c)
              /\ UNCHANGED <<threadVars, owed, accepted, run>>
           \/ /\ c # Detached
              /\ worker' = IF Kind[c] = "shutdown" THEN "stopping" ELSE "up"
              /\ Finish(c, "ok")
              /\ owed' = owed \cup {c} /\ accepted' = accepted \cup {c}
              /\ cancel' = FlagAfter(c)
              /\ run' = IF IsControl(c) THEN run ELSE "going"
              /\ UNCHANGED responses
           \/ /\ c # Detached /\ Kind[c] = "command"
              /\ Finish(c, "error")
              /\ UNCHANGED <<worker, responses, owed, accepted, run, cancel>>
    /\ chan' = Tail(chan)
    /\ UNCHANGED <<clientVars, serverVars, events, emitting>>

runFrame == <<clientVars, threadVars, serverVars, chan, events, worker, owed, accepted, cancel>>

\* request_approval: a tool of the run needs the user's word.  With nobody
\* left to read events the run is cancelled instead.
Ask ==
    /\ worker # "gone" /\ run = "going" /\ emitting = None /\ connected /\ ~cancel
    /\ run' = "asking"
    /\ UNCHANGED <<runFrame, emitting>>

\* The wait has no deadline: it looks at the cancel flag only.
AskCancelled ==
    /\ run = "asking" /\ cancel
    /\ run' = "going"
    /\ UNCHANGED <<runFrame, emitting>>

\* What was taken is over; its terminals come before the next receive.
StartReport(r) ==
    /\ worker # "gone" /\ emitting = None /\ r \in owed /\ run # "asking"
    /\ emitting' = r
    /\ run' = "none"
    /\ UNCHANGED runFrame

\* The worker's exit drops the receiver: what is still in the channel fails.
DropChannel ==
    /\ worker' = "gone"
    /\ cancel' = TRUE
    /\ chan' = <<>>
    /\ thread' = [r \in Request |-> IF r \in Range(chan) THEN "finished" ELSE thread[r]]
    /\ reply' = [r \in Request |-> IF r \in Range(chan) THEN "error" ELSE reply[r]]

\* A blocking send on the event channel; without a receiver the worker leaves.
Report ==
    /\ emitting # None
    /\ \/ /\ connected /\ Len(events) < EventCapacity
          /\ events' = Append(events, emitting)
          /\ owed' = owed \ {emitting}
          /\ UNCHANGED <<worker, chan, thread, reply, cancel>>
       \/ /\ ~connected
          /\ DropChannel
          /\ UNCHANGED <<events, owed>>
    /\ emitting' = None
    /\ UNCHANGED <<clientVars, responses, serverVars, run, accepted>>

WorkerExits ==
    /\ worker = "stopping" /\ emitting = None /\ owed = {}
    /\ DropChannel
    /\ UNCHANGED <<clientVars, responses, serverVars, events, owed, run, emitting, accepted>>

-----------------------------------------------------------------------------
(* The serve loop.                                                         *)

Goto(point) == server' = point

\* Dropping the events of the session raises the flag (SessionEvents::drop).
End(how) == Goto("done") /\ ended' = how /\ connected' = FALSE /\ cancel' = TRUE

\* Pending responses first; the response to an accepted shutdown is the last.
WriteResponse ==
    /\ server = "responses" /\ responses # <<>>
    /\ LET r == Head(responses)
       IN  /\ responses' = Tail(responses)
           /\ inFlight' = inFlight - 1
           /\ thread' = [thread EXCEPT ![r] = "answered"]
           /\ IF Kind[r] = "shutdown" /\ reply[r] = "ok"
              THEN End("shutdown")
              ELSE UNCHANGED <<server, ended, connected, cancel>>
    /\ UNCHANGED <<clientVars, reply, inputClosed, told, sessionVars>>

ResponsesWritten ==
    /\ server = "responses" /\ responses = <<>>
    /\ Goto("events")
    /\ UNCHANGED <<clientVars, threadVars, inputClosed, inFlight, ended, connected, told, sessionVars,
                   cancel>>

WriteFirstEvent ==
    /\ events' = Tail(events)
    /\ told' = told \cup {Head(events)}

WriteEvent ==
    /\ server = "events" /\ events # <<>>
    /\ WriteFirstEvent
    /\ UNCHANGED <<clientVars, threadVars, inputClosed, inFlight, server, ended, connected,
                   chan, worker, owed, run, emitting, accepted, cancel>>

EventsWritten ==
    /\ server = "events" /\ events = <<>>
    /\ Goto(IF inputClosed THEN "closing" ELSE "input")
    /\ UNCHANGED <<clientVars, threadVars, inputClosed, inFlight, ended, connected, told, sessionVars,
                   cancel>>

\* Mutant: one request more than the bound may be in flight.
SaturatedLate == inFlight > MaxInFlight

\* At the bound no frame is read.
Saturated == inFlight >= MaxInFlight

\* At the bound the loop waits for an event, or a while, instead of reading.
WaitForEvent ==
    /\ server = "input" /\ Saturated
    /\ \/ events # <<>> /\ WriteFirstEvent /\ Goto("responses")
          /\ UNCHANGED <<ended, connected, cancel>>
       \/ events = <<>> /\ worker # "gone" /\ Goto("responses")
          /\ UNCHANGED <<events, told, ended, connected, cancel>>
       \/ events = <<>> /\ worker = "gone" /\ End("lost") /\ UNCHANGED <<events, told>>
    /\ UNCHANGED <<clientVars, threadVars, inputClosed, inFlight,
                   chan, worker, owed, run, emitting, accepted>>

\* A request gets an id and a thread; the end of the input is remembered.
TakeFrame ==
    /\ server = "input" /\ ~Saturated /\ input # <<>>
    /\ input' = Tail(input)
    /\ \/ /\ Head(input) = Eof
          /\ inputClosed' = TRUE
          /\ UNCHANGED <<inFlight, thread>>
       \/ /\ Head(input) # Eof
          /\ inFlight' = inFlight + 1
          /\ thread' = [thread EXCEPT ![Head(input)] = "running"]
          /\ UNCHANGED inputClosed
    /\ Goto("responses")
    /\ UNCHANGED <<reply, responses, ended, connected, told, sessionVars,
                   cancel>>

\* No frame came for a while.
InputTimeout ==
    /\ server = "input" /\ ~Saturated /\ input = <<>>
    /\ Goto("responses")
    /\ UNCHANGED <<clientVars, threadVars, inputClosed, inFlight, ended, connected, told, sessionVars,
                   cancel>>

\* Mutant: the loop returns once the shutdown is in the channel.
SendDetachedAndReturn ==
    /\ server = "closing"
    /\ \/ worker # "gone" /\ Len(chan) < Capacity /\ chan' = Append(chan, Detached)
       \/ worker = "gone" /\ UNCHANGED chan
    /\ End("eof")
    /\ UNCHANGED <<clientVars, threadVars, inputClosed, inFlight, told,
                   events, worker, owed, run, emitting, accepted>>

\* Mutant: the session is not told that the input is closed.
DrainUnasked ==
    /\ server \in {"closing", "cleanup"}
    /\ \/ server = "closing" /\ Goto("drain") /\ UNCHANGED <<ended, connected, cancel>>
       \/ server = "cleanup" /\ End("broken")
    /\ UNCHANGED <<clientVars, threadVars, inputClosed, inFlight, told, sessionVars>>

\* The input is closed: cancel_now and a blocking send of the shutdown.
SendDetached ==
    /\ server \in {"closing", "cleanup"}
    /\ \/ worker # "gone" /\ Len(chan) < Capacity /\ chan' = Append(chan, Detached)
       \/ worker = "gone" /\ UNCHANGED chan
    /\ \/ server = "closing" /\ Goto("drain") /\ cancel' = TRUE /\ UNCHANGED <<ended, connected>>
       \/ server = "cleanup" /\ End("broken")
    /\ UNCHANGED <<clientVars, threadVars, inputClosed, inFlight, told,
                   events, worker, owed, run, emitting, accepted>>

\* Then events are written until the session is gone; responses are not.
Drain ==
    /\ server = "drain"
    /\ \/ events # <<>> /\ WriteFirstEvent /\ UNCHANGED <<server, ended, connected, cancel>>
       \/ events = <<>> /\ worker = "gone" /\ End("eof") /\ UNCHANGED <<events, told>>
    /\ UNCHANGED <<clientVars, threadVars, inputClosed, inFlight,
                   chan, worker, owed, run, emitting, accepted>>

\* A write fails: serve_session returns, which drops the events and the
\* responses, and serve cancels and shuts the session down.
WriteFails ==
    /\ \/ server = "responses" /\ responses # <<>>
       \/ server \in {"events", "drain"} /\ events # <<>>
       \/ server = "input" /\ Saturated /\ events # <<>>
    /\ connected' = FALSE /\ cancel' = TRUE
    /\ Goto("cleanup")
    /\ UNCHANGED <<clientVars, threadVars, inputClosed, inFlight, ended, told, sessionVars>>

Client  == ClientCloses \/ \E r \in Request : ClientSends(r)
Thread(r) == AnswerQuery(r) \/ SubmitCommand(r) \/ HandIn(r)
Session == TakeCommand \/ Ask \/ AskCancelled \/ Report \/ WorkerExits
           \/ \E r \in Request : StartReport(r)
Server  == WriteResponse \/ ResponsesWritten \/ WriteEvent \/ EventsWritten \/ WaitForEvent
           \/ TakeFrame \/ InputTimeout \/ SendDetached \/ Drain

Next == Client \/ Session \/ Server \/ WriteFails \/ \E r \in Request : Thread(r)

Spec == Init /\ [][Next]_vars

\* Threads, the loop and the session run on; the client may do as it likes.
\* A run goes on by itself but in its wait for an approval, which nothing ends
\* while the flag is low and no answer comes.
FairSpec ==
    /\ Spec
    /\ WF_vars(Server)
    /\ WF_vars(TakeCommand) /\ WF_vars(AskCancelled) /\ WF_vars(Report) /\ WF_vars(WorkerExits)
    /\ WF_vars(\E r \in Request : StartReport(r))
    /\ \A r \in Request : WF_vars(Thread(r))

-----------------------------------------------------------------------------
(* Properties.                                                             *)

InFlight == {r \in Request : thread[r] \in {"running", "submitted", "finished", "handed"}}

TypeOK ==
    /\ input \in Seq(Request \cup {Eof})
    /\ inputClosed \in BOOLEAN /\ connected \in BOOLEAN
    /\ thread \in [Request -> {"unsent", "written", "running", "submitted", "finished",
                               "handed", "dropped", "answered"}]
    /\ reply \in [Request -> {"none", "ok", "error"}]
    /\ inFlight \in 0..MaxInFlight
    /\ responses \in Seq(Request)
    /\ server \in {"responses", "events", "input", "closing", "drain", "cleanup", "done"}
    /\ ended \in {"no", "eof", "shutdown", "lost", "broken"}
    /\ chan \in Seq(Request \cup {Detached}) /\ events \in Seq(Request)
    /\ worker \in {"up", "stopping", "gone"}
    /\ told \subseteq accepted /\ owed \subseteq accepted /\ accepted \subseteq Request
    /\ emitting \in owed \cup {None}
    /\ run \in {"none", "going", "asking"} /\ cancel \in BOOLEAN

\* The two blocking sends of the process that nobody could free both fit: a
\* request thread never waits for the response channel, and the loop, which
\* alone empties the event channel the worker may be blocked on, never waits
\* to send its shutdown.  This needs MAX_IN_FLIGHT_REQUESTS <= COMMAND_QUEUE_CAPACITY
\* and that no frame is read at the bound.
SendsFit ==
    /\ \A r \in Request :
          thread[r] = "finished" /\ ~LoopReturned => Len(responses) < MaxInFlight
    /\ server = "closing" => Len(chan) < Capacity

\* A closed input ends only after the session: every command it accepted has
\* had its terminal written and the worker has exited
\* (docs/protocol/rpc-sdk-design.md:536).
EofTellsAll == ended = "eof" => worker = "gone" /\ told = accepted

\* A run the server told to end, in a wait that nobody is left to end: a command
\* taken after the flag was raised has lowered it again.
AsksNobody == server = "drain" /\ run = "asking" /\ ~cancel

\* Once the input is closed the process ends, whatever is in flight, but for
\* one thing: a run asks for an approval with the flag low and waits for ever
\* (the finding of session_leave_asking).  Every other wait comes to an end.
ServerExits == inputClosed ~> (server = "done" \/ []AsksNobody)

\* Each request gets exactly one response (docs/protocol/rpc-sdk-design.md:494).
EveryRequestAnswered ==
    ended = "eof" => \A r \in Request : thread[r] \in {"unsent", "written", "answered"}
=============================================================================
