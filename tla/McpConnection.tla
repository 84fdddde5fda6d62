--------------------------- MODULE McpConnection ---------------------------
(***************************************************************************)
(* One MCP server as onemore sees it (mcp/transport.rs, mcp/client.rs):    *)
(* the host thread connects, calls tools one after another (MCP tools are  *)
(* Sequential, so request_gate is never contended) and shuts down; the     *)
(* reader thread routes what the server writes; both write to the server   *)
(* under one lock, into a pipe of PipeCap messages.                        *)
(*                                                                         *)
(* The server reads, answers, asks, makes noise or exits as it likes.  It  *)
(* is the child and what the child started with the same pipes: a wrapper  *)
(* (npx, a shell) may be gone, or killed, and its descendant still there.  *)
(* Payloads are abstracted to what the client distinguishes.               *)
(***************************************************************************)
EXTENDS Naturals, Sequences

CONSTANTS
    MaxCalls,    \* bound: calls the host makes
    MaxPages,    \* MAX_LIST_PAGES
    MaxNoise,    \* MAX_NOISE_LINES
    PipeCap,     \* messages that fit in the server's standard input
    OutCap,      \* lines that fit in its standard output
    ServerReads  \* the server keeps reading its input

ASSUME McpAssumption ==
    /\ MaxCalls \in Nat /\ MaxPages \in Nat \ {0} /\ MaxNoise \in Nat
    /\ PipeCap \in Nat \ {0} /\ OutCap \in Nat \ {0} /\ ServerReads \in BOOLEAN

VARIABLES
    at,        \* the host thread
    op,        \* its request: what it is for
    id,        \* and its id
    page,      \* pages of tools/list received
    calls,     \* calls made
    era,       \* the era of the server
    outcome,   \* what the last call returned
    cancel,    \* the cancel flag of the call is set
    late,      \* the deadline of the wait has passed
    pending,   \* the slots: id -> "waiting" or a response
    failed,    \* the connection has failed, for good
    noise,     \* noise_lines
    writer,    \* "open" or "closed"
    lock,      \* holder of the writer lock: "host", "reader", "none"
    reader,    \* the reader thread: "read", "lock", "reply", "ended"
    input,     \* the server's standard input
    output,    \* its standard output
    server,    \* "up": some process holds the pipes; or "exited"
    tree,      \* what holds these processes together, once it matters
    heard,     \* requests the server has read: id -> what for
    told       \* history: the last two messages the host wrote for this call

hostVars   == <<at, op, id, page, calls, era, outcome>>
sharedVars == <<pending, failed, noise>>
serverVars == <<server, tree, heard>>
vars == <<hostVars, cancel, late, sharedVars, writer, lock, reader, input, output,
          serverVars, told>>

\* What a response says.  ours: a discover result, or an unsupported-version
\* error, that names our version; other: a result of another version, or one
\* call_tool does not support; more: a page with a cursor.
Answer == {"ok", "more", "other", "error", "unsupported", "unsupportedOurs"}
Request == {"discover", "initialize", "list", "call"}

NoMessage == [id |-> 0, for |-> "none"]

Init ==
    /\ at = "register" /\ op = "discover" /\ id = 0 /\ page = 0 /\ calls = 0
    /\ era = "unknown" /\ outcome = "none"
    /\ cancel = FALSE /\ late = FALSE
    /\ pending = <<>> /\ failed = FALSE /\ noise = 0
    /\ writer = "open" /\ lock = "none" /\ reader = "read"
    /\ input = <<>> /\ output = <<>>
    /\ server = "up" /\ tree = "unknown" /\ heard = <<>>
    /\ told = <<NoMessage, NoMessage>>

-----------------------------------------------------------------------------
(* The host thread. *)

Slot(i, v) == [j \in DOMAIN pending \cup {i} |-> IF j = i THEN v ELSE pending[j]]
Without(i) == [j \in DOMAIN pending \ {i} |-> pending[j]]

\* How connect, or a call, ends.
Ends(o) ==
    /\ outcome' = o
    /\ at' = IF op = "call" THEN "idle" ELSE "close"   \* handshake shuts down on an error

\* send_request: a slot, unless the connection has failed.
Register ==
    /\ at = "register"
    /\ id' = id + 1
    /\ IF failed
       THEN Ends("unavailable") /\ UNCHANGED pending
       ELSE /\ pending' = Slot(id + 1, "waiting")
            /\ at' = "lock"
            /\ UNCHANGED outcome
    /\ UNCHANGED <<op, page, calls, era, cancel, late, failed, noise, writer, lock,
                   reader, input, output, serverVars, told>>

\* write_line: the lock, then the write, which waits while the pipe is full.
HostLocks ==
    /\ at = "lock" /\ lock = "none"
    /\ lock' = "host" /\ at' = "write"
    /\ UNCHANGED <<op, id, page, calls, era, outcome, cancel, late, sharedVars, writer, reader,
                   input, output, serverVars, told>>

\* A pipe breaks when nobody holds its other end.
Broken == writer = "closed" \/ server = "exited"

\* What the host writes: its request, or the notification that follows it.
IsRequest == op \in Request
Message == [id |-> id, for |-> op]

\* After a notification: the handshake goes on, an abandoned call returns.
AfterNotification ==
    \/ /\ op = "initialized" /\ era' = "legacy"
       /\ op' = "list" /\ at' = "register"
       /\ UNCHANGED outcome
    \/ /\ op = "cancelled"
       /\ op' = "call" /\ at' = "idle"
       /\ UNCHANGED <<era, outcome>>

HostWrites ==
    /\ at = "write" /\ ~Broken /\ Len(input) < PipeCap
    /\ lock' = "none"
    /\ input' = Append(input, Message) /\ told' = <<told[2], Message>>
    /\ IF IsRequest THEN at' = "wait" /\ UNCHANGED <<op, era, outcome>> ELSE AfterNotification
    /\ UNCHANGED <<id, page, calls, cancel, late, sharedVars, writer, reader, output, serverVars>>

\* A write error fails the connection.  notify_cancelled ignores it.
HostWriteFails ==
    /\ at = "write" /\ Broken
    /\ lock' = "none" /\ failed' = TRUE
    /\ pending' = Without(id)
    /\ IF op = "cancelled" THEN op' = "call" /\ at' = "idle" /\ UNCHANGED outcome
       ELSE Ends("unavailable") /\ UNCHANGED op
    /\ UNCHANGED <<id, page, calls, era, cancel, late, noise, writer, reader, input,
                   output, serverVars, told>>

\* The next request of the handshake, or the end of it.
Goes(next) == op' = next /\ at' = "register" /\ UNCHANGED outcome
Ready == op' = "call" /\ at' = "idle" /\ outcome' = "ready"
Fails(o) == Ends(o) /\ UNCHANGED op

\* detect_era: a modern server is never asked to initialize.
DiscoverReturns(r) ==
    \/ r \in {"ok", "unsupportedOurs"} /\ era' = "modern" /\ Goes("list")
    \/ r \in {"more", "other", "unsupported"} /\ Fails("incompatible") /\ UNCHANGED era
    \/ r \in {"error", "timeout"} /\ Goes("initialize") /\ UNCHANGED era

\* legacy_initialize: the version must be one of ours; then a notification.
InitializeReturns(r) ==
    /\ \/ r \in {"ok", "more"} /\ op' = "initialized" /\ at' = "lock" /\ UNCHANGED outcome
       \/ r \notin {"ok", "more"} /\ Fails("rejected")
    /\ UNCHANGED era

\* list_tools: another page while the server has one, up to the bound.
ListReturns(r) ==
    /\ \/ r = "more" /\ page + 1 < MaxPages /\ Goes("list")
       \/ (r = "ok" \/ (r = "more" /\ page + 1 = MaxPages)) /\ Ready
       \/ r \notin {"ok", "more"} /\ Fails("rejected")
    /\ UNCHANGED era

\* parse_call_result, CallFailure.
CallReturns(r) ==
    /\ Fails(IF r \in {"ok", "more"} THEN "result" ELSE IF r = "other" THEN "protocol" ELSE "rpc")
    /\ UNCHANGED era

\* What the client makes of an answer, or of its absence during the handshake.
Continue(r) ==
    \/ op = "discover" /\ DiscoverReturns(r) /\ UNCHANGED page
    \/ op = "initialize" /\ InitializeReturns(r) /\ UNCHANGED page
    \/ op = "list" /\ ListReturns(r) /\ page' = page + 1
    \/ op = "call" /\ CallReturns(r) /\ UNCHANGED page

\* An abandoned call: its slot is gone, the server is told.
Abandon(o) ==
    /\ op = "call"
    /\ op' = "cancelled" /\ at' = "lock" /\ outcome' = o
    /\ UNCHANGED <<page, era>>

\* Mutant of Expired: no deadline.
NeverExpires == FALSE

Expired == late

Answered == id \in DOMAIN pending /\ pending[id] # "waiting"

\* wait_response looks for the answer, the failure, the cancellation and the
\* deadline, in this order; a deadline of the probe leaves the later one.
Wait ==
    /\ at = "wait"
    /\ \/ /\ Answered
          /\ Continue(pending[id])
          /\ late' = (late /\ op # "call")
       \/ /\ ~Answered /\ failed
          /\ Fails("unavailable")
          /\ late' = FALSE
          /\ UNCHANGED <<page, era>>
       \/ /\ ~Answered /\ ~failed /\ cancel
          /\ Abandon("aborted")
          /\ late' = FALSE
       \/ /\ ~Answered /\ ~failed /\ ~cancel /\ Expired
          /\ IF op = "call" THEN Abandon("timeout") ELSE Continue("timeout")
          /\ late' = (op \notin {"discover", "call"})
    /\ pending' = Without(id)
    /\ cancel' = FALSE
    /\ UNCHANGED <<id, calls, failed, noise, writer, lock, reader, input, output,
                   serverVars, told>>

\* call_tool looks for a failure before it takes an id.
StartCall ==
    /\ at = "idle" /\ calls < MaxCalls
    /\ calls' = calls + 1
    /\ told' = <<NoMessage, NoMessage>>
    /\ IF failed THEN outcome' = "unavailable" /\ UNCHANGED at
       ELSE at' = "register" /\ outcome' = "none"
    /\ UNCHANGED <<op, id, page, era, cancel, late, sharedVars, writer, lock, reader, input, output,
                   serverVars>>

-----------------------------------------------------------------------------
(* Shutdown: close the input, wait for the exit or kill, join the reader. *)

HostCloses ==
    /\ at = "idle"
    /\ at' = "close"
    /\ outcome' = "none" /\ told' = <<NoMessage, NoMessage>>
    /\ UNCHANGED <<op, id, page, calls, era, cancel, late, sharedVars, writer, lock,
                   reader, input, output, serverVars>>

CloseInput ==
    /\ at = "close" /\ lock = "none"
    /\ writer' = "closed"
    /\ at' = "reap"
    /\ UNCHANGED <<op, id, page, calls, era, outcome, cancel, late, sharedVars, lock, reader,
                   input, output, serverVars, told>>

Trees == {"job", "other"}

\* The child has exited, or is killed after the grace period.  Its job, which is
\* dropped here, ends every process in it; taskkill does if it finds the child,
\* and the kill of the child alone leaves the others (process.rs:85-97).
Reap ==
    /\ at = "reap"
    /\ tree' \in Trees
    /\ server' \in IF tree' = "job" THEN {"exited"} ELSE {server, "exited"}
    /\ at' = "join"
    /\ UNCHANGED <<op, id, page, calls, era, outcome, cancel, late, sharedVars, writer, lock, reader,
                   input, output, heard, told>>

\* The reader of stdout, then that of stderr, which ends when nobody holds it.
Join ==
    /\ at = "join" /\ reader = "ended" /\ server = "exited"
    /\ at' = "closed" /\ failed' = TRUE
    /\ UNCHANGED <<op, id, page, calls, era, outcome, cancel, late, pending, noise,
                   writer, lock, reader, input, output, serverVars, told>>

Host == \/ Register \/ HostLocks \/ HostWrites \/ HostWriteFails \/ Wait
        \/ CloseInput \/ Reap \/ Join

-----------------------------------------------------------------------------
(* The reader thread. *)

ReaderUnchanged == UNCHANGED <<hostVars, cancel, late, writer, serverVars, told>>

\* Mutant of Deliver: an answer nobody waits for is kept.
DeliverAlways(line) == pending' = Slot(line.id, line.answer)

\* A late answer finds no slot.
Deliver(line) ==
    pending' = IF line.id \in DOMAIN pending THEN Slot(line.id, line.answer) ELSE pending

ReadLine ==
    /\ reader = "read" /\ output # <<>>
    /\ output' = Tail(output)
    /\ LET line == Head(output) IN
       \/ /\ line.kind = "response"
          /\ Deliver(line)
          /\ UNCHANGED <<failed, noise, reader>>
       \/ /\ line.kind = "notification"
          /\ UNCHANGED <<pending, failed, noise, reader>>
       \/ /\ line.kind = "request"
          /\ reader' = "lock"
          /\ UNCHANGED <<pending, failed, noise>>
       \/ /\ line.kind = "tooLong"
          /\ failed' = TRUE /\ reader' = "ended"
          /\ UNCHANGED <<pending, noise>>
       \/ /\ line.kind = "noise"
          /\ noise' = noise + 1
          /\ failed' = (failed \/ noise + 1 > MaxNoise)
          /\ reader' = IF noise + 1 > MaxNoise THEN "ended" ELSE "read"
          /\ UNCHANGED pending
    /\ UNCHANGED <<lock, input>> /\ ReaderUnchanged

\* The end of the output.
ReadFails ==
    /\ reader = "read"
    /\ output = <<>> /\ server = "exited"
    /\ failed' = TRUE /\ reader' = "ended"
    /\ UNCHANGED <<pending, noise, lock, input, output>> /\ ReaderUnchanged

\* The reply to a request of the server; an error of the write is ignored.
ReaderLocks ==
    /\ reader = "lock" /\ lock = "none"
    /\ lock' = "reader" /\ reader' = "reply"
    /\ UNCHANGED <<sharedVars, input, output>> /\ ReaderUnchanged

ReaderReplies ==
    /\ reader = "reply"
    /\ \/ Broken /\ UNCHANGED input
       \/ /\ ~Broken /\ Len(input) < PipeCap
          /\ input' = Append(input, [id |-> 0, for |-> "reply"])
    /\ lock' = "none" /\ reader' = "read"
    /\ UNCHANGED <<sharedVars, output>> /\ ReaderUnchanged

Reader == ReadLine \/ ReadFails \/ ReaderLocks \/ ReaderReplies

-----------------------------------------------------------------------------
(* The server, the user and the clock. *)

ServerUnchanged ==
    UNCHANGED <<hostVars, cancel, late, sharedVars, writer, lock, reader, told>>

ServerTakes ==
    /\ server = "up" /\ input # <<>>
    /\ input' = Tail(input)
    /\ heard' = IF Head(input).for \in Request
                THEN [i \in DOMAIN heard \cup {Head(input).id} |->
                        IF i = Head(input).id THEN Head(input).for ELSE heard[i]]
                ELSE heard
    /\ UNCHANGED <<output, server, tree>> /\ ServerUnchanged

\* What a response to each request may say.
May == [discover |-> {"ok", "other", "error", "unsupported", "unsupportedOurs"},
        initialize |-> {"ok", "other", "error"},
        list |-> {"ok", "more", "error"},
        call |-> {"ok", "other", "error"}]

\* It writes what it likes, also an answer twice, or one nobody waits for.
ServerWrites ==
    /\ server = "up" /\ Len(output) < OutCap
    /\ \E line \in [kind : {"notification", "request", "noise", "tooLong"}, id : {0}, answer : {"error"}]
                   \cup UNION {[kind : {"response"}, id : {i}, answer : May[heard[i]]] :
                               i \in DOMAIN heard} :
          output' = Append(output, line)
    /\ UNCHANGED <<input, serverVars>> /\ ServerUnchanged

\* The last of its processes.
ServerExits ==
    /\ server = "up"
    /\ server' = "exited"
    /\ UNCHANGED <<input, output, tree, heard>> /\ ServerUnchanged

UserCancels ==
    /\ op = "call" /\ at \in {"register", "lock", "write", "wait"} /\ ~cancel
    /\ cancel' = TRUE
    /\ UNCHANGED <<hostVars, late, sharedVars, writer, lock, reader, input, output, serverVars,
                   told>>

DeadlinePasses ==
    /\ at = "wait" /\ ~late
    /\ late' = TRUE
    /\ UNCHANGED <<hostVars, cancel, sharedVars, writer, lock, reader, input, output, serverVars,
                   told>>

Closed == at = "closed" /\ UNCHANGED vars

Next ==
    \/ Host \/ StartCall \/ HostCloses \/ Reader
    \/ ServerTakes \/ ServerWrites \/ ServerExits
    \/ UserCancels \/ DeadlinePasses \/ Closed

Spec == Init /\ [][Next]_vars

(***************************************************************************)
(* The two threads go on and the clock does; the lock, which the reader    *)
(* lets go between any two lines, is not always the reader's.  The server  *)
(* owes nothing, except that it may be known to read its input.            *)
(***************************************************************************)
Fairness ==
    /\ WF_vars(Host) /\ SF_vars(HostLocks) /\ SF_vars(CloseInput)
    /\ WF_vars(Reader) /\ WF_vars(DeadlinePasses)
    /\ ServerReads => WF_vars(ServerTakes)

FairSpec == Spec /\ Fairness

-----------------------------------------------------------------------------
(* Properties. *)

TypeOK ==
    /\ at \in {"register", "lock", "write", "wait", "idle", "close", "reap", "join", "closed"}
    /\ op \in Request \cup {"initialized", "cancelled"}
    /\ id \in Nat /\ page \in 0..MaxPages /\ calls \in 0..MaxCalls
    /\ era \in {"unknown", "modern", "legacy"}
    /\ outcome \in {"none", "ready", "incompatible", "rejected", "unavailable", "result",
                    "protocol", "rpc", "aborted", "timeout"}
    /\ \A i \in DOMAIN pending : i \in Nat /\ pending[i] \in Answer \cup {"waiting"}
    /\ {failed, cancel, late} \subseteq BOOLEAN /\ noise \in 0..MaxNoise + 1
    /\ writer \in {"open", "closed"} /\ lock \in {"none", "host", "reader"}
    /\ reader \in {"read", "lock", "reply", "ended"}
    /\ Len(input) <= PipeCap
    /\ server \in {"up", "exited"} /\ tree \in Trees \cup {"unknown"}
    /\ Len(output) <= OutCap

\* The slots are those of the one request in flight: a late answer, a duplicate
\* or a failure leaves none behind.
SlotsBalanced ==
    DOMAIN pending = IF at = "wait" \/ (at \in {"lock", "write"} /\ IsRequest) THEN {id} ELSE {}

\* An answer is never taken for another's: the one wait_response finds is one the
\* server may give to what this very id asked of it.
AnswerFits ==
    at = "wait" /\ Answered =>
        id \in DOMAIN heard /\ heard[id] = op /\ pending[id] \in May[op]

\* A call that gave up is reported to the server before anything else is asked
\* of it, and only such a call is.
CancelTold ==
    /\ told[2].for = "cancelled" => told[1] = [id |-> told[2].id, for |-> "call"]
    /\ (at = "idle" /\ outcome \in {"aborted", "timeout"} /\ ~failed) =>
          told[2] = [id |-> id, for |-> "cancelled"]

\* The connection (send_request, wait_response, call_tool).
ConnectionSound == TypeOK /\ SlotsBalanced /\ AnswerFits /\ CancelTold

\* The wait of a shutdown that has no end: the child is gone and a descendant of
\* it, which no job held, keeps the pipes open (transport.rs:290-295).
HeldOpen == at = "join" /\ server = "up" /\ tree # "job"

\* A call, and the handshake, return: by an answer, a failure, the user or the
\* deadline.  The write that comes first has none of these, and a handshake that
\* fails shuts down.
RequestsReturn ==
    (at \in {"register", "lock", "write", "wait"}) ~> (at \in {"idle", "closed"} \/ []HeldOpen)

\* shutdown returns, whatever the server does, with all its processes in a job
\* and without, unless a descendant outlives the child with the pipes in hand.
ShutdownReturns == (at = "close") ~> (at = "closed" \/ []HeldOpen)

\* Both, for a server that reads its input.
ConnectionReturns == RequestsReturn /\ ShutdownReturns
=============================================================================
