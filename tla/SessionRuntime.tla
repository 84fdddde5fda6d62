--------------------------- MODULE SessionRuntime ---------------------------
(***************************************************************************)
(* One agent session: the threads that call SessionController              *)
(* (sdk/controller.rs), the bounded command channel, and the worker thread *)
(* that takes commands from it and drives agent runs                       *)
(* (runtime/session_runtime.rs, runtime/agent_loop.rs, agent_loop.rs).     *)
(*                                                                         *)
(* Every command is one call by one thread; the constant Kind says which   *)
(* operation it calls.  "detached" is the front end leaving: cancel_now    *)
(* followed by send_detached(Shutdown), which carries no command id and    *)
(* gets no receipt (rpc.rs at stdin EOF, tui/mod.rs at exit).  "mutate"    *)
(* stands for the commands the worker executes in one go when idle         *)
(* (clear, load, list, model selection, reload, MCP status).               *)
(*                                                                         *)
(* Conversation contents are abstracted: a model reply is "text" or "tool  *)
(* calls", a commit succeeds or fails.  The snapshot keeps its phase only. *)
(***************************************************************************)
EXTENDS Naturals, Sequences, Functions

CONSTANTS
    Command,    \* the commands submitted in the session's lifetime
    Kind,       \* [Command -> Kinds], the operation each command calls
    Capacity,   \* capacity of the command channel (COMMAND_QUEUE_CAPACITY)
    MaxTurns,   \* model calls one run may make (Agent::max_turns)
    MayAsk,     \* whether the permission policy may ask the user
    None        \* no command

Inputs   == {"prompt", "steer", "follow_up"}
Controls == {"abort", "shutdown", "detached"}
Kinds    == Inputs \cup Controls \cup {"compact", "mutate"}

ASSUME SessionAssumption ==
    /\ Kind \in [Command -> Kinds]
    /\ Capacity \in Nat \ {0}
    /\ MaxTurns \in Nat
    /\ MayAsk \in BOOLEAN
    /\ None \notin Command

VARIABLES
    caller,       \* where the thread that issues each command stands
    chan,         \* the command channel, oldest first
    admission,    \* the answer each command's one-shot admission channel carries
    cancel,       \* the session's shared cancel flag
    phase,        \* SessionShared.snapshot.phase
    disconnected, \* SessionShared.disconnected
    connected,    \* the consumer still holds SessionEvents
    held,         \* some SessionController is still alive
    worker,       \* control point of the worker thread
    cur,          \* the command the worker is executing
    round,        \* model calls the run has used
    steering,     \* RunQueues.steering
    followUp,     \* RunQueues.follow_up
    processed,    \* RunReport.processed_command_ids
    dropped,      \* RunReport.cancelled_command_ids
    control,      \* RunReport.control_command_ids
    cancelled,    \* the run (or compaction) reports that it was cancelled
    failed,       \* an Error event was emitted while executing cur
    stopping,     \* the worker will not take another command
    unread,       \* committed inputs no model call has been given yet
    terminals,    \* CommandFinished statuses sent so far, per command
    settled       \* Settled events sent so far

callVars   == <<caller, held>>
frontVars  == <<connected, held>>
queueVars  == <<steering, followUp>>
reportVars == <<processed, dropped, control>>
flagVars   == <<cancelled, failed, stopping>>
eventVars  == <<terminals, settled>>
sharedVars == <<chan, admission, phase, disconnected>>
vars == <<caller, chan, admission, cancel, phase, disconnected, connected,
          held, worker, cur, round, steering, followUp, processed, dropped,
          control, cancelled, failed, stopping, unread, terminals, settled>>

Statuses   == {"succeeded", "failed", "cancelled"}
Answers    == {"accepted", "busy", "disconnected"}
Phases     == {"idle", "running", "waiting_approval", "compacting", "shutting_down"}
PollPoints == {"poll_stop", "poll_end", "poll_tools"}
RunPoints  == PollPoints \cup {"round", "prepare", "model", "stop", "tools",
                              "approval", "batch", "drain", "cleanup"}
Points     == RunPoints \cup {"recv", "begin", "admit", "handle", "compact", "main",
                             "results", "snapshot", "settle", "exit", "drop", "gone"}

IsInput(c)   == Kind[c] \in Inputs
IsControl(c) == Kind[c] \in Controls
HasId(c)     == Kind[c] # "detached"

\* The front end has left: it starts no call and answers no approval any more.
FrontLeft == \E c \in Command : ~HasId(c) /\ caller[c] # "idle"

Init ==
    /\ caller = [c \in Command |-> "idle"]
    /\ chan = <<>>
    /\ admission = [c \in Command |-> "none"]
    /\ cancel = FALSE
    /\ phase = "idle"
    /\ disconnected = FALSE
    /\ connected = TRUE
    /\ held = TRUE
    /\ worker = "recv"
    /\ cur = None
    /\ round = 0
    /\ steering = <<>> /\ followUp = <<>>
    /\ processed = {} /\ dropped = {} /\ control = {}
    /\ cancelled = FALSE /\ failed = FALSE /\ stopping = FALSE
    /\ unread = {}
    /\ terminals = [c \in Command |-> <<>>]
    /\ settled = 0

-----------------------------------------------------------------------------
(* The calling threads.                                                    *)

workerVars == <<phase, disconnected, worker, cur, round, queueVars, reportVars,
                flagVars, unread, eventVars>>

\* A front end issues command c: the call, or the request thread, starts.
Call(c) ==
    /\ held /\ ~FrontLeft
    /\ caller[c] = "idle"
    /\ caller' = [caller EXCEPT ![c] = "called"]
    /\ UNCHANGED <<chan, admission, cancel, frontVars, workerVars>>

\* abort, shutdown and cancel_now raise the cancel flag before their command travels.
Signal(c) ==
    /\ caller[c] = "called" /\ IsControl(c)
    /\ caller' = [caller EXCEPT ![c] = "signalled"]
    /\ cancel' = TRUE
    /\ UNCHANGED <<chan, admission, frontVars, workerVars>>

ReadyToSend(c) == caller[c] = (IF IsControl(c) THEN "signalled" ELSE "called")

\* The blocking send on the bounded channel.  The disconnected flag was read
\* earlier, so the send may still reach a worker that has begun to exit.
Send(c) ==
    /\ ReadyToSend(c)
    /\ worker # "gone"
    /\ Len(chan) < Capacity
    /\ chan' = Append(chan, c)
    /\ caller' = [caller EXCEPT ![c] = "sent"]
    /\ UNCHANGED <<admission, cancel, frontVars, workerVars>>

\* is_disconnected, or a send on a channel without receiver; send_detached skips the former.
SendFails(c) ==
    /\ ReadyToSend(c)
    /\ worker = "gone" \/ (disconnected /\ HasId(c))
    /\ caller' = [caller EXCEPT ![c] = "sent"]
    /\ admission' = IF HasId(c) THEN [admission EXCEPT ![c] = "disconnected"] ELSE admission
    /\ UNCHANGED <<chan, cancel, frontVars, workerVars>>

Returned(c) == caller[c] = "sent" /\ (HasId(c) => admission[c] # "none")

\* The last controller is dropped, which no thread can do while a call is under way.
DropControllers ==
    /\ held
    /\ \A c \in Command : caller[c] = "idle" \/ Returned(c)
    /\ held' = FALSE
    /\ UNCHANGED <<caller, chan, admission, cancel, connected, workerVars>>

\* Drop for SessionEvents.
DropEvents ==
    /\ connected
    /\ connected' = FALSE
    /\ cancel' = TRUE
    /\ UNCHANGED <<callVars, chan, admission, workerVars>>

-----------------------------------------------------------------------------
(* The worker takes a command, admits it and dispatches it.                *)

Goto(point) == worker' = point

\* Mutant: an abort or shutdown met by a run is executed but not answered.
AcceptInputsOnly(c) ==
    IF HasId(c) /\ ~IsControl(c) THEN [admission EXCEPT ![c] = "accepted"] ELSE admission

Accept(c) == IF HasId(c) THEN [admission EXCEPT ![c] = "accepted"] ELSE admission
\* Mutant: a command a busy session turns away is kept instead of answered.
RejectLater(c) == admission

Reject(c) == IF HasId(c) THEN [admission EXCEPT ![c] = "busy"] ELSE admission

\* Blocking receive; every command but Abort and Shutdown lowers the cancel flag.
Recv ==
    /\ worker = "recv" /\ chan # <<>>
    /\ cur' = Head(chan)
    /\ chan' = Tail(chan)
    /\ cancel' = (cancel /\ IsControl(cur'))
    /\ processed' = {} /\ dropped' = {} /\ control' = {}
    /\ cancelled' = FALSE /\ failed' = FALSE
    /\ Goto("begin")
    /\ UNCHANGED <<callVars, connected, admission, phase, disconnected, round, queueVars,
                   stopping, unread, eventVars>>

\* recv fails once every sender is gone.
RecvClosed ==
    /\ worker = "recv" /\ chan = <<>> /\ ~held
    /\ Goto("exit")
    /\ UNCHANGED <<callVars, connected, sharedVars, cancel, cur, round, queueVars, reportVars,
                   flagVars, unread, eventVars>>

\* Mutant: an abort that finds the session idle leaves it idle.
CommandPhaseLazy(kind) ==
    CASE kind = "abort" -> "idle"
      [] kind = "compact" -> "compacting"
      [] kind \in {"shutdown", "detached"} -> "shutting_down"
      [] OTHER -> "running"

CommandPhase(kind) ==
    CASE kind = "compact" -> "compacting"
      [] kind \in {"shutdown", "detached"} -> "shutting_down"
      [] OTHER -> "running"

\* The shared snapshot leaves idle before the caller can hold a receipt.
UpdateLive ==
    /\ worker = "begin"
    /\ phase' = CommandPhase(Kind[cur])
    /\ Goto("admit")
    /\ UNCHANGED <<callVars, connected, chan, admission, disconnected, cancel, cur, round,
                   queueVars, reportVars, flagVars, unread, eventVars>>

\* The receipt, then the snapshot event; without a consumer the worker leaves.
Admit ==
    /\ worker = "admit"
    /\ admission' = Accept(cur)
    /\ IF connected
       THEN Goto("handle") /\ UNCHANGED cancel
       ELSE Goto("exit") /\ cancel' = TRUE
    /\ UNCHANGED <<callVars, connected, chan, phase, disconnected, cur, round,
                   queueVars, reportVars, flagVars, unread, eventVars>>

\* run_turn: the input is committed and the loop starts, unless the commit
\* fails or a prompt hook blocks the run.
HandleInput ==
    /\ worker = "handle" /\ IsInput(cur)
    /\ round' = 0
    /\ \/ /\ Goto("round")
          /\ unread' = {cur}
          /\ UNCHANGED failed
       \/ /\ Goto("main")
          /\ failed' = TRUE
          /\ UNCHANGED unread
    /\ UNCHANGED <<callVars, connected, sharedVars, cancel, cur, queueVars, reportVars,
                   cancelled, stopping, eventVars>>

HandleControl ==
    /\ worker = "handle" /\ IsControl(cur)
    /\ IF Kind[cur] = "abort"
       THEN cancel' = TRUE /\ UNCHANGED stopping
       ELSE stopping' = TRUE /\ UNCHANGED cancel
    /\ Goto("main")
    /\ UNCHANGED <<callVars, connected, sharedVars, cur, round, queueVars, reportVars,
                   cancelled, failed, unread, eventVars>>

\* Manual compaction calls the model; its result is applied when it returns.
HandleCompact ==
    /\ worker = "handle" /\ Kind[cur] = "compact"
    /\ Goto("compact")
    /\ UNCHANGED <<callVars, connected, sharedVars, cancel, cur, round, queueVars, reportVars,
                   flagVars, unread, eventVars>>

CompactReturns ==
    /\ worker = "compact"
    /\ phase' = "running"
    /\ \/ UNCHANGED <<cancelled, failed>>
       \/ failed' = TRUE /\ UNCHANGED cancelled
       \/ cancel /\ cancelled' = TRUE /\ UNCHANGED failed
    /\ Goto("main")
    /\ UNCHANGED <<callVars, connected, chan, admission, disconnected, cancel, cur, round,
                   queueVars, reportVars, stopping, unread, eventVars>>

HandleMutate ==
    /\ worker = "handle" /\ Kind[cur] = "mutate"
    /\ failed' \in BOOLEAN
    /\ Goto("main")
    /\ UNCHANGED <<callVars, connected, sharedVars, cancel, cur, round, queueVars, reportVars,
                   cancelled, stopping, unread, eventVars>>

-----------------------------------------------------------------------------
(* The run: run_agent_loop with the stateful host.                         *)

runFrame == <<callVars, connected, disconnected, cur, stopping, eventVars>>
quiet    == <<runFrame, chan, admission, phase, cancel, queueVars, reportVars>>

\* Leave the loop; only a cancelled run drains the channel.
Finish(isCancelled) ==
    /\ cancelled' = isCancelled
    /\ Goto(IF isCancelled THEN "drain" ELSE "cleanup")
    /\ UNCHANGED <<round, unread>>

\* An Error event ends the run.
FailRun(isCancelled) == failed' = TRUE /\ Finish(isCancelled)

NextRound == round' = round + 1 /\ Goto("round") /\ UNCHANGED <<cancelled, failed>>

\* Mutant: the round starts without a look at the cancel flag.
StartRoundUnchecked ==
    /\ worker = "round"
    /\ \/ round = MaxTurns /\ Finish(FALSE)
       \/ round < MaxTurns /\ Goto("prepare") /\ UNCHANGED <<round, unread, cancelled>>
    /\ UNCHANGED <<quiet, failed>>

StartRound ==
    /\ worker = "round"
    /\ \/ round = MaxTurns /\ Finish(FALSE)
       \/ round < MaxTurns /\ cancel /\ Finish(TRUE)
       \/ round < MaxTurns /\ ~cancel /\ Goto("prepare") /\ UNCHANGED <<round, unread, cancelled>>
    /\ UNCHANGED <<quiet, failed>>

\* Prompt assembly, with automatic compaction, may fail or refuse.
PreparePrompt ==
    /\ worker = "prepare"
    /\ \/ FailRun(cancel)
       \/ /\ Goto("model")
          /\ unread' = {}
          /\ UNCHANGED <<round, cancelled, failed>>
    /\ UNCHANGED quiet

\* The provider returns a terminal: aborted, failed (or an invalid tool call), text, calls.
ModelReturns ==
    /\ worker = "model"
    /\ \/ cancel /\ FailRun(TRUE)
       \/ FailRun(FALSE)
       \/ \E next \in {"stop", "tools"} :
             Goto(next) /\ UNCHANGED <<round, unread, cancelled, failed>>
    /\ UNCHANGED quiet

\* intercept_stop: a stop hook may demand another round.
InterceptStop ==
    /\ worker = "stop"
    /\ \/ NextRound /\ UNCHANGED unread
       \/ FailRun(FALSE)
       \/ Goto("poll_stop") /\ UNCHANGED <<round, unread, cancelled, failed>>
    /\ UNCHANGED quiet

\* Mutant: a shutdown with a command id is only an abort to a run.
StopsWithoutId(c) == Kind[c] = "detached"

\* The commands after which a run lets the worker take no other.
Stops(c) == Kind[c] \in {"shutdown", "detached"}

\* poll_queues, and the drain of a cancelled finish, on the oldest command.
Absorb ==
    /\ worker \in PollPoints \cup {"drain"} /\ chan # <<>>
    /\ LET c == Head(chan)
           kind == Kind[c]
       IN /\ chan' = Tail(chan)
          /\ admission' = IF kind \in {"prompt", "compact", "mutate"}
                          THEN Reject(c) ELSE Accept(c)
          /\ steering' = IF kind = "steer" THEN Append(steering, c) ELSE steering
          /\ followUp' = IF kind = "follow_up" THEN Append(followUp, c) ELSE followUp
          /\ cancel' = (cancel \/ IsControl(c))
          /\ stopping' = (stopping \/ Stops(c))
          /\ control' = IF IsControl(c) /\ HasId(c) THEN control \cup {c} ELSE control
    /\ UNCHANGED <<callVars, connected, phase, disconnected, worker, cur, round, processed,
                   dropped, cancelled, failed, unread, eventVars>>

\* prepare_next_turn (planning reminder), else commit_terminal_turn.
AfterStop ==
    /\ worker = "poll_stop" /\ chan = <<>>
    /\ \/ /\ steering = <<>> /\ followUp = <<>> /\ round + 1 < MaxTurns
          /\ NextRound /\ UNCHANGED unread
       \/ FailRun(FALSE)
       \/ Goto("poll_end") /\ UNCHANGED <<round, unread, cancelled, failed>>
    /\ UNCHANGED quiet

\* The next queued input is popped; it is committed, unless that fails.
CommitInput(c) ==
    \/ NextRound /\ unread' = unread \cup {c}
    \/ FailRun(FALSE)

\* take_steering, else take_follow_up; a raised cancel flag leaves the input uncommitted.
TakeInput ==
    /\ worker = "poll_end" /\ chan = <<>>
    /\ \/ /\ steering # <<>>
          /\ steering' = Tail(steering) /\ UNCHANGED followUp
          /\ processed' = processed \cup {Head(steering)}
          /\ IF cancel THEN Finish(TRUE) /\ UNCHANGED failed ELSE CommitInput(Head(steering))
       \/ /\ steering = <<>> /\ followUp # <<>>
          /\ followUp' = Tail(followUp) /\ UNCHANGED steering
          /\ processed' = processed \cup {Head(followUp)}
          /\ IF cancel THEN Finish(TRUE) /\ UNCHANGED failed ELSE CommitInput(Head(followUp))
       \/ /\ steering = <<>> /\ followUp = <<>>
          /\ Finish(cancel)
          /\ UNCHANGED <<queueVars, processed, failed>>
    /\ UNCHANGED <<runFrame, chan, admission, phase, cancel, dropped, control>>

\* request_approval, before the batch runs: waits for the user or the cancel flag, with
\* no deadline.  One request stands for those of the whole batch.
AskApproval ==
    /\ worker = "tools" /\ MayAsk /\ ~cancel
    /\ phase' = "waiting_approval"
    /\ Goto("approval")
    /\ UNCHANGED <<runFrame, chan, admission, cancel, queueVars, reportVars, round, unread,
                   cancelled, failed>>

ApprovalResolved ==
    /\ worker = "approval"
    /\ phase' = "running"
    /\ Goto("batch")
    /\ UNCHANGED <<runFrame, chan, admission, cancel, queueVars, reportVars, round, unread,
                   cancelled, failed>>

ApprovalCancelled == cancel /\ ApprovalResolved

\* The front end answers the pending request.
RespondToApproval == ~FrontLeft /\ connected /\ ApprovalResolved

\* The batch is over and committed with its results, or the commit fails.
ToolsDone ==
    /\ worker \in {"tools", "batch"}
    /\ \/ FailRun(cancel)
       \/ cancel /\ Finish(TRUE) /\ UNCHANGED failed
       \/ ~cancel /\ Finish(FALSE) /\ UNCHANGED failed
       \/ ~cancel /\ Goto("poll_tools") /\ UNCHANGED <<round, unread, cancelled, failed>>
    /\ UNCHANGED quiet

\* Steering enters between the tool batch and the next model call.
InjectSteering ==
    /\ worker = "poll_tools" /\ chan = <<>>
    /\ \/ /\ steering # <<>>
          /\ steering' = Tail(steering)
          /\ processed' = processed \cup {Head(steering)}
          /\ CommitInput(Head(steering))
       \/ /\ steering = <<>>
          /\ NextRound
          /\ UNCHANGED <<steering, processed, unread>>
    /\ UNCHANGED <<runFrame, chan, admission, phase, cancel, followUp, dropped, control>>

\* End of the drain: repairing the plan of a cancelled run may fail.
RepairPlan ==
    /\ worker = "drain" /\ chan = <<>>
    /\ failed' \in {failed, TRUE}
    /\ Goto("cleanup")
    /\ UNCHANGED <<quiet, round, unread, cancelled>>

\* Mutant: steering inputs the run never reached are forgotten.
UnreachedFollowUps == Range(followUp)

Unreached == Range(steering) \cup Range(followUp)

\* Inputs still queued are cancelled.
DropQueues ==
    /\ worker = "cleanup"
    /\ dropped' = Unreached
    /\ steering' = <<>> /\ followUp' = <<>>
    /\ Goto("main")
    /\ UNCHANGED <<runFrame, chan, admission, phase, cancel, processed, control, round, unread,
                   cancelled, failed>>

-----------------------------------------------------------------------------
(* The worker reports, publishes the idle snapshot and settles.            *)

reportFrame == <<callVars, connected, chan, admission, disconnected, cur, round, queueVars,
                 flagVars, unread>>

\* send_event on a closed channel raises the cancel flag and ends the worker.
Leave == cancel' = TRUE /\ Goto("exit")

RunStatus == IF cancelled THEN "cancelled" ELSE IF failed THEN "failed" ELSE "succeeded"

Emit(c, status) == terminals' = [terminals EXCEPT ![c] = Append(@, status)]

FinishMain ==
    /\ worker = "main"
    /\ IF HasId(cur) /\ ~connected
       THEN Leave /\ UNCHANGED terminals
       ELSE /\ Goto("results")
            /\ UNCHANGED cancel
            /\ IF HasId(cur) THEN Emit(cur, RunStatus) ELSE UNCHANGED terminals
    /\ UNCHANGED <<reportFrame, phase, reportVars, settled>>

\* emit_run_command_results: processed inputs, then cancelled ones, then controls.
ReportOne ==
    \/ \E c \in processed :
          /\ processed' = processed \ {c}
          /\ Emit(c, RunStatus)
          /\ UNCHANGED <<dropped, control>>
    \/ \E c \in dropped :
          /\ processed = {}
          /\ dropped' = dropped \ {c}
          /\ Emit(c, "cancelled")
          /\ UNCHANGED <<processed, control>>
    \/ \E c \in control :
          /\ processed = {} /\ dropped = {}
          /\ control' = control \ {c}
          /\ Emit(c, "succeeded")
          /\ UNCHANGED <<processed, dropped>>

\* Mutant: only the inputs a run has read hold back the end of the report.
InputsReported == processed = {}

AllReported == processed = {} /\ dropped = {} /\ control = {}

ReportResults ==
    /\ worker = "results"
    /\ \/ /\ ~AllReported /\ connected
          /\ ReportOne
          /\ UNCHANGED <<worker, cancel>>
       \/ /\ ~AllReported /\ ~connected
          /\ Leave
          /\ UNCHANGED <<reportVars, terminals>>
       \/ /\ AllReported
          /\ Goto("snapshot")
          /\ UNCHANGED <<cancel, reportVars, terminals>>
    /\ UNCHANGED <<reportFrame, phase, settled>>

\* replace_snapshot wakes wait_until_settled; then the snapshot event is sent.
PublishSnapshot ==
    /\ worker = "snapshot"
    /\ phase' = IF stopping THEN "shutting_down" ELSE "idle"
    /\ IF connected THEN Goto("settle") /\ UNCHANGED cancel ELSE Leave
    /\ UNCHANGED <<reportFrame, reportVars, eventVars>>

Settle ==
    /\ worker = "settle"
    /\ \/ stopping /\ Goto("exit") /\ UNCHANGED <<cancel, settled>>
       \/ ~stopping /\ connected /\ Goto("recv") /\ settled' = settled + 1 /\ UNCHANGED cancel
       \/ ~stopping /\ ~connected /\ Leave /\ UNCHANGED settled
    /\ UNCHANGED <<reportFrame, phase, reportVars, terminals>>

\* The worker's last act, before its receiver is dropped.
MarkDisconnected ==
    /\ worker = "exit"
    /\ cancel' = TRUE
    /\ disconnected' = TRUE
    /\ Goto("drop")
    /\ UNCHANGED <<callVars, connected, chan, admission, phase, cur, round, queueVars,
                   reportVars, flagVars, unread, eventVars>>

\* Dropping the receiver drops the admission channel of every command left in it.
DropReceiver ==
    /\ worker = "drop"
    /\ chan' = <<>>
    /\ admission' = [c \in Command |->
                        IF c \in Range(chan) /\ HasId(c) THEN "disconnected" ELSE admission[c]]
    /\ Goto("gone")
    /\ UNCHANGED <<callVars, connected, phase, disconnected, cancel, cur, round, queueVars,
                   reportVars, flagVars, unread, eventVars>>

-----------------------------------------------------------------------------
Worker ==
    \/ Recv \/ RecvClosed \/ UpdateLive \/ Admit
    \/ HandleInput \/ HandleControl \/ HandleCompact \/ CompactReturns \/ HandleMutate
    \/ StartRound \/ PreparePrompt \/ ModelReturns \/ InterceptStop \/ Absorb \/ AfterStop
    \/ TakeInput \/ AskApproval \/ ApprovalCancelled \/ ToolsDone \/ InjectSteering
    \/ RepairPlan \/ DropQueues
    \/ FinishMain \/ ReportResults \/ PublishSnapshot \/ Settle
    \/ MarkDisconnected \/ DropReceiver

Progress(c) == Signal(c) \/ Send(c) \/ SendFails(c)

\* Nothing is left to do: the worker has exited and every call has returned.
Terminated ==
    /\ worker = "gone"
    /\ \A c \in Command : caller[c] = "idle" \/ Returned(c)
    /\ UNCHANGED vars

Next ==
    \/ \E c \in Command : Call(c) \/ Progress(c)
    \/ DropControllers \/ DropEvents \/ RespondToApproval
    \/ Worker
    \/ Terminated

Spec == Init /\ [][Next]_vars

\* The worker thread and the threads inside a call are scheduled, and a front
\* end that is still there answers the approvals it is shown.
Fairness ==
    /\ WF_vars(Worker)
    /\ WF_vars(RespondToApproval)
    /\ \A c \in Command : WF_vars(Progress(c))

FairSpec == Spec /\ Fairness

-----------------------------------------------------------------------------
(* Properties.                                                             *)

\* Every variable keeps to its domain.
TypeOK ==
    /\ caller \in [Command -> {"idle", "called", "signalled", "sent"}]
    /\ chan \in Seq(Command)
    /\ admission \in [Command -> {"none"} \cup Answers]
    /\ cancel \in BOOLEAN
    /\ phase \in Phases
    /\ disconnected \in BOOLEAN
    /\ connected \in BOOLEAN
    /\ held \in BOOLEAN
    /\ worker \in Points
    /\ cur \in Command \cup {None}
    /\ round \in Nat
    /\ steering \in Seq(Command)
    /\ followUp \in Seq(Command)
    /\ processed \in SUBSET Command
    /\ dropped \in SUBSET Command
    /\ control \in SUBSET Command
    /\ cancelled \in BOOLEAN
    /\ failed \in BOOLEAN
    /\ stopping \in BOOLEAN
    /\ unread \in SUBSET Command
    /\ terminals \in [Command -> Seq(Statuses)]
    /\ settled \in Nat

Accepted(c) == admission[c] = "accepted"
Finished(c) == terminals[c] # <<>>

\* No command is reported finished twice, and none that was not accepted is
\* reported at all, however its id travels through the queues and the run report.
OneTerminal ==
    \A c \in Command : Len(terminals[c]) <= 1 /\ (Finished(c) => Accepted(c))

\* wait_until_settled returns on an idle snapshot: whoever holds a receipt and
\* then sees the session idle knows that the terminal has been sent.
IdleOwesNothing ==
    phase = "idle" => \A c \in Command : Accepted(c) => Finished(c)

\* Once a run has admitted an abort (or a shutdown) it gives the model no
\* further call, up to the report of the run.
NoModelCallAfterAbort ==
    control # {} => worker \notin {"prepare", "model", "tools", "approval", "batch"}

\* A session that accepted a shutdown never waits for another command, whether
\* the worker took it from the channel or a run absorbed it.
ShutdownIsFinal ==
    (\E c \in Command : Kind[c] = "shutdown" /\ Accepted(c)) => worker # "recv"

-----------------------------------------------------------------------------
(* The bookkeeping behind these properties: where every command id is.     *)

\* The worker executes cur and has not reported it.
AtWork == worker \in RunPoints \cup {"handle", "compact", "main"}

Gone == worker \in {"exit", "drop", "gone"}

\* The ids of the run in progress that still wait for their terminal.
Owed == Range(steering) \cup Range(followUp) \cup processed \cup dropped \cup control

\* A command that has not been taken from the channel is unanswered and unreported.
Untouched(c) == admission[c] = "none" /\ terminals[c] = <<>>

ChannelOnce ==
    /\ IsInjective(chan)
    /\ \A c \in Range(chan) : caller[c] = "sent" /\ Untouched(c)
    /\ \A c \in Command : caller[c] # "sent" => Untouched(c)

CurrentOnce ==
    /\ worker \in {"begin", "admit"} \/ AtWork => cur \in Command /\ caller[cur] = "sent"
    /\ worker \in {"begin", "admit"} => Untouched(cur) /\ cur \notin Range(chan)
    /\ AtWork => /\ terminals[cur] = <<>>
                 /\ HasId(cur) => Accepted(cur)
                 /\ cur \notin Range(chan)
                 /\ cur \notin Owed

OwedOnce ==
    /\ IsInjective(steering) /\ IsInjective(followUp)
    /\ \A c \in Range(steering) : Kind[c] = "steer"
    /\ \A c \in Range(followUp) : Kind[c] = "follow_up"
    /\ \A c \in processed \cup dropped : IsInput(c)
    /\ \A c \in control : IsControl(c)
    /\ processed \cap (Range(steering) \cup Range(followUp) \cup dropped) = {}
    /\ \A c \in Owed : Accepted(c) /\ terminals[c] = <<>>

\* Which lists can hold something at which point.
ListsInPlace ==
    /\ worker \notin RunPoints => steering = <<>> /\ followUp = <<>>
    /\ worker \in RunPoints => dropped = {}
    /\ worker \notin RunPoints \cup {"main", "results"} /\ ~Gone => AllReported

\* Nothing accepted is lost: it is reported, or owed, or at work.
NothingLost ==
    \A c \in Command : Accepted(c) =>
        /\ HasId(c)
        /\ Finished(c) \/ c \in Owed \/ (AtWork /\ cur = c) \/ Gone

PhaseInPlace ==
    /\ phase = "idle" => worker \in {"recv", "begin", "settle"} \/ Gone
    /\ disconnected <=> worker \in {"drop", "gone"}
    /\ worker = "gone" => chan = <<>>

\* Every command id is in one place: untouched, at work, owed, or reported once.
Bookkeeping ==
    /\ ChannelOnce
    /\ CurrentOnce
    /\ OwedOnce
    /\ ListsInPlace
    /\ NothingLost
    /\ PhaseInPlace
    /\ OneTerminal
    /\ IdleOwesNothing

\* The inductive invariant: the bookkeeping is kept by states of the right types.
SessionSound == TypeOK /\ Bookkeeping

-----------------------------------------------------------------------------
\* The session keeps the contract of SessionContract at every step.
Contract == INSTANCE SessionContract WITH
    answer   <- admission,
    terminal <- terminals,
    busy     <- (phase # "idle"),
    open     <- ~disconnected

KeepsContract == Contract!Spec

\* An input reported as succeeded was read by a model call
\* (rpc-sdk-design.md:148, an accepted input must not be dropped silently).
SucceededInputWasRead ==
    \A c \in Command :
        IsInput(c) /\ terminals[c] = <<"succeeded">> => c \notin unread

\* Every call on the controller returns, even behind a running command.
CallsReturn ==
    \A c \in Command : caller[c] # "idle" ~> Returned(c)

\* Every accepted command is reported finished unless the consumer left.
AcceptedIsFinished ==
    \A c \in Command : Accepted(c) ~> (Finished(c) \/ ~connected)

\* A front end that leaves (stdin EOF, TUI exit) ends the session: the run is
\* cancelled, a pending approval refused, and the worker exits.
LeavingEndsSession == FrontLeft ~> worker = "gone"
=============================================================================
