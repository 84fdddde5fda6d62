------------------------------- MODULE FrontEnd -------------------------------
(***************************************************************************)
(* The terminal front end beside the session worker (tui/mod.rs,           *)
(* runtime/session_events.rs, sdk/shared.rs): the worker publishes live    *)
(* snapshots and progress events into a bounded channel; the event loop    *)
(* applies them all, then handles keys, then moves finished cells to the   *)
(* scrollback.  A key that submits a command hands it to a thread of its   *)
(* own, so two commands may be admitted in either order, and what the      *)
(* admission answers is dropped.                                           *)
(*                                                                         *)
(* What a turn does is modelled in AgentRun and ToolBatch, what the worker *)
(* does with its queues in SessionRuntime: here a turn is any sequence of  *)
(* events those allow.  Usage, notes of the status line, scrolling and the *)
(* editing of the input line are left out.                                 *)
(***************************************************************************)
EXTENDS Transcript, FiniteSets

CONSTANTS
    Cap,      \* room in the event channel
    Calls,    \* tool calls of a model turn: 1..Calls, the last one writes the plan
    Chunks,   \* most chunks of streamed text in a message
    Messages, \* bound on model turns
    Extras,   \* bound on retries, compactions and thinking chunks
    Keys,     \* bound on the keys pressed
    Pressed   \* the keys considered

ASSUME FrontEndAssumption ==
    /\ Cap \in Nat \ {0, 1} /\ Calls \in Nat \ {0} /\ Chunks \in Nat
    /\ Messages \in Nat /\ Extras \in Nat /\ Keys \in Nat

VARIABLES
    at,      \* where the worker stands
    command, \* the command it runs
    status,  \* how that command goes: "ok", "cancelled" or "failed"
    round,   \* model turns so far; the current one's number is its message id
    said,    \* the chunks streamed in this turn
    call,    \* what has become of each call of this turn
    queued,  \* steering and follow-up inputs accepted
    extra,   \* extras so far
    cancel,  \* the cancel flag
    shared,  \* the live snapshot: phase, pending approval, plan, session
    plan, session, \* the committed plan revision of each session, and the one in use
    torn,    \* history: a commit failed with tool results pending
    chan,    \* the event channel
    frame,   \* the event loop: "events", "keys" or "gone"
    cells,   \* the transcript
    ui,      \* busy, compaction_active, session_id, current_plan, overlay, whether
             \* the tool log has records, and whether pending_reasoning is set
    armed,   \* quit_armed_at is set
    sending, \* commands handed to admission threads
    answer,  \* the approval channel
    keys,    \* keys pressed
    printed, \* history: the last piece of an answer in the scrollback
    whole    \* history: the latest finished message

workVars == <<at, command, status, round, said, call, queued, extra>>
factVars == <<cancel, shared, plan, session, torn>>
uiVars   == <<frame, cells, ui, armed, keys, printed, whole>>
vars     == <<workVars, factVars, chan, uiVars, sending, answer>>

Call == 1..Calls
None == [kind |-> "none", arg |-> 0]
ToolId(c) == Calls * round + c
Texts == {"input", "steer", "follow"}
Session == 1..2

Init ==
    /\ at = "idle" /\ command = "none" /\ status = "ok" /\ round = 0 /\ said = <<>>
    /\ call = [c \in Call |-> "new"] /\ queued = 0 /\ extra = 0
    /\ cancel = FALSE /\ plan = [s \in Session |-> 0] /\ session = 1 /\ torn = FALSE
    /\ shared = [phase |-> "idle", pending |-> 0, plan |-> 0, session |-> 1]
    /\ chan = <<>>
    /\ frame = "events" /\ cells = <<Line>> /\ armed = FALSE /\ keys = 0
    /\ ui = [busy |-> FALSE, compacting |-> FALSE, session |-> 1, plan |-> 0,
             overlay |-> None, tools |-> FALSE, reasoning |-> FALSE]
    /\ sending = {} /\ answer = "none"
    /\ printed = <<>> /\ whole = <<>>

-----------------------------------------------------------------------------
(* The worker's side: events and live snapshots. *)

Ev(t, arg) == [t |-> t, arg |-> arg]
Snapshot(s) == Ev("snapshot", s)

\* send_event: a full channel holds the worker back.
Emit(events) ==
    /\ Len(chan) + Len(events) <= Cap
    /\ chan' = chan \o events

\* update_live: the phase and the request change, the rest of the snapshot stays
\* what the last replace_snapshot left.
Live(phase, pending) == [shared EXCEPT !.phase = phase, !.pending = pending]

EmitLive(phase, pending, events) ==
    /\ shared' = Live(phase, pending)
    /\ Emit(<<Snapshot(Live(phase, pending))>> \o events)

CommandPhase(c) == IF c = "compact" THEN "compacting" ELSE "running"

FirstStep(c) == IF c \in Texts THEN "begin" ELSE c

\* run_worker takes a command.
Take(c) ==
    /\ at = "idle"
    /\ sending' = sending \ {c}
    /\ cancel' = FALSE
    /\ at' = FirstStep(c[1]) /\ command' = c[1] /\ status' = "ok" /\ queued' = 0
    /\ EmitLive(CommandPhase(c[1]), 0, <<>>)
    /\ UNCHANGED <<round, said, call, extra, plan, session, torn, uiVars, answer>>

\* run_turn: the input is shown, then committed.
Begin ==
    /\ at = "begin"
    /\ \/ at' = "round" /\ status' = status
          /\ Emit(<<Ev("line", 0), Ev("started", 0)>>)
       \/ at' = "ending" /\ status' = "failed"
          /\ Emit(<<Ev("line", 0), Ev("error", 0)>>)
    /\ UNCHANGED <<command, round, said, call, queued, extra, factVars, uiVars, sending, answer>>

\* poll_queues: an input is queued, anything else is refused and forgotten.
Poll(c) ==
    /\ at = "round"
    /\ sending' = sending \ {c}
    /\ IF c[1] \in {"steer", "follow"}
       THEN queued' = queued + 1 /\ Emit(<<Snapshot(shared)>>)
       ELSE UNCHANGED <<queued, chan>>
    /\ UNCHANGED <<at, command, status, round, said, call, extra, factVars, uiVars, answer>>

\* commit_input: a queued input becomes a message of the run.
Inject ==
    /\ at = "round" /\ queued > 0 /\ round < Messages
    /\ queued' = queued - 1
    /\ at' = "prompt"
    /\ Emit(<<Ev("line", 0), Snapshot(shared)>>)
    /\ UNCHANGED <<command, status, round, said, call, extra, factVars, uiVars, sending, answer>>

\* The loop goes on to another turn, or stops.
Continue ==
    /\ at = "round" /\ round < Messages
    /\ at' = "prompt"
    /\ UNCHANGED <<command, status, round, said, call, queued, extra, factVars, chan, uiVars, sending, answer>>

Stop ==
    /\ at = "round"
    /\ \/ at' = "ending" /\ status' = IF cancel THEN "cancelled" ELSE status
       \/ at' = "failing" /\ status' = "failed"
    /\ UNCHANGED <<command, round, said, call, queued, extra, factVars, chan, uiVars, sending, answer>>

\* The error that ends a run or a command.
Fail ==
    /\ at = "failing"
    /\ at' = "ending"
    /\ Emit(<<Ev("error", 0)>>)
    /\ UNCHANGED <<command, status, round, said, call, queued, extra, factVars, uiVars, sending, answer>>

\* compact_if_needed, and the compact command.
StartCompacting ==
    /\ at = "prompt" \/ at = "compact"
    /\ extra < Extras
    /\ extra' = extra + 1
    /\ at' = "compacting"
    /\ EmitLive("compacting", 0, <<Ev("compactStart", extra + 1)>>)
    /\ UNCHANGED <<command, status, round, said, call, queued, cancel, plan, session, torn, uiVars, sending, answer>>

SkipCompact ==
    /\ at = "compact"
    /\ at' = "ending" /\ Emit(<<Ev("line", 0)>>)
    /\ UNCHANGED <<command, status, round, said, call, queued, extra, factVars, uiVars, sending, answer>>

EndCompacting(how) ==
    /\ at = "compacting"
    /\ how = "cancelled" => cancel
    /\ at' = IF command = "compact" THEN "ending" ELSE IF how = "ok" THEN "stream" ELSE "failing"
    /\ status' = IF how = "ok" THEN status ELSE how
    /\ IF command # "compact" /\ how = "ok"
       THEN round' = round + 1 /\ said' = <<>> ELSE UNCHANGED <<round, said>>
    /\ EmitLive("running", 0, <<Ev("compactEnd", extra)>>)
    /\ UNCHANGED <<command, call, queued, extra, cancel, plan, session, torn, uiVars, sending, answer>>

Prompt ==
    /\ at = "prompt"
    /\ at' = "stream" /\ round' = round + 1 /\ said' = <<>>
    /\ UNCHANGED <<command, status, call, queued, extra, factVars, chan, uiVars, sending, answer>>

\* Nothing of the answer has been received yet, or something has.
Streaming == at \in {"stream", "heard"}

Delta ==
    /\ Streaming /\ Len(said) < Chunks
    /\ at' = "heard"
    /\ said' = Append(said, Len(said) + 1)
    /\ Emit(<<Ev("assistant", [id |-> round, chunk |-> Len(said) + 1])>>)
    /\ UNCHANGED <<command, status, round, call, queued, extra, factVars, uiVars, sending, answer>>

Think ==
    /\ Streaming /\ extra < Extras
    /\ at' = "heard"
    /\ extra' = extra + 1
    /\ Emit(<<Ev("thinking", [id |-> round, chunk |-> 0])>>)
    /\ UNCHANGED <<command, status, round, said, call, queued, factVars, uiVars, sending, answer>>

\* call_model: an attempt that failed before its first event is made again.
Retry ==
    /\ at = "stream" /\ extra < Extras
    /\ extra' = extra + 1
    /\ at' = "backoff"
    /\ EmitLive("retrying", 0, <<Ev("line", 0)>>)
    /\ UNCHANGED <<command, status, round, said, call, queued, cancel, plan, session, torn, uiVars, sending, answer>>

RetryAgain ==
    /\ at = "backoff"
    /\ at' = "stream"
    /\ EmitLive("running", 0, <<>>)
    /\ UNCHANGED <<command, status, round, said, call, queued, extra, cancel, plan, session, torn, uiVars, sending, answer>>

StreamFails ==
    /\ Streaming \/ at = "backoff"
    /\ at' = "failing" /\ status' = IF cancel THEN "cancelled" ELSE "failed"
    /\ UNCHANGED <<command, round, said, call, queued, extra, factVars, chan, uiVars, sending, answer>>

\* The answer is complete: the full text, then the tool calls if there are any.
StreamEnds(tools) ==
    /\ Streaming /\ (said # <<>> \/ tools)
    /\ at' = IF tools THEN "tools" ELSE "round"
    /\ call' = [c \in Call |-> "new"]
    /\ Emit(IF said # <<>> THEN <<Ev("finished", [id |-> round, text |-> said])>> ELSE <<>>)
    /\ UNCHANGED <<command, status, round, said, queued, extra, factVars, uiVars, sending, answer>>

\* The calls in order: each is shown, then preflight refuses it, asks about it or
\* makes it ready.
Show(c) ==
    /\ at = "tools" /\ call[c] = "new"
    /\ \A d \in Call : d < c => call[d] \in {"ready", "done"}
    /\ call' = [call EXCEPT ![c] = "shown"]
    /\ Emit(<<Ev("tool", ToolId(c))>>)
    /\ UNCHANGED <<at, command, status, round, said, queued, extra, factVars, uiVars, sending, answer>>

Check(c, next) ==
    /\ at = "tools" /\ call[c] = "shown"
    /\ call' = [call EXCEPT ![c] = next]
    /\ UNCHANGED <<at, command, status, round, said, queued, extra, factVars, chan, uiVars, sending, answer>>

Ask(c) ==
    /\ at = "tools" /\ call[c] = "shown"
    /\ at' = "asking"
    /\ call' = [call EXCEPT ![c] = "asked"]
    /\ EmitLive("waiting", ToolId(c), <<Ev("ask", ToolId(c))>>)
    /\ UNCHANGED <<command, status, round, said, queued, extra, cancel, plan, session, torn, uiVars, sending, answer>>

Resolve(c, allowed) ==
    /\ at = "asking" /\ call[c] = "asked"
    /\ \/ answer # "none" /\ allowed = (answer = "allow")
       \/ cancel /\ ~allowed
    /\ call' = [call EXCEPT ![c] = IF allowed THEN "ready" ELSE "refused"]
    /\ at' = "tools" /\ answer' = "none"
    /\ EmitLive("running", 0, <<Ev("resolved", ToolId(c))>>)
    /\ UNCHANGED <<command, status, round, said, queued, extra, cancel, plan, session, torn, uiVars, sending>>

\* A refused call ends at once, the others in any order once all are checked.
FinishCall(c) ==
    /\ at = "tools"
    /\ \/ call[c] = "refused"
       \/ call[c] = "ready" /\ \A d \in Call : call[d] \in {"ready", "done", "deferred"}
    /\ call' = [call EXCEPT ![c] = "done"]
    /\ Emit(<<Ev("toolEnd", ToolId(c))>>)
    /\ UNCHANGED <<at, command, status, round, said, queued, extra, factVars, uiVars, sending, answer>>

\* A call that has written the plan ends after the commit of its results.
Defer ==
    /\ at = "tools" /\ call[Calls] = "ready"
    /\ \A d \in Call : call[d] \in {"ready", "done"}
    /\ call' = [call EXCEPT ![Calls] = "deferred"]
    /\ UNCHANGED <<at, command, status, round, said, queued, extra, factVars, chan, uiVars, sending, answer>>

Planned == call[Calls] = "deferred"

CommitTools ==
    /\ at = "tools" /\ \A c \in Call : call[c] \in {"done", "deferred"}
    /\ \/ /\ at' = "flush"
          /\ plan' = IF Planned THEN [plan EXCEPT ![session] = @ + 1] ELSE plan
          /\ UNCHANGED <<status, torn>>
       \/ /\ at' = "failing" /\ status' = "failed"
          /\ torn' = (torn \/ Planned)
          /\ UNCHANGED plan
    /\ UNCHANGED <<command, round, said, call, queued, extra, cancel, shared, session, chan, uiVars, sending, answer>>

Flush ==
    /\ at = "flush"
    /\ at' = IF cancel THEN "ending" ELSE "round"
    /\ status' = IF cancel THEN "cancelled" ELSE status
    /\ Emit(IF Planned THEN <<Ev("toolEnd", ToolId(Calls)), Ev("plan", plan[session])>> ELSE <<>>)
    /\ UNCHANGED <<command, round, said, call, queued, extra, factVars, uiVars, sending, answer>>

\* The commands that are not a run.
Reply(c) ==
    CASE c = "list"  -> <<Ev("listed", 0)>>
      [] c = "clear" -> <<Ev("cleared", 0)>>
      [] c = "model" -> <<Ev("model", 0)>>
      [] c = "load"  -> <<>>

Serve ==
    /\ at \in {"list", "clear", "load", "model"}
    /\ at' = "ending"
    /\ plan' = IF at = "clear" THEN [plan EXCEPT ![session] = 0] ELSE plan
    /\ session' \in IF at = "load" THEN Session ELSE {session}
    /\ Emit(Reply(at))
    /\ UNCHANGED <<command, status, round, said, call, queued, extra, cancel, shared, torn, uiVars, sending, answer>>

Refuse ==
    /\ at \in {"list", "clear", "load", "model"}
    /\ at' = "failing" /\ status' = "failed"
    /\ UNCHANGED <<command, round, said, call, queued, extra, factVars, chan, uiVars, sending, answer>>

\* run_worker after the command: its result, then the snapshot of the facts.
Finish ==
    /\ at = "ending"
    /\ at' = "settle"
    /\ Emit(IF status = "cancelled" THEN <<Ev("line", 0)>> ELSE <<>>)
    /\ UNCHANGED <<command, status, round, said, call, queued, extra, factVars, uiVars, sending, answer>>

Settle ==
    /\ at = "settle"
    /\ at' = "idle" /\ command' = "none"
    /\ shared' = [phase |-> "idle", pending |-> 0, plan |-> plan[session], session |-> session]
    /\ Emit(<<Snapshot(shared'), Ev("settled", 0)>>)
    /\ UNCHANGED <<status, round, said, call, queued, extra, cancel, plan, session, torn, uiVars, sending, answer>>

Worker ==
    \/ \E c \in sending : Take(c) \/ Poll(c)
    \/ Begin \/ Inject \/ Continue \/ Stop \/ Fail
    \/ StartCompacting \/ SkipCompact \/ \E how \in {"ok", "failed", "cancelled"} : EndCompacting(how)
    \/ Prompt \/ Delta \/ Think \/ Retry \/ RetryAgain \/ StreamFails
    \/ \E tools \in BOOLEAN : StreamEnds(tools)
    \/ \E c \in Call : \/ Show(c) \/ \E next \in {"ready", "refused"} : Check(c, next)
                       \/ Ask(c) \/ \E allowed \in BOOLEAN : Resolve(c, allowed)
                       \/ FinishCall(c)
    \/ Defer \/ CommitTools \/ Flush
    \/ Serve \/ Refuse \/ Finish \/ Settle

-----------------------------------------------------------------------------
(* The front end applies the events in order: on_session_event, on_progress. *)

Receive(kinds) ==
    /\ frame = "events" /\ chan # <<>> /\ Head(chan).t \in kinds
    /\ chan' = Tail(chan)
    /\ UNCHANGED <<workVars, factVars, frame, armed, keys, printed, sending, answer>>

Arg == Head(chan).arg
Over(kinds) == ui.overlay.kind \in kinds

\* A snapshot: the transcript is rebuilt when it is of another session.
OnSnapshot ==
    /\ Receive({"snapshot"})
    /\ LET changed == ui.session # Arg.session
       IN /\ cells' = IF changed THEN <<Line>> ELSE cells
          /\ whole' = IF changed THEN <<>> ELSE whole
          /\ \E restored \in IF changed THEN BOOLEAN ELSE {ui.tools} :
               ui' = [ui EXCEPT !.session = Arg.session, !.plan = Arg.plan,
                                !.busy = (Arg.phase # "idle"),
                                !.compacting = (Arg.phase = "compacting" \/ (Arg.phase = "retrying" /\ @)),
                                !.tools = restored]

OnLine ==
    /\ Receive({"line"})
    /\ cells' = Push(cells)
    /\ UNCHANGED <<ui, whole>>

OnError ==
    /\ Receive({"error"})
    /\ cells' = Push(cells)
    /\ ui' = IF Over({"loading"}) THEN [ui EXCEPT !.overlay = None] ELSE ui
    /\ UNCHANGED whole

OnStarted ==
    /\ Receive({"started"})
    /\ ui' = [ui EXCEPT !.busy = TRUE]
    /\ UNCHANGED <<cells, whole>>

OnCompaction ==
    /\ Receive({"compactStart", "compactEnd"})
    /\ LET starts == Head(chan).t = "compactStart"
       IN /\ cells' = IF starts THEN StartCompaction(cells, Arg) ELSE FinishCompaction(cells, Arg)
          /\ ui' = [ui EXCEPT !.busy = starts \/ @, !.compacting = starts]
    /\ UNCHANGED whole

OnDelta ==
    /\ Receive(Streamed)
    /\ cells' = AppendDelta(cells, Head(chan).t, Arg.id, Arg.chunk)
    /\ UNCHANGED <<ui, whole>>

OnFinished ==
    /\ Receive({"finished"})
    /\ cells' = FinalizeAssistant(cells, Arg.id, Arg.text)
    /\ whole' = <<Arg>>
    /\ UNCHANGED ui

OnTool ==
    /\ Receive({"tool", "toolEnd"})
    /\ cells' = IF Head(chan).t = "tool" THEN PushTool(cells, Arg) ELSE FinishTool(cells, Arg)
    /\ ui' = [ui EXCEPT !.tools = TRUE]
    /\ UNCHANGED whole

\* A request takes the place of whatever overlay is open.
OnAsk ==
    /\ Receive({"ask"})
    /\ ui' = [ui EXCEPT !.overlay = [kind |-> "approval", arg |-> Arg]]
    /\ UNCHANGED <<cells, whole>>

\* Mutant of OnResolved: only a key closes the request.
OnResolvedKeeping == Receive({"resolved"}) /\ UNCHANGED <<ui, cells, whole>>

OnResolved ==
    /\ Receive({"resolved"})
    /\ ui' = IF ui.overlay = [kind |-> "approval", arg |-> Arg]
             THEN [ui EXCEPT !.overlay = None] ELSE ui
    /\ UNCHANGED <<cells, whole>>

OnPlan ==
    /\ Receive({"plan"})
    /\ cells' = Push(cells)
    /\ ui' = [ui EXCEPT !.plan = Arg]
    /\ UNCHANGED whole

OnCleared ==
    /\ Receive({"cleared"})
    /\ cells' = <<Line>> /\ whole' = <<>>
    /\ ui' = [ui EXCEPT !.tools = FALSE, !.plan = 0,
                        !.overlay = IF Over({"toolList", "toolDetail"}) THEN None ELSE @]

OnModel == Receive({"model"}) /\ UNCHANGED <<ui, cells, whole>>

\* show_session_picker: only in answer to a list still waited for.
OnListed ==
    /\ Receive({"listed"})
    /\ ui' = IF Over({"loading"}) THEN [ui EXCEPT !.overlay = [kind |-> "sessions", arg |-> 0]] ELSE ui
    /\ UNCHANGED <<cells, whole>>

\* Mutant of OnSettled: the cells stay as they are.
OnSettledLeaving ==
    /\ Receive({"settled"})
    /\ ui' = [ui EXCEPT !.busy = FALSE, !.compacting = FALSE]
    /\ UNCHANGED <<cells, whole>>

OnSettled ==
    /\ Receive({"settled"})
    /\ cells' = CloseOpenCells(cells)
    /\ ui' = [ui EXCEPT !.busy = FALSE, !.compacting = FALSE]
    /\ UNCHANGED whole

Events ==
    \/ OnSnapshot \/ OnLine \/ OnError \/ OnStarted \/ OnCompaction \/ OnDelta \/ OnFinished
    \/ OnTool \/ OnAsk \/ OnResolved \/ OnPlan \/ OnCleared \/ OnModel \/ OnListed \/ OnSettled

-----------------------------------------------------------------------------
(* The rest of a frame: keys, then the scrollback. *)

\* The channel is empty: the keys are read.
ReadKeys ==
    /\ frame = "events" /\ chan = <<>>
    /\ frame' = "keys"
    /\ UNCHANGED <<workVars, factVars, chan, cells, ui, armed, keys, printed, whole, sending, answer>>

Press(k) ==
    /\ frame = "keys" /\ keys < Keys /\ k \in Pressed
    /\ keys' = keys + 1
    /\ UNCHANGED <<workVars, shared, plan, session, torn, chan, printed, whole>>

Closed == ui.overlay = None
Open(kind) == [ui EXCEPT !.overlay = [kind |-> kind, arg |-> 0]]
Submit(c) == sending' = sending \cup {<<c, keys>>}

\* submit: while a run is shown the text steers it, with a notice in the transcript.
KeyText ==
    /\ Press("text") /\ Closed
    /\ IF ui.busy THEN cells' = Push(cells) /\ Submit("steer")
                  ELSE UNCHANGED cells /\ Submit("input")
    /\ UNCHANGED <<frame, ui, armed, cancel, answer>>

\* /queue
KeyQueue ==
    /\ Press("queue") /\ Closed
    /\ cells' = Push(cells) /\ Submit("follow")
    /\ UNCHANGED <<frame, ui, armed, cancel, answer>>

\* /session, and /clear, /compact, /session ID, /skill NAME.
KeySession ==
    /\ Press("session") /\ Closed
    /\ ui' = Open("loading") /\ Submit("list")
    /\ UNCHANGED <<frame, cells, armed, cancel, answer>>

KeyCommand(c) ==
    /\ Press(c) /\ Closed
    /\ Submit(c)
    /\ UNCHANGED <<frame, cells, ui, armed, cancel, answer>>

\* /model opens a picker, whose choice opens the picker of efforts; /reasoning opens that one.
KeyModel ==
    /\ Press("model") /\ Closed
    /\ \/ ui' = Open("models")
       \/ ui' = [Open("efforts") EXCEPT !.reasoning = TRUE]
    /\ UNCHANGED <<frame, cells, armed, cancel, answer, sending>>

\* Ctrl+T
KeyTools ==
    /\ Press("tools") /\ Closed
    /\ IF ui.tools THEN ui' = Open("toolDetail") /\ UNCHANGED cells
                   ELSE cells' = Push(cells) /\ UNCHANGED ui
    /\ UNCHANGED <<frame, armed, cancel, answer, sending>>

\* accept_picker
Accept ==
    /\ Press("enter") /\ Over({"models", "efforts", "sessions"})
    /\ CASE Over({"models"})   -> ui' = [Open("efforts") EXCEPT !.reasoning = TRUE] /\ UNCHANGED sending
         [] Over({"sessions"}) -> ui' = [ui EXCEPT !.overlay = None] /\ Submit("load")
         [] Over({"efforts"})  -> /\ ui' = [ui EXCEPT !.overlay = None, !.reasoning = FALSE]
                                  /\ IF ui.reasoning THEN Submit("model") ELSE UNCHANGED sending
    /\ UNCHANGED <<frame, cells, armed, cancel, answer>>

\* An answer to the request on screen closes it; the controller takes it when it
\* is for the pending request and nothing has been answered yet (claim_approval).
Decide(k, a) ==
    /\ Press(k) /\ Over({"approval"})
    /\ ui' = [ui EXCEPT !.overlay = None]
    /\ answer' = IF shared.pending = ui.overlay.arg /\ answer = "none" THEN a ELSE answer
    /\ UNCHANGED <<frame, cells, armed, cancel, sending>>

\* Esc closes an overlay, or cancels what is running.
KeyEsc ==
    /\ Press("esc") /\ ~Over({"approval"})
    /\ IF Closed THEN cancel' = (cancel \/ ui.busy) /\ UNCHANGED ui
       ELSE ui' = [ui EXCEPT !.overlay = None, !.reasoning = FALSE] /\ UNCHANGED cancel
    /\ UNCHANGED <<frame, cells, armed, answer, sending>>

\* on_ctrl_c: cancels and arms, a second press leaves.
KeyCtrlC ==
    /\ Press("ctrl-c") /\ Closed
    /\ IF armed THEN frame' = "gone" /\ cancel' = TRUE /\ UNCHANGED armed
       ELSE armed' = TRUE /\ cancel' = (cancel \/ ui.busy) /\ UNCHANGED frame
    /\ UNCHANGED <<cells, ui, answer, sending>>

Disarm ==
    /\ armed /\ frame = "keys"
    /\ armed' = FALSE
    /\ UNCHANGED <<workVars, factVars, chan, frame, cells, ui, keys, printed, whole, sending, answer>>

\* The last piece of an answer among the cells, and above them in the scrollback.
PieceAt(shown) == LastIndex({i \in DOMAIN shown : shown[i].kind = "assistant"})
LastPiece(above, shown) == IF PieceAt(shown) = 0 THEN above ELSE <<shown[PieceAt(shown)]>>

\* commit_history moves the finished cells to the scrollback.
CommitHistory ==
    /\ frame = "keys"
    /\ frame' = "events"
    /\ cells' = Kept(cells)
    /\ printed' = LastPiece(printed, Drained(cells))
    /\ UNCHANGED <<workVars, factVars, chan, ui, armed, keys, whole, sending, answer>>

Ui ==
    \/ Events \/ ReadKeys
    \/ KeyText \/ KeyQueue \/ KeySession \/ KeyModel \/ KeyTools \/ KeyEsc \/ KeyCtrlC \/ Accept
    \/ \E c \in {"clear", "compact", "load", "input"} : KeyCommand(c)
    \/ Decide("enter", "allow") \/ Decide("esc", "deny")
    \/ Disarm \/ CommitHistory

\* Once the front end has left, the worker is as in SessionRuntime.
Next == frame # "gone" /\ (Worker \/ Ui)

Spec == Init /\ [][Next]_vars

-----------------------------------------------------------------------------
(* Properties *)

CaughtUp == chan = <<>> /\ frame # "gone"

\* With every event applied, the screen shows the session it is attached to:
\* ready exactly when the worker is idle, compacting when it compacts, the pending
\* request unless it has been answered and no other, and in an idle session the
\* plan and the session of the facts.
ScreenSound ==
    CaughtUp =>
        /\ ui.busy = (shared.phase # "idle")
        /\ ui.compacting = (shared.phase = "compacting")
        /\ Over({"approval"}) => ui.overlay.arg = shared.pending
        /\ at = "asking" /\ answer = "none" => Over({"approval"})
        /\ at = "idle" => ui.session = session /\ ui.plan = plan[session]
        /\ Over({"efforts"}) => ui.reasoning

Piece == LastPiece(printed, cells)

\* The answer of the model ends up whole in front of the user: once its message is
\* finished, the last piece of it in the transcript or the scrollback is its text.
ShownWhole ==
    whole # <<>> /\ Piece # <<>> /\ Piece[1].id <= whole[1].id =>
        /\ Piece[1].id = whole[1].id
        /\ Piece[1].text = whole[1].text
        /\ ~Piece[1].open

\* A settled session leaves nothing open: every cell can leave for the scrollback,
\* unless a commit failed that deferred tool results waited for.
NothingStaysOpen ==
    CaughtUp /\ at = "idle" /\ ~torn => \A i \in DOMAIN cells : ~cells[i].open

\* The plan on screen is never older than the one of the facts once every event
\* has been applied (rpc-sdk-design.md: a snapshot holds only authoritative state).
PlanKept == CaughtUp /\ at \notin {"flush", "settle", "ending"} => ui.plan = plan[session]
==============================================================================
