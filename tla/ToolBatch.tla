------------------------------ MODULE ToolBatch ------------------------------
(***************************************************************************)
(* One model turn with tool calls (runtime/tool_execution.rs and           *)
(* execute_tool_turn in runtime/agent_loop.rs): the checks of each call in *)
(* source order, with the approvals the front end may answer from several  *)
(* threads, the batch of at most Limit worker threads with deadlines and   *)
(* cancellation, and the one commit of all results.                        *)
(*                                                                         *)
(* A call's arguments are abstracted to what the checks ask of them: is it *)
(* asked for, which session grant covers it, may it run beside others,     *)
(* does it write the plan.  An approval request is named by its call.      *)
(* Progress updates of a running tool are left out: they change no state.  *)
(***************************************************************************)
EXTENDS Naturals, Sequences, FiniteSets

CONSTANTS
    N,            \* number of calls the model asked for
    Limit,        \* PARALLEL_TOOL_LIMIT
    ParallelSafe, \* calls of tools that may run beside others
    Planner,      \* calls of update_plan
    Asked,        \* calls the policy asks the user about
    OnceOnly,     \* of those, the calls of a forced approval: no session scope
    Key,          \* the grant_key of each call
    Thread,       \* front-end threads that may answer one request each
    HasReceiver,  \* the agent has an approval channel
    HasTimeout    \* a tool timeout is configured

Call == 1..N

ASSUME ToolAssumption ==
    /\ N \in Nat \ {0} /\ Limit \in Nat \ {0}
    /\ ParallelSafe \subseteq Call /\ OnceOnly \subseteq Asked /\ Asked \subseteq Call
    /\ Planner \subseteq Call \ ParallelSafe    \* update_plan.rs declares it sequential
    /\ DOMAIN Key = Call
    /\ HasReceiver \in BOOLEAN /\ HasTimeout \in BOOLEAN

VARIABLES
    pc,        \* where the coordinating thread stands
    item,      \* what has become of each call
    outcome,   \* its outcome, "none" without one
    effect,    \* the plan revision its outcome carries, 0 for none
    finish,    \* ToolCallFinished events emitted for it
    cancel,    \* the cancel flag of the run
    next,      \* the next call to check, later the next ready call to start
    running, completed, propagated, \* the locals of execute_tool_batch
    flagged,   \* calls whose own flag is raised
    late,      \* calls whose deadline has passed
    inbox,     \* Done messages of the worker threads
    planRev,   \* revision of batch_plan
    base,      \* revision each worker was given
    granted,   \* session_grants of the permission manager
    pending,   \* pending_approval in the shared snapshot, 0 for none
    claimed,   \* approval_claimed
    replies,   \* the approval channel
    thread,    \* each answering thread
    decision,  \* history: what request_approval made of each request
    log        \* the results written

batchVars == <<next, running, completed, propagated, flagged, late, inbox, planRev, base>>
askVars   == <<granted, pending, claimed, replies, decision>>
callVars  == <<item, outcome, effect, finish>>
vars == <<pc, callVars, cancel, batchVars, askVars, thread, log>>

Outcome == {"ok", "error", "refused", "Aborted", "Timeout", "Internal"}
Answer  == {"once", "session", "deny"}
Idle    == [at |-> "idle", call |-> 0, answer |-> "deny"]

Init ==
    /\ pc = "check"
    /\ item = [c \in Call |-> "new"] /\ outcome = [c \in Call |-> "none"]
    /\ effect = [c \in Call |-> 0] /\ finish = [c \in Call |-> 0]
    /\ cancel = FALSE
    /\ next = 1 /\ running = 0 /\ completed = 0 /\ propagated = FALSE
    /\ flagged = {} /\ late = {} /\ inbox = <<>>
    /\ planRev = 0 /\ base = [c \in Call |-> 0]
    /\ granted = {} /\ pending = 0 /\ claimed = FALSE /\ replies = <<>>
    /\ decision = [c \in Call |-> "none"]
    /\ thread = [t \in Thread |-> Idle]
    /\ log = <<>>

Ready == {c \in Call : item[c] \in {"ready", "running", "sent", "lost", "done"}}

-----------------------------------------------------------------------------
(* The checks, in source order. *)

\* The call gets its final outcome before the batch, and its finish event.
Refuse(c, o) ==
    /\ item' = [item EXCEPT ![c] = "settled"]
    /\ outcome' = [outcome EXCEPT ![c] = o]
    /\ finish' = [finish EXCEPT ![c] = @ + 1]
    /\ pc' = "check" /\ next' = c + 1
    /\ UNCHANGED effect

Pass(c) ==
    /\ item' = [item EXCEPT ![c] = "ready"]
    /\ pc' = "check" /\ next' = c + 1
    /\ UNCHANGED <<outcome, effect, finish>>

\* A session grant covers the call, unless its approval is forced.
Covered(c) == Key[c] \in granted /\ c \notin OnceOnly

\* preflight_tool_call: truncated input, an unknown tool, invalid arguments, a
\* hard deny or a hook refuse the call; the policy allows it or asks.
Check ==
    /\ pc = "check" /\ next <= N
    /\ \/ Refuse(next, "refused") /\ UNCHANGED <<pending, claimed>>
       \/ /\ next \notin Asked \/ Covered(next)
          /\ Pass(next)
          /\ UNCHANGED <<pending, claimed>>
       \/ /\ next \in Asked /\ ~Covered(next)
          /\ IF HasReceiver
             THEN /\ pc' = "asking"
                  /\ pending' = next
                  /\ claimed' = FALSE
                  /\ UNCHANGED <<callVars, next>>
             ELSE Refuse(next, "refused") /\ UNCHANGED <<pending, claimed>>
    /\ UNCHANGED <<cancel, running, completed, propagated, flagged, late, inbox, planRev, base,
                   granted, replies, decision, thread, log>>

\* PermissionResolved clears the pending request and its claim.
Unask == pending' = 0 /\ claimed' = FALSE

\* The wait for the answer: the flag, an answer to an older request, an answer.
AskCancelled ==
    /\ pc = "asking" /\ cancel
    /\ Refuse(next, "Aborted") /\ Unask
    /\ UNCHANGED <<granted, replies, decision>>

StaleReply ==
    /\ pc = "asking" /\ replies # <<>> /\ Head(replies).call # next
    /\ replies' = Tail(replies)
    /\ UNCHANGED <<pc, callVars, next, granted, pending, claimed, decision>>

\* The answer allows the call in a scope that was offered.
Allows(r) == r.answer = "once" \/ (r.answer = "session" /\ next \notin OnceOnly)

TakeReply(r) ==
    /\ replies' = Tail(replies)
    /\ decision' = [decision EXCEPT ![next] = r.answer]
    /\ granted' = IF Allows(r) /\ r.answer = "session" THEN granted \cup {Key[next]} ELSE granted
    /\ Unask
    /\ IF Allows(r) THEN Pass(next) ELSE Refuse(next, "refused")

\* Mutant of Reply: an answer is taken whichever request it was given to.
ReplyToAny ==
    /\ pc = "asking" /\ replies # <<>>
    /\ TakeReply(Head(replies))

Reply ==
    /\ pc = "asking" /\ replies # <<>> /\ Head(replies).call = next
    /\ TakeReply(Head(replies))

RequestApproval ==
    /\ AskCancelled \/ StaleReply \/ Reply
    /\ UNCHANGED <<cancel, running, completed, propagated, flagged, late, inbox, planRev, base,
                   thread, log>>

\* respond_to_approval, by any thread for any request, current or not: claim,
\* then send, in two steps.  A refused claim ends the call with an error.
Claim(t) ==
    /\ thread[t].at = "idle"
    /\ \E c \in Asked, a \in Answer :
          /\ IF pending = c /\ ~claimed
             THEN /\ claimed' = TRUE
                  /\ thread' = [thread EXCEPT ![t] = [at |-> "claimed", call |-> c, answer |-> a]]
             ELSE /\ thread' = [thread EXCEPT ![t].at = "refused"]
                  /\ UNCHANGED claimed
    /\ UNCHANGED <<pc, callVars, cancel, batchVars, granted, pending, replies, decision, log>>

SendReply(t) ==
    /\ thread[t].at = "claimed"
    /\ thread' = [thread EXCEPT ![t].at = "accepted"]
    /\ replies' = Append(replies, [call |-> thread[t].call, answer |-> thread[t].answer])
    /\ UNCHANGED <<pc, callVars, cancel, batchVars, granted, pending, claimed, decision, log>>

-----------------------------------------------------------------------------
(* The batch. *)

StartBatch ==
    /\ pc = "check" /\ next > N
    /\ pc' = "top" /\ next' = 1
    /\ UNCHANGED <<callVars, cancel, running, completed, propagated, flagged, late, inbox,
                   planRev, base, askVars, thread, log>>

\* Several calls at a time only when every one of them is safe beside others.
Cap == IF Ready \subseteq ParallelSafe THEN Limit ELSE 1

\* Mutant of BatchDone: the loop ends when the last call has been started.
AllStarted == next > N

BatchDone == completed >= Cardinality(Ready)

\* Mutant of LoopTop: a deadline does not raise the call's flag.
LoopTopNoDeadline ==
    /\ pc = "top" /\ ~BatchDone
    /\ flagged' = IF cancel THEN Ready ELSE flagged
    /\ propagated' = cancel
    /\ pc' = "launch"
    /\ UNCHANGED <<callVars, cancel, next, running, completed, late, inbox, planRev, base,
                   askVars, thread, log>>

\* The flags are raised once for a cancelled run, and for every late call.
LoopTop ==
    /\ pc = "top" /\ ~BatchDone
    /\ flagged' = flagged \cup late \cup (IF cancel /\ ~propagated THEN Ready ELSE {})
    /\ propagated' = (propagated \/ cancel)
    /\ pc' = "launch"
    /\ UNCHANGED <<callVars, cancel, next, running, completed, late, inbox, planRev, base,
                   askVars, thread, log>>

Skip(c) == c <= N /\ item[c] # "ready"

\* One turn of the inner loop: a ready call is started, or after a
\* cancellation settled without having run.
Launch ==
    /\ pc = "launch" /\ next <= N /\ running < Cap
    /\ next' = next + 1
    /\ \/ /\ Skip(next)
          /\ UNCHANGED <<callVars, running, completed, base>>
       \/ /\ item[next] = "ready" /\ cancel
          /\ item' = [item EXCEPT ![next] = "done"]
          /\ outcome' = [outcome EXCEPT ![next] = "Aborted"]
          /\ finish' = [finish EXCEPT ![next] = @ + 1]
          /\ completed' = completed + 1
          /\ UNCHANGED <<effect, running, base>>
       \/ /\ item[next] = "ready" /\ ~cancel
          /\ item' = [item EXCEPT ![next] = "running"]
          /\ base' = [base EXCEPT ![next] = planRev]
          /\ running' = running + 1
          /\ UNCHANGED <<outcome, effect, finish, completed>>
    /\ UNCHANGED <<pc, cancel, propagated, flagged, late, inbox, planRev, askVars, thread,
                   log>>

Launched ==
    /\ pc = "launch" /\ (next > N \/ running >= Cap)
    /\ pc' = IF running = 0 THEN "top" ELSE "receive"
    /\ UNCHANGED <<callVars, cancel, batchVars, askVars, thread, log>>

ReceiveTimeout ==
    /\ pc = "receive" /\ inbox = <<>>
    /\ pc' = "top"
    /\ UNCHANGED <<callVars, cancel, batchVars, askVars, thread, log>>

\* Mutant of Mended: an aborted outcome stays one.
Unmended(c, o) == o

\* The code of an aborted outcome when its Done message is handled.
Mended(c, o) == IF o = "Aborted" /\ c \in late /\ ~cancel THEN "Timeout" ELSE o

\* The post hooks may replace the outcome, which keeps its effects (that they
\* may also ask to stop is SessionRuntime's); then the plan effect is checked
\* against the plan of the batch.
Receive ==
    /\ pc = "receive" /\ inbox # <<>>
    /\ LET c == Head(inbox).call
           o == Mended(c, Head(inbox).outcome)
           rev == Head(inbox).effect
           bad == rev # 0 /\ rev # planRev + 1
       IN \E seen \in {o, "error"} :
            /\ outcome' = [outcome EXCEPT ![c] = IF bad THEN "Internal" ELSE seen]
            /\ effect' = [effect EXCEPT ![c] = IF bad THEN 0 ELSE rev]
            /\ planRev' = IF rev # 0 /\ ~bad THEN rev ELSE planRev
            /\ finish' = [finish EXCEPT ![c] = IF rev = 0 \/ bad THEN @ + 1 ELSE @]
            /\ item' = [item EXCEPT ![c] = "done"]
    /\ inbox' = Tail(inbox)
    /\ running' = running - 1
    /\ completed' = completed + 1
    /\ pc' = "top"
    /\ UNCHANGED <<cancel, next, propagated, flagged, late, base, askVars, thread, log>>

Batch == StartBatch \/ LoopTop \/ Launch \/ Launched \/ ReceiveTimeout \/ Receive

-----------------------------------------------------------------------------
(* The workers, the clock and the user. *)

\* A tool ends by itself or, at its next checkpoint, because of its flag.
ToolReturns(c, o) ==
    /\ item[c] = "running"
    /\ o = "Aborted" => c \in flagged
    /\ item' = [item EXCEPT ![c] = "sent"]
    /\ inbox' = Append(inbox, [call |-> c, outcome |-> o,
                               effect |-> IF c \in Planner /\ o = "ok" THEN base[c] + 1 ELSE 0])
    /\ UNCHANGED <<pc, outcome, effect, finish, cancel, next, running, completed, propagated,
                   flagged, late, planRev, base, askVars, thread, log>>

\* A tool that panics sends nothing, and the coordinator keeps a sender of its
\* own: the channel never tells that the worker has gone.
ToolPanics(c) ==
    /\ item[c] = "running"
    /\ item' = [item EXCEPT ![c] = "lost"]
    /\ UNCHANGED <<pc, outcome, effect, finish, cancel, batchVars, askVars, thread, log>>

DeadlinePasses(c) ==
    /\ HasTimeout
    /\ item[c] \in {"running", "sent", "lost"} /\ c \notin late
    /\ late' = late \cup {c}
    /\ UNCHANGED <<pc, callVars, cancel, next, running, completed, propagated, flagged, inbox,
                   planRev, base, askVars, thread, log>>

UserCancels ==
    /\ ~cancel /\ pc # "end"
    /\ cancel' = TRUE
    /\ UNCHANGED <<pc, callVars, batchVars, askVars, thread, log>>

-----------------------------------------------------------------------------
(* The commit. *)

\* A call without an outcome is given an internal error.
Assemble ==
    /\ pc = "top" /\ BatchDone
    /\ pc' = "commit"
    /\ outcome' = [c \in Call |-> IF outcome[c] = "none" THEN "Internal" ELSE outcome[c]]
    /\ UNCHANGED <<item, effect, finish, cancel, batchVars, askVars, thread, log>>

\* The message, the plan facts and the results are one append; the finish
\* events of calls with a plan effect were held back for it.
Commit ==
    /\ pc = "commit"
    /\ pc' = "end"
    /\ \/ /\ log' = outcome
          /\ finish' = [c \in Call |-> IF finish[c] = 0 THEN 1 ELSE finish[c]]
       \/ UNCHANGED <<log, finish>>
    /\ UNCHANGED <<item, outcome, effect, cancel, batchVars, askVars, thread>>

\* The turn was cancelled: an aborted call, or the flag of the run.
TurnCancelled == cancel \/ \E c \in Call : outcome[c] = "Aborted"

Ended == pc = "end" /\ UNCHANGED vars

Coordinator == Check \/ RequestApproval \/ Batch \/ Assemble \/ Commit

Next ==
    \/ Coordinator \/ UserCancels \/ Ended
    \/ \E t \in Thread : Claim(t) \/ SendReply(t)
    \/ \E c \in Call : ToolPanics(c) \/ DeadlinePasses(c)
    \/ \E c \in Call : \E o \in {"ok", "error", "Aborted"} : ToolReturns(c, o)

Spec == Init /\ [][Next]_vars

(***************************************************************************)
(* The coordinator and a thread inside respond_to_approval go on; time     *)
(* passes; a tool looks at its flag, but need not end by itself.           *)
(***************************************************************************)
Fairness ==
    /\ WF_vars(Coordinator)
    /\ \A t \in Thread : WF_vars(SendReply(t))
    /\ \A c \in Call :
          /\ WF_vars(DeadlinePasses(c))
          /\ WF_vars(ToolReturns(c, "Aborted"))

FairSpec == Spec /\ Fairness

-----------------------------------------------------------------------------
(* Properties. *)

TypeOK ==
    /\ pc \in {"check", "asking", "top", "launch", "receive", "commit", "end"}
    /\ item \in [Call -> {"new", "settled", "ready", "running", "sent", "lost", "done"}]
    /\ outcome \in [Call -> Outcome \cup {"none"}]
    /\ effect \in [Call -> Nat] /\ finish \in [Call -> Nat] /\ base \in [Call -> Nat]
    /\ cancel \in BOOLEAN /\ propagated \in BOOLEAN /\ claimed \in BOOLEAN
    /\ next \in 1..N + 1 /\ running \in 0..Limit /\ completed \in 0..N /\ planRev \in Nat
    /\ flagged \subseteq Call /\ late \subseteq Call
    /\ inbox \in Seq([call : Call, outcome : Outcome, effect : Nat])
    /\ granted \subseteq {Key[c] : c \in Call}
    /\ pending \in 0..N
    /\ replies \in Seq([call : Call, answer : Answer])
    /\ decision \in [Call -> Answer \cup {"none"}]
    /\ thread \in [Thread -> [at : {"idle", "claimed", "accepted", "refused"}, call : 0..N,
                               answer : Answer]]
    /\ log = <<>> \/ log \in [Call -> Outcome]

\* Of several answers to one request one is accepted, however the threads of the
\* front end and the run that gives up waiting interleave (claim_approval).
AnsweredOnce ==
    \A s, t \in Thread :
        (thread[s].at \in {"claimed", "accepted"} /\ thread[t].at \in {"claimed", "accepted"}
           /\ thread[s].call = thread[t].call)
        => s = t

\* What the run made of a request is what the accepted answer to that request
\* said, never an answer left over from an older one.
DecidedAsAnswered ==
    \A c \in Call : decision[c] # "none" =>
        \E t \in Thread : /\ thread[t].at = "accepted"
                          /\ thread[t].call = c /\ thread[t].answer = decision[c]

Executed == {c \in Call : item[c] \in {"running", "sent", "lost"}
                          \/ (item[c] = "done" /\ outcome[c] # "Aborted")}

\* A call the policy asks about runs only when the user allowed it, or allowed
\* its kind for the session; a forced approval is asked for each call.
RunsAsAllowed ==
    \A c \in Executed \cap Asked :
        \/ decision[c] = "once"
        \/ /\ c \notin OnceOnly
           /\ \E d \in Asked \ OnceOnly : d <= c /\ Key[d] = Key[c] /\ decision[d] = "session"

\* Approvals (request_approval, claim_approval): the three together.
ApprovalSound == AnsweredOnce /\ DecidedAsAnswered /\ RunsAsAllowed

Working == {c \in Call : item[c] \in {"running", "sent", "lost"}}

\* At most Limit tools at a time, and none beside one that is not safe for it.
Scheduled ==
    /\ running = Cardinality(Working) /\ running <= Limit
    /\ Working \subseteq ParallelSafe \/ running <= 1

\* Every plan update of the batch is the next revision: an update prepared from
\* a plan another call has since changed would become an internal error.
PlanInOrder == \A c \in Call : outcome[c] # "Internal"

\* A result says aborted only when the user cancelled: a call stopped by its
\* deadline is a timeout and must not cancel the turn (agent_loop.rs:391).
AbortMeansCancel == \A c \in Call : outcome[c] = "Aborted" => cancel

\* One finish event for each call, whichever of the four places emits it.
FinishedOnce == \A c \in Call : finish[c] <= 1 /\ (log # <<>> => finish[c] = 1)

\* Results (execute_tool_batch, execute_tool_turn): the four together.
ResultsSound == Scheduled /\ PlanInOrder /\ AbortMeansCancel /\ FinishedOnce

Contract == INSTANCE ToolContract WITH result <- outcome

\* The turn implements ToolContract: one result for each call, never replaced,
\* all written together in source order or none.
KeepsToolContract == Contract!Spec

\* A cancelled turn ends, also while it asks; and one with a tool timeout ends
\* although its tools would go on for ever; unless a tool has panicked.
TurnEnds ==
    (cancel \/ (HasTimeout /\ pc = "top")) ~> (pc = "end" \/ \E c \in Call : item[c] = "lost")
=============================================================================
