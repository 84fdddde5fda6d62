------------------------------ MODULE AgentRun ------------------------------
(***************************************************************************)
(* A run from the log to the model and back (agent_loop.rs and its host,   *)
(* agent_loop/model_call.rs, compaction.rs, context/budget.rs, session.rs):*)
(* the log is projected to messages, repaired, perhaps compacted, folded   *)
(* to the budget and sent; a failed attempt is tried again; the answer and *)
(* the results of its tools are appended in one batch.                     *)
(*                                                                         *)
(* A block is a text, a tool use or a tool result; its size stands for its *)
(* tokens, so that the estimate of characters is exact here.  SessionRun-  *)
(* time has the command queues of the same loop, ToolBatch the execution   *)
(* of its tools.                                                           *)
(***************************************************************************)
EXTENDS Naturals, Sequences, FiniteSets

CONSTANTS
    MaxId,       \* ids of tool calls; the provider never repeats one
    OldLogs,     \* logs a process may find, damaged ones too
    Available,   \* tokens for the input: the window without the output's reserve
    Reserve,     \* compaction.reserve_tokens
    Keep,        \* compaction.keep_recent_tokens
    Compacting,  \* compaction.enabled
    MaxTurns, MaxAttempts,
    MaxRuns,     \* bound of the model: commands
    MaxText      \* bound of the model: streamed events of one attempt

VARIABLES
    log,       \* the facts
    phase,     \* where the run stands
    purpose,   \* of the call: "turn", or an "automatic" or "manual" compaction
    round,     \* rounds begun
    messages,  \* the loop's copy of the projection
    retained,  \* what the compaction under way would keep
    sent,      \* the request under way
    attempt,   \* its attempt
    streamed,  \* number of events of this attempt
    shown,     \* events of this call the front end has been shown
    answer,    \* what the call returned
    cancel,    \* the cancel flag
    once,      \* stop_hook_active, plan_reminder_sent
    runs       \* commands taken

agentVars == <<log, phase, purpose, round, messages, retained, sent, attempt, streamed,
               shown, answer, cancel, once, runs>>

-----------------------------------------------------------------------------
(* Messages. *)

Text == [kind |-> "text", id |-> 0, big |-> FALSE]
Use(i) == [kind |-> "use", id |-> i, big |-> FALSE]
Result(i, big) == [kind |-> "result", id |-> i, big |-> big]
User(blocks) == [role |-> "user", blocks |-> blocks]
Assistant(blocks) == [role |-> "assistant", blocks |-> blocks]

Id == 1..MaxId

\* Only the model uses tools, only the user's side has results.
UserBlock == {Text} \cup {Result(i, big) : i \in Id, big \in BOOLEAN}
AnswerBlock == {Text} \cup {Use(i) : i \in Id}
ChatMessage == [role : {"user"}, blocks : Seq(UserBlock)]
               \cup [role : {"assistant"}, blocks : Seq(AnswerBlock)]
Fact == [kind : {"message", "reminder", "compaction", "change"}, ms : Seq(ChatMessage), usage : Nat]

\* The sum of a sequence of numbers; a sequence of sequences in one; what a
\* sequence has at some of its positions.
Total(s) ==
    LET upTo[i \in 0..Len(s)] == IF i = 0 THEN 0 ELSE upTo[i - 1] + s[i] IN upTo[Len(s)]
Concat(ss) ==
    LET upTo[i \in 0..Len(ss)] == IF i = 0 THEN <<>> ELSE upTo[i - 1] \o ss[i] IN upTo[Len(ss)]
Kept(s, places) == Concat([i \in DOMAIN s |-> IF i \in places THEN <<s[i]>> ELSE <<>>])

BlockSize(b) == IF b.big THEN 3 ELSE 1
message_chars(m) == Total([j \in DOMAIN m.blocks |-> BlockSize(m.blocks[j])])
Size(ms) == Total([i \in DOMAIN ms |-> message_chars(ms[i])])

\* Where a message has the use, or the result, of a call.
At(m, kind, i) == {j \in DOMAIN m.blocks : m.blocks[j].kind = kind /\ m.blocks[j].id = i}
IdsOf(m, kind) == {i \in Id : At(m, kind, i) # {}}
Places(ms, kind, i) == UNION {{n} \X At(ms[n], kind, i) : n \in DOMAIN ms}

(* Facts. *)

Message(m) == [kind |-> "message", ms |-> <<m>>, usage |-> 0]
Answered(m, usage) == [kind |-> "message", ms |-> <<m>>, usage |-> usage]
Reminder == [kind |-> "reminder", ms |-> <<User(<<Text>>)>>, usage |-> 0]
Compaction(ms) == [kind |-> "compaction", ms |-> <<User(<<Text>>)>> \o ms, usage |-> 0]
ModelChange == [kind |-> "change", ms |-> <<>>, usage |-> 0]

(* repair_tool_pairs: what a message becomes depends on the one before. *)

Missing(ids) == Kept([i \in Id |-> Result(i, FALSE)], ids)

\* The results that answer a pending use, the first of each.
KeepResults(blocks, pending) ==
    LET first(j) == \A k \in 1..(j - 1) :
                       blocks[k].kind = "result" => blocks[k].id # blocks[j].id
        stays(j) == blocks[j].kind = "result" => blocks[j].id \in pending /\ first(j)
    IN Kept(blocks, {j \in DOMAIN blocks : stays(j)})

\* The uses pending before message i, and what the message becomes.
Pending(ms, i) ==
    IF i > 1 /\ ms[i - 1].role = "assistant" THEN IdsOf(ms[i - 1], "use") ELSE {}

RepairOne(ms, i) ==
    LET pending == Pending(ms, i)
        answered == KeepResults(ms[i].blocks, pending)
        missing == pending \ IdsOf(User(answered), "result")
    IN IF ms[i].role = "user" THEN <<User(answered \o Missing(missing))>>
       ELSE (IF pending = {} THEN <<>> ELSE <<User(Missing(pending))>>) \o <<ms[i]>>

RepairToolPairs(ms) ==
    LET open == Pending(ms, Len(ms) + 1)
    IN Concat([i \in DOMAIN ms |-> RepairOne(ms, i)])
       \o (IF open = {} THEN <<>> ELSE <<User(Missing(open))>>)

(* project_model_messages *)

Latest(S) == IF S = {} THEN 0 ELSE CHOOSE n \in S : \A k \in S : k <= n
Start(l) == LET c == Latest({i \in DOMAIN l : l[i].kind = "compaction"}) IN IF c = 0 THEN 1 ELSE c
Raw(l) == Concat([i \in 1..(Len(l) + 1 - Start(l)) |-> l[Start(l) + i - 1].ms])
Projected(l) == RepairToolPairs(Raw(l))

\* The last answer with a usage that neither a compaction nor a model change follows.
Baseline(l) ==
    Latest({i \in DOMAIN l : l[i].usage > 0 /\ \A j \in i..Len(l) :
                              l[j].kind \notin {"compaction", "change"}})

estimate_tokens(l) ==
    LET b == Baseline(l)
    IN IF b = 0 THEN Size(Projected(l))
       ELSE l[b].usage + Size(Concat([i \in 1..(Len(l) - b) |-> l[b + i].ms]))

\* Each use of a call has an id of its own.
UsedOnce(ms) == \A i \in Id : \A p, q \in Places(ms, "use", i) : p = q

(* validate_tool_pairs: over the messages of one batch. *)
ValidPairs(ms) ==
    \A i \in Id : LET uses == Cardinality(Places(ms, "use", i))
                      results == Cardinality(Places(ms, "result", i))
                  IN uses = results /\ uses <= 1

\* What a process may find was written by this program: results may be lost,
\* repeated or left without a call, but the model has repeated no id.
ASSUME RunAssumption ==
    /\ MaxId \in Nat
    /\ \A l \in OldLogs : l \in Seq(Fact) /\ UsedOnce(Raw(l))

(* compaction.rs *)

should_compact(l) ==
    /\ Compacting
    /\ estimate_tokens(l) > (IF Available > Reserve THEN Available - Reserve ELSE 1)

SafeStart(m) == IdsOf(m, "result") = {}

\* prepare_compaction: where the kept messages begin, or 0.
Cut(ms) ==
    LET candidate == Latest({i \in DOMAIN ms : Size(SubSeq(ms, i, Len(ms))) >= Keep})
        safe == {i \in candidate..Len(ms) : SafeStart(ms[i])}
        cut == IF safe = {} THEN Len(ms) + 1 ELSE CHOOSE i \in safe : \A j \in safe : i <= j
    IN IF candidate = 0 THEN 0 ELSE IF cut = 1 THEN Len(ms) + 1 ELSE cut

(* context/budget.rs *)

\* shorten_old_tool_results: all but the last two messages.
Shortened(blocks) == [j \in DOMAIN blocks |-> [blocks[j] EXCEPT !.big = FALSE]]
Fold(ms) ==
    [i \in DOMAIN ms |-> IF i + 2 > Len(ms) THEN ms[i]
                        ELSE [ms[i] EXCEPT !.blocks = Shortened(ms[i].blocks)]]

-----------------------------------------------------------------------------
NoAnswer == [blocks |-> <<>>, events |-> 0, usage |-> 0]

Init ==
    /\ log \in OldLogs
    /\ phase = "idle" /\ purpose = "turn" /\ round = 0 /\ messages = <<>> /\ retained = <<>>
    /\ sent = <<>> /\ attempt = 0 /\ streamed = 0 /\ shown = <<>> /\ answer = NoAnswer
    /\ cancel = FALSE /\ once = {} /\ runs = 0

callVars == <<purpose, retained, sent, attempt, streamed, shown, answer>>

NoCall ==
    /\ purpose' = "turn" /\ retained' = <<>> /\ sent' = <<>> /\ attempt' = 0
    /\ streamed' = 0 /\ shown' = <<>> /\ answer' = NoAnswer

\* finish: the next command finds the agent idle.
Finish ==
    /\ phase' = "idle" /\ round' = 0 /\ messages' = <<>> /\ once' = {} /\ NoCall

Fail == Finish /\ UNCHANGED <<log, cancel, runs>>

\* The worker takes a command and lowers the flag.
Command == phase = "idle" /\ runs < MaxRuns /\ runs' = runs + 1 /\ cancel' = FALSE

\* run_turn: the prompt and what its hooks add are committed; a hook may block it.
RunTurn ==
    /\ Command
    /\ \E added \in {<<>>, <<Message(User(<<Text>>))>>} :
          LET facts == log \o <<Message(User(<<Text>>))>> \o added
          IN /\ log' = facts
             /\ \/ /\ phase' = "top" /\ messages' = Projected(facts)
                   /\ UNCHANGED <<round, once, callVars>>
                \/ added = <<>> /\ Finish

\* A model switch between runs.
RecordModelChange ==
    /\ Command /\ log' = Append(log, ModelChange)
    /\ UNCHANGED <<phase, round, messages, once, callVars>>

\* call_model: the first attempt.
CallModel(why, ms) ==
    /\ purpose' = why /\ sent' = ms /\ attempt' = 1
    /\ streamed' = 0 /\ shown' = <<>> /\ answer' = NoAnswer
    /\ phase' = "call"

\* compact_prepared: what comes before the cut is summarised; a manual
\* compaction takes the whole of a short history.
CutOrAll(ms) == IF Cut(ms) = 0 THEN Len(ms) + 1 ELSE Cut(ms)
Summarise(why, ms) ==
    /\ retained' = SubSeq(ms, CutOrAll(ms), Len(ms))
    /\ CallModel(why, <<User(<<Text>>)>>)

Compact ==
    /\ Command /\ Projected(log) # <<>>
    /\ Summarise("manual", Projected(log))
    /\ UNCHANGED <<log, round, messages, once>>

\* apply_budget: the view as it is, or folded, or no request at all.
Budgeted(ms) ==
    IF estimate_tokens(log) <= Available THEN ms
    ELSE IF Fold(ms) # ms /\ Size(Fold(ms)) <= Available THEN Fold(ms)
    ELSE <<>>

Request(ms) ==
    IF Budgeted(ms) = <<>> THEN Fail
    ELSE /\ CallModel("turn", Budgeted(ms)) /\ retained' = <<>>
         /\ UNCHANGED <<log, round, messages, cancel, once, runs>>

\* prepare_prompt, at the top of a round.
MustCompact == should_compact(log) /\ Cut(Projected(log)) # 0

PreparePrompt ==
    /\ phase = "top"
    /\ IF cancel THEN Fail
       ELSE IF MustCompact
       THEN /\ Summarise("automatic", Projected(log))
            /\ UNCHANGED <<log, round, messages, cancel, once, runs>>
       ELSE Request(messages)

\* After a compaction the request is built from the new projection.
Compacted == phase = "compacted" /\ Request(Projected(log))

(* The call. *)

Stream ==
    /\ phase = "call" /\ streamed < MaxText
    /\ streamed' = streamed + 1
    /\ shown' = IF purpose = "turn" THEN Append(shown, streamed + 1) ELSE shown
    /\ UNCHANGED <<log, phase, purpose, round, messages, retained, sent, attempt, answer,
                   cancel, once, runs>>

\* Ids no fact has: an answer takes the smallest.
Fresh == {i \in Id : \A n \in DOMAIN log : Places(log[n].ms, "use", i) = {}
                                            /\ Places(log[n].ms, "result", i) = {}}
Smallest(S) == CHOOSE n \in S : \A k \in S : n <= k
Answers ==
    {<<Text>>} \cup
    (IF Fresh = {} THEN {} ELSE {<<Text, Use(Smallest(Fresh))>>}) \cup
    (IF Cardinality(Fresh) < 2 THEN {}
     ELSE {LET i == Smallest(Fresh) IN <<Use(i), Use(Smallest(Fresh \ {i}))>>})

Returns(blocks) ==
    answer' = [blocks |-> blocks, events |-> streamed, usage |-> Size(sent) + Len(blocks)]

Done ==
    /\ phase = "call"
    /\ \E blocks \in IF purpose = "turn" THEN Answers ELSE {<<>>, <<Text>>} : Returns(blocks)
    /\ phase' = "answered"
    /\ UNCHANGED <<log, purpose, round, messages, retained, sent, attempt, streamed, shown,
                   cancel, once, runs>>

\* A cancelled automatic compaction raises the flag; whatever was cancelled, the run ends.
Aborted == phase \in {"call", "backoff"} /\ cancel /\ Fail

MayRetry == attempt < MaxAttempts /\ streamed = 0

\* A retryable error, and the server asks for no longer wait than the policy allows.
Backoff ==
    /\ phase = "call" /\ MayRetry /\ phase' = "backoff"
    /\ UNCHANGED <<log, round, messages, cancel, once, runs, callVars>>

AttemptFails == phase = "call" /\ Fail

\* Mutant of TryAgain: the attempts are not counted.
TryAgainUncounted ==
    /\ phase = "backoff" /\ ~cancel
    /\ streamed' = 0 /\ phase' = "call"
    /\ UNCHANGED <<log, purpose, round, messages, retained, sent, attempt, shown, answer,
                   cancel, once, runs>>

TryAgain ==
    /\ phase = "backoff" /\ ~cancel
    /\ attempt' = attempt + 1 /\ streamed' = 0 /\ phase' = "call"
    /\ UNCHANGED <<log, purpose, round, messages, retained, sent, shown, answer, cancel, once, runs>>

(* The answer. *)

Answer == Answered(Assistant(answer.blocks), answer.usage)

SummaryReturns ==
    /\ phase = "answered" /\ purpose # "turn"
    /\ \/ Fail                                   \* empty, or the log refuses
       \/ /\ answer.blocks # <<>> /\ ValidPairs(retained)
          /\ log' = Append(log, Compaction(retained))
          /\ IF purpose = "manual" THEN Finish /\ UNCHANGED <<cancel, runs>>
             ELSE /\ phase' = "compacted" /\ NoCall
                  /\ UNCHANGED <<round, messages, cancel, once, runs>>

\* Mutant of NextRound: the loop keeps its old copy.
NextRoundStale(flags, facts) ==
    /\ log' = facts
    /\ IF round + 1 < MaxTurns
       THEN /\ phase' = "top" /\ round' = round + 1 /\ once' = flags
            /\ NoCall /\ UNCHANGED <<messages, cancel, runs>>
       ELSE Finish /\ UNCHANGED <<cancel, runs>>

\* The facts are committed; the loop goes on with the new projection.
NextRound(flags, facts) ==
    /\ log' = facts
    /\ IF round + 1 < MaxTurns
       THEN /\ phase' = "top" /\ round' = round + 1 /\ once' = flags
            /\ messages' = Projected(facts)
            /\ NoCall /\ UNCHANGED <<cancel, runs>>
       ELSE Finish /\ UNCHANGED <<cancel, runs>>

AnswerIs(tools) ==
    /\ phase = "answered" /\ purpose = "turn"
    /\ (IdsOf(User(answer.blocks), "use") # {}) = tools

Continues(flag, fact) ==
    /\ AnswerIs(FALSE) /\ flag \notin once
    /\ NextRound(once \cup {flag}, log \o <<Answer, fact>>)

\* intercept_stop: the hooks want a check, once in a run.
InterceptStop == Continues("stop", Message(User(<<Text>>)))

\* prepare_next_turn: the plan has open items, nothing is queued, a round is left.
PrepareNextTurn == round + 1 < MaxTurns /\ Continues("reminder", Reminder)

\* commit_terminal_turn, and a queued input if there is one.
CommitTerminalTurn ==
    /\ AnswerIs(FALSE)
    /\ \/ log' = Append(log, Answer) /\ Finish /\ UNCHANGED <<cancel, runs>>
       \/ /\ ~cancel
          /\ NextRound(once, log \o <<Answer, Message(User(<<Text>>))>>)

\* execute_tool_turn: a result for each call, in one batch with the answer; then
\* the steering input, if there is one.
ToolResults(big) ==
    LET uses == Kept(answer.blocks, {j \in DOMAIN answer.blocks : answer.blocks[j].kind = "use"})
    IN User([i \in DOMAIN uses |-> Result(uses[i].id, big)])

ExecuteToolTurn ==
    /\ AnswerIs(TRUE)
    /\ \E big \in BOOLEAN, steered \in {<<>>, <<Message(User(<<Text>>))>>} :
          LET batch == <<Answer, Message(ToolResults(big))>>
          IN \/ ~cancel /\ NextRound(once, log \o batch \o steered)
             \/ /\ steered = <<>> /\ log' = log \o batch /\ Finish /\ UNCHANGED <<cancel, runs>>

\* A commit fails, or a call has no id or no name.
AnswerLost == phase = "answered" /\ purpose = "turn" /\ Fail

UserCancels ==
    /\ phase # "idle" /\ ~cancel /\ cancel' = TRUE
    /\ UNCHANGED <<log, phase, round, messages, once, runs, callVars>>

Run ==
    \/ Stream \/ Done \/ Aborted \/ Backoff \/ AttemptFails \/ TryAgain \/ AnswerLost
    \/ PreparePrompt \/ Compacted \/ SummaryReturns \/ InterceptStop \/ PrepareNextTurn \/ CommitTerminalTurn
    \/ ExecuteToolTurn

Next == RunTurn \/ RecordModelChange \/ Compact \/ Run \/ UserCancels

Spec == Init /\ [][Next]_agentVars

-----------------------------------------------------------------------------
(* Properties. *)

\* Each use is answered by the message after it, once, and nothing else is.
Paired(ms) ==
    \A i \in DOMAIN ms :
        LET next == IF i = Len(ms) THEN User(<<>>) ELSE ms[i + 1]
            uses == IF ms[i].role = "assistant" THEN IdsOf(ms[i], "use") ELSE {}
        IN /\ uses # {} => next.role = "user"
           /\ next.role = "user" => IdsOf(next, "result") = uses
           /\ \A id \in uses : Cardinality(At(next, "result", id)) = 1
           /\ (i = 1 /\ ms[1].role = "user") => IdsOf(ms[1], "result") = {}

\* Whatever log a process finds, however it was compacted and folded, the
\* provider is sent tool uses and results in pairs (session.rs:319-377).
SentPaired == phase = "call" /\ purpose = "turn" => Paired(sent)

\* A compaction keeps whole pairs, so that the log takes it (session.rs:404-413).
CompactionFits == phase = "call" /\ purpose # "turn" => ValidPairs(retained)

\* At the top of a round the loop's copy of the conversation is the log's, also
\* after a compaction replaced the projection behind its back (agent_loop.rs:230).
CopyIsLog == phase = "top" => messages = Projected(log)

\* What a front end was shown of a call is what the call returned: no attempt
\* is repeated after its first event (model_call.rs:91).
ShownIsAnswer ==
    phase = "answered" /\ purpose = "turn" => shown = [n \in 1..answer.events |-> n]

\* A run (run_agent_loop): all of it.
RunSound == SentPaired /\ CompactionFits /\ CopyIsLog /\ ShownIsAnswer

\* No request is larger than the window leaves room for (context/budget.rs:1-15).
SentFits == phase = "call" /\ purpose = "turn" => Size(sent) <= Available

\* A run ends, whatever the model answers: rounds, attempts, hooks and reminders
\* are all bounded (agent_loop.rs:230).
RunEnds == (phase # "idle") ~> (phase = "idle")
=============================================================================
