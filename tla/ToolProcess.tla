----------------------------- MODULE ToolProcess -----------------------------
(***************************************************************************)
(* The run of one external process for a tool: run_command                 *)
(* (tools/run_command.rs) and the Git queries (tools/git.rs), with the     *)
(* process tree behind them (process.rs).                                  *)
(*                                                                         *)
(* The tool's thread polls: it takes what the two pipe readers have sent,  *)
(* looks whether the process has exited, whether the user cancelled and    *)
(* whether the time is over, and kills in those cases.  When the process   *)
(* is gone it waits for the readers, which end when nobody holds the pipe  *)
(* any more, and takes the rest.  run_command keeps everything, a query at *)
(* most MaxBytes bytes of both streams together.                              *)
(*                                                                         *)
(* What the command does is external: the process writes, starts one       *)
(* descendant that inherits the pipes and may let go of them, and either   *)
(* exits by itself or never.  The spawn and the attaching of the job are   *)
(* one step: a descendant started between the two is in no job, like one   *)
(* of a tree that is held by none.  Bytes are numbered in the order        *)
(* written; Bytes bounds how many are.  Progress reports and the script    *)
(* file of PowerShell are left out.                                        *)
(***************************************************************************)
EXTENDS Naturals, Sequences, FiniteSets, SequencesExt

CONSTANTS
  Bytes,     \* bound on the bytes the processes write, for each kind of run
  PipeSize,  \* bytes a pipe holds
  Tick,      \* MAX_DRAIN_CHUNKS_PER_TICK
  MaxBytes   \* max_bytes of a query

ASSUME ProcessAssumption ==
  /\ Bytes \in [{"command", "query"} -> Nat]
  /\ PipeSize \in Nat /\ Tick \in Nat /\ MaxBytes \in Nat

Streams == {"stdout", "stderr"}

VARIABLES
  kind,      \* command or query
  tree,      \* what holds the descendant: job, taskkill or none
  step,      \* where the tool's thread is
  main,      \* the process: none, up, gone
  rest,      \* its descendant: none, up, detached (up without the pipes), gone
  pipe,      \* bytes in each pipe
  reader,    \* each reader: reading, ended, failed
  chan,      \* the chunks sent: the stream and the bytes
  got,       \* what the tool has of each stream
  written,   \* what was written to each stream
  cancelled, \* the user cancelled
  overtime,  \* the time is over
  cut,       \* truncated
  ending     \* how the run ends, for run_command; termination, for a query

tpVars == <<kind, tree, step, main, rest, pipe, reader, chan, got, written, cancelled,
            overtime, cut, ending>>

toolVars  == <<step, got, cut, ending>>
outerVars == <<kind, tree, written, cancelled, overtime>>

Total(f) == Len(f["stdout"]) + Len(f["stderr"])

Chunk == [stream : Streams, bytes : Seq(Nat)]

ProcessTypeOK ==
  /\ kind \in {"command", "query"}
  /\ tree \in {"job", "taskkill", "none"} /\ (kind = "query" => tree = "none")
  /\ step \in {"start", "take", "look", "ask", "stop", "close", "join", "last", "returned"}
  /\ main \in {"none", "up", "gone"}
  /\ rest \in {"none", "up", "detached", "gone"}
  /\ reader \in [Streams -> {"none", "reading", "ended", "failed"}]
  /\ pipe \in [Streams -> Seq(Nat)] /\ chan \in Seq(Chunk)
  /\ got \in [Streams -> Seq(Nat)] /\ written \in [Streams -> Seq(Nat)]
  /\ \A s \in Streams : Len(pipe[s]) <= PipeSize
  /\ Total(written) <= Bytes[kind]
  /\ cancelled \in BOOLEAN /\ overtime \in BOOLEAN /\ cut \in BOOLEAN
  /\ ending \in {"none", "exited", "cancelled", "timed_out", "wait_failed", "too_long",
                 "not_started"}

ProcessInit ==
  /\ kind \in {"command", "query"}
  /\ tree \in IF kind = "command" THEN {"job", "taskkill", "none"} ELSE {"none"}
  /\ step = "start" /\ main = "none" /\ rest = "none"
  /\ pipe = [s \in Streams |-> <<>>] /\ reader = [s \in Streams |-> "none"]
  /\ chan = <<>> /\ got = [s \in Streams |-> <<>>] /\ written = [s \in Streams |-> <<>>]
  /\ cancelled = FALSE /\ overtime = FALSE /\ cut = FALSE /\ ending = "none"

-----------------------------------------------------------------------------
(* The tool's thread.                                                      *)

Start ==
  /\ step = "start"
  /\ \/ /\ step' = "take" /\ main' = "up"
        /\ reader' = [s \in Streams |-> "reading"]
        /\ UNCHANGED ending
     \/ /\ step' = "returned" /\ ending' = "not_started"
        /\ UNCHANGED <<main, reader>>
  /\ UNCHANGED <<outerVars, rest, pipe, chan, got, cut>>

\* What is had after a chunk came, without and with a limit.
Kept(have, chunk) == [have EXCEPT ![chunk.stream] = @ \o chunk.bytes]
WithinLimit(have, chunk) ==
  LET n == Len(chunk.bytes)
      room == IF Total(have) >= MaxBytes THEN 0 ELSE MaxBytes - Total(have)
  IN  Kept(have, [chunk EXCEPT !.bytes = SubSeq(@, 1, IF n < room THEN n ELSE room)])

Take(have, chunk) == IF kind = "query" THEN WithinLimit(have, chunk) ELSE Kept(have, chunk)

Taken(n) ==
  LET after[i \in 0..n] == IF i = 0 THEN got ELSE Take(after[i - 1], chan[i])
  IN  /\ got' = after[n]
      /\ cut' = (cut \/ \E i \in 1..n : after[i] # Kept(after[i - 1], chan[i]))
      /\ chan' = SubSeq(chan, n + 1, Len(chan))

\* A limited number of chunks, so that the looks that follow are never late.
TakeSome ==
  /\ step = "take"
  /\ Taken(IF kind = "command" /\ Len(chan) > Tick THEN Tick ELSE Len(chan))
  /\ step' = IF kind = "command" THEN "look" ELSE "ask"
  /\ UNCHANGED <<outerVars, main, rest, pipe, reader, ending>>

\* kill_tree, and the plain kill of a query: a job ends the whole tree, taskkill
\* what it finds below a process that is still there, else it is the process
\* alone.
Kill ==
  /\ main' = "gone"
  /\ rest' = IF rest \in {"up", "detached"}
                /\ (tree = "job" \/ (tree = "taskkill" /\ main = "up"))
               THEN "gone" ELSE rest

Ends(how, next) == ending' = how /\ step' = next

\* try_wait of run_command; when it fails the tree is killed.
Look ==
  /\ step = "look"
  /\ \/ /\ main = "gone"
        /\ Ends("exited", "close")
        /\ UNCHANGED <<main, rest>>
     \/ main = "up" /\ step' = "ask" /\ UNCHANGED <<main, rest, ending>>
     \/ Kill /\ Ends("wait_failed", "close")
  /\ UNCHANGED <<outerVars, pipe, reader, chan, got, cut>>

\* A slip: the clock is looked at for a query only.
AskWithoutClock ==
  /\ step = "ask"
  /\ IF kind = "command"
       THEN \/ cancelled /\ Kill /\ Ends("cancelled", "close")
            \/ ~cancelled /\ step' = "take" /\ UNCHANGED <<main, rest, ending>>
       ELSE /\ ending' = IF overtime THEN "timed_out" ELSE IF cancelled THEN "cancelled"
                         ELSE IF cut THEN "too_long" ELSE ending
            /\ IF cut \/ cancelled \/ overtime THEN Kill ELSE UNCHANGED <<main, rest>>
            /\ step' = "stop"
  /\ UNCHANGED <<outerVars, pipe, reader, chan, got, cut>>

\* Cancellation first, then the clock.  A query is killed for any of its three
\* reasons, the later in the code naming the end, and looks afterwards.
Ask ==
  /\ step = "ask"
  /\ IF kind = "command"
       THEN \/ cancelled /\ Kill /\ Ends("cancelled", "close")
            \/ ~cancelled /\ overtime /\ Kill /\ Ends("timed_out", "close")
            \/ ~cancelled /\ ~overtime /\ step' = "take" /\ UNCHANGED <<main, rest, ending>>
       ELSE /\ ending' = IF overtime THEN "timed_out" ELSE IF cancelled THEN "cancelled"
                         ELSE IF cut THEN "too_long" ELSE ending
            /\ IF cut \/ cancelled \/ overtime THEN Kill ELSE UNCHANGED <<main, rest>>
            /\ step' = "stop"
  /\ UNCHANGED <<outerVars, pipe, reader, chan, got, cut>>

\* try_wait of a query; when it fails the query is over and the process left.
QueryLook ==
  /\ step = "stop"
  /\ \/ main = "gone" /\ step' = "join" /\ UNCHANGED ending
     \/ main = "up" /\ step' = "take" /\ UNCHANGED ending
     \/ Ends("wait_failed", "returned")
  /\ UNCHANGED <<outerVars, main, rest, pipe, reader, chan, got, cut>>

\* The last handle of the job is closed, which kills what is left in it.
CloseJob ==
  /\ step = "close"
  /\ step' = "join"
  /\ rest' = IF tree = "job" /\ rest \in {"up", "detached"} THEN "gone" ELSE rest
  /\ UNCHANGED <<outerVars, main, pipe, reader, chan, got, cut, ending>>

Join ==
  /\ step = "join"
  /\ \A s \in Streams : reader[s] \in {"ended", "failed"}
  /\ step' = "last"
  /\ UNCHANGED <<outerVars, main, rest, pipe, reader, chan, got, cut, ending>>

\* A slip: the last look takes no more than any other.
TakeLastTick ==
  /\ step = "last"
  /\ Taken(IF kind = "command" /\ Len(chan) > Tick THEN Tick ELSE Len(chan))
  /\ step' = "returned"
  /\ UNCHANGED <<outerVars, main, rest, pipe, reader, ending>>

TakeLast ==
  /\ step = "last"
  /\ Taken(Len(chan))
  /\ step' = "returned"
  /\ ending' = IF kind = "query" /\ ending \in {"none", "too_long"} THEN "exited" ELSE ending
  /\ UNCHANGED <<outerVars, main, rest, pipe, reader>>

-----------------------------------------------------------------------------
(* The readers, and the outside world.                                     *)

Holds == main = "up" \/ rest = "up"

Read(s) ==
  /\ reader[s] = "reading"
  /\ pipe[s] # <<>>
  /\ chan' = Append(chan, [stream |-> s, bytes |-> pipe[s]])
  /\ pipe' = [pipe EXCEPT ![s] = <<>>]
  /\ UNCHANGED <<toolVars, outerVars, main, rest, reader>>

ReadEnd(s) ==
  /\ reader[s] = "reading"
  /\ pipe[s] = <<>>
  /\ ~Holds
  /\ reader' = [reader EXCEPT ![s] = "ended"]
  /\ UNCHANGED <<toolVars, outerVars, main, rest, pipe, chan>>

ReadFails(s) ==
  /\ reader[s] = "reading"
  /\ reader' = [reader EXCEPT ![s] = "failed"]
  /\ UNCHANGED <<toolVars, outerVars, main, rest, pipe, chan>>

Write(s) ==
  /\ Holds
  /\ reader[s] = "reading"
  /\ Total(written) < Bytes[kind]
  /\ Len(pipe[s]) < PipeSize
  /\ pipe' = [pipe EXCEPT ![s] = Append(@, Total(written) + 1)]
  /\ written' = [written EXCEPT ![s] = Append(@, Total(written) + 1)]
  /\ UNCHANGED <<toolVars, kind, tree, cancelled, overtime, main, rest, reader, chan>>

Fork ==
  /\ main = "up" /\ rest = "none"
  /\ rest' = "up"
  /\ UNCHANGED <<toolVars, outerVars, main, pipe, reader, chan>>

Detach ==
  /\ rest = "up"
  /\ rest' = "detached"
  /\ UNCHANGED <<toolVars, outerVars, main, pipe, reader, chan>>

Exit ==
  /\ \/ main = "up" /\ main' = "gone" /\ UNCHANGED rest
     \/ rest \in {"up", "detached"} /\ rest' = "gone" /\ UNCHANGED main
  /\ UNCHANGED <<toolVars, outerVars, pipe, reader, chan>>

Cancel ==
  /\ step \notin {"start", "returned"} /\ ~cancelled
  /\ cancelled' = TRUE
  /\ UNCHANGED <<toolVars, kind, tree, overtime, written, main, rest, pipe, reader, chan>>

TimeIsOver ==
  /\ step \notin {"start", "returned"} /\ ~overtime
  /\ overtime' = TRUE
  /\ UNCHANGED <<toolVars, kind, tree, cancelled, written, main, rest, pipe, reader, chan>>

ToolSteps ==
  TakeSome \/ Look \/ Ask \/ QueryLook \/ CloseJob \/ Join \/ TakeLast

ProcessNext ==
  \/ Start \/ ToolSteps
  \/ \E s \in Streams : Read(s) \/ ReadEnd(s) \/ ReadFails(s) \/ Write(s)
  \/ Fork \/ Detach \/ Exit \/ Cancel \/ TimeIsOver

(***************************************************************************)
(* The tool's thread and the readers run and time passes; nothing is       *)
(* assumed of the processes, which may run for ever.                       *)
(***************************************************************************)
ProcessFairness ==
  /\ WF_tpVars(ToolSteps)
  /\ \A s \in Streams : WF_tpVars(Read(s) \/ ReadEnd(s))
  /\ WF_tpVars(TimeIsOver)

ProcessSpec == ProcessInit /\ [][ProcessNext]_tpVars /\ ProcessFairness

-----------------------------------------------------------------------------
\* What a tool returns of the output is what was written, in order: all of it
\* for run_command, the last bytes before the exit included, and for a query
\* the first bytes of each stream, which are said to be cut exactly when some
\* are missing.  A reader that failed makes run_command fail, and is passed
\* over in silence by a query (run_command.rs, "再 join、排空 channel";
\* git.rs, drain_chunks).
OutputWhole ==
  (step = "returned" /\ ending \notin {"not_started", "wait_failed"}) =>
    \/ \E s \in Streams : reader[s] = "failed"
    \/ kind = "command" /\ got = written
    \/ kind = "query" /\ \A s \in Streams : IsPrefix(got[s], written[s])
                      /\ Total(got) <= MaxBytes
                      /\ cut <=> got # written

\* When a tool has returned its process is gone, with a job every process that is
\* in it, and in any case every one that could still write; only a
\* query that could not ask for its process leaves it (process.rs,
\* "不遗留孤儿进程").
NothingRuns ==
  (step = "returned" /\ ~(kind = "query" /\ ending = "wait_failed")) =>
    /\ main # "up"
    /\ rest = "up" => \A s \in Streams : reader[s] = "failed"
    /\ tree = "job" => rest \notin {"up", "detached"}

\* The two, and the types: what a caller of run_command or of a query may rely on
\* (tools/run_command.rs, tools/git.rs).
ProcessSound == ProcessTypeOK /\ OutputWhole /\ NothingRuns

\* Every run of a process ends, whatever the process does, except for one that
\* is not held by a job and has left a descendant that keeps the pipes: for
\* that one neither the time limit nor a cancellation counts
\* (run_command.rs and git.rs, the polling loops).
ProcessReturns ==
  (step = "take") ~> (step = "returned" \/ (tree # "job" /\ rest = "up"))
=============================================================================
