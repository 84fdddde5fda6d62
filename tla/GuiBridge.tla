------------------------------ MODULE GuiBridge ------------------------------
(***************************************************************************)
(* The bridge of the desktop example between its web page and the `--rpc`  *)
(* processes it manages (src-tauri/src/rpc/process.rs, writer.rs,          *)
(* reader.rs and the rpc_* commands of main.rs), for one connection id.    *)
(*                                                                         *)
(* A handle owns one child process, a writer thread that alone writes the  *)
(* child's stdin, a reader thread that alone reads its stdout, a map of    *)
(* the requests that wait for an answer, and the child behind a mutex.     *)
(* Requests run on blocking threads: each clones the sender of the writer, *)
(* enters itself in the map, sends its frame and waits five minutes.  The  *)
(* writer ends, and so closes stdin, when no sender is left.  The reader   *)
(* stops at the end of stdout or at the first frame it cannot accept,      *)
(* then reaps the child under its mutex and fails what still waits.        *)
(*                                                                         *)
(* The child is onemore, or the cmd of a .cmd or .bat that has started it  *)
(* and waits for it.  Both then hold the ends of the pipes, so stdout ends *)
(* when both are gone, while wait and kill are of the child alone.         *)
(*                                                                         *)
(* onemore is external: it answers each request once, in any order and at  *)
(* any time, may write events, may write something unacceptable (BadFrames *)
(* of them at most), may crash or hang; it writes nothing while OutFrames  *)
(* frames wait in its stdout, and leaves at the end of its stdin after one *)
(* last frame.  A cmd may end with it, later, or before it.                *)
(***************************************************************************)
EXTENDS Naturals, Sequences, FiniteSets

CONSTANTS
  Handles,    \* one for each time a process is spawned
  NoHandle,   \* no connection is open
  Requests,   \* the requests of the page, each with an id of its own
  OutFrames,  \* frames a pipe from the child holds
  Reports,    \* bound on the events the child writes
  BadFrames   \* bound on the unacceptable frames it writes

VARIABLES
  slot,     \* RpcState.inner: the handle of the connection, or NoHandle
  stage,    \* what becomes of a handle: spawned, listed, being shut down
  child,    \* the process that was spawned: none, up, gone
  server,   \* onemore: none, child (it is the child), behind (a cmd), gone
  lock,     \* the mutex around the child: free, or who holds it
  writer,   \* none, running, ended
  reader,   \* none, reading, broken, reaping, reaped, done
  queue,    \* frames sent to the writer
  inbox,    \* frames the child has in its stdin
  out,      \* frames in the child's stdout
  pending,  \* calls entered in the map
  request,  \* where each request stands
  target,   \* the handle it found
  told,     \* what it returned
  left      \* events and bad frames the child may still write

gbVars == <<slot, stage, child, server, lock, writer, reader, queue, inbox, out, pending,
            request, target, told, left>>

processVars == <<child, server, lock, writer, reader, queue, inbox, out, left>>
callVars    == <<request, target, told>>

Hello == "hello"

\* The id of a request is none of what else a frame may say.
ASSUME BridgeAssumption ==
  /\ NoHandle \notin Handles
  /\ Requests \cap {Hello, "event", "bad"} = {}

TypeOK ==
  /\ slot \in Handles \cup {NoHandle}
  /\ stage \in [Handles -> {"free", "checked", "spawned", "listed", "closing", "killing",
                            "killed", "closed"}]
  /\ child \in [Handles -> {"none", "up", "gone"}]
  /\ server \in [Handles -> {"none", "child", "behind", "gone"}]
  /\ lock \in [Handles -> {"free", "reader", "stopper"}]
  /\ writer \in [Handles -> {"none", "running", "ended"}]
  /\ reader \in [Handles -> {"none", "reading", "broken", "reaping", "reaped", "done"}]
  /\ pending \in [Handles -> SUBSET Requests]
  /\ request \in [Requests -> {"idle", "found", "entered", "waiting", "expired", "over"}]
  /\ told \in [Requests -> {"nothing", "answered", "not_connected", "disconnected",
                         "request_timeout"}]

BridgeInit ==
  /\ slot = NoHandle
  /\ stage = [h \in Handles |-> "free"]
  /\ child = [h \in Handles |-> "none"]
  /\ server = [h \in Handles |-> "none"]
  /\ lock = [h \in Handles |-> "free"]
  /\ writer = [h \in Handles |-> "none"]
  /\ reader = [h \in Handles |-> "none"]
  /\ queue = [h \in Handles |-> <<>>]
  /\ inbox = [h \in Handles |-> {}]
  /\ out = [h \in Handles |-> <<>>]
  /\ pending = [h \in Handles |-> {}]
  /\ request = [c \in Requests |-> "idle"]
  /\ target = [c \in Requests |-> NoHandle]
  /\ told = [c \in Requests |-> "nothing"]
  /\ left = [events |-> Reports, bad |-> BadFrames]

(***************************************************************************)
(* rpc_start: looks for the connection under the lock, spawns without it,  *)
(* and looks again before it lists the handle.  The process that loses is  *)
(* shut down in the background.                                            *)
(***************************************************************************)
StartCheck(h) ==
  /\ stage[h] = "free"
  /\ slot = NoHandle
  /\ stage' = [stage EXCEPT ![h] = "checked"]
  /\ UNCHANGED <<slot, processVars, pending, callVars>>

Spawn(h) ==
  /\ stage[h] = "checked"
  /\ stage' = [stage EXCEPT ![h] = "spawned"]
  /\ child' = [child EXCEPT ![h] = "up"]
  /\ \E s \in {"child", "behind"} : server' = [server EXCEPT ![h] = s]
  /\ writer' = [writer EXCEPT ![h] = "running"]
  /\ reader' = [reader EXCEPT ![h] = "reading"]
  /\ queue' = [queue EXCEPT ![h] = <<Hello>>]
  /\ UNCHANGED <<slot, lock, inbox, out, left, pending, callVars>>

StartList(h) ==
  /\ stage[h] = "spawned"
  /\ IF slot = NoHandle
       THEN slot' = h /\ stage' = [stage EXCEPT ![h] = "listed"]
       ELSE stage' = [stage EXCEPT ![h] = "closing"] /\ UNCHANGED slot
  /\ UNCHANGED <<processVars, pending, callVars>>

(***************************************************************************)
(* rpc_stop, and the exit of the application: the handle leaves the map    *)
(* and is shut down.  shutdown drops its sender, waits ten seconds for the *)
(* reader to be done, and otherwise kills and reaps the child, for which   *)
(* it needs the mutex.                                                     *)
(***************************************************************************)
StopTake ==
  /\ slot # NoHandle
  /\ stage' = [stage EXCEPT ![slot] = "closing"]
  /\ slot' = NoHandle
  /\ UNCHANGED <<processVars, pending, callVars>>

ShutdownDone(h) ==
  /\ stage[h] = "closing"
  /\ reader[h] = "done"
  /\ stage' = [stage EXCEPT ![h] = "closed"]
  /\ UNCHANGED <<slot, processVars, pending, callVars>>

ShutdownExpires(h) ==
  /\ stage[h] = "closing"
  /\ stage' = [stage EXCEPT ![h] = "killing"]
  /\ UNCHANGED <<slot, processVars, pending, callVars>>

\* The child ends, and onemore with it when it is the child.
ChildEnds(h) ==
  /\ child' = [child EXCEPT ![h] = "gone"]
  /\ server' = [server EXCEPT ![h] = IF @ = "child" THEN "gone" ELSE @]

ShutdownKills(h) ==
  /\ stage[h] = "killing"
  /\ lock[h] = "free"
  /\ stage' = [stage EXCEPT ![h] = "killed"]
  /\ lock' = [lock EXCEPT ![h] = "stopper"]
  /\ ChildEnds(h)
  /\ UNCHANGED <<slot, writer, reader, queue, inbox, out, left, pending, callVars>>

ShutdownReaps(h) ==
  /\ stage[h] = "killed"
  /\ child[h] = "gone"
  /\ stage' = [stage EXCEPT ![h] = "closed"]
  /\ lock' = [lock EXCEPT ![h] = "free"]
  /\ UNCHANGED <<slot, child, server, writer, reader, queue, inbox, out, left, pending, callVars>>

(***************************************************************************)
(* rpc_request.                                                            *)
(***************************************************************************)
Return(c, what) ==
  /\ request' = [request EXCEPT ![c] = "over"]
  /\ told' = [told EXCEPT ![c] = what]

CallFind(c) ==
  /\ request[c] = "idle"
  /\ IF slot = NoHandle
       THEN Return(c, "not_connected") /\ UNCHANGED target
       ELSE /\ request' = [request EXCEPT ![c] = "found"]
            /\ target' = [target EXCEPT ![c] = slot]
            /\ UNCHANGED told
  /\ UNCHANGED <<slot, stage, processVars, pending>>

CallEnter(c) ==
  /\ request[c] = "found"
  /\ request' = [request EXCEPT ![c] = "entered"]
  /\ pending' = [pending EXCEPT ![target[c]] = @ \cup {c}]
  /\ UNCHANGED <<slot, stage, processVars, target, told>>

\* A writer that has ended refuses the frame; the entry stays in the map.
CallSend(c) ==
  LET h == target[c] IN
  /\ request[c] = "entered"
  /\ IF writer[h] = "running"
       THEN /\ queue' = [queue EXCEPT ![h] = Append(@, c)]
            /\ \/ c \in pending[h] /\ request' = [request EXCEPT ![c] = "waiting"] /\ UNCHANGED told
               \/ c \notin pending[h] /\ Return(c, "disconnected")
       ELSE Return(c, "disconnected") /\ UNCHANGED queue
  /\ UNCHANGED <<slot, stage, child, server, lock, writer, reader, inbox, out, left, pending, target>>

\* A slip: a request waits for its answer without a limit.
CallWaitsOn(c) == FALSE /\ c \in Requests /\ UNCHANGED gbVars

CallExpires(c) ==
  /\ request[c] = "waiting"
  /\ request' = [request EXCEPT ![c] = "expired"]
  /\ UNCHANGED <<slot, stage, processVars, pending, target, told>>

CallGivesUp(c) ==
  /\ request[c] = "expired"
  /\ pending' = [pending EXCEPT ![target[c]] = @ \ {c}]
  /\ Return(c, "request_timeout")
  /\ UNCHANGED <<slot, stage, processVars, target>>

(***************************************************************************)
(* The writer: one frame at a time, until a write fails or no sender is    *)
(* left.  Requests keep a sender until they return.                        *)
(***************************************************************************)
HasSender(h) ==
  \/ stage[h] \in {"spawned", "listed"}
  \/ \E c \in Requests : target[c] = h /\ request[c] \in {"found", "entered", "waiting", "expired"}

PipesClosed(h) == child[h] = "gone" /\ server[h] = "gone"

WriterWrites(h) ==
  /\ writer[h] = "running"
  /\ queue[h] # <<>>
  /\ IF ~PipesClosed(h)
       THEN inbox' = [inbox EXCEPT ![h] = @ \cup {Head(queue[h])}] /\ UNCHANGED writer
       ELSE writer' = [writer EXCEPT ![h] = "ended"] /\ UNCHANGED inbox
  /\ queue' = [queue EXCEPT ![h] = Tail(@)]
  /\ UNCHANGED <<slot, stage, child, server, lock, reader, out, left, pending, callVars>>

WriterEnds(h) ==
  /\ writer[h] = "running"
  /\ queue[h] = <<>>
  /\ ~HasSender(h)
  /\ writer' = [writer EXCEPT ![h] = "ended"]
  /\ UNCHANGED <<slot, stage, child, server, lock, reader, queue, inbox, out, left, pending, callVars>>

(***************************************************************************)
(* The reader.  A response finds its call in the map, or is a duplicate or *)
(* unknown one, which ends the connection like a frame that is not one.    *)
(***************************************************************************)
ReadFrame(h) ==
  LET frame == Head(out[h])
      found == frame \in pending[h] IN
  /\ reader[h] = "reading"
  /\ out[h] # <<>>
  /\ out' = [out EXCEPT ![h] = Tail(@)]
  /\ pending' = [pending EXCEPT ![h] = @ \ {frame}]
  /\ IF found /\ request[frame] = "waiting"
       THEN Return(frame, "answered")
       ELSE UNCHANGED <<request, told>>
  /\ reader' = IF found \/ frame \in {Hello, "event"} THEN reader
               ELSE [reader EXCEPT ![h] = "broken"]
  /\ UNCHANGED <<slot, stage, child, server, lock, writer, queue, inbox, left, target>>

ReadEnd(h) ==
  /\ reader[h] = "reading"
  /\ out[h] = <<>>
  /\ PipesClosed(h)
  /\ reader' = [reader EXCEPT ![h] = "broken"]
  /\ UNCHANGED <<slot, stage, child, server, lock, writer, queue, inbox, out, left, pending, callVars>>

\* A slip in the order: what waits is failed before the child is reaped.
ReapLockUnwaited(h) ==
  /\ reader[h] = "broken"
  /\ reader' = [reader EXCEPT ![h] = "reaped"]
  /\ UNCHANGED <<slot, stage, child, server, lock, writer, queue, inbox, out, left, pending, callVars>>

\* wait_child: the mutex is held for as long as the child lives.
ReapLock(h) ==
  /\ reader[h] = "broken"
  /\ lock[h] = "free"
  /\ lock' = [lock EXCEPT ![h] = "reader"]
  /\ reader' = [reader EXCEPT ![h] = "reaping"]
  /\ UNCHANGED <<slot, stage, child, server, writer, queue, inbox, out, left, pending, callVars>>

Reap(h) ==
  /\ reader[h] = "reaping"
  /\ child[h] = "gone"
  /\ lock' = [lock EXCEPT ![h] = "free"]
  /\ reader' = [reader EXCEPT ![h] = "reaped"]
  /\ UNCHANGED <<slot, stage, child, server, writer, queue, inbox, out, left, pending, callVars>>

\* A request that has not sent its frame yet finds the answer when it waits.
FailPending(h) ==
  LET failed == {c \in pending[h] : request[c] = "waiting"} IN
  /\ reader[h] = "reaped"
  /\ reader' = [reader EXCEPT ![h] = "done"]
  /\ pending' = [pending EXCEPT ![h] = {}]
  /\ request' = [c \in Requests |-> IF c \in failed THEN "over" ELSE request[c]]
  /\ told' = [c \in Requests |-> IF c \in failed THEN "disconnected" ELSE told[c]]
  /\ UNCHANGED <<slot, stage, child, server, lock, writer, queue, inbox, out, left, target>>

(***************************************************************************)
(* onemore, and the cmd before it.                                         *)
(***************************************************************************)
Writes(h, frame) ==
  /\ server[h] \in {"child", "behind"}
  /\ Len(out[h]) < OutFrames
  /\ out' = [out EXCEPT ![h] = Append(@, frame)]

ChildAnswers(h) ==
  \E frame \in inbox[h] :
    /\ Writes(h, frame)
    /\ inbox' = [inbox EXCEPT ![h] = @ \ {frame}]
    /\ UNCHANGED <<slot, stage, child, server, lock, writer, reader, queue, left, pending, callVars>>

ChildReports(h) ==
  /\ left.events > 0
  /\ Writes(h, "event")
  /\ left' = [left EXCEPT !.events = @ - 1]
  /\ UNCHANGED <<slot, stage, child, server, lock, writer, reader, queue, inbox, pending, callVars>>

ChildErrs(h) ==
  /\ left.bad > 0
  /\ Writes(h, "bad")
  /\ left' = [left EXCEPT !.bad = @ - 1]
  /\ UNCHANGED <<slot, stage, child, server, lock, writer, reader, queue, inbox, pending, callVars>>

ServerEnds(h) ==
  /\ server' = [server EXCEPT ![h] = "gone"]
  /\ child' = [child EXCEPT ![h] = IF server[h] = "child" THEN "gone" ELSE @]

ChildLeaves(h) ==
  /\ writer[h] = "ended"
  /\ Writes(h, "event") /\ ServerEnds(h)
  /\ UNCHANGED <<slot, stage, lock, writer, reader, queue, inbox, left, pending, callVars>>

ChildCrashes(h) ==
  /\ server[h] \in {"child", "behind"} /\ ServerEnds(h)
  /\ UNCHANGED <<slot, stage, lock, writer, reader, queue, inbox, out, left, pending, callVars>>

LauncherEnds(h) ==
  /\ child[h] = "up" /\ server[h] # "child"
  /\ ChildEnds(h)
  /\ UNCHANGED <<slot, stage, lock, writer, reader, queue, inbox, out, left, pending, callVars>>

ReaderSteps(h) == ReadFrame(h) \/ ReadEnd(h) \/ ReapLock(h) \/ Reap(h) \/ FailPending(h)
WriterSteps(h) == WriterWrites(h) \/ WriterEnds(h)
ShutdownSteps(h) ==
  ShutdownDone(h) \/ ShutdownExpires(h) \/ ShutdownKills(h) \/ ShutdownReaps(h)
CallSteps(c) == CallEnter(c) \/ CallSend(c) \/ CallExpires(c) \/ CallGivesUp(c)

BridgeNext ==
  \/ StopTake
  \/ \E h \in Handles :
       \/ StartCheck(h) \/ Spawn(h) \/ StartList(h)
       \/ ShutdownSteps(h) \/ WriterSteps(h) \/ ReaderSteps(h)
       \/ ChildAnswers(h) \/ ChildReports(h) \/ ChildErrs(h) \/ ChildLeaves(h) \/ ChildCrashes(h)
       \/ LauncherEnds(h)
  \/ \E c \in Requests : CallFind(c) \/ CallSteps(c)

(***************************************************************************)
(* The bridge's own threads run: the reader, the blocking thread of a      *)
(* request and the one of a shutdown.  Nothing is assumed of the child, of *)
(* the writer, which may block on a full stdin, or of the page.            *)
(***************************************************************************)
Fairness ==
  /\ \A h \in Handles : WF_gbVars(ReaderSteps(h)) /\ WF_gbVars(ShutdownSteps(h))
  /\ \A c \in Requests : WF_gbVars(CallSteps(c))

BridgeSpec == BridgeInit /\ [][BridgeNext]_gbVars /\ Fairness

-----------------------------------------------------------------------------
\* A shutdown that has returned leaves no child behind, on either of its two
\* ways, and no onemore it has spawned itself: one that is left was started by a
\* cmd, which is all that kill and wait reach.  A request is told "disconnected"
\* only when the child is gone.  And a child that lives is the one listed or one
\* that a start or a shutdown still has in its hands (rpc_start, shutdown,
\* reader_loop).
BridgeSound ==
  /\ \A h \in Handles :
       stage[h] = "closed" => child[h] = "gone" /\ server[h] \in {"behind", "gone"}
  /\ \A c \in Requests :
       told[c] = "disconnected" =>
         child[target[c]] = "gone" /\ server[target[c]] \in {"behind", "gone"}
  /\ \A h \in Handles :
       child[h] = "up" => \/ h = slot
                          \/ stage[h] \in {"spawned", "closing", "killing"}

\* Every request returns, whatever the child does, and every shutdown returns
\* unless the reader has given the connection up (recv_timeout in rpc_request
\* and in shutdown).
BridgeReturns ==
  /\ \A c \in Requests : (request[c] = "found") ~> (request[c] = "over")
  /\ \A h \in Handles :
       (stage[h] = "closing") ~> \/ stage[h] = "closed"
                                 \/ reader[h] = "reaping" /\ child[h] = "up"
=============================================================================
