--------------------------- MODULE FrontEndProofs ----------------------------
(***************************************************************************)
(* Theorems about the two front ends.  GuiBridge, for every number of      *)
(* processes, requests and frames: no process is left behind, and a        *)
(* request is told that it was disconnected only when nothing can carry it *)
(* out any more.  FrontEnd, for every channel, batch and number of keys:   *)
(* the screen shows the session it is attached to, an answer whole, and a  *)
(* settled session leaves nothing open.                                    *)
(***************************************************************************)
EXTENDS FrontEnd, GuiBridge, Functions, SequenceTheorems, WellFoundedInduction, TLAPS

-----------------------------------------------------------------------------
(* A queue as the set of what waits in it.                                 *)

\* The empty queue holds nothing.
LEMMA EmptyQueue == Range(<<>>) = {} /\ IsInjective(<<>>)
  BY DEF Range, IsInjective

\* Appending adds one element.
LEMMA RangeAppend ==
    ASSUME NEW S, NEW q \in Seq(S), NEW e \in S
    PROVE  Range(Append(q, e)) = Range(q) \cup {e}
<1> DEFINE r == Append(q, e)
<1>1. /\ DOMAIN r = 1 .. Len(q) + 1
      /\ \A i \in 1 .. Len(q) : r[i] = q[i]
      /\ r[Len(q) + 1] = e
      /\ DOMAIN q = 1 .. Len(q)
  BY AppendProperties
<1>2. Range(r) \subseteq Range(q) \cup {e}
  BY <1>1, LenProperties DEF Range
<1>3. Range(q) \subseteq Range(r)
  <2> SUFFICES ASSUME NEW i \in 1 .. Len(q) PROVE q[i] \in Range(r)
    BY <1>1 DEF Range
  <2> QED BY <1>1, LenProperties, i \in DOMAIN r DEF Range
<1>4. e \in Range(r)
  BY <1>1, LenProperties DEF Range
<1> QED BY <1>2, <1>3, <1>4

-----------------------------------------------------------------------------
(* The inductive invariant.                                                *)

Sent    == Requests \cup {Hello}
Written == Requests \cup {Hello, "event", "bad"}

\* The frames on their way, and the handle a request found.
Framed ==
  /\ queue \in [Handles -> Seq(Sent)]
  /\ inbox \in [Handles -> SUBSET Sent]
  /\ out \in [Handles -> Seq(Written)]
  /\ target \in [Requests -> Handles \cup {NoHandle}]

\* A handle's stage, its child, its two threads and the mutex agree; onemore does
\* not outlive the child that it is.
Staged(h) ==
  /\ child[h] = "none" <=> stage[h] \in {"free", "checked"}
  /\ server[h] = "none" <=> child[h] = "none"
  /\ server[h] = "child" => child[h] = "up"
  /\ writer[h] = "none" <=> child[h] = "none"
  /\ reader[h] = "none" <=> child[h] = "none"
  /\ stage[h] = "listed" <=> slot = h
  /\ stage[h] \in {"killed", "closed"} => child[h] = "gone"
  /\ reader[h] \in {"reaped", "done"} => child[h] = "gone"

\* A request that runs has found a process; it stands in the map of that
\* process from the time it entered until it is answered, or the child is gone.
Active == {"found", "entered", "waiting", "expired"}
Aimed(c) ==
  /\ request[c] \in Active => target[c] \in Handles /\ child[target[c]] # "none"
  /\ request[c] # "over" => told[c] = "nothing"
  /\ request[c] = "entered" => c \in pending[target[c]] \/ child[target[c]] = "gone"
  /\ told[c] = "disconnected" => target[c] \in Handles /\ child[target[c]] = "gone"
  /\ \A h \in Handles : c \in pending[h] => target[c] = h /\ request[c] \notin {"idle", "found"}

\* The writer ends under a request only when the child is gone.
WriterServes(h) == writer[h] = "ended" /\ HasSender(h) => child[h] = "gone"

\* A request that has not been sent is in none of the pipes.
Unsent(c) ==
  request[c] \in {"idle", "found", "entered"} =>
    \A h \in Handles : c \notin Range(queue[h]) \cup inbox[h] \cup Range(out[h])

BridgeInv ==
  /\ TypeOK /\ Framed
  /\ \A h \in Handles : Staged(h) /\ WriterServes(h)
  /\ \A c \in Requests : Aimed(c) /\ Unsent(c)

-----------------------------------------------------------------------------
(* Queues and functions.                                                   *)

\* What is left of a queue was in it, and so was its head.
LEMMA RangeOfTail ==
    ASSUME NEW S, NEW q \in Seq(S), q # <<>>
    PROVE  /\ Head(q) \in S /\ Head(q) \in Range(q)
           /\ Tail(q) \in Seq(S) /\ Range(Tail(q)) \subseteq Range(q)
<1>1. /\ Head(q) = q[1] /\ Head(q) \in S /\ Tail(q) \in Seq(S)
      /\ Len(q) \in Nat \ {0} /\ DOMAIN q = 1..Len(q)
      /\ DOMAIN Tail(q) = 1..Len(q) - 1
      /\ \A i \in 1..Len(q) - 1 : Tail(q)[i] = q[i + 1]
  BY HeadTailProperties, LenProperties
<1>2. \A i \in 1..Len(q) - 1 : i + 1 \in 1..Len(q)
  BY <1>1
<1> QED BY <1>1, <1>2 DEF Range

\* A child that is there, or gone, is so for good.
LEMMA ChildStays ==
    ASSUME BridgeInv, BridgeNext, NEW h \in Handles
    PROVE  /\ child[h] = "gone" => child'[h] = "gone"
           /\ child[h] # "none" => child'[h] # "none"
<1>1. /\ child \in [Handles -> {"none", "up", "gone"}]
      /\ server[h] = "child" => child[h] = "up"
  BY DEF BridgeInv, TypeOK, Staged
<1>2. \A g \in Handles : Spawn(g) => child[g] = "none" /\ child' = [child EXCEPT ![g] = "up"]
  BY DEF BridgeInv, Staged, Spawn
<1>3. \/ child' = child
      \/ \E g \in Handles : Spawn(g)
      \/ \E g \in Handles : \E end \in {child[g], "gone"} : child' = [child EXCEPT ![g] = end]
  BY DEF ChildEnds, ServerEnds, BridgeNext, StopTake, StartCheck, StartList, ShutdownSteps, ShutdownDone, ShutdownExpires,
     ShutdownKills, ShutdownReaps, WriterSteps, WriterWrites, WriterEnds, ReaderSteps, ReadFrame,
     ReadEnd, ReapLock, Reap, FailPending, ChildAnswers, ChildReports, ChildErrs, ChildLeaves,
     ChildCrashes, LauncherEnds, CallFind, CallSteps, CallEnter, CallSend, CallExpires, CallGivesUp, processVars
<1> QED BY <1>1, <1>2, <1>3

\* Who moves a request, and who a writer.
LEMMA CallsMoved ==
    ASSUME BridgeNext
    PROVE  \/ UNCHANGED callVars
           \/ \E c \in Requests : CallFind(c) \/ CallSteps(c)
           \/ \E h \in Handles : ReadFrame(h) \/ FailPending(h)
<1>1. StopTake => UNCHANGED callVars
  BY DEF StopTake
<1>2. \A h \in Handles : StartCheck(h) \/ Spawn(h) \/ StartList(h) \/ WriterSteps(h)
                           => UNCHANGED callVars
  BY DEF StartCheck, Spawn, StartList, WriterSteps, WriterWrites, WriterEnds
<1>3. \A h \in Handles : ShutdownSteps(h) => UNCHANGED callVars
  BY DEF ShutdownSteps, ShutdownDone, ShutdownExpires, ShutdownKills, ShutdownReaps
<1>4. \A h \in Handles : ReadEnd(h) \/ ReapLock(h) \/ Reap(h) => UNCHANGED callVars
  BY DEF ReadEnd, ReapLock, Reap
<1>5. \A h \in Handles : \/ ChildAnswers(h) \/ ChildReports(h) \/ ChildErrs(h) \/ ChildLeaves(h)
                        \/ ChildCrashes(h) \/ LauncherEnds(h)
                           => UNCHANGED callVars
  BY DEF ChildAnswers, ChildReports, ChildErrs, ChildLeaves, ChildCrashes, LauncherEnds
<1> QED BY <1>1, <1>2, <1>3, <1>4, <1>5 DEF BridgeNext, ReaderSteps

LEMMA WriterMoved ==
    ASSUME BridgeNext
    PROVE  writer' = writer \/ \E h \in Handles : Spawn(h) \/ WriterSteps(h)
<1>1. StopTake => writer' = writer
  BY DEF StopTake, processVars
<1>2. \A h \in Handles : StartCheck(h) \/ StartList(h) \/ ReaderSteps(h) => writer' = writer
  BY DEF StartCheck, StartList, ReaderSteps, ReadFrame, ReadEnd, ReapLock, Reap, FailPending,
     processVars
<1>3. \A h \in Handles : ShutdownSteps(h) => writer' = writer
  BY DEF ShutdownSteps, ShutdownDone, ShutdownExpires, ShutdownKills, ShutdownReaps, processVars
<1>4. \A h \in Handles : \/ ChildAnswers(h) \/ ChildReports(h) \/ ChildErrs(h) \/ ChildLeaves(h)
                        \/ ChildCrashes(h) \/ LauncherEnds(h)
                           => writer' = writer
  BY DEF ChildAnswers, ChildReports, ChildErrs, ChildLeaves, ChildCrashes, LauncherEnds
<1>5. \A c \in Requests : CallFind(c) \/ CallSteps(c) => writer' = writer
  BY DEF CallFind, CallSteps, CallEnter, CallSend, CallExpires, CallGivesUp, processVars
<1> QED BY <1>1, <1>2, <1>3, <1>4, <1>5 DEF BridgeNext

-----------------------------------------------------------------------------
(* The initial state.                                                      *)

LEMMA InitBridge == BridgeInit => BridgeInv
<1> SUFFICES ASSUME BridgeInit PROVE BridgeInv
  OBVIOUS
<1>1. TypeOK
  BY DEF BridgeInit, TypeOK
<1>2. Framed
  BY EmptySeq DEF BridgeInit, Framed
<1>3. \A h \in Handles : Staged(h) /\ WriterServes(h)
  BY BridgeAssumption DEF BridgeInit, Staged, WriterServes
<1>4. \A c \in Requests : Aimed(c)
  BY DEF BridgeInit, Aimed, Active
<1>5. \A c \in Requests : Unsent(c)
  BY EmptyQueue DEF BridgeInit, Unsent
<1> QED BY <1>1, <1>2, <1>3, <1>4, <1>5 DEF BridgeInv

-----------------------------------------------------------------------------
(* Types.                                                                  *)

LEMMA TypesStep ==
    ASSUME BridgeInv, BridgeNext PROVE TypeOK'
<1> USE DEF TypeOK
<1>1. TypeOK
  BY DEF BridgeInv
<1>2. CASE StopTake
  BY <1>1, <1>2 DEF StopTake, processVars, callVars
<1>3. ASSUME NEW h \in Handles, StartCheck(h) \/ Spawn(h) \/ StartList(h) PROVE TypeOK'
  BY <1>1, <1>3 DEF StartCheck, Spawn, StartList, processVars, callVars
<1>4. ASSUME NEW h \in Handles, ShutdownSteps(h) PROVE TypeOK'
  BY <1>1, <1>4 DEF ShutdownSteps, ShutdownDone, ShutdownExpires, ShutdownKills, ShutdownReaps,
     ChildEnds, processVars, callVars
<1>5. ASSUME NEW h \in Handles, WriterSteps(h) PROVE TypeOK'
  BY <1>1, <1>5 DEF WriterSteps, WriterWrites, WriterEnds, callVars
<1>6. ASSUME NEW h \in Handles, ReadFrame(h) PROVE TypeOK'
  BY <1>1, <1>6, SMTT(30) DEF ReadFrame, Return
<1>7. ASSUME NEW h \in Handles, ReadEnd(h) \/ ReapLock(h) \/ Reap(h) PROVE TypeOK'
  BY <1>1, <1>7 DEF ReadEnd, ReapLock, Reap, callVars
<1>8. ASSUME NEW h \in Handles, FailPending(h) PROVE TypeOK'
  BY <1>1, <1>8 DEF FailPending
<1>9. ASSUME NEW h \in Handles, ChildAnswers(h) \/ ChildReports(h) \/ ChildErrs(h)
                                \/ ChildLeaves(h) \/ ChildCrashes(h)
                                \/ LauncherEnds(h)
      PROVE  TypeOK'
  BY <1>1, <1>9 DEF ChildEnds, ServerEnds, ChildAnswers, ChildReports, ChildErrs, ChildLeaves, ChildCrashes, LauncherEnds, callVars
<1>10. ASSUME NEW c \in Requests, CallFind(c) \/ CallExpires(c) PROVE TypeOK'
  BY <1>1, <1>10 DEF CallFind, CallExpires, Return, processVars
<1>11. ASSUME NEW c \in Requests, CallEnter(c) \/ CallGivesUp(c) PROVE TypeOK'
  BY <1>1, <1>11 DEF CallEnter, CallGivesUp, Return, processVars
<1>12. ASSUME NEW c \in Requests, CallSend(c) PROVE TypeOK'
  BY <1>1, <1>12 DEF CallSend, Return
<1> QED BY <1>2, <1>3, <1>4, <1>5, <1>6, <1>7, <1>8, <1>9, <1>10, <1>11, <1>12
        DEF BridgeNext, ReaderSteps, CallSteps

LEMMA FramedStep ==
    ASSUME BridgeInv, BridgeNext PROVE Framed'
<1>1. /\ queue \in [Handles -> Seq(Sent)] /\ inbox \in [Handles -> SUBSET Sent]
      /\ out \in [Handles -> Seq(Written)] /\ target \in [Requests -> Handles \cup {NoHandle}]
      /\ slot \in Handles \cup {NoHandle}
  BY DEF BridgeInv, Framed, TypeOK
<1>2. queue' \in [Handles -> Seq(Sent)]
  <2>1. ASSUME NEW h \in Handles, Spawn(h) PROVE queue' \in [Handles -> Seq(Sent)]
    <3>1. <<Hello>> \in Seq(Sent)
      BY DEF Sent
    <3> QED BY <1>1, <2>1, <3>1 DEF Spawn
  <2>2. ASSUME NEW h \in Handles, WriterWrites(h) PROVE queue' \in [Handles -> Seq(Sent)]
    <3>1. Tail(queue[h]) \in Seq(Sent)
      BY <1>1, <2>2, RangeOfTail DEF WriterWrites
    <3> QED BY <1>1, <2>2, <3>1 DEF WriterWrites
  <2>3. ASSUME NEW c \in Requests, CallSend(c) PROVE queue' \in [Handles -> Seq(Sent)]
    <3>1. c \in Sent /\ target[c] \in Handles
      BY <2>3 DEF Sent, CallSend, BridgeInv, Aimed, Active
    <3>2. Append(queue[target[c]], c) \in Seq(Sent)
      BY <1>1, <3>1, AppendProperties
    <3> QED BY <1>1, <2>3, <3>2 DEF CallSend
  <2>4. CASE queue' = queue
    BY <1>1, <2>4
  <2> QED BY <2>1, <2>2, <2>3, <2>4 DEF BridgeNext, StopTake, StartCheck, StartList,
        ShutdownSteps, ShutdownDone, ShutdownExpires, ShutdownKills, ShutdownReaps, WriterSteps,
        WriterEnds, ReaderSteps, ReadFrame, ReadEnd, ReapLock, Reap, FailPending, ChildAnswers,
        ChildReports, ChildErrs, ChildLeaves, ChildCrashes, LauncherEnds, CallFind, CallSteps, CallEnter,
        CallExpires, CallGivesUp, processVars
<1>3. inbox' \in [Handles -> SUBSET Sent]
  <2>1. ASSUME NEW h \in Handles, WriterWrites(h) PROVE inbox' \in [Handles -> SUBSET Sent]
    <3>1. Head(queue[h]) \in Sent
      BY <1>1, <2>1, RangeOfTail DEF WriterWrites
    <3>2. inbox' \in {inbox, [inbox EXCEPT ![h] = @ \cup {Head(queue[h])}]}
      BY <2>1 DEF WriterWrites
    <3> QED BY <1>1, <3>1, <3>2
  <2>2. ASSUME NEW h \in Handles, ChildAnswers(h) PROVE inbox' \in [Handles -> SUBSET Sent]
    BY <1>1, <2>2 DEF ChildAnswers
  <2>3. CASE inbox' = inbox
    BY <1>1, <2>3
  <2> QED BY <2>1, <2>2, <2>3 DEF BridgeNext, StopTake, StartCheck, Spawn, StartList,
        ShutdownSteps, ShutdownDone, ShutdownExpires, ShutdownKills, ShutdownReaps, WriterSteps,
        WriterEnds, ReaderSteps, ReadFrame, ReadEnd, ReapLock, Reap, FailPending,
        ChildReports, ChildErrs, ChildLeaves, ChildCrashes, LauncherEnds, CallFind, CallSteps, CallEnter,
        CallSend, CallExpires, CallGivesUp, processVars
<1>4. out' \in [Handles -> Seq(Written)]
  <2>1. ASSUME NEW h \in Handles, ReadFrame(h) PROVE out' \in [Handles -> Seq(Written)]
    <3>1. Tail(out[h]) \in Seq(Written)
      BY <1>1, <2>1, RangeOfTail DEF ReadFrame
    <3> QED BY <1>1, <2>1, <3>1 DEF ReadFrame
  <2>2. ASSUME NEW h \in Handles, NEW written \in Written, Writes(h, written)
        PROVE  out' \in [Handles -> Seq(Written)]
    <3>1. Append(out[h], written) \in Seq(Written)
      BY <1>1, AppendProperties
    <3> QED BY <1>1, <2>2, <3>1 DEF Writes
  <2>3. ASSUME NEW h \in Handles, ChildAnswers(h) PROVE \E written \in Written : Writes(h, written)
    BY <1>1, <2>3 DEF ChildAnswers, Sent, Written
  <2>4. ASSUME NEW h \in Handles, ChildReports(h) \/ ChildErrs(h) \/ ChildLeaves(h)
        PROVE  \E written \in Written : Writes(h, written)
    BY <2>4 DEF ChildReports, ChildErrs, ChildLeaves, Written
  <2>5. CASE out' = out
    BY <1>1, <2>5
  <2>6. (\E h \in Handles : ReadFrame(h) \/ ChildAnswers(h) \/ ChildReports(h) \/ ChildErrs(h)
                             \/ ChildLeaves(h))
        \/ out' = out
    BY DEF BridgeNext, StopTake, StartCheck, Spawn, StartList,
        ShutdownSteps, ShutdownDone, ShutdownExpires, ShutdownKills, ShutdownReaps, WriterSteps,
        WriterWrites, WriterEnds, ReaderSteps, ReadEnd, ReapLock, Reap, FailPending,
        ChildCrashes, LauncherEnds, CallFind, CallSteps, CallEnter, CallSend, CallExpires, CallGivesUp,
        processVars
  <2> QED BY <2>1, <2>2, <2>3, <2>4, <2>5, <2>6
<1>5. target' \in [Requests -> Handles \cup {NoHandle}]
  <2>1. ASSUME NEW c \in Requests, CallFind(c) PROVE target' \in [Requests -> Handles \cup {NoHandle}]
    BY <1>1, <2>1 DEF CallFind
  <2>2. (\E c \in Requests : CallFind(c)) \/ target' = target
    BY DEF BridgeNext, StopTake, StartCheck, Spawn, StartList,
        ShutdownSteps, ShutdownDone, ShutdownExpires, ShutdownKills, ShutdownReaps, WriterSteps,
        WriterWrites, WriterEnds, ReaderSteps, ReadFrame, ReadEnd, ReapLock, Reap, FailPending,
        ChildAnswers, ChildReports, ChildErrs, ChildLeaves, ChildCrashes, LauncherEnds, CallSteps, CallEnter,
        CallSend, CallExpires, CallGivesUp, callVars
  <2> QED BY <1>1, <2>1, <2>2
<1> QED BY <1>2, <1>3, <1>4, <1>5 DEF Framed

-----------------------------------------------------------------------------
(* A handle and its process.                                               *)

LEMMA StagedStep ==
    ASSUME BridgeInv, BridgeNext, NEW g \in Handles PROVE Staged(g)'
<1> USE DEF Staged
<1>1. /\ \A h \in Handles : Staged(h)
      /\ stage \in [Handles -> {"free", "checked", "spawned", "listed", "closing", "killing",
                                "killed", "closed"}]
      /\ child \in [Handles -> {"none", "up", "gone"}]
      /\ server \in [Handles -> {"none", "child", "behind", "gone"}]
      /\ writer \in [Handles -> {"none", "running", "ended"}]
      /\ reader \in [Handles -> {"none", "reading", "broken", "reaping", "reaped", "done"}]
      /\ slot \in Handles \cup {NoHandle} /\ NoHandle \notin Handles
  BY BridgeAssumption DEF BridgeInv, TypeOK
<1>2. CASE StopTake
  BY <1>1, <1>2 DEF StopTake, processVars
<1>3. ASSUME NEW h \in Handles, StartCheck(h) PROVE Staged(g)'
  BY <1>1, <1>3 DEF StartCheck, processVars
<1>4. ASSUME NEW h \in Handles, Spawn(h) PROVE Staged(g)'
  BY <1>1, <1>4 DEF Spawn
<1>5. ASSUME NEW h \in Handles, StartList(h) PROVE Staged(g)'
  BY <1>1, <1>5 DEF StartList, processVars
<1>6. ASSUME NEW h \in Handles, ShutdownSteps(h) PROVE Staged(g)'
  BY <1>1, <1>6 DEF ShutdownSteps, ShutdownDone, ShutdownExpires, ShutdownKills, ShutdownReaps,
     ChildEnds, processVars
<1>7. ASSUME NEW h \in Handles, WriterSteps(h) PROVE Staged(g)'
  BY <1>1, <1>7 DEF WriterSteps, WriterWrites, WriterEnds
<1>8. ASSUME NEW h \in Handles, ReaderSteps(h) PROVE Staged(g)'
  BY <1>1, <1>8 DEF ReaderSteps, ReadFrame, ReadEnd, ReapLock, Reap, FailPending
<1>9. ASSUME NEW h \in Handles, ChildAnswers(h) \/ ChildReports(h) \/ ChildErrs(h)
                                \/ ChildLeaves(h) \/ ChildCrashes(h)
                                \/ LauncherEnds(h)
      PROVE  Staged(g)'
  BY <1>1, <1>9 DEF ChildEnds, ServerEnds, ChildAnswers, ChildReports, ChildErrs, ChildLeaves, ChildCrashes, LauncherEnds, Writes
<1>10. ASSUME NEW c \in Requests, CallFind(c) \/ CallSteps(c) PROVE Staged(g)'
  BY <1>1, <1>10 DEF CallFind, CallSteps, CallEnter, CallSend, CallExpires, CallGivesUp, processVars
<1> QED BY <1>2, <1>3, <1>4, <1>5, <1>6, <1>7, <1>8, <1>9, <1>10 DEF BridgeNext

\* Who has a sender had it, or has just found a listed process, or has spawned one.
LEMMA SendersKnown ==
    ASSUME BridgeInv, BridgeNext, NEW h \in Handles, HasSender(h)'
    PROVE  HasSender(h) \/ Spawn(h)
<1>1. /\ request \in [Requests -> {"idle", "found", "entered", "waiting", "expired", "over"}]
      /\ stage \in [Handles -> {"free", "checked", "spawned", "listed", "closing", "killing",
                                "killed", "closed"}]
      /\ target \in [Requests -> Handles \cup {NoHandle}]
      /\ slot \in Handles \cup {NoHandle} /\ NoHandle \notin Handles
  BY BridgeAssumption DEF BridgeInv, TypeOK, Framed
<1>2. CASE stage'[h] \in {"spawned", "listed"}
  <2>1. stage[h] \in {"spawned", "listed"} \/ Spawn(h)
    BY <1>1, <1>2 DEF BridgeNext, StopTake, StartCheck, Spawn, StartList,
        ShutdownSteps, ShutdownDone, ShutdownExpires, ShutdownKills, ShutdownReaps, WriterSteps,
        WriterWrites, WriterEnds, ReaderSteps, ReadFrame, ReadEnd, ReapLock, Reap, FailPending,
        ChildAnswers, ChildReports, ChildErrs, ChildLeaves, ChildCrashes, LauncherEnds, CallFind, CallSteps,
        CallEnter, CallSend, CallExpires, CallGivesUp
  <2> QED BY <2>1 DEF HasSender
<1>3. ASSUME NEW c \in Requests, target'[c] = h, request'[c] \in Active PROVE HasSender(h)
  <2>1. CASE CallFind(c)
    <3>1. slot = h /\ stage[h] = "listed"
      BY <1>1, <1>3, <2>1 DEF CallFind, Return, BridgeInv, Staged, Active
    <3> QED BY <3>1 DEF HasSender
  <2>2. CASE ~CallFind(c)
    <3>1. ASSUME NEW d \in Requests, CallFind(d) \/ CallSteps(d)
          PROVE  target'[c] = target[c] /\ request[c] \in Active
      BY <1>1, <1>3, <2>2, <3>1 DEF CallFind, CallSteps, CallEnter, CallSend, CallExpires, CallGivesUp,
          Return, Active
    <3>2. ASSUME NEW k \in Handles, ReadFrame(k) \/ FailPending(k)
          PROVE  target'[c] = target[c] /\ request[c] \in Active
      BY <1>1, <1>3, <3>2 DEF ReadFrame, FailPending, Return, Active
    <3>3. target'[c] = target[c] /\ request[c] \in Active
      BY <1>3, <3>1, <3>2, CallsMoved DEF callVars
    <3> QED BY <1>3, <3>3 DEF HasSender, Active
  <2> QED BY <2>1, <2>2
<1> QED BY <1>2, <1>3 DEF HasSender, Active

LEMMA WriterStep ==
    ASSUME BridgeInv, BridgeNext, NEW h \in Handles PROVE WriterServes(h)'
<1> SUFFICES ASSUME writer'[h] = "ended", HasSender(h)' PROVE child'[h] = "gone"
  BY DEF WriterServes
<1>1. /\ writer \in [Handles -> {"none", "running", "ended"}]
      /\ child \in [Handles -> {"none", "up", "gone"}]
      /\ Staged(h) /\ WriterServes(h)
  BY DEF BridgeInv, TypeOK
<1>2. HasSender(h)
  BY <1>1, SendersKnown DEF Spawn
<1>3. CASE writer[h] = "ended"
  BY <1>1, <1>2, <1>3, ChildStays DEF WriterServes
<1>4. CASE writer[h] # "ended"
  <2>1. WriterWrites(h) \/ WriterEnds(h)
    <3>1. \A k \in Handles : Spawn(k) => writer'[h] # "ended" \/ k # h
      BY <1>1 DEF Spawn
    <3>2. \A k \in Handles \ {h} : Spawn(k) \/ WriterSteps(k) => writer'[h] = writer[h]
      BY <1>1 DEF Spawn, WriterSteps, WriterWrites, WriterEnds
    <3> QED BY <1>4, <3>1, <3>2, WriterMoved DEF WriterSteps
  <2>2. WriterWrites(h) /\ child[h] # "up" /\ child[h] # "none"
    BY <1>1, <1>2, <1>4, <2>1 DEF WriterWrites, WriterEnds, PipesClosed, Staged
  <2> QED BY <1>1, <2>2, ChildStays
<1> QED BY <1>3, <1>4

-----------------------------------------------------------------------------
(* The requests.                                                           *)

\* What the pipes of a process hold.
Pipes(h) == Range(queue[h]) \cup inbox[h] \cup Range(out[h])

\* Who writes and reads what the child says.
LEMMA OutMoves ==
    ASSUME BridgeNext
    PROVE  \/ out' = out
           \/ \E h \in Handles : \/ ReadFrame(h) \/ ChildAnswers(h) \/ ChildReports(h)
                               \/ ChildErrs(h) \/ ChildLeaves(h)
BY DEF BridgeNext, StopTake, StartCheck, Spawn, StartList, ShutdownSteps, ShutdownDone,
   ShutdownExpires, ShutdownKills, ShutdownReaps, WriterSteps, WriterWrites, WriterEnds,
   ReaderSteps, ReadEnd, ReapLock, Reap, FailPending, ChildCrashes, LauncherEnds, CallFind, CallSteps,
   CallEnter, CallSend, CallExpires, CallGivesUp, processVars

\* Who changes the map of the requests.
LEMMA PendingMoves ==
    ASSUME BridgeNext
    PROVE  \/ pending' = pending
           \/ \E h \in Handles : ReadFrame(h) \/ FailPending(h)
           \/ \E c \in Requests : CallEnter(c) \/ CallGivesUp(c)
BY DEF BridgeNext, StopTake, StartCheck, Spawn, StartList, ShutdownSteps, ShutdownDone,
   ShutdownExpires, ShutdownKills, ShutdownReaps, WriterSteps, WriterWrites, WriterEnds,
   ReaderSteps, ReadEnd, ReapLock, Reap, ChildAnswers, ChildReports, ChildErrs, ChildLeaves,
   Writes, ChildCrashes, LauncherEnds, CallFind, CallSteps, CallSend, CallExpires, processVars

\* A frame that appears in the pipes is one the child writes of its own, the
\* hello, or that of a request being sent.
LEMMA FramesKnown ==
    ASSUME BridgeInv, BridgeNext, NEW h \in Handles
    PROVE  Pipes(h)' \subseteq Pipes(h) \cup {Hello, "event", "bad"} \cup {d \in Requests : CallSend(d)}
<1>1. /\ queue \in [Handles -> Seq(Sent)] /\ inbox \in [Handles -> SUBSET Sent]
      /\ out \in [Handles -> Seq(Written)]
  BY DEF BridgeInv, Framed
<1>2. Range(queue'[h]) \subseteq Range(queue[h]) \cup {Hello} \cup {d \in Requests : CallSend(d)}
  <2>1. CASE Spawn(h)
    <3>1. queue'[h] = <<Hello>>
      BY <1>1, <2>1 DEF Spawn
    <3>2. Range(<<Hello>>) = {Hello}
      BY DEF Range
    <3> QED BY <3>1, <3>2
  <2>2. CASE WriterWrites(h)
    BY <1>1, <2>2, RangeOfTail DEF WriterWrites
  <2>3. ASSUME NEW c \in Requests, CallSend(c)
        PROVE  Range(queue'[h]) \subseteq Range(queue[h]) \cup {c}
    <3>1. queue'[h] = queue[h] \/ queue'[h] = Append(queue[h], c)
      BY <1>1, <2>3 DEF CallSend
    <3>2. queue[h] \in Seq(Sent) /\ c \in Sent
      BY <1>1 DEF Sent
    <3>3. Range(Append(queue[h], c)) = Range(queue[h]) \cup {c}
      BY <3>2, RangeAppend
    <3> QED BY <3>1, <3>3
  <2>4. CASE queue'[h] = queue[h]
    BY <2>4
  <2> QED BY <1>1, <2>1, <2>2, <2>3, <2>4 DEF BridgeNext, StopTake, StartCheck, Spawn, StartList,
        ShutdownSteps, ShutdownDone, ShutdownExpires, ShutdownKills, ShutdownReaps, WriterSteps,
        WriterWrites, WriterEnds, ReaderSteps, ReadFrame, ReadEnd, ReapLock, Reap, FailPending,
        ChildAnswers, ChildReports, ChildErrs, ChildLeaves, ChildCrashes, LauncherEnds, CallFind, CallSteps,
        CallEnter, CallExpires, CallGivesUp, processVars
<1>3. inbox'[h] \subseteq inbox[h] \cup Range(queue[h])
  <2>1. CASE WriterWrites(h)
    <3>1. queue[h] # <<>> /\ Head(queue[h]) \in Range(queue[h])
      BY <1>1, <2>1, RangeOfTail DEF WriterWrites
    <3> QED BY <1>1, <2>1, <3>1 DEF WriterWrites
  <2>2. CASE ~WriterWrites(h)
    <3>1. ASSUME NEW g \in Handles, WriterSteps(g) \/ ChildAnswers(g)
          PROVE  inbox'[h] \subseteq inbox[h]
      BY <1>1, <2>2, <3>1 DEF WriterSteps, WriterWrites, WriterEnds, ChildAnswers
    <3>2. ASSUME NEW d \in Requests, CallFind(d) \/ CallSteps(d)
          PROVE  inbox' = inbox
      BY <3>2 DEF CallFind, CallSteps, CallEnter, CallSend, CallExpires, CallGivesUp, processVars
    <3>3. ASSUME NEW g \in Handles, ReaderSteps(g) \/ ShutdownSteps(g)
          PROVE  inbox' = inbox
      BY <3>3 DEF ReaderSteps, ReadFrame, ReadEnd, ReapLock, Reap, FailPending, ShutdownSteps,
          ShutdownDone, ShutdownExpires, ShutdownKills, ShutdownReaps, processVars
    <3>4. ASSUME NEW g \in Handles, \/ StartCheck(g) \/ Spawn(g) \/ StartList(g)
                                   \/ ChildReports(g) \/ ChildErrs(g) \/ ChildLeaves(g)
                                   \/ ChildCrashes(g) \/ LauncherEnds(g)
          PROVE  inbox' = inbox
      BY <3>4 DEF StartCheck, Spawn, StartList, ChildReports, ChildErrs, ChildLeaves,
          ChildCrashes, LauncherEnds, processVars
    <3>5. StopTake => inbox' = inbox
      BY DEF StopTake, processVars
    <3> QED BY <3>1, <3>2, <3>3, <3>4, <3>5 DEF BridgeNext
  <2> QED BY <2>1, <2>2
<1>4. Range(out'[h]) \subseteq Range(out[h]) \cup inbox[h] \cup {"event", "bad"}
  <2>1. CASE ReadFrame(h)
    BY <1>1, <2>1, RangeOfTail DEF ReadFrame
  <2>2. ASSUME NEW written \in Written, Writes(h, written)
        PROVE  Range(out'[h]) = Range(out[h]) \cup {written}
    BY <1>1, <2>2, RangeAppend DEF Writes
  <2>3. CASE ChildAnswers(h)
    <3>1. PICK written \in inbox[h] : Writes(h, written)
      BY <2>3 DEF ChildAnswers
    <3>2. written \in Written
      BY <1>1 DEF Sent, Written
    <3> QED BY <2>2, <3>1, <3>2
  <2>4. CASE ChildReports(h) \/ ChildErrs(h) \/ ChildLeaves(h)
    BY <2>2, <2>4 DEF ChildReports, ChildErrs, ChildLeaves, Written
  <2>5. CASE out'[h] = out[h]
    BY <2>5
  <2>6. ASSUME NEW g \in Handles, g # h,
               ReadFrame(g) \/ ChildAnswers(g) \/ ChildReports(g) \/ ChildErrs(g) \/ ChildLeaves(g)
        PROVE  out'[h] = out[h]
    BY <1>1, <2>6 DEF ReadFrame, ChildAnswers, ChildReports, ChildErrs, ChildLeaves, Writes
  <2> QED BY <2>1, <2>3, <2>4, <2>5, <2>6, OutMoves
<1> QED BY <1>2, <1>3, <1>4 DEF Pipes

\* Where a request stands, and what it is told, changes by its own steps, by the
\* frame that answers it and by the end of its process.
LEMMA CallsMove ==
    ASSUME BridgeInv, BridgeNext, NEW c \in Requests
    PROVE  \/ UNCHANGED <<request[c], target[c], told[c]>>
           \/ CallFind(c) \/ CallSteps(c)
           \/ /\ request[c] = "waiting" /\ request'[c] = "over" /\ UNCHANGED target[c]
              /\ \E h \in Handles : c \in pending[h] /\ (ReadFrame(h) \/ FailPending(h))
<1>1. /\ request \in [Requests -> {"idle", "found", "entered", "waiting", "expired", "over"}]
      /\ told \in [Requests -> {"nothing", "answered", "not_connected", "disconnected",
                             "request_timeout"}]
      /\ target \in [Requests -> Handles \cup {NoHandle}]
      /\ pending \in [Handles -> SUBSET Requests]
  BY DEF BridgeInv, TypeOK, Framed
<1>2. ASSUME NEW h \in Handles, ReadFrame(h)
      PROVE  \/ UNCHANGED <<request[c], target[c], told[c]>>
             \/ request[c] = "waiting" /\ request'[c] = "over" /\ UNCHANGED target[c] /\ c \in pending[h]
  BY <1>1, <1>2 DEF ReadFrame, Return
<1>3. ASSUME NEW h \in Handles, FailPending(h)
      PROVE  \/ UNCHANGED <<request[c], target[c], told[c]>>
             \/ request[c] = "waiting" /\ request'[c] = "over" /\ UNCHANGED target[c] /\ c \in pending[h]
  BY <1>1, <1>3 DEF FailPending
<1>4. ASSUME NEW d \in Requests, d # c, CallFind(d) \/ CallSteps(d)
      PROVE  UNCHANGED <<request[c], target[c], told[c]>>
  BY <1>1, <1>4 DEF CallFind, CallSteps, CallEnter, CallSend, CallExpires, CallGivesUp, Return
<1>5. \/ UNCHANGED callVars
      \/ \E d \in Requests : CallFind(d) \/ CallSteps(d)
      \/ \E h \in Handles : ReadFrame(h) \/ FailPending(h)
  BY DEF BridgeNext, StopTake, StartCheck, Spawn, StartList, ShutdownSteps, ShutdownDone,
     ShutdownExpires, ShutdownKills, ShutdownReaps, WriterSteps, WriterWrites, WriterEnds,
     ReaderSteps, ReadEnd, ReapLock, Reap, ChildAnswers, ChildReports, ChildErrs, ChildLeaves,
     ChildCrashes, LauncherEnds, callVars
<1> QED BY <1>2, <1>3, <1>4, <1>5 DEF callVars

LEMMA UnsentStep ==
    ASSUME BridgeInv, BridgeNext, NEW c \in Requests PROVE Unsent(c)'
<1> SUFFICES ASSUME request'[c] \in {"idle", "found", "entered"}, NEW h \in Handles
             PROVE  c \notin Pipes(h)'
  BY DEF Unsent, Pipes
<1>1. request \in [Requests -> {"idle", "found", "entered", "waiting", "expired", "over"}]
  BY DEF BridgeInv, TypeOK
<1>2. request[c] \in {"idle", "found", "entered"} /\ ~CallSend(c)
  BY <1>1, CallsMove DEF CallFind, CallSteps, CallEnter, CallSend, CallExpires, CallGivesUp, Return
<1>3. c \notin Pipes(h)
  BY <1>2 DEF BridgeInv, Unsent, Pipes
<1> QED BY <1>2, <1>3, FramesKnown, BridgeAssumption

LEMMA AimedStep ==
    ASSUME BridgeInv, BridgeNext, NEW c \in Requests PROVE Aimed(c)'
<1>1. /\ request \in [Requests -> {"idle", "found", "entered", "waiting", "expired", "over"}]
      /\ told \in [Requests -> {"nothing", "answered", "not_connected", "disconnected",
                             "request_timeout"}]
      /\ target \in [Requests -> Handles \cup {NoHandle}]
      /\ pending \in [Handles -> SUBSET Requests]
      /\ slot \in Handles \cup {NoHandle}
      /\ \A h \in Handles : Staged(h) /\ WriterServes(h)
      /\ Aimed(c) /\ Unsent(c)
  BY DEF BridgeInv, TypeOK, Framed
<1>2. \A h \in Handles : /\ child[h] = "gone" => child'[h] = "gone"
                         /\ child[h] # "none" => child'[h] # "none"
  BY ChildStays
\* The map of the requests.
<1>3. \A h \in Handles : c \in pending'[h] => c \in pending[h] \/ (CallEnter(c) /\ target[c] = h)
  <2>1. ASSUME NEW d \in Requests, CallEnter(d), NEW h \in Handles, c \in pending'[h]
        PROVE  c \in pending[h] \/ (CallEnter(c) /\ target[c] = h)
    BY <1>1, <2>1 DEF CallEnter
  <2>2. ASSUME ~\E d \in Requests : CallEnter(d), NEW h \in Handles, c \in pending'[h]
        PROVE  c \in pending[h]
    <3>1. ASSUME NEW g \in Handles, ReadFrame(g) \/ FailPending(g) PROVE c \in pending[h]
      BY <1>1, <2>2, <3>1 DEF ReadFrame, FailPending
    <3>2. ASSUME NEW d \in Requests, CallGivesUp(d) PROVE c \in pending[h]
      BY <1>1, <2>2, <3>2 DEF CallGivesUp
    <3> QED BY <2>2, <3>1, <3>2, PendingMoves
  <2> QED BY <2>1, <2>2
<1>4. \A h \in Handles : c \in pending[h] /\ request[c] = "entered" /\ c \notin pending'[h]
                            => child[h] = "gone"
  <2> SUFFICES ASSUME NEW h \in Handles, c \in pending[h], request[c] = "entered", c \notin pending'[h]
               PROVE  child[h] = "gone"
    OBVIOUS
  <2>1. CASE FailPending(h)
    BY <1>1, <2>1 DEF FailPending, Staged
  <2>2. CASE ReadFrame(h)
    <3>1. out[h] \in Seq(Written) /\ out[h] # <<>> /\ pending'[h] = pending[h] \ {Head(out[h])}
      BY <1>1, <2>2 DEF ReadFrame, BridgeInv, Framed
    <3>2. Head(out[h]) \in Range(out[h]) /\ c \notin Range(out[h])
      BY <1>1, <3>1, RangeOfTail DEF Unsent
    <3> QED BY <3>1, <3>2
  <2>3. CASE ~FailPending(h) /\ ~ReadFrame(h)
    <3>1. ASSUME NEW d \in Requests, CallGivesUp(d) PROVE c \in pending'[h]
      BY <1>1, <3>1 DEF CallGivesUp
    <3>2. ASSUME ~\E d \in Requests : CallGivesUp(d) PROVE c \in pending'[h]
      <4>1. ASSUME NEW d \in Requests, CallEnter(d) PROVE c \in pending'[h]
        BY <1>1, <4>1 DEF CallEnter
      <4>2. ASSUME NEW g \in Handles, g # h, ReadFrame(g) \/ FailPending(g) PROVE c \in pending'[h]
        BY <1>1, <4>2 DEF ReadFrame, FailPending
      <4> QED BY <2>3, <3>2, <4>1, <4>2, PendingMoves
    <3> QED BY <3>1, <3>2
  <2> QED BY <2>1, <2>2, <2>3
\* A request found its process while that one was listed.
<1>5. request'[c] \in Active => target'[c] \in Handles /\ child'[target'[c]] # "none"
  <2>1. CASE CallFind(c)
    BY <1>1, <1>2, <2>1 DEF CallFind, Return, Staged, Active
  <2>2. CASE CallSteps(c)
    BY <1>1, <1>2, <2>2 DEF CallSteps, CallEnter, CallSend, CallExpires, CallGivesUp, Return,
       Aimed, Active
  <2> QED BY <1>1, <1>2, <2>1, <2>2, CallsMove DEF Aimed, Active
<1>6. request'[c] # "over" => told'[c] = "nothing"
  <2>1. CASE CallFind(c) \/ CallSteps(c)
    BY <1>1, <2>1 DEF CallFind, CallSteps, CallEnter, CallSend, CallExpires, CallGivesUp, Return,
       Aimed
  <2> QED BY <1>1, <2>1, CallsMove DEF Aimed
<1>7. request'[c] = "entered" => c \in pending'[target'[c]] \/ child'[target'[c]] = "gone"
  <2>1. CASE CallEnter(c)
    <3>1. target[c] \in Handles /\ target'[c] = target[c]
      BY <1>1, <2>1 DEF CallEnter, Aimed, Active
    <3> QED BY <1>1, <2>1, <3>1 DEF CallEnter
  <2>2. CASE ~CallEnter(c) /\ (CallFind(c) \/ CallSteps(c))
    BY <1>1, <2>2 DEF CallFind, CallSteps, CallSend, CallExpires, CallGivesUp, Return
  <2>3. CASE UNCHANGED <<request[c], target[c], told[c]>>
    BY <1>1, <1>2, <1>4, <2>3 DEF Aimed, Active
  <2> QED BY <2>1, <2>2, <2>3, CallsMove
<1>8. told'[c] = "disconnected" => target'[c] \in Handles /\ child'[target'[c]] = "gone"
  <2>1. CASE CallSend(c)
    <3> DEFINE h == target[c]
    <3>1. h \in Handles /\ child[h] # "none" /\ target' = target
          /\ request[c] = "entered" /\ told[c] = "nothing"
      BY <1>1, <2>1 DEF CallSend, Aimed, Active
    <3>2. HasSender(h)
      BY <3>1 DEF HasSender
    <3>3. CASE writer[h] = "running" /\ c \in pending[h]
      BY <1>1, <2>1, <3>1, <3>3 DEF CallSend, Return
    <3>4. CASE writer[h] = "running" /\ c \notin pending[h]
      BY <1>1, <1>2, <3>1, <3>4 DEF Aimed
    <3>5. CASE writer[h] # "running"
      <4>1. writer[h] = "ended"
        BY <1>1, <3>1, <3>5 DEF Staged, BridgeInv, TypeOK
      <4> QED BY <1>1, <1>2, <3>1, <3>2, <4>1 DEF WriterServes
    <3> QED BY <3>3, <3>4, <3>5
  <2>2. CASE ~CallSend(c) /\ (CallFind(c) \/ CallSteps(c))
    BY <1>1, <2>2 DEF CallFind, CallSteps, CallEnter, CallExpires, CallGivesUp, Return, Aimed
  <2>3. CASE UNCHANGED <<request[c], target[c], told[c]>>
    BY <1>1, <1>2, <2>3 DEF Aimed
  <2>4. ASSUME NEW h \in Handles, c \in pending[h], ReadFrame(h), request[c] = "waiting", target'[c] = target[c]
        PROVE  told'[c] # "disconnected"
    BY <1>1, <2>4 DEF ReadFrame, Return, Aimed
  <2>5. ASSUME NEW h \in Handles, c \in pending[h], FailPending(h), target'[c] = target[c]
        PROVE  target'[c] \in Handles /\ child'[target'[c]] = "gone"
    BY <1>1, <1>2, <2>5 DEF FailPending, Staged, Aimed
  <2> QED BY <2>1, <2>2, <2>3, <2>4, <2>5, CallsMove
<1>9. \A h \in Handles : c \in pending'[h] => target'[c] = h /\ request'[c] \notin {"idle", "found"}
  <2> SUFFICES ASSUME NEW h \in Handles, c \in pending'[h]
               PROVE  target'[c] = h /\ request'[c] \notin {"idle", "found"}
    OBVIOUS
  <2>1. CASE CallEnter(c) /\ target[c] = h
    BY <1>1, <2>1 DEF CallEnter
  <2>2. CASE c \in pending[h]
    <3>1. target[c] = h /\ request[c] \notin {"idle", "found"}
      BY <1>1, <2>2 DEF Aimed
    <3>2. CASE CallSteps(c)
      BY <1>1, <3>1, <3>2 DEF CallSteps, CallEnter, CallSend, CallExpires, CallGivesUp, Return
    <3>3. ~CallFind(c)
      BY <3>1 DEF CallFind
    <3> QED BY <1>1, <3>1, <3>2, <3>3, CallsMove
  <2> QED BY <1>3, <2>1, <2>2
<1> QED BY <1>5, <1>6, <1>7, <1>8, <1>9 DEF Aimed

-----------------------------------------------------------------------------
(* The theorem.                                                            *)

LEMMA BridgeInvAlways == BridgeSpec => []BridgeInv
<1>1. BridgeInit => BridgeInv
  BY InitBridge
<1>2. BridgeInv /\ [BridgeNext]_gbVars => BridgeInv'
  <2>1. ASSUME BridgeInv, BridgeNext PROVE BridgeInv'
    BY <2>1, TypesStep, FramedStep, StagedStep, WriterStep, AimedStep, UnsentStep DEF BridgeInv
  <2>2. ASSUME BridgeInv, UNCHANGED gbVars PROVE BridgeInv'
    BY <2>2 DEF BridgeInv, gbVars, TypeOK, Framed, Staged, WriterServes, HasSender, Aimed, Unsent
  <2> QED BY <2>1, <2>2
<1> QED BY <1>1, <1>2, PTL DEF BridgeSpec

\* Whatever onemore does, started directly or by a cmd, and however starts, stops,
\* requests and the reader interleave: a shutdown that has returned leaves no
\* child behind and no onemore but one a cmd had started, a child that lives is
\* listed or in the hands of a start or a shutdown, and a request is told
\* "disconnected" only when the child is gone (rpc_start, rpc_stop, rpc_request,
\* spawn_with_fallback, shutdown, reader_loop).
THEOREM BridgeAlways == BridgeSpec => []BridgeSound
<1>1. BridgeInv => BridgeSound
  <2> SUFFICES ASSUME BridgeInv PROVE BridgeSound
    OBVIOUS
  <2>0. \A h \in Handles : child[h] = "gone" => server[h] \in {"behind", "gone"}
    BY DEF BridgeInv, TypeOK, Staged
  <2>1. \A h \in Handles : stage[h] = "closed" => child[h] = "gone"
    BY DEF BridgeInv, Staged
  <2>2. \A c \in Requests :
           told[c] = "disconnected" => target[c] \in Handles /\ child[target[c]] = "gone"
    BY DEF BridgeInv, Aimed
  <2>3. \A h \in Handles :
           child[h] = "up" => h = slot \/ stage[h] \in {"spawned", "closing", "killing"}
    BY DEF BridgeInv, TypeOK, Staged
  <2> QED BY <2>0, <2>1, <2>2, <2>3 DEF BridgeSound
<1> QED BY <1>1, BridgeInvAlways, PTL

\* A request in the map of a process asked that process and no other, and one
\* that has not been sent yet is answered by nobody: the reader finds it in no
\* frame (rpc_request enters itself before it sends; reader_loop).
THEOREM RequestsAimed == BridgeSpec => [](\A c \in Requests : Aimed(c) /\ Unsent(c))
<1>1. BridgeInv => \A c \in Requests : Aimed(c) /\ Unsent(c)
  BY DEF BridgeInv
<1> QED BY <1>1, BridgeInvAlways, PTL

-----------------------------------------------------------------------------
(* The terminal: the cells of the transcript.                              *)

Text == Seq(Nat)

CellSet == [kind : {"line", "assistant", "thinking", "compaction", "tool"}, id : Nat,
            text : Text, open : BOOLEAN]

\* A cell of a call or of a compaction that is open is the last one of its id, so
\* that the event that ends it finds it, and a line is closed.
Orderly(shown) ==
  /\ shown \in Seq(CellSet)
  /\ \A i \in DOMAIN shown : shown[i].open =>
       /\ shown[i].kind # "line"
       /\ shown[i].kind \in {"tool", "compaction"} =>
            \A j \in DOMAIN shown : i < j => shown[j].kind # shown[i].kind \/ shown[j].id # shown[i].id

\* The cells that can still change.
OpenCells(shown) == {<<shown[i].kind, shown[i].id>> : i \in {k \in DOMAIN shown : shown[k].open}}

\* The same cells, some of them closed.
Closes(after, shown) ==
  /\ after \in Seq(CellSet) /\ Len(after) = Len(shown)
  /\ \A i \in DOMAIN shown :
       /\ after[i].kind = shown[i].kind /\ after[i].id = shown[i].id
       /\ after[i].open => shown[i].open

-----------------------------------------------------------------------------
(* Lemmas about the cells.                                                 *)

\* Every set of numbers that is not empty has a least one.
LEMMA LeastNatural ==
  ASSUME NEW T, T \subseteq Nat, T # {}
  PROVE  \E x \in T : \A y \in T : x <= y
<1> DEFINE R == {ss \in Nat \X Nat : ss[1] < ss[2]}
<1>1. IsWellFoundedOn(R, Nat)
  BY NatLessThanWellFounded DEF OpToRel
<1>0. \A y, z \in Nat : y < z => <<y, z>> \in R
  <2> SUFFICES ASSUME NEW y \in Nat, NEW z \in Nat, y < z PROVE <<y, z>> \in R
    OBVIOUS
  <2>1. <<y, z>> \in Nat \X Nat /\ <<y, z>>[1] < <<y, z>>[2]
    OBVIOUS
  <2> QED BY <2>1
<1> HIDE DEF R
<1>2. PICK x \in T : \A y \in T : ~ (<<y, x>> \in R)
  BY <1>1, WFMin
<1>3. \A y \in T : x <= y
  <2> SUFFICES ASSUME NEW y \in T PROVE x <= y
    OBVIOUS
  <2>1. ~(<<y, x>> \in R)
    BY <1>2
  <2>2. ~(y < x)
    BY <1>0, <2>1
  <2> QED BY <2>2
<1> QED BY <1>3

\* LastIndex finds the greatest position.
LEMMA LastIndexIs ==
  ASSUME NEW n \in Nat, NEW found \in SUBSET (1..n), found # {}
  PROVE  LastIndex(found) \in found /\ \A j \in found : j <= LastIndex(found)
<1> DEFINE T == {n - j : j \in found}
<1>1. PICK x \in T : \A y \in T : x <= y
  <2>1. \A j \in found : n - j \in Nat
    OBVIOUS
  <2>2. T \subseteq Nat /\ T # {}
    BY <2>1
  <2> HIDE DEF T
  <2> QED BY <2>2, LeastNatural
<1>2. PICK i \in found : x = n - i
  OBVIOUS
<1>3. \A j \in found : j <= i
  BY <1>1, <1>2
<1> QED BY <1>3 DEF LastIndex

\* The finished prefix of the transcript: what leaves it is closed.
LEMMA FinalizedIs ==
  ASSUME NEW shown \in Seq(CellSet)
  PROVE  Finalized(shown) \in 0..Len(shown) /\ \A i \in 1..Finalized(shown) : ~shown[i].open
<1> DEFINE T == {i \in 0..Len(shown) : i = Len(shown) \/ shown[i + 1].open}
<1>1. PICK n \in T : \A y \in T : n <= y
  <2>1. T \subseteq Nat /\ Len(shown) \in T
    OBVIOUS
  <2> HIDE DEF T
  <2> QED BY <2>1, LeastNatural
<1>2. n \in 0..Len(shown) /\ (n = Len(shown) \/ shown[n + 1].open)
  OBVIOUS
<1>3. \A i \in 1..n : ~shown[i].open
  <2> SUFFICES ASSUME NEW i \in 1..n, shown[i].open PROVE FALSE
    OBVIOUS
  <2>1. i - 1 \in 0..Len(shown) /\ (i - 1) + 1 = i
    BY <1>2
  <2>2. i - 1 \in T
    BY <2>1
  <2> HIDE DEF T
  <2>3. n <= i - 1
    BY <1>1, <2>2
  <2> QED BY <2>3, <1>2
<1> QED BY <1>2, <1>3 DEF Finalized

\* Closing cells keeps the order, opens nothing and moves no answer.
LEMMA ClosesOrderly ==
  ASSUME NEW shown, Orderly(shown), NEW after, Closes(after, shown)
  PROVE  /\ Orderly(after)
         /\ OpenCells(after) \subseteq OpenCells(shown)
         /\ PieceAt(after) = PieceAt(shown)
<1>1. DOMAIN after = DOMAIN shown
  BY DEF Closes, Orderly
<1>2. Orderly(after)
  BY <1>1 DEF Closes, Orderly
<1>3. OpenCells(after) \subseteq OpenCells(shown)
  BY <1>1 DEF Closes, OpenCells
<1>4. {i \in DOMAIN after : after[i].kind = "assistant"} = {i \in DOMAIN shown : shown[i].kind = "assistant"}
  BY <1>1 DEF Closes
<1> QED BY <1>2, <1>3, <1>4 DEF PieceAt

\* close_open_cells closes the streamed cells and no others.
LEMMA ClosedCells ==
  ASSUME NEW shown \in Seq(CellSet)
  PROVE  /\ Closes(CloseOpenCells(shown), shown)
         /\ \A i \in DOMAIN shown : CloseOpenCells(shown)[i].text = shown[i].text
         /\ \A x \in OpenCells(CloseOpenCells(shown)) : x[1] \notin Streamed
<1> DEFINE s == CloseOpenCells(shown)
<1>1. DOMAIN shown = 1..Len(shown) /\ \A i \in 1..Len(shown) : shown[i] \in CellSet
  OBVIOUS
<1>2. \A i \in 1..Len(shown) :
        s[i] = IF shown[i].kind \in Streamed THEN [shown[i] EXCEPT !.open = FALSE] ELSE shown[i]
  BY <1>1 DEF CloseOpenCells
<1>3. \A i \in 1..Len(shown) :
        /\ s[i] \in CellSet /\ s[i].kind = shown[i].kind /\ s[i].id = shown[i].id
        /\ s[i].text = shown[i].text /\ (s[i].open => shown[i].open)
        /\ shown[i].kind \in Streamed => ~s[i].open
  <2> HIDE DEF s
  <2> SUFFICES ASSUME NEW i \in 1..Len(shown)
               PROVE  /\ s[i] \in CellSet /\ s[i].kind = shown[i].kind /\ s[i].id = shown[i].id
                      /\ s[i].text = shown[i].text /\ (s[i].open => shown[i].open)
                      /\ shown[i].kind \in Streamed => ~s[i].open
    OBVIOUS
  <2>1. shown[i] \in CellSet
    BY <1>1
  <2>2. CASE shown[i].kind \in Streamed
    <3>1. s[i] = [shown[i] EXCEPT !.open = FALSE]
      BY <1>2, <2>2
    <3> QED BY <2>1, <3>1 DEF CellSet
  <2>3. CASE shown[i].kind \notin Streamed
    BY <1>2, <2>1, <2>3
  <2> QED BY <2>2, <2>3
<1>4. s = [i \in 1..Len(shown) |-> s[i]] /\ Len(shown) \in Nat
  BY <1>1 DEF CloseOpenCells
<1> HIDE DEF s
<1>5. s \in Seq(CellSet) /\ Len(s) = Len(shown) /\ DOMAIN s = 1..Len(shown)
  BY <1>3, <1>4, IsASeq
<1>6. \A x \in OpenCells(s) : x[1] \notin Streamed
  BY <1>3, <1>5 DEF OpenCells
<1>7. Closes(s, shown)
  BY <1>3, <1>5 DEF Closes
<1> QED BY <1>3, <1>6, <1>7 DEF s

\* One cell more at the end.
LEMMA OneMoreCell ==
  ASSUME NEW shown, Orderly(shown), NEW c \in CellSet, c.open => c.kind # "line",
         c.kind \in {"tool", "compaction"} => <<c.kind, c.id>> \notin OpenCells(shown)
  PROVE  /\ Orderly(Append(shown, c))
         /\ OpenCells(Append(shown, c)) \subseteq
              OpenCells(shown) \cup (IF c.open THEN {<<c.kind, c.id>>} ELSE {})
         /\ c.kind # "assistant" => PieceAt(Append(shown, c)) = PieceAt(shown)
         /\ c.kind = "assistant" => PieceAt(Append(shown, c)) = Len(shown) + 1
<1> DEFINE n == Len(shown)  s == Append(shown, c)
<1>1. /\ shown \in Seq(CellSet) /\ DOMAIN shown = 1..n /\ n \in Nat
      /\ s \in Seq(CellSet) /\ DOMAIN s = 1..(n + 1) /\ s[n + 1] = c
      /\ \A i \in 1..n : s[i] = shown[i]
  BY DEF Orderly
<1> HIDE DEF n, s
<1>2. ASSUME NEW i \in 1..(n + 1), s[i].open
      PROVE  /\ s[i].kind # "line"
             /\ s[i].kind \in {"tool", "compaction"} =>
                  \A j \in 1..(n + 1) : i < j => s[j].kind # s[i].kind \/ s[j].id # s[i].id
  <2>1. CASE i = n + 1
    BY <1>1, <1>2, <2>1
  <2>2. CASE i \in 1..n
    <3>1. shown[i].open /\ s[i] = shown[i] /\ <<s[i].kind, s[i].id>> \in OpenCells(shown)
      BY <1>1, <1>2, <2>2 DEF OpenCells
    <3>2. ASSUME NEW j \in 1..(n + 1), i < j, s[i].kind \in {"tool", "compaction"}
          PROVE  s[j].kind # s[i].kind \/ s[j].id # s[i].id
      <4>1. CASE j = n + 1
        BY <1>1, <3>1, <3>2, <4>1
      <4>2. CASE j \in 1..n
        <5>1. shown[j].kind # shown[i].kind \/ shown[j].id # shown[i].id
          BY <1>1, <2>2, <3>1, <3>2, <4>2 DEF Orderly
        <5> QED BY <1>1, <3>1, <4>2, <5>1
      <4> QED BY <4>1, <4>2, <1>1
    <3> QED BY <1>1, <2>2, <3>1, <3>2 DEF Orderly
  <2> QED BY <2>1, <2>2, <1>1
<1>3. Orderly(s)
  BY <1>1, <1>2 DEF Orderly
<1>4. OpenCells(s) \subseteq OpenCells(shown) \cup (IF c.open THEN {<<c.kind, c.id>>} ELSE {})
  <2> SUFFICES ASSUME NEW i \in 1..(n + 1), s[i].open
               PROVE  <<s[i].kind, s[i].id>> \in OpenCells(shown) \cup (IF c.open THEN {<<c.kind, c.id>>} ELSE {})
    BY <1>1 DEF OpenCells
  <2>1. CASE i = n + 1
    BY <1>1, <2>1
  <2>2. CASE i \in 1..n
    BY <1>1, <2>2 DEF OpenCells
  <2> QED BY <2>1, <2>2, <1>1
<1> DEFINE A == {i \in DOMAIN s : s[i].kind = "assistant"}
           B == {i \in DOMAIN shown : shown[i].kind = "assistant"}
<1>5. ASSUME c.kind # "assistant" PROVE PieceAt(s) = PieceAt(shown)
  <2>1. A = B
    BY <1>1, <1>5
  <2> QED BY <2>1 DEF PieceAt
<1>6. ASSUME c.kind = "assistant" PROVE PieceAt(s) = n + 1
  <2>1. A \in SUBSET (1..(n + 1)) /\ n + 1 \in A
    BY <1>1, <1>6
  <2>2. PieceAt(s) = LastIndex(A)
    BY DEF PieceAt
  <2> HIDE DEF A
  <2>3. n + 1 \in Nat /\ A # {}
    BY <1>1, <2>1
  <2>4. LastIndex(A) \in A /\ \A j \in A : j <= LastIndex(A)
    BY <2>1, <2>3, LastIndexIs
  <2>5. LastIndex(A) \in 1..(n + 1) /\ n + 1 <= LastIndex(A)
    BY <2>1, <2>4
  <2> QED BY <1>1, <2>2, <2>5
<1> QED BY <1>3, <1>4, <1>5, <1>6 DEF s, n

\* Where the last piece of an answer is.
LEMMA PieceThere ==
  ASSUME NEW shown \in Seq(CellSet)
  PROVE  \/ PieceAt(shown) = 0 /\ \A i \in 1..Len(shown) : shown[i].kind # "assistant"
         \/ /\ PieceAt(shown) \in 1..Len(shown) /\ shown[PieceAt(shown)].kind = "assistant"
            /\ \A i \in 1..Len(shown) : shown[i].kind = "assistant" => i <= PieceAt(shown)
<1> DEFINE A == {i \in DOMAIN shown : shown[i].kind = "assistant"}
<1>1. PieceAt(shown) = LastIndex(A)
  BY DEF PieceAt
<1>2. A \in SUBSET (1..Len(shown)) /\ Len(shown) \in Nat
  OBVIOUS
<1>3. CASE A = {}
  BY <1>1, <1>3 DEF LastIndex
<1>4. CASE A # {}
  <2>1. LastIndex(A) \in A /\ \A j \in A : j <= LastIndex(A)
    <3> HIDE DEF A
    <3> QED BY <1>2, <1>4, LastIndexIs
  <2> QED BY <1>1, <2>1
<1> QED BY <1>3, <1>4

\* finish_compaction and finish_tool close the one open cell of the id.
LEMMA FinishedCompaction ==
  ASSUME NEW shown, Orderly(shown), NEW id
  PROVE  /\ Closes(FinishCompaction(shown, id), shown)
         /\ \A i \in DOMAIN shown : FinishCompaction(shown, id)[i].text = shown[i].text
         /\ <<"compaction", id>> \notin OpenCells(FinishCompaction(shown, id))
<1> DEFINE F == {k \in DOMAIN shown : shown[k].kind = "compaction" /\ shown[k].id = id}
           m == LastIndex(F)  s == FinishCompaction(shown, id)
<1>1. /\ shown \in Seq(CellSet) /\ DOMAIN shown = 1..Len(shown) /\ Len(shown) \in Nat
      /\ \A i \in 1..Len(shown) : shown[i] \in CellSet
  BY DEF Orderly
<1>2. s = IF m = 0 THEN shown ELSE [shown EXCEPT ![m].open = FALSE]
  BY DEF FinishCompaction
<1>3. F \in SUBSET (1..Len(shown))
  BY <1>1
<1>4. CASE F = {}
  <2>1. s = shown
    BY <1>2, <1>4 DEF LastIndex
  <2>2. <<"compaction", id>> \notin OpenCells(shown)
    BY <1>4 DEF OpenCells
  <2> HIDE DEF s, m
  <2> QED BY <1>1, <2>1, <2>2 DEF Closes, s
<1>5. CASE F # {}
  <2>1. m \in F /\ \A j \in F : j <= m
    <3> HIDE DEF F
    <3> QED BY <1>1, <1>3, <1>5, LastIndexIs
  <2>2. m \in 1..Len(shown) /\ shown[m].kind = "compaction" /\ shown[m].id = id
    BY <1>1, <2>1
  <2> HIDE DEF m
  <2>3. s = [shown EXCEPT ![m] = [shown[m] EXCEPT !.open = FALSE]]
    BY <1>2, <2>2
  <2>4. [shown[m] EXCEPT !.open = FALSE] \in CellSet
    BY <1>1, <2>2 DEF CellSet
  <2> HIDE DEF s
  <2>5. s \in Seq(CellSet) /\ Len(s) = Len(shown) /\ DOMAIN s = 1..Len(shown)
    BY <1>1, <2>2, <2>3, <2>4, ExceptSeq
  <2>6. \A i \in 1..Len(shown) : i # m => s[i] = shown[i]
    BY <1>1, <2>2, <2>3
  <2>7. /\ s[m].kind = shown[m].kind /\ s[m].id = shown[m].id /\ s[m].text = shown[m].text
        /\ ~s[m].open
    BY <1>1, <2>2, <2>3 DEF CellSet
  <2>8. Closes(s, shown) /\ \A i \in 1..Len(shown) : s[i].text = shown[i].text
    BY <1>1, <2>2, <2>5, <2>6, <2>7 DEF Closes
  <2>9. ASSUME NEW i \in 1..Len(shown), s[i].open, s[i].kind = "compaction", s[i].id = id
        PROVE  FALSE
    <3>1. i # m /\ shown[i] = s[i]
      BY <2>6, <2>7, <2>9
    <3>2. i \in F
      BY <1>1, <2>9, <3>1
    <3>3. i < m
      BY <2>1, <2>2, <3>1, <3>2
    <3> QED BY <1>1, <2>2, <2>9, <3>1, <3>3 DEF Orderly
  <2> QED BY <1>1, <2>5, <2>8, <2>9 DEF OpenCells, s
<1> QED BY <1>4, <1>5

LEMMA FinishedTool ==
  ASSUME NEW shown, Orderly(shown), NEW id
  PROVE  /\ Closes(FinishTool(shown, id), shown)
         /\ \A i \in DOMAIN shown : FinishTool(shown, id)[i].text = shown[i].text
         /\ <<"tool", id>> \notin OpenCells(FinishTool(shown, id))
<1> DEFINE F == {k \in DOMAIN shown : shown[k].kind = "tool" /\ shown[k].open /\ shown[k].id = id}
           G == {k \in DOMAIN shown : shown[k].kind = "tool" /\ shown[k].open}
           m == IF LastIndex(F) # 0 THEN LastIndex(F) ELSE LastIndex(G)
           s == FinishTool(shown, id)
<1>1. /\ shown \in Seq(CellSet) /\ DOMAIN shown = 1..Len(shown) /\ Len(shown) \in Nat
      /\ \A i \in 1..Len(shown) : shown[i] \in CellSet
  BY DEF Orderly
<1>2. s = IF m = 0 THEN shown ELSE [shown EXCEPT ![m].open = FALSE]
  BY DEF FinishTool
<1>3. F \in SUBSET (1..Len(shown)) /\ G \in SUBSET (1..Len(shown))
  BY <1>1
<1>4. F # {} => LastIndex(F) \in F /\ \A j \in F : j <= LastIndex(F)
  <2> HIDE DEF F, G
  <2> QED BY <1>1, <1>3, LastIndexIs
<1>5. G # {} => LastIndex(G) \in G
  <2> HIDE DEF F, G
  <2> QED BY <1>1, <1>3, LastIndexIs
<1>6. /\ m = 0 \/ m \in 1..Len(shown)
      /\ F # {} => m \in F /\ \A j \in F : j <= m
  <2>1. F = {} => LastIndex(F) = 0
    BY DEF LastIndex
  <2>2. G = {} => LastIndex(G) = 0
    BY DEF LastIndex
  <2>3. \A j \in 1..Len(shown) : j # 0
    BY <1>1
  <2> HIDE DEF F, G
  <2> QED BY <1>3, <1>4, <1>5, <2>1, <2>2, <2>3
<1> HIDE DEF m
<1>7. CASE m = 0
  <2>1. s = shown /\ F = {}
    <3>1. \A j \in F : j # 0
      BY <1>1
    <3> HIDE DEF F, s
    <3> QED BY <1>2, <1>6, <1>7, <3>1
  <2>2. <<"tool", id>> \notin OpenCells(shown)
    BY <2>1 DEF OpenCells
  <2> HIDE DEF s
  <2> QED BY <1>1, <2>1, <2>2 DEF Closes, s
<1>8. CASE m \in 1..Len(shown)
  <2>3. s = [shown EXCEPT ![m] = [shown[m] EXCEPT !.open = FALSE]]
    <3>1. m # 0
      BY <1>1, <1>8
    <3> HIDE DEF s
    <3> QED BY <1>1, <1>2, <1>8, <3>1
  <2>4. [shown[m] EXCEPT !.open = FALSE] \in CellSet
    BY <1>1, <1>8 DEF CellSet
  <2> HIDE DEF s
  <2>5. s \in Seq(CellSet) /\ Len(s) = Len(shown) /\ DOMAIN s = 1..Len(shown)
    BY <1>1, <1>8, <2>3, <2>4, ExceptSeq
  <2>6. \A i \in 1..Len(shown) : i # m => s[i] = shown[i]
    BY <1>1, <1>8, <2>3
  <2>7. /\ s[m].kind = shown[m].kind /\ s[m].id = shown[m].id /\ s[m].text = shown[m].text
        /\ ~s[m].open
    BY <1>1, <1>8, <2>3 DEF CellSet
  <2>8. Closes(s, shown) /\ \A i \in 1..Len(shown) : s[i].text = shown[i].text
    BY <1>1, <1>8, <2>5, <2>6, <2>7 DEF Closes
  <2>9. ASSUME NEW i \in 1..Len(shown), s[i].open, s[i].kind = "tool", s[i].id = id
        PROVE  FALSE
    <3>1. i # m /\ shown[i] = s[i]
      BY <2>6, <2>7, <2>9
    <3>2. i \in F
      BY <1>1, <2>9, <3>1
    <3>3. m \in F /\ i < m
      <4>1. m \in F /\ i <= m
        BY <1>6, <3>2
      <4> QED BY <1>1, <1>8, <3>1, <4>1
    <3>4. shown[m].kind = "tool" /\ shown[m].id = id
      BY <3>3
    <3> QED BY <1>1, <1>8, <2>9, <3>1, <3>3, <3>4 DEF Orderly
  <2> QED BY <1>1, <2>5, <2>8, <2>9 DEF OpenCells, s
<1> QED BY <1>6, <1>7, <1>8

-----------------------------------------------------------------------------
(* The transcript's operations: what they leave open, and the last piece.  *)

\* ShownWhole for a scrollback, a transcript and the latest finished message.
WholeShown(above, shown, done) ==
  LET p == LastPiece(above, shown)
  IN  done # <<>> /\ p # <<>> /\ p[1].id <= done[1].id =>
        p[1].id = done[1].id /\ p[1].text = done[1].text /\ ~p[1].open

\* Closing cells leaves the last piece with its text.
LEMMA WholeKept ==
  ASSUME NEW shown, Orderly(shown), NEW after, Closes(after, shown),
         \A i \in DOMAIN shown : after[i].text = shown[i].text,
         NEW above, NEW done, WholeShown(above, shown, done)
  PROVE  WholeShown(above, after, done)
<1> DEFINE i == PieceAt(shown)
<1>1. PieceAt(after) = i
  BY ClosesOrderly
<1>2. i = 0 \/ i \in DOMAIN shown
  <2>1. shown \in Seq(CellSet) /\ DOMAIN shown = 1..Len(shown)
    BY DEF Orderly
  <2> QED BY <2>1, PieceThere
<1> HIDE DEF i
<1>3. CASE i = 0
  <2>1. LastPiece(above, after) = above /\ LastPiece(above, shown) = above
    BY <1>1, <1>3 DEF LastPiece, i
  <2> QED BY <2>1 DEF WholeShown
<1>4. CASE i # 0
  <2>1. LastPiece(above, after) = <<after[i]>> /\ LastPiece(above, shown) = <<shown[i]>>
    BY <1>1, <1>4 DEF LastPiece, i
  <2>2. /\ after[i].id = shown[i].id /\ after[i].text = shown[i].text
        /\ after[i].open => shown[i].open
    BY <1>2, <1>4 DEF Closes
  <2> DEFINE a == after[i]  b == shown[i]
  <2>3. a.id = b.id /\ a.text = b.text /\ (a.open => b.open)
    BY <2>2
  <2>4. LastPiece(above, after) = <<a>> /\ LastPiece(above, shown) = <<b>>
    BY <2>1
  <2> HIDE DEF a, b
  <2> QED BY <2>3, <2>4 DEF WholeShown
<1> QED BY <1>3, <1>4

\* So does one more cell that is no answer.
LEMMA WholeBelow ==
  ASSUME NEW shown, Orderly(shown), NEW c \in CellSet, c.open => c.kind # "line",
         c.kind \in {"tool", "compaction"} => <<c.kind, c.id>> \notin OpenCells(shown),
         c.kind # "assistant", NEW above, NEW done, WholeShown(above, shown, done)
  PROVE  WholeShown(above, Append(shown, c), done)
<1> DEFINE i == PieceAt(shown)  s == Append(shown, c)
<1>1. PieceAt(s) = i
  BY OneMoreCell
<1>2. shown \in Seq(CellSet)
  BY DEF Orderly
<1>3. i = 0 \/ s[i] = shown[i]
  <2>1. i = 0 \/ i \in 1..Len(shown)
    BY <1>2, PieceThere
  <2> HIDE DEF i
  <2> QED BY <1>2, <2>1
<1> HIDE DEF i, s
<1>4. LastPiece(above, s) = LastPiece(above, shown)
  BY <1>1, <1>3 DEF LastPiece, i
<1> QED BY <1>4 DEF WholeShown, s

\* push_user and the others of its kind.
LEMMA Pushed ==
  ASSUME NEW shown, Orderly(shown), NEW above, NEW done, WholeShown(above, shown, done)
  PROVE  /\ Orderly(Push(shown)) /\ OpenCells(Push(shown)) \subseteq OpenCells(shown)
         /\ WholeShown(above, Push(shown), done)
<1>1. Line \in CellSet /\ Line.kind = "line" /\ ~Line.open
  BY DEF Line, Cell, CellSet, Text
<1>2. Push(shown) = Append(shown, Line)
  BY DEF Push
<1> HIDE DEF Line
<1>3. Orderly(Append(shown, Line)) /\ OpenCells(Append(shown, Line)) \subseteq OpenCells(shown)
  BY <1>1, OneMoreCell
<1>4. WholeShown(above, Append(shown, Line), done)
  BY <1>1, WholeBelow
<1> QED BY <1>2, <1>3, <1>4

LEMMA StartedCompaction ==
  ASSUME NEW shown, Orderly(shown), NEW id \in Nat, <<"compaction", id>> \notin OpenCells(shown),
         NEW above, NEW done, WholeShown(above, shown, done)
  PROVE  /\ Orderly(StartCompaction(shown, id))
         /\ OpenCells(StartCompaction(shown, id)) \subseteq OpenCells(shown) \cup {<<"compaction", id>>}
         /\ WholeShown(above, StartCompaction(shown, id), done)
<1> DEFINE c == Cell("compaction", id, <<>>, TRUE)
<1>1. c \in CellSet /\ c.kind = "compaction" /\ c.open /\ c.id = id
  BY DEF Cell, CellSet, Text
<1>2. StartCompaction(shown, id) = Append(shown, c)
  BY DEF StartCompaction
<1> HIDE DEF c
<1>3. /\ Orderly(Append(shown, c))
      /\ OpenCells(Append(shown, c)) \subseteq OpenCells(shown) \cup {<<"compaction", id>>}
  BY <1>1, OneMoreCell
<1>4. WholeShown(above, Append(shown, c), done)
  BY <1>1, WholeBelow
<1> QED BY <1>2, <1>3, <1>4

\* Closing what is streamed.
LEMMA StreamClosed ==
  ASSUME NEW shown, Orderly(shown)
  PROVE  /\ Orderly(CloseOpenCells(shown))
         /\ OpenCells(CloseOpenCells(shown)) \subseteq {x \in OpenCells(shown) : x[1] \notin Streamed}
         /\ \A above, done : WholeShown(above, shown, done) => WholeShown(above, CloseOpenCells(shown), done)
<1> DEFINE s == CloseOpenCells(shown)
<1>1. /\ Closes(s, shown) /\ \A i \in DOMAIN shown : s[i].text = shown[i].text
      /\ \A x \in OpenCells(s) : x[1] \notin Streamed
  BY ClosedCells DEF Orderly
<1> HIDE DEF s
<1>2. Orderly(s) /\ OpenCells(s) \subseteq OpenCells(shown)
  BY <1>1, ClosesOrderly
<1>3. \A above, done : WholeShown(above, shown, done) => WholeShown(above, s, done)
  BY <1>1, WholeKept
<1>4. OpenCells(s) \subseteq {x \in OpenCells(shown) : x[1] \notin Streamed}
  BY <1>1, <1>2
<1> QED BY <1>2, <1>3, <1>4 DEF s

LEMMA ToolPushed ==
  ASSUME NEW shown, Orderly(shown), NEW id \in Nat, <<"tool", id>> \notin OpenCells(shown),
         NEW above, NEW done, WholeShown(above, shown, done)
  PROVE  /\ Orderly(PushTool(shown, id))
         /\ OpenCells(PushTool(shown, id)) \subseteq OpenCells(shown) \cup {<<"tool", id>>}
         /\ WholeShown(above, PushTool(shown, id), done)
<1> DEFINE c == Cell("tool", id, <<>>, TRUE)  s == CloseOpenCells(shown)
<1>1. c \in CellSet /\ c.kind = "tool" /\ c.open /\ c.id = id
  BY DEF Cell, CellSet, Text
<1>2. PushTool(shown, id) = Append(s, c)
  BY DEF PushTool
<1>3. Orderly(s) /\ OpenCells(s) \subseteq OpenCells(shown) /\ WholeShown(above, s, done)
  BY StreamClosed
<1> HIDE DEF c, s
<1>4. <<c.kind, c.id>> \notin OpenCells(s)
  BY <1>1, <1>3
<1>5. /\ Orderly(Append(s, c))
      /\ OpenCells(Append(s, c)) \subseteq OpenCells(shown) \cup {<<"tool", id>>}
  <2>1. /\ Orderly(Append(s, c))
        /\ OpenCells(Append(s, c)) \subseteq OpenCells(s) \cup {<<"tool", id>>}
    BY <1>1, <1>3, <1>4, OneMoreCell
  <2> QED BY <1>3, <2>1
<1>6. WholeShown(above, Append(s, c), done)
  BY <1>1, <1>3, <1>4, WholeBelow
<1> QED BY <1>2, <1>5, <1>6

\* Another text for one cell.
Retold(shown, i, text) == [shown EXCEPT ![i].text = text]

LEMMA RetoldIs ==
  ASSUME NEW shown, Orderly(shown), NEW i \in DOMAIN shown, NEW text \in Text
  PROVE  /\ Orderly(Retold(shown, i, text)) /\ Closes(Retold(shown, i, text), shown)
         /\ Retold(shown, i, text)[i].text = text
         /\ Retold(shown, i, text)[i].open = shown[i].open
         /\ \A j \in DOMAIN shown : j # i => Retold(shown, i, text)[j] = shown[j]
<1> DEFINE s == Retold(shown, i, text)
<1>1. /\ shown \in Seq(CellSet) /\ DOMAIN shown = 1..Len(shown) /\ i \in 1..Len(shown)
      /\ \A j \in 1..Len(shown) : shown[j] \in CellSet
  BY DEF Orderly
<1>2. s = [shown EXCEPT ![i] = [shown[i] EXCEPT !.text = text]]
  BY DEF Retold
<1>3. [shown[i] EXCEPT !.text = text] \in CellSet
  BY <1>1 DEF CellSet
<1> HIDE DEF s
<1>4. s \in Seq(CellSet) /\ Len(s) = Len(shown)
  BY <1>1, <1>2, <1>3, ExceptSeq
<1>5. \A j \in DOMAIN shown : j # i => s[j] = shown[j]
  BY <1>1, <1>2
<1>6. /\ s[i].kind = shown[i].kind /\ s[i].id = shown[i].id /\ s[i].text = text
      /\ s[i].open = shown[i].open
  BY <1>1, <1>2 DEF CellSet
<1>7. Closes(s, shown)
  BY <1>1, <1>4, <1>5, <1>6 DEF Closes
<1>8. Orderly(s)
  BY <1>7, ClosesOrderly
<1> QED BY <1>5, <1>6, <1>7, <1>8 DEF s

\* append_assistant and append_thinking: an answer that goes on is later than the
\* finished one.
LEMMA DeltaAppended ==
  ASSUME NEW shown, Orderly(shown), NEW kind \in Streamed, NEW id \in Nat, NEW chunk \in Nat,
         NEW above, NEW done, WholeShown(above, shown, done),
         kind = "assistant" /\ done # <<>> => done[1].id \in Nat /\ done[1].id < id
  PROVE  /\ Orderly(AppendDelta(shown, kind, id, chunk))
         /\ OpenCells(AppendDelta(shown, kind, id, chunk)) \subseteq OpenCells(shown) \cup {<<kind, id>>}
         /\ WholeShown(above, AppendDelta(shown, kind, id, chunk), done)
<1> DEFINE n == Len(shown)  s == AppendDelta(shown, kind, id, chunk)
<1>0. /\ shown \in Seq(CellSet) /\ DOMAIN shown = 1..n /\ n \in Nat
      /\ \A j \in 1..n : shown[j] \in CellSet
  BY DEF Orderly
<1>1. CASE n > 0 /\ shown[n].kind = kind /\ shown[n].open
  <2> DEFINE text == Append(shown[n].text, chunk)  r == Retold(shown, n, text)
  <2>1. n \in DOMAIN shown /\ text \in Text
    <3>1. n \in 1..n /\ shown[n].text \in Seq(Nat)
      <4> HIDE DEF n
      <4>1. n \in 1..n
        BY <1>0, <1>1
      <4>2. shown[n] \in CellSet
        BY <1>0, <4>1
      <4> QED BY <4>1, <4>2 DEF CellSet, Text
    <3>2. Append(shown[n].text, chunk) \in Seq(Nat)
      BY <3>1
    <3> QED BY <1>0, <3>1, <3>2 DEF Text
  <2>2. s = r
    BY <1>1 DEF AppendDelta, Retold
  <2> HIDE DEF text
  <2>3. /\ Orderly(r) /\ Closes(r, shown) /\ r[n].open
        /\ \A j \in DOMAIN shown : j # n => r[j] = shown[j]
    BY <1>1, <2>1, RetoldIs
  <2> HIDE DEF r, s
  <2>4. OpenCells(r) \subseteq OpenCells(shown) /\ PieceAt(r) = PieceAt(shown)
    BY <2>3, ClosesOrderly
  <2> DEFINE i == PieceAt(shown)
  <2>5. i = 0 \/ i \in 1..n
    BY <1>0, PieceThere
  <2>6. CASE i = n
    <3>0. n # 0
      BY <1>0, <1>1
    <3>1. LastPiece(above, shown) = <<shown[n]>> /\ LastPiece(above, r) = <<r[n]>>
      BY <2>4, <2>6, <3>0 DEF LastPiece
    <3>2. r[n].id = shown[n].id
      BY <2>1, <2>3 DEF Closes
    <3>3. done # <<>> => ~(shown[n].id <= done[1].id)
      BY <1>1, <3>1 DEF WholeShown
    <3>4. WholeShown(above, r, done)
      <4> DEFINE a == r[n]  b == shown[n]
      <4>1. LastPiece(above, r) = <<a>> /\ a.id = b.id /\ (done # <<>> => ~(b.id <= done[1].id))
        BY <3>1, <3>2, <3>3
      <4> HIDE DEF a, b
      <4> QED BY <4>1 DEF WholeShown
    <3> QED BY <2>2, <2>3, <2>4, <3>4 DEF s
  <2>7. CASE i # n
    <3>1. i = 0 \/ r[i] = shown[i]
      BY <1>0, <2>3, <2>5, <2>7
    <3>2. LastPiece(above, r) = LastPiece(above, shown)
      BY <2>4, <3>1 DEF LastPiece
    <3>3. WholeShown(above, r, done)
      BY <3>2 DEF WholeShown
    <3> QED BY <2>2, <2>3, <2>4, <3>3 DEF s
  <2> QED BY <2>6, <2>7
<1>2. CASE ~(n > 0 /\ shown[n].kind = kind /\ shown[n].open)
  <2> DEFINE c == Cell(kind, id, <<chunk>>, TRUE)  t == CloseOpenCells(shown)
  <2>1. c \in CellSet /\ c.kind = kind /\ c.open /\ c.id = id /\ kind \in {"assistant", "thinking"}
    BY DEF Cell, CellSet, Text, Streamed
  <2>2. s = Append(t, c)
    BY <1>2 DEF AppendDelta
  <2>3. /\ Orderly(t) /\ OpenCells(t) \subseteq OpenCells(shown) /\ WholeShown(above, t, done)
    BY StreamClosed
  <2> HIDE DEF c, t, s
  <2>4. /\ Orderly(Append(t, c)) /\ OpenCells(Append(t, c)) \subseteq OpenCells(t) \cup {<<kind, id>>}
        /\ kind = "assistant" => PieceAt(Append(t, c)) = Len(t) + 1
    BY <2>1, <2>3, OneMoreCell
  <2>5. CASE kind = "thinking"
    <3>1. WholeShown(above, Append(t, c), done)
      BY <2>1, <2>3, <2>5, WholeBelow
    <3> QED BY <2>2, <2>3, <2>4, <3>1 DEF s
  <2>6. CASE kind = "assistant"
    <3>1. Len(t) + 1 # 0 /\ Append(t, c)[Len(t) + 1] = c
      BY <2>3 DEF Orderly
    <3>2. LastPiece(above, Append(t, c)) = <<c>>
      BY <2>4, <2>6, <3>1 DEF LastPiece
    <3>3. done # <<>> => ~(c.id <= done[1].id)
      BY <2>1, <2>6
    <3>4. WholeShown(above, Append(t, c), done)
      BY <3>2, <3>3 DEF WholeShown
    <3> QED BY <2>2, <2>3, <2>4, <3>4 DEF s
  <2> QED BY <2>1, <2>5, <2>6
<1> QED BY <1>1, <1>2

\* finalize_assistant: what is on screen of the message that ends is its text.
LEMMA Finalizes ==
  ASSUME NEW shown, Orderly(shown), NEW id \in Nat, NEW full \in Text, full # <<>>,
         \A x \in OpenCells(shown) : x[1] = "assistant" => x[2] = id, NEW above
  PROVE  /\ Orderly(FinalizeAssistant(shown, id, full))
         /\ OpenCells(FinalizeAssistant(shown, id, full)) \subseteq {x \in OpenCells(shown) : x[1] \notin Streamed}
         /\ WholeShown(above, FinalizeAssistant(shown, id, full), <<[id |-> id, text |-> full]>>)
<1> DEFINE i == PieceAt(shown)  done == <<[id |-> id, text |-> full]>>
           s == FinalizeAssistant(shown, id, full)
<1>0. /\ shown \in Seq(CellSet) /\ DOMAIN shown = 1..Len(shown) /\ Len(shown) \in Nat
      /\ \A j \in 1..Len(shown) : shown[j] \in CellSet
  BY DEF Orderly
<1>1. i = LastIndex({k \in DOMAIN shown : shown[k].kind = "assistant"})
  BY DEF PieceAt
<1>2. i = 0 \/ (i \in 1..Len(shown) /\ shown[i].kind = "assistant")
  BY <1>0, PieceThere
<1>3. CASE i # 0 /\ shown[i].open
  <2> DEFINE r == Retold(shown, i, full)
  <2>1. s = CloseOpenCells(r)
    BY <1>1, <1>3 DEF FinalizeAssistant, Retold
  <2>2. /\ Orderly(r) /\ Closes(r, shown) /\ r[i].text = full
    BY <1>0, <1>2, <1>3, RetoldIs
  <2> HIDE DEF r, s
  <2>3. r[i].id = id
    <3>1. <<shown[i].kind, shown[i].id>> \in OpenCells(shown) /\ shown[i].kind = "assistant"
      BY <1>0, <1>2, <1>3 DEF OpenCells
    <3>2. shown[i].id = id
      BY <3>1
    <3> QED BY <1>0, <1>2, <1>3, <2>2, <3>2 DEF Closes
  <2>4. OpenCells(r) \subseteq OpenCells(shown) /\ PieceAt(r) = i
    BY <2>2, ClosesOrderly
  <2>5. /\ Orderly(CloseOpenCells(r))
        /\ OpenCells(CloseOpenCells(r)) \subseteq {x \in OpenCells(r) : x[1] \notin Streamed}
    BY <2>2, StreamClosed
  <2>6. /\ Closes(CloseOpenCells(r), r) /\ DOMAIN r = DOMAIN shown
        /\ \A j \in DOMAIN r : CloseOpenCells(r)[j].text = r[j].text
        /\ \A x \in OpenCells(CloseOpenCells(r)) : x[1] \notin Streamed
    BY <1>0, <2>2, ClosedCells DEF Orderly, Closes
  <2> DEFINE v == CloseOpenCells(r)[i]
  <2>7. /\ PieceAt(CloseOpenCells(r)) = i /\ v.id = id /\ v.text = full /\ ~v.open
    <3>1. PieceAt(CloseOpenCells(r)) = i
      BY <2>2, <2>4, <2>6, ClosesOrderly
    <3>2. i \in DOMAIN r /\ v.id = r[i].id /\ v.text = r[i].text /\ v.kind = r[i].kind /\ r[i].kind = "assistant"
      BY <1>0, <1>2, <1>3, <2>2, <2>6 DEF Closes
    <3>3. ~v.open
      <4> SUFFICES ASSUME v.open PROVE FALSE
        OBVIOUS
      <4>1. i \in DOMAIN CloseOpenCells(r)
        BY <2>6, <3>2 DEF Closes
      <4>2. <<v.kind, v.id>> \in OpenCells(CloseOpenCells(r))
        BY <4>1 DEF OpenCells
      <4>3. v.kind \notin Streamed
        BY <2>6, <4>2
      <4> QED BY <3>2, <4>3 DEF Streamed
    <3> QED BY <2>2, <2>3, <3>1, <3>2, <3>3
  <2>8. LastPiece(above, CloseOpenCells(r)) = <<v>>
    BY <1>3, <2>7 DEF LastPiece
  <2> HIDE DEF v
  <2>9. WholeShown(above, CloseOpenCells(r), done)
    BY <2>7, <2>8 DEF WholeShown
  <2> QED BY <2>1, <2>4, <2>5, <2>9 DEF s
<1>4. CASE ~(i # 0 /\ shown[i].open)
  <2> DEFINE c == Cell("assistant", id, full, FALSE)  t == Append(shown, c)
  <2>1. c \in CellSet /\ c.kind = "assistant" /\ ~c.open /\ c.id = id /\ c.text = full
    BY DEF Cell, CellSet
  <2>2. s = CloseOpenCells(t)
    BY <1>1, <1>4 DEF FinalizeAssistant
  <2> HIDE DEF c, s
  <2>3. /\ Orderly(t) /\ OpenCells(t) \subseteq OpenCells(shown) /\ PieceAt(t) = Len(shown) + 1
    BY <2>1, OneMoreCell
  <2>4. Len(shown) + 1 # 0 /\ t[Len(shown) + 1] = c
    BY <1>0
  <2> HIDE DEF t
  <2>5. LastPiece(above, t) = <<c>>
    BY <2>3, <2>4 DEF LastPiece
  <2>6. WholeShown(above, t, done)
    BY <2>1, <2>5 DEF WholeShown
  <2>7. /\ Orderly(CloseOpenCells(t)) /\ WholeShown(above, CloseOpenCells(t), done)
        /\ OpenCells(CloseOpenCells(t)) \subseteq {x \in OpenCells(t) : x[1] \notin Streamed}
    BY <2>3, <2>6, StreamClosed
  <2> QED BY <2>2, <2>3, <2>7 DEF s
<1> QED BY <1>3, <1>4

\* What commit_history keeps, with the scrollback it adds to.
LEMMA Commits ==
  ASSUME NEW shown, Orderly(shown), NEW above
  PROVE  /\ Orderly(Kept(shown)) /\ OpenCells(Kept(shown)) \subseteq OpenCells(shown)
         /\ LastPiece(LastPiece(above, Drained(shown)), Kept(shown)) = LastPiece(above, shown)
<1> DEFINE n == Len(shown)  k == Finalized(shown)  s == Kept(shown)  d == Drained(shown)
<1>0. /\ shown \in Seq(CellSet) /\ DOMAIN shown = 1..n /\ n \in Nat /\ k \in 0..n
  <2>1. shown \in Seq(CellSet)
    BY DEF Orderly
  <2> QED BY <2>1, FinalizedIs
<1> HIDE DEF k
<1>1. /\ s \in Seq(CellSet) /\ Len(s) = n - k /\ DOMAIN s = 1..(n - k)
      /\ \A j \in 1..(n - k) : s[j] = shown[k + j]
  <2>1. s = SubSeq(shown, k + 1, n)
    BY DEF Kept, k
  <2> HIDE DEF s, n
  <2>2. k + 1 \in 1..(n + 1) /\ n \in Nat /\ n = Len(shown)
    BY <1>0 DEF n
  <2>3. \A j \in (k + 1)..n : shown[j] \in CellSet
    BY <1>0, <2>2
  <2>4. /\ s \in Seq(CellSet) /\ Len(s) = IF k + 1 <= n THEN n - (k + 1) + 1 ELSE 0
        /\ \A j \in 1..(n - (k + 1) + 1) : s[j] = shown[(k + 1) + j - 1]
    BY <1>0, <2>1, <2>2, <2>3, SubSeqProperties
  <2>5. n - (k + 1) + 1 = n - k /\ \A j \in 1..(n - k) : (k + 1) + j - 1 = k + j
    BY <1>0, <2>2
  <2>6. (IF k + 1 <= n THEN n - (k + 1) + 1 ELSE 0) = n - k
    <3>1. k \in Nat /\ n \in Nat /\ k <= n
      BY <1>0, <2>2
    <3> HIDE DEF n
    <3>2. CASE k + 1 <= n
      BY <3>1, <3>2
    <3>3. CASE ~(k + 1 <= n)
      <4>1. k = n
        BY <3>1, <3>3
      <4> QED BY <3>1, <3>3, <4>1
    <3> QED BY <3>2, <3>3
  <2>7. \A j \in 1..(n - k) : s[j] = shown[k + j]
    BY <2>4, <2>5
  <2> QED BY <2>4, <2>6, <2>7
<1>2. /\ d \in Seq(CellSet) /\ Len(d) = k /\ DOMAIN d = 1..k /\ \A j \in 1..k : d[j] = shown[j]
  <2>1. d = SubSeq(shown, 1, k)
    BY DEF Drained, k
  <2> HIDE DEF d
  <2> QED BY <1>0, <2>1, SubSeqProperties
<1> HIDE DEF s, d, n
<1>3. Orderly(s)
  <2>1. ASSUME NEW i \in 1..(n - k), s[i].open
        PROVE  /\ s[i].kind # "line"
               /\ s[i].kind \in {"tool", "compaction"} =>
                    \A j \in 1..(n - k) : i < j => s[j].kind # s[i].kind \/ s[j].id # s[i].id
    <3>1. k + i \in 1..n /\ s[i] = shown[k + i]
      BY <1>0, <1>1, <2>1
    <3>2. \A j \in 1..(n - k) : k + j \in 1..n /\ s[j] = shown[k + j] /\ (i < j => k + i < k + j)
      BY <1>0, <1>1
    <3> QED BY <1>0, <2>1, <3>1, <3>2 DEF Orderly
  <2> QED BY <1>1, <2>1 DEF Orderly
<1>4. OpenCells(s) \subseteq OpenCells(shown)
  <2> SUFFICES ASSUME NEW i \in 1..(n - k), s[i].open
               PROVE  <<s[i].kind, s[i].id>> \in OpenCells(shown)
    BY <1>1 DEF OpenCells
  <2>1. k + i \in DOMAIN shown /\ s[i] = shown[k + i]
    BY <1>0, <1>1
  <2> QED BY <2>1 DEF OpenCells
<1>5. LastPiece(LastPiece(above, d), s) = LastPiece(above, shown)
  <2> DEFINE a == PieceAt(s)  b == PieceAt(d)  c == PieceAt(shown)
  <2>1. \/ a = 0 /\ \A i \in 1..(n - k) : s[i].kind # "assistant"
        \/ a \in 1..(n - k) /\ s[a].kind = "assistant" /\ \A i \in 1..(n - k) : s[i].kind = "assistant" => i <= a
    BY <1>1, PieceThere
  <2>2. \/ b = 0 /\ \A i \in 1..k : d[i].kind # "assistant"
        \/ b \in 1..k /\ d[b].kind = "assistant" /\ \A i \in 1..k : d[i].kind = "assistant" => i <= b
    BY <1>2, PieceThere
  <2>3. \/ c = 0 /\ \A i \in 1..n : shown[i].kind # "assistant"
        \/ c \in 1..n /\ shown[c].kind = "assistant" /\ \A i \in 1..n : shown[i].kind = "assistant" => i <= c
    BY <1>0, PieceThere DEF n
  <2> HIDE DEF a, b, c
  <2>4. CASE a # 0
    <3>1. k + a \in 1..n /\ shown[k + a].kind = "assistant" /\ s[a] = shown[k + a]
      BY <1>0, <1>1, <2>1, <2>4
    <3>2. c \in 1..n /\ k + a <= c
      BY <2>3, <3>1
    <3>3. c - k \in 1..(n - k) /\ s[c - k].kind = "assistant"
      <4>1. c - k \in 1..(n - k) /\ k + (c - k) = c
        BY <1>0, <2>1, <2>4, <3>2
      <4>2. s[c - k] = shown[c]
        BY <1>1, <4>1
      <4> QED BY <2>3, <3>2, <4>1, <4>2
    <3>4. c - k <= a
      BY <2>1, <2>4, <3>3
    <3>5. c = k + a
      BY <1>0, <2>1, <2>4, <3>2, <3>4
    <3>6. c # 0 /\ shown[c] = s[a]
      BY <1>0, <3>1, <3>2, <3>5
    <3> QED BY <2>4, <3>6 DEF LastPiece, a, c
  <2>5. CASE a = 0
    <3>1. c <= k
      <4> SUFFICES ASSUME c \in 1..n, k < c PROVE FALSE
        BY <1>0, <2>3
      <4>1. c - k \in 1..(n - k) /\ k + (c - k) = c
        BY <1>0
      <4>2. s[c - k] = shown[c]
        BY <1>1, <4>1
      <4> QED BY <1>0, <2>1, <2>3, <2>5, <4>1, <4>2
    <3>2. LastPiece(above, d) = LastPiece(above, shown)
      <4>1. CASE c = 0
        <5>1. b = 0
          BY <1>0, <1>2, <2>2, <2>3, <4>1
        <5> QED BY <4>1, <5>1 DEF LastPiece, b, c
      <4>2. CASE c # 0
        <5>1. c \in 1..k /\ d[c] = shown[c] /\ shown[c].kind = "assistant"
          BY <1>0, <1>2, <2>3, <3>1, <4>2
        <5>2. b \in 1..k /\ c <= b
          BY <2>2, <5>1
        <5>3. b <= c
          BY <1>0, <1>2, <2>2, <2>3, <4>2, <5>2
        <5>4. b = c
          BY <5>1, <5>2, <5>3
        <5>5. b # 0
          BY <5>2
        <5> QED BY <4>2, <5>1, <5>4, <5>5 DEF LastPiece, b, c
      <4> QED BY <4>1, <4>2
    <3> QED BY <2>5, <3>2 DEF LastPiece, a
  <2> QED BY <2>4, <2>5
<1> QED BY <1>3, <1>4, <1>5 DEF s, d

-----------------------------------------------------------------------------
(* The outline of the screen, and what the queued events make of it.       *)

Phases == {"idle", "running", "compacting", "retrying", "waiting"}
Shots == [phase : Phases, pending : Nat, plan : Nat, session : Session]

Event ==
  [t : {"snapshot"}, arg : Shots]
  \cup [t : Streamed, arg : [id : Nat, chunk : Nat]]
  \cup [t : {"finished"}, arg : [id : Nat, text : Text]]
  \cup [t : {"line", "error", "started", "settled", "compactStart", "compactEnd", "tool", "toolEnd",
             "ask", "resolved", "plan", "cleared", "model", "listed"}, arg : Nat]

\* What of the screen the events replace or add to; sound says that every event so
\* far came in its turn.
Outline ==
  [busy |-> ui.busy, compacting |-> ui.compacting, session |-> ui.session, plan |-> ui.plan,
   open |-> OpenCells(cells), last |-> IF whole = <<>> THEN 0 ELSE whole[1].id, sound |-> TRUE]

\* An event comes in its turn: an answer goes on after the finished ones, ends as the
\* one that is open, and nothing starts that has not ended.
InTurn(u, e) ==
  /\ e.t = "assistant" => u.last < e.arg.id
  /\ e.t = "finished" => /\ e.arg.text # <<>>
                         /\ \A x \in u.open : x[1] = "assistant" => x[2] = e.arg.id
  /\ e.t = "tool" => <<"tool", e.arg>> \notin u.open
  /\ e.t = "compactStart" => <<"compaction", e.arg>> \notin u.open

\* The outline after an event, at most: more cells may be closed.
Shown(u, e) ==
  [busy |-> IF e.t = "snapshot" THEN e.arg.phase # "idle"
            ELSE IF e.t \in {"started", "compactStart"} THEN TRUE
            ELSE IF e.t = "settled" THEN FALSE ELSE u.busy,
   compacting |-> IF e.t = "snapshot"
                    THEN e.arg.phase = "compacting" \/ (e.arg.phase = "retrying" /\ u.compacting)
                  ELSE IF e.t = "compactStart" THEN TRUE
                  ELSE IF e.t \in {"compactEnd", "settled"} THEN FALSE ELSE u.compacting,
   session |-> IF e.t = "snapshot" THEN e.arg.session ELSE u.session,
   plan |-> IF e.t = "snapshot" THEN e.arg.plan ELSE IF e.t = "plan" THEN e.arg
            ELSE IF e.t = "cleared" THEN 0 ELSE u.plan,
   open |-> IF e.t \in Streamed THEN u.open \cup {<<e.t, e.arg.id>>}
            ELSE IF e.t \in {"finished", "settled"} THEN {x \in u.open : x[1] \notin Streamed}
            ELSE IF e.t = "tool" THEN u.open \cup {<<"tool", e.arg>>}
            ELSE IF e.t = "toolEnd" THEN u.open \ {<<"tool", e.arg>>}
            ELSE IF e.t = "compactStart" THEN u.open \cup {<<"compaction", e.arg>>}
            ELSE IF e.t = "compactEnd" THEN u.open \ {<<"compaction", e.arg>>}
            ELSE u.open,
   last |-> IF e.t = "finished" THEN e.arg.id ELSE u.last,
   sound |-> u.sound /\ InTurn(u, e)]

\* u is within v: the same screen, on which no less is closed.
Within(u, v) ==
  /\ u.busy = v.busy /\ u.compacting = v.compacting /\ u.session = v.session /\ u.plan = v.plan
  /\ u.open \subseteq v.open /\ u.last <= v.last /\ (v.sound => u.sound)

\* f leads through the events of q, each in its turn, from an outline around o.
Leads(f, o, q) ==
  /\ Within(o, f[0])
  /\ \A i \in 1..Len(q) : Within(Shown(f[i - 1], q[i]), f[i])
  /\ \A i \in 0..Len(q) : f[i].last \in Nat /\ f[i].sound

\* Once the events of q are applied the outline o has become one within z.
Coming(o, q, z) == \E f : Leads(f, o, q) /\ f[Len(q)] = z

LEMMA WithinSelf == ASSUME NEW u, u.last \in Nat PROVE Within(u, u)
BY DEF Within

LEMMA WithinAll ==
  ASSUME NEW u, NEW v, NEW w, Within(u, v), Within(v, w),
         u.last \in Nat, v.last \in Nat, w.last \in Nat
  PROVE  Within(u, w)
BY DEF Within

\* An event takes outlines within each other to such outlines.
LEMMA ShownWithin ==
  ASSUME NEW u, NEW v, Within(u, v), u.last \in Nat, v.last \in Nat, NEW e \in Event
  PROVE  Within(Shown(u, e), Shown(v, e))
<1>1. /\ u.busy = v.busy /\ u.compacting = v.compacting /\ u.session = v.session /\ u.plan = v.plan
      /\ u.open \subseteq v.open /\ u.last <= v.last /\ (v.sound => u.sound)
  BY DEF Within
<1>2. e.t = "finished" \/ e.t = "assistant" => e.arg.id \in Nat
  BY DEF Event, Streamed
<1> DEFINE a == Shown(u, e)  b == Shown(v, e)
<1>3. a.busy = b.busy /\ a.compacting = b.compacting /\ a.session = b.session /\ a.plan = b.plan
  BY <1>1 DEF Shown
<1>4. a.open \subseteq b.open
  BY <1>1 DEF Shown
<1>5. a.last <= b.last
  BY <1>1, <1>2 DEF Shown
<1>6. InTurn(v, e) => InTurn(u, e)
  BY <1>1, <1>2 DEF InTurn
<1>7. b.sound => a.sound
  BY <1>1, <1>6 DEF Shown
<1> QED BY <1>3, <1>4, <1>5, <1>7 DEF Within

LEMMA ShownLast ==
  ASSUME NEW u, u.last \in Nat, NEW e \in Event PROVE Shown(u, e).last \in Nat
BY DEF Shown, Event, Streamed

\* One more event is sent.
LEMMA ComingMore ==
  ASSUME NEW o, NEW q \in Seq(Event), NEW z, Coming(o, q, z), NEW e \in Event, InTurn(z, e)
  PROVE  Coming(o, Append(q, e), Shown(z, e))
<1> DEFINE n == Len(q)  r == Append(q, e)
<1>1. PICK f : Leads(f, o, q) /\ f[n] = z
  BY DEF Coming
<1>2. n \in Nat /\ Len(r) = n + 1 /\ r[n + 1] = e /\ \A i \in 1..n : r[i] = q[i]
  OBVIOUS
<1> HIDE DEF n, r
<1> DEFINE g == [i \in 0..(n + 1) |-> IF i = n + 1 THEN Shown(z, e) ELSE f[i]]
<1>3. g[n + 1] = Shown(z, e) /\ g[0] = f[0] /\ \A i \in 0..n : g[i] = f[i]
  BY <1>2
<1> HIDE DEF g
<1>4. z.last \in Nat /\ z.sound /\ Shown(z, e).last \in Nat /\ Shown(z, e).sound
  <2>1. z.last \in Nat /\ z.sound
    BY <1>1, <1>2 DEF Leads, n
  <2>2. Shown(z, e).last \in Nat
    BY <2>1, ShownLast
  <2> QED BY <2>1, <2>2 DEF Shown
<1>5. Within(o, g[0])
  BY <1>1, <1>3 DEF Leads
<1>6. \A i \in 1..(n + 1) : Within(Shown(g[i - 1], r[i]), g[i])
  <2> SUFFICES ASSUME NEW i \in 1..(n + 1) PROVE Within(Shown(g[i - 1], r[i]), g[i])
    OBVIOUS
  <2>1. CASE i = n + 1
    <3>1. g[i - 1] = z /\ r[i] = e /\ g[i] = Shown(z, e)
      <4>1. i - 1 = n /\ n \in 0..n
        BY <1>2, <2>1
      <4> QED BY <1>1, <1>2, <1>3, <2>1, <4>1
    <3> QED BY <1>4, <3>1, WithinSelf
  <2>2. CASE i \in 1..n
    <3>1. g[i - 1] = f[i - 1] /\ g[i] = f[i] /\ r[i] = q[i]
      <4>1. i - 1 \in 0..n /\ i \in 0..n
        BY <1>2, <2>2
      <4> QED BY <1>2, <1>3, <2>2, <4>1
    <3> QED BY <1>1, <2>2, <3>1 DEF Leads, n
  <2> QED BY <1>2, <2>1, <2>2
<1>7. \A i \in 0..(n + 1) : g[i].last \in Nat /\ g[i].sound
  <2> SUFFICES ASSUME NEW i \in 0..(n + 1) PROVE g[i].last \in Nat /\ g[i].sound
    OBVIOUS
  <2>1. CASE i = n + 1
    BY <1>3, <1>4, <2>1
  <2>2. CASE i \in 0..n
    BY <1>1, <1>3, <2>2 DEF Leads, n
  <2> QED BY <1>2, <2>1, <2>2
<1> QED BY <1>2, <1>3, <1>5, <1>6, <1>7 DEF Coming, Leads, r

\* The outline gets no larger.
LEMMA ComingLess ==
  ASSUME NEW o, NEW p, Within(p, o), p.last \in Nat, o.last \in Nat,
         NEW q \in Seq(Event), NEW z, Coming(o, q, z)
  PROVE  Coming(p, q, z)
<1>1. PICK f : Leads(f, o, q) /\ f[Len(q)] = z
  BY DEF Coming
<1>2. 0 \in 0..Len(q)
  OBVIOUS
<1>3. Within(p, f[0])
  BY <1>1, <1>2, WithinAll DEF Leads
<1> QED BY <1>1, <1>3 DEF Coming, Leads

\* The first event is applied.
LEMMA ComingNext ==
  ASSUME NEW o, o.last \in Nat, NEW p, p.last \in Nat, NEW q \in Seq(Event), q # <<>>,
         Within(p, Shown(o, Head(q))), NEW z, Coming(o, q, z)
  PROVE  Coming(p, Tail(q), z)
<1> DEFINE n == Len(q) - 1  r == Tail(q)
<1>1. PICK f : Leads(f, o, q) /\ f[Len(q)] = z
  BY DEF Coming
<1>2. /\ n \in Nat /\ Len(q) = n + 1 /\ Len(r) = n /\ q[1] = Head(q) /\ q[1] \in Event
      /\ \A i \in 1..n : r[i] = q[i + 1]
  OBVIOUS
<1> HIDE DEF n, r
<1> DEFINE g == [i \in 0..n |-> f[i + 1]]
<1>3. \A i \in 0..n : g[i] = f[i + 1]
  OBVIOUS
<1> HIDE DEF g
<1>4. \A i \in 0..(n + 1) : f[i].last \in Nat /\ f[i].sound
  BY <1>1, <1>2 DEF Leads
<1>5. Within(p, g[0])
  <2>1. 0 \in 0..(n + 1) /\ 1 \in 0..(n + 1) /\ 0 \in 0..n /\ 1 \in 1..(n + 1)
    BY <1>2
  <2>2. g[0] = f[1]
    BY <1>3, <2>1
  <2>3. Within(o, f[0]) /\ Within(Shown(f[1 - 1], q[1]), f[1])
    BY <1>1, <1>2, <2>1 DEF Leads
  <2>4. Within(Shown(o, q[1]), Shown(f[0], q[1]))
    BY <1>2, <1>4, <2>1, <2>3, ShownWithin
  <2>5. Shown(o, q[1]).last \in Nat /\ Shown(f[0], q[1]).last \in Nat
    BY <1>2, <1>4, <2>1, ShownLast
  <2>6. Within(Shown(o, q[1]), f[1])
    <3>1. 1 - 1 = 0
      OBVIOUS
    <3> QED BY <1>4, <2>1, <2>3, <2>4, <2>5, <3>1, WithinAll
  <2> QED BY <1>2, <1>4, <2>1, <2>2, <2>5, <2>6, WithinAll
<1>6. \A i \in 1..n : Within(Shown(g[i - 1], r[i]), g[i])
  <2> SUFFICES ASSUME NEW i \in 1..n PROVE Within(Shown(g[i - 1], r[i]), g[i])
    OBVIOUS
  <2>1. i - 1 \in 0..n /\ i \in 0..n /\ i + 1 \in 1..(n + 1) /\ (i - 1) + 1 = (i + 1) - 1
    BY <1>2
  <2>2. g[i - 1] = f[(i + 1) - 1] /\ g[i] = f[i + 1] /\ r[i] = q[i + 1]
    BY <1>2, <1>3, <2>1
  <2> QED BY <1>1, <1>2, <2>1, <2>2 DEF Leads
<1>7. \A i \in 0..n : g[i].last \in Nat /\ g[i].sound
  <2> SUFFICES ASSUME NEW i \in 0..n PROVE g[i].last \in Nat /\ g[i].sound
    OBVIOUS
  <2>1. i + 1 \in 0..(n + 1)
    BY <1>2
  <2> QED BY <1>3, <1>4, <2>1
<1>8. g[n] = z
  <2>1. n \in 0..n
    BY <1>2
  <2> QED BY <1>1, <1>2, <1>3, <2>1
<1> QED BY <1>2, <1>5, <1>6, <1>7, <1>8 DEF Coming, Leads, r

\* The first event comes in its turn.
LEMMA HeadInTurn ==
  ASSUME NEW o, o.last \in Nat, NEW q \in Seq(Event), q # <<>>, NEW z, Coming(o, q, z)
  PROVE  InTurn(o, Head(q))
<1>1. PICK f : Leads(f, o, q) /\ f[Len(q)] = z
  BY DEF Coming
<1>2. 0 \in 0..Len(q) /\ 1 \in 1..Len(q) /\ 1 \in 0..Len(q) /\ q[1] = Head(q) /\ q[1] \in Event /\ 1 - 1 = 0
  OBVIOUS
<1>3. Within(o, f[0]) /\ Within(Shown(f[0], q[1]), f[1]) /\ f[0].last \in Nat /\ f[1].last \in Nat /\ f[1].sound
  BY <1>1, <1>2 DEF Leads
<1>4. Within(Shown(o, q[1]), Shown(f[0], q[1]))
  BY <1>2, <1>3, ShownWithin
<1>5. Shown(f[0], q[1]).sound
  BY <1>3 DEF Within
<1>6. Shown(o, q[1]).sound
  BY <1>4, <1>5 DEF Within
<1> QED BY <1>2, <1>6 DEF Shown

\* With no event left the outline is there, and before the first event too.
LEMMA ComingNow ==
  ASSUME NEW o, NEW z, Coming(o, <<>>, z) PROVE Within(o, z)
BY DEF Coming, Leads

LEMMA ComingFirst ==
  ASSUME NEW o, o.last \in Nat, o.sound PROVE Coming(o, <<>>, o)
<1> DEFINE f == [i \in 0..0 |-> o]
<1>1. f[0] = o /\ Len(<<>>) = 0 /\ 1..0 = {} /\ 0..0 = {0}
  OBVIOUS
<1>2. Within(o, f[0])
  BY <1>1, WithinSelf
<1> HIDE DEF f
<1>3. Leads(f, o, <<>>)
  BY <1>1, <1>2 DEF Leads
<1> QED BY <1>1, <1>3 DEF Coming

-----------------------------------------------------------------------------
(* The inductive invariant.                                                *)

Places == {"idle", "begin", "round", "prompt", "compact", "compacting", "stream", "heard", "backoff",
           "failing", "ending", "settle", "tools", "asking", "flush", "list", "clear", "load", "model"}
Commands == {"input", "steer", "follow", "list", "clear", "compact", "load", "model"}
Stages == {"new", "shown", "asked", "ready", "refused", "deferred", "done"}
Overlays == {"none", "loading", "sessions", "models", "efforts", "toolList", "toolDetail", "approval"}

Screens == [busy : BOOLEAN, compacting : BOOLEAN, session : Session, plan : Nat,
            overlay : [kind : Overlays, arg : Nat], tools : BOOLEAN, reasoning : BOOLEAN]

FrontTypes ==
  /\ at \in Places /\ sending \in SUBSET (Commands \X Nat) /\ keys \in Nat
  /\ round \in Nat /\ extra \in Nat /\ said \in Text /\ call \in [Call -> Stages]
  /\ shared \in Shots /\ plan \in [Session -> Nat] /\ session \in Session /\ torn \in BOOLEAN
  /\ chan \in Seq(Event) /\ answer \in {"none", "allow", "deny"}
  /\ ui \in Screens
  /\ whole # <<>> => whole[1].id \in Nat

\* The snapshot says where the worker stands, and who is asked about what.
WorkerPlaced ==
  /\ (at = "idle") = (shared.phase = "idle")
  /\ shared.phase = "compacting" => at \in {"compact", "compacting", "failing", "ending", "settle"}
  /\ (shared.pending # 0) = (at = "asking")
  /\ \A c \in Call : call[c] = "asked" => at = "asking" /\ shared.pending = ToolId(c)
  /\ \A c \in Call : call[c] = "deferred" => c = Calls
  /\ at = "flush" => \A c \in Call : call[c] \in {"done", "deferred"}
  /\ answer # "none" => at = "asking"

\* The call of a turn whose commit failed can no longer end.
Lost(t) ==
  torn /\ t <= IF at \in {"stream", "heard", "backoff", "tools", "asking", "flush"}
               THEN Calls * round ELSE Calls * round + Calls

\* A cell may stay open only for what the worker still has to tell.
Owed(x) ==
  /\ x \in {"assistant", "thinking", "compaction", "tool"} \X Nat
  /\ x[1] = "assistant" =>
       x[2] = round /\ (at \in {"failing", "ending", "settle"} \/ (at = "heard" /\ said # <<>>))
  /\ x[1] = "thinking" => at # "idle"
  /\ x[1] = "compaction" => at = "compacting" /\ x[2] = extra
  /\ x[1] = "tool" =>
       \/ /\ at \in {"tools", "asking", "flush"}
          /\ \E c \in Call : x[2] = ToolId(c) /\ call[c] \in {"shown", "asked", "ready", "refused", "deferred"}
       \/ Lost(x[2])

\* What the screen will be once every event is applied.
Foreseen(z) ==
  /\ z.busy = (shared.phase # "idle")
  /\ z.compacting = (shared.phase = "compacting")
  /\ at = "idle" => z.session = session /\ z.plan = plan[session]
  /\ z.last \in Nat /\ z.last <= round /\ (at \in {"stream", "heard", "backoff"} => z.last < round)
  /\ \A x \in z.open : Owed(x)

Asks(i, b) == chan[i].t = "ask" /\ chan[i].arg = b
Resolves(i, b) == chan[i].t = "resolved" /\ chan[i].arg = b
LastWord(i) == \A j \in DOMAIN chan : i < j => chan[j].t \notin {"ask", "resolved"}

\* A request on screen or on its way there is the pending one or has been resolved,
\* and the pending one is on screen or comes last.
RequestsKnown ==
  /\ \A i \in DOMAIN chan : chan[i].t = "ask" =>
       /\ chan[i].arg # 0
       /\ \/ chan[i].arg = shared.pending
          \/ \E j \in DOMAIN chan : i < j /\ Resolves(j, chan[i].arg)
  /\ Over({"approval"}) =>
       /\ ui.overlay.arg # 0
       /\ \/ ui.overlay.arg = shared.pending
          \/ \E j \in DOMAIN chan : Resolves(j, ui.overlay.arg)
  /\ at = "asking" /\ answer = "none" =>
       \/ \E i \in DOMAIN chan : Asks(i, shared.pending) /\ LastWord(i)
       \/ Over({"approval"}) /\ ui.overlay.arg = shared.pending /\ LastWord(0)

Ahead == \E z : Coming(Outline, chan, z) /\ Foreseen(z)

FrontInv ==
  /\ FrontTypes /\ WorkerPlaced /\ RequestsKnown
  /\ Orderly(cells) /\ WholeShown(printed, cells, whole)
  /\ Over({"efforts"}) => ui.reasoning
  /\ Ahead

-----------------------------------------------------------------------------
(* Sending.                                                                *)

\* One more event is sent, and the outline it leads to is within w.
LEMMA ComingWithin ==
  ASSUME NEW o, o.last \in Nat, NEW q \in Seq(Event), NEW z, Coming(o, q, z), NEW w, Within(z, w), w.last \in Nat, w.sound
  PROVE  Coming(o, q, w)
<1> DEFINE n == Len(q)
<1>1. PICK f : Leads(f, o, q) /\ f[n] = z
  BY DEF Coming
<1>2. n \in Nat
  OBVIOUS
<1> HIDE DEF n
<1> DEFINE g == [i \in 0..n |-> IF i = n THEN w ELSE f[i]]
<1>3. g[n] = w /\ \A i \in 0..n : i # n => g[i] = f[i]
  BY <1>2
<1> HIDE DEF g
<1>4. \A i \in 0..n : f[i].last \in Nat /\ f[i].sound /\ Within(f[i], g[i]) /\ g[i].last \in Nat /\ g[i].sound
  <2>1. \A i \in 0..n : f[i].last \in Nat /\ f[i].sound
    BY <1>1 DEF Leads, n
  <2> SUFFICES ASSUME NEW i \in 0..n PROVE Within(f[i], g[i]) /\ g[i].last \in Nat /\ g[i].sound
    BY <2>1
  <2>2. CASE i = n
    BY <1>1, <1>3, <2>2
  <2>3. CASE i # n
    BY <1>3, <2>1, <2>3, WithinSelf
  <2> QED BY <2>2, <2>3
<1>5. ASSUME NEW i \in 1..n PROVE Within(Shown(g[i - 1], q[i]), g[i])
  <2>1. i - 1 \in 0..n /\ i \in 0..n /\ i - 1 # n /\ q[i] \in Event
    BY <1>2 DEF n
  <2>2. g[i - 1] = f[i - 1]
    BY <1>3, <2>1
  <2>3. Within(Shown(f[i - 1], q[i]), f[i]) /\ Within(f[i], g[i])
    BY <1>1, <1>4, <2>1 DEF Leads, n
  <2>4. Shown(f[i - 1], q[i]).last \in Nat
    BY <1>4, <2>1, ShownLast
  <2> QED BY <1>4, <2>1, <2>2, <2>3, <2>4, WithinAll
<1>6. Within(o, g[0])
  <2>1. 0 \in 0..n /\ Within(o, f[0])
    BY <1>1, <1>2 DEF Leads
  <2> QED BY <1>4, <2>1, WithinAll
<1> QED BY <1>3, <1>4, <1>5, <1>6 DEF Coming, Leads, n

Calm == {"line", "error", "ask", "resolved", "model", "listed"}

LEMMA ComingCalm ==
  ASSUME NEW o, o.last \in Nat, NEW q \in Seq(Event), NEW z, z.last \in Nat, Coming(o, q, z),
         NEW e \in Event, e.t \in Calm
  PROVE  Coming(o, Append(q, e), z)
<1>1. InTurn(z, e)
  BY DEF InTurn, Calm
<1>2. Coming(o, Append(q, e), Shown(z, e))
  BY <1>1, ComingMore
<1>3. z.sound
  BY DEF Coming, Leads
<1>4. Within(Shown(z, e), z)
  <2>1. /\ e.t # "snapshot" /\ e.t \notin {"started", "compactStart"} /\ e.t # "settled"
        /\ e.t # "compactEnd" /\ e.t # "plan" /\ e.t # "cleared" /\ e.t \notin Streamed
        /\ e.t # "finished" /\ e.t # "tool" /\ e.t # "toolEnd"
    BY DEF Calm, Streamed
  <2>2. /\ Shown(z, e).busy = z.busy /\ Shown(z, e).compacting = z.compacting
        /\ Shown(z, e).session = z.session /\ Shown(z, e).plan = z.plan
    BY <2>1 DEF Shown
  <2>3. /\ Shown(z, e).open = z.open /\ Shown(z, e).last = z.last
        /\ z.sound => Shown(z, e).sound
    BY <1>1, <2>1 DEF Shown
  <2> QED BY <1>1, <2>2, <2>3 DEF Within
<1>5. Append(q, e) \in Seq(Event)
  OBVIOUS
<1> QED BY <1>2, <1>3, <1>4, <1>5, ComingWithin

\* What is sent is an event.
LEMMA PlainEvent ==
  ASSUME NEW t \in {"line", "error", "started", "settled", "compactStart", "compactEnd", "tool", "toolEnd",
                    "ask", "resolved", "plan", "cleared", "model", "listed"}, NEW arg \in Nat
  PROVE  Ev(t, arg) \in Event /\ Ev(t, arg).t = t /\ Ev(t, arg).arg = arg
BY DEF Ev, Event

LEMMA SnapshotEvent ==
  ASSUME NEW s \in Shots
  PROVE  Snapshot(s) \in Event /\ Snapshot(s).t = "snapshot" /\ Snapshot(s).arg = s
BY DEF Snapshot, Ev, Event

LEMMA LiveShot ==
  ASSUME FrontTypes, NEW phase \in Phases, NEW id \in Nat
  PROVE  /\ Live(phase, id) \in Shots
         /\ Live(phase, id).phase = phase /\ Live(phase, id).pending = id
         /\ Live(phase, id).plan = shared.plan /\ Live(phase, id).session = shared.session
<1>1. shared \in Shots
  BY DEF FrontTypes
<1> QED BY <1>1 DEF Live, Shots

LEMMA EmitNone == ASSUME FrontTypes, Emit(<<>>) PROVE chan' = chan
BY DEF Emit, FrontTypes

LEMMA EmitOne == ASSUME FrontTypes, NEW e \in Event, Emit(<<e>>) PROVE chan' = Append(chan, e)
BY DEF Emit, FrontTypes

LEMMA TwoEvents ==
  ASSUME NEW d \in Event, NEW e \in Event PROVE <<d>> \o <<e>> = <<d, e>> /\ <<d>> \o <<>> = <<d>>
<1>1. <<d>> \in Seq(Event) /\ <<e>> \in Seq(Event) /\ Len(<<d>>) = 1 /\ Len(<<e>>) = 1
  OBVIOUS
<1>2. <<d, e>> \in Seq(Event) /\ Len(<<d, e>>) = 2 /\ <<d, e>>[1] = d /\ <<d, e>>[2] = e
  OBVIOUS
<1> DEFINE s == <<d>> \o <<e>>
<1>3. /\ s \in Seq(Event) /\ Len(s) = 2
      /\ \A i \in 1..2 : s[i] = IF i <= 1 THEN <<d>>[i] ELSE <<e>>[i - 1]
  BY <1>1, ConcatProperties
<1>4. s[1] = d /\ s[2] = e
  BY <1>3
<1>5. \A i \in 1..2 : s[i] = <<d, e>>[i]
  <2>1. \A i \in 1..2 : i = 1 \/ i = 2
    OBVIOUS
  <2> HIDE DEF s
  <2> QED BY <1>2, <1>4, <2>1
<1>6. s = <<d, e>>
  <2> DEFINE t == <<d, e>>
  <2>1. t \in Seq(Event) /\ Len(t) = 2 /\ \A i \in 1..2 : s[i] = t[i]
    BY <1>2, <1>5
  <2> HIDE DEF s, t
  <2>2. s = t
    BY <1>3, <2>1, SeqEqual
  <2> QED BY <2>2 DEF t
<1>7. <<d>> \o <<>> = <<d>>
  BY <1>1, ConcatEmptySeq
<1> QED BY <1>6, <1>7

LEMMA EmitTwo ==
  ASSUME FrontTypes, NEW d \in Event, NEW e \in Event, Emit(<<d, e>>)
  PROVE  chan' = Append(Append(chan, d), e)
<1>1. <<d, e>> = <<d>> \o <<e>>
  BY TwoEvents
<1>2. chan' = chan \o <<d, e>> /\ chan \in Seq(Event)
  BY DEF Emit, FrontTypes
<1>3. <<d>> \in Seq(Event) /\ <<e>> \in Seq(Event)
  OBVIOUS
<1>4. chan' = (chan \o <<d>>) \o <<e>>
  BY <1>1, <1>2, <1>3, ConcatAssociative
<1>5. chan \o <<d>> = Append(chan, d)
  BY <1>2
<1>6. Append(chan, d) \in Seq(Event)
  BY <1>2
<1>7. Append(chan, d) \o <<e>> = Append(Append(chan, d), e)
  <2> DEFINE q == Append(chan, d)
  <2>1. q \in Seq(Event)
    BY <1>6
  <2> HIDE DEF q
  <2>2. q \o <<e>> = Append(q, e)
    BY <2>1
  <2> QED BY <2>2 DEF q
<1> QED BY <1>4, <1>5, <1>7

\* A live snapshot, alone or with an event after it.
LEMMA EmitLiveIs ==
  ASSUME FrontTypes, NEW phase \in Phases, NEW id \in Nat
  PROVE  /\ EmitLive(phase, id, <<>>) => chan' = Append(chan, Snapshot(Live(phase, id)))
         /\ \A e \in Event : EmitLive(phase, id, <<e>>) =>
                chan' = Append(Append(chan, Snapshot(Live(phase, id))), e)
<1> DEFINE s == Snapshot(Live(phase, id))
<1>1. s \in Event
  BY LiveShot, SnapshotEvent
<1> HIDE DEF s
<1>2. <<s>> \o <<>> = <<s>> /\ \A e \in Event : <<s>> \o <<e>> = <<s, e>>
  BY <1>1, TwoEvents
<1>3. EmitLive(phase, id, <<>>) => Emit(<<s>>)
  BY <1>2 DEF EmitLive, s
<1>4. \A e \in Event : EmitLive(phase, id, <<e>>) => Emit(<<s, e>>)
  BY <1>2 DEF EmitLive, s
<1> QED BY <1>1, <1>3, <1>4, EmitOne, EmitTwo DEF s

\* What a snapshot makes of an outline.
LEMMA ShownSnapshot ==
  ASSUME NEW z, NEW s \in Shots
  PROVE  LET w == Shown(z, Snapshot(s)) IN
         /\ InTurn(z, Snapshot(s))
         /\ w.busy = (s.phase # "idle")
         /\ w.compacting = (s.phase = "compacting" \/ (s.phase = "retrying" /\ z.compacting))
         /\ w.session = s.session /\ w.plan = s.plan
         /\ w.open = z.open /\ w.last = z.last
BY DEF Shown, InTurn, Snapshot, Ev, Streamed

-----------------------------------------------------------------------------
(* The worker's steps: it stays where it says it stands, and sends each    *)
(* event in its turn.                                                      *)

\* The front end is as it was.
UiSame == ui' = ui /\ cells' = cells /\ whole' = whole /\ printed' = printed /\ keys' = keys

LEMMA SameOutline == ASSUME UiSame PROVE Outline' = Outline
BY DEF UiSame, Outline

LEMMA OutlineLast == ASSUME FrontTypes PROVE Outline.last \in Nat /\ Outline.sound
BY DEF FrontTypes, Outline

\* Nothing is sent: what was foreseen still is.
LEMMA AheadQuiet ==
  ASSUME Ahead, UiSame, chan' = chan, \A z : Foreseen(z) => Foreseen(z)'
  PROVE  Ahead'
<1>1. PICK z : Coming(Outline, chan, z) /\ Foreseen(z)
  BY DEF Ahead
<1>2. Coming(Outline', chan', z) /\ Foreseen(z)'
  BY <1>1, SameOutline
<1> QED BY <1>2 DEF Ahead

\* One event is sent.
LEMMA AheadOne ==
  ASSUME FrontTypes, Ahead, UiSame, NEW e \in Event, chan' = Append(chan, e),
         \A z : Foreseen(z) => InTurn(z, e) /\ Foreseen(Shown(z, e))'
  PROVE  Ahead'
<1>1. PICK z : Coming(Outline, chan, z) /\ Foreseen(z)
  BY DEF Ahead
<1>2. Coming(Outline, Append(chan, e), Shown(z, e))
  BY <1>1, ComingMore DEF FrontTypes
<1>3. Coming(Outline', chan', Shown(z, e)) /\ Foreseen(Shown(z, e))'
  BY <1>1, <1>2, SameOutline
<1> QED BY <1>3 DEF Ahead

LEMMA AheadTwo ==
  ASSUME FrontTypes, Ahead, UiSame, NEW d \in Event, NEW e \in Event, chan' = Append(Append(chan, d), e),
         \A z : Foreseen(z) =>
           InTurn(z, d) /\ InTurn(Shown(z, d), e) /\ Foreseen(Shown(Shown(z, d), e))'
  PROVE  Ahead'
<1>1. PICK z : Coming(Outline, chan, z) /\ Foreseen(z)
  BY DEF Ahead
<1>2. Coming(Outline, Append(chan, d), Shown(z, d)) /\ Append(chan, d) \in Seq(Event)
  BY <1>1, ComingMore DEF FrontTypes
<1>3. Coming(Outline, Append(Append(chan, d), e), Shown(Shown(z, d), e))
  BY <1>1, <1>2, ComingMore
<1>4. Coming(Outline', chan', Shown(Shown(z, d), e)) /\ Foreseen(Shown(Shown(z, d), e))'
  BY <1>1, <1>3, SameOutline
<1> QED BY <1>4 DEF Ahead

\* One calm event is sent.
LEMMA AheadCalm ==
  ASSUME FrontTypes, Ahead, UiSame, NEW e \in Event, e.t \in Calm, chan' = Append(chan, e),
         \A z : Foreseen(z) => Foreseen(z)'
  PROVE  Ahead'
<1>1. PICK z : Coming(Outline, chan, z) /\ Foreseen(z)
  BY DEF Ahead
<1>2. Coming(Outline, Append(chan, e), z)
  BY <1>1, OutlineLast, ComingCalm DEF FrontTypes, Foreseen
<1>3. Coming(Outline', chan', z) /\ Foreseen(z)'
  BY <1>1, <1>2, SameOutline
<1> QED BY <1>3 DEF Ahead

\* Between two requests the ones on screen or on their way have been resolved.
LEMMA RequestsPast ==
  ASSUME FrontTypes, WorkerPlaced, RequestsKnown, UiSame, at # "asking", at' # "asking",
         \A i \in DOMAIN chan : i \in DOMAIN chan' /\ chan'[i] = chan[i],
         \A i \in DOMAIN chan' : i \in DOMAIN chan \/ chan'[i].t # "ask"
  PROVE  RequestsKnown'
<1>1. shared.pending = 0
  BY DEF WorkerPlaced
<1>2. \A i \in DOMAIN chan : chan[i].t = "ask" =>
        chan[i].arg # 0 /\ \E j \in DOMAIN chan : i < j /\ Resolves(j, chan[i].arg)
  BY <1>1 DEF RequestsKnown
<1>3. Over({"approval"}) => ui.overlay.arg # 0 /\ \E j \in DOMAIN chan : Resolves(j, ui.overlay.arg)
  BY <1>1 DEF RequestsKnown
<1>4. \A j \in DOMAIN chan : \A b : Resolves(j, b) => j \in DOMAIN chan' /\ Resolves(j, b)'
  BY DEF Resolves
<1>5. \A i \in DOMAIN chan' : (chan[i].t = "ask")' =>
        (chan[i].arg # 0 /\ \E j \in DOMAIN chan : i < j /\ Resolves(j, chan[i].arg))'
  BY <1>2, <1>4
<1>6. Over({"approval"})' = Over({"approval"}) /\ ui' = ui
  BY DEF UiSame, Over
<1>7. Over({"approval"})' => (ui.overlay.arg # 0 /\ \E j \in DOMAIN chan : Resolves(j, ui.overlay.arg))'
  BY <1>3, <1>4, <1>6
<1> QED BY <1>5, <1>7 DEF RequestsKnown

LEMMA FrontKept ==
  ASSUME FrontInv, UiSame, FrontTypes', WorkerPlaced', RequestsKnown', Ahead'
  PROVE  FrontInv'
<1>1. Orderly(cells') /\ WholeShown(printed', cells', whole') /\ (Over({"efforts"})' => ui'.reasoning)
  BY DEF FrontInv, UiSame, Over
<1> QED BY <1>1 DEF FrontInv

\* The invariant of a step of the worker that sends nothing, one or two events.
LEMMA KeptNone ==
  ASSUME FrontInv, UiSame, FrontTypes', WorkerPlaced', at # "asking", at' # "asking",
         chan' = chan, \A z : Foreseen(z) => Foreseen(z)'
  PROVE  FrontInv'
<1>1. FrontTypes /\ WorkerPlaced /\ RequestsKnown /\ Ahead
  BY DEF FrontInv
<1>2. Ahead'
  BY <1>1, AheadQuiet
<1>3. RequestsKnown'
  BY <1>1, RequestsPast
<1> QED BY <1>2, <1>3, FrontKept

LEMMA KeptOne ==
  ASSUME FrontInv, UiSame, FrontTypes', WorkerPlaced', at # "asking", at' # "asking",
         NEW e \in Event, e.t # "ask", chan' = Append(chan, e),
         \A z : Foreseen(z) => InTurn(z, e) /\ Foreseen(Shown(z, e))'
  PROVE  FrontInv'
<1>1. FrontTypes /\ WorkerPlaced /\ RequestsKnown /\ Ahead /\ chan \in Seq(Event)
  BY DEF FrontInv, FrontTypes
<1>2. Ahead'
  BY <1>1, AheadOne
<1>3. RequestsKnown'
  <2>1. \A i \in DOMAIN chan : i \in DOMAIN chan' /\ chan'[i] = chan[i]
    BY <1>1
  <2>2. \A i \in DOMAIN chan' : i \in DOMAIN chan \/ chan'[i].t # "ask"
    BY <1>1
  <2> QED BY <1>1, <2>1, <2>2, RequestsPast
<1> QED BY <1>2, <1>3, FrontKept

LEMMA KeptCalm ==
  ASSUME FrontInv, UiSame, FrontTypes', WorkerPlaced', at # "asking", at' # "asking",
         NEW e \in Event, e.t \in Calm, e.t # "ask", chan' = Append(chan, e),
         \A z : Foreseen(z) => Foreseen(z)'
  PROVE  FrontInv'
<1>1. FrontTypes /\ WorkerPlaced /\ RequestsKnown /\ Ahead /\ chan \in Seq(Event)
  BY DEF FrontInv, FrontTypes
<1>2. Ahead'
  BY <1>1, AheadCalm
<1>3. RequestsKnown'
  <2>1. \A i \in DOMAIN chan : i \in DOMAIN chan' /\ chan'[i] = chan[i]
    BY <1>1
  <2>2. \A i \in DOMAIN chan' : i \in DOMAIN chan \/ chan'[i].t # "ask"
    BY <1>1
  <2> QED BY <1>1, <2>1, <2>2, RequestsPast
<1> QED BY <1>2, <1>3, FrontKept

\* Two events: the indices of the channel after them.
LEMMA TwoMore ==
  ASSUME NEW q \in Seq(Event), NEW d \in Event, NEW e \in Event
  PROVE  LET r == Append(Append(q, d), e) IN
         /\ r \in Seq(Event) /\ DOMAIN q = 1..Len(q) /\ DOMAIN r = 1..(Len(q) + 2)
         /\ \A i \in DOMAIN q : i \in DOMAIN r /\ r[i] = q[i]
         /\ r[Len(q) + 1] = d /\ r[Len(q) + 2] = e
<1> DEFINE p == Append(q, d)
<1>1. /\ p \in Seq(Event) /\ Len(p) = Len(q) + 1 /\ Len(q) \in Nat /\ p[Len(q) + 1] = d
      /\ DOMAIN q = 1..Len(q) /\ \A i \in 1..Len(q) : p[i] = q[i]
  OBVIOUS
<1> HIDE DEF p
<1> DEFINE r == Append(p, e)
<1>2. /\ r \in Seq(Event) /\ Len(r) = Len(p) + 1 /\ r[Len(p) + 1] = e /\ DOMAIN r = 1..Len(r)
      /\ \A i \in 1..Len(p) : r[i] = p[i]
  BY <1>1
<1> HIDE DEF r
<1>3. /\ r \in Seq(Event) /\ DOMAIN q = 1..Len(q) /\ DOMAIN r = 1..(Len(q) + 2)
      /\ \A i \in DOMAIN q : i \in DOMAIN r /\ r[i] = q[i]
      /\ r[Len(q) + 1] = d /\ r[Len(q) + 2] = e
  BY <1>1, <1>2
<1> QED BY <1>3 DEF r, p

LEMMA KeptTwo ==
  ASSUME FrontInv, UiSame, FrontTypes', WorkerPlaced', at # "asking", at' # "asking",
         NEW d \in Event, NEW e \in Event, d.t # "ask", e.t # "ask", chan' = Append(Append(chan, d), e),
         \A z : Foreseen(z) => InTurn(z, d) /\ InTurn(Shown(z, d), e) /\ Foreseen(Shown(Shown(z, d), e))'
  PROVE  FrontInv'
<1>1. FrontTypes /\ WorkerPlaced /\ RequestsKnown /\ Ahead /\ chan \in Seq(Event)
  BY DEF FrontInv, FrontTypes
<1>2. Ahead'
  BY <1>1, AheadTwo
<1>3. RequestsKnown'
  <2>1. /\ DOMAIN chan = 1..Len(chan) /\ DOMAIN chan' = 1..(Len(chan) + 2) /\ Len(chan) \in Nat
        /\ \A i \in DOMAIN chan : i \in DOMAIN chan' /\ chan'[i] = chan[i]
        /\ chan'[Len(chan) + 1] = d /\ chan'[Len(chan) + 2] = e
    BY <1>1, TwoMore
  <2>2. \A i \in DOMAIN chan' : i \in DOMAIN chan \/ i = Len(chan) + 1 \/ i = Len(chan) + 2
    BY <2>1
  <2>3. \A i \in DOMAIN chan' : i \in DOMAIN chan \/ chan'[i].t # "ask"
    BY <2>1, <2>2
  <2> QED BY <1>1, <2>1, <2>3, RequestsPast
<1> QED BY <1>2, <1>3, FrontKept

-----------------------------------------------------------------------------
(* The steps that send nothing.                                            *)

\* The numbers of the calls of this turn and of the next.
LEMMA Numbers ==
  ASSUME FrontTypes
  PROVE  /\ Calls * round \in Nat /\ Calls * (round + 1) = Calls * round + Calls /\ round \in Nat
         /\ Calls \in Nat \ {0} /\ Calls \in Call
         /\ \A c \in Call : /\ c \in Nat /\ 0 < c /\ c <= Calls
                            /\ ToolId(c) \in Nat /\ ToolId(c) # 0
                            /\ ToolId(c) = Calls * round + c
<1>1. round \in Nat
  BY DEF FrontTypes
<1>2. Calls \in Nat \ {0}
  BY FrontEndAssumption
<1>3. Calls * round \in Nat /\ Calls * (round + 1) = Calls * round + Calls
  BY <1>1, <1>2
<1> QED BY <1>1, <1>2, <1>3 DEF Call, ToolId

LEMMA StopKept ==
  ASSUME FrontInv, Continue \/ Stop \/ StreamFails \/ Refuse
  PROVE  FrontInv'
<1>1. FrontTypes /\ WorkerPlaced
  BY DEF FrontInv
<1>2. UiSame /\ chan' = chan /\ at # "asking" /\ at' # "asking"
  BY DEF Continue, Stop, StreamFails, Streaming, Refuse, UiSame, uiVars
<1>3. FrontTypes'
  BY <1>1 DEF Continue, Stop, StreamFails, Refuse, uiVars, factVars, FrontTypes, Places
<1>4. WorkerPlaced'
  BY <1>1 DEF Continue, Stop, StreamFails, Streaming, Refuse, factVars, WorkerPlaced, ToolId
<1>5. ASSUME NEW z, Foreseen(z) PROVE Foreseen(z)'
  <2>1. ASSUME NEW x \in z.open PROVE Owed(x)'
    <3>1. Owed(x)
      BY <1>5, <2>1 DEF Foreseen
    <3>2. /\ at \notin {"idle", "compacting", "failing", "ending", "settle", "tools", "asking", "flush"}
          /\ at' \in {"prompt", "ending", "failing"} /\ (at = "heard" => at' = "failing")
          /\ round' = round /\ call' = call /\ extra' = extra /\ torn' = torn
      BY DEF Continue, Stop, StreamFails, Streaming, Refuse, factVars
    <3>3. Lost(x[2]) => Lost(x[2])'
      BY <1>1, <3>1, <3>2, Numbers DEF Owed, Lost
    <3> QED BY <3>1, <3>2, <3>3 DEF Owed
  <2> QED BY <1>1, <1>5, <2>1 DEF Continue, Stop, StreamFails, Streaming, Refuse, factVars, Foreseen
<1> QED BY <1>2, <1>3, <1>4, <1>5, KeptNone

LEMMA PromptKept == ASSUME FrontInv, Prompt PROVE FrontInv'
<1>1. FrontTypes /\ WorkerPlaced
  BY DEF FrontInv
<1>2. UiSame /\ chan' = chan /\ at # "asking" /\ at' # "asking"
  BY DEF Prompt, UiSame, uiVars
<1>3. FrontTypes'
  BY <1>1 DEF Prompt, uiVars, factVars, FrontTypes, Places, Text
<1>4. WorkerPlaced'
  BY <1>1 DEF Prompt, factVars, WorkerPlaced
<1>5. ASSUME NEW z, Foreseen(z) PROVE Foreseen(z)'
  <2>1. ASSUME NEW x \in z.open PROVE Owed(x)'
    BY <1>1, <1>5, <2>1, Numbers DEF Prompt, factVars, Foreseen, Owed, Lost
  <2> QED BY <1>1, <1>5, <2>1, Numbers DEF Prompt, factVars, Foreseen
<1> QED BY <1>2, <1>3, <1>4, <1>5, KeptNone

LEMMA ToolsQuietKept ==
  ASSUME FrontInv,
         Defer \/ CommitTools \/ \E c \in Call : \E next \in {"ready", "refused"} : Check(c, next)
  PROVE  FrontInv'
<1>1. FrontTypes /\ WorkerPlaced /\ Calls \in Call /\ call \in [Call -> Stages]
  BY Numbers DEF FrontInv, FrontTypes
<1>2. UiSame /\ chan' = chan /\ at = "tools" /\ at' \in {"tools", "flush", "failing"}
  BY DEF Defer, CommitTools, Check, UiSame, uiVars
<1>3. /\ shared' = shared /\ round' = round /\ said' = said /\ session' = session /\ extra' = extra
      /\ answer' = answer /\ sending' = sending
  BY DEF Defer, CommitTools, Check, factVars
<1>4. plan' \in [Session -> Nat] /\ torn' \in BOOLEAN /\ (torn => torn')
  <2>1. plan \in [Session -> Nat] /\ torn \in BOOLEAN /\ session \in Session
    BY <1>1 DEF FrontTypes
  <2>2. CASE CommitTools
    <3>1. plan[session] + 1 \in Nat
      BY <2>1
    <3>2. plan' = plan \/ plan' = [plan EXCEPT ![session] = plan[session] + 1]
      BY <2>2 DEF CommitTools
    <3>3. plan' \in [Session -> Nat]
      BY <2>1, <3>1, <3>2
    <3>4. torn' = torn \/ torn' = (torn \/ Planned)
      BY <2>2 DEF CommitTools
    <3>5. Planned \in BOOLEAN
      BY DEF Planned
    <3>6. torn' \in BOOLEAN /\ (torn => torn')
      BY <2>1, <3>4, <3>5
    <3> QED BY <3>3, <3>6
  <2> QED BY <2>1, <2>2 DEF Defer, Check, factVars
<1>5. call' \in [Call -> Stages] /\ \A c \in Call : call'[c] # call[c] => call'[c] \in {"ready", "refused", "deferred"}
  BY <1>1 DEF Defer, CommitTools, Check, Stages
<1>6. FrontTypes'
  BY <1>1, <1>2, <1>3, <1>4, <1>5 DEF FrontTypes, Places, UiSame
<1>7. WorkerPlaced'
  <2>1. \A c \in Call : call'[c] = "deferred" => c = Calls
    BY <1>1 DEF Defer, CommitTools, Check, WorkerPlaced
  <2>2. at' = "flush" => \A c \in Call : call'[c] \in {"done", "deferred"}
    BY <1>2 DEF Defer, CommitTools, Check
  <2> QED BY <1>1, <1>2, <1>3, <1>5, <2>1, <2>2 DEF WorkerPlaced, ToolId
<1>8. ASSUME at' = "failing", NEW c \in Call PROVE call[c] \in {"done", "deferred"}
  BY <1>1, <1>2, <1>8 DEF Defer, CommitTools, Check
<1>9. ASSUME at' = "failing", NEW c \in Call, call[c] = "deferred" PROVE torn'
  <2>1. \A d \in Call : call[d] = "deferred" => d = Calls
    BY <1>1 DEF WorkerPlaced
  <2> QED BY <1>1, <1>2, <1>9, <2>1 DEF Defer, CommitTools, Check, Planned
<1>11. Calls * round' = Calls * round
  BY <1>3
<1>10. ASSUME NEW z, Foreseen(z) PROVE Foreseen(z)'
  <2>1. ASSUME NEW x \in z.open PROVE Owed(x)'
    <3>1. Owed(x)
      BY <1>10, <2>1 DEF Foreseen
    <3>2. Lost(x[2]) => Lost(x[2])'
      BY <1>1, <1>2, <1>4, <1>11, <3>1, Numbers DEF Lost, Owed
    <3>3. ASSUME NEW c \in Call, x[2] = ToolId(c), call[c] \in {"shown", "asked", "ready", "refused", "deferred"}
          PROVE  \/ /\ at' \in {"tools", "asking", "flush"}
                    /\ call'[c] \in {"shown", "asked", "ready", "refused", "deferred"}
                 \/ Lost(x[2])'
      <4>1. call'[c] \in {"shown", "asked", "ready", "refused", "deferred"}
        BY <1>5, <3>3
      <4>2. at' = "failing" => torn'
        BY <1>8, <1>9, <3>3
      <4>3. ToolId(c) <= Calls * round + Calls 
        BY <1>1, Numbers
      <4>4. CASE at' = "failing"
        BY <1>11, <3>3, <4>2, <4>3, <4>4 DEF Lost
      <4> QED BY <1>2, <4>1, <4>4
    <3>4. ToolId(1)' = ToolId(1) /\ \A c \in Call : ToolId(c)' = ToolId(c)
      BY <1>3 DEF ToolId
    <3> QED BY <1>2, <1>3, <3>1, <3>2, <3>3, <3>4 DEF Owed
  <2> QED BY <1>1, <1>2, <1>3, <1>4, <1>10, <2>1, Numbers DEF Foreseen
<1> QED BY <1>2, <1>6, <1>7, <1>10, KeptNone

-----------------------------------------------------------------------------
(* The steps that send lines, errors and snapshots.                        *)

\* A calm event leaves the outline as it is.
LEMMA ShownCalm ==
  ASSUME NEW z, NEW e \in Event, e.t \in Calm
  PROVE  /\ InTurn(z, e)
         /\ Shown(z, e).busy = z.busy /\ Shown(z, e).compacting = z.compacting
         /\ Shown(z, e).session = z.session /\ Shown(z, e).plan = z.plan
         /\ Shown(z, e).open = z.open /\ Shown(z, e).last = z.last
<1>1. /\ e.t # "snapshot" /\ e.t \notin {"started", "compactStart"} /\ e.t # "settled"
      /\ e.t # "compactEnd" /\ e.t # "plan" /\ e.t # "cleared" /\ e.t \notin Streamed
      /\ e.t # "finished" /\ e.t # "tool" /\ e.t # "toolEnd"
  BY DEF Calm, Streamed
<1> QED BY <1>1 DEF Shown, InTurn, Streamed

\* A sent event is in the channel.
LEMMA ChanMore ==
  ASSUME FrontTypes, NEW e \in Event PROVE Append(chan, e) \in Seq(Event)
BY DEF FrontTypes

LEMMA ErrorKept ==
  ASSUME FrontInv, Fail \/ SkipCompact PROVE FrontInv'
<1>1. FrontTypes /\ WorkerPlaced
  BY DEF FrontInv
<1>2. PICK e \in Event : e.t \in {"line", "error"} /\ chan' = Append(chan, e)
  <2>1. Ev("error", 0) \in Event /\ Ev("error", 0).t = "error" /\ Ev("line", 0) \in Event /\ Ev("line", 0).t = "line"
    BY PlainEvent
  <2> QED BY <1>1, <2>1, EmitOne DEF Fail, SkipCompact
<1>3. UiSame /\ at \in {"failing", "compact"} /\ at' = "ending"
  BY DEF Fail, SkipCompact, UiSame, uiVars
<1>4. /\ shared' = shared /\ round' = round /\ extra' = extra /\ said' = said /\ torn' = torn /\ call' = call
      /\ answer' = answer
  BY DEF Fail, SkipCompact, factVars
<1>5. FrontTypes'
  <2>1. chan' \in Seq(Event)
    BY <1>1, <1>2, ChanMore
  <2> QED BY <1>1, <2>1 DEF Fail, SkipCompact, uiVars, factVars, FrontTypes, Places
<1>6. WorkerPlaced'
  BY <1>1, <1>3, <1>4 DEF WorkerPlaced, ToolId
<1>7. ASSUME NEW z, Foreseen(z) PROVE Foreseen(z)'
  <2>1. ASSUME NEW x \in z.open PROVE Owed(x)'
    BY <1>3, <1>4, <1>7, <2>1 DEF Foreseen, Owed, Lost
  <2> QED BY <1>3, <1>4, <1>7, <2>1 DEF Foreseen
<1> QED BY <1>2, <1>3, <1>5, <1>6, <1>7, KeptCalm DEF Calm

LEMMA FinishKept == ASSUME FrontInv, Finish PROVE FrontInv'
<1>1. FrontTypes /\ WorkerPlaced
  BY DEF FrontInv
<1>2. Ev("line", 0) \in Event /\ Ev("line", 0).t = "line"
  BY PlainEvent
<1>3. chan' = chan \/ chan' = Append(chan, Ev("line", 0))
  BY <1>1, <1>2, EmitOne, EmitNone DEF Finish
<1>4. UiSame /\ at = "ending" /\ at' = "settle"
  BY DEF Finish, UiSame, uiVars
<1>5. /\ shared' = shared /\ round' = round /\ extra' = extra /\ said' = said /\ torn' = torn /\ call' = call
      /\ answer' = answer
  BY DEF Finish, factVars
<1>6. FrontTypes'
  <2>1. chan' \in Seq(Event)
    BY <1>1, <1>2, <1>3, ChanMore DEF FrontTypes
  <2> QED BY <1>1, <2>1 DEF Finish, uiVars, factVars, FrontTypes, Places
<1>7. WorkerPlaced'
  BY <1>1, <1>4, <1>5 DEF WorkerPlaced, ToolId
<1>8. ASSUME NEW z, Foreseen(z) PROVE Foreseen(z)'
  <2>1. ASSUME NEW x \in z.open PROVE Owed(x)'
    BY <1>4, <1>5, <1>8, <2>1 DEF Foreseen, Owed, Lost
  <2> QED BY <1>4, <1>5, <1>8, <2>1 DEF Foreseen
<1>9. CASE chan' = chan
  BY <1>4, <1>6, <1>7, <1>8, <1>9, KeptNone
<1>10. CASE chan' = Append(chan, Ev("line", 0))
  BY <1>2, <1>4, <1>6, <1>7, <1>8, <1>10, KeptCalm DEF Calm
<1> QED BY <1>3, <1>9, <1>10

LEMMA BeginKept == ASSUME FrontInv, Begin PROVE FrontInv'
<1> DEFINE d == Ev("line", 0)
<1>1. FrontTypes /\ WorkerPlaced
  BY DEF FrontInv
<1>2. d \in Event /\ d.t = "line"
  BY PlainEvent
<1>3. PICK e \in Event : e.t \in {"started", "error"} /\ chan' = Append(Append(chan, d), e)
  <2>1. Ev("error", 0) \in Event /\ Ev("error", 0).t = "error" /\ Ev("started", 0) \in Event /\ Ev("started", 0).t = "started"
    BY PlainEvent
  <2>2. PICK e \in {Ev("error", 0), Ev("started", 0)} : Emit(<<d, e>>)
    BY DEF Begin
  <2>3. e \in Event /\ e.t \in {"started", "error"}
    BY <2>1
  <2> QED BY <1>1, <1>2, <2>2, <2>3, EmitTwo
<1> HIDE DEF d
<1>4. UiSame /\ at = "begin" /\ at' \in {"round", "ending"}
  BY DEF Begin, UiSame, uiVars
<1>5. /\ shared' = shared /\ round' = round /\ extra' = extra /\ said' = said /\ torn' = torn /\ call' = call
      /\ answer' = answer
  BY DEF Begin, factVars
<1>6. FrontTypes'
  <2>1. chan' \in Seq(Event)
    BY <1>1, <1>2, <1>3, TwoMore DEF FrontTypes
  <2> QED BY <1>1, <2>1 DEF Begin, uiVars, factVars, FrontTypes, Places
<1>7. WorkerPlaced'
  BY <1>1, <1>4, <1>5 DEF WorkerPlaced, ToolId
<1>8. ASSUME NEW z, Foreseen(z)
      PROVE  InTurn(z, d) /\ InTurn(Shown(z, d), e) /\ Foreseen(Shown(Shown(z, d), e))'
  <2> DEFINE y == Shown(z, d)  w == Shown(y, e)
  <2>1. /\ InTurn(z, d) /\ y.busy = z.busy /\ y.compacting = z.compacting
        /\ y.open = z.open /\ y.last = z.last
    BY <1>2, ShownCalm DEF Calm
  <2>2. z.busy = TRUE
    BY <1>1, <1>4, <1>8 DEF Foreseen, WorkerPlaced
  <2> HIDE DEF y
  <2>3. /\ InTurn(y, e) /\ w.busy = z.busy /\ w.compacting = z.compacting
        /\ w.open = z.open /\ w.last = z.last
    BY <1>3, <2>1, <2>2 DEF InTurn, Shown, Streamed
  <2> HIDE DEF w
  <2>4. ASSUME NEW x \in z.open PROVE Owed(x)'
    BY <1>4, <1>5, <1>8, <2>4 DEF Foreseen, Owed, Lost
  <2>5. Foreseen(w)'
    BY <1>4, <1>5, <1>8, <2>3, <2>4 DEF Foreseen
  <2> QED BY <2>1, <2>3, <2>5 DEF y, w
<1> QED BY <1>2, <1>3, <1>4, <1>6, <1>7, <1>8, KeptTwo

\* A snapshot of what the worker has said of itself stands for it.
LEMMA ForeseenSnapshot ==
  ASSUME NEW z, Foreseen(z), NEW s \in Shots, s.phase = "retrying" => ~z.compacting,
         shared'.phase = s.phase, at' # "idle", round' = round,
         at' \in {"stream", "heard", "backoff"} => z.last < round,
         \A x \in z.open : Owed(x)'
  PROVE  InTurn(z, Snapshot(s)) /\ Foreseen(Shown(z, Snapshot(s)))'
<1> DEFINE w == Shown(z, Snapshot(s))
<1>1. /\ InTurn(z, Snapshot(s)) /\ w.busy = (s.phase # "idle")
      /\ w.compacting = (s.phase = "compacting" \/ (s.phase = "retrying" /\ z.compacting))
      /\ w.open = z.open /\ w.last = z.last
  BY ShownSnapshot
<1> HIDE DEF w
<1>2. w.compacting = (s.phase = "compacting")
  BY <1>1
<1>3. Foreseen(w)'
  BY <1>1, <1>2 DEF Foreseen
<1> QED BY <1>1, <1>3 DEF w

LEMMA TakeKept == ASSUME FrontInv, NEW c \in sending, Take(c) PROVE FrontInv'
<1>1. FrontTypes /\ WorkerPlaced /\ c[1] \in Commands
  BY DEF FrontInv, FrontTypes
<1> DEFINE phase == CommandPhase(c[1])
<1>2. phase \in {"running", "compacting"} /\ (phase = "compacting" => c[1] = "compact")
  BY DEF CommandPhase
<1>3. PICK s \in Shots : s = Live(phase, 0) /\ s.phase = phase /\ s.pending = 0
  BY <1>1, <1>2, LiveShot DEF Phases
<1>4. chan' = Append(chan, Snapshot(s)) /\ shared' = s
  BY <1>1, <1>2, <1>3, EmitLiveIs DEF Take, Phases, EmitLive
<1> HIDE DEF phase
<1>5. UiSame /\ at = "idle" /\ at' \in {"begin", "list", "clear", "compact", "load", "model"}
      /\ (phase = "compacting" => at' = "compact")
  <2>1. UiSame /\ at = "idle" /\ at' = FirstStep(c[1])
    BY DEF Take, UiSame, uiVars
  <2> QED BY <1>1, <1>2, <2>1 DEF FirstStep, Commands, Texts
<1>6. round' = round /\ torn' = torn /\ call' = call /\ answer' = answer /\ extra' = extra
  BY DEF Take
<1>7. Snapshot(s) \in Event /\ Snapshot(s).t = "snapshot"
  BY <1>3, SnapshotEvent
<1>8. FrontTypes'
  <2>1. chan' \in Seq(Event) /\ shared' \in Shots /\ at' \in Places
    BY <1>1, <1>3, <1>4, <1>5, <1>7, ChanMore DEF Places
  <2>2. sending' \in SUBSET (Commands \X Nat)
    BY <1>1 DEF Take, FrontTypes
  <2> QED BY <1>1, <2>1, <2>2 DEF Take, uiVars, FrontTypes
<1>9. WorkerPlaced'
  BY <1>1, <1>2, <1>3, <1>4, <1>5, <1>6 DEF WorkerPlaced, ToolId
<1>10. ASSUME NEW z, Foreseen(z) PROVE InTurn(z, Snapshot(s)) /\ Foreseen(Shown(z, Snapshot(s)))'
  <2>1. ASSUME NEW x \in z.open PROVE Owed(x)'
    BY <1>5, <1>6, <1>10, <2>1 DEF Foreseen, Owed, Lost
  <2> QED BY <1>2, <1>3, <1>4, <1>5, <1>6, <1>10, <2>1, ForeseenSnapshot
<1> QED BY <1>4, <1>5, <1>7, <1>8, <1>9, <1>10, KeptOne

LEMMA PollKept == ASSUME FrontInv, NEW c \in sending, Poll(c) PROVE FrontInv'
<1>1. FrontTypes /\ WorkerPlaced /\ shared \in Shots
  BY DEF FrontInv, FrontTypes
<1>2. PICK s \in Shots : s = shared
  BY <1>1
<1> DEFINE e == Snapshot(s)
<1>21. e \in Event /\ e.t = "snapshot"
  BY SnapshotEvent
<1>3. chan' = chan \/ chan' = Append(chan, e)
  BY <1>1, <1>2, <1>21, EmitOne DEF Poll
<1>4. UiSame /\ at = "round" /\ at' = "round"
  BY DEF Poll, UiSame, uiVars
<1>5. /\ shared' = shared /\ round' = round /\ extra' = extra /\ said' = said /\ torn' = torn /\ call' = call
      /\ answer' = answer /\ session' = session /\ plan' = plan
  BY DEF Poll, factVars
<1> HIDE DEF e
<1>6. FrontTypes'
  <2>1. chan' \in Seq(Event)
    BY <1>1, <1>21, <1>3, ChanMore DEF FrontTypes
  <2>2. sending' \in SUBSET (Commands \X Nat)
    BY <1>1 DEF Poll, FrontTypes
  <2> QED BY <1>1, <1>4, <1>5, <2>1, <2>2 DEF UiSame, FrontTypes
<1>7. WorkerPlaced'
  BY <1>1, <1>4, <1>5 DEF WorkerPlaced, ToolId
<1>8. ASSUME NEW z, Foreseen(z) PROVE \A x \in z.open : Owed(x)'
  BY <1>4, <1>5, <1>8 DEF Foreseen, Owed, Lost, ToolId
<1>9. CASE chan' = chan
  <2>1. ASSUME NEW z, Foreseen(z) PROVE Foreseen(z)'
    BY <1>4, <1>5, <1>8, <2>1 DEF Foreseen
  <2> QED BY <1>4, <1>6, <1>7, <1>9, <2>1, KeptNone
<1>10. CASE chan' = Append(chan, e)
  <2>1. ASSUME NEW z, Foreseen(z) PROVE InTurn(z, e) /\ Foreseen(Shown(z, e))'
    <3>1. shared.phase = "retrying" => ~z.compacting
      BY <2>1 DEF Foreseen
    <3> QED BY <1>2, <1>4, <1>5, <1>8, <2>1, <3>1, ForeseenSnapshot DEF e
  <2> QED BY <1>21, <1>4, <1>6, <1>7, <1>10, <2>1, KeptOne
<1> QED BY <1>3, <1>9, <1>10

LEMMA InjectKept == ASSUME FrontInv, Inject PROVE FrontInv'
<1>1. FrontTypes /\ WorkerPlaced /\ shared \in Shots
  BY DEF FrontInv, FrontTypes
<1>0. PICK s \in Shots : s = shared
  BY <1>1
<1> DEFINE d == Ev("line", 0)  e == Snapshot(s)
<1>2. d \in Event /\ d.t = "line" /\ e \in Event /\ e.t = "snapshot"
  BY SnapshotEvent, PlainEvent
<1>3. chan' = Append(Append(chan, d), e)
  BY <1>0, <1>1, <1>2, EmitTwo DEF Inject
<1>4. UiSame /\ at = "round" /\ at' = "prompt"
  BY DEF Inject, UiSame, uiVars
<1>5. /\ shared' = shared /\ round' = round /\ extra' = extra /\ said' = said /\ torn' = torn /\ call' = call
      /\ answer' = answer /\ session' = session /\ plan' = plan /\ sending' = sending
  BY DEF Inject, factVars
<1> HIDE DEF d, e
<1>6. FrontTypes'
  <2>1. chan' \in Seq(Event)
    BY <1>1, <1>2, <1>3, TwoMore DEF FrontTypes
  <2> QED BY <1>1, <1>4, <1>5, <2>1 DEF UiSame, FrontTypes, Places
<1>7. WorkerPlaced'
  BY <1>1, <1>4, <1>5 DEF WorkerPlaced, ToolId
<1>8. ASSUME NEW z, Foreseen(z)
      PROVE  InTurn(z, d) /\ InTurn(Shown(z, d), e) /\ Foreseen(Shown(Shown(z, d), e))'
  <2> DEFINE y == Shown(z, d)
  <2>1. /\ InTurn(z, d) /\ y.busy = z.busy /\ y.compacting = z.compacting
        /\ y.session = z.session /\ y.plan = z.plan /\ y.open = z.open /\ y.last = z.last
    BY <1>2, ShownCalm DEF Calm
  <2> HIDE DEF y
  <2>2. Foreseen(y)
    BY <1>8, <2>1 DEF Foreseen
  <2>3. \A x \in y.open : Owed(x)'
    BY <1>4, <1>5, <2>2 DEF Foreseen, Owed, Lost
  <2>4. shared.phase = "retrying" => ~y.compacting
    BY <2>2 DEF Foreseen
  <2>5. InTurn(y, e) /\ Foreseen(Shown(y, e))'
    BY <1>0, <1>4, <1>5, <2>2, <2>3, <2>4, ForeseenSnapshot DEF e
  <2> QED BY <2>1, <2>5 DEF y
<1> QED BY <1>2, <1>3, <1>4, <1>6, <1>7, <1>8, KeptTwo

LEMMA RetryAgainKept == ASSUME FrontInv, RetryAgain PROVE FrontInv'
<1>1. FrontTypes /\ WorkerPlaced
  BY DEF FrontInv
<1>2. PICK s \in Shots : s = Live("running", 0) /\ s.phase = "running" /\ s.pending = 0
  BY <1>1, LiveShot DEF Phases
<1>3. chan' = Append(chan, Snapshot(s)) /\ shared' = s
  BY <1>1, <1>2, EmitLiveIs DEF RetryAgain, Phases, EmitLive
<1>4. UiSame /\ at = "backoff" /\ at' = "stream"
  BY DEF RetryAgain, UiSame, uiVars
<1>5. round' = round /\ torn' = torn /\ call' = call /\ answer' = answer /\ extra' = extra /\ said' = said
  BY DEF RetryAgain
<1>6. Snapshot(s) \in Event /\ Snapshot(s).t = "snapshot"
  BY <1>2, SnapshotEvent
<1>7. FrontTypes'
  <2>1. chan' \in Seq(Event) /\ shared' \in Shots /\ at' \in Places
    BY <1>1, <1>2, <1>3, <1>4, <1>6, ChanMore DEF Places
  <2> QED BY <1>1, <2>1 DEF RetryAgain, uiVars, FrontTypes
<1>8. WorkerPlaced'
  BY <1>1, <1>2, <1>3, <1>4, <1>5 DEF WorkerPlaced, ToolId
<1>9. ASSUME NEW z, Foreseen(z) PROVE InTurn(z, Snapshot(s)) /\ Foreseen(Shown(z, Snapshot(s)))'
  <2>1. ASSUME NEW x \in z.open PROVE Owed(x)'
    BY <1>4, <1>5, <1>9, <2>1 DEF Foreseen, Owed, Lost
  <2>2. z.last < round
    BY <1>4, <1>9 DEF Foreseen
  <2> QED BY <1>2, <1>3, <1>4, <1>5, <1>9, <2>1, <2>2, ForeseenSnapshot
<1> QED BY <1>3, <1>4, <1>6, <1>7, <1>8, <1>9, KeptOne

-----------------------------------------------------------------------------
(* The steps of a model call.                                              *)

LEMMA StartCompactingKept == ASSUME FrontInv, StartCompacting PROVE FrontInv'
<1>1. FrontTypes /\ WorkerPlaced /\ extra \in Nat
  BY DEF FrontInv, FrontTypes
<1>2. PICK s \in Shots : /\ s = Live("compacting", 0) /\ s.phase = "compacting" /\ s.pending = 0
                         /\ Snapshot(s) \in Event /\ Snapshot(s).t = "snapshot"
  BY <1>1, LiveShot, SnapshotEvent DEF Phases
<1>3. PICK e \in Event : e = Ev("compactStart", extra + 1) /\ e.t = "compactStart" /\ e.arg = extra + 1
  BY <1>1, PlainEvent
<1>4. chan' = Append(Append(chan, Snapshot(s)), e) /\ shared' = s
  BY <1>1, <1>2, <1>3, EmitLiveIs DEF StartCompacting, Phases, EmitLive
<1>5. UiSame /\ at \in {"prompt", "compact"} /\ at' = "compacting"
  BY DEF StartCompacting, UiSame, uiVars
<1>6. /\ round' = round /\ extra' = extra + 1 /\ said' = said /\ torn' = torn /\ call' = call /\ answer' = answer
  BY DEF StartCompacting
<1>7. FrontTypes'
  <2>1. chan' \in Seq(Event) /\ shared' \in Shots /\ at' \in Places /\ extra' \in Nat
    BY <1>1, <1>2, <1>4, <1>5, <1>6, TwoMore DEF Places, FrontTypes
  <2> QED BY <1>1, <2>1 DEF StartCompacting, uiVars, FrontTypes
<1>8. WorkerPlaced'
  BY <1>1, <1>2, <1>4, <1>5, <1>6 DEF WorkerPlaced, ToolId
<1>9. ASSUME NEW z, Foreseen(z)
      PROVE  InTurn(z, Snapshot(s)) /\ InTurn(Shown(z, Snapshot(s)), e)
             /\ Foreseen(Shown(Shown(z, Snapshot(s)), e))'
  <2> DEFINE y == Shown(z, Snapshot(s))  w == Shown(y, e)
  <2>1. /\ InTurn(z, Snapshot(s)) /\ y.open = z.open /\ y.last = z.last
    BY ShownSnapshot
  <2> HIDE DEF y
  <2>2. ASSUME NEW x \in z.open PROVE Owed(x)' /\ x # <<"compaction", extra + 1>>
    <3>1. Owed(x)
      BY <1>9, <2>2 DEF Foreseen
    <3> QED BY <1>5, <1>6, <3>1 DEF Owed, Lost
  <2>3. InTurn(y, e)
    BY <1>3, <2>1, <2>2 DEF InTurn
  <2>4. w.busy = TRUE /\ w.compacting = TRUE /\ w.open = z.open \cup {<<"compaction", e.arg>>} /\ w.last = z.last
    BY <1>3, <2>1 DEF Shown, Streamed
  <2> HIDE DEF w
  <2>5. Owed(<<"compaction", e.arg>>)'
    <3> DEFINE x == <<"compaction", e.arg>>
    <3>1. x \in {"assistant", "thinking", "compaction", "tool"} \X Nat /\ x[1] = "compaction" /\ x[2] = extra + 1
      BY <1>1, <1>3
    <3> HIDE DEF x
    <3>2. Owed(x)'
      BY <1>5, <1>6, <3>1 DEF Owed
    <3> QED BY <3>2 DEF x
  <2>6. Foreseen(w)'
    BY <1>2, <1>4, <1>5, <1>6, <1>9, <2>2, <2>4, <2>5 DEF Foreseen
  <2> QED BY <2>1, <2>3, <2>6 DEF y, w
<1> QED BY <1>2, <1>3, <1>4, <1>5, <1>7, <1>8, <1>9, KeptTwo

LEMMA EndCompactingKept ==
  ASSUME FrontInv, NEW how \in {"ok", "failed", "cancelled"}, EndCompacting(how) PROVE FrontInv'
<1>1. FrontTypes /\ WorkerPlaced /\ extra \in Nat
  BY DEF FrontInv, FrontTypes
<1>2. PICK s \in Shots : /\ s = Live("running", 0) /\ s.phase = "running" /\ s.pending = 0
                         /\ Snapshot(s) \in Event /\ Snapshot(s).t = "snapshot"
  BY <1>1, LiveShot, SnapshotEvent DEF Phases
<1>3. PICK e \in Event : e = Ev("compactEnd", extra) /\ e.t = "compactEnd" /\ e.arg = extra
  BY <1>1, PlainEvent
<1>4. chan' = Append(Append(chan, Snapshot(s)), e) /\ shared' = s
  BY <1>1, <1>2, <1>3, EmitLiveIs DEF EndCompacting, Phases, EmitLive
<1>5. UiSame /\ at = "compacting" /\ at' \in {"ending", "stream", "failing"}
  BY DEF EndCompacting, UiSame, uiVars
<1>6. /\ extra' = extra /\ torn' = torn /\ call' = call /\ answer' = answer
      /\ round' = IF at' = "stream" THEN round + 1 ELSE round
      /\ said' = <<>> \/ said' = said
  BY DEF EndCompacting
<1>7. FrontTypes'
  <2>1. chan' \in Seq(Event) /\ shared' \in Shots /\ at' \in Places
    BY <1>1, <1>2, <1>3, <1>4, <1>5, TwoMore DEF Places, FrontTypes
  <2>2. round' \in Nat
    BY <1>1, <1>6 DEF FrontTypes
  <2>3. said \in Text /\ <<>> \in Text
    BY <1>1 DEF FrontTypes, Text
  <2>4. said' \in Text
    BY <1>6, <2>3
  <2> QED BY <1>1, <2>1, <2>2, <2>4 DEF EndCompacting, uiVars, FrontTypes
<1>8. WorkerPlaced'
  BY <1>1, <1>2, <1>4, <1>5, <1>6 DEF WorkerPlaced
<1>9. ASSUME NEW z, Foreseen(z)
      PROVE  InTurn(z, Snapshot(s)) /\ InTurn(Shown(z, Snapshot(s)), e)
             /\ Foreseen(Shown(Shown(z, Snapshot(s)), e))'
  <2> DEFINE y == Shown(z, Snapshot(s))  w == Shown(y, e)
  <2>1. /\ InTurn(z, Snapshot(s)) /\ y.busy = TRUE /\ y.open = z.open /\ y.last = z.last
    BY <1>2, ShownSnapshot
  <2> HIDE DEF y
  <2>2. ASSUME NEW x \in z.open, x # <<"compaction", e.arg>> PROVE Owed(x)'
    <3>1. Owed(x) /\ x = <<x[1], x[2]>>
      BY <1>9, <2>2 DEF Foreseen, Owed
    <3>2. x[1] # "compaction"
      BY <1>3, <2>2, <3>1 DEF Owed
    <3>3. Lost(x[2]) => Lost(x[2])'
      BY <1>1, <1>5, <1>6, <3>1, Numbers DEF Lost, Owed
    <3> QED BY <1>5, <3>1, <3>2, <3>3 DEF Owed
  <2>3. /\ InTurn(y, e) /\ w.busy = TRUE /\ w.compacting = FALSE
        /\ w.open = z.open \ {<<"compaction", e.arg>>} /\ w.last = z.last
    BY <1>3, <2>1 DEF Shown, InTurn, Streamed
  <2> HIDE DEF w
  <2>4. z.last \in Nat /\ z.last <= round /\ round \in Nat
    BY <1>1, <1>9 DEF Foreseen, FrontTypes
  <2>5. w.last <= round' /\ (at' = "stream" => w.last < round')
    BY <1>6, <2>3, <2>4
  <2>6. Foreseen(w)'
    BY <1>2, <1>4, <1>5, <2>2, <2>3, <2>4, <2>5 DEF Foreseen
  <2> QED BY <2>1, <2>3, <2>6 DEF y, w
<1> QED BY <1>2, <1>3, <1>4, <1>5, <1>7, <1>8, <1>9, KeptTwo

LEMMA RetryKept == ASSUME FrontInv, Retry PROVE FrontInv'
<1>1. FrontTypes /\ WorkerPlaced /\ extra \in Nat
  BY DEF FrontInv, FrontTypes
<1>2. PICK s \in Shots : /\ s = Live("retrying", 0) /\ s.phase = "retrying" /\ s.pending = 0
                         /\ Snapshot(s) \in Event /\ Snapshot(s).t = "snapshot"
  BY <1>1, LiveShot, SnapshotEvent DEF Phases
<1>3. PICK e \in Event : e = Ev("line", 0) /\ e.t = "line"
  BY PlainEvent
<1>4. chan' = Append(Append(chan, Snapshot(s)), e) /\ shared' = s
  BY <1>1, <1>2, <1>3, EmitLiveIs DEF Retry, Phases, EmitLive
<1>5. UiSame /\ at = "stream" /\ at' = "backoff"
  BY DEF Retry, UiSame, uiVars
<1>6. /\ round' = round /\ extra' = extra + 1 /\ said' = said /\ torn' = torn /\ call' = call /\ answer' = answer
  BY DEF Retry
<1>7. FrontTypes'
  <2>1. chan' \in Seq(Event) /\ shared' \in Shots /\ at' \in Places /\ extra' \in Nat
    BY <1>1, <1>2, <1>4, <1>5, <1>6, TwoMore DEF Places, FrontTypes
  <2> QED BY <1>1, <2>1 DEF Retry, uiVars, FrontTypes
<1>8. WorkerPlaced'
  BY <1>1, <1>2, <1>4, <1>5, <1>6 DEF WorkerPlaced, ToolId
<1>9. ASSUME NEW z, Foreseen(z)
      PROVE  InTurn(z, Snapshot(s)) /\ InTurn(Shown(z, Snapshot(s)), e)
             /\ Foreseen(Shown(Shown(z, Snapshot(s)), e))'
  <2> DEFINE y == Shown(z, Snapshot(s))  w == Shown(y, e)
  <2>1. z.compacting = FALSE /\ z.last < round
    BY <1>1, <1>5, <1>9 DEF Foreseen, WorkerPlaced
  <2>2. \A x \in z.open : Owed(x)'
    BY <1>5, <1>6, <1>9 DEF Foreseen, Owed, Lost
  <2>3. InTurn(z, Snapshot(s)) /\ Foreseen(y)'
    BY <1>2, <1>4, <1>5, <1>6, <1>9, <2>1, <2>2, ForeseenSnapshot
  <2> HIDE DEF y
  <2>4. /\ InTurn(y, e) /\ w.busy = y.busy /\ w.compacting = y.compacting
        /\ w.session = y.session /\ w.plan = y.plan /\ w.open = y.open /\ w.last = y.last
    BY <1>3, ShownCalm DEF Calm
  <2> HIDE DEF w
  <2>5. Foreseen(w)'
    BY <2>3, <2>4 DEF Foreseen
  <2> QED BY <2>3, <2>4, <2>5 DEF y, w
<1> QED BY <1>2, <1>3, <1>4, <1>5, <1>7, <1>8, <1>9, KeptTwo

\* What a chunk of an answer or of thinking makes of an outline.
LEMMA ShownChunk ==
  ASSUME NEW z, NEW e \in Event, e.t \in Streamed
  PROVE  /\ e.t = "assistant" /\ z.last < e.arg.id => InTurn(z, e)
         /\ e.t = "thinking" => InTurn(z, e)
         /\ Shown(z, e).busy = z.busy /\ Shown(z, e).compacting = z.compacting
         /\ Shown(z, e).session = z.session /\ Shown(z, e).plan = z.plan
         /\ Shown(z, e).open = z.open \cup {<<e.t, e.arg.id>>} /\ Shown(z, e).last = z.last
BY DEF Shown, InTurn, Streamed

LEMMA ChunkKept == ASSUME FrontInv, Delta \/ Think PROVE FrontInv'
<1>1. /\ FrontTypes /\ WorkerPlaced /\ extra \in Nat /\ round \in Nat /\ said \in Text /\ Len(said) \in Nat
      /\ at \in {"stream", "heard"}
  BY DEF FrontInv, FrontTypes, Text, Delta, Think, Streaming
<1>2. PICK e \in Event : /\ e.t \in Streamed /\ e.arg.id = round /\ Emit(<<e>>)
                         /\ e.t = "assistant" => said' = Append(said, Len(said) + 1)
                         /\ e.t = "thinking" => said' = said
  <2>1. CASE Delta
    <3> DEFINE e == Ev("assistant", [id |-> round, chunk |-> Len(said) + 1])
    <3>1. e \in Event /\ e.t = "assistant" /\ e.arg.id = round
      BY <1>1 DEF Ev, Event, Streamed
    <3>2. Emit(<<e>>) /\ said' = Append(said, Len(said) + 1)
      BY <2>1 DEF Delta
    <3> HIDE DEF e
    <3> QED BY <3>1, <3>2 DEF Streamed
  <2>2. CASE Think
    <3> DEFINE e == Ev("thinking", [id |-> round, chunk |-> 0])
    <3>1. e \in Event /\ e.t = "thinking" /\ e.arg.id = round
      BY <1>1 DEF Ev, Event, Streamed
    <3>2. Emit(<<e>>) /\ said' = said
      BY <2>2 DEF Think
    <3> HIDE DEF e
    <3> QED BY <3>1, <3>2 DEF Streamed
  <2> QED BY <2>1, <2>2
<1>3. chan' = Append(chan, e)
  BY <1>1, <1>2, EmitOne
<1>4. UiSame /\ at' = "heard" /\ shared' = shared
  BY DEF Delta, Think, UiSame, uiVars, factVars
<1>5. round' = round /\ torn' = torn /\ call' = call /\ answer' = answer /\ extra' \in Nat
  BY <1>1 DEF Delta, Think, factVars
<1>6. said' \in Text /\ (said # <<>> => said' # <<>>) /\ (e.t = "assistant" => said' # <<>>)
  <2>1. Append(said, Len(said) + 1) # <<>>
    <3>1. said \in Seq(Nat) /\ Len(said) + 1 \in Nat
      BY <1>1 DEF Text
    <3>2. Len(Append(said, Len(said) + 1)) = Len(said) + 1
      BY <3>1
    <3>3. Len(<<>>) = 0 /\ Len(said) + 1 # 0
      BY <1>1
    <3> QED BY <3>2, <3>3
  <2>2. Append(said, Len(said) + 1) \in Text
    BY <1>1 DEF Text
  <2> QED BY <1>1, <1>2, <2>1, <2>2 DEF Streamed
<1>7. FrontTypes'
  <2>1. chan' \in Seq(Event) /\ at' \in Places
    BY <1>1, <1>3, <1>4, ChanMore DEF Places
  <2> QED BY <1>1, <1>5, <1>6, <2>1 DEF Delta, Think, uiVars, factVars, FrontTypes
<1>8. WorkerPlaced'
  BY <1>1, <1>4, <1>5 DEF WorkerPlaced, ToolId
<1>9. ASSUME NEW z, Foreseen(z) PROVE InTurn(z, e) /\ Foreseen(Shown(z, e))'
  <2> DEFINE w == Shown(z, e)
  <2>1. z.last \in Nat /\ z.last <= round /\ z.last < round
    BY <1>1, <1>9 DEF Foreseen
  <2>2. ASSUME NEW x \in z.open PROVE Owed(x)'
    BY <1>1, <1>4, <1>5, <1>6, <1>9, <2>2 DEF Foreseen, Owed, Lost
  <2>3. Owed(<<e.t, e.arg.id>>)'
    <3> DEFINE x == <<e.t, e.arg.id>>
    <3>1. x \in {"assistant", "thinking", "compaction", "tool"} \X Nat /\ x[1] = e.t /\ x[2] = round
      BY <1>1, <1>2 DEF Streamed
    <3> HIDE DEF x
    <3>2. Owed(x)'
      BY <1>1, <1>2, <1>4, <1>5, <1>6, <3>1 DEF Owed, Streamed
    <3> QED BY <3>2 DEF x
  <2>4. /\ InTurn(z, e) /\ w.busy = z.busy /\ w.compacting = z.compacting
        /\ w.open = z.open \cup {<<e.t, e.arg.id>>} /\ w.last = z.last
    BY <1>2, <2>1, ShownChunk DEF Streamed
  <2> HIDE DEF w
  <2>5. Foreseen(w)'
    BY <1>4, <1>5, <1>9, <2>1, <2>2, <2>3, <2>4 DEF Foreseen
  <2> QED BY <2>4, <2>5 DEF w
<1> QED BY <1>1, <1>2, <1>3, <1>4, <1>7, <1>8, <1>9, KeptOne DEF Streamed

\* The end of a message closes what was streamed.
LEMMA StreamEndsKept == ASSUME FrontInv, NEW tools \in BOOLEAN, StreamEnds(tools) PROVE FrontInv'
<1>1. /\ FrontTypes /\ WorkerPlaced /\ round \in Nat /\ said \in Text
      /\ at \in {"stream", "heard"} /\ at' \in {"tools", "round"} /\ UiSame
  BY DEF FrontInv, FrontTypes, StreamEnds, Streaming, UiSame, uiVars
<1>2. PICK e \in Event : /\ e = Ev("finished", [id |-> round, text |-> said])
                         /\ e.t = "finished" /\ e.arg.id = round /\ e.arg.text = said
  <2> DEFINE e == Ev("finished", [id |-> round, text |-> said])
  <2>1. e \in Event /\ e.t = "finished" /\ e.arg.id = round /\ e.arg.text = said
    BY <1>1 DEF Ev, Event
  <2> QED BY <2>1
<1>3. chan' = IF said # <<>> THEN Append(chan, e) ELSE chan
  BY <1>1, <1>2, EmitOne, EmitNone DEF StreamEnds
<1>4. /\ shared' = shared /\ round' = round /\ extra' = extra /\ said' = said /\ torn' = torn
      /\ answer' = answer /\ call' = [c \in Call |-> "new"]
  BY DEF StreamEnds, factVars
<1>5. FrontTypes'
  <2>1. chan' \in Seq(Event) /\ at' \in Places /\ call' \in [Call -> Stages]
    BY <1>1, <1>3, <1>4, ChanMore DEF Places, Stages, FrontTypes
  <2> QED BY <1>1, <2>1 DEF StreamEnds, uiVars, factVars, FrontTypes
<1>6. WorkerPlaced'
  BY <1>1, <1>4 DEF WorkerPlaced
<1>7. ASSUME NEW z, Foreseen(z), NEW x \in z.open,
             said = <<>> \/ x[1] \notin Streamed
      PROVE  Owed(x)'
  <2>1. Owed(x)
    BY <1>7 DEF Foreseen
  <2>2. Lost(x[2]) => Lost(x[2])'
    BY <1>1, <1>4, <2>1, Numbers DEF Lost, Owed
  <2> QED BY <1>1, <1>4, <1>7, <2>1, <2>2 DEF Owed, Streamed
<1>8. CASE said # <<>>
  <2>1. ASSUME NEW z, Foreseen(z) PROVE InTurn(z, e) /\ Foreseen(Shown(z, e))'
    <3> DEFINE w == Shown(z, e)
    <3>1. \A x \in z.open : x[1] = "assistant" => x[2] = round
      BY <2>1 DEF Foreseen, Owed
    <3>2. /\ InTurn(z, e) /\ w.busy = z.busy /\ w.compacting = z.compacting /\ w.last = round
          /\ w.open = {x \in z.open : x[1] \notin Streamed}
      BY <1>2, <1>8, <3>1 DEF InTurn, Shown, Streamed
    <3> HIDE DEF w
    <3>3. \A x \in w.open : Owed(x)'
      BY <1>7, <2>1, <3>2
    <3>4. Foreseen(w)'
      BY <1>1, <1>4, <2>1, <3>2, <3>3 DEF Foreseen
    <3> QED BY <3>2, <3>4 DEF w
  <2> QED BY <1>1, <1>2, <1>3, <1>5, <1>6, <1>8, <2>1, KeptOne
<1>9. CASE said = <<>>
  <2>1. ASSUME NEW z, Foreseen(z) PROVE Foreseen(z)'
    BY <1>1, <1>4, <1>7, <1>9, <2>1 DEF Foreseen
  <2> QED BY <1>1, <1>3, <1>5, <1>6, <1>9, <2>1, KeptNone
<1> QED BY <1>8, <1>9

-----------------------------------------------------------------------------
(* The steps of the tool calls, and of the other commands.                 *)

Begun == {"shown", "asked", "ready", "refused", "deferred"}

\* A tool cell that the worker's calls account for still is, once one call has moved on.
LEMMA OwedCall ==
  ASSUME FrontTypes, NEW x, Owed(x), NEW c \in Call, NEW st \in Stages,
         at \in {"tools", "asking"}, at' \in {"tools", "asking"},
         round' = round, extra' = extra, torn' = torn, call' = [call EXCEPT ![c] = st],
         st \in Begun \/ x # <<"tool", ToolId(c)>>
  PROVE  Owed(x)'
<1>1. call \in [Call -> Stages]
  BY DEF FrontTypes
<1>2. x \in {"assistant", "thinking", "compaction", "tool"} \X Nat /\ x = <<x[1], x[2]>>
  BY DEF Owed
<1>3. ASSUME x[1] = "tool", NEW d \in Call, x[2] = ToolId(d), call[d] \in Begun
      PROVE  call'[d] \in Begun /\ x[2] = ToolId(d)'
  <2>1. ToolId(d)' = ToolId(d)
    BY DEF ToolId
  <2>2. CASE d = c
    BY <1>1, <1>2, <1>3, <2>1, <2>2
  <2>3. CASE d # c
    BY <1>1, <1>3, <2>1, <2>3
  <2> QED BY <2>2, <2>3
<1>4. Lost(x[2]) => Lost(x[2])'
  BY DEF Lost
<1>5. x[1] = "tool" => \/ \E d \in Call : x[2] = ToolId(d) /\ call[d] \in Begun
                       \/ Lost(x[2])
  BY DEF Owed, Begun
<1>6. x[1] = "tool" => \/ \E d \in Call : x[2] = ToolId(d)' /\ call'[d] \in Begun
                       \/ Lost(x[2])'
  BY <1>3, <1>4, <1>5
<1> QED BY <1>2, <1>6 DEF Owed, Begun

LEMMA ShowKept == ASSUME FrontInv, NEW c \in Call, Show(c) PROVE FrontInv'
<1>1. FrontTypes /\ WorkerPlaced /\ call \in [Call -> Stages] /\ ToolId(c) \in Nat
  BY Numbers DEF FrontInv, FrontTypes
<1>2. PICK e \in Event : e = Ev("tool", ToolId(c)) /\ e.t = "tool" /\ e.arg = ToolId(c)
  BY <1>1, PlainEvent
<1>3. chan' = Append(chan, e)
  BY <1>1, <1>2, EmitOne DEF Show
<1>4. UiSame /\ at = "tools" /\ at' = "tools" /\ call[c] = "new"
  BY DEF Show, UiSame, uiVars
<1>5. /\ shared' = shared /\ round' = round /\ extra' = extra /\ said' = said /\ torn' = torn
      /\ answer' = answer /\ call' = [call EXCEPT ![c] = "shown"]
  BY DEF Show, factVars
<1>6. FrontTypes'
  <2>1. chan' \in Seq(Event) /\ call' \in [Call -> Stages]
    BY <1>1, <1>3, <1>5, ChanMore DEF Stages
  <2> QED BY <1>1, <2>1 DEF Show, uiVars, factVars, FrontTypes
<1>7. WorkerPlaced'
  BY <1>1, <1>4, <1>5 DEF WorkerPlaced, ToolId
<1>8. ASSUME NEW z, Foreseen(z) PROVE InTurn(z, e) /\ Foreseen(Shown(z, e))'
  <2> DEFINE w == Shown(z, e)
  <2>1. ASSUME NEW x \in z.open PROVE Owed(x)'
    <3>1. Owed(x)
      BY <1>8, <2>1 DEF Foreseen
    <3>2. "shown" \in Begun /\ "shown" \in Stages
      BY DEF Begun, Stages
    <3> QED BY <1>1, <1>4, <1>5, <3>1, <3>2, OwedCall
  <2>2. <<"tool", ToolId(c)>> \notin z.open
    <3> SUFFICES ASSUME <<"tool", ToolId(c)>> \in z.open PROVE FALSE
      OBVIOUS
    <3> DEFINE x == <<"tool", ToolId(c)>>
    <3>1. x[1] = "tool" /\ x[2] = ToolId(c) /\ Owed(x)
      BY <1>8 DEF Foreseen
    <3> HIDE DEF x
    <3>2. ~Lost(ToolId(c))
      BY <1>1, <1>4, Numbers DEF Lost
    <3>3. PICK d \in Call : ToolId(c) = ToolId(d) /\ call[d] # "new"
      BY <3>1, <3>2 DEF Owed
    <3>4. c = d
      <4> DEFINE r == Calls * round
      <4>1. r \in Nat /\ ToolId(c) = r + c /\ ToolId(d) = r + d /\ c \in Nat /\ d \in Nat
        BY <1>1, Numbers
      <4> HIDE DEF r
      <4>2. r + c = r + d
        BY <3>3, <4>1
      <4> QED BY <4>1, <4>2
    <3> QED BY <1>4, <3>3, <3>4
  <2>3. Owed(<<"tool", ToolId(c)>>)'
    <3> DEFINE x == <<"tool", ToolId(c)>>
    <3>1. x \in {"assistant", "thinking", "compaction", "tool"} \X Nat /\ x[1] = "tool" /\ x[2] = ToolId(c)
      BY <1>1
    <3>2. x' = x /\ ToolId(c)' = ToolId(c)
      BY <1>5 DEF ToolId
    <3>3. call'[c] = "shown"
      BY <1>1, <1>5
    <3> HIDE DEF x
    <3>4. Owed(x)'
      BY <1>4, <3>1, <3>2, <3>3 DEF Owed
    <3> QED BY <3>4 DEF x
  <2>4. /\ InTurn(z, e) /\ w.busy = z.busy /\ w.compacting = z.compacting
        /\ w.open = z.open \cup {<<"tool", ToolId(c)>>} /\ w.last = z.last
    BY <1>2, <2>2 DEF InTurn, Shown, Streamed
  <2> HIDE DEF w
  <2>5. ToolId(c)' = ToolId(c)
    BY <1>5 DEF ToolId
  <2>6. \A x \in w.open : Owed(x)'
    BY <2>1, <2>3, <2>4, <2>5
  <2>7. Foreseen(w)'
    BY <1>4, <1>5, <1>8, <2>4, <2>6 DEF Foreseen
  <2> QED BY <2>4, <2>7 DEF w
<1> QED BY <1>2, <1>3, <1>4, <1>6, <1>7, <1>8, KeptOne

\* What the end of a call makes of an outline.
LEMMA ShownToolEnd ==
  ASSUME NEW z, NEW e \in Event, e.t = "toolEnd"
  PROVE  /\ InTurn(z, e) /\ Shown(z, e).busy = z.busy /\ Shown(z, e).compacting = z.compacting
         /\ Shown(z, e).open = z.open \ {<<"tool", e.arg>>} /\ Shown(z, e).last = z.last
BY DEF InTurn, Shown, Streamed

LEMMA FinishCallKept == ASSUME FrontInv, NEW c \in Call, FinishCall(c) PROVE FrontInv'
<1>1. FrontTypes /\ WorkerPlaced /\ call \in [Call -> Stages] /\ ToolId(c) \in Nat
  BY Numbers DEF FrontInv, FrontTypes
<1>2. PICK e \in Event : e = Ev("toolEnd", ToolId(c)) /\ e.t = "toolEnd" /\ e.arg = ToolId(c)
  BY <1>1, PlainEvent
<1>3. chan' = Append(chan, e)
  BY <1>1, <1>2, EmitOne DEF FinishCall
<1>4. UiSame /\ at = "tools" /\ at' = "tools"
  BY DEF FinishCall, UiSame, uiVars
<1>5. /\ shared' = shared /\ round' = round /\ extra' = extra /\ said' = said /\ torn' = torn
      /\ answer' = answer /\ call' = [call EXCEPT ![c] = "done"]
  BY DEF FinishCall, factVars
<1>6. FrontTypes'
  <2>1. chan' \in Seq(Event) /\ call' \in [Call -> Stages]
    BY <1>1, <1>3, <1>5, ChanMore DEF Stages
  <2> QED BY <1>1, <2>1 DEF FinishCall, uiVars, factVars, FrontTypes
<1>7. WorkerPlaced'
  BY <1>1, <1>4, <1>5 DEF WorkerPlaced, ToolId
<1>8. ASSUME NEW z, Foreseen(z) PROVE InTurn(z, e) /\ Foreseen(Shown(z, e))'
  <2> DEFINE w == Shown(z, e)
  <2>1. ASSUME NEW x \in z.open, x # <<"tool", e.arg>> PROVE Owed(x)'
    <3>1. Owed(x) /\ x # <<"tool", ToolId(c)>>
      BY <1>2, <1>8, <2>1 DEF Foreseen
    <3>2. "done" \in Stages
      BY DEF Stages
    <3> QED BY <1>1, <1>4, <1>5, <3>1, <3>2, OwedCall
  <2>2. /\ InTurn(z, e) /\ w.busy = z.busy /\ w.compacting = z.compacting
        /\ w.open = z.open \ {<<"tool", e.arg>>} /\ w.last = z.last
    BY <1>2, ShownToolEnd
  <2> HIDE DEF w
  <2>3. Foreseen(w)'
    BY <1>4, <1>5, <1>8, <2>1, <2>2 DEF Foreseen
  <2> QED BY <2>2, <2>3 DEF w
<1> QED BY <1>2, <1>3, <1>4, <1>6, <1>7, <1>8, KeptOne

LEMMA FlushKept == ASSUME FrontInv, Flush PROVE FrontInv'
<1>1. FrontTypes /\ WorkerPlaced /\ ToolId(Calls) \in Nat /\ plan[session] \in Nat
  BY Numbers DEF FrontInv, FrontTypes
<1>2. PICK d \in Event : d = Ev("toolEnd", ToolId(Calls)) /\ d.t = "toolEnd" /\ d.arg = ToolId(Calls)
  BY <1>1, PlainEvent
<1>3. PICK e \in Event : e = Ev("plan", plan[session]) /\ e.t = "plan"
  BY <1>1, PlainEvent
<1>4. chan' = IF Planned THEN Append(Append(chan, d), e) ELSE chan
  BY <1>1, <1>2, <1>3, EmitTwo, EmitNone DEF Flush
<1>5. UiSame /\ at = "flush" /\ at' \in {"ending", "round"}
  BY DEF Flush, UiSame, uiVars
<1>6. /\ shared' = shared /\ round' = round /\ extra' = extra /\ said' = said /\ torn' = torn /\ call' = call
      /\ answer' = answer
  BY DEF Flush, factVars
<1>7. FrontTypes'
  <2>1. chan' \in Seq(Event) /\ at' \in Places
    BY <1>1, <1>4, <1>5, TwoMore DEF Places, FrontTypes
  <2> QED BY <1>1, <2>1 DEF Flush, uiVars, factVars, FrontTypes
<1>8. WorkerPlaced'
  BY <1>1, <1>5, <1>6 DEF WorkerPlaced, ToolId
<1>9. ASSUME NEW z, Foreseen(z), NEW x \in z.open, ~Planned \/ x # <<"tool", ToolId(Calls)>>
      PROVE  Owed(x)'
  <2>1. Owed(x) /\ x = <<x[1], x[2]>> /\ x[2] \in Nat
    BY <1>9 DEF Foreseen, Owed
  <2>2. ASSUME NEW c \in Call, x[1] = "tool", x[2] = ToolId(c) PROVE call[c] = "done"
    BY <1>1, <1>5, <1>9, <2>1, <2>2 DEF WorkerPlaced, Planned
  <2>3. Lost(x[2]) => Lost(x[2])'
    BY <1>1, <1>5, <1>6, <2>1, Numbers DEF Lost
  <2> QED BY <1>5, <1>6, <2>1, <2>2, <2>3 DEF Owed
<1>10. CASE Planned
  <2>1. ASSUME NEW z, Foreseen(z)
        PROVE  InTurn(z, d) /\ InTurn(Shown(z, d), e) /\ Foreseen(Shown(Shown(z, d), e))'
    <3> DEFINE y == Shown(z, d)  w == Shown(y, e)
    <3>1. /\ InTurn(z, d) /\ y.busy = z.busy /\ y.compacting = z.compacting
          /\ y.open = z.open \ {<<"tool", ToolId(Calls)>>} /\ y.last = z.last
      BY <1>2, ShownToolEnd
    <3> HIDE DEF y
    <3>2. /\ InTurn(y, e) /\ w.busy = y.busy /\ w.compacting = y.compacting /\ w.open = y.open /\ w.last = y.last
      BY <1>3 DEF InTurn, Shown, Streamed
    <3> HIDE DEF w
    <3>3. \A x \in w.open : Owed(x)'
      BY <1>9, <2>1, <3>1, <3>2
    <3>4. Foreseen(w)'
      BY <1>5, <1>6, <2>1, <3>1, <3>2, <3>3 DEF Foreseen
    <3> QED BY <3>1, <3>2, <3>4 DEF y, w
  <2> QED BY <1>2, <1>3, <1>4, <1>5, <1>7, <1>8, <1>10, <2>1, KeptTwo
<1>11. CASE ~Planned
  <2>1. ASSUME NEW z, Foreseen(z) PROVE Foreseen(z)'
    BY <1>5, <1>6, <1>9, <1>11, <2>1 DEF Foreseen
  <2> QED BY <1>4, <1>5, <1>7, <1>8, <1>11, <2>1, KeptNone
<1> QED BY <1>10, <1>11

LEMMA ServeKept == ASSUME FrontInv, Serve PROVE FrontInv'
<1>1. /\ FrontTypes /\ WorkerPlaced /\ UiSame
      /\ at \in {"list", "clear", "load", "model"} /\ at' = "ending"
  BY DEF FrontInv, Serve, UiSame, uiVars
<1>2. chan' = chan \/ \E e \in Event : e.t \in {"listed", "cleared", "model"} /\ chan' = Append(chan, e)
  <2>1. /\ Ev("listed", 0) \in Event /\ Ev("listed", 0).t = "listed"
        /\ Ev("cleared", 0) \in Event /\ Ev("cleared", 0).t = "cleared"
        /\ Ev("model", 0) \in Event /\ Ev("model", 0).t = "model"
    BY PlainEvent
  <2>2. CASE at = "list"
    <3>1. Emit(<<Ev("listed", 0)>>)
      BY <2>2 DEF Serve, Reply
    <3> QED BY <1>1, <2>1, <3>1, EmitOne
  <2>3. CASE at = "clear"
    <3>1. Emit(<<Ev("cleared", 0)>>)
      BY <2>3 DEF Serve, Reply
    <3> QED BY <1>1, <2>1, <3>1, EmitOne
  <2>4. CASE at = "model"
    <3>1. Emit(<<Ev("model", 0)>>)
      BY <2>4 DEF Serve, Reply
    <3> QED BY <1>1, <2>1, <3>1, EmitOne
  <2>5. CASE at = "load"
    <3>1. Emit(<<>>)
      BY <2>5 DEF Serve, Reply
    <3> QED BY <1>1, <3>1, EmitNone
  <2> QED BY <1>1, <2>2, <2>3, <2>4, <2>5
<1>3. /\ shared' = shared /\ round' = round /\ extra' = extra /\ said' = said /\ torn' = torn /\ call' = call
      /\ answer' = answer
  BY DEF Serve
<1>4. plan' \in [Session -> Nat] /\ session' \in Session
  <2>1. plan \in [Session -> Nat] /\ session \in Session
    BY <1>1 DEF FrontTypes
  <2>2. plan' = plan \/ plan' = [plan EXCEPT ![session] = 0]
    BY DEF Serve
  <2>3. plan' \in [Session -> Nat]
    BY <2>1, <2>2
  <2> QED BY <2>1, <2>3 DEF Serve
<1>5. FrontTypes'
  <2>1. chan' \in Seq(Event)
    BY <1>1, <1>2, ChanMore DEF FrontTypes
  <2> QED BY <1>1, <1>4, <2>1 DEF Serve, uiVars, FrontTypes, Places
<1>6. WorkerPlaced'
  BY <1>1, <1>3 DEF WorkerPlaced, ToolId
<1>7. ASSUME NEW z, Foreseen(z) PROVE \A x \in z.open : Owed(x)'
  BY <1>1, <1>3, <1>7 DEF Foreseen, Owed, Lost
<1>8. CASE chan' = chan
  <2>1. ASSUME NEW z, Foreseen(z) PROVE Foreseen(z)'
    BY <1>1, <1>3, <1>7, <2>1 DEF Foreseen
  <2> QED BY <1>1, <1>5, <1>6, <1>8, <2>1, KeptNone
<1>9. ASSUME NEW e \in Event, e.t \in {"listed", "cleared", "model"}, chan' = Append(chan, e) PROVE FrontInv'
  <2>1. ASSUME NEW z, Foreseen(z) PROVE InTurn(z, e) /\ Foreseen(Shown(z, e))'
    <3> DEFINE w == Shown(z, e)
    <3>1. /\ InTurn(z, e) /\ w.busy = z.busy /\ w.compacting = z.compacting /\ w.open = z.open /\ w.last = z.last
      BY <1>9 DEF InTurn, Shown, Streamed
    <3> HIDE DEF w
    <3>2. Foreseen(w)'
      BY <1>1, <1>3, <1>7, <2>1, <3>1 DEF Foreseen
    <3> QED BY <3>1, <3>2 DEF w
  <2> QED BY <1>1, <1>5, <1>6, <1>9, <2>1, KeptOne
<1> QED BY <1>2, <1>8, <1>9

\* With the command over, the screen shows the facts and nothing streamed is open.
LEMMA SettleKept == ASSUME FrontInv, Settle PROVE FrontInv'
<1>1. /\ FrontTypes /\ WorkerPlaced /\ UiSame /\ plan[session] \in Nat /\ session \in Session
      /\ at = "settle" /\ at' = "idle"
  BY DEF FrontInv, FrontTypes, Settle, UiSame, uiVars
<1>2. PICK s \in Shots : /\ s = [phase |-> "idle", pending |-> 0, plan |-> plan[session], session |-> session]
                         /\ s.phase = "idle" /\ s.pending = 0 /\ s.plan = plan[session] /\ s.session = session
                         /\ Snapshot(s) \in Event /\ Snapshot(s).t = "snapshot"
  <2> DEFINE s == [phase |-> "idle", pending |-> 0, plan |-> plan[session], session |-> session]
  <2>1. s \in Shots
    BY <1>1 DEF Shots, Phases
  <2> QED BY <2>1, SnapshotEvent
<1>3. PICK e \in Event : e = Ev("settled", 0) /\ e.t = "settled"
  BY PlainEvent
<1>4. chan' = Append(Append(chan, Snapshot(s)), e) /\ shared' = s
  <2>1. shared' = s /\ Emit(<<Snapshot(s), e>>)
    BY <1>2, <1>3 DEF Settle
  <2> QED BY <1>1, <1>2, <2>1, EmitTwo
<1>5. /\ round' = round /\ extra' = extra /\ said' = said /\ torn' = torn /\ call' = call
      /\ answer' = answer /\ plan' = plan /\ session' = session
  BY DEF Settle
<1>6. FrontTypes'
  <2>1. chan' \in Seq(Event) /\ shared' \in Shots /\ at' \in Places
    BY <1>1, <1>2, <1>3, <1>4, TwoMore DEF Places, FrontTypes
  <2> QED BY <1>1, <2>1 DEF Settle, uiVars, FrontTypes
<1>7. WorkerPlaced'
  BY <1>1, <1>2, <1>4, <1>5 DEF WorkerPlaced
<1>8. ASSUME NEW z, Foreseen(z)
      PROVE  InTurn(z, Snapshot(s)) /\ InTurn(Shown(z, Snapshot(s)), e)
             /\ Foreseen(Shown(Shown(z, Snapshot(s)), e))'
  <2> DEFINE y == Shown(z, Snapshot(s))  w == Shown(y, e)
  <2>1. /\ InTurn(z, Snapshot(s)) /\ y.session = session /\ y.plan = plan[session]
        /\ y.open = z.open /\ y.last = z.last
    BY <1>2, ShownSnapshot
  <2> HIDE DEF y
  <2>2. /\ InTurn(y, e) /\ w.busy = FALSE /\ w.compacting = FALSE /\ w.session = session /\ w.plan = plan[session]
        /\ w.open = {x \in z.open : x[1] \notin Streamed} /\ w.last = z.last
    BY <1>3, <2>1 DEF InTurn, Shown, Streamed
  <2> HIDE DEF w
  <2>3. ASSUME NEW x \in w.open PROVE Owed(x)'
    <3>1. Owed(x) /\ x[1] \notin Streamed
      BY <1>8, <2>2, <2>3 DEF Foreseen
    <3> QED BY <1>1, <1>5, <3>1 DEF Owed, Lost, Streamed
  <2>4. Foreseen(w)'
    BY <1>1, <1>2, <1>4, <1>5, <1>8, <2>2, <2>3 DEF Foreseen
  <2> QED BY <2>1, <2>2, <2>4 DEF y, w
<1> QED BY <1>1, <1>2, <1>3, <1>4, <1>6, <1>7, <1>8, KeptTwo

-----------------------------------------------------------------------------
(* The steps of an approval.                                               *)

LEMMA AskKept == ASSUME FrontInv, NEW c \in Call, Ask(c) PROVE FrontInv'
<1>1. /\ FrontTypes /\ WorkerPlaced /\ RequestsKnown /\ call \in [Call -> Stages] /\ chan \in Seq(Event)
      /\ ToolId(c) \in Nat /\ ToolId(c) # 0 /\ UiSame /\ Ahead
  BY Numbers DEF FrontInv, FrontTypes, Ask, UiSame, uiVars
<1>2. PICK s \in Shots : /\ s = Live("waiting", ToolId(c)) /\ s.phase = "waiting" /\ s.pending = ToolId(c)
                         /\ Snapshot(s) \in Event /\ Snapshot(s).t = "snapshot"
  BY <1>1, LiveShot, SnapshotEvent DEF Phases
<1>3. PICK e \in Event : e = Ev("ask", ToolId(c)) /\ e.t = "ask" /\ e.arg = ToolId(c)
  BY <1>1, PlainEvent
<1>4. chan' = Append(Append(chan, Snapshot(s)), e) /\ shared' = s
  BY <1>1, <1>2, <1>3, EmitLiveIs DEF Ask, Phases, EmitLive
<1>5. at = "tools" /\ at' = "asking" /\ call[c] = "shown"
  BY DEF Ask
<1>6. /\ round' = round /\ extra' = extra /\ said' = said /\ torn' = torn
      /\ answer' = answer /\ call' = [call EXCEPT ![c] = "asked"]
  BY DEF Ask
<1>7. FrontTypes'
  <2>1. chan' \in Seq(Event) /\ call' \in [Call -> Stages] /\ shared' \in Shots
    BY <1>1, <1>2, <1>3, <1>4, <1>6, TwoMore DEF Stages
  <2>2. at' \in Places
    BY <1>5 DEF Places
  <2> QED BY <1>1, <2>1, <2>2 DEF Ask, uiVars, FrontTypes
<1>8. WorkerPlaced'
  <2>1. \A d \in Call : d # c => call'[d] = call[d] /\ call[d] # "asked"
    BY <1>1, <1>5, <1>6 DEF WorkerPlaced
  <2>2. ToolId(c)' = ToolId(c) /\ call'[c] = "asked"
    BY <1>1, <1>6 DEF ToolId
  <2> QED BY <1>1, <1>2, <1>4, <1>5, <1>6, <2>1, <2>2 DEF WorkerPlaced
<1>9. ASSUME NEW z, Foreseen(z)
      PROVE  InTurn(z, Snapshot(s)) /\ InTurn(Shown(z, Snapshot(s)), e)
             /\ Foreseen(Shown(Shown(z, Snapshot(s)), e))'
  <2> DEFINE y == Shown(z, Snapshot(s))  w == Shown(y, e)
  <2>1. ASSUME NEW x \in z.open PROVE Owed(x)'
    <3>1. Owed(x)
      BY <1>9, <2>1 DEF Foreseen
    <3>2. "asked" \in Begun /\ "asked" \in Stages
      BY DEF Begun, Stages
    <3> QED BY <1>1, <1>5, <1>6, <3>1, <3>2, OwedCall
  <2>2. InTurn(z, Snapshot(s)) /\ Foreseen(y)'
    BY <1>2, <1>4, <1>5, <1>6, <1>9, <2>1, ForeseenSnapshot
  <2> HIDE DEF y
  <2>3. /\ InTurn(y, e) /\ w.busy = y.busy /\ w.compacting = y.compacting
        /\ w.session = y.session /\ w.plan = y.plan /\ w.open = y.open /\ w.last = y.last
    BY <1>3, ShownCalm DEF Calm
  <2> HIDE DEF w
  <2>4. Foreseen(w)'
    BY <2>2, <2>3 DEF Foreseen
  <2> QED BY <2>2, <2>3, <2>4 DEF y, w
<1>10. Ahead'
  BY <1>1, <1>2, <1>3, <1>4, <1>9, AheadTwo
<1>11. RequestsKnown'
  <2> DEFINE n == Len(chan)
  <2>1. /\ n \in Nat /\ DOMAIN chan = 1..n /\ DOMAIN chan' = 1..(n + 2)
        /\ \A i \in 1..n : i \in DOMAIN chan' /\ chan'[i] = chan[i]
        /\ chan'[n + 1] = Snapshot(s) /\ chan'[n + 2] = e
    BY <1>1, <1>2, <1>3, <1>4, TwoMore
  <2> HIDE DEF n
  <2>2. shared.pending = 0 /\ shared'.pending = ToolId(c) /\ ui' = ui
    BY <1>1, <1>2, <1>4, <1>5 DEF WorkerPlaced, UiSame
  <2>3. \A i \in DOMAIN chan : chan[i].t = "ask" =>
          chan[i].arg # 0 /\ \E j \in DOMAIN chan : i < j /\ chan[j].t = "resolved" /\ chan[j].arg = chan[i].arg
    BY <1>1, <2>2 DEF RequestsKnown, Resolves
  <2>4. \A i \in DOMAIN chan' : i \in 1..n \/ i = n + 1 \/ i = n + 2
    BY <2>1
  <2>5. ASSUME NEW i \in DOMAIN chan', chan'[i].t = "ask"
        PROVE  /\ chan'[i].arg # 0
               /\ \/ chan'[i].arg = shared'.pending
                  \/ \E j \in DOMAIN chan' : i < j /\ chan'[j].t = "resolved" /\ chan'[j].arg = chan'[i].arg
    <3>1. CASE i \in 1..n
      <4>1. chan[i].t = "ask" /\ chan'[i] = chan[i] /\ i \in DOMAIN chan
        BY <2>1, <2>5, <3>1
      <4>2. PICK j \in DOMAIN chan : i < j /\ chan[j].t = "resolved" /\ chan[j].arg = chan[i].arg
        BY <2>3, <4>1
      <4>3. j \in DOMAIN chan' /\ chan'[j] = chan[j]
        BY <2>1, <4>2
      <4> QED BY <2>3, <4>1, <4>2, <4>3
    <3>2. CASE i = n + 1
      BY <1>2, <2>1, <2>5, <3>2
    <3>3. CASE i = n + 2
      BY <1>1, <1>3, <2>1, <2>2, <3>3
    <3> QED BY <2>4, <3>1, <3>2, <3>3
  <2>6. ui.overlay.kind = "approval" =>
          /\ ui.overlay.arg # 0
          /\ \E j \in DOMAIN chan' : chan'[j].t = "resolved" /\ chan'[j].arg = ui.overlay.arg
    BY <1>1, <2>1, <2>2 DEF RequestsKnown, Resolves, Over
  <2>7. /\ n + 2 \in DOMAIN chan' /\ chan'[n + 2].t = "ask" /\ chan'[n + 2].arg = shared'.pending
        /\ \A j \in DOMAIN chan' : n + 2 < j => chan'[j].t \notin {"ask", "resolved"}
    BY <1>3, <2>1, <2>2
  <2> QED BY <2>2, <2>5, <2>6, <2>7 DEF RequestsKnown, Resolves, Asks, LastWord, Over
<1> QED BY <1>1, <1>7, <1>8, <1>10, <1>11, FrontKept

LEMMA ResolveKept ==
  ASSUME FrontInv, NEW c \in Call, NEW allowed \in BOOLEAN, Resolve(c, allowed) PROVE FrontInv'
<1>1. /\ FrontTypes /\ WorkerPlaced /\ RequestsKnown /\ call \in [Call -> Stages] /\ chan \in Seq(Event)
      /\ ToolId(c) \in Nat /\ ToolId(c) # 0 /\ UiSame /\ Ahead
  BY Numbers DEF FrontInv, FrontTypes, Resolve, UiSame, uiVars
<1>2. PICK s \in Shots : /\ s = Live("running", 0) /\ s.phase = "running" /\ s.pending = 0
                         /\ Snapshot(s) \in Event /\ Snapshot(s).t = "snapshot"
  BY <1>1, LiveShot, SnapshotEvent DEF Phases
<1>3. PICK e \in Event : e = Ev("resolved", ToolId(c)) /\ e.t = "resolved" /\ e.arg = ToolId(c)
  BY <1>1, PlainEvent
<1>4. chan' = Append(Append(chan, Snapshot(s)), e) /\ shared' = s
  BY <1>1, <1>2, <1>3, EmitLiveIs DEF Resolve, Phases, EmitLive
<1>5. at = "asking" /\ at' = "tools" /\ call[c] = "asked" /\ answer' = "none"
  BY DEF Resolve
<1>6. PICK st \in {"ready", "refused"} : call' = [call EXCEPT ![c] = st]
  BY DEF Resolve
<1>7. round' = round /\ extra' = extra /\ said' = said /\ torn' = torn
  BY DEF Resolve
<1>8. st \in Begun /\ st \in Stages
  BY DEF Begun, Stages
<1>9. FrontTypes'
  <2>1. chan' \in Seq(Event) /\ call' \in [Call -> Stages] /\ shared' \in Shots
    BY <1>1, <1>2, <1>3, <1>4, <1>6, <1>8, TwoMore
  <2>2. at' \in Places
    BY <1>5 DEF Places
  <2> QED BY <1>1, <1>5, <2>1, <2>2 DEF Resolve, uiVars, FrontTypes
<1>10. shared.pending = ToolId(c)
  BY <1>1, <1>5 DEF WorkerPlaced
<1>11. WorkerPlaced'
  <2>1. \A d \in Call : d # c => call'[d] = call[d] /\ call[d] # "asked"
    <3> SUFFICES ASSUME NEW d \in Call, d # c, call[d] = "asked" PROVE FALSE
      BY <1>1, <1>6
    <3> DEFINE r == Calls * round
    <3>1. r \in Nat /\ ToolId(c) = r + c /\ ToolId(d) = r + d /\ c \in Nat /\ d \in Nat
      BY <1>1, Numbers
    <3>2. ToolId(d) = ToolId(c)
      BY <1>1, <1>10 DEF WorkerPlaced
    <3> HIDE DEF r
    <3>3. r + c = r + d
      BY <3>1, <3>2
    <3> QED BY <3>1, <3>3
  <2>2. call'[c] = st
    BY <1>1, <1>6
  <2> QED BY <1>1, <1>2, <1>4, <1>5, <2>1, <2>2 DEF WorkerPlaced
<1>12. ASSUME NEW z, Foreseen(z)
      PROVE  InTurn(z, Snapshot(s)) /\ InTurn(Shown(z, Snapshot(s)), e)
             /\ Foreseen(Shown(Shown(z, Snapshot(s)), e))'
  <2> DEFINE y == Shown(z, Snapshot(s))  w == Shown(y, e)
  <2>1. ASSUME NEW x \in z.open PROVE Owed(x)'
    <3>1. Owed(x)
      BY <1>12, <2>1 DEF Foreseen
    <3> QED BY <1>1, <1>5, <1>6, <1>7, <1>8, <3>1, OwedCall
  <2>2. InTurn(z, Snapshot(s)) /\ Foreseen(y)'
    BY <1>2, <1>4, <1>5, <1>7, <1>12, <2>1, ForeseenSnapshot
  <2> HIDE DEF y
  <2>3. /\ InTurn(y, e) /\ w.busy = y.busy /\ w.compacting = y.compacting
        /\ w.session = y.session /\ w.plan = y.plan /\ w.open = y.open /\ w.last = y.last
    BY <1>3, ShownCalm DEF Calm
  <2> HIDE DEF w
  <2>4. Foreseen(w)'
    BY <2>2, <2>3 DEF Foreseen
  <2> QED BY <2>2, <2>3, <2>4 DEF y, w
<1>13. Ahead'
  BY <1>1, <1>2, <1>3, <1>4, <1>12, AheadTwo
<1>14. RequestsKnown'
  <2> DEFINE n == Len(chan)
  <2>1. /\ n \in Nat /\ DOMAIN chan = 1..n /\ DOMAIN chan' = 1..(n + 2)
        /\ \A i \in 1..n : i \in DOMAIN chan' /\ chan'[i] = chan[i]
        /\ chan'[n + 1] = Snapshot(s) /\ chan'[n + 2] = e
    BY <1>1, <1>2, <1>3, <1>4, TwoMore
  <2> HIDE DEF n
  <2>2. \A i \in DOMAIN chan : chan[i].t = "ask" =>
          /\ chan[i].arg # 0
          /\ chan[i].arg = ToolId(c) \/ \E j \in DOMAIN chan : i < j /\ chan[j].t = "resolved" /\ chan[j].arg = chan[i].arg
    BY <1>1, <1>10 DEF RequestsKnown, Resolves
  <2>3. \A i \in DOMAIN chan' : i \in 1..n \/ i = n + 1 \/ i = n + 2
    BY <2>1
  <2>4. n + 2 \in DOMAIN chan' /\ chan'[n + 2].t = "resolved" /\ chan'[n + 2].arg = ToolId(c)
    BY <1>3, <2>1
  <2>5. ASSUME NEW i \in DOMAIN chan', chan'[i].t = "ask"
        PROVE  /\ chan'[i].arg # 0
               /\ \E j \in DOMAIN chan' : i < j /\ chan'[j].t = "resolved" /\ chan'[j].arg = chan'[i].arg
    <3>1. i \in 1..n
      BY <1>2, <2>1, <2>3, <2>4, <2>5
    <3>2. chan[i].t = "ask" /\ chan'[i] = chan[i] /\ i \in DOMAIN chan
      BY <2>1, <2>5, <3>1
    <3>3. CASE chan[i].arg = ToolId(c)
      <4>1. i < n + 2
        BY <2>1, <3>1
      <4> QED BY <1>1, <2>4, <3>2, <3>3, <4>1
    <3>4. ASSUME NEW j \in DOMAIN chan, i < j, chan[j].t = "resolved", chan[j].arg = chan[i].arg
          PROVE  \E k \in DOMAIN chan' : i < k /\ chan'[k].t = "resolved" /\ chan'[k].arg = chan'[i].arg
      BY <2>1, <3>2, <3>4
    <3> QED BY <2>2, <3>2, <3>3, <3>4
  <2>6. ui.overlay.kind = "approval" =>
          /\ ui.overlay.arg # 0
          /\ \E j \in DOMAIN chan' : chan'[j].t = "resolved" /\ chan'[j].arg = ui.overlay.arg
    <3>1. ui.overlay.kind = "approval" =>
            /\ ui.overlay.arg # 0
            /\ ui.overlay.arg = ToolId(c) \/ \E j \in DOMAIN chan : chan[j].t = "resolved" /\ chan[j].arg = ui.overlay.arg
      BY <1>1, <1>10 DEF RequestsKnown, Resolves, Over
    <3> QED BY <2>1, <2>4, <3>1
  <2>7. ui' = ui
    BY <1>1 DEF UiSame
  <2> QED BY <1>5, <2>5, <2>6, <2>7 DEF RequestsKnown, Resolves, Over
<1> QED BY <1>1, <1>9, <1>11, <1>13, <1>14, FrontKept

LEMMA WorkerKept == ASSUME FrontInv, Worker PROVE FrontInv'
BY TakeKept, PollKept, BeginKept, InjectKept, StopKept, ErrorKept, StartCompactingKept,
   EndCompactingKept, PromptKept, ChunkKept, RetryKept, RetryAgainKept, StreamEndsKept,
   ShowKept, AskKept, ResolveKept, FinishCallKept, ToolsQuietKept, FlushKept, ServeKept,
   FinishKept, SettleKept DEF Worker

-----------------------------------------------------------------------------
(* The steps of the front end: each event is applied in its turn.          *)

\* The front end takes the first event.
Taken ==
  /\ chan # <<>> /\ chan' = Tail(chan)
  /\ UNCHANGED <<workVars, factVars, keys, printed, sending, answer>>

LEMMA TailIs ==
  ASSUME FrontTypes, chan # <<>>, chan' = Tail(chan)
  PROVE  /\ chan \in Seq(Event) /\ chan' \in Seq(Event) /\ Len(chan) \in Nat /\ 1 \in DOMAIN chan
         /\ DOMAIN chan = 1..Len(chan) /\ DOMAIN chan' = 1..(Len(chan) - 1)
         /\ Head(chan) = chan[1] /\ Head(chan) \in Event
         /\ \A i \in DOMAIN chan' : chan'[i] = chan[i + 1] /\ i + 1 \in DOMAIN chan
         /\ \A i \in DOMAIN chan : 1 < i => i - 1 \in DOMAIN chan' /\ chan'[i - 1] = chan[i]
<1>1. chan \in Seq(Event)
  BY DEF FrontTypes
<1>2. Len(Tail(chan)) = Len(chan) - 1 /\ \A i \in 1..(Len(chan) - 1) : Tail(chan)[i] = chan[i + 1]
  BY <1>1
<1> QED BY <1>1, <1>2

\* The overlay after an event.
Overlaid ==
  LET e == chan[1] IN
  /\ e.t \notin {"ask", "resolved"} =>
       /\ Over({"approval"})' = Over({"approval"})
       /\ Over({"approval"}) => ui'.overlay.arg = ui.overlay.arg
  /\ e.t = "ask" => ui'.overlay.kind = "approval" /\ ui'.overlay.arg = e.arg
  /\ e.t = "resolved" => /\ Over({"approval"})' = (Over({"approval"}) /\ ui.overlay.arg # e.arg)
                         /\ Over({"approval"})' => ui'.overlay.arg = ui.overlay.arg

LEMMA RequestsTaken ==
  ASSUME FrontTypes, RequestsKnown, Taken, Overlaid PROVE RequestsKnown'
<1> DEFINE n == Len(chan)
<1>1. /\ n \in Nat /\ 1 \in DOMAIN chan
      /\ DOMAIN chan = 1..n /\ DOMAIN chan' = 1..(n - 1)
      /\ \A i \in DOMAIN chan' : chan'[i] = chan[i + 1] /\ i + 1 \in DOMAIN chan
      /\ \A i \in DOMAIN chan : 1 < i => i - 1 \in DOMAIN chan' /\ chan'[i - 1] = chan[i]
  BY TailIs DEF Taken
<1> HIDE DEF n
<1>2. shared' = shared /\ at' = at /\ answer' = answer
  BY DEF Taken, workVars, factVars
<1>3. ASSUME NEW j \in DOMAIN chan, 1 < j, NEW b, Resolves(j, b)
      PROVE  j - 1 \in DOMAIN chan' /\ chan'[j - 1].t = "resolved" /\ chan'[j - 1].arg = b
  BY <1>1, <1>3 DEF Resolves
<1>4. ASSUME NEW i \in DOMAIN chan', chan'[i].t = "ask"
      PROVE  /\ chan'[i].arg # 0
             /\ \/ chan'[i].arg = shared'.pending
                \/ \E j \in DOMAIN chan' : i < j /\ chan'[j].t = "resolved" /\ chan'[j].arg = chan'[i].arg
  <2>1. i \in 1..(n - 1) /\ i + 1 \in DOMAIN chan /\ chan'[i] = chan[i + 1]
    BY <1>1
  <2>2. /\ chan[i + 1].arg # 0
        /\ chan[i + 1].arg = shared.pending \/ \E j \in DOMAIN chan : i + 1 < j /\ Resolves(j, chan[i + 1].arg)
    BY <1>4, <2>1 DEF RequestsKnown
  <2>3. ASSUME NEW j \in DOMAIN chan, i + 1 < j, Resolves(j, chan[i + 1].arg)
        PROVE  \E k \in DOMAIN chan' : i < k /\ chan'[k].t = "resolved" /\ chan'[k].arg = chan'[i].arg
    <3>1. i < j - 1 /\ 1 < j
      BY <1>1, <2>1, <2>3
    <3> QED BY <1>3, <2>1, <2>3, <3>1
  <2> QED BY <1>2, <2>1, <2>2, <2>3
<1>5. ASSUME ui'.overlay.kind = "approval"
      PROVE  /\ ui'.overlay.arg # 0
             /\ \/ ui'.overlay.arg = shared'.pending
                \/ \E j \in DOMAIN chan' : chan'[j].t = "resolved" /\ chan'[j].arg = ui'.overlay.arg
  <2>1. CASE chan[1].t = "ask"
    <3>1. ui'.overlay.arg = chan[1].arg
      BY <2>1 DEF Overlaid
    <3>2. /\ chan[1].arg # 0
          /\ chan[1].arg = shared.pending \/ \E j \in DOMAIN chan : 1 < j /\ Resolves(j, chan[1].arg)
      BY <1>1, <2>1 DEF RequestsKnown
    <3> QED BY <1>2, <1>3, <3>1, <3>2
  <2>2. CASE chan[1].t # "ask"
    <3>1. /\ Over({"approval"}) /\ ui'.overlay.arg = ui.overlay.arg
          /\ chan[1].t = "resolved" => ui.overlay.arg # chan[1].arg
      BY <1>5, <2>2 DEF Overlaid, Over
    <3>2. /\ ui.overlay.arg # 0
          /\ ui.overlay.arg = shared.pending \/ \E j \in DOMAIN chan : Resolves(j, ui.overlay.arg)
      BY <3>1 DEF RequestsKnown
    <3>3. ASSUME NEW j \in DOMAIN chan, Resolves(j, ui.overlay.arg)
          PROVE  \E k \in DOMAIN chan' : chan'[k].t = "resolved" /\ chan'[k].arg = ui'.overlay.arg
      <4>1. j # 1
        BY <3>1, <3>3 DEF Resolves
      <4>2. 1 < j
        BY <1>1, <4>1
      <4> QED BY <1>3, <3>1, <3>3, <4>2
    <3> QED BY <1>2, <3>1, <3>2, <3>3
  <2> QED BY <2>1, <2>2
<1>6. ASSUME at' = "asking", answer' = "none"
      PROVE  \/ \E i \in DOMAIN chan' :
                  /\ chan'[i].t = "ask" /\ chan'[i].arg = shared'.pending
                  /\ \A j \in DOMAIN chan' : i < j => chan'[j].t \notin {"ask", "resolved"}
             \/ /\ ui'.overlay.kind = "approval" /\ ui'.overlay.arg = shared'.pending
                /\ \A j \in DOMAIN chan' : 0 < j => chan'[j].t \notin {"ask", "resolved"}
  <2>1. \/ \E i \in DOMAIN chan : Asks(i, shared.pending) /\ LastWord(i)
        \/ Over({"approval"}) /\ ui.overlay.arg = shared.pending /\ LastWord(0)
    BY <1>2, <1>6 DEF RequestsKnown
  <2>2. ASSUME NEW i \in DOMAIN chan, LastWord(i), NEW j \in DOMAIN chan', i - 1 < j
        PROVE  chan'[j].t \notin {"ask", "resolved"}
    <3>1. j + 1 \in DOMAIN chan /\ chan'[j] = chan[j + 1] /\ i < j + 1
      BY <1>1, <2>2
    <3> QED BY <2>2, <3>1 DEF LastWord
  <2>3. ASSUME NEW i \in DOMAIN chan, Asks(i, shared.pending), LastWord(i), i # 1
        PROVE  \E k \in DOMAIN chan' :
                  /\ chan'[k].t = "ask" /\ chan'[k].arg = shared'.pending
                  /\ \A j \in DOMAIN chan' : k < j => chan'[j].t \notin {"ask", "resolved"}
    <3>1. i - 1 \in DOMAIN chan' /\ chan'[i - 1] = chan[i]
      BY <1>1, <2>3
    <3>2. chan'[i - 1].t = "ask" /\ chan'[i - 1].arg = shared'.pending
      BY <1>2, <2>3, <3>1 DEF Asks
    <3> QED BY <2>2, <2>3, <3>1, <3>2
  <2>4. ASSUME Asks(1, shared.pending), LastWord(1)
        PROVE  /\ ui'.overlay.kind = "approval" /\ ui'.overlay.arg = shared'.pending
               /\ \A j \in DOMAIN chan' : 0 < j => chan'[j].t \notin {"ask", "resolved"}
    <3>1. ui'.overlay.kind = "approval" /\ ui'.overlay.arg = shared'.pending
      BY <1>2, <2>4 DEF Overlaid, Asks
    <3>2. 1 - 1 = 0
      OBVIOUS
    <3> QED BY <1>1, <2>2, <2>4, <3>1, <3>2
  <2>5. ASSUME Over({"approval"}), ui.overlay.arg = shared.pending, LastWord(0)
        PROVE  /\ ui'.overlay.kind = "approval" /\ ui'.overlay.arg = shared'.pending
               /\ \A j \in DOMAIN chan' : 0 < j => chan'[j].t \notin {"ask", "resolved"}
    <3>1. \A j \in DOMAIN chan : chan[j].t \notin {"ask", "resolved"}
      BY <1>1, <2>5 DEF LastWord
    <3>2. ui'.overlay.kind = "approval" /\ ui'.overlay.arg = shared'.pending
      BY <1>1, <1>2, <2>5, <3>1 DEF Overlaid, Over
    <3> QED BY <1>1, <3>1, <3>2
  <2> QED BY <2>1, <2>3, <2>4, <2>5
<1>7. RequestsKnown'
  BY <1>4, <1>5, <1>6 DEF RequestsKnown, Resolves, Asks, LastWord, Over
<1> QED BY <1>7

\* What the events that are not about the transcript leave of it.
Sound == Orderly(cells) /\ WholeShown(printed, cells, whole)

LEMMA EventKept ==
  ASSUME FrontInv, Taken, Overlaid, Sound', ui' \in Screens,
         whole' # <<>> => whole'[1].id \in Nat,
         ui'.overlay.kind = "efforts" => ui'.reasoning,
         Within(Outline', Shown(Outline, chan[1]))
  PROVE  FrontInv'
<1>1. FrontTypes /\ WorkerPlaced /\ RequestsKnown /\ Ahead
  BY DEF FrontInv
<1>2. FrontTypes'
  <2>1. chan' \in Seq(Event)
    BY <1>1, TailIs DEF Taken
  <2> QED BY <1>1, <2>1 DEF FrontTypes, Taken, workVars, factVars
<1>3. WorkerPlaced'
  BY <1>1 DEF WorkerPlaced, Taken, workVars, factVars, ToolId
<1>4. RequestsKnown'
  BY <1>1, RequestsTaken
<1>5. PICK z : Coming(Outline, chan, z) /\ Foreseen(z)
  BY <1>1 DEF Ahead
<1>6. Outline'.last \in Nat /\ Outline.last \in Nat
  BY <1>1, <1>2, OutlineLast DEF Outline, FrontTypes
<1>7. Coming(Outline', Tail(chan), z)
  <2>1. chan \in Seq(Event) /\ chan # <<>> /\ Head(chan) = chan[1]
    BY <1>1, TailIs DEF Taken
  <2> QED BY <1>5, <1>6, <2>1, ComingNext
<1>8. Foreseen(z)'
  <2>1. \A x \in z.open : Owed(x)'
    BY <1>5 DEF Foreseen, Owed, Lost, ToolId, Taken, workVars, factVars
  <2> QED BY <1>5, <2>1 DEF Foreseen, Taken, workVars, factVars
<1>9. Ahead'
  BY <1>7, <1>8 DEF Ahead, Taken
<1> QED BY <1>2, <1>3, <1>4, <1>9 DEF FrontInv, Sound, Over

\* The first event comes in its turn.
LEMMA NextInTurn ==
  ASSUME FrontInv, chan # <<>> PROVE chan[1] \in Event /\ Head(chan) = chan[1] /\ InTurn(Outline, chan[1])
<1>1. FrontTypes /\ Ahead /\ chan \in Seq(Event)
  BY DEF FrontInv, FrontTypes
<1>2. Head(chan) = chan[1] /\ chan[1] \in Event
  BY <1>1
<1>3. PICK z : Coming(Outline, chan, z)
  BY <1>1 DEF Ahead
<1> QED BY <1>1, <1>2, <1>3, OutlineLast, HeadInTurn

\* What is sent with each kind of event.
LEMMA EventArg ==
  ASSUME NEW e \in Event
  PROVE  /\ e.t = "snapshot" => e.arg \in Shots
         /\ e.t \in Streamed => e.arg.id \in Nat /\ e.arg.chunk \in Nat
         /\ e.t = "finished" => e.arg = [id |-> e.arg.id, text |-> e.arg.text] /\ e.arg.id \in Nat /\ e.arg.text \in Text
         /\ e.t \in {"compactStart", "compactEnd", "tool", "toolEnd", "ask", "resolved", "plan"} => e.arg \in Nat
BY DEF Event, Streamed

\* The transcript of another session, or of a cleared one.
LEMMA LineOnly ==
  Orderly(<<Line>>) /\ OpenCells(<<Line>>) = {} /\ \A above : WholeShown(above, <<Line>>, <<>>)
<1>1. Line \in CellSet /\ Line.kind = "line" /\ Line.open = FALSE
  BY DEF Line, Cell, CellSet, Text
<1> HIDE DEF Line
<1>2. <<Line>> \in Seq(CellSet) /\ DOMAIN <<Line>> = {1} /\ <<Line>>[1] = Line
  BY <1>1
<1> DEFINE s == <<Line>>
<1>3. s \in Seq(CellSet) /\ DOMAIN s = {1} /\ s[1] = Line
  BY <1>2
<1> HIDE DEF s
<1>4. Orderly(s) /\ OpenCells(s) = {}
  BY <1>1, <1>3 DEF Orderly, OpenCells
<1>5. \A above : WholeShown(above, s, <<>>)
  BY DEF WholeShown
<1> QED BY <1>4, <1>5 DEF s

\* The event loop takes the first event, which comes in its turn.
LEMMA ReceiveIs ==
  ASSUME FrontInv, NEW kinds, Receive(kinds)
  PROVE  /\ Taken /\ printed' = printed /\ chan[1] \in Event /\ chan[1].t \in kinds /\ Arg = chan[1].arg
         /\ Head(chan) = chan[1] /\ InTurn(Outline, chan[1])
         /\ ui \in Screens /\ Orderly(cells) /\ WholeShown(printed, cells, whole)
         /\ whole # <<>> => whole[1].id \in Nat
         /\ ui.overlay.kind = "efforts" => ui.reasoning
         /\ Outline.last \in Nat
<1>1. Taken /\ chan # <<>>
  BY DEF Receive, Taken
<1>2. chan[1] \in Event /\ Head(chan) = chan[1] /\ InTurn(Outline, chan[1])
  BY <1>1, NextInTurn
<1>3. Outline.last \in Nat
  BY OutlineLast DEF FrontInv
<1> QED BY <1>1, <1>2, <1>3 DEF Receive, Arg, FrontInv, FrontTypes, Over, Taken

\* An event that leaves the overlay, the transcript, or the rest of the screen.
LEMMA OverlayLeft ==
  ASSUME chan[1].t \notin {"ask", "resolved"},
         \/ ui'.overlay = ui.overlay
         \/ ui.overlay.kind # "approval" /\ ui'.overlay.kind # "approval"
  PROVE  Overlaid
BY DEF Overlaid, Over

LEMMA OnSnapshotKept == ASSUME FrontInv, OnSnapshot PROVE FrontInv'
<1> DEFINE e == chan[1]
<1>1. /\ Taken /\ printed' = printed /\ e \in Event /\ e.t = "snapshot" /\ Arg = e.arg /\ InTurn(Outline, e)
      /\ ui \in Screens /\ Orderly(cells) /\ WholeShown(printed, cells, whole)
      /\ whole # <<>> => whole[1].id \in Nat
      /\ ui.overlay.kind = "efforts" => ui.reasoning
      /\ Outline.last \in Nat
  BY ReceiveIs DEF OnSnapshot
<1>2. /\ e.arg \in Shots /\ e.arg.session \in Session /\ e.arg.plan \in Nat
  BY <1>1, EventArg DEF Shots
<1>3. PICK restored \in BOOLEAN :
        ui' = [ui EXCEPT !.session = e.arg.session, !.plan = e.arg.plan,
                         !.busy = (e.arg.phase # "idle"),
                         !.compacting = (e.arg.phase = "compacting" \/ (e.arg.phase = "retrying" /\ ui.compacting)),
                         !.tools = restored]
  BY <1>1 DEF OnSnapshot, Screens
<1>4. \/ cells' = cells /\ whole' = whole
      \/ cells' = <<Line>> /\ whole' = <<>>
  BY DEF OnSnapshot
<1> HIDE DEF e
<1>5. /\ ui' \in Screens /\ ui'.overlay = ui.overlay /\ ui'.reasoning = ui.reasoning
      /\ ui'.busy = (e.arg.phase # "idle")
      /\ ui'.compacting = (e.arg.phase = "compacting" \/ (e.arg.phase = "retrying" /\ ui.compacting))
      /\ ui'.session = e.arg.session /\ ui'.plan = e.arg.plan
  BY <1>1, <1>2, <1>3 DEF Screens
<1>6. Sound' /\ OpenCells(cells') \subseteq OpenCells(cells) /\ (whole' # <<>> => whole' = whole)
  BY <1>1, <1>4, LineOnly DEF Sound
<1>7. Within(Outline', Shown(Outline, e))
  <2>1. /\ Shown(Outline, e).busy = (e.arg.phase # "idle")
        /\ Shown(Outline, e).compacting = (e.arg.phase = "compacting" \/ (e.arg.phase = "retrying" /\ ui.compacting))
        /\ Shown(Outline, e).session = e.arg.session /\ Shown(Outline, e).plan = e.arg.plan
        /\ Shown(Outline, e).open = OpenCells(cells) /\ Shown(Outline, e).last = Outline.last
    BY <1>1 DEF Shown, Outline, Streamed
  <2>2. Outline'.last <= Outline.last
    BY <1>1, <1>6 DEF Outline
  <2> QED BY <1>5, <1>6, <2>1, <2>2 DEF Within, Outline
<1>8. Overlaid
  BY <1>1, <1>5, OverlayLeft DEF e
<1> QED BY <1>1, <1>5, <1>6, <1>7, <1>8, EventKept DEF e

\* An event that leaves the transcript and the outline.
LEMMA OnPlainKept ==
  ASSUME FrontInv, OnLine \/ OnError \/ OnStarted \/ OnModel \/ OnListed PROVE FrontInv'
<1> DEFINE e == chan[1]
<1>1. /\ Taken /\ printed' = printed /\ e \in Event /\ e.t \in {"line", "error", "started", "model", "listed"}
      /\ InTurn(Outline, e)
      /\ ui \in Screens /\ Orderly(cells) /\ WholeShown(printed, cells, whole)
      /\ whole # <<>> => whole[1].id \in Nat
      /\ ui.overlay.kind = "efforts" => ui.reasoning
      /\ Outline.last \in Nat
  BY ReceiveIs DEF OnLine, OnError, OnStarted, OnModel, OnListed
<1>2. whole' = whole /\ (cells' = cells \/ cells' = Push(cells))
  BY DEF OnLine, OnError, OnStarted, OnModel, OnListed
<1>3. /\ ui' \in Screens /\ ui'.compacting = ui.compacting /\ ui'.session = ui.session /\ ui'.plan = ui.plan
      /\ ui'.reasoning = ui.reasoning
      /\ \/ ui'.overlay = ui.overlay
         \/ ui.overlay.kind = "loading" /\ ui'.overlay.kind \in {"none", "sessions"}
      /\ ui'.busy = IF e.t = "started" THEN TRUE ELSE ui.busy
  <2>1. CASE OnLine \/ OnModel
    <3>1. ui' = ui /\ e.t # "started"
      BY <2>1, ReceiveIs DEF OnLine, OnModel
    <3> QED BY <1>1, <3>1
  <2>2. CASE OnError
    <3>1. e.t # "started"
      BY <2>2, ReceiveIs DEF OnError
    <3>2. \/ ui' = ui
          \/ ui.overlay.kind = "loading" /\ ui' = [ui EXCEPT !.overlay = None]
      BY <2>2 DEF OnError, Over
    <3>3. None \in [kind : Overlays, arg : Nat] /\ None.kind = "none"
      BY DEF None, Overlays
    <3> QED BY <1>1, <3>1, <3>2, <3>3 DEF Screens
  <2>3. CASE OnStarted
    <3>1. e.t = "started" /\ ui' = [ui EXCEPT !.busy = TRUE]
      BY <2>3, ReceiveIs DEF OnStarted
    <3> QED BY <1>1, <3>1 DEF Screens
  <2>4. CASE OnListed
    <3> DEFINE o == [kind |-> "sessions", arg |-> 0]
    <3>1. e.t # "started"
      BY <2>4, ReceiveIs DEF OnListed
    <3>2. \/ ui' = ui
          \/ ui.overlay.kind = "loading" /\ ui' = [ui EXCEPT !.overlay = o]
      BY <2>4 DEF OnListed, Over
    <3>3. o \in [kind : Overlays, arg : Nat] /\ o.kind = "sessions"
      BY DEF Overlays
    <3> HIDE DEF o
    <3> QED BY <1>1, <3>1, <3>2, <3>3 DEF Screens
  <2> QED BY <2>1, <2>2, <2>3, <2>4
<1> HIDE DEF e
<1>4. Sound' /\ OpenCells(cells') \subseteq OpenCells(cells)
  BY <1>1, <1>2, Pushed DEF Sound
<1>5. Within(Outline', Shown(Outline, e))
  <2>1. /\ Shown(Outline, e).busy = ui'.busy /\ Shown(Outline, e).compacting = ui.compacting
        /\ Shown(Outline, e).session = ui.session /\ Shown(Outline, e).plan = ui.plan
        /\ Shown(Outline, e).open = OpenCells(cells) /\ Shown(Outline, e).last = Outline.last
    BY <1>1, <1>3 DEF Shown, Outline, Streamed
  <2>2. /\ Outline'.busy = ui'.busy /\ Outline'.compacting = ui'.compacting
        /\ Outline'.session = ui'.session /\ Outline'.plan = ui'.plan
        /\ Outline'.open = OpenCells(cells') /\ Outline'.last = Outline.last /\ Outline'.sound
    BY <1>2 DEF Outline
  <2>3. ui'.session = ui.session /\ ui'.plan = ui.plan /\ Outline.last <= Outline.last
    BY <1>1, <1>3
  <2>4. OpenCells(cells') \subseteq Shown(Outline, e).open
    BY <1>4, <2>1
  <2> HIDE DEF e
  <2>5. ui'.compacting = Shown(Outline, e).compacting
    BY <1>3, <2>1
  <2> QED BY <2>1, <2>2, <2>3, <2>4, <2>5 DEF Within
<1>6. Overlaid
  BY <1>1, <1>3, OverlayLeft DEF e
<1>7. ui'.overlay.kind = "efforts" => ui'.reasoning
  BY <1>1, <1>3
<1> QED BY <1>1, <1>2, <1>3, <1>4, <1>5, <1>6, <1>7, EventKept DEF e

LEMMA OnCompactionKept == ASSUME FrontInv, OnCompaction PROVE FrontInv'
<1> DEFINE e == chan[1]
<1>1. /\ Taken /\ printed' = printed /\ e \in Event /\ e.t \in {"compactStart", "compactEnd"}
      /\ InTurn(Outline, e) /\ Arg = e.arg /\ Head(chan) = e
      /\ ui \in Screens /\ Orderly(cells) /\ WholeShown(printed, cells, whole)
      /\ whole # <<>> => whole[1].id \in Nat
      /\ ui.overlay.kind = "efforts" => ui.reasoning
      /\ Outline.last \in Nat
  BY ReceiveIs DEF OnCompaction
<1>2. /\ whole' = whole /\ e.arg \in Nat
      /\ cells' = IF e.t = "compactStart" THEN StartCompaction(cells, e.arg) ELSE FinishCompaction(cells, e.arg)
      /\ ui' = [ui EXCEPT !.busy = (e.t = "compactStart") \/ ui.busy, !.compacting = (e.t = "compactStart")]
  BY <1>1, EventArg DEF OnCompaction
<1> HIDE DEF e
<1>3. /\ ui' \in Screens /\ ui'.compacting = (e.t = "compactStart") /\ ui'.session = ui.session /\ ui'.plan = ui.plan
      /\ ui'.reasoning = ui.reasoning /\ ui'.overlay = ui.overlay
      /\ ui'.busy = IF e.t = "compactStart" THEN TRUE ELSE ui.busy
  BY <1>1, <1>2 DEF Screens
<1>4. Sound' /\ OpenCells(cells') \subseteq IF e.t = "compactStart" THEN OpenCells(cells) \cup {<<"compaction", e.arg>>}
                                           ELSE OpenCells(cells) \ {<<"compaction", e.arg>>}
  <2>1. CASE e.t = "compactStart"
    <3>1. <<"compaction", e.arg>> \notin OpenCells(cells)
      BY <1>1, <2>1 DEF InTurn, Outline
    <3> QED BY <1>1, <1>2, <2>1, <3>1, StartedCompaction DEF Sound
  <2>2. CASE e.t # "compactStart"
    <3> DEFINE s == FinishCompaction(cells, e.arg)
    <3>1. /\ Closes(s, cells) /\ \A i \in DOMAIN cells : s[i].text = cells[i].text
          /\ <<"compaction", e.arg>> \notin OpenCells(s)
      BY <1>1, FinishedCompaction
    <3> HIDE DEF s
    <3>2. Orderly(s) /\ OpenCells(s) \subseteq OpenCells(cells)
      BY <1>1, <3>1, ClosesOrderly
    <3>3. WholeShown(printed, s, whole)
      BY <1>1, <3>1, WholeKept
    <3>4. cells' = s
      BY <1>2, <2>2 DEF s
    <3> QED BY <1>1, <1>2, <2>2, <3>1, <3>2, <3>3, <3>4 DEF Sound
  <2> QED BY <2>1, <2>2
<1>5. Within(Outline', Shown(Outline, e))
  <2>1. /\ Shown(Outline, e).busy = ui'.busy /\ Shown(Outline, e).compacting = (e.t = "compactStart")
        /\ Shown(Outline, e).session = ui.session /\ Shown(Outline, e).plan = ui.plan
        /\ Shown(Outline, e).last = Outline.last
        /\ Shown(Outline, e).open = IF e.t = "compactStart" THEN OpenCells(cells) \cup {<<"compaction", e.arg>>}
                                    ELSE OpenCells(cells) \ {<<"compaction", e.arg>>}
    BY <1>1, <1>3 DEF Shown, Outline, Streamed
  <2>2. /\ Outline'.busy = ui'.busy /\ Outline'.compacting = ui'.compacting
        /\ Outline'.session = ui'.session /\ Outline'.plan = ui'.plan
        /\ Outline'.open = OpenCells(cells') /\ Outline'.last = Outline.last /\ Outline'.sound
    BY <1>2 DEF Outline
  <2>3. ui'.session = ui.session /\ ui'.plan = ui.plan /\ Outline.last <= Outline.last
    BY <1>1, <1>3
  <2>4. OpenCells(cells') \subseteq Shown(Outline, e).open
    BY <1>4, <2>1
  <2> HIDE DEF e
  <2>5. ui'.compacting = Shown(Outline, e).compacting
    BY <1>3, <2>1
  <2> QED BY <2>1, <2>2, <2>3, <2>4, <2>5 DEF Within
<1>6. Overlaid
  BY <1>1, <1>3, OverlayLeft DEF e
<1>7. ui'.overlay.kind = "efforts" => ui'.reasoning
  BY <1>1, <1>3
<1> QED BY <1>1, <1>2, <1>3, <1>4, <1>5, <1>6, <1>7, EventKept DEF e

LEMMA OutlineAfter ==
  ASSUME NEW w, ui'.busy = w.busy, ui'.compacting = w.compacting, ui'.session = w.session, ui'.plan = w.plan,
         OpenCells(cells') \subseteq w.open, (IF whole' = <<>> THEN 0 ELSE whole'[1].id) <= w.last
  PROVE  Within(Outline', w)
BY DEF Within, Outline

\* Chunks, the end of a message, calls and the end of the command: what the cells
\* become is what the outline says.
LEMMA OnDeltaKept == ASSUME FrontInv, OnDelta PROVE FrontInv'
<1> DEFINE e == chan[1]  w == Shown(Outline, e)
<1>1. /\ Taken /\ printed' = printed /\ e \in Event /\ e.t \in Streamed
      /\ InTurn(Outline, e) /\ Arg = e.arg /\ Head(chan) = e
      /\ ui \in Screens /\ Orderly(cells) /\ WholeShown(printed, cells, whole)
      /\ whole # <<>> => whole[1].id \in Nat
      /\ ui.overlay.kind = "efforts" => ui.reasoning
      /\ Outline.last \in Nat
  BY ReceiveIs DEF OnDelta
<1>2. /\ whole' = whole /\ ui' = ui /\ e.arg.id \in Nat /\ e.arg.chunk \in Nat
      /\ cells' = AppendDelta(cells, e.t, e.arg.id, e.arg.chunk)
  BY <1>1, EventArg DEF OnDelta
<1>3. /\ w.busy = ui.busy /\ w.compacting = ui.compacting /\ w.session = ui.session /\ w.plan = ui.plan
      /\ w.open = OpenCells(cells) \cup {<<e.t, e.arg.id>>} /\ w.last = Outline.last
  BY <1>1, ShownChunk DEF Outline
<1>4. Overlaid
  BY <1>1, <1>2, OverlayLeft DEF Streamed
<1> HIDE DEF e, w
<1>5. e.t = "assistant" /\ whole # <<>> => whole[1].id \in Nat /\ whole[1].id < e.arg.id
  BY <1>1 DEF InTurn, Outline
<1>6. Sound' /\ OpenCells(cells') \subseteq w.open
  BY <1>1, <1>2, <1>3, <1>5, DeltaAppended DEF Sound
<1>7. (IF whole' = <<>> THEN 0 ELSE whole'[1].id) <= w.last
  BY <1>1, <1>2, <1>3 DEF Outline
<1>8. Within(Outline', w)
  BY <1>2, <1>3, <1>6, <1>7, OutlineAfter
<1> QED BY <1>1, <1>2, <1>4, <1>6, <1>8, EventKept DEF e, w

LEMMA OnFinishedKept == ASSUME FrontInv, OnFinished PROVE FrontInv'
<1> DEFINE e == chan[1]  w == Shown(Outline, e)
<1>1. /\ Taken /\ printed' = printed /\ e \in Event /\ e.t = "finished"
      /\ InTurn(Outline, e) /\ Arg = e.arg /\ Head(chan) = e
      /\ ui \in Screens /\ Orderly(cells) /\ WholeShown(printed, cells, whole)
      /\ ui.overlay.kind = "efforts" => ui.reasoning
      /\ Outline.last \in Nat
  BY ReceiveIs DEF OnFinished
<1>2. /\ whole' = <<e.arg>> /\ ui' = ui /\ e.arg.id \in Nat /\ e.arg.text \in Text
      /\ e.arg = [id |-> e.arg.id, text |-> e.arg.text]
      /\ cells' = FinalizeAssistant(cells, e.arg.id, e.arg.text)
  BY <1>1, EventArg DEF OnFinished
<1>3. /\ w.busy = ui.busy /\ w.compacting = ui.compacting /\ w.session = ui.session /\ w.plan = ui.plan
      /\ w.open = {x \in OpenCells(cells) : x[1] \notin Streamed} /\ w.last = e.arg.id
  BY <1>1 DEF Outline, Shown, Streamed
<1>4. Overlaid
  BY <1>1, <1>2, OverlayLeft
<1> HIDE DEF e, w
<1>5. e.arg.text # <<>> /\ \A x \in OpenCells(cells) : x[1] = "assistant" => x[2] = e.arg.id
  BY <1>1 DEF InTurn, Outline
<1>6. Sound' /\ OpenCells(cells') \subseteq w.open
  BY <1>1, <1>2, <1>3, <1>5, Finalizes DEF Sound
<1>7. whole' # <<>> /\ whole'[1] = e.arg
  BY <1>2
<1>8. (IF whole' = <<>> THEN 0 ELSE whole'[1].id) <= w.last
  BY <1>2, <1>3, <1>7
<1>9. Within(Outline', w)
  BY <1>2, <1>3, <1>6, <1>8, OutlineAfter
<1> QED BY <1>1, <1>2, <1>4, <1>6, <1>7, <1>9, EventKept DEF e, w

LEMMA OnToolKept == ASSUME FrontInv, OnTool PROVE FrontInv'
<1> DEFINE e == chan[1]  w == Shown(Outline, e)
<1>1. /\ Taken /\ printed' = printed /\ e \in Event /\ e.t \in {"tool", "toolEnd"}
      /\ InTurn(Outline, e) /\ Arg = e.arg /\ Head(chan) = e
      /\ ui \in Screens /\ Orderly(cells) /\ WholeShown(printed, cells, whole)
      /\ whole # <<>> => whole[1].id \in Nat
      /\ ui.overlay.kind = "efforts" => ui.reasoning
      /\ Outline.last \in Nat
  BY ReceiveIs DEF OnTool
<1>2. /\ whole' = whole /\ ui' = [ui EXCEPT !.tools = TRUE] /\ e.arg \in Nat
      /\ cells' = IF e.t = "tool" THEN PushTool(cells, e.arg) ELSE FinishTool(cells, e.arg)
  BY <1>1, EventArg DEF OnTool
<1>3. /\ w.busy = ui.busy /\ w.compacting = ui.compacting /\ w.session = ui.session /\ w.plan = ui.plan
      /\ w.open = IF e.t = "tool" THEN OpenCells(cells) \cup {<<"tool", e.arg>>} ELSE OpenCells(cells) \ {<<"tool", e.arg>>}
      /\ w.last = Outline.last
  BY <1>1 DEF Outline, Shown, Streamed
<1>4. /\ ui' \in Screens /\ ui'.overlay = ui.overlay /\ ui'.reasoning = ui.reasoning
      /\ ui'.busy = ui.busy /\ ui'.compacting = ui.compacting /\ ui'.session = ui.session /\ ui'.plan = ui.plan
  BY <1>1, <1>2 DEF Screens
<1>5. Overlaid
  BY <1>1, <1>4, OverlayLeft
<1> HIDE DEF e, w
<1>6. Sound' /\ OpenCells(cells') \subseteq w.open
  <2>1. CASE e.t = "tool"
    <3>1. <<"tool", e.arg>> \notin OpenCells(cells)
      BY <1>1, <2>1 DEF InTurn, Outline
    <3> QED BY <1>1, <1>2, <1>3, <2>1, <3>1, ToolPushed DEF Sound
  <2>2. CASE e.t # "tool"
    <3> DEFINE s == FinishTool(cells, e.arg)
    <3>1. /\ Closes(s, cells) /\ \A i \in DOMAIN cells : s[i].text = cells[i].text
          /\ <<"tool", e.arg>> \notin OpenCells(s)
      BY <1>1, FinishedTool
    <3> HIDE DEF s
    <3>2. Orderly(s) /\ OpenCells(s) \subseteq OpenCells(cells)
      BY <1>1, <3>1, ClosesOrderly
    <3>3. WholeShown(printed, s, whole)
      BY <1>1, <3>1, WholeKept
    <3>4. cells' = s
      BY <1>2, <2>2 DEF s
    <3> QED BY <1>1, <1>2, <1>3, <2>2, <3>1, <3>2, <3>3, <3>4 DEF Sound
  <2> QED BY <2>1, <2>2
<1>7. (IF whole' = <<>> THEN 0 ELSE whole'[1].id) <= w.last
  BY <1>1, <1>2, <1>3 DEF Outline
<1>8. Within(Outline', w)
  BY <1>3, <1>4, <1>6, <1>7, OutlineAfter
<1> QED BY <1>1, <1>2, <1>4, <1>5, <1>6, <1>8, EventKept DEF e, w

\* The request and its end.
LEMMA OnRequestKept == ASSUME FrontInv, OnAsk \/ OnResolved PROVE FrontInv'
<1> DEFINE e == chan[1]  w == Shown(Outline, e)  o == [kind |-> "approval", arg |-> e.arg]
<1>1. /\ Taken /\ printed' = printed /\ e \in Event /\ e.t \in {"ask", "resolved"}
      /\ Arg = e.arg
      /\ ui \in Screens /\ Orderly(cells) /\ WholeShown(printed, cells, whole)
      /\ whole # <<>> => whole[1].id \in Nat
      /\ ui.overlay.kind = "efforts" => ui.reasoning
      /\ Outline.last \in Nat
  BY ReceiveIs DEF OnAsk, OnResolved
<1>2. /\ whole' = whole /\ cells' = cells /\ e.arg \in Nat
      /\ \/ e.t = "ask" /\ ui' = [ui EXCEPT !.overlay = o]
         \/ e.t = "resolved" /\ ui' = IF ui.overlay = o THEN [ui EXCEPT !.overlay = None] ELSE ui
  <2>1. e.arg \in Nat
    BY <1>1, EventArg
  <2>2. OnAsk => e.t = "ask" /\ ui' = [ui EXCEPT !.overlay = o]
    BY <1>1, ReceiveIs DEF OnAsk
  <2>3. OnResolved => e.t = "resolved" /\ ui' = IF ui.overlay = o THEN [ui EXCEPT !.overlay = None] ELSE ui
    BY <1>1, ReceiveIs DEF OnResolved
  <2> QED BY <2>1, <2>2, <2>3 DEF OnAsk, OnResolved
<1>3. /\ w.busy = ui.busy /\ w.compacting = ui.compacting /\ w.session = ui.session /\ w.plan = ui.plan
      /\ w.open = OpenCells(cells) /\ w.last = Outline.last
  BY <1>1, ShownCalm DEF Outline, Calm
<1>4. /\ o \in [kind : Overlays, arg : Nat] /\ o.kind = "approval" /\ o.arg = e.arg
      /\ None \in [kind : Overlays, arg : Nat] /\ None.kind = "none"
      /\ ui.overlay \in [kind : Overlays, arg : Nat]
  BY <1>1, <1>2 DEF Overlays, None, Screens
<1>5. ui.overlay.kind = "approval" /\ ui.overlay.arg = e.arg => ui.overlay = o
  BY <1>4
<1> HIDE DEF e, w, o
<1>6. /\ ui' \in Screens /\ ui'.reasoning = ui.reasoning
      /\ ui'.busy = ui.busy /\ ui'.compacting = ui.compacting /\ ui'.session = ui.session /\ ui'.plan = ui.plan
      /\ e.t = "ask" => ui'.overlay = o
      /\ e.t = "resolved" => ui'.overlay = IF ui.overlay = o THEN None ELSE ui.overlay
  BY <1>1, <1>2, <1>4 DEF Screens
<1>7. Overlaid
  <2>1. e.t = "ask" => ui'.overlay.kind = "approval" /\ ui'.overlay.arg = e.arg
    BY <1>4, <1>6
  <2>2. e.t = "resolved" =>
          /\ (ui'.overlay.kind = "approval") = (ui.overlay.kind = "approval" /\ ui.overlay.arg # e.arg)
          /\ ui'.overlay.kind = "approval" => ui'.overlay.arg = ui.overlay.arg
    BY <1>4, <1>5, <1>6
  <2> QED BY <1>1, <2>1, <2>2 DEF Overlaid, Over, e
<1>8. Sound' /\ OpenCells(cells') \subseteq w.open
  BY <1>1, <1>2, <1>3 DEF Sound
<1>9. (IF whole' = <<>> THEN 0 ELSE whole'[1].id) <= w.last
  BY <1>1, <1>2, <1>3 DEF Outline
<1>10. Within(Outline', w)
  BY <1>3, <1>6, <1>8, <1>9, OutlineAfter
<1>11. ui'.overlay.kind = "efforts" => ui'.reasoning
  BY <1>1, <1>4, <1>6
<1> QED BY <1>1, <1>2, <1>6, <1>7, <1>8, <1>10, <1>11, EventKept DEF e, w

LEMMA OnPlanKept == ASSUME FrontInv, OnPlan PROVE FrontInv'
<1> DEFINE e == chan[1]  w == Shown(Outline, e)
<1>1. /\ Taken /\ printed' = printed /\ e \in Event /\ e.t = "plan" /\ Arg = e.arg
      /\ ui \in Screens /\ Orderly(cells) /\ WholeShown(printed, cells, whole)
      /\ whole # <<>> => whole[1].id \in Nat
      /\ ui.overlay.kind = "efforts" => ui.reasoning
      /\ Outline.last \in Nat
  BY ReceiveIs DEF OnPlan
<1>2. whole' = whole /\ cells' = Push(cells) /\ e.arg \in Nat /\ ui' = [ui EXCEPT !.plan = e.arg]
  BY <1>1, EventArg DEF OnPlan
<1>3. /\ w.busy = ui.busy /\ w.compacting = ui.compacting /\ w.session = ui.session /\ w.plan = e.arg
      /\ w.open = OpenCells(cells) /\ w.last = Outline.last
  BY <1>1 DEF Outline, Shown, Streamed
<1>4. /\ ui' \in Screens /\ ui'.overlay = ui.overlay /\ ui'.reasoning = ui.reasoning
      /\ ui'.busy = ui.busy /\ ui'.compacting = ui.compacting /\ ui'.session = ui.session /\ ui'.plan = e.arg
  BY <1>1, <1>2 DEF Screens
<1>5. Overlaid
  BY <1>1, <1>4, OverlayLeft
<1> HIDE DEF e, w
<1>6. Sound' /\ OpenCells(cells') \subseteq w.open
  BY <1>1, <1>2, <1>3, Pushed DEF Sound
<1>7. (IF whole' = <<>> THEN 0 ELSE whole'[1].id) <= w.last
  BY <1>1, <1>2, <1>3 DEF Outline
<1>8. Within(Outline', w)
  BY <1>3, <1>4, <1>6, <1>7, OutlineAfter
<1> QED BY <1>1, <1>2, <1>4, <1>5, <1>6, <1>8, EventKept DEF e, w

LEMMA OnClearedKept == ASSUME FrontInv, OnCleared PROVE FrontInv'
<1> DEFINE e == chan[1]  w == Shown(Outline, e)
<1>1. /\ Taken /\ printed' = printed /\ e \in Event /\ e.t = "cleared"
      /\ ui \in Screens /\ Orderly(cells) /\ WholeShown(printed, cells, whole)
      /\ ui.overlay.kind = "efforts" => ui.reasoning
      /\ Outline.last \in Nat
  BY ReceiveIs DEF OnCleared
<1>2. PICK o \in {None, ui.overlay} :
        /\ ui' = [ui EXCEPT !.tools = FALSE, !.plan = 0, !.overlay = o]
        /\ o # ui.overlay => ui.overlay.kind \in {"toolList", "toolDetail"}
  BY DEF OnCleared, Over
<1>3. whole' = <<>> /\ cells' = <<Line>>
  BY DEF OnCleared
<1>4. /\ w.busy = ui.busy /\ w.compacting = ui.compacting /\ w.session = ui.session /\ w.plan = 0
      /\ w.open = OpenCells(cells) /\ w.last = Outline.last
  BY <1>1 DEF Outline, Shown, Streamed
<1>5. None \in [kind : Overlays, arg : Nat] /\ None.kind = "none" /\ ui.overlay \in [kind : Overlays, arg : Nat]
  BY <1>1 DEF Overlays, None, Screens
<1> HIDE DEF e, w
<1>6. /\ ui' \in Screens /\ ui'.overlay = o /\ ui'.reasoning = ui.reasoning
      /\ ui'.busy = ui.busy /\ ui'.compacting = ui.compacting /\ ui'.session = ui.session /\ ui'.plan = 0
  BY <1>1, <1>2, <1>5 DEF Screens
<1>7. \/ ui'.overlay = ui.overlay
      \/ ui.overlay.kind # "approval" /\ ui'.overlay.kind = "none"
  BY <1>2, <1>5, <1>6
<1>8. Overlaid
  BY <1>1, <1>7, OverlayLeft DEF e
<1>9. Sound' /\ OpenCells(cells') \subseteq w.open
  BY <1>3, <1>4, LineOnly DEF Sound
<1>10. (IF whole' = <<>> THEN 0 ELSE whole'[1].id) <= w.last
  BY <1>1, <1>3, <1>4
<1>11. Within(Outline', w)
  BY <1>4, <1>6, <1>9, <1>10, OutlineAfter
<1>12. ui'.overlay.kind = "efforts" => ui'.reasoning
  BY <1>1, <1>6, <1>7
<1> QED BY <1>1, <1>3, <1>6, <1>8, <1>9, <1>11, <1>12, EventKept DEF e, w

LEMMA OnSettledKept == ASSUME FrontInv, OnSettled PROVE FrontInv'
<1> DEFINE e == chan[1]  w == Shown(Outline, e)
<1>1. /\ Taken /\ printed' = printed /\ e \in Event /\ e.t = "settled"
      /\ ui \in Screens /\ Orderly(cells) /\ WholeShown(printed, cells, whole)
      /\ whole # <<>> => whole[1].id \in Nat
      /\ ui.overlay.kind = "efforts" => ui.reasoning
      /\ Outline.last \in Nat
  BY ReceiveIs DEF OnSettled
<1>2. whole' = whole /\ cells' = CloseOpenCells(cells) /\ ui' = [ui EXCEPT !.busy = FALSE, !.compacting = FALSE]
  BY DEF OnSettled
<1>3. /\ w.busy = FALSE /\ w.compacting = FALSE /\ w.session = ui.session /\ w.plan = ui.plan
      /\ w.open = {x \in OpenCells(cells) : x[1] \notin Streamed} /\ w.last = Outline.last
  BY <1>1 DEF Outline, Shown, Streamed
<1>4. /\ ui' \in Screens /\ ui'.overlay = ui.overlay /\ ui'.reasoning = ui.reasoning
      /\ ui'.busy = FALSE /\ ui'.compacting = FALSE /\ ui'.session = ui.session /\ ui'.plan = ui.plan
  BY <1>1, <1>2 DEF Screens
<1>5. Overlaid
  BY <1>1, <1>4, OverlayLeft
<1> HIDE DEF e, w
<1>6. Sound' /\ OpenCells(cells') \subseteq w.open
  BY <1>1, <1>2, <1>3, StreamClosed DEF Sound
<1>7. (IF whole' = <<>> THEN 0 ELSE whole'[1].id) <= w.last
  BY <1>1, <1>2, <1>3 DEF Outline
<1>8. Within(Outline', w)
  BY <1>3, <1>4, <1>6, <1>7, OutlineAfter
<1> QED BY <1>1, <1>2, <1>4, <1>5, <1>6, <1>8, EventKept DEF e, w

LEMMA EventsKept == ASSUME FrontInv, Events PROVE FrontInv'
BY OnSnapshotKept, OnPlainKept, OnCompactionKept, OnDeltaKept, OnFinishedKept, OnToolKept,
   OnRequestKept, OnPlanKept, OnClearedKept, OnSettledKept DEF Events

-----------------------------------------------------------------------------
(* The keys, and the commit of the history.                                *)

\* The worker, the channel and what is foreseen stay.
Still == UNCHANGED <<workVars, shared, plan, session, torn, chan, whole>>

LEMMA RequestsStill ==
  ASSUME RequestsKnown, Still,
         ui'.overlay.kind = "approval" => ui.overlay.kind = "approval" /\ ui'.overlay.arg = ui.overlay.arg,
         answer' = "none" => answer = "none",
         answer' = "none" /\ ui.overlay.kind = "approval" /\ ui.overlay.arg = shared.pending =>
           ui'.overlay.kind = "approval"
  PROVE  RequestsKnown'
<1>1. chan' = chan /\ shared' = shared /\ at' = at
  BY DEF Still, workVars
<1> QED BY <1>1 DEF RequestsKnown, Asks, Resolves, LastWord, Over

\* A step of the front end between events.
LEMMA KeyKept ==
  ASSUME FrontInv, Still, Sound', OpenCells(cells') \subseteq OpenCells(cells),
         ui' \in Screens, ui'.busy = ui.busy, ui'.compacting = ui.compacting,
         ui'.session = ui.session, ui'.plan = ui.plan,
         ui'.overlay.kind = "efforts" => ui'.reasoning,
         ui'.overlay.kind = "approval" => ui.overlay.kind = "approval" /\ ui'.overlay.arg = ui.overlay.arg,
         answer' \in {"none", "allow", "deny"}, answer' # "none" => at = "asking",
         answer' = "none" => answer = "none",
         answer' = "none" /\ ui.overlay.kind = "approval" /\ ui.overlay.arg = shared.pending =>
           ui'.overlay.kind = "approval",
         keys' \in Nat, sending' \in SUBSET (Commands \X Nat)
  PROVE  FrontInv'
<1>1. FrontTypes /\ WorkerPlaced /\ RequestsKnown /\ Ahead
  BY DEF FrontInv
<1>2. FrontTypes'
  BY <1>1 DEF FrontTypes, Still, workVars
<1>3. WorkerPlaced'
  BY <1>1 DEF WorkerPlaced, Still, workVars, ToolId
<1>4. RequestsKnown'
  BY <1>1, RequestsStill
<1>5. PICK z : Coming(Outline, chan, z) /\ Foreseen(z)
  BY <1>1 DEF Ahead
<1>6. Outline'.last = Outline.last /\ Outline.last \in Nat
  BY <1>1, OutlineLast DEF Still, Outline
<1>7. Within(Outline', Outline)
  BY <1>6 DEF Within, Outline
<1>8. Coming(Outline', chan, z)
  BY <1>1, <1>5, <1>6, <1>7, ComingLess DEF FrontTypes
<1>9. Foreseen(z)'
  <2>1. \A x \in z.open : Owed(x)'
    BY <1>5 DEF Foreseen, Owed, Lost, ToolId, Still, workVars
  <2> QED BY <1>5, <2>1 DEF Foreseen, Still, workVars
<1>10. Ahead'
  BY <1>8, <1>9 DEF Ahead, Still
<1> QED BY <1>2, <1>3, <1>4, <1>10 DEF FrontInv, Sound, Over

\* What a key finds.
LEMMA PressIs ==
  ASSUME FrontInv, NEW k, Press(k)
  PROVE  /\ Still /\ printed' = printed /\ keys' \in Nat
         /\ Orderly(cells) /\ WholeShown(printed, cells, whole)
         /\ \A c \in Commands : <<c, keys>> \in Commands \X Nat
         /\ sending \in SUBSET (Commands \X Nat)
         /\ answer \in {"none", "allow", "deny"} /\ (answer # "none" => at = "asking")
         /\ ui \in Screens /\ (ui.overlay.kind = "efforts" => ui.reasoning)
BY DEF FrontInv, FrontTypes, WorkerPlaced, Press, Still, Over

\* The screen with another overlay.
LEMMA Reopened ==
  ASSUME ui \in Screens, NEW o \in [kind : Overlays, arg : Nat], NEW r \in BOOLEAN
  PROVE  LET s == [ui EXCEPT !.overlay = o, !.reasoning = r] IN
         /\ s \in Screens /\ s.busy = ui.busy /\ s.compacting = ui.compacting /\ s.session = ui.session
         /\ s.plan = ui.plan /\ s.overlay = o /\ s.reasoning = r
BY DEF Screens

LEMMA OpenIs ==
  ASSUME ui \in Screens, NEW kind \in Overlays \ {"approval", "efforts"}
  PROVE  /\ Open(kind) \in Screens /\ Open(kind).busy = ui.busy /\ Open(kind).compacting = ui.compacting
         /\ Open(kind).session = ui.session /\ Open(kind).plan = ui.plan /\ Open(kind).overlay.kind = kind
BY DEF Open, Screens

LEMMA NoneIs == None \in [kind : Overlays, arg : Nat] /\ None.kind = "none"
BY DEF None, Overlays

\* A key that leaves the requests alone.
LEMMA PlainKeyKept ==
  ASSUME FrontInv, NEW k, Press(k), answer' = answer,
         cells' = cells \/ cells' = Push(cells),
         ui' \in Screens, ui'.busy = ui.busy, ui'.compacting = ui.compacting,
         ui'.session = ui.session, ui'.plan = ui.plan,
         ui'.overlay.kind = "efforts" => ui'.reasoning,
         \/ ui'.overlay = ui.overlay
         \/ ui.overlay.kind # "approval" /\ ui'.overlay.kind # "approval",
         sending' = sending \/ \E c \in Commands : sending' = sending \cup {<<c, keys>>}
  PROVE  FrontInv'
<1>1. /\ Still /\ printed' = printed /\ keys' \in Nat
      /\ Orderly(cells) /\ WholeShown(printed, cells, whole)
      /\ \A c \in Commands : <<c, keys>> \in Commands \X Nat
      /\ sending \in SUBSET (Commands \X Nat)
      /\ answer \in {"none", "allow", "deny"} /\ (answer # "none" => at = "asking")
  BY PressIs
<1>2. sending' \in SUBSET (Commands \X Nat)
  BY <1>1
<1>3. whole' = whole
  BY <1>1 DEF Still
<1>4. Sound' /\ OpenCells(cells') \subseteq OpenCells(cells)
  BY <1>1, <1>3, Pushed DEF Sound
<1> QED BY <1>1, <1>2, <1>4, KeyKept

LEMMA TypedKeysKept ==
  ASSUME FrontInv, KeyText \/ KeyQueue \/ \E c \in {"clear", "compact", "load", "input"} : KeyCommand(c)
  PROVE  FrontInv'
<1>1. ui \in Screens /\ (ui.overlay.kind = "efforts" => ui.reasoning) /\ ui' = ui /\ answer' = answer
  BY PressIs DEF KeyText, KeyQueue, KeyCommand
<1>2. PICK k : Press(k)
  BY DEF KeyText, KeyQueue, KeyCommand
<1>3. cells' = cells \/ cells' = Push(cells)
  BY DEF KeyText, KeyQueue, KeyCommand
<1>4. \E c \in Commands : sending' = sending \cup {<<c, keys>>}
  BY DEF KeyText, KeyQueue, KeyCommand, Submit, Commands
<1> QED BY <1>1, <1>2, <1>3, <1>4, PlainKeyKept

LEMMA PickerKeysKept ==
  ASSUME FrontInv, KeySession \/ KeyModel \/ KeyTools PROVE FrontInv'
<1>1. PICK k : Press(k)
  BY DEF KeySession, KeyModel, KeyTools
<1>2. ui \in Screens /\ (ui.overlay.kind = "efforts" => ui.reasoning)
  BY <1>1, PressIs
<1>3. answer' = answer /\ ui.overlay = None
  BY DEF KeySession, KeyModel, KeyTools, Closed
<1>4. cells' = cells \/ cells' = Push(cells)
  BY DEF KeySession, KeyModel, KeyTools
<1>5. sending' = sending \/ \E c \in Commands : sending' = sending \cup {<<c, keys>>}
  BY DEF KeySession, KeyModel, KeyTools, Submit, Commands
<1>6. /\ ui' \in Screens /\ ui'.busy = ui.busy /\ ui'.compacting = ui.compacting
      /\ ui'.session = ui.session /\ ui'.plan = ui.plan
      /\ ui'.overlay.kind = "efforts" => ui'.reasoning
      /\ ui'.overlay.kind # "approval"
  <2>1. CASE \E kind \in {"loading", "models", "toolDetail"} : ui' = Open(kind)
    BY <1>2, <2>1, OpenIs DEF Overlays
  <2>2. CASE ui' = [Open("efforts") EXCEPT !.reasoning = TRUE]
    BY <1>2, <2>2 DEF Open, Screens, Overlays
  <2>3. CASE ui' = ui
    BY <1>2, <1>3, <2>3, NoneIs
  <2> QED BY <2>1, <2>2, <2>3 DEF KeySession, KeyModel, KeyTools
<1>7. ui.overlay.kind # "approval"
  BY <1>3, NoneIs
<1> QED BY <1>1, <1>3, <1>4, <1>5, <1>6, <1>7, PlainKeyKept

LEMMA AcceptKept == ASSUME FrontInv, Accept PROVE FrontInv'
<1>1. PICK k : Press(k)
  BY DEF Accept
<1>2. ui \in Screens /\ (ui.overlay.kind = "efforts" => ui.reasoning) /\ ui.overlay.kind \in {"models", "efforts", "sessions"}
  BY <1>1, PressIs DEF Accept, Over
<1>3. answer' = answer /\ cells' = cells
  BY DEF Accept
<1>4. sending' = sending \/ \E c \in Commands : sending' = sending \cup {<<c, keys>>}
  <2>1. "load" \in Commands /\ "model" \in Commands
    BY DEF Commands
  <2> QED BY <1>2, <2>1 DEF Accept, Over, Submit
<1>5. \/ ui' = [Open("efforts") EXCEPT !.reasoning = TRUE]
      \/ ui' = [ui EXCEPT !.overlay = None]
      \/ ui' = [ui EXCEPT !.overlay = None, !.reasoning = FALSE]
  BY <1>2 DEF Accept, Over
<1>6. /\ ui' \in Screens /\ ui'.busy = ui.busy /\ ui'.compacting = ui.compacting
      /\ ui'.session = ui.session /\ ui'.plan = ui.plan
      /\ ui'.overlay.kind = "efforts" => ui'.reasoning
      /\ ui'.overlay.kind # "approval"
  <2>1. CASE ui' = [Open("efforts") EXCEPT !.reasoning = TRUE]
    BY <1>2, <2>1 DEF Open, Screens, Overlays
  <2>2. CASE ui' = [ui EXCEPT !.overlay = None]
    BY <1>2, <2>2, NoneIs DEF Screens
  <2>3. CASE ui' = [ui EXCEPT !.overlay = None, !.reasoning = FALSE]
    BY <1>2, <2>3, NoneIs DEF Screens
  <2> QED BY <1>5, <2>1, <2>2, <2>3
<1> QED BY <1>1, <1>2, <1>3, <1>4, <1>6, PlainKeyKept

LEMMA StopKeysKept == ASSUME FrontInv, KeyEsc \/ KeyCtrlC PROVE FrontInv'
<1>1. PICK k : Press(k)
  BY DEF KeyEsc, KeyCtrlC
<1>2. ui \in Screens /\ (ui.overlay.kind = "efforts" => ui.reasoning)
  BY <1>1, PressIs
<1>3. answer' = answer /\ cells' = cells /\ sending' = sending /\ ui.overlay.kind # "approval"
  BY NoneIs DEF KeyEsc, KeyCtrlC, Closed, Over
<1>4. \/ ui' = ui
      \/ ui' = [ui EXCEPT !.overlay = None, !.reasoning = FALSE]
  BY DEF KeyEsc, KeyCtrlC
<1>5. /\ ui' \in Screens /\ ui'.busy = ui.busy /\ ui'.compacting = ui.compacting
      /\ ui'.session = ui.session /\ ui'.plan = ui.plan
      /\ ui'.overlay.kind = "efforts" => ui'.reasoning
      /\ ui'.overlay.kind # "approval"
  <2>1. CASE ui' = ui
    BY <1>2, <1>3, <2>1
  <2>2. CASE ui' = [ui EXCEPT !.overlay = None, !.reasoning = FALSE]
    BY <1>2, <2>2, NoneIs DEF Screens
  <2> QED BY <1>4, <2>1, <2>2
<1> QED BY <1>1, <1>3, <1>5, PlainKeyKept

\* An answer closes the request on screen, and is taken for the pending one.
LEMMA DecideKept ==
  ASSUME FrontInv, NEW k, NEW a \in {"allow", "deny"}, Decide(k, a) PROVE FrontInv'
<1>1. /\ Still /\ printed' = printed /\ keys' \in Nat
      /\ Orderly(cells) /\ WholeShown(printed, cells, whole)
      /\ sending \in SUBSET (Commands \X Nat)
      /\ answer \in {"none", "allow", "deny"} /\ (answer # "none" => at = "asking")
      /\ ui \in Screens /\ (ui.overlay.kind = "efforts" => ui.reasoning)
  BY PressIs DEF Decide
<1>2. /\ ui' = [ui EXCEPT !.overlay = None] /\ ui.overlay.kind = "approval"
      /\ answer' = IF shared.pending = ui.overlay.arg /\ answer = "none" THEN a ELSE answer
      /\ cells' = cells /\ sending' = sending
  BY DEF Decide, Over
<1>3. /\ ui' \in Screens /\ ui'.busy = ui.busy /\ ui'.compacting = ui.compacting
      /\ ui'.session = ui.session /\ ui'.plan = ui.plan /\ ui'.overlay.kind = "none"
  BY <1>1, <1>2, NoneIs DEF Screens
<1>4. ui.overlay.arg # 0
  BY <1>2 DEF FrontInv, RequestsKnown, Over
<1>5. shared.pending # 0 => at = "asking"
  BY DEF FrontInv, WorkerPlaced
<1>6. /\ answer' \in {"none", "allow", "deny"} /\ (answer' # "none" => at = "asking")
      /\ answer' = "none" => answer = "none" /\ ui.overlay.arg # shared.pending
  BY <1>1, <1>2, <1>4, <1>5
<1>7. Sound' /\ OpenCells(cells') \subseteq OpenCells(cells)
  BY <1>1, <1>2 DEF Sound, Still
<1> QED BY <1>1, <1>2, <1>3, <1>6, <1>7, KeyKept

LEMMA FrameKept == ASSUME FrontInv, ReadKeys \/ Disarm PROVE FrontInv'
<1>1. Still /\ UNCHANGED <<cells, ui, printed, answer, keys, sending>>
  BY DEF ReadKeys, Disarm, Still, factVars
<1>2. /\ Orderly(cells) /\ WholeShown(printed, cells, whole)
      /\ sending \in SUBSET (Commands \X Nat) /\ keys \in Nat
      /\ answer \in {"none", "allow", "deny"} /\ (answer # "none" => at = "asking")
      /\ ui \in Screens /\ (ui.overlay.kind = "efforts" => ui.reasoning)
  BY DEF FrontInv, FrontTypes, WorkerPlaced, Over
<1>3. Sound' /\ OpenCells(cells') \subseteq OpenCells(cells)
  BY <1>1, <1>2 DEF Sound, Still
<1> QED BY <1>1, <1>2, <1>3, KeyKept

LEMMA CommitHistoryKept == ASSUME FrontInv, CommitHistory PROVE FrontInv'
<1>1. /\ Still /\ UNCHANGED <<ui, answer, keys, sending>>
      /\ cells' = Kept(cells) /\ printed' = LastPiece(printed, Drained(cells))
  BY DEF CommitHistory, Still, factVars
<1>2. /\ Orderly(cells) /\ WholeShown(printed, cells, whole)
      /\ sending \in SUBSET (Commands \X Nat) /\ keys \in Nat
      /\ answer \in {"none", "allow", "deny"} /\ (answer # "none" => at = "asking")
      /\ ui \in Screens /\ (ui.overlay.kind = "efforts" => ui.reasoning)
  BY DEF FrontInv, FrontTypes, WorkerPlaced, Over
<1>3. /\ Orderly(cells') /\ OpenCells(cells') \subseteq OpenCells(cells)
      /\ LastPiece(printed', cells') = LastPiece(printed, cells)
  BY <1>1, <1>2, Commits
<1>4. Sound'
  BY <1>1, <1>2, <1>3 DEF Sound, Still, WholeShown
<1> QED BY <1>1, <1>2, <1>3, <1>4, KeyKept

LEMMA UiKept == ASSUME FrontInv, Ui PROVE FrontInv'
BY EventsKept, TypedKeysKept, PickerKeysKept, AcceptKept, StopKeysKept, DecideKept, FrameKept,
   CommitHistoryKept DEF Ui

-----------------------------------------------------------------------------
(* The theorems.                                                           *)

LEMMA FrontStart == Init => FrontInv
<1> SUFFICES ASSUME Init PROVE FrontInv
  OBVIOUS
<1> USE FrontEndAssumption
<1>1. FrontTypes
  <2>1. ui \in Screens
    BY DEF Init, Screens, Session, Overlays, None
  <2>2. shared \in Shots /\ plan \in [Session -> Nat] /\ session \in Session
    BY DEF Init, Shots, Phases, Session
  <2>3. call \in [Call -> Stages] /\ at \in Places /\ said \in Text
    BY DEF Init, Stages, Places, Text
  <2>4. /\ round \in Nat /\ extra \in Nat /\ keys \in Nat /\ torn \in BOOLEAN /\ sending \in SUBSET (Commands \X Nat)
        /\ answer \in {"none", "allow", "deny"} /\ whole = <<>>
    BY DEF Init
  <2>5. chan \in Seq(Event)
    BY DEF Init
  <2> QED BY <2>1, <2>2, <2>3, <2>4, <2>5 DEF FrontTypes
<1>2. WorkerPlaced
  BY DEF Init, WorkerPlaced
<1>3. RequestsKnown
  BY DEF Init, RequestsKnown, Over, None
<1>4. Orderly(cells) /\ WholeShown(printed, cells, whole) /\ OpenCells(cells) = {}
  BY LineOnly DEF Init
<1>5. Coming(Outline, chan, Outline)
  BY <1>1, OutlineLast, ComingFirst DEF Init
<1>6. Foreseen(Outline)
  <2>1. plan[session] = 0 /\ session = 1
    BY DEF Init, Session
  <2>2. /\ Outline.busy = FALSE /\ Outline.compacting = FALSE /\ Outline.session = 1 /\ Outline.plan = 0
        /\ Outline.open = {} /\ Outline.last = 0
    BY <1>4 DEF Init, Outline
  <2>3. shared.phase = "idle" /\ at = "idle" /\ round = 0
    BY DEF Init
  <2> DEFINE z == Outline
  <2>4. z.busy = (shared.phase # "idle") /\ z.compacting = (shared.phase = "compacting")
    BY <2>2, <2>3
  <2>5. z.last \in Nat /\ z.last <= round /\ z.open = {} /\ z.session = session /\ z.plan = plan[session]
    BY <2>1, <2>2, <2>3
  <2> HIDE DEF z
  <2>6. Foreseen(z)
    BY <2>3, <2>4, <2>5 DEF Foreseen
  <2> QED BY <2>6 DEF z
<1> QED BY <1>1, <1>2, <1>3, <1>4, <1>5, <1>6 DEF Init, FrontInv, Ahead, Over, None

LEMMA FrontStep == FrontInv /\ [Next]_vars => FrontInv'
<1> SUFFICES ASSUME FrontInv, [Next]_vars PROVE FrontInv'
  OBVIOUS
<1>1. CASE Next
  BY <1>1, WorkerKept, UiKept DEF Next
<1>2. CASE UNCHANGED vars
  <2>1. Still /\ UNCHANGED <<cells, ui, printed, answer, keys, sending>>
    BY <1>2 DEF vars, workVars, factVars, uiVars, Still
  <2>2. /\ Orderly(cells) /\ WholeShown(printed, cells, whole)
        /\ sending \in SUBSET (Commands \X Nat) /\ keys \in Nat
        /\ answer \in {"none", "allow", "deny"} /\ (answer # "none" => at = "asking")
        /\ ui \in Screens /\ (ui.overlay.kind = "efforts" => ui.reasoning)
    BY DEF FrontInv, FrontTypes, WorkerPlaced, Over
  <2>3. Sound' /\ OpenCells(cells') \subseteq OpenCells(cells)
    BY <2>1, <2>2 DEF Sound, Still
  <2> QED BY <2>1, <2>2, <2>3, KeyKept
<1> QED BY <1>1, <1>2

\* With no event left the screen is within what was foreseen.
LEMMA CaughtUpNow ==
  ASSUME FrontInv, CaughtUp
  PROVE  \E z : Foreseen(z) /\ Within(Outline, z)
<1>1. PICK z : Coming(Outline, chan, z) /\ Foreseen(z)
  BY DEF FrontInv, Ahead
<1> QED BY <1>1, ComingNow DEF CaughtUp

LEMMA FrontScreen == FrontInv => ScreenSound
<1> SUFFICES ASSUME FrontInv, CaughtUp
             PROVE  /\ ui.busy = (shared.phase # "idle")
                    /\ ui.compacting = (shared.phase = "compacting")
                    /\ Over({"approval"}) => ui.overlay.arg = shared.pending
                    /\ at = "asking" /\ answer = "none" => Over({"approval"})
                    /\ at = "idle" => ui.session = session /\ ui.plan = plan[session]
                    /\ Over({"efforts"}) => ui.reasoning
  BY DEF ScreenSound
<1>1. PICK z : Foreseen(z) /\ Within(Outline, z)
  BY CaughtUpNow
<1>2. /\ ui.busy = (shared.phase # "idle") /\ ui.compacting = (shared.phase = "compacting")
      /\ at = "idle" => ui.session = session /\ ui.plan = plan[session]
  BY <1>1 DEF Foreseen, Within, Outline
<1>3. /\ Over({"approval"}) => ui.overlay.arg = shared.pending
      /\ at = "asking" /\ answer = "none" => Over({"approval"})
  <2>1. DOMAIN chan = {}
    BY DEF CaughtUp
  <2> QED BY <2>1 DEF FrontInv, RequestsKnown
<1> QED BY <1>2, <1>3 DEF FrontInv

LEMMA FrontClosed == FrontInv => NothingStaysOpen
<1> SUFFICES ASSUME FrontInv, CaughtUp, at = "idle", ~torn, NEW i \in DOMAIN cells, cells[i].open PROVE FALSE
  BY DEF NothingStaysOpen
<1>1. PICK z : Foreseen(z) /\ Within(Outline, z)
  BY CaughtUpNow
<1> DEFINE x == <<cells[i].kind, cells[i].id>>
<1>2. x \in OpenCells(cells) /\ x[1] = cells[i].kind
  BY DEF OpenCells
<1> HIDE DEF x
<1>3. Owed(x)
  BY <1>1, <1>2 DEF Foreseen, Within, Outline
<1> QED BY <1>3 DEF Owed, Lost

\* With every event applied the screen shows the session it is attached to: ready,
\* compacting and asking exactly as the worker is, and in an idle session the plan
\* and the session of the facts (tui/mod.rs, on_session_event).
THEOREM ScreenAlways == Spec => []ScreenSound
BY FrontStart, FrontStep, FrontScreen, PTL DEF Spec

\* The answer of the model ends up whole in front of the user: the last piece of it
\* in the transcript or the scrollback is the text of the finished message
\* (tui/transcript.rs, finalize_assistant and drain_finalized_lines).
THEOREM WholeAlways == Spec => []ShownWhole
<1>1. FrontInv => ShownWhole
  BY DEF FrontInv, WholeShown, ShownWhole, Piece
<1> QED BY <1>1, FrontStart, FrontStep, PTL DEF Spec

\* A settled session leaves no cell open, unless a commit failed that deferred tool
\* results waited for (tui/mod.rs, close_open_cells, finish_tool).
THEOREM NothingOpenAlways == Spec => []NothingStaysOpen
BY FrontStart, FrontStep, FrontClosed, PTL DEF Spec
=============================================================================
