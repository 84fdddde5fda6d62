------------------------ MODULE SessionRuntimeProofs ------------------------
(***************************************************************************)
(* Theorems about SessionRuntime for every set of commands, every channel  *)
(* capacity and every bound on rounds.                                     *)
(***************************************************************************)
EXTENDS SessionRuntime, Functions, SequenceTheorems, TLAPS

-----------------------------------------------------------------------------
(* A queue as the set of what waits in it.                                 *)

\* The empty queue holds nothing, and only the empty queue does.
LEMMA RangeEmpty ==
    ASSUME NEW S, NEW q \in Seq(S)
    PROVE  /\ Range(q) \subseteq S
           /\ Range(q) = {} <=> q = <<>>
  BY DEF Range

\* The empty queue holds nothing.
LEMMA EmptyQueue == Range(<<>>) = {} /\ IsInjective(<<>>)
  BY DEF Range, IsInjective

\* Appending adds one element.
LEMMA RangeAppend ==
    ASSUME NEW S, NEW q \in Seq(S), NEW e \in S
    PROVE  Range(Append(q, e)) = Range(q) \cup {e}
<1> DEFINE r == Append(q, e)
<1>1. /\ DOMAIN r = 1 .. Len(q) + 1
      /\ \A i \in 1 .. Len(q) : r[i] = q[i]
      /\ r[Len(q) + 1] = e
      /\ DOMAIN q = 1 .. Len(q)
  BY AppendProperties
<1>2. Range(r) \subseteq Range(q) \cup {e}
  BY <1>1, LenProperties DEF Range
<1>3. Range(q) \subseteq Range(r)
  <2> SUFFICES ASSUME NEW i \in 1 .. Len(q) PROVE q[i] \in Range(r)
    BY <1>1 DEF Range
  <2> QED BY <1>1, LenProperties, i \in DOMAIN r DEF Range
<1>4. e \in Range(r)
  BY <1>1, LenProperties DEF Range
<1> QED BY <1>2, <1>3, <1>4

\* A new element keeps the queue free of repetition.
LEMMA InjectiveAppend ==
    ASSUME NEW S, NEW q \in Seq(S), NEW e \in S, IsInjective(q), e \notin Range(q)
    PROVE  IsInjective(Append(q, e))
  BY AppendProperties, LenProperties DEF IsInjective, Range

\* The head leaves, and with it every occurrence of it.
LEMMA RangeTail ==
    ASSUME NEW S, NEW q \in Seq(S), q # <<>>, IsInjective(q)
    PROVE  /\ Head(q) \in S
           /\ Head(q) \in Range(q)
           /\ Tail(q) \in Seq(S)
           /\ Range(Tail(q)) = Range(q) \ {Head(q)}
           /\ IsInjective(Tail(q))
<1> DEFINE t == Tail(q)
<1>1. /\ Head(q) = q[1]
      /\ Len(q) \in Nat \ {0}
      /\ DOMAIN q = 1 .. Len(q)
      /\ t \in Seq(S)
      /\ DOMAIN t = 1 .. Len(q) - 1
      /\ \A i \in 1 .. Len(q) - 1 : t[i] = q[i + 1]
  BY HeadTailProperties, LenProperties
<1>2. IsInjective(t)
  BY <1>1 DEF IsInjective
<1>3. \A i \in 1 .. Len(q) - 1 : t[i] \in Range(q) /\ t[i] # Head(q)
  BY <1>1 DEF IsInjective, Range
<1>4. \A i \in 1 .. Len(q) : q[i] # Head(q) => q[i] \in Range(t)
  <2> SUFFICES ASSUME NEW i \in 1 .. Len(q), q[i] # Head(q) PROVE q[i] \in Range(t)
    OBVIOUS
  <2>1. i - 1 \in 1 .. Len(q) - 1 /\ t[i - 1] = q[i]
    BY <1>1
  <2> QED BY <2>1, <1>1 DEF Range
<1>5. Range(t) = Range(q) \ {Head(q)}
  BY <1>1, <1>3, <1>4 DEF Range
<1>6. Head(q) \in Range(q) /\ Head(q) \in S
  BY <1>1 DEF Range
<1> QED BY <1>1, <1>2, <1>5, <1>6

-----------------------------------------------------------------------------
(* Type correctness.                                                       *)

\* The initial state is well typed.
LEMMA TypeInit == Init => TypeOK
<1>1. /\ <<>> \in Seq(Command)
      /\ [c \in Command |-> <<>>] \in [Command -> Seq(Statuses)]
  BY EmptySeq
<1>2. ASSUME Init PROVE TypeOK
  <2>1. /\ caller \in [Command -> {"idle", "called", "signalled", "sent"}]
        /\ admission \in [Command -> {"none"} \cup Answers]
        /\ terminals \in [Command -> Seq(Statuses)]
    BY <1>1, <1>2 DEF Init
  <2>2. /\ chan \in Seq(Command) /\ steering \in Seq(Command) /\ followUp \in Seq(Command)
        /\ phase \in Phases /\ worker \in Points /\ cur \in Command \cup {None}
    BY <1>1, <1>2 DEF Init, Phases, Points
  <2> QED BY <1>2, <2>1, <2>2 DEF Init, TypeOK
<1> QED BY <1>2

\* What a report does to the terminals.
LEMMA EmitTyped ==
    ASSUME TypeOK, NEW c, NEW status \in Statuses, Emit(c, status)
    PROVE  terminals' \in [Command -> Seq(Statuses)]
<1>1. ASSUME c \in Command PROVE Append(terminals[c], status) \in Seq(Statuses)
  BY <1>1, AppendProperties DEF TypeOK
<1> QED BY <1>1 DEF TypeOK, Emit

\* The next round is a number, and so is the next settlement.
LEMMA CountersTyped == TypeOK => round + 1 \in Nat /\ settled + 1 \in Nat
  BY DEF TypeOK

\* Every step keeps the types; a run needs to know that it has a command.
LEMMA TypeStep == TypeOK /\ CurrentOnce /\ [Next]_vars => TypeOK'
<1> SUFFICES ASSUME TypeOK, CurrentOnce, [Next]_vars PROVE TypeOK'
  OBVIOUS
<1> USE DEF TypeOK, Points, RunPoints, PollPoints, Goto, callVars, frontVars, queueVars,
            reportVars, flagVars, eventVars, sharedVars
<1>1. ASSUME NEW c \in Command, Call(c) PROVE TypeOK'
  BY <1>1 DEF Call, workerVars
<1>2. ASSUME NEW c \in Command, Signal(c) PROVE TypeOK'
  BY <1>2 DEF Signal, workerVars
<1>3. ASSUME NEW c \in Command, Send(c) PROVE TypeOK'
  BY <1>3 DEF Send, workerVars
<1>4. ASSUME NEW c \in Command, SendFails(c) PROVE TypeOK'
  BY <1>4 DEF SendFails, workerVars, Answers
<1>5. CASE DropControllers
  <2>1. held' \in BOOLEAN
    BY <1>5 DEF DropControllers
  <2>2. UNCHANGED <<caller, chan, admission, cancel, connected, phase, disconnected, worker,
                    cur, round>>
    BY <1>5 DEF DropControllers, workerVars
  <2>3. UNCHANGED <<steering, followUp, processed, dropped, control, cancelled, failed,
                    stopping, unread, terminals, settled>>
    BY <1>5 DEF DropControllers, workerVars
  <2> QED BY <2>1, <2>2, <2>3
<1>6. CASE DropEvents
  <2>1. connected' \in BOOLEAN /\ cancel' \in BOOLEAN
    BY <1>6 DEF DropEvents
  <2>2. UNCHANGED <<caller, chan, admission, held, phase, disconnected, worker, cur, round>>
    BY <1>6 DEF DropEvents, workerVars
  <2>3. UNCHANGED <<steering, followUp, processed, dropped, control, cancelled, failed,
                    stopping, unread, terminals, settled>>
    BY <1>6 DEF DropEvents, workerVars
  <2> QED BY <2>1, <2>2, <2>3
<1>7. CASE Recv
  BY <1>7, HeadTailProperties DEF Recv
<1>8. CASE RecvClosed
  BY <1>8 DEF RecvClosed
<1>9. CASE UpdateLive
  BY <1>9 DEF UpdateLive, CommandPhase, Phases
<1>10. CASE Admit
  BY <1>10 DEF Admit, Accept, Answers
<1>11. CASE HandleInput
  BY <1>11 DEF HandleInput, CurrentOnce, AtWork
<1>12. CASE HandleControl
  BY <1>12 DEF HandleControl
<1>13. CASE HandleCompact
  BY <1>13 DEF HandleCompact
<1>14. CASE CompactReturns
  BY <1>14 DEF CompactReturns, Phases
<1>15. CASE HandleMutate
  BY <1>15 DEF HandleMutate
<1>. USE DEF runFrame, quiet
<1>16. CASE StartRound
  BY <1>16 DEF StartRound, Finish
<1>17. CASE PreparePrompt
  <2>1. /\ worker' \in Points /\ unread' \in SUBSET Command /\ round' = round
        /\ cancelled' \in BOOLEAN /\ failed' \in BOOLEAN
    BY <1>17 DEF PreparePrompt, FailRun, Finish
  <2> QED BY <1>17, <2>1 DEF PreparePrompt
<1>18. CASE ModelReturns
  <2>1. /\ worker' \in Points /\ unread' = unread /\ round' = round
        /\ cancelled' \in BOOLEAN /\ failed' \in BOOLEAN
    BY <1>18 DEF ModelReturns, FailRun, Finish
  <2> QED BY <1>18, <2>1 DEF ModelReturns
<1>19. CASE InterceptStop
  <2>1. round' \in Nat
    BY <1>19, CountersTyped DEF InterceptStop, FailRun, Finish, NextRound
  <2>2. /\ worker' \in Points /\ unread' = unread
        /\ cancelled' \in BOOLEAN /\ failed' \in BOOLEAN
    BY <1>19 DEF InterceptStop, FailRun, Finish, NextRound
  <2> QED BY <1>19, <2>1, <2>2 DEF InterceptStop
<1>20. CASE Absorb
  <2>1. Head(chan) \in Command /\ Tail(chan) \in Seq(Command)
    BY <1>20, HeadTailProperties DEF Absorb
  <2>2. admission' \in [Command -> {"none"} \cup Answers]
    BY <1>20, <2>1 DEF Absorb, Accept, Reject, Answers
  <2> QED BY <1>20, <2>1, <2>2, AppendProperties DEF Absorb
<1>21. CASE AfterStop
  <2>1. round' \in Nat
    BY <1>21, CountersTyped DEF AfterStop, FailRun, Finish, NextRound
  <2>2. /\ worker' \in Points /\ unread' = unread
        /\ cancelled' \in BOOLEAN /\ failed' \in BOOLEAN
    BY <1>21 DEF AfterStop, FailRun, Finish, NextRound
  <2> QED BY <1>21, <2>1, <2>2 DEF AfterStop
<1>22. CASE TakeInput
  <2>1. round' \in Nat
    BY <1>22, CountersTyped DEF TakeInput, CommitInput, FailRun, Finish, NextRound
  <2>2. /\ steering # <<>> => Head(steering) \in Command /\ Tail(steering) \in Seq(Command)
        /\ followUp # <<>> => Head(followUp) \in Command /\ Tail(followUp) \in Seq(Command)
    BY HeadTailProperties
  <2>3. /\ worker' \in Points /\ unread' \in SUBSET Command
        /\ cancelled' \in BOOLEAN /\ failed' \in BOOLEAN
    BY <1>22, <2>2 DEF TakeInput, CommitInput, FailRun, Finish, NextRound
  <2> QED BY <1>22, <2>1, <2>2, <2>3 DEF TakeInput
<1>23. CASE AskApproval
  BY <1>23 DEF AskApproval, Phases
<1>24. CASE ApprovalResolved
  BY <1>24 DEF ApprovalResolved, Phases
<1>25. CASE ToolsDone
  BY <1>25 DEF ToolsDone, FailRun, Finish
<1>26. CASE InjectSteering
  <2>1. round' \in Nat
    BY <1>26, CountersTyped DEF InjectSteering, CommitInput, FailRun, Finish, NextRound
  <2>2. steering # <<>> => Head(steering) \in Command /\ Tail(steering) \in Seq(Command)
    BY HeadTailProperties
  <2>3. /\ worker' \in Points /\ unread' \in SUBSET Command
        /\ cancelled' \in BOOLEAN /\ failed' \in BOOLEAN
    BY <1>26, <2>2 DEF InjectSteering, CommitInput, FailRun, Finish, NextRound
  <2> QED BY <1>26, <2>1, <2>2, <2>3 DEF InjectSteering
<1>27. CASE RepairPlan
  BY <1>27 DEF RepairPlan
<1>28. CASE DropQueues
  BY <1>28, RangeEmpty DEF DropQueues, Unreached
<1>. USE DEF reportFrame, Leave
<1>29. CASE FinishMain
  <2>1. terminals' \in [Command -> Seq(Statuses)]
    BY <1>29, EmitTyped DEF FinishMain, RunStatus, Statuses
  <2> QED BY <1>29, <2>1 DEF FinishMain
<1>30. CASE ReportResults
  <2>1. CASE ReportOne /\ UNCHANGED <<worker, cancel>>
    <3>1. terminals' \in [Command -> Seq(Statuses)]
      BY <2>1, EmitTyped DEF ReportOne, RunStatus, Statuses
    <3> QED BY <1>30, <2>1, <3>1 DEF ReportResults, ReportOne
  <2>2. CASE UNCHANGED <<reportVars, terminals>>
    BY ZenonT(30), <1>30, <2>2 DEF ReportResults
  <2> QED BY <1>30, <2>1, <2>2 DEF ReportResults
<1>31. CASE PublishSnapshot
  BY <1>31 DEF PublishSnapshot, Phases
<1>32. CASE Settle
  BY <1>32, CountersTyped DEF Settle
<1>33. CASE MarkDisconnected
  BY <1>33 DEF MarkDisconnected
<1>34. CASE DropReceiver
  BY <1>34 DEF DropReceiver, Answers
<1>35. CASE UNCHANGED vars
  BY <1>35 DEF vars
<1>36. QED
  BY <1>1, <1>2, <1>3, <1>4, <1>5, <1>6, <1>7, <1>8, <1>9, <1>10, <1>11, <1>12, <1>13,
     <1>14, <1>15, <1>16, <1>17, <1>18, <1>19, <1>20, <1>21, <1>22, <1>23, <1>24, <1>25,
     <1>26, <1>27, <1>28, <1>29, <1>30, <1>31, <1>32, <1>33, <1>34, <1>35
     DEF Next, Worker, Progress, ApprovalCancelled, RespondToApproval, Terminated

-----------------------------------------------------------------------------
(* Every command id is in one place.                                       *)

\* In the initial state no command has been issued.
LEMMA BookInit == Init => Bookkeeping
<1> SUFFICES ASSUME Init PROVE Bookkeeping
  OBVIOUS
<1>1. /\ chan = <<>> /\ steering = <<>> /\ followUp = <<>>
      /\ processed = {} /\ dropped = {} /\ control = {}
      /\ worker = "recv" /\ ~disconnected
      /\ \A c \in Command : admission[c] = "none" /\ terminals[c] = <<>>
  BY DEF Init
<1>2. Owed = {}
  BY <1>1, EmptyQueue DEF Owed
<1>3. \A c \in Command : ~Accepted(c) /\ ~Finished(c) /\ Len(terminals[c]) = 0
  BY <1>1 DEF Accepted, Finished
<1>4. ~AtWork
  BY <1>1 DEF AtWork, RunPoints, PollPoints
<1>5. ChannelOnce
  BY <1>1, EmptyQueue DEF ChannelOnce, Untouched
<1>6. CurrentOnce
  BY <1>1, <1>4 DEF CurrentOnce
<1>7. OwedOnce
  BY <1>1, <1>2, EmptyQueue DEF OwedOnce
<1>8. ListsInPlace
  BY <1>1 DEF ListsInPlace, AllReported, RunPoints, PollPoints
<1>9. NothingLost /\ OneTerminal /\ IdleOwesNothing
  BY <1>3 DEF NothingLost, OneTerminal, IdleOwesNothing
<1>10. PhaseInPlace
  BY <1>1 DEF PhaseInPlace
<1> QED BY <1>5, <1>6, <1>7, <1>8, <1>9, <1>10 DEF Bookkeeping

idVars == <<chan, caller, admission, terminals, cur, disconnected>>
listVars == <<steering, followUp, processed, dropped, control>>

\* A step that touches no command id, no list and no control point.
LEMMA FrameStep ==
    ASSUME Bookkeeping, UNCHANGED <<idVars, listVars, phase, worker>>
    PROVE  Bookkeeping'
  BY DEF Bookkeeping, ChannelOnce, CurrentOnce, OwedOnce, ListsInPlace, NothingLost, PhaseInPlace,
         OneTerminal, IdleOwesNothing, idVars, listVars, AtWork, Gone, Owed, Untouched,
         Accepted, Finished, AllReported

\* The worker keeps working on the same command, moving ids between its lists at most.
LEMMA WorkStep ==
    ASSUME Bookkeeping, AtWork, AtWork', UNCHANGED idVars,
           phase' = phase \/ phase' # "idle",
           Owed' = Owed, OwedOnce', ListsInPlace'
    PROVE  Bookkeeping'
<1>1. phase # "idle" /\ phase' # "idle" /\ ~disconnected
      /\ worker' \notin {"begin", "admit", "drop", "gone"}
  BY DEF Bookkeeping, PhaseInPlace, AtWork, RunPoints, PollPoints, Gone
<1>2. ChannelOnce'
  BY DEF Bookkeeping, ChannelOnce, Untouched, idVars
<1>3. CurrentOnce'
  BY <1>1 DEF Bookkeeping, CurrentOnce, Accepted, idVars
<1>4. NothingLost'
  <2>1. ~Gone
    BY DEF Gone, AtWork, RunPoints, PollPoints
  <2> QED BY <2>1 DEF Bookkeeping, NothingLost, Accepted, Finished, idVars
<1>5. PhaseInPlace'
  BY <1>1 DEF PhaseInPlace, idVars
<1>6. OneTerminal' /\ IdleOwesNothing'
  BY <1>1 DEF Bookkeeping, OneTerminal, IdleOwesNothing, Accepted, Finished, idVars
<1> QED BY <1>2, <1>3, <1>4, <1>5, <1>6 DEF Bookkeeping

\* In particular when the lists stay as they are.
LEMMA QuietStep ==
    ASSUME Bookkeeping, AtWork, AtWork', UNCHANGED <<idVars, listVars>>,
           phase' = phase \/ phase' # "idle", ListsInPlace'
    PROVE  Bookkeeping'
<1>1. Owed' = Owed
  BY DEF Owed, listVars
<1>2. OwedOnce'
  BY <1>1 DEF Bookkeeping, OwedOnce, Accepted, idVars, listVars
<1> QED BY <1>1, <1>2, WorkStep

\* A command leaves the head of the channel.
LEMMA TakeHead ==
    ASSUME TypeOK, ChannelOnce, chan # <<>>
    PROVE  /\ Head(chan) \in Command
           /\ caller[Head(chan)] = "sent" /\ Untouched(Head(chan))
           /\ Range(Tail(chan)) = Range(chan) \ {Head(chan)}
           /\ IsInjective(Tail(chan))
  BY RangeTail DEF TypeOK, ChannelOnce

\* The steps of a run that move no id, and the start and end of a command.
QuietWork ==
    \/ HandleInput \/ HandleControl \/ HandleCompact \/ CompactReturns \/ HandleMutate
    \/ StartRound \/ PreparePrompt \/ ModelReturns \/ InterceptStop \/ AfterStop
    \/ AskApproval \/ ApprovalResolved \/ ToolsDone \/ RepairPlan

LEMMA QuietWorkKeepsBook ==
    ASSUME TypeOK, Bookkeeping, QuietWork
    PROVE  Bookkeeping'
<1> USE DEF Goto, callVars, frontVars, queueVars, reportVars, flagVars, eventVars, sharedVars,
            runFrame, quiet, idVars, listVars, RunPoints, PollPoints, AtWork
<1>1. CASE HandleInput \/ HandleControl \/ HandleCompact \/ CompactReturns \/ HandleMutate
  <2>1. /\ worker \in {"handle", "compact"}
        /\ worker' \in {"compact", "main", "round"}
        /\ worker' = "compact" => worker = "handle"
    BY <1>1 DEF HandleInput, HandleControl, HandleCompact, CompactReturns, HandleMutate
  <2>2. UNCHANGED <<idVars, listVars>>
    BY <1>1 DEF HandleInput, HandleControl, HandleCompact, CompactReturns, HandleMutate
  <2>3. phase' = phase \/ phase' # "idle"
    BY <1>1 DEF HandleInput, HandleControl, HandleCompact, CompactReturns, HandleMutate
  <2>4. ListsInPlace'
    BY <2>1, <2>2 DEF Bookkeeping, ListsInPlace, AllReported, Gone
  <2> QED BY <2>1, <2>2, <2>3, <2>4, QuietStep
<1>2. CASE \/ StartRound \/ PreparePrompt \/ ModelReturns \/ InterceptStop \/ AfterStop
           \/ ToolsDone \/ RepairPlan
  <2>1. worker \in RunPoints /\ worker' \in RunPoints
    BY <1>2 DEF StartRound, PreparePrompt, ModelReturns, InterceptStop, AfterStop, ToolsDone,
                RepairPlan, FailRun, Finish, NextRound
  <2>2. UNCHANGED <<idVars, listVars, phase>>
    BY <1>2 DEF StartRound, PreparePrompt, ModelReturns, InterceptStop, AfterStop, ToolsDone,
                RepairPlan
  <2>3. ListsInPlace'
    BY <2>1, <2>2 DEF Bookkeeping, ListsInPlace
  <2> QED BY <2>1, <2>2, <2>3, QuietStep
<1>3. CASE AskApproval \/ ApprovalResolved
  <2>1. worker \in RunPoints /\ worker' \in RunPoints /\ phase' # "idle"
        /\ UNCHANGED <<idVars, listVars>>
    BY <1>3 DEF AskApproval, ApprovalResolved
  <2>2. ListsInPlace'
    BY <2>1 DEF Bookkeeping, ListsInPlace
  <2> QED BY <2>1, <2>2, QuietStep
<1> QED BY <1>1, <1>2, <1>3 DEF QuietWork

\* An input taken from its queue moves to the processed ones.
LEMMA PopKeepsBook ==
    ASSUME TypeOK, Bookkeeping, TakeInput \/ InjectSteering
    PROVE  Bookkeeping'
<1> USE DEF Goto, callVars, eventVars, runFrame, queueVars, RunPoints, PollPoints, AtWork
<1>1. /\ worker \in RunPoints /\ worker' \in RunPoints
      /\ UNCHANGED <<idVars, phase, dropped, control>>
  BY DEF TakeInput, InjectSteering, CommitInput, FailRun, Finish, NextRound, idVars
<1>2. \/ UNCHANGED <<steering, followUp, processed>>
      \/ /\ steering # <<>> /\ steering' = Tail(steering) /\ followUp' = followUp
         /\ processed' = processed \cup {Head(steering)}
      \/ /\ followUp # <<>> /\ followUp' = Tail(followUp) /\ steering' = steering
         /\ processed' = processed \cup {Head(followUp)}
  BY DEF TakeInput, InjectSteering
<1>3. OwedOnce
  BY DEF Bookkeeping
<1>4. Owed' = Owed /\ OwedOnce'
  <2>1. CASE UNCHANGED <<steering, followUp, processed>>
    BY <1>1, <1>3, <2>1 DEF Owed, OwedOnce, Accepted, idVars
  <2>2. CASE /\ steering # <<>> /\ steering' = Tail(steering) /\ followUp' = followUp
             /\ processed' = processed \cup {Head(steering)}
    <3>1. /\ Head(steering) \in Range(steering)
          /\ Range(steering') = Range(steering) \ {Head(steering)}
          /\ IsInjective(steering')
      BY <1>3, <2>2, RangeTail DEF TypeOK, OwedOnce
    <3>2. Owed' = Owed
      BY <1>1, <2>2, <3>1 DEF Owed
    <3>3. Kind[Head(steering)] = "steer" /\ Head(steering) \notin Range(followUp) \cup dropped
      BY <1>1, <1>3, <3>1 DEF OwedOnce, Bookkeeping, ListsInPlace
    <3> QED BY <1>1, <1>3, <2>2, <3>1, <3>2, <3>3
            DEF OwedOnce, IsInput, Inputs, Accepted, idVars
  <2>3. CASE /\ followUp # <<>> /\ followUp' = Tail(followUp) /\ steering' = steering
             /\ processed' = processed \cup {Head(followUp)}
    <3>1. /\ Head(followUp) \in Range(followUp)
          /\ Range(followUp') = Range(followUp) \ {Head(followUp)}
          /\ IsInjective(followUp')
      BY <1>3, <2>3, RangeTail DEF TypeOK, OwedOnce
    <3>2. Owed' = Owed
      BY <1>1, <2>3, <3>1 DEF Owed
    <3>3. Kind[Head(followUp)] = "follow_up" /\ Head(followUp) \notin Range(steering) \cup dropped
      BY <1>1, <1>3, <3>1 DEF OwedOnce, Bookkeeping, ListsInPlace
    <3> QED BY <1>1, <1>3, <2>3, <3>1, <3>2, <3>3
            DEF OwedOnce, IsInput, Inputs, Accepted, idVars
  <2> QED BY <1>2, <2>1, <2>2, <2>3
<1>5. ListsInPlace'
  BY <1>1 DEF Bookkeeping, ListsInPlace
<1> QED BY <1>1, <1>4, <1>5, WorkStep

\* What the run never reached moves to the cancelled inputs.
LEMMA DropKeepsBook ==
    ASSUME TypeOK, Bookkeeping, DropQueues
    PROVE  Bookkeeping'
<1>1. /\ worker = "cleanup" /\ worker' = "main"
      /\ dropped' = Range(steering) \cup Range(followUp)
      /\ steering' = <<>> /\ followUp' = <<>>
      /\ UNCHANGED <<idVars, phase, processed, control>>
  BY DEF DropQueues, Unreached, Goto, callVars, eventVars, runFrame, idVars
<1>2. dropped = {}
  BY <1>1 DEF Bookkeeping, ListsInPlace, RunPoints
<1>3. Owed' = Owed
  BY <1>1, <1>2, EmptyQueue DEF Owed
<1>4. OwedOnce'
  <2>1. \A c \in dropped' : IsInput(c)
    BY <1>1 DEF Bookkeeping, OwedOnce, IsInput, Inputs
  <2> QED BY <1>1, <1>3, <2>1, EmptyQueue DEF Bookkeeping, OwedOnce, Accepted, idVars
<1>5. ListsInPlace'
  BY <1>1 DEF ListsInPlace, RunPoints, PollPoints, Gone
<1> QED BY <1>1, <1>3, <1>4, <1>5, WorkStep DEF AtWork, RunPoints

\* A command absorbed by a run is turned away, queued or put on the control list.
LEMMA AbsorbKeepsBook ==
    ASSUME TypeOK, Bookkeeping, Absorb
    PROVE  Bookkeeping'
<1> DEFINE c == Head(chan)
           answered == admission'[c] # "none"
           keeps == Kind[c] \in {"steer", "follow_up"} \/ (IsControl(c) /\ HasId(c))
<1>1. /\ worker \in RunPoints /\ worker' = worker
      /\ chan # <<>> /\ chan' = Tail(chan)
      /\ UNCHANGED <<caller, terminals, cur, disconnected, phase, processed, dropped>>
  BY DEF Absorb, callVars, eventVars, RunPoints, PollPoints
<1>2. /\ c \in Command /\ caller[c] = "sent" /\ Untouched(c) /\ c \in Range(chan)
      /\ Range(chan') = Range(chan) \ {c} /\ IsInjective(chan')
  BY <1>1, TakeHead, RangeTail DEF Bookkeeping, TypeOK, ChannelOnce
<1>3. c # cur /\ c \notin Owed
  BY <1>1, <1>2 DEF Bookkeeping, CurrentOnce, AtWork, OwedOnce, Untouched, Accepted
<1>4. Kind[c] \in Kinds
  BY <1>2, SessionAssumption
<1>5. /\ admission' \in [Command -> {"none"} \cup Answers]
      /\ \A e \in Command \ {c} : admission'[e] = admission[e]
      /\ keeps => admission'[c] = "accepted"
      /\ admission'[c] = "accepted" => keeps
  <2>1. admission' = IF Kind[c] \in {"prompt", "compact", "mutate"} THEN Reject(c) ELSE Accept(c)
    BY DEF Absorb
  <2>2. admission \in [Command -> {"none"} \cup Answers] /\ admission[c] = "none"
    BY <1>2 DEF TypeOK, Untouched
  <2>3. CASE ~HasId(c)
    <3>1. admission' = admission /\ ~keeps
      BY <2>1, <2>3 DEF Accept, Reject, HasId
    <3> QED BY <2>2, <3>1
  <2>4. CASE HasId(c) /\ Kind[c] \in {"prompt", "compact", "mutate"}
    <3>1. admission' = [admission EXCEPT ![c] = "busy"] /\ ~keeps
      BY <2>1, <2>4 DEF Reject, IsControl, Controls
    <3> QED BY <1>2, <2>2, <3>1 DEF Answers
  <2>5. CASE HasId(c) /\ Kind[c] \notin {"prompt", "compact", "mutate"}
    <3>1. admission' = [admission EXCEPT ![c] = "accepted"] /\ keeps
      BY <1>4, <2>1, <2>5 DEF Accept, IsControl, Controls, HasId, Kinds, Inputs
    <3> QED BY <1>2, <2>2, <3>1 DEF Answers
  <2> QED BY <2>3, <2>4, <2>5
<1>6. /\ steering' = IF Kind[c] = "steer" THEN Append(steering, c) ELSE steering
      /\ followUp' = IF Kind[c] = "follow_up" THEN Append(followUp, c) ELSE followUp
      /\ control' = IF IsControl(c) /\ HasId(c) THEN control \cup {c} ELSE control
  BY DEF Absorb
<1>7. /\ Range(steering') = IF Kind[c] = "steer" THEN Range(steering) \cup {c} ELSE Range(steering)
      /\ IsInjective(steering')
      /\ Range(followUp') = IF Kind[c] = "follow_up" THEN Range(followUp) \cup {c}
                            ELSE Range(followUp)
      /\ IsInjective(followUp')
  <2>1. /\ IsInjective(steering) /\ IsInjective(followUp)
        /\ c \notin Range(steering) /\ c \notin Range(followUp)
        /\ steering \in Seq(Command) /\ followUp \in Seq(Command)
    BY <1>3 DEF Bookkeeping, OwedOnce, Owed, TypeOK
  <2>2. /\ Range(Append(steering, c)) = Range(steering) \cup {c}
        /\ IsInjective(Append(steering, c))
        /\ Range(Append(followUp, c)) = Range(followUp) \cup {c}
        /\ IsInjective(Append(followUp, c))
    BY <1>2, <2>1, RangeAppend, InjectiveAppend
  <2> HIDE DEF c
  <2> QED BY <1>6, <2>1, <2>2
<1>8. Owed' = IF keeps THEN Owed \cup {c} ELSE Owed
  BY <1>1, <1>6, <1>7 DEF Owed, IsControl, Controls
<1>9. \A e \in Command : Accepted(e)' <=> (Accepted(e) \/ (e = c /\ keeps))
  BY <1>2, <1>5 DEF Accepted, Untouched
<1>10. ChannelOnce'
  BY <1>1, <1>2, <1>5, RangeEmpty DEF Bookkeeping, ChannelOnce, Untouched, TypeOK
<1>11. CurrentOnce'
  BY <1>1, <1>2, <1>3, <1>8, <1>9 DEF Bookkeeping, CurrentOnce, AtWork, RunPoints, PollPoints
<1>12. OwedOnce'
  <2>1. \A e \in Owed : e \in Command
    BY RangeEmpty DEF Owed, TypeOK
  <2>2. \A e \in Owed' : Accepted(e)' /\ terminals'[e] = <<>>
    BY <1>1, <1>2, <1>8, <1>9, <2>1 DEF Bookkeeping, OwedOnce, Untouched
  <2>3. processed' \cap (Range(steering') \cup Range(followUp') \cup dropped') = {}
    BY <1>1, <1>3, <1>7 DEF Bookkeeping, OwedOnce, Owed
  <2>4. /\ \A e \in Range(steering') : Kind[e] = "steer"
        /\ \A e \in Range(followUp') : Kind[e] = "follow_up"
        /\ \A e \in control' : IsControl(e)
        /\ \A e \in processed' \cup dropped' : IsInput(e)
    BY <1>1, <1>6, <1>7 DEF Bookkeeping, OwedOnce, IsControl, IsInput
  <2> QED BY <1>7, <2>2, <2>3, <2>4 DEF OwedOnce
<1>13. ListsInPlace' /\ PhaseInPlace'
  BY <1>1 DEF Bookkeeping, ListsInPlace, PhaseInPlace, RunPoints, PollPoints, Gone
<1>14. NothingLost'
  <2>1. keeps => HasId(c)
    BY DEF HasId
  <2> QED BY <1>1, <1>8, <1>9, <2>1 DEF Bookkeeping, NothingLost, AtWork, Finished, Gone
<1>15. phase # "idle"
  BY <1>1 DEF Bookkeeping, PhaseInPlace, RunPoints, PollPoints, Gone
<1>16. OneTerminal' /\ IdleOwesNothing'
  BY <1>1, <1>9, <1>15 DEF Bookkeeping, OneTerminal, IdleOwesNothing, Finished
<1> QED BY <1>10, <1>11, <1>12, <1>13, <1>14, <1>16 DEF Bookkeeping

\* The calling threads: only sending a command, or failing to, matters.
LEMMA CallKeepsBook ==
    ASSUME TypeOK, Bookkeeping, NEW d \in Command, Call(d) \/ Progress(d)
    PROVE  Bookkeeping'
<1> USE DEF workerVars, frontVars, queueVars, reportVars, flagVars, eventVars
<1>1. UNCHANGED <<terminals, cur, disconnected, phase, worker, listVars>>
  BY DEF Call, Progress, Signal, Send, SendFails, listVars
<1>2. caller[d] # "sent"
  BY DEF Call, Progress, Signal, Send, SendFails, ReadyToSend
<1>3. Untouched(d) /\ d \notin Range(chan)
  BY <1>2 DEF Bookkeeping, ChannelOnce
<1>4. \A e \in Command \ {d} : caller'[e] = caller[e] /\ admission'[e] = admission[e]
  BY DEF Call, Progress, Signal, Send, SendFails, TypeOK
<1>5. admission'[d] \in {"none", "disconnected"} /\ (admission'[d] # "none" => caller'[d] = "sent")
  BY <1>3 DEF Call, Progress, Signal, Send, SendFails, TypeOK, Untouched
<1>6. /\ IsInjective(chan')
      /\ \/ Range(chan') = Range(chan)
         \/ /\ Range(chan') = Range(chan) \cup {d}
            /\ caller'[d] = "sent" /\ admission'[d] = "none" /\ worker # "gone"
      /\ worker = "gone" => chan' = chan
  <2>1. CASE Send(d)
    BY <1>3, <2>1, RangeAppend, InjectiveAppend DEF Send, Bookkeeping, ChannelOnce, TypeOK, Untouched
  <2>2. CASE Call(d) \/ Signal(d) \/ SendFails(d)
    BY <2>2 DEF Call, Signal, SendFails, Bookkeeping, ChannelOnce
  <2> QED BY <2>1, <2>2 DEF Progress
<1>7. \A e \in Command : (Accepted(e)' <=> Accepted(e)) /\ (Finished(e)' <=> Finished(e))
  BY <1>1, <1>3, <1>4, <1>5 DEF Accepted, Finished, Untouched
<1>8. Owed' = Owed
  BY <1>1 DEF Owed, listVars
<1>9. Range(chan) \subseteq Command /\ Owed \subseteq Command
  BY RangeEmpty DEF Owed, TypeOK
<1>10. ChannelOnce'
  BY <1>1, <1>3, <1>4, <1>5, <1>6, <1>9 DEF Bookkeeping, ChannelOnce, Untouched
<1>11. CurrentOnce'
  <2>1. cur = d => ~AtWork /\ worker \notin {"begin", "admit"}
    BY <1>2 DEF Bookkeeping, CurrentOnce
  <2> QED BY <1>1, <1>4, <1>6, <1>7, <1>8, <2>1 DEF Bookkeeping, CurrentOnce, AtWork, Untouched
<1>12. OwedOnce'
  BY <1>1, <1>7, <1>8, <1>9 DEF Bookkeeping, OwedOnce, listVars
<1>13. ListsInPlace' /\ PhaseInPlace'
  BY <1>1, <1>6 DEF Bookkeeping, ListsInPlace, PhaseInPlace, Gone, AllReported, listVars
<1>14. NothingLost' /\ OneTerminal' /\ IdleOwesNothing'
  BY <1>1, <1>7, <1>8 DEF Bookkeeping, NothingLost, OneTerminal, IdleOwesNothing, AtWork, Gone
<1> QED BY <1>10, <1>11, <1>12, <1>13, <1>14 DEF Bookkeeping

\* Taking a command, or finding that no sender is left.
LEMMA RecvKeepsBook ==
    ASSUME TypeOK, Bookkeeping, Recv \/ RecvClosed
    PROVE  Bookkeeping'
<1> USE DEF callVars, sharedVars, queueVars, reportVars, eventVars, Goto
<1>1. /\ worker = "recv" /\ AllReported /\ ~AtWork
      /\ steering = <<>> /\ followUp = <<>> /\ Owed = {}
  BY EmptyQueue DEF Recv, RecvClosed, Bookkeeping, ListsInPlace, AllReported, AtWork, Gone, Owed,
                    RunPoints, PollPoints
<1>2. /\ UNCHANGED <<caller, admission, terminals, disconnected, phase, listVars>>
      /\ worker' \in {"begin", "exit"}
  BY <1>1 DEF Recv, RecvClosed, listVars, AllReported
<1>3. Owed' = Owed /\ ~AtWork'
  BY <1>1, <1>2 DEF Owed, AtWork, RunPoints, PollPoints, listVars
<1>4. ChannelOnce'
  <2>1. CASE Recv
    BY <1>2, <2>1, TakeHead DEF Recv, Bookkeeping, ChannelOnce, Untouched
  <2>2. CASE RecvClosed
    BY <1>2, <2>2 DEF RecvClosed, Bookkeeping, ChannelOnce, Untouched
  <2> QED BY <2>1, <2>2
<1>5. CurrentOnce'
  <2>1. CASE Recv
    <3>1. cur' = Head(chan) /\ chan # <<>> /\ chan' = Tail(chan)
      BY <2>1 DEF Recv
    <3> QED BY <1>2, <1>3, <3>1, TakeHead DEF CurrentOnce, Bookkeeping, Untouched
  <2>2. CASE RecvClosed
    BY <1>3, <2>2 DEF RecvClosed, CurrentOnce
  <2> QED BY <2>1, <2>2
<1>6. OwedOnce' /\ ListsInPlace'
  BY <1>1, <1>2, <1>3, EmptyQueue DEF OwedOnce, ListsInPlace, AllReported, listVars, RunPoints, PollPoints
<1>7. NothingLost' /\ OneTerminal' /\ IdleOwesNothing'
  BY <1>1, <1>2, <1>3 DEF Bookkeeping, NothingLost, OneTerminal, IdleOwesNothing, Gone,
                          Accepted, Finished
<1>8. PhaseInPlace'
  BY <1>1, <1>2 DEF Bookkeeping, PhaseInPlace, Gone
<1> QED BY <1>4, <1>5, <1>6, <1>7, <1>8 DEF Bookkeeping

\* The live phase, then the receipt.
LEMMA AdmitKeepsBook ==
    ASSUME TypeOK, Bookkeeping, UpdateLive \/ Admit
    PROVE  Bookkeeping'
<1> USE DEF callVars, queueVars, reportVars, eventVars, Goto
<1>1. /\ worker \in {"begin", "admit"} /\ ~AtWork /\ ~Gone
      /\ cur \in Command /\ caller[cur] = "sent" /\ Untouched(cur) /\ cur \notin Range(chan)
  BY DEF UpdateLive, Admit, Bookkeeping, CurrentOnce, AtWork, Gone, RunPoints, PollPoints
<1>2. AllReported /\ steering = <<>> /\ followUp = <<>> /\ Owed = {}
  BY <1>1, EmptyQueue DEF Bookkeeping, ListsInPlace, AllReported, Owed, RunPoints, PollPoints
<1>3. UNCHANGED <<chan, caller, terminals, cur, disconnected, listVars>>
  BY DEF UpdateLive, Admit, listVars
<1>4. Owed' = {}
  BY <1>2, <1>3 DEF Owed, listVars
<1>5. \/ worker' = "admit" /\ admission' = admission /\ phase' # "idle"
      \/ /\ worker' \in {"handle", "exit"} /\ phase' = phase /\ phase # "idle"
         /\ admission' = Accept(cur)
  BY DEF UpdateLive, Admit, CommandPhase, Bookkeeping, PhaseInPlace, Gone
<1>6. \A c \in Command : c # cur => admission'[c] = admission[c]
  BY <1>5 DEF Accept, TypeOK
<1>7. worker' # "admit" /\ HasId(cur) => admission'[cur] = "accepted"
  BY <1>1, <1>5 DEF Accept, TypeOK
<1>8. worker' # "admit" /\ ~HasId(cur) => admission' = admission
  BY <1>5 DEF Accept
<1>9. ChannelOnce'
  BY <1>1, <1>3, <1>6, RangeEmpty DEF Bookkeeping, ChannelOnce, Untouched, TypeOK
<1>10. CurrentOnce'
  BY <1>1, <1>3, <1>4, <1>5, <1>7 DEF CurrentOnce, Untouched, AtWork, Accepted, RunPoints, PollPoints
<1>11. OwedOnce' /\ ListsInPlace'
  BY <1>2, <1>3, <1>4, <1>5, EmptyQueue
     DEF OwedOnce, ListsInPlace, AllReported, listVars, RunPoints, PollPoints
<1>12. NothingLost'
  <2>1. worker' \in {"handle", "exit"} => AtWork' \/ Gone'
    BY DEF AtWork, Gone
  <2> QED BY <1>1, <1>2, <1>3, <1>5, <1>6, <1>8, <2>1
          DEF Bookkeeping, NothingLost, Accepted, Finished, Untouched
<1>13. PhaseInPlace'
  BY <1>1, <1>3, <1>5 DEF Bookkeeping, PhaseInPlace, Gone
<1>14. OneTerminal'
  BY <1>1, <1>3, <1>6 DEF Bookkeeping, OneTerminal, Accepted, Finished, Untouched
<1>15. IdleOwesNothing'
  BY <1>5 DEF IdleOwesNothing
<1> QED BY <1>9, <1>10, <1>11, <1>12, <1>13, <1>14, <1>15 DEF Bookkeeping

\* A terminal is sent for a command that owes one.
LEMMA EmitOnce ==
    ASSUME TypeOK, NEW c \in Command, NEW status, terminals[c] = <<>>, Emit(c, status)
    PROVE  /\ terminals'[c] # <<>> /\ Len(terminals'[c]) = 1
           /\ \A e \in Command \ {c} : terminals'[e] = terminals[e]
<1>1. terminals'[c] = Append(<<>>, status)
  BY DEF TypeOK, Emit
<1>2. Append(<<>>, status) = <<status>>
  OBVIOUS
<1> QED BY <1>1, <1>2 DEF TypeOK, Emit

\* The worker reports the command it executed.
LEMMA FinishMainKeepsBook ==
    ASSUME TypeOK, Bookkeeping, FinishMain
    PROVE  Bookkeeping'
<1> USE DEF callVars, queueVars, reportVars, eventVars, reportFrame, Leave, Goto
<1>1. /\ worker = "main" /\ worker' \in {"results", "exit"}
      /\ worker' = "exit" => terminals' = terminals
      /\ UNCHANGED <<chan, caller, admission, cur, disconnected, phase, listVars>>
  BY DEF FinishMain, listVars
<1>2. /\ cur \in Command /\ caller[cur] = "sent" /\ terminals[cur] = <<>>
      /\ HasId(cur) => Accepted(cur)
      /\ cur \notin Range(chan) /\ cur \notin Owed
  BY <1>1 DEF Bookkeeping, CurrentOnce, AtWork
<1>3. /\ \A e \in Command \ {cur} : terminals'[e] = terminals[e]
      /\ terminals'[cur] = <<>> \/ (Len(terminals'[cur]) = 1 /\ Accepted(cur))
      /\ worker' = "results" /\ HasId(cur) => terminals'[cur] # <<>>
  <2>1. CASE Emit(cur, RunStatus) /\ HasId(cur)
    BY <1>2, <2>1, EmitOnce
  <2>2. CASE terminals' = terminals /\ ~(worker' = "results" /\ HasId(cur))
    BY <1>2, <2>2
  <2>3. worker' = "exit" => ~(worker' = "results")
    BY <1>1
  <2> QED BY <2>1, <2>2, <2>3 DEF FinishMain
<1>4. ~AtWork' /\ Owed' = Owed
  BY <1>1 DEF AtWork, RunPoints, PollPoints, Owed, listVars
<1>5. ChannelOnce'
  BY <1>1, <1>2, <1>3, RangeEmpty DEF Bookkeeping, ChannelOnce, Untouched, TypeOK
<1>6. CurrentOnce'
  BY <1>1, <1>4 DEF CurrentOnce
<1>7. OwedOnce'
  <2>1. Owed \subseteq Command
    BY RangeEmpty DEF Owed, TypeOK
  <2> QED BY <1>1, <1>2, <1>3, <1>4, <2>1 DEF Bookkeeping, OwedOnce, Accepted, listVars
<1>8. ListsInPlace'
  BY <1>1 DEF Bookkeeping, ListsInPlace, RunPoints, PollPoints, Gone, listVars
<1>9. NothingLost'
  <2> SUFFICES ASSUME NEW e \in Command, Accepted(e)'
               PROVE  HasId(e) /\ (Finished(e)' \/ e \in Owed' \/ Gone')
    BY <1>4 DEF NothingLost
  <2>1. HasId(e) /\ (Finished(e) \/ e \in Owed \/ e = cur)
    BY <1>1 DEF Bookkeeping, NothingLost, Accepted, Gone
  <2>2. CASE worker' = "exit"
    BY <2>1, <2>2 DEF Gone
  <2>3. CASE worker' = "results"
    BY <1>3, <1>4, <2>1, <2>3 DEF Finished
  <2> QED BY <1>1, <2>2, <2>3
<1>10. PhaseInPlace' /\ IdleOwesNothing'
  BY <1>1 DEF Bookkeeping, PhaseInPlace, IdleOwesNothing, Gone
<1>11. OneTerminal'
  <2> SUFFICES ASSUME NEW e \in Command
               PROVE  Len(terminals'[e]) <= 1 /\ (terminals'[e] # <<>> => Accepted(e))
    BY <1>1 DEF OneTerminal, Accepted, Finished
  <2>1. CASE e = cur /\ terminals'[cur] = <<>>
    <3>1. Len(<<>>) = 0
      OBVIOUS
    <3> QED BY <2>1, <3>1
  <2>2. CASE e = cur /\ Len(terminals'[cur]) = 1 /\ Accepted(cur)
    BY <2>2
  <2>3. CASE e # cur
    BY <1>3, <2>3 DEF Bookkeeping, OneTerminal, Finished
  <2> QED BY <1>3, <2>1, <2>2, <2>3
<1> QED BY <1>5, <1>6, <1>7, <1>8, <1>9, <1>10, <1>11 DEF Bookkeeping

\* The worker reports the ids the run has gathered, one by one.
LEMMA ReportKeepsBook ==
    ASSUME TypeOK, Bookkeeping, ReportResults
    PROVE  Bookkeeping'
<1> USE DEF callVars, queueVars, reportVars, eventVars, reportFrame, Leave, Goto
<1>1. /\ worker = "results" /\ worker' \in {"results", "exit", "snapshot"}
      /\ UNCHANGED <<chan, caller, admission, cur, disconnected, phase, steering, followUp>>
  BY DEF ReportResults
<1>2. ~AtWork /\ ~AtWork' /\ ~Gone /\ worker \notin RunPoints
      /\ steering = <<>> /\ followUp = <<>>
  BY <1>1 DEF AtWork, Gone, RunPoints, PollPoints, Bookkeeping, ListsInPlace
<1>3. Owed = processed \cup dropped \cup control /\ Owed' = processed' \cup dropped' \cup control'
  BY <1>1, <1>2, EmptyQueue DEF Owed
<1>4. CurrentOnce' /\ PhaseInPlace' /\ IdleOwesNothing' /\ phase # "idle"
  BY <1>1, <1>2 DEF CurrentOnce, Bookkeeping, PhaseInPlace, IdleOwesNothing, Gone
<1>5. CASE ReportOne /\ worker' = worker
  <2>1. PICK c \in Owed, status \in Statuses :
           /\ Emit(c, status)
           /\ processed' \subseteq processed /\ dropped' \subseteq dropped /\ control' \subseteq control
           /\ Owed' = Owed \ {c}
    <3>. RunStatus \in Statuses /\ "cancelled" \in Statuses /\ "succeeded" \in Statuses
      BY DEF RunStatus, Statuses
    <3>1. CASE \E c \in processed : /\ processed' = processed \ {c}
                                    /\ Emit(c, RunStatus)
                                    /\ UNCHANGED <<dropped, control>>
      <4>1. PICK c \in processed : /\ processed' = processed \ {c}
                                   /\ Emit(c, RunStatus)
                                   /\ UNCHANGED <<dropped, control>>
        BY <3>1
      <4>2. c \notin dropped \cup control
        BY DEF Bookkeeping, OwedOnce, IsInput, IsControl, Inputs, Controls
      <4> QED BY <1>3, <4>1, <4>2
    <3>2. CASE \E c \in dropped : /\ processed = {}
                                  /\ dropped' = dropped \ {c}
                                  /\ Emit(c, "cancelled")
                                  /\ UNCHANGED <<processed, control>>
      <4>1. PICK c \in dropped : /\ processed = {}
                                 /\ dropped' = dropped \ {c}
                                 /\ Emit(c, "cancelled")
                                 /\ UNCHANGED <<processed, control>>
        BY <3>2
      <4>2. c \notin control
        BY DEF Bookkeeping, OwedOnce, IsInput, IsControl, Inputs, Controls
      <4> QED BY <1>3, <4>1, <4>2
    <3>3. CASE \E c \in control : /\ processed = {} /\ dropped = {}
                                  /\ control' = control \ {c}
                                  /\ Emit(c, "succeeded")
                                  /\ UNCHANGED <<processed, dropped>>
      BY <1>3, <3>3
    <3> QED BY <1>5, <3>1, <3>2, <3>3 DEF ReportOne
  <2>2. /\ Owed \subseteq Command /\ Accepted(c) /\ terminals[c] = <<>>
        /\ \A e \in Owed : Accepted(e) /\ terminals[e] = <<>>
    BY RangeEmpty DEF Owed, TypeOK, Bookkeeping, OwedOnce
  <2>3. /\ terminals'[c] # <<>> /\ Len(terminals'[c]) = 1
        /\ \A e \in Command \ {c} : terminals'[e] = terminals[e]
    BY <2>1, <2>2, EmitOnce
  <2>4. caller[c] = "sent" /\ c \notin Range(chan)
    BY <2>2 DEF Bookkeeping, ChannelOnce, Untouched, Accepted
  <2>5. ChannelOnce'
    BY <1>1, <2>2, <2>3, <2>4, RangeEmpty DEF Bookkeeping, ChannelOnce, Untouched, TypeOK
  <2>6. OwedOnce'
    BY <1>1, <1>2, <2>1, <2>2, <2>3, EmptyQueue DEF Bookkeeping, OwedOnce, Accepted
  <2>7. ListsInPlace'
    BY <1>1, <1>2, <1>5 DEF ListsInPlace
  <2>8. NothingLost'
    <3> SUFFICES ASSUME NEW e \in Command, Accepted(e)'
                 PROVE  HasId(e) /\ (Finished(e)' \/ e \in Owed')
      BY DEF NothingLost
    <3>1. HasId(e) /\ (Finished(e) \/ e \in Owed)
      BY <1>1, <1>2 DEF Bookkeeping, NothingLost, Accepted
    <3> QED BY <2>1, <2>3, <3>1 DEF Finished
  <2>9. OneTerminal'
    <3> SUFFICES ASSUME NEW e \in Command
                 PROVE  Len(terminals'[e]) <= 1 /\ (terminals'[e] # <<>> => Accepted(e))
      BY <1>1 DEF OneTerminal, Accepted, Finished
    <3>1. CASE e = c
      <4>1. Len(terminals'[e]) = 1 /\ Accepted(e)
        BY <2>2, <2>3, <3>1
      <4> QED BY <4>1
    <3>2. CASE e # c
      BY <2>3, <3>2 DEF Bookkeeping, OneTerminal, Finished
    <3> QED BY <3>1, <3>2
  <2> QED BY <1>4, <2>5, <2>6, <2>7, <2>8, <2>9 DEF Bookkeeping
<1>6. CASE UNCHANGED <<processed, dropped, control, terminals>>
           /\ (worker' = "exit" \/ (worker' = "snapshot" /\ AllReported))
  <2>1. Owed' = Owed
    BY <1>3, <1>6
  <2>2. ChannelOnce' /\ OwedOnce' /\ OneTerminal'
    BY <1>1, <1>6, <2>1 DEF Bookkeeping, ChannelOnce, OwedOnce, OneTerminal, Untouched, Accepted, Finished
  <2>3. ListsInPlace'
    BY <1>1, <1>2, <1>6 DEF ListsInPlace, AllReported, Gone, RunPoints, PollPoints
  <2>4. NothingLost'
    BY <1>1, <1>2, <1>6, <2>1 DEF Bookkeeping, NothingLost, Accepted, Finished
  <2> QED BY <1>4, <2>2, <2>3, <2>4 DEF Bookkeeping
<1>7. QED
  BY <1>5, <1>6 DEF ReportResults

\* The idle snapshot, the settlement and the worker's exit.
LEMMA CloseKeepsBook ==
    ASSUME TypeOK, Bookkeeping, PublishSnapshot \/ Settle \/ MarkDisconnected
    PROVE  Bookkeeping'
<1> USE DEF callVars, queueVars, reportVars, eventVars, reportFrame, Leave, Goto
<1>1. /\ worker \in {"snapshot", "settle", "exit"}
      /\ UNCHANGED <<chan, caller, admission, terminals, cur, listVars>>
      /\ worker' = "drop" => worker = "exit"
      /\ worker = "exit" => worker' = "drop" /\ disconnected'
      /\ worker # "exit" => worker' \in {"settle", "recv", "exit"} /\ disconnected' = disconnected
  BY DEF PublishSnapshot, Settle, MarkDisconnected, listVars
<1>2. ~AtWork /\ ~AtWork' /\ Owed' = Owed
  BY <1>1 DEF AtWork, RunPoints, PollPoints, Owed, listVars
<1>3. /\ steering = <<>> /\ followUp = <<>>
      /\ worker # "exit" => AllReported /\ Owed = {}
  BY <1>1, EmptyQueue DEF Bookkeeping, ListsInPlace, AllReported, Gone, Owed, RunPoints, PollPoints
<1>4. ChannelOnce' /\ OwedOnce' /\ OneTerminal'
  BY <1>1, <1>2 DEF Bookkeeping, ChannelOnce, OwedOnce, OneTerminal, Untouched, Accepted, Finished, listVars
<1>5. CurrentOnce'
  BY <1>1, <1>2 DEF CurrentOnce
<1>6. ListsInPlace'
  BY <1>1, <1>3 DEF ListsInPlace, AllReported, Gone, listVars, RunPoints, PollPoints
<1>7. \A e \in Command : worker # "exit" /\ Accepted(e) => Finished(e) /\ HasId(e)
  BY <1>1, <1>2, <1>3 DEF Bookkeeping, NothingLost, Gone
<1>8. NothingLost'
  <2>1. CASE worker = "exit"
    BY <1>1, <2>1 DEF Bookkeeping, NothingLost, Accepted, Gone
  <2>2. CASE worker # "exit"
    BY <1>1, <1>7, <2>2 DEF NothingLost, Accepted, Finished
  <2> QED BY <2>1, <2>2
<1>9. PhaseInPlace'
  <2>1. worker = "snapshot" => worker' \in {"settle", "exit"}
    BY DEF PublishSnapshot, Settle, MarkDisconnected
  <2>2. worker # "snapshot" => phase' = phase
    BY DEF PublishSnapshot, Settle, MarkDisconnected
  <2> QED BY <1>1, <2>1, <2>2 DEF Bookkeeping, PhaseInPlace, Gone
<1>10. IdleOwesNothing'
  <2>1. CASE worker = "exit"
    <3>1. phase' = phase
      BY <2>1 DEF PublishSnapshot, Settle, MarkDisconnected
    <3> QED BY <1>1, <3>1 DEF Bookkeeping, IdleOwesNothing, Accepted, Finished
  <2>2. CASE worker # "exit"
    BY <1>1, <1>7, <2>2 DEF IdleOwesNothing, Accepted, Finished
  <2> QED BY <2>1, <2>2
<1> QED BY <1>4, <1>5, <1>6, <1>8, <1>9, <1>10 DEF Bookkeeping

\* The commands left in the channel are answered, and were never begun.
LEMMA DropReceiverKeepsBook ==
    ASSUME TypeOK, Bookkeeping, DropReceiver
    PROVE  Bookkeeping'
<1> USE DEF callVars, queueVars, reportVars, eventVars, Goto
<1>1. /\ worker = "drop" /\ worker' = "gone" /\ chan' = <<>>
      /\ UNCHANGED <<caller, terminals, cur, disconnected, phase, listVars>>
  BY DEF DropReceiver, listVars
<1>2. /\ \A e \in Command : admission'[e] = admission[e] \/ (Untouched(e) /\ admission'[e] = "disconnected")
      /\ \A e \in Command : caller[e] # "sent" => admission'[e] = admission[e]
  BY DEF DropReceiver, Bookkeeping, ChannelOnce
<1>3. \A e \in Command : (Accepted(e)' <=> Accepted(e)) /\ (Finished(e)' <=> Finished(e))
  BY <1>1, <1>2 DEF Accepted, Finished, Untouched
<1>4. Owed' = Owed /\ Owed \subseteq Command /\ ~AtWork' /\ Gone'
  BY <1>1, RangeEmpty DEF Owed, TypeOK, listVars, AtWork, Gone, RunPoints, PollPoints
<1>5. ChannelOnce'
  BY <1>1, <1>2, EmptyQueue DEF Bookkeeping, ChannelOnce, Untouched
<1>6. CurrentOnce' /\ PhaseInPlace'
  BY <1>1, <1>4 DEF Bookkeeping, CurrentOnce, PhaseInPlace
<1>7. OwedOnce'
  BY <1>1, <1>3, <1>4 DEF Bookkeeping, OwedOnce, listVars
<1>8. ListsInPlace'
  BY <1>1 DEF Bookkeeping, ListsInPlace, listVars, RunPoints, PollPoints, Gone
<1>9. NothingLost' /\ OneTerminal' /\ IdleOwesNothing'
  BY <1>1, <1>3, <1>4 DEF Bookkeeping, NothingLost, OneTerminal, IdleOwesNothing
<1> QED BY <1>5, <1>6, <1>7, <1>8, <1>9 DEF Bookkeeping

-----------------------------------------------------------------------------
(* The theorems.                                                           *)

\* The bookkeeping survives every step.
LEMMA BookStep == TypeOK /\ Bookkeeping /\ [Next]_vars => Bookkeeping'
<1> SUFFICES ASSUME TypeOK, Bookkeeping, [Next]_vars PROVE Bookkeeping'
  OBVIOUS
<1>1. ASSUME NEW c \in Command, Call(c) \/ Progress(c) PROVE Bookkeeping'
  BY <1>1, CallKeepsBook
<1>2. CASE DropControllers \/ DropEvents \/ UNCHANGED vars
  <2>1. UNCHANGED <<idVars, listVars, phase, worker>>
    BY <1>2 DEF DropControllers, DropEvents, vars, workerVars, callVars, queueVars, reportVars,
                eventVars, idVars, listVars
  <2> QED BY <2>1, FrameStep
<1>3. CASE Recv \/ RecvClosed
  BY <1>3, RecvKeepsBook
<1>4. CASE UpdateLive \/ Admit
  BY <1>4, AdmitKeepsBook
<1>5. CASE QuietWork
  BY <1>5, QuietWorkKeepsBook
<1>6. CASE Absorb
  BY <1>6, AbsorbKeepsBook
<1>7. CASE TakeInput \/ InjectSteering
  BY <1>7, PopKeepsBook
<1>8. CASE DropQueues
  BY <1>8, DropKeepsBook
<1>9. CASE FinishMain
  BY <1>9, FinishMainKeepsBook
<1>10. CASE ReportResults
  BY <1>10, ReportKeepsBook
<1>11. CASE PublishSnapshot \/ Settle \/ MarkDisconnected
  BY <1>11, CloseKeepsBook
<1>12. CASE DropReceiver
  BY <1>12, DropReceiverKeepsBook
<1> QED
  BY <1>1, <1>2, <1>3, <1>4, <1>5, <1>6, <1>7, <1>8, <1>9, <1>10, <1>11, <1>12
     DEF Next, Worker, QuietWork, ApprovalCancelled, RespondToApproval, Terminated

\* Type correctness and the bookkeeping together are inductive.
THEOREM SessionInvariant == Spec => []SessionSound
<1>1. Init => SessionSound
  BY TypeInit, BookInit DEF SessionSound
<1>2. SessionSound /\ [Next]_vars => SessionSound'
  BY TypeStep, BookStep DEF Bookkeeping, SessionSound
<1> QED BY <1>1, <1>2, PTL DEF Spec

\* Every variable keeps to its domain, for every set of commands and any bounds.
THEOREM TypeCorrect == Spec => []TypeOK
  BY SessionInvariant, PTL DEF SessionSound

\* No command is reported finished twice, nor without having been accepted.
THEOREM OneTerminalHolds == Spec => []OneTerminal
<1>1. Bookkeeping => OneTerminal
  BY DEF Bookkeeping
<1> QED BY <1>1, SessionInvariant, PTL DEF SessionSound

\* An idle session owes no terminal.
THEOREM IdleOwesNothingHolds == Spec => []IdleOwesNothing
<1>1. Bookkeeping => IdleOwesNothing
  BY DEF Bookkeeping
<1> QED BY <1>1, SessionInvariant, PTL DEF SessionSound

-----------------------------------------------------------------------------
(* The session implements SessionContract.                                 *)

\* Steps the contract does not see.
LEMMA HiddenStep ==
    ASSUME admission' = admission, terminals' = terminals, disconnected' = disconnected,
           phase' = phase \/ (phase # "idle" /\ phase' # "idle")
    PROVE  [Contract!Next]_(Contract!vars)
  BY DEF Contract!vars

\* A command answered by the worker.
LEMMA AnswerStep ==
    ASSUME TypeOK, NEW c \in Command, admission[c] = "none", phase # "idle", ~disconnected,
           admission' = Accept(c) \/ admission' = Reject(c),
           UNCHANGED <<terminals, phase, disconnected>>
    PROVE  [Contract!Next]_(Contract!vars)
<1>1. CASE HasId(c)
  <2>1. \E a \in {"accepted", "busy"} : admission' = [admission EXCEPT ![c] = a]
    BY <1>1 DEF Accept, Reject
  <2>2. Contract!Answer(c)
    BY <2>1 DEF Contract!Answer
  <2> QED BY <2>2 DEF Contract!Next
<1>2. CASE ~HasId(c)
  <2>1. admission' = admission
    BY <1>2 DEF Accept, Reject
  <2> QED BY <2>1, HiddenStep
<1> QED BY <1>1, <1>2

\* A terminal sent for an accepted command.
LEMMA FinishStep ==
    ASSUME TypeOK, NEW c \in Command, NEW status \in Statuses, Accepted(c), terminals[c] = <<>>,
           phase # "idle", ~disconnected, Emit(c, status),
           UNCHANGED <<admission, phase, disconnected>>
    PROVE  [Contract!Next]_(Contract!vars)
<1>1. Append(<<>>, status) = <<status>>
  OBVIOUS
<1>2. terminals' = [terminals EXCEPT ![c] = <<status>>]
  BY <1>1 DEF Emit
<1>3. Contract!Finish(c)
  BY <1>2 DEF Contract!Finish, Accepted, Statuses
<1> QED BY <1>3 DEF Contract!Next

\* Commands answered "disconnected" once the session is closed.
LEMMA DisconnectStep ==
    ASSUME TypeOK, NEW S \in SUBSET {c \in Command : admission[c] = "none"}, disconnected,
           admission' = [c \in Command |-> IF c \in S THEN "disconnected" ELSE admission[c]],
           UNCHANGED <<terminals, phase, disconnected>>
    PROVE  [Contract!Next]_(Contract!vars)
<1>1. Contract!Disconnect
  BY DEF Contract!Disconnect
<1> QED BY <1>1 DEF Contract!Next

\* Every step of the session is a step of the contract, or hidden from it.
LEMMA ContractStep == TypeOK /\ Bookkeeping /\ [Next]_vars => [Contract!Next]_(Contract!vars)
<1> SUFFICES ASSUME TypeOK, Bookkeeping, [Next]_vars PROVE [Contract!Next]_(Contract!vars)
  OBVIOUS
<1> USE DEF Goto, callVars, frontVars, queueVars, reportVars, flagVars, eventVars, sharedVars,
            runFrame, quiet, reportFrame
<1>1. ASSUME NEW c \in Command, Call(c) \/ Signal(c) \/ Send(c)
      PROVE  [Contract!Next]_(Contract!vars)
  BY <1>1, HiddenStep DEF Call, Signal, Send, workerVars
<1>2. ASSUME NEW c \in Command, SendFails(c) PROVE [Contract!Next]_(Contract!vars)
  <2>1. disconnected /\ admission[c] = "none"
    BY <1>2 DEF SendFails, ReadyToSend, Bookkeeping, ChannelOnce, PhaseInPlace, Untouched
  <2>2. UNCHANGED <<terminals, phase, disconnected>>
    BY <1>2 DEF SendFails, workerVars
  <2>3. CASE HasId(c)
    <3> DEFINE S == {c}
    <3>1. S \in SUBSET {e \in Command : admission[e] = "none"}
      BY <2>1
    <3>2. admission' = [e \in Command |-> IF e \in S THEN "disconnected" ELSE admission[e]]
      BY <1>2, <2>3 DEF SendFails, TypeOK
    <3> HIDE DEF S
    <3> QED BY <2>1, <2>2, <3>1, <3>2, DisconnectStep
  <2>4. CASE ~HasId(c)
    BY <1>2, <2>2, <2>4, HiddenStep DEF SendFails
  <2> QED BY <2>3, <2>4
<1>3. CASE DropControllers \/ DropEvents \/ Recv \/ RecvClosed \/ UNCHANGED vars
  BY <1>3, HiddenStep DEF DropControllers, DropEvents, Recv, RecvClosed, vars, workerVars
<1>4. CASE UpdateLive
  <2>1. /\ phase' # "idle" /\ ~disconnected
        /\ UNCHANGED <<admission, terminals, disconnected>>
    BY <1>4 DEF UpdateLive, CommandPhase, Bookkeeping, PhaseInPlace
  <2>2. CASE phase = "idle"
    <3>1. Contract!Wake
      BY <2>1, <2>2 DEF Contract!Wake
    <3> QED BY <3>1 DEF Contract!Next
  <2>3. CASE phase # "idle"
    BY <2>1, <2>3, HiddenStep
  <2> QED BY <2>2, <2>3
<1>5. CASE Admit
  <2>1. /\ cur \in Command /\ admission[cur] = "none" /\ phase # "idle" /\ ~disconnected
    BY <1>5 DEF Admit, Bookkeeping, CurrentOnce, PhaseInPlace, Untouched, Gone
  <2> QED BY <1>5, <2>1, AnswerStep DEF Admit
<1>6. CASE Absorb
  <2>1. worker \in RunPoints /\ chan # <<>>
    BY <1>6 DEF Absorb, RunPoints, PollPoints
  <2>2. Head(chan) \in Command /\ admission[Head(chan)] = "none"
    BY <2>1, TakeHead DEF Bookkeeping, Untouched
  <2>3. phase # "idle" /\ ~disconnected
    BY <2>1 DEF Bookkeeping, PhaseInPlace, RunPoints, PollPoints, Gone
  <2>4. admission' = Accept(Head(chan)) \/ admission' = Reject(Head(chan))
    BY <1>6 DEF Absorb
  <2>5. UNCHANGED <<terminals, phase, disconnected>>
    BY <1>6 DEF Absorb
  <2> QED BY <2>2, <2>3, <2>4, <2>5, AnswerStep
<1>7. CASE \/ HandleInput \/ HandleControl \/ HandleCompact \/ HandleMutate
           \/ StartRound \/ PreparePrompt \/ ModelReturns \/ InterceptStop \/ AfterStop
           \/ TakeInput \/ ToolsDone \/ InjectSteering \/ RepairPlan \/ DropQueues \/ Settle
  BY <1>7, HiddenStep DEF HandleInput, HandleControl, HandleCompact, HandleMutate, StartRound,
     PreparePrompt, ModelReturns, InterceptStop, AfterStop, TakeInput, ToolsDone, InjectSteering,
     RepairPlan, DropQueues, Settle
<1>8. CASE CompactReturns \/ AskApproval \/ ApprovalResolved
  <2>1. phase # "idle" /\ phase' # "idle"
    BY <1>8 DEF CompactReturns, AskApproval, ApprovalResolved, Bookkeeping, PhaseInPlace, Gone
  <2>2. UNCHANGED <<admission, terminals, disconnected>>
    BY <1>8 DEF CompactReturns, AskApproval, ApprovalResolved
  <2> QED BY <2>1, <2>2, HiddenStep
<1>9. CASE FinishMain
  <2>1. /\ cur \in Command /\ terminals[cur] = <<>>
        /\ HasId(cur) => Accepted(cur)
        /\ phase # "idle" /\ ~disconnected
    BY <1>9 DEF FinishMain, Bookkeeping, CurrentOnce, PhaseInPlace, AtWork, Gone
  <2>2. admission' = admission /\ phase' = phase /\ disconnected' = disconnected
    BY <1>9 DEF FinishMain
  <2>3. RunStatus \in Statuses
    BY DEF RunStatus, Statuses
  <2>4. terminals' = terminals \/ (HasId(cur) /\ Emit(cur, RunStatus))
    BY <1>9 DEF FinishMain
  <2>5. CASE terminals' = terminals
    BY <2>1, <2>2, <2>5, HiddenStep
  <2>6. CASE HasId(cur) /\ Emit(cur, RunStatus)
    BY <2>1, <2>2, <2>3, <2>6, FinishStep
  <2> QED BY <2>4, <2>5, <2>6
<1>10. CASE ReportResults
  <2>1. phase # "idle" /\ ~disconnected /\ UNCHANGED <<admission, phase, disconnected>>
    BY <1>10 DEF ReportResults, Bookkeeping, PhaseInPlace, Gone
  <2>2. CASE ReportOne
    <3>1. PICK c \in Owed, status \in Statuses : Emit(c, status)
      BY <2>2 DEF ReportOne, Owed, RunStatus, Statuses
    <3>2. c \in Command /\ Accepted(c) /\ terminals[c] = <<>>
      BY RangeEmpty DEF Bookkeeping, OwedOnce, Owed, TypeOK
    <3> QED BY <2>1, <3>1, <3>2, FinishStep
  <2>3. CASE terminals' = terminals
    BY <2>1, <2>3, HiddenStep
  <2> QED BY <1>10, <2>2, <2>3 DEF ReportResults
<1>11. CASE PublishSnapshot
  <2>1. /\ worker = "snapshot" /\ phase # "idle" /\ ~disconnected
        /\ UNCHANGED <<admission, terminals, disconnected>>
    BY <1>11 DEF PublishSnapshot, Bookkeeping, PhaseInPlace, Gone
  <2>2. \A c \in Command : admission[c] = "accepted" => terminals[c] # <<>>
    <3>1. Owed = {} /\ ~AtWork /\ ~Gone
      BY <2>1, EmptyQueue DEF Bookkeeping, ListsInPlace, AllReported, Owed, AtWork, Gone,
                              RunPoints, PollPoints
    <3> QED BY <3>1 DEF Bookkeeping, NothingLost, Accepted, Finished
  <2>3. CASE phase' = "idle"
    <3>1. Contract!Settle
      BY <2>1, <2>2, <2>3 DEF Contract!Settle
    <3> QED BY <3>1 DEF Contract!Next
  <2>4. CASE phase' # "idle"
    BY <2>1, <2>4, HiddenStep
  <2> QED BY <2>3, <2>4
<1>12. CASE MarkDisconnected
  <2>1. ~disconnected
    BY <1>12 DEF MarkDisconnected, Bookkeeping, PhaseInPlace
  <2>2. Contract!Close
    BY <1>12, <2>1 DEF MarkDisconnected, Contract!Close
  <2> QED BY <2>2 DEF Contract!Next
<1>13. CASE DropReceiver
  <2> DEFINE S == {c \in Range(chan) : HasId(c)}
  <2>1. S \in SUBSET {c \in Command : admission[c] = "none"}
    BY RangeEmpty DEF Bookkeeping, ChannelOnce, Untouched, TypeOK
  <2>2. disconnected
    BY <1>13 DEF DropReceiver, Bookkeeping, PhaseInPlace
  <2>3. admission' = [c \in Command |-> IF c \in S THEN "disconnected" ELSE admission[c]]
    BY <1>13 DEF DropReceiver
  <2>4. UNCHANGED <<terminals, phase, disconnected>>
    BY <1>13 DEF DropReceiver
  <2> HIDE DEF S
  <2> QED BY <2>1, <2>2, <2>3, <2>4, DisconnectStep
<1> QED
  BY <1>1, <1>2, <1>3, <1>4, <1>5, <1>6, <1>7, <1>8, <1>9, <1>10, <1>11, <1>12, <1>13
     DEF Next, Worker, Progress, ApprovalCancelled, RespondToApproval, Terminated

\* The session keeps the contract about command answers and terminals.
THEOREM SessionKeepsContract == Spec => KeepsContract
<1>1. Init => Contract!Init
  BY DEF Init, Contract!Init
<1>2. TypeOK /\ Bookkeeping /\ [Next]_vars => [Contract!Next]_(Contract!vars)
  BY ContractStep
<1> QED BY <1>1, <1>2, SessionInvariant, PTL DEF Spec, KeepsContract, Contract!Spec, SessionSound

-----------------------------------------------------------------------------
(* Aborts and shutdowns met by a run.                                      *)

\* An abort the run has absorbed keeps the flag up and the run between two model calls.
AbortHolds ==
    control # {} /\ worker \in RunPoints =>
        cancel /\ worker \in PollPoints \cup {"round", "drain", "cleanup"}

\* Every step keeps the cancel flag of a run that has absorbed an abort.
LEMMA AbortStep == TypeOK /\ Bookkeeping /\ AbortHolds /\ [Next]_vars => AbortHolds'
<1> SUFFICES ASSUME TypeOK, Bookkeeping, AbortHolds, [Next]_vars,
                    control' # {}, worker' \in RunPoints
             PROVE  cancel' /\ worker' \in PollPoints \cup {"round", "drain", "cleanup"}
  BY DEF AbortHolds
<1> USE DEF Goto, callVars, frontVars, queueVars, reportVars, flagVars, eventVars, sharedVars,
            runFrame, quiet, reportFrame, PollPoints, RunPoints
<1>1. CASE UNCHANGED <<worker, control>> /\ (cancel' = cancel \/ cancel')
  BY <1>1 DEF AbortHolds
<1>2. ASSUME NEW c \in Command, Call(c) \/ Progress(c)
      PROVE UNCHANGED <<worker, control>> /\ (cancel' = cancel \/ cancel')
  BY <1>2 DEF Call, Progress, Signal, Send, SendFails, workerVars
<1>3. CASE DropControllers \/ DropEvents \/ UNCHANGED vars
  BY <1>1, <1>3 DEF DropControllers, DropEvents, vars, workerVars
<1>4. CASE HandleInput
  BY <1>4 DEF HandleInput, Bookkeeping, ListsInPlace, AllReported, Gone
<1>5. CASE \/ StartRound \/ PreparePrompt \/ ModelReturns \/ InterceptStop \/ AfterStop
           \/ AskApproval \/ ApprovalResolved \/ ToolsDone \/ RepairPlan
  <2>1. cancel' = cancel /\ control' = control
    BY <1>5 DEF StartRound, PreparePrompt, ModelReturns, InterceptStop, AfterStop, AskApproval,
                ApprovalResolved, ToolsDone, RepairPlan
  <2>2. worker \in RunPoints
    BY <1>5 DEF StartRound, PreparePrompt, ModelReturns, InterceptStop, AfterStop, AskApproval,
                ApprovalResolved, ToolsDone, RepairPlan
  <2>3. cancel /\ worker \in PollPoints \cup {"round", "drain", "cleanup"}
    BY <2>1, <2>2 DEF AbortHolds
  <2>4. StartRound \/ AfterStop \/ RepairPlan
    BY <1>5, <2>3 DEF PreparePrompt, ModelReturns, InterceptStop, AskApproval, ApprovalResolved,
                      ToolsDone
  <2> QED BY <2>1, <2>3, <2>4 DEF StartRound, AfterStop, RepairPlan, FailRun, Finish, NextRound
<1>6. CASE TakeInput \/ InjectSteering
  <2>1. cancel' = cancel /\ control' = control /\ worker \in RunPoints
    BY <1>6 DEF TakeInput, InjectSteering
  <2>2. worker' \in {"round", "drain", "cleanup"}
    BY <1>6 DEF TakeInput, InjectSteering, CommitInput, FailRun, Finish, NextRound
  <2> QED BY <2>1, <2>2 DEF AbortHolds
<1>7. CASE Absorb
  <2>1. worker' = worker /\ worker \in PollPoints \cup {"drain"}
    BY <1>7 DEF Absorb
  <2>2. CASE control' = control
    BY <1>7, <2>1, <2>2 DEF AbortHolds, Absorb
  <2>3. CASE control' # control
    BY <1>7, <2>1, <2>3 DEF Absorb
  <2> QED BY <2>1, <2>2, <2>3
<1>8. CASE \/ Recv \/ RecvClosed \/ UpdateLive \/ Admit \/ HandleControl \/ HandleCompact
           \/ CompactReturns \/ HandleMutate \/ DropQueues \/ FinishMain \/ ReportResults
           \/ PublishSnapshot \/ Settle \/ MarkDisconnected \/ DropReceiver
  BY <1>8 DEF Recv, RecvClosed, UpdateLive, Admit, HandleControl, HandleCompact, CompactReturns,
     HandleMutate, DropQueues, FinishMain, ReportResults, Leave, PublishSnapshot, Settle,
     MarkDisconnected, DropReceiver
<1> QED
  BY <1>1, <1>2, <1>3, <1>4, <1>5, <1>6, <1>7, <1>8
     DEF Next, Worker, ApprovalCancelled, RespondToApproval, Terminated

\* A run that has admitted an abort makes no further model call.
THEOREM NoModelCallAfterAbortHolds == Spec => []NoModelCallAfterAbort
<1>1. Init => AbortHolds
  BY DEF Init, AbortHolds
<1>2. Spec => []AbortHolds
  BY <1>1, AbortStep, SessionInvariant, PTL DEF Spec, SessionSound
<1>3. AbortHolds => NoModelCallAfterAbort
  BY DEF AbortHolds, NoModelCallAfterAbort, RunPoints, PollPoints
<1> QED BY <1>2, <1>3, PTL

\* An accepted shutdown is being executed, or the worker is bound to stop after this command.
ShutdownTaken ==
    /\ \A c \in Command : Kind[c] = "shutdown" /\ Accepted(c) =>
          stopping \/ Gone \/ (worker = "handle" /\ Kind[cur] = "shutdown")
    /\ stopping => worker \notin {"recv", "begin", "admit", "handle", "compact"}

\* Every step keeps an accepted shutdown in force.
LEMMA ShutdownStep == TypeOK /\ Bookkeeping /\ ShutdownTaken /\ [Next]_vars => ShutdownTaken'
<1> SUFFICES ASSUME TypeOK, Bookkeeping, ShutdownTaken, [Next]_vars PROVE ShutdownTaken'
  OBVIOUS
<1> USE DEF Goto, callVars, frontVars, queueVars, reportVars, flagVars, eventVars, sharedVars,
            runFrame, quiet, reportFrame
<1>1. ASSUME NEW c \in Command, Call(c) \/ Progress(c) PROVE ShutdownTaken'
  <2>1. UNCHANGED <<worker, cur, stopping>>
    BY <1>1 DEF Call, Progress, Signal, Send, SendFails, workerVars
  <2>2. \A e \in Command : Accepted(e)' => Accepted(e)
    BY <1>1 DEF Call, Progress, Signal, Send, SendFails, Accepted, TypeOK
  <2> QED BY <2>1, <2>2 DEF ShutdownTaken, Gone
<1>2. CASE DropControllers \/ DropEvents \/ UNCHANGED vars
  BY <1>2 DEF DropControllers, DropEvents, vars, workerVars, ShutdownTaken, Gone, Accepted
<1>3. CASE Recv \/ RecvClosed \/ UpdateLive
  BY <1>3 DEF Recv, RecvClosed, UpdateLive, ShutdownTaken, Gone, Accepted
<1>4. CASE Admit
  <2>1. /\ worker = "admit" /\ worker' \in {"handle", "exit"} /\ ~stopping
        /\ UNCHANGED <<cur, stopping>> /\ admission' = Accept(cur)
    BY <1>4 DEF Admit, ShutdownTaken
  <2>2. \A e \in Command : Accepted(e)' => Accepted(e) \/ e = cur
    BY <2>1 DEF Accept, Accepted, TypeOK
  <2> QED BY <2>1, <2>2 DEF ShutdownTaken, Gone
<1>5. CASE HandleControl
  BY <1>5 DEF HandleControl, ShutdownTaken, Gone, Accepted
<1>6. CASE Absorb
  <2>1. /\ worker \in RunPoints /\ worker' = worker /\ cur' = cur /\ chan # <<>>
        /\ stopping' = (stopping \/ Stops(Head(chan)))
    BY <1>6 DEF Absorb, RunPoints, PollPoints
  <2>2. \A e \in Command : Accepted(e)' => Accepted(e) \/ e = Head(chan)
    BY <1>6 DEF Absorb, Accept, Reject, Accepted, TypeOK
  <2>3. Kind[Head(chan)] = "shutdown" => stopping'
    BY <2>1 DEF Stops
  <2> QED BY <2>1, <2>2, <2>3 DEF ShutdownTaken, Gone, RunPoints, PollPoints
<1>7. CASE \/ HandleInput \/ HandleCompact \/ CompactReturns \/ HandleMutate \/ StartRound
           \/ PreparePrompt \/ ModelReturns \/ InterceptStop \/ AfterStop \/ TakeInput
           \/ AskApproval \/ ApprovalResolved \/ ToolsDone \/ InjectSteering \/ RepairPlan
           \/ DropQueues \/ FinishMain \/ ReportResults \/ PublishSnapshot \/ Settle
           \/ MarkDisconnected
  <2>1. UNCHANGED <<admission, cur, stopping>>
    BY <1>7 DEF HandleInput, HandleCompact, CompactReturns, HandleMutate, StartRound,
       PreparePrompt, ModelReturns, InterceptStop, AfterStop, TakeInput, AskApproval,
       ApprovalResolved, ToolsDone, InjectSteering, RepairPlan, DropQueues, FinishMain,
       ReportResults, PublishSnapshot, Settle, MarkDisconnected
  <2>2. worker = "handle" => Kind[cur] # "shutdown"
    BY <1>7 DEF HandleInput, HandleCompact, CompactReturns, HandleMutate, StartRound,
       PreparePrompt, ModelReturns, InterceptStop, AfterStop, TakeInput, AskApproval,
       ApprovalResolved, ToolsDone, InjectSteering, RepairPlan, DropQueues, FinishMain,
       ReportResults, PublishSnapshot, Settle, MarkDisconnected, IsInput, Inputs,
       RunPoints, PollPoints
  <2>3. /\ worker' \in {"recv", "begin", "admit", "handle", "compact"}
              => worker \in {"handle", "compact"} \/ ~stopping
        /\ Gone => Gone'
    BY <1>7 DEF HandleInput, HandleCompact, CompactReturns, HandleMutate, StartRound,
       PreparePrompt, ModelReturns, InterceptStop, AfterStop, TakeInput, AskApproval,
       ApprovalResolved, ToolsDone, InjectSteering, RepairPlan, DropQueues, FinishMain,
       ReportResults, PublishSnapshot, Settle, MarkDisconnected, Gone, FailRun, Finish,
       NextRound, CommitInput, Leave, PollPoints
  <2> QED BY <2>1, <2>2, <2>3 DEF ShutdownTaken, Accepted
<1>8. CASE DropReceiver
  BY <1>8 DEF DropReceiver, ShutdownTaken, Gone
<1> QED
  BY <1>1, <1>2, <1>3, <1>4, <1>5, <1>6, <1>7, <1>8
     DEF Next, Worker, ApprovalCancelled, RespondToApproval, Terminated

\* A session that accepted a shutdown never waits for another command.
THEOREM ShutdownIsFinalHolds == Spec => []ShutdownIsFinal
<1>1. Init => ShutdownTaken
  BY DEF Init, ShutdownTaken, Accepted
<1>2. Spec => []ShutdownTaken
  BY <1>1, ShutdownStep, SessionInvariant, PTL DEF Spec, SessionSound
<1>3. ShutdownTaken => ShutdownIsFinal
  BY DEF ShutdownTaken, ShutdownIsFinal, Gone
<1> QED BY <1>2, <1>3, PTL
=============================================================================
