------------------------ MODULE McpConnectionProofs ------------------------
(***************************************************************************)
(* Theorems about McpConnection for every number of calls and pages and    *)
(* every capacity of the two pipes: the slots are those of the request in  *)
(* flight, an answer is taken only for the request it answers, and a call  *)
(* that gave up has told the server.                                       *)
(***************************************************************************)
EXTENDS McpConnection, SequenceTheorems, TLAPS

-----------------------------------------------------------------------------
(* The inductive invariant.                                                *)

Purpose == Request \cup {"initialized", "cancelled", "reply", "none"}
Msg     == [id : Nat, for : Purpose]
Line    == [kind : {"response", "notification", "request", "noise", "tooLong"},
            id : Nat, answer : Answer]

\* The messages on their way, and the ids the server knows, are of their types.
Typed ==
    /\ input \in Seq(Msg) /\ output \in Seq(Line)
    /\ told \in Msg \X Msg
    /\ \A i \in DOMAIN heard : i \in 0..id /\ heard[i] \in Request

InFlight == {"register", "lock", "write", "wait"}

\* What the host is doing says what for, and how far the handshake is.
Stages ==
    /\ at \in {"register", "wait"} => op \in Request
    /\ at = "idle" => op = "call"
    /\ at \in InFlight /\ op \in {"discover", "initialize", "initialized"} => page = 0
    /\ at \in InFlight /\ op = "list" => page < MaxPages
    /\ reader # "ended" => noise <= MaxNoise

\* One thread writes to the server at a time.
LockOwned ==
    /\ lock = "host" <=> at = "write"
    /\ lock = "reader" <=> reader = "reply"

\* The call the host waits for, or gives up, is the last thing it told the server.
CallMessage == [id |-> id, for |-> "call"]
History ==
    /\ at = "wait" /\ op = "call" => told[2] = CallMessage
    /\ at \in {"lock", "write"} /\ op = "cancelled" => told[2] = CallMessage

\* An id is asked once: it is not yet written, on its way, or heard.
Asks(m) == m.for \in Request
Once ==
    /\ \A k \in 1..Len(input) : Asks(input[k]) => input[k].id \in (0..id) \ DOMAIN heard
    /\ \A j, k \in 1..Len(input) :
          Asks(input[j]) /\ Asks(input[k]) /\ input[j].id = input[k].id => j = k
    /\ at \in {"lock", "write"} /\ IsRequest =>
          /\ id \notin DOMAIN heard
          /\ \A k \in 1..Len(input) : Asks(input[k]) => input[k].id # id
    /\ at = "wait" =>
          /\ id \in DOMAIN heard => heard[id] = op
          /\ \A k \in 1..Len(input) :
                Asks(input[k]) /\ input[k].id = id => input[k].for = op

\* A response answers a request the server has heard; so does what is in a slot.
Fits(i, a) == i \in DOMAIN heard /\ a \in May[heard[i]]
Answers ==
    /\ \A k \in 1..Len(output) :
          output[k].kind = "response" => Fits(output[k].id, output[k].answer)
    /\ \A i \in DOMAIN pending : pending[i] # "waiting" => Fits(i, pending[i])

ConnInv == TypeOK /\ Typed /\ Stages /\ LockOwned /\ SlotsBalanced
           /\ History /\ CancelTold /\ Once /\ Answers

-----------------------------------------------------------------------------
(* The messages on their way.                                              *)

\* What a queue of messages holds after one is appended, or taken.
LEMMA Appended ==
    ASSUME NEW S, NEW q \in Seq(S), NEW e \in S
    PROVE  /\ Append(q, e) \in Seq(S)
           /\ Len(q) \in Nat /\ Len(Append(q, e)) = Len(q) + 1
           /\ \A k \in 1..Len(q) : Append(q, e)[k] = q[k]
           /\ Append(q, e)[Len(q) + 1] = e
  BY AppendProperties, LenProperties

LEMMA Taken ==
    ASSUME NEW S, NEW q \in Seq(S), q # <<>>
    PROVE  /\ Head(q) \in S /\ Head(q) = q[1]
           /\ Tail(q) \in Seq(S)
           /\ Len(q) \in Nat \ {0} /\ Len(Tail(q)) = Len(q) - 1
           /\ \A k \in 1..Len(q) - 1 : Tail(q)[k] = q[k + 1]
  BY HeadTailProperties, LenProperties

\* Every response the server may give is an answer.
LEMMA MayAnswer == \A r \in Request : May[r] \subseteq Answer
  BY DEF May, Request, Answer

-----------------------------------------------------------------------------
(* The initial state.                                                      *)

LEMMA InitConn == Init => ConnInv
<1> SUFFICES ASSUME Init PROVE ConnInv
  OBVIOUS
<1> USE McpAssumption
<1>1. TypeOK
  <2>1. DOMAIN pending = {} /\ Len(input) = 0 /\ Len(output) = 0
    BY DEF Init
  <2>2. 0 \in Nat /\ 0 \in 0..MaxPages /\ 0 \in 0..MaxCalls /\ 0 \in 0..MaxNoise + 1
        /\ 0 <= PipeCap /\ 0 <= OutCap
    BY DEF McpAssumption
  <2> QED BY <2>1, <2>2 DEF Init, TypeOK, Request
<1>2. Typed
  <2>1. NoMessage \in Msg
    BY DEF NoMessage, Msg, Purpose
  <2>2. DOMAIN heard = {}
    BY DEF Init
  <2> QED BY <2>1, <2>2 DEF Init, Typed
<1>3. Stages /\ LockOwned /\ History
  BY DEF Init, McpAssumption, Stages, InFlight, LockOwned, History, Request
<1>4. SlotsBalanced /\ CancelTold
  <2>1. DOMAIN pending = {}
    BY DEF Init
  <2> QED BY <2>1 DEF Init, SlotsBalanced, CancelTold, NoMessage
<1>5. Once /\ Answers
  <2>1. DOMAIN pending = {} /\ Len(input) = 0 /\ Len(output) = 0
    BY DEF Init
  <2> QED BY <2>1 DEF Init, Once, Answers
<1> QED BY <1>1, <1>2, <1>3, <1>4, <1>5 DEF ConnInv

-----------------------------------------------------------------------------
(* What every step relies on.                                              *)

\* The facts about the counters and the threads the step proofs use.
LEMMA Facts ==
    ASSUME ConnInv
    PROVE  /\ at \in {"register", "lock", "write", "wait", "idle", "close", "reap", "join", "closed"}
           /\ op \in {"discover", "initialize", "list", "call", "initialized", "cancelled"}
           /\ id \in Nat /\ page \in 0..MaxPages /\ calls \in 0..MaxCalls
           /\ noise \in 0..MaxNoise + 1
           /\ MaxPages \in Nat \ {0} /\ MaxCalls \in Nat /\ MaxNoise \in Nat
           /\ failed \in BOOLEAN /\ cancel \in BOOLEAN /\ late \in BOOLEAN
  BY McpAssumption DEF ConnInv, TypeOK, Request

\* The server writes a line of its own, or a response it may give.
LEMMA LineWritten ==
    ASSUME ConnInv, ServerWrites
    PROVE  \E line \in Line :
              /\ Len(output) < OutCap /\ output' = Append(output, line)
              /\ line.kind = "response" => Fits(line.id, line.answer)
<1> DEFINE Own == [kind : {"notification", "request", "noise", "tooLong"}, id : {0}, answer : {"error"}]
           Response(i) == [kind : {"response"}, id : {i}, answer : May[heard[i]]]
<1>1. PICK line : /\ Len(output) < OutCap /\ output' = Append(output, line)
                  /\ line \in Own \/ \E i \in DOMAIN heard : line \in Response(i)
  BY DEF ServerWrites
<1>2. CASE line \in Own
  <2>1. line \in Line /\ line.kind # "response"
    BY <1>2 DEF Line, Answer
  <2> QED BY <1>1, <2>1
<1>3. CASE \E i \in DOMAIN heard : line \in Response(i)
  <2>1. PICK i \in DOMAIN heard : line \in Response(i)
    BY <1>3
  <2>2. May[heard[i]] \subseteq Answer /\ i \in Nat
    BY MayAnswer, Facts DEF ConnInv, Typed
  <2>3. line \in Line /\ line.id = i /\ line.answer \in May[heard[i]]
    BY <2>1, <2>2 DEF Line
  <2> QED BY <1>1, <2>3 DEF Fits
<1> QED BY <1>1, <1>2, <1>3

-----------------------------------------------------------------------------
(* The messages on their way stay of their types.                          *)

LEMMA TypedStep ==
    ASSUME ConnInv, Next PROVE Typed'
<1>1. /\ input \in Seq(Msg) /\ output \in Seq(Line) /\ told \in Msg \X Msg
      /\ \A i \in DOMAIN heard : i \in 0..id /\ heard[i] \in Request
      /\ id \in Nat /\ op \in Request \cup {"initialized", "cancelled"}
  BY DEF ConnInv, Typed, TypeOK
<1>2. NoMessage \in Msg /\ Message \in Msg /\ [id |-> 0, for |-> "reply"] \in Msg
  BY <1>1 DEF NoMessage, Message, Msg, Purpose
<1>3. told' \in Msg \X Msg
  <2>1. CASE HostWrites
    BY <1>1, <1>2, <2>1 DEF HostWrites
  <2>2. CASE StartCall \/ HostCloses
    BY <1>2, <2>2 DEF StartCall, HostCloses
  <2>3. CASE told' = told
    BY <1>1, <2>3
  <2> QED BY <2>1, <2>2, <2>3 DEF Next, Host, Reader, ReaderUnchanged, ServerUnchanged,
        Register, HostLocks, HostWriteFails, Wait, CloseInput, Reap, Join, ReadLine, ReadFails,
        ReaderLocks, ReaderReplies, ServerTakes, ServerWrites, ServerExits, UserCancels,
        DeadlinePasses, Closed, vars
<1>4. input' \in Seq(Msg)
  <2>1. CASE HostWrites
    <3>1. input' = Append(input, Message) /\ Message \in Msg
      BY <1>2, <2>1 DEF HostWrites
    <3> QED BY <1>1, <3>1, Appended
  <2>2. CASE ReaderReplies
    <3>1. input' = input \/ input' = Append(input, [id |-> 0, for |-> "reply"])
      BY <2>2 DEF ReaderReplies
    <3> QED BY <1>1, <1>2, <3>1, Appended
  <2>3. CASE ServerTakes
    BY <1>1, <2>3, Taken DEF ServerTakes
  <2>4. CASE input' = input
    BY <1>1, <2>4
  <2> QED BY <2>1, <2>2, <2>3, <2>4 DEF Next, Host, Reader, ServerUnchanged,
        Register, HostLocks, HostWriteFails, Wait, StartCall, HostCloses, CloseInput, Reap, Join,
        ReadLine, ReadFails, ReaderLocks, ServerWrites, ServerExits, UserCancels,
        DeadlinePasses, Closed, vars
<1>5. output' \in Seq(Line)
  <2>1. CASE ReadLine
    BY <1>1, <2>1, Taken DEF ReadLine
  <2>2. CASE ServerWrites
    <3>1. PICK line \in Line : output' = Append(output, line)
      BY <2>2, LineWritten
    <3> QED BY <1>1, <3>1, Appended
  <2>3. CASE output' = output
    BY <1>1, <2>3
  <2> QED BY <2>1, <2>2, <2>3 DEF Next, Host, Reader, ServerUnchanged,
        Register, HostLocks, HostWrites, HostWriteFails, Wait, StartCall, HostCloses, CloseInput,
        Reap, Join, ReadFails, ReaderLocks, ReaderReplies, ServerTakes, ServerExits, UserCancels,
        DeadlinePasses, Closed, vars
<1>6. \A i \in DOMAIN heard' : i \in 0..id' /\ heard'[i] \in Request
  <2>1. CASE Register
    BY <1>1, <2>1 DEF Register, serverVars
  <2>2. CASE ServerTakes
    <3>1. input # <<>> /\ Head(input) = input[1] /\ Len(input) \in Nat \ {0}
      BY <1>1, <2>2, Taken DEF ServerTakes
    <3>2. Asks(Head(input)) => Head(input).id \in 0..id
      BY <3>1, 1 \in 1..Len(input) DEF ConnInv, Once
    <3> DEFINE m == Head(input)
    <3>3. m.for \in Request =>
            heard' = [i \in DOMAIN heard \cup {m.id} |-> IF i = m.id THEN m.for ELSE heard[i]]
      BY <2>2 DEF ServerTakes
    <3>4. m.for \notin Request => heard' = heard
      BY <2>2 DEF ServerTakes
    <3>5. id' = id
      BY <2>2 DEF ServerTakes, ServerUnchanged, hostVars
    <3> HIDE DEF m
    <3>6. m.for \in Request => m.id \in 0..id
      BY <3>2 DEF m, Asks
    <3> QED BY <1>1, <3>3, <3>4, <3>5, <3>6
  <2>3. CASE heard' = heard /\ id' = id
    BY <1>1, <2>3
  <2> QED BY <2>1, <2>2, <2>3 DEF Next, Host, Reader, ReaderUnchanged, ServerUnchanged,
        hostVars, serverVars, HostLocks, HostWrites, HostWriteFails, Wait, StartCall, HostCloses,
        CloseInput, Reap, Join, ReadLine, ReadFails, ReaderLocks, ReaderReplies, ServerWrites,
        ServerExits, UserCancels, DeadlinePasses, Closed, vars
<1> QED BY <1>3, <1>4, <1>5, <1>6 DEF Typed

-----------------------------------------------------------------------------
(* What the host and the reader are doing, and who holds the lock.         *)

\* The answers of a wait, whatever they say, leave the host at one of these.
LEMMA Continues ==
    ASSUME ConnInv, NEW r, Continue(r)
    PROVE  /\ op \in Request
           /\ \/ at' = "register" /\ op' \in {"initialize", "list"} /\ UNCHANGED outcome
              \/ at' = "lock" /\ op' = "initialized" /\ UNCHANGED outcome
              \/ at' = "idle" /\ op' = "call"
                   /\ outcome' \in {"ready", "result", "protocol", "rpc"}
              \/ at' = "close" /\ op' = op /\ op # "call"
                   /\ outcome' \in {"incompatible", "rejected"}
           /\ era' \in {era, "modern"}
           /\ at = "wait" => page' \in 0..MaxPages
           /\ at = "wait" /\ at' \in InFlight =>
                 /\ op' = "list" => page' < MaxPages
                 /\ op' \in {"initialize", "initialized"} => page' = 0
<1>1. CASE op = "discover" /\ DiscoverReturns(r) /\ UNCHANGED page
  BY <1>1, Facts DEF ConnInv, Stages, InFlight, DiscoverReturns, Goes, Fails, Ends, Request
<1>2. CASE op = "initialize" /\ InitializeReturns(r) /\ UNCHANGED page
  BY <1>2, Facts DEF ConnInv, Stages, InFlight, InitializeReturns, Fails, Ends, Request
<1>3. CASE op = "list" /\ ListReturns(r) /\ page' = page + 1
  BY <1>3, Facts DEF ConnInv, Stages, InFlight, ListReturns, Goes, Ready, Fails, Ends, Request
<1>4. CASE op = "call" /\ CallReturns(r) /\ UNCHANGED page
  BY <1>4, Facts DEF ConnInv, Stages, InFlight, CallReturns, Fails, Ends, Request
<1> QED BY <1>1, <1>2, <1>3, <1>4 DEF Continue

\* The host after a wait.
LEMMA Waits ==
    ASSUME ConnInv, Wait
    PROVE  \/ at' = "register" /\ op' \in {"initialize", "list"} /\ UNCHANGED outcome
           \/ at' = "lock" /\ op' = "initialized" /\ UNCHANGED outcome
           \/ at' = "lock" /\ op' = "cancelled" /\ op = "call" /\ outcome' \in {"aborted", "timeout"}
           \/ at' = "idle" /\ op' = "call" /\ outcome' \in {"ready", "result", "protocol", "rpc", "unavailable"}
           \/ at' = "close" /\ op' = op
                /\ outcome' \in {"incompatible", "rejected", "unavailable"}
<1>1. CASE \E r : Continue(r)
  BY <1>1, Continues
<1>2. CASE Fails("unavailable")
  BY <1>2 DEF Fails, Ends
<1>3. CASE Abandon("aborted") \/ Abandon("timeout")
  BY <1>3 DEF Abandon
<1> QED BY <1>1, <1>2, <1>3 DEF Wait

LEMMA StagesStep ==
    ASSUME ConnInv, Next PROVE Stages' /\ LockOwned'
<1> USE Facts DEF InFlight, Request
<1>0. Stages /\ LockOwned
  BY DEF ConnInv
<1>1. CASE Register
  BY <1>0, <1>1 DEF Stages, LockOwned, Register, Ends, sharedVars
<1>2. CASE HostLocks
  BY <1>0, <1>2 DEF Stages, LockOwned, HostLocks, sharedVars
<1>3. CASE HostWrites
  BY <1>0, <1>3 DEF Stages, LockOwned, HostWrites, IsRequest, AfterNotification, sharedVars
<1>4. CASE HostWriteFails
  BY <1>0, <1>4 DEF Stages, LockOwned, HostWriteFails, Ends
<1>5. CASE Wait
  <2>1. page' \in 0..MaxPages /\ (at' \in InFlight =>
           /\ op' = "list" => page' < MaxPages
           /\ op' \in {"initialize", "initialized"} => page' = 0)
    <3>1. CASE \E r : Continue(r)
      BY <1>5, <3>1, Continues DEF Wait
    <3>2. CASE Fails("unavailable") /\ UNCHANGED page
      BY <1>0, <1>5, <3>2 DEF Wait, Fails, Ends, Stages
    <3>3. CASE Abandon("aborted") \/ Abandon("timeout")
      BY <1>0, <3>3 DEF Abandon
    <3> QED BY <1>5, <3>1, <3>2, <3>3 DEF Wait
  <2>2. at = "wait" /\ UNCHANGED <<noise, reader, lock>>
    BY <1>5 DEF Wait
  <2> QED BY <1>0, <1>5, <2>1, <2>2, Waits DEF Stages, LockOwned
<1>6. CASE StartCall
  BY <1>0, <1>6 DEF Stages, LockOwned, StartCall, sharedVars
<1>7. CASE HostCloses \/ CloseInput \/ Reap \/ Join
  BY <1>0, <1>7 DEF Stages, LockOwned, HostCloses, CloseInput, Reap, Join, sharedVars
<1>8. CASE ReadLine
  BY <1>0, <1>8 DEF Stages, LockOwned, ReadLine, ReaderUnchanged, hostVars
<1>9. CASE ReadFails \/ ReaderLocks \/ ReaderReplies
  BY <1>0, <1>9 DEF Stages, LockOwned, ReadFails, ReaderLocks, ReaderReplies, ReaderUnchanged,
        hostVars, sharedVars
<1>10. CASE ServerTakes \/ ServerWrites \/ ServerExits \/ UserCancels \/ DeadlinePasses \/ Closed
  BY <1>0, <1>10 DEF Stages, LockOwned, ServerTakes, ServerWrites, ServerExits, UserCancels,
        DeadlinePasses, Closed, ServerUnchanged, hostVars, sharedVars, vars
<1> QED BY <1>1, <1>2, <1>3, <1>4, <1>5, <1>6, <1>7, <1>8, <1>9, <1>10 DEF Next, Host, Reader

-----------------------------------------------------------------------------
(* The type invariant.                                                     *)

\* What is in the slots is of its type, and what the reader puts there.
LEMMA SlotsTyped ==
    ASSUME ConnInv, Next
    PROVE  \A i \in DOMAIN pending' : i \in Nat /\ pending'[i] \in Answer \cup {"waiting"}
<1>1. id \in Nat /\ \A i \in DOMAIN pending : i \in Nat /\ pending[i] \in Answer \cup {"waiting"}
  BY DEF ConnInv, TypeOK
<1>2. CASE Register
  BY <1>1, <1>2 DEF Register, Slot
<1>3. CASE HostWriteFails \/ Wait
  BY <1>1, <1>3 DEF HostWriteFails, Wait, Without
<1>4. CASE ReadLine
  <2>1. Head(output) \in Line
    BY <1>4, Taken DEF ConnInv, Typed, ReadLine
  <2> DEFINE line == Head(output)
  <2>2. line.id \in Nat /\ line.answer \in Answer
    BY <2>1 DEF Line
  <2>3. pending' = pending \/ (line.id \in DOMAIN pending /\ pending' = Slot(line.id, line.answer))
    BY <1>4 DEF ReadLine, Deliver
  <2> HIDE DEF line
  <2> QED BY <1>1, <2>2, <2>3 DEF Slot
<1>5. CASE pending' = pending
  BY <1>1, <1>5
<1> QED BY <1>2, <1>3, <1>4, <1>5 DEF Next, Host, Reader, ReaderUnchanged, ServerUnchanged,
        sharedVars, HostLocks, HostWrites, StartCall, HostCloses, CloseInput, Reap, Join,
        ReadFails, ReaderLocks, ReaderReplies, ServerTakes, ServerWrites, ServerExits,
        UserCancels, DeadlinePasses, Closed, vars

\* The two pipes stay within their capacities.
LEMMA PipesBounded ==
    ASSUME ConnInv, Next
    PROVE  Len(input') <= PipeCap /\ Len(output') <= OutCap
<1>1. /\ input \in Seq(Msg) /\ output \in Seq(Line)
      /\ Len(input) \in Nat /\ Len(output) \in Nat
      /\ Len(input) <= PipeCap /\ Len(output) <= OutCap /\ PipeCap \in Nat /\ OutCap \in Nat
  BY McpAssumption, LenProperties DEF ConnInv, Typed, TypeOK
<1>2. Len(input') <= PipeCap
  <2>1. Message \in Msg /\ [id |-> 0, for |-> "reply"] \in Msg
    BY Facts DEF Message, Msg, Purpose, Request
  <2>2. CASE HostWrites
    BY <1>1, <2>1, <2>2, Appended DEF HostWrites
  <2>3. CASE ReaderReplies
    BY <1>1, <2>1, <2>3, Appended DEF ReaderReplies
  <2>4. CASE ServerTakes
    BY <1>1, <2>4, Taken DEF ServerTakes
  <2>5. CASE input' = input
    BY <1>1, <2>5
  <2> QED BY <2>2, <2>3, <2>4, <2>5 DEF Next, Host, Reader, ServerUnchanged,
        Register, HostLocks, HostWriteFails, Wait, StartCall, HostCloses, CloseInput,
        Reap, Join, ReadLine, ReadFails, ReaderLocks, ServerWrites,
        ServerExits, UserCancels, DeadlinePasses, Closed, vars
<1>3. Len(output') <= OutCap
  <2>1. CASE ReadLine
    BY <1>1, <2>1, Taken DEF ReadLine
  <2>2. CASE ServerWrites
    <3>1. PICK line \in Line : Len(output) < OutCap /\ output' = Append(output, line)
      BY <2>2, LineWritten
    <3> QED BY <1>1, <3>1, Appended
  <2>3. CASE output' = output
    BY <1>1, <2>3
  <2> QED BY <2>1, <2>2, <2>3 DEF Next, Host, Reader, ServerUnchanged,
        Register, HostLocks, HostWrites, HostWriteFails, Wait, StartCall, HostCloses, CloseInput,
        Reap, Join, ReadFails, ReaderLocks, ReaderReplies, ServerTakes, ServerExits, UserCancels,
        DeadlinePasses, Closed, vars
<1> QED BY <1>2, <1>3

\* Everything of the host, the reader and the server but the messages.
ScalarsOK ==
    /\ at \in {"register", "lock", "write", "wait", "idle", "close", "reap", "join", "closed"}
    /\ op \in {"discover", "initialize", "list", "call", "initialized", "cancelled"}
    /\ id \in Nat /\ page \in 0..MaxPages /\ calls \in 0..MaxCalls
    /\ era \in {"unknown", "modern", "legacy"}
    /\ outcome \in {"none", "ready", "incompatible", "rejected", "unavailable", "result",
                    "protocol", "rpc", "aborted", "timeout"}
    /\ failed \in BOOLEAN /\ cancel \in BOOLEAN /\ late \in BOOLEAN
    /\ noise \in 0..MaxNoise + 1
    /\ writer \in {"open", "closed"} /\ lock \in {"none", "host", "reader"}
    /\ reader \in {"read", "lock", "reply", "ended"} /\ server \in {"up", "exited"}
    /\ tree \in {"job", "other", "unknown"}

LEMMA ScalarsStep ==
    ASSUME ConnInv, Next PROVE ScalarsOK'
<1>1. ScalarsOK
  <2>1. tree \in {"job", "other", "unknown"}
    BY DEF ConnInv, TypeOK, Trees
  <2> QED BY <2>1, Facts DEF ConnInv, TypeOK, ScalarsOK
<1>2. CASE Register
  BY <1>1, <1>2 DEF ScalarsOK, Register, Ends, serverVars
<1>3. CASE HostLocks
  BY <1>1, <1>3 DEF ScalarsOK, HostLocks, sharedVars, serverVars
<1>4. CASE HostWrites
  BY <1>1, <1>4 DEF ScalarsOK, HostWrites, AfterNotification, sharedVars, serverVars
<1>5. CASE HostWriteFails
  BY <1>1, <1>5 DEF ScalarsOK, HostWriteFails, Ends, serverVars
<1>6. CASE Wait
  <2>1. era' \in {era, "modern"} /\ page' \in 0..MaxPages
    <3>1. CASE \E r : Continue(r)
      BY <1>6, <3>1, Continues DEF Wait
    <3>2. CASE UNCHANGED <<page, era>>
      BY <1>1, <3>2 DEF ScalarsOK
    <3> QED BY <1>6, <3>1, <3>2 DEF Wait, Abandon
  <2>2. late' \in BOOLEAN
    BY <1>1, <1>6 DEF Wait, ScalarsOK
  <2>3. /\ cancel' = FALSE
        /\ UNCHANGED <<id, calls, failed, noise, writer, lock, reader, server, tree>>
    BY <1>6 DEF Wait, serverVars
  <2>4. /\ at' \in {"register", "lock", "idle", "close"}
        /\ op' \in {op, "initialize", "list", "call", "initialized", "cancelled"}
        /\ outcome' \in {outcome, "ready", "incompatible", "rejected", "unavailable", "result",
                         "protocol", "rpc", "aborted", "timeout"}
    BY <1>6, Waits
  <2>5. id' \in Nat /\ page' \in 0..MaxPages /\ calls' \in 0..MaxCalls /\ noise' \in 0..MaxNoise + 1
    BY <2>1, <2>3, Facts
  <2>6. /\ at' \in {"register", "lock", "write", "wait", "idle", "close", "reap", "join", "closed"}
        /\ op' \in {"discover", "initialize", "list", "call", "initialized", "cancelled"}
        /\ era' \in {"unknown", "modern", "legacy"}
    BY <1>1, <2>1, <2>4 DEF ScalarsOK
  <2>7. outcome' \in {"none", "ready", "incompatible", "rejected", "unavailable", "result",
                      "protocol", "rpc", "aborted", "timeout"}
    BY <1>1, <2>4 DEF ScalarsOK
  <2>8. /\ failed' \in BOOLEAN /\ cancel' \in BOOLEAN /\ late' \in BOOLEAN
        /\ writer' \in {"open", "closed"} /\ lock' \in {"none", "host", "reader"}
        /\ reader' \in {"read", "lock", "reply", "ended"} /\ server' \in {"up", "exited"}
        /\ tree' \in {"job", "other", "unknown"}
    BY <1>1, <2>2, <2>3 DEF ScalarsOK
  <2> QED BY <2>5, <2>6, <2>7, <2>8 DEF ScalarsOK
<1>7. CASE StartCall
  BY <1>1, <1>7, Facts DEF ScalarsOK, StartCall, sharedVars, serverVars
<1>8. CASE HostCloses \/ CloseInput \/ Reap \/ Join
  BY <1>1, <1>8 DEF ScalarsOK, HostCloses, CloseInput, Reap, Trees, Join, sharedVars, serverVars
<1>9. CASE ReadLine
  <2>1. noise' \in 0..MaxNoise + 1
    BY <1>9, Facts DEF ReadLine, ConnInv, Stages
  <2>2. failed' \in BOOLEAN
    BY <1>1, <1>9 DEF ReadLine, ScalarsOK
  <2>3. reader' \in {"read", "lock", "ended"}
    BY <1>9 DEF ReadLine
  <2>4. UNCHANGED <<hostVars, cancel, late, writer, server, tree, lock>>
    BY <1>9 DEF ReadLine, ReaderUnchanged, serverVars
  <2> QED BY <1>1, <2>1, <2>2, <2>3, <2>4 DEF ScalarsOK, hostVars
<1>10. CASE ReadFails \/ ReaderLocks \/ ReaderReplies
  BY <1>1, <1>10 DEF ScalarsOK, ReadFails, ReaderLocks, ReaderReplies, ReaderUnchanged,
        hostVars, sharedVars, serverVars
<1>11. CASE ServerTakes \/ ServerWrites \/ ServerExits \/ UserCancels \/ DeadlinePasses \/ Closed
  BY <1>1, <1>11 DEF ScalarsOK, ServerTakes, ServerWrites, ServerExits, UserCancels,
        DeadlinePasses, Closed, ServerUnchanged, hostVars, sharedVars, serverVars, vars
<1> QED BY <1>2, <1>3, <1>4, <1>5, <1>6, <1>7, <1>8, <1>9, <1>10, <1>11 DEF Next, Host, Reader

LEMMA TypeStep ==
    ASSUME ConnInv, Next PROVE TypeOK'
BY SlotsTyped, PipesBounded, ScalarsStep DEF TypeOK, ScalarsOK, Request, Trees

-----------------------------------------------------------------------------
(* The slots and the history of the call.                                  *)

LEMMA SlotsStep ==
    ASSUME ConnInv, Next PROVE SlotsBalanced'
<1>0. SlotsBalanced /\ Stages
  BY DEF ConnInv
<1> DEFINE Dom == DOMAIN pending
<1>1. Dom = IF at = "wait" \/ (at \in {"lock", "write"} /\ op \in Request) THEN {id} ELSE {}
  BY <1>0 DEF SlotsBalanced, IsRequest
<1> SUFFICES Dom' = IF at' = "wait" \/ (at' \in {"lock", "write"} /\ op' \in Request) THEN {id'} ELSE {}
  BY DEF SlotsBalanced, IsRequest
<1> HIDE DEF Dom
<1>2. CASE Register
  <2>1. at = "register" /\ op \in Request /\ op' = op /\ Dom = {}
    BY <1>0, <1>1, <1>2 DEF Register, Stages
  <2>2. CASE failed
    BY <1>2, <2>1, <2>2 DEF Register, Ends, Dom
  <2>3. CASE ~failed
    BY <1>2, <2>1, <2>3 DEF Register, Slot, Dom
  <2> QED BY <2>2, <2>3
<1>3. CASE HostLocks
  BY <1>1, <1>3 DEF HostLocks, sharedVars, Dom
<1>4. CASE HostWrites
  <2>1. Dom' = Dom /\ id' = id /\ at = "write"
    BY <1>4 DEF HostWrites, sharedVars, Dom
  <2> QED BY <1>1, <1>4, <2>1 DEF HostWrites, IsRequest, AfterNotification
<1>5. CASE HostWriteFails
  <2>1. at' \in {"idle", "close"} /\ at = "write" /\ Dom' = Dom \ {id}
    BY <1>5 DEF HostWriteFails, Ends, Without, Dom
  <2> QED BY <1>1, <2>1
<1>6. CASE Wait
  <2>1. at = "wait" /\ Dom' = Dom \ {id}
    BY <1>6 DEF Wait, Without, Dom
  <2>2. at' # "wait" /\ (at' \in {"lock", "write"} => op' \in {"initialized", "cancelled"})
    BY <1>6, Waits
  <2>3. "initialized" \notin Request /\ "cancelled" \notin Request
    BY DEF Request
  <2> QED BY <1>1, <2>1, <2>2, <2>3
<1>7. CASE StartCall \/ HostCloses \/ CloseInput \/ Reap \/ Join
  BY <1>1, <1>7 DEF StartCall, HostCloses, CloseInput, Reap, Join, sharedVars, Dom
<1>8. CASE ReadLine
  <2>1. Dom' = Dom
    BY <1>8 DEF ReadLine, Deliver, Slot, Dom
  <2>2. UNCHANGED <<at, op, id>>
    BY <1>8 DEF ReadLine, ReaderUnchanged, hostVars
  <2> QED BY <1>1, <2>1, <2>2
<1>9. CASE ReadFails \/ ReaderLocks \/ ReaderReplies
  BY <1>1, <1>9 DEF ReadFails, ReaderLocks, ReaderReplies, ReaderUnchanged, hostVars, sharedVars, Dom
<1>10. CASE ServerTakes \/ ServerWrites \/ ServerExits \/ UserCancels \/ DeadlinePasses \/ Closed
  BY <1>1, <1>10 DEF ServerTakes, ServerWrites, ServerExits, UserCancels, DeadlinePasses, Closed,
        ServerUnchanged, hostVars, sharedVars, vars, Dom
<1> QED BY <1>2, <1>3, <1>4, <1>5, <1>6, <1>7, <1>8, <1>9, <1>10 DEF Next, Host, Reader

\* The host stands still while the reader, the server, the user and the clock move.
LEMMA HostStays ==
    ASSUME ConnInv,
           Reader \/ ServerTakes \/ ServerWrites \/ ServerExits \/ UserCancels
           \/ DeadlinePasses \/ Closed
    PROVE  UNCHANGED <<at, op, id, page, calls, era, outcome, told>> /\ (failed => failed')
<1>1. UNCHANGED <<at, op, id, page, calls, era, outcome, told>>
  BY DEF Reader, ReaderUnchanged, ServerUnchanged, ReadLine, ReadFails, ReaderLocks, ReaderReplies,
      ServerTakes, ServerWrites, ServerExits, UserCancels, DeadlinePasses, Closed, hostVars, vars
<1>2. failed' = failed \/ failed' = TRUE \/ failed' = (failed \/ noise + 1 > MaxNoise)
  BY DEF Reader, ServerUnchanged, ReadLine, ReadFails, ReaderLocks, ReaderReplies,
      ServerTakes, ServerWrites, ServerExits, UserCancels, DeadlinePasses, Closed, sharedVars, vars
<1>3. failed \in BOOLEAN
  BY Facts
<1> QED BY <1>1, <1>2, <1>3

LEMMA HistoryStep ==
    ASSUME ConnInv, Next PROVE History' /\ CancelTold'
<1>0. History /\ CancelTold /\ Stages /\ told \in Msg \X Msg
  BY DEF ConnInv, Typed
<1>1. CASE Register
  <2>1. told' = told /\ op' = op /\ at = "register" /\ op \in Request /\ at' \in {"lock", "idle", "close"}
    BY <1>0, <1>1 DEF Register, Ends, Stages
  <2>2. at' = "idle" => outcome' = "unavailable"
    BY <1>1 DEF Register, Ends
  <2>3. op # "cancelled"
    BY <2>1 DEF Request
  <2> QED BY <1>0, <2>1, <2>2, <2>3 DEF History, CancelTold
<1>2. CASE HostLocks
  BY <1>0, <1>2 DEF HostLocks, sharedVars, History, CancelTold, CallMessage
<1>3. CASE HostWrites
  <2>1. told'[2] = Message /\ told'[1] = told[2] /\ id' = id /\ at = "write"
    BY <1>3 DEF HostWrites
  <2>2. Message.for = op /\ Message.id = id
    BY DEF Message
  <2>3. CASE IsRequest
    <3>1. at' = "wait" /\ op' = op /\ op # "cancelled"
      BY <1>3, <2>3 DEF HostWrites, IsRequest, Request
    <3> QED BY <2>1, <2>2, <3>1 DEF History, CancelTold, CallMessage, Message
  <2>4. CASE op = "initialized"
    <3>1. at' = "register"
      BY <1>3, <2>4 DEF HostWrites, IsRequest, Request, AfterNotification
    <3> QED BY <2>1, <2>2, <2>4, <3>1 DEF History, CancelTold
  <2>5. CASE op = "cancelled"
    <3>1. at' = "idle" /\ op' = "call"
      BY <1>3, <2>5 DEF HostWrites, IsRequest, Request, AfterNotification
    <3>2. told[2] = CallMessage
      BY <1>0, <2>1, <2>5 DEF History
    <3> QED BY <2>1, <2>2, <2>5, <3>1, <3>2 DEF History, CancelTold, CallMessage, Message
  <2> QED BY <2>3, <2>4, <2>5, Facts DEF IsRequest, Request
<1>4. CASE HostWriteFails
  BY <1>0, <1>4 DEF HostWriteFails, Ends, History, CancelTold
<1>5. CASE Wait
  <2>1. told' = told /\ id' = id /\ at = "wait"
    BY <1>5 DEF Wait
  <2> QED BY <1>0, <1>5, <2>1, Waits DEF History, CancelTold, CallMessage
<1>6. CASE StartCall
  <2>1. told' = <<NoMessage, NoMessage>> /\ op' = op /\ op = "call" /\ at' \in {"idle", "register"}
        /\ outcome' \in {"unavailable", "none"}
    BY <1>0, <1>6 DEF StartCall, Stages
  <2> QED BY <2>1 DEF History, CancelTold, NoMessage
<1>7. CASE HostCloses
  <2>1. told' = <<NoMessage, NoMessage>> /\ at' = "close"
    BY <1>7 DEF HostCloses
  <2> QED BY <2>1 DEF History, CancelTold, NoMessage
<1>8. CASE CloseInput \/ Reap \/ Join
  BY <1>0, <1>8 DEF CloseInput, Reap, Join, sharedVars, History, CancelTold
<1>9. CASE Reader \/ ServerTakes \/ ServerWrites \/ ServerExits \/ UserCancels
           \/ DeadlinePasses \/ Closed
  <2>1. UNCHANGED <<at, op, id, outcome, told>> /\ (failed => failed')
    BY <1>9, HostStays
  <2>2. History'
    BY <1>0, <2>1 DEF History, CallMessage
  <2>3. CancelTold'
    BY <1>0, <2>1 DEF CancelTold
  <2> QED BY <2>2, <2>3
<1> QED BY <1>1, <1>2, <1>3, <1>4, <1>5, <1>6, <1>7, <1>8, <1>9 DEF Next, Host

-----------------------------------------------------------------------------
(* An id is asked once, and answers are to what was asked.                 *)

\* A message that asks nothing joins the input: nothing else changes.
LEMMA OnceQuiet ==
    ASSUME ConnInv, NEW m \in Msg, ~Asks(m), input' = Append(input, m),
           UNCHANGED <<id, heard>>,
           at' \in {"lock", "write"} /\ op' \in Request => at' = at /\ op' = op,
           at' = "wait" => at' = at /\ op' = op
    PROVE  Once'
<1>1. /\ Len(input) \in Nat /\ Len(input') = Len(input) + 1
      /\ \A k \in 1..Len(input) : input'[k] = input[k]
      /\ input'[Len(input) + 1] = m
  BY Appended DEF ConnInv, Typed
<1>2. \A k \in 1..Len(input') : Asks(input'[k]) => k \in 1..Len(input) /\ input'[k] = input[k]
  BY <1>1
<1> QED BY <1>1, <1>2 DEF ConnInv, Once, IsRequest, Asks

\* The input and what the server has heard stay: the id may be the next one.
LEMMA OnceSame ==
    ASSUME ConnInv, UNCHANGED <<input, heard>>,
           \/ UNCHANGED id /\ (at' \in {"lock", "write"} /\ op' \in Request =>
                                  at \in {"lock", "write"} /\ op' = op)
           \/ id' = id + 1 /\ at' # "wait",
           at' = "wait" => at' = at /\ op' = op
    PROVE  Once'
<1>1. /\ id \in Nat /\ \A i \in DOMAIN heard : i \in 0..id
      /\ \A k \in 1..Len(input) : Asks(input[k]) => input[k].id \in (0..id) \ DOMAIN heard
      /\ \A j, k \in 1..Len(input) :
            Asks(input[j]) /\ Asks(input[k]) /\ input[j].id = input[k].id => j = k
  BY Facts DEF ConnInv, Typed, Once
<1>2. CASE UNCHANGED id
  BY <1>1, <1>2 DEF ConnInv, Once, IsRequest, Asks
<1>3. CASE id' = id + 1 /\ at' # "wait"
  <2>1. \A i \in 0..id : i \in 0..id' /\ i # id'
    BY <1>1, <1>3
  <2> QED BY <1>1, <1>3, <2>1 DEF Once, Asks
<1> QED BY <1>2, <1>3

\* The host writes its request: the id was not on its way, nor heard.
LEMMA OnceAsked ==
    ASSUME ConnInv, HostWrites, IsRequest PROVE Once'
<1>1. /\ at = "write" /\ at' = "wait" /\ UNCHANGED <<id, op, heard>>
      /\ input' = Append(input, Message)
  BY DEF HostWrites, IsRequest, serverVars
<1>2. Message \in Msg /\ Message.id = id /\ Message.for = op /\ Asks(Message)
  BY Facts DEF Message, Msg, Purpose, IsRequest, Asks, Request
<1>3. /\ Len(input) \in Nat /\ Len(input') = Len(input) + 1
      /\ \A k \in 1..Len(input) : input'[k] = input[k]
      /\ input'[Len(input) + 1] = Message
  BY <1>1, <1>2, Appended DEF ConnInv, Typed
<1>4. /\ id \notin DOMAIN heard /\ id \in 0..id
      /\ \A k \in 1..Len(input) : Asks(input[k]) => input[k].id \in (0..id) \ DOMAIN heard
      /\ \A k \in 1..Len(input) : Asks(input[k]) => input[k].id # id
      /\ \A j, k \in 1..Len(input) :
            Asks(input[j]) /\ Asks(input[k]) /\ input[j].id = input[k].id => j = k
  BY <1>1, Facts DEF ConnInv, Once
<1>5. \A k \in 1..Len(input') :
         \/ k \in 1..Len(input) /\ input'[k] = input[k]
         \/ k = Len(input) + 1 /\ input'[k] = Message
  BY <1>3
<1> HIDE DEF Message
<1>6. \A k \in 1..Len(input') : Asks(input'[k]) => input'[k].id \in (0..id') \ DOMAIN heard'
  BY <1>1, <1>2, <1>4, <1>5
<1>7. \A j, k \in 1..Len(input') :
         Asks(input'[j]) /\ Asks(input'[k]) /\ input'[j].id = input'[k].id => j = k
  BY <1>2, <1>4, <1>5
<1>8. \A k \in 1..Len(input') : Asks(input'[k]) /\ input'[k].id = id' => input'[k].for = op'
  BY <1>1, <1>2, <1>4, <1>5
<1> QED BY <1>1, <1>4, <1>6, <1>7, <1>8 DEF Once, Asks

\* The server hears the message at the head.
LEMMA OnceHeard ==
    ASSUME ConnInv, ServerTakes PROVE Once'
<1> DEFINE m == Head(input)
<1>1. /\ m = input[1] /\ Len(input) \in Nat \ {0} /\ Len(input') = Len(input) - 1
      /\ \A k \in 1..Len(input) - 1 : input'[k] = input[k + 1]
  BY Taken DEF ConnInv, Typed, ServerTakes
<1>2. UNCHANGED <<at, op, id>>
  BY DEF ServerTakes, ServerUnchanged, hostVars
<1>3. IF Asks(m) THEN /\ DOMAIN heard' = DOMAIN heard \cup {m.id} /\ heard'[m.id] = m.for
                      /\ \A i \in DOMAIN heard : i # m.id => heard'[i] = heard[i]
                 ELSE heard' = heard
  BY DEF ServerTakes, Asks
<1> HIDE DEF m
<1>4. /\ \A k \in 1..Len(input) : Asks(input[k]) => input[k].id \in (0..id) \ DOMAIN heard
      /\ \A j, k \in 1..Len(input) :
            Asks(input[j]) /\ Asks(input[k]) /\ input[j].id = input[k].id => j = k
  BY DEF ConnInv, Once
<1>5. \A k \in 1..Len(input') : k + 1 \in 1..Len(input) /\ k + 1 # 1 /\ input'[k] = input[k + 1]
  BY <1>1
<1>6. \A k \in 1..Len(input') : Asks(input'[k]) =>
         input'[k].id \in (0..id) \ DOMAIN heard /\ (Asks(m) => input'[k].id # m.id)
  BY <1>1, <1>4, <1>5
<1>7. \A k \in 1..Len(input') : Asks(input'[k]) => input'[k].id \in (0..id) \ DOMAIN heard'
  BY <1>3, <1>6
<1>8. \A j, k \in 1..Len(input') :
         Asks(input'[j]) /\ Asks(input'[k]) /\ input'[j].id = input'[k].id => j = k
  <2> SUFFICES ASSUME NEW j \in 1..Len(input'), NEW k \in 1..Len(input'),
                      Asks(input'[j]), Asks(input'[k]), input'[j].id = input'[k].id
               PROVE  j = k
    OBVIOUS
  <2>1. j + 1 = k + 1
    BY <1>4, <1>5
  <2> QED BY <2>1
<1>9. (at \in {"lock", "write"} /\ IsRequest)' =>
         id' \notin DOMAIN heard' /\ \A k \in 1..Len(input') : Asks(input'[k]) => input'[k].id # id'
  BY <1>1, <1>2, <1>3, <1>5 DEF ConnInv, Once, IsRequest
<1>10. at' = "wait" =>
          /\ id' \in DOMAIN heard' => heard'[id'] = op'
          /\ \A k \in 1..Len(input') : Asks(input'[k]) /\ input'[k].id = id' => input'[k].for = op'
  BY <1>1, <1>2, <1>3, <1>5 DEF ConnInv, Once
<1>11. \A k \in 1..Len(input') : Asks(input'[k]) => input'[k].id \in (0..id') \ DOMAIN heard'
  BY <1>2, <1>7
<1> QED BY <1>8, <1>9, <1>10, <1>11 DEF Once

LEMMA OnceStep ==
    ASSUME ConnInv, Next PROVE Once'
<1> USE DEF Request
<1>1. CASE Register
  <2>1. /\ UNCHANGED <<input, heard>> /\ id' = id + 1 /\ at' # "wait"
    BY <1>1 DEF Register, Ends, serverVars
  <2> QED BY <2>1, OnceSame
<1>2. CASE HostLocks
  <2>1. /\ UNCHANGED <<id, op, input, heard>> /\ at = "lock" /\ at' = "write"
    BY <1>2 DEF HostLocks, serverVars
  <2> QED BY <2>1, OnceSame
<1>3. CASE HostWrites
  <2>1. CASE IsRequest
    BY <1>3, <2>1, OnceAsked
  <2>2. CASE ~IsRequest
    <3>1. at' \in {"register", "idle"} /\ input' = Append(input, Message) /\ UNCHANGED <<id, heard>>
      BY <1>3, <2>2 DEF HostWrites, AfterNotification, serverVars
    <3>2. Message \in Msg /\ ~Asks(Message)
      BY <2>2, Facts DEF Message, Msg, Purpose, IsRequest, Asks
    <3> QED BY <3>1, <3>2, OnceQuiet
  <2> QED BY <2>1, <2>2
<1>4. CASE HostWriteFails
  <2>1. at' \in {"idle", "close"} /\ UNCHANGED <<id, input, heard>>
    BY <1>4 DEF HostWriteFails, Ends, serverVars
  <2> QED BY <2>1, OnceSame
<1>5. CASE Wait
  <2>1. UNCHANGED <<id, input, heard>>
    BY <1>5 DEF Wait, serverVars
  <2>2. at' # "wait" /\ (at' \in {"lock", "write"} => op' \notin Request)
    BY <1>5, Waits
  <2> QED BY <2>1, <2>2, OnceSame
<1>6. CASE StartCall \/ HostCloses \/ CloseInput \/ Reap \/ Join
  <2>1. at' \in {"idle", "register", "close", "reap", "join", "closed"} /\ UNCHANGED <<id, input, heard>>
    BY <1>6 DEF StartCall, HostCloses, CloseInput, Reap, Join, serverVars
  <2> QED BY <2>1, OnceSame
<1>7. CASE ReaderReplies /\ input' # input
  <2>1. input' = Append(input, [id |-> 0, for |-> "reply"]) /\ UNCHANGED <<at, op, id, heard>>
    BY <1>7 DEF ReaderReplies, ReaderUnchanged, hostVars, serverVars
  <2>2. [id |-> 0, for |-> "reply"] \in Msg /\ ~Asks([id |-> 0, for |-> "reply"])
    BY DEF Msg, Purpose, Asks
  <2> QED BY <2>1, <2>2, OnceQuiet
<1>8. CASE ServerTakes
  BY <1>8, OnceHeard
<1>9. CASE UNCHANGED <<at, op, id, input, heard>>
  BY <1>9, OnceSame
<1>10. (ReadLine \/ ReadFails \/ ReaderLocks \/ (ReaderReplies /\ input' = input) \/ ServerWrites
        \/ ServerExits \/ UserCancels \/ DeadlinePasses \/ Closed)
       => UNCHANGED <<at, op, id, input, heard>>
  BY DEF ReadLine, ReadFails, ReaderLocks, ReaderReplies, ReaderUnchanged, ServerUnchanged,
        ServerWrites, ServerExits, UserCancels, DeadlinePasses, Closed, hostVars, serverVars, vars
<1> QED BY <1>1, <1>2, <1>3, <1>4, <1>5, <1>6, <1>7, <1>8, <1>9, <1>10 DEF Next, Host, Reader

\* What the server has heard, it has heard for good.
LEMMA HeardStays ==
    ASSUME ConnInv, Next, NEW i, NEW a, Fits(i, a)
    PROVE  i \in DOMAIN heard' /\ a \in May[heard'[i]]
<1>1. CASE ServerTakes
  <2> DEFINE m == Head(input)
  <2>1. m = input[1] /\ Len(input) \in Nat \ {0}
    BY <1>1, Taken DEF ConnInv, Typed, ServerTakes
  <2>2. Asks(m) => m.id \notin DOMAIN heard
    BY <2>1, 1 \in 1..Len(input) DEF ConnInv, Once
  <2>3. IF Asks(m) THEN heard' = [j \in DOMAIN heard \cup {m.id} |->
                                    IF j = m.id THEN m.for ELSE heard[j]]
                   ELSE heard' = heard
    BY <1>1 DEF ServerTakes, Asks
  <2> HIDE DEF m
  <2> QED BY <2>2, <2>3 DEF Fits
<1>2. CASE heard' = heard
  BY <1>2 DEF Fits
<1> QED BY <1>1, <1>2 DEF Next, Host, Reader, ReaderUnchanged, ServerUnchanged, hostVars,
        serverVars, Register, HostLocks, HostWrites, HostWriteFails, Wait, StartCall, HostCloses,
        CloseInput, Reap, Join, ReadLine, ReadFails, ReaderLocks, ReaderReplies, ServerWrites,
        ServerExits, UserCancels, DeadlinePasses, Closed, vars

LEMMA AnswersStep ==
    ASSUME ConnInv, Next PROVE Answers'
<1> DEFINE Still(i, a) == i \in DOMAIN heard' /\ a \in May[heard'[i]]
<1>0. \A i, a : Fits(i, a) => Still(i, a)
  BY HeardStays
<1>1. /\ output \in Seq(Line) /\ Len(output) \in Nat
      /\ \A k \in 1..Len(output) :
            output[k].kind = "response" => Fits(output[k].id, output[k].answer)
      /\ \A i \in DOMAIN pending : pending[i] # "waiting" => Fits(i, pending[i])
  BY LenProperties DEF ConnInv, Typed, Answers
<1>2. \A k \in 1..Len(output') :
         output'[k].kind = "response" => Still(output'[k].id, output'[k].answer)
  <2> HIDE DEF Still
  <2>1. CASE ReadLine
    <3>1. /\ Len(output) \in Nat \ {0} /\ Len(output') = Len(output) - 1
          /\ \A k \in 1..Len(output) - 1 : output'[k] = output[k + 1]
      BY <1>1, <2>1, Taken DEF ReadLine
    <3>2. \A k \in 1..Len(output') : k + 1 \in 1..Len(output) /\ output'[k] = output[k + 1]
      BY <3>1
    <3> QED BY <1>0, <1>1, <3>2
  <2>2. CASE ServerWrites
    <3>1. PICK line \in Line : /\ output' = Append(output, line)
                               /\ line.kind = "response" => Fits(line.id, line.answer)
      BY <2>2, LineWritten
    <3>2. /\ Len(output') = Len(output) + 1
          /\ \A k \in 1..Len(output) : output'[k] = output[k]
          /\ output'[Len(output) + 1] = line
      BY <1>1, <3>1, Appended
    <3>3. 1..Len(output') = 1..Len(output) \cup {Len(output) + 1}
      BY <1>1, <3>2
    <3> QED BY <1>0, <1>1, <3>1, <3>2, <3>3
  <2>3. CASE output' = output
    BY <1>0, <1>1, <2>3
  <2> QED BY <2>1, <2>2, <2>3 DEF Next, Host, Reader, ServerUnchanged,
        Register, HostLocks, HostWrites, HostWriteFails, Wait, StartCall, HostCloses, CloseInput,
        Reap, Join, ReadFails, ReaderLocks, ReaderReplies, ServerTakes, ServerExits, UserCancels,
        DeadlinePasses, Closed, vars
<1>3. \A i \in DOMAIN pending' : pending'[i] # "waiting" => Still(i, pending'[i])
  <2> HIDE DEF Still
  <2>1. CASE Register
    BY <1>0, <1>1, <2>1 DEF Register, Slot
  <2>2. CASE HostWriteFails \/ Wait
    BY <1>0, <1>1, <2>2 DEF HostWriteFails, Wait, Without
  <2>3. CASE ReadLine
    <3> DEFINE line == Head(output)
    <3>1. /\ line = output[1] /\ 1 \in 1..Len(output)
          /\ output # <<>>
      BY <1>1, <2>3, Taken DEF ReadLine
    <3>2. pending' = pending \/ (line.kind = "response" /\ pending' = Slot(line.id, line.answer))
      BY <2>3 DEF ReadLine, Deliver
    <3>3. line.kind = "response" => Fits(line.id, line.answer)
      BY <1>1, <3>1
    <3> HIDE DEF line
    <3> QED BY <1>0, <1>1, <3>2, <3>3 DEF Slot
  <2>4. CASE pending' = pending
    BY <1>0, <1>1, <2>4
  <2> QED BY <2>1, <2>2, <2>3, <2>4 DEF Next, Host, Reader, ReaderUnchanged, ServerUnchanged,
        sharedVars, HostLocks, HostWrites, StartCall, HostCloses, CloseInput, Reap, Join,
        ReadFails, ReaderLocks, ReaderReplies, ServerTakes, ServerWrites, ServerExits,
        UserCancels, DeadlinePasses, Closed, vars
<1> QED BY <1>2, <1>3 DEF Answers, Fits

-----------------------------------------------------------------------------
(* The theorem.                                                            *)

\* A slot that holds an answer while the host waits holds one for its request.
LEMMA TakenFits ==
    ASSUME ConnInv PROVE AnswerFits
<1> SUFFICES ASSUME at = "wait", Answered PROVE /\ id \in DOMAIN heard /\ heard[id] = op
                                                /\ pending[id] \in May[op]
  BY DEF AnswerFits
<1>1. Fits(id, pending[id])
  BY DEF ConnInv, Answers, Answered
<1>2. id \in DOMAIN heard => heard[id] = op
  BY DEF ConnInv, Once
<1> QED BY <1>1, <1>2 DEF Fits

\* The inductive invariant holds of every behaviour.
LEMMA ConnInvAlways == Spec => []ConnInv
<1>1. Init => ConnInv
  BY InitConn
<1>2. ConnInv /\ [Next]_vars => ConnInv'
  <2>1. ASSUME ConnInv, Next PROVE ConnInv'
    BY <2>1, TypeStep, TypedStep, StagesStep, SlotsStep, HistoryStep, OnceStep, AnswersStep
       DEF ConnInv
  <2>2. ASSUME ConnInv, UNCHANGED vars PROVE ConnInv'
    BY <2>2 DEF ConnInv, vars, hostVars, sharedVars, serverVars, TypeOK, Typed, Stages, LockOwned,
       SlotsBalanced, IsRequest, History, CallMessage, CancelTold, Once, Answers, Fits
  <2> QED BY <2>1, <2>2
<1> QED BY <1>1, <1>2, PTL DEF Spec

\* The connection, whatever the server writes and whenever it exits, the deadline
\* passes or the user cancels: the slots are those of the request in flight, an
\* answer is taken only for what its id asked, and a call that gave up has told
\* the server so before anything else (send_request, write_line, wait_response,
\* notify_cancelled, call_tool, read_loop).
THEOREM ConnectionAlways == Spec => []ConnectionSound
<1>1. ConnInv => ConnectionSound
  BY TakenFits DEF ConnInv, ConnectionSound
<1> QED BY <1>1, ConnInvAlways, PTL

\* A request id reaches the server at most once, and its answer is looked for
\* under no other: next_id is taken before the slot, and nothing is sent again
\* (send_request, write_line; a deadline or a failure never retries).
THEOREM AskedOnce == Spec => []Once
<1>1. ConnInv => Once
  BY DEF ConnInv
<1> QED BY <1>1, ConnInvAlways, PTL
=============================================================================
