--------------------------- MODULE ToolTurnProofs ---------------------------
(***************************************************************************)
(* Theorems about the tools of a turn.  Of the batch, for every number of  *)
(* calls, every limit and every division of the calls its assumption       *)
(* allows: what approvals let run, what results say, and that the turn     *)
(* implements ToolContract.  Of the policy, for every tables of rules,     *)
(* arguments, hooks and images: that what runs is what was judged.  Of the *)
(* process behind a tool, for every pipe, limit and amount of output: that *)
(* its output is had and nothing is left running.                          *)
(***************************************************************************)
EXTENDS ToolTurn, ToolProcess, FiniteSetTheorems, SequenceTheorems, WellFoundedInduction, TLAPS

-----------------------------------------------------------------------------
(* The inductive invariant.                                                *)

Checking == pc \in {"check", "asking"}

\* Which calls have been checked, and what can have become of them by then.
Phases ==
    /\ Checking => /\ \A c \in Call : c >= next <=> item[c] = "new"
                   /\ \A c \in Call : item[c] \in {"new", "settled", "ready"}
                   /\ running = 0 /\ completed = 0 /\ inbox = <<>>
    /\ ~Checking => \A c \in Call : item[c] # "new"
    /\ pc = "asking" => next \in Asked
    /\ pending = IF pc = "asking" THEN next ELSE 0
    /\ pc # "end" => log = <<>>
    /\ pc \in {"commit", "end"} => \A c \in Call : outcome[c] # "none"

\* A call has an outcome when it is refused or done; its finish event comes with
\* it, or with the commit when it has an effect on the plan.
Outcomes ==
    \A c \in Call :
        /\ outcome[c] # "none" <=> item[c] \in {"settled", "done"}
        /\ finish[c] \in {0, 1}
        /\ outcome[c] = "none" => finish[c] = 0

\* A message on its way is that of a call which has sent it, and there is no
\* other of it; what it says of the plan follows the plan the call was given.
Messages ==
    /\ \A i, j \in 1..Len(inbox) : inbox[i].call = inbox[j].call => i = j
    /\ \A i \in 1..Len(inbox) :
          /\ item[inbox[i].call] = "sent"
          /\ inbox[i].outcome \in {"ok", "error", "Aborted"}
          /\ inbox[i].effect # 0 =>
                inbox[i].call \in Planner /\ inbox[i].effect = base[inbox[i].call] + 1
          /\ inbox[i].outcome = "Aborted" => cancel \/ inbox[i].call \in late

DoneCalls == {c \in Call : item[c] = "done"}

\* The two counters of the batch.
Counted ==
    /\ running = Cardinality(Working)
    /\ completed = Cardinality(DoneCalls)
    /\ running <= Cap

\* A plan update at work is the only call at work and has the plan of the batch.
PlanAtWork == \A c \in Working \cap Planner : base[c] = planRev

\* A flag is raised for a reason.
Flagged == \A c \in flagged : cancel \/ c \in late

\* An accepted answer is to a request of the past, or to the current one.
Claims ==
    \A t \in Thread : thread[t].at \in {"claimed", "accepted"} =>
        /\ thread[t].call \in Asked
        /\ Checking => \/ thread[t].call < next
                       \/ pc = "asking" /\ thread[t].call = next /\ claimed

Given(c, a) == \E t \in Thread : thread[t].at = "accepted" /\ thread[t].call = c /\ thread[t].answer = a

\* A reply in the channel is an accepted answer.
Replied == \A i \in 1..Len(replies) : Given(replies[i].call, replies[i].answer)

\* A grant of the session was given by the answer to an earlier request.
GrantedBy(k, c) == \E d \in Asked \ OnceOnly : d <= c /\ Key[d] = k /\ decision[d] = "session"
Grants == Checking => \A k \in granted : \E c \in Call : c < next /\ GrantedBy(k, c)

\* A call that may still run, or has, was allowed.
Allowed ==
    \A c \in Ready \cap Asked :
        decision[c] = "once" \/ (c \notin OnceOnly /\ GrantedBy(Key[c], c))

ToolInv ==
    /\ TypeOK /\ Phases /\ Outcomes /\ Messages /\ Counted /\ PlanAtWork /\ Flagged
    /\ Claims /\ Replied /\ Grants /\ Allowed
    /\ AnsweredOnce /\ DecidedAsAnswered /\ PlanInOrder /\ AbortMeansCancel
    /\ (log # <<>> => \A c \in Call : finish[c] = 1)

-----------------------------------------------------------------------------
(* Counting.                                                               *)

LEMMA FiniteCalls ==
    ASSUME NEW S \in SUBSET Call
    PROVE  IsFiniteSet(S) /\ Cardinality(S) \in 0..N
<1>1. IsFiniteSet(Call) /\ Cardinality(Call) = N
  BY FS_Interval, ToolAssumption DEF Call
<1> QED BY <1>1, FS_Subset, FS_CardinalityType, ToolAssumption

\* One call more, or one less.
LEMMA CountIn ==
    ASSUME NEW S \in SUBSET Call, NEW c \in Call, c \notin S
    PROVE  /\ Cardinality(S \cup {c}) = Cardinality(S) + 1
           /\ Cardinality(S) + 1 <= N
<1>1. Cardinality(S \cup {c}) = Cardinality(S) + 1
  BY FiniteCalls, FS_AddElement
<1>2. Cardinality(S \cup {c}) \in 0..N
  BY FiniteCalls
<1> QED BY <1>1, <1>2

LEMMA CountOut ==
    ASSUME NEW S \in SUBSET Call, NEW c \in S
    PROVE  /\ Cardinality(S \ {c}) = Cardinality(S) - 1
           /\ Cardinality(S) >= 1
<1>1. Cardinality(S \ {c}) = Cardinality(S) - 1
  BY FiniteCalls, FS_RemoveElement
<1>2. Cardinality(S \ {c}) \in 0..N
  BY FiniteCalls
<1> QED BY <1>1, <1>2, FiniteCalls, ToolAssumption

LEMMA CapFacts == Cap \in Nat /\ 1 <= Cap /\ Cap <= Limit
  BY ToolAssumption DEF Cap

\* The loop of the batch ends when every call has its outcome.
LEMMA AllHaveOutcomes ==
    ASSUME TypeOK, Phases, Outcomes, Counted, ~Checking, BatchDone
    PROVE  \A c \in Call : outcome[c] # "none"
<1>1. DoneCalls \subseteq Ready /\ Ready \subseteq Call
  BY DEF DoneCalls, Ready
<1>2. IsFiniteSet(Ready) /\ IsFiniteSet(DoneCalls) /\ Cardinality(Ready) \in Nat
  BY <1>1, FiniteCalls
<1>3. Cardinality(DoneCalls) <= Cardinality(Ready)
  BY <1>1, <1>2, FS_Subset
<1>4. DoneCalls = Ready
  BY <1>1, <1>2, <1>3, FS_Subset, FiniteCalls DEF BatchDone, Counted
<1>5. \A c \in Call : item[c] \in {"settled", "done"}
  BY <1>4 DEF DoneCalls, Ready, Phases, TypeOK
<1> QED BY <1>5 DEF Outcomes

-----------------------------------------------------------------------------
(* Types.                                                                  *)

LEMMA ToolStart == Init => ToolInv
<1> SUFFICES ASSUME Init PROVE ToolInv
  OBVIOUS
<1>1. Working = {} /\ DoneCalls = {} /\ Ready = {}
  BY DEF Init, Working, DoneCalls, Ready
<1>2. TypeOK
  <2>1. inbox \in Seq([call : Call, outcome : Outcome, effect : Nat])
    BY EmptySeq DEF Init
  <2>2. replies \in Seq([call : Call, answer : Answer])
    BY EmptySeq DEF Init
  <2>3. thread \in [Thread -> [at : {"idle", "claimed", "accepted", "refused"}, call : 0..N,
                               answer : Answer]]
    BY ToolAssumption DEF Init, Idle, Answer
  <2>4. next \in 1..N + 1 /\ running \in 0..Limit /\ completed \in 0..N /\ pending \in 0..N
    BY ToolAssumption DEF Init
  <2> QED BY <2>1, <2>2, <2>3, <2>4 DEF Init, TypeOK
<1>3. Counted
  BY <1>1, FS_EmptySet, CapFacts DEF Init, Counted
<1>4. Phases /\ Outcomes /\ Messages
  BY ToolAssumption DEF Init, Phases, Outcomes, Messages, Checking, Call
<1>5. PlanAtWork /\ Flagged /\ Claims /\ Replied /\ Grants /\ Allowed
  BY <1>1 DEF Init, PlanAtWork, Flagged, Claims, Replied, Grants, Allowed, Idle
<1>6. AnsweredOnce /\ DecidedAsAnswered /\ PlanInOrder /\ AbortMeansCancel
  BY DEF Init, AnsweredOnce, DecidedAsAnswered, PlanInOrder, AbortMeansCancel, Idle
<1> QED BY <1>2, <1>3, <1>4, <1>5, <1>6 DEF ToolInv, Init

Message == [call : Call, outcome : Outcome, effect : Nat]
Request == [call : Call, answer : Answer]

\* What the coordinator does while it checks a call changes these variables.
LEMMA RefuseTypes ==
    ASSUME TypeOK, NEW c \in Call, NEW o \in Outcome, Refuse(c, o)
    PROVE  /\ item' \in [Call -> {"new", "settled", "ready", "running", "sent", "lost", "done"}]
           /\ outcome' \in [Call -> Outcome \cup {"none"}]
           /\ finish' \in [Call -> Nat] /\ effect' = effect
           /\ pc' = "check" /\ next' \in 1..N + 1
<1>1. c + 1 \in 1..N + 1
  BY ToolAssumption DEF Call
<1> QED BY <1>1 DEF Refuse, TypeOK

LEMMA PassTypes ==
    ASSUME TypeOK, NEW c \in Call, Pass(c)
    PROVE  /\ item' \in [Call -> {"new", "settled", "ready", "running", "sent", "lost", "done"}]
           /\ outcome' = outcome /\ finish' = finish /\ effect' = effect
           /\ pc' = "check" /\ next' \in 1..N + 1
<1>1. c + 1 \in 1..N + 1
  BY ToolAssumption DEF Call
<1> QED BY <1>1 DEF Pass, TypeOK

\* The head of a queue.
LEMMA HeadTypes ==
    ASSUME NEW S, NEW q \in Seq(S), q # <<>>
    PROVE  /\ Head(q) \in S /\ Head(q) = q[1]
           /\ Tail(q) \in Seq(S)
           /\ Len(q) \in Nat /\ Len(q) >= 1 /\ Len(Tail(q)) = Len(q) - 1
           /\ \A i \in 1..Len(Tail(q)) : Tail(q)[i] = q[i + 1] /\ i + 1 \in 1..Len(q)
  BY HeadTailProperties, LenProperties

LEMMA TypesStep == ToolInv /\ [Next]_vars => TypeOK'
<1> SUFFICES ASSUME ToolInv, [Next]_vars PROVE TypeOK'
  OBVIOUS
<1>0. TypeOK /\ Phases /\ Counted /\ Messages /\ Claims
  BY DEF ToolInv
<1>1. CASE Check
  <2>1. next \in Call
    BY <1>0, <1>1, ToolAssumption DEF Check, TypeOK, Call
  <2>2. CASE Refuse(next, "refused") /\ UNCHANGED <<pending, claimed>>
    <3>1. "refused" \in Outcome
      BY DEF Outcome
    <3> QED BY <1>0, <1>1, <2>1, <2>2, <3>1, RefuseTypes DEF Check, TypeOK
  <2>3. CASE Pass(next) /\ UNCHANGED <<pending, claimed>>
    BY <1>0, <1>1, <2>1, <2>3, PassTypes DEF Check, TypeOK
  <2>4. CASE pc' = "asking" /\ pending' = next /\ claimed' = FALSE /\ UNCHANGED <<callVars, next>>
    <3>1. pending' \in 0..N
      BY <2>1, <2>4, ToolAssumption DEF Call
    <3> QED BY <1>0, <1>1, <2>4, <3>1 DEF Check, TypeOK, callVars
  <2> QED BY <1>1, <2>2, <2>3, <2>4 DEF Check
<1>2. CASE RequestApproval
  <2>1. next \in Call /\ (pc = "asking")
    BY <1>0, <1>2, ToolAssumption DEF RequestApproval, AskCancelled, StaleReply, Reply, Phases
  <2>2. CASE AskCancelled
    <3>1. "Aborted" \in Outcome /\ 0 \in 0..N
      BY ToolAssumption DEF Outcome
    <3> QED BY <1>0, <1>2, <2>1, <2>2, <3>1, RefuseTypes DEF RequestApproval, AskCancelled, Unask, TypeOK
  <2>3. CASE StaleReply
    <3>1. replies' \in Seq(Request)
      BY <1>0, <2>3, HeadTypes DEF StaleReply, TypeOK, Request
    <3> QED BY <1>0, <1>2, <2>3, <3>1 DEF RequestApproval, StaleReply, TypeOK, callVars, Request
  <2>4. CASE Reply
    <3> DEFINE r == Head(replies)
    <3>1. r \in Request /\ Tail(replies) \in Seq(Request)
      BY <1>0, <2>4, HeadTypes DEF Reply, TypeOK, Request
    <3>2. TakeReply(r)
      BY <2>4 DEF Reply
    <3>3. replies' \in Seq([call : Call, answer : Answer]) /\ pending' = 0 /\ claimed' = FALSE
      BY <3>1, <3>2 DEF TakeReply, Unask, Request
    <3>4. decision' \in [Call -> Answer \cup {"none"}]
      BY <1>0, <3>1, <3>2 DEF TakeReply, TypeOK, Request
    <3>5. granted' \subseteq {Key[c] : c \in Call}
      BY <1>0, <2>1, <3>2 DEF TakeReply, TypeOK
    <3>6. "refused" \in Outcome /\ 0 \in 0..N
      BY ToolAssumption DEF Outcome
    <3>7. Pass(next) \/ Refuse(next, "refused")
      BY <3>2 DEF TakeReply
    <3> QED BY <1>0, <1>2, <2>1, <3>3, <3>4, <3>5, <3>6, <3>7, PassTypes, RefuseTypes
            DEF RequestApproval, TypeOK
  <2> QED BY <1>2, <2>2, <2>3, <2>4 DEF RequestApproval
<1>3. ASSUME NEW t \in Thread, Claim(t) PROVE TypeOK'
  <2>1. thread' \in [Thread -> [at : {"idle", "claimed", "accepted", "refused"}, call : 0..N,
                                answer : Answer]]
    <3>1. PICK c \in Asked, a \in Answer :
             \/ thread' = [thread EXCEPT ![t] = [at |-> "claimed", call |-> c, answer |-> a]]
             \/ thread' = [thread EXCEPT ![t].at = "refused"]
      BY <1>3 DEF Claim
    <3>2. c \in 0..N
      BY ToolAssumption DEF Call
    <3>3. thread \in [Thread -> [at : {"idle", "claimed", "accepted", "refused"}, call : 0..N,
                                 answer : Answer]]
      BY <1>0 DEF TypeOK
    <3>4. [at |-> "claimed", call |-> c, answer |-> a]
             \in [at : {"idle", "claimed", "accepted", "refused"}, call : 0..N, answer : Answer]
      BY <3>2
    <3>5. CASE thread' = [thread EXCEPT ![t] = [at |-> "claimed", call |-> c, answer |-> a]]
      BY <3>3, <3>4, <3>5
    <3>6. CASE thread' = [thread EXCEPT ![t].at = "refused"]
      BY <3>3, <3>6
    <3> QED BY <3>1, <3>5, <3>6
  <2>2. claimed' \in BOOLEAN
    BY <1>0, <1>3 DEF Claim, TypeOK
  <2> QED BY <1>0, <1>3, <2>1, <2>2 DEF Claim, TypeOK, callVars, batchVars
<1>4. ASSUME NEW t \in Thread, SendReply(t) PROVE TypeOK'
  <2>1. thread' \in [Thread -> [at : {"idle", "claimed", "accepted", "refused"}, call : 0..N,
                                answer : Answer]]
    BY <1>0, <1>4 DEF SendReply, TypeOK
  <2>2. [call |-> thread[t].call, answer |-> thread[t].answer] \in [call : Call, answer : Answer]
    <3>1. thread[t].call \in Call
      BY <1>0, <1>4, ToolAssumption DEF Claims, SendReply
    <3> QED BY <1>0, <3>1 DEF TypeOK
  <2>3. replies' \in Seq([call : Call, answer : Answer])
    BY <1>0, <1>4, <2>2, AppendProperties DEF SendReply, TypeOK
  <2> QED BY <1>0, <1>4, <2>1, <2>3 DEF SendReply, TypeOK, callVars, batchVars
<1>5. CASE StartBatch \/ LoopTop \/ Launched \/ ReceiveTimeout
  <2>1. 1 \in 1..N + 1
    BY ToolAssumption
  <2> QED BY <1>0, <1>5, <2>1
          DEF StartBatch, LoopTop, Launched, ReceiveTimeout, TypeOK, Ready, callVars, batchVars, askVars
<1>6. CASE Launch
  <2>1. next \in Call /\ next + 1 \in 1..N + 1
    BY <1>0, <1>6, ToolAssumption DEF Launch, TypeOK, Call
  <2>2. /\ item' \in [Call -> {"new", "settled", "ready", "running", "sent", "lost", "done"}]
        /\ outcome' \in [Call -> Outcome \cup {"none"}]
        /\ effect' \in [Call -> Nat] /\ finish' \in [Call -> Nat] /\ base' \in [Call -> Nat]
    <3>1. CASE UNCHANGED <<callVars, base>>
      BY <1>0, <3>1 DEF TypeOK, callVars
    <3>2. CASE /\ item' = [item EXCEPT ![next] = "done"]
               /\ outcome' = [outcome EXCEPT ![next] = "Aborted"]
               /\ finish' = [finish EXCEPT ![next] = @ + 1]
               /\ UNCHANGED <<effect, base>>
      <4>1. finish \in [Call -> Nat]
        BY <1>0 DEF TypeOK
      <4>2. finish' \in [Call -> Nat]
        BY <2>1, <3>2, <4>1
      <4>3. outcome' \in [Call -> Outcome \cup {"none"}]
        BY <1>0, <3>2 DEF TypeOK, Outcome
      <4> QED BY <1>0, <3>2, <4>2, <4>3 DEF TypeOK
    <3>3. CASE /\ item' = [item EXCEPT ![next] = "running"]
               /\ base' = [base EXCEPT ![next] = planRev]
               /\ UNCHANGED <<outcome, effect, finish>>
      BY <1>0, <3>3 DEF TypeOK
    <3> QED BY <1>6, <3>1, <3>2, <3>3 DEF Launch
  <2>3. running' \in 0..Limit
    <3>1. running \in 0..Limit /\ Limit \in Nat /\ Cap \in Nat /\ Cap <= Limit
      BY <1>0, CapFacts, ToolAssumption DEF TypeOK
    <3>2. running < Cap /\ (running' = running \/ running' = running + 1)
      BY <1>6 DEF Launch
    <3> QED BY <3>1, <3>2
  <2>4. completed' \in 0..N
    <3>1. item[next] = "ready" => next \notin DoneCalls
      BY DEF DoneCalls
    <3>2. item[next] = "ready" => completed + 1 <= N
      BY <1>0, <2>1, <3>1, CountIn, DoneCalls \in SUBSET Call DEF Counted, DoneCalls
    <3>3. completed \in 0..N /\ N \in Nat
      BY <1>0, ToolAssumption DEF TypeOK
    <3>4. completed' = completed \/ (item[next] = "ready" /\ completed' = completed + 1)
      BY <1>6 DEF Launch
    <3> QED BY <3>2, <3>3, <3>4
  <2> QED BY <1>0, <1>6, <2>1, <2>2, <2>3, <2>4 DEF Launch, TypeOK, askVars
<1>7. CASE Receive
  <2> DEFINE m == Head(inbox)
  <2>1. m \in Message /\ m = inbox[1] /\ 1 \in 1..Len(inbox) /\ Tail(inbox) \in Seq(Message)
    <3>1. inbox \in Seq(Message) /\ inbox # <<>>
      BY <1>0, <1>7 DEF Receive, TypeOK, Message
    <3> QED BY <3>1, HeadTypes
  <2>2. m.call \in Call /\ item[m.call] = "sent" /\ m.outcome \in Outcome /\ m.effect \in Nat
    BY <1>0, <2>1 DEF Messages, Message
  <2>3. Mended(m.call, m.outcome) \in Outcome
    BY <2>2 DEF Mended, Outcome
  <2>4. PICK seen \in Outcome : outcome' = [outcome EXCEPT ![m.call] =
              IF m.effect # 0 /\ m.effect # planRev + 1 THEN "Internal" ELSE seen]
    BY <1>7, <2>3 DEF Receive, Outcome
  <2>5. outcome' \in [Call -> Outcome \cup {"none"}]
    BY <1>0, <2>2, <2>4 DEF TypeOK, Outcome
  <2>6. /\ item' = [item EXCEPT ![m.call] = "done"]
        /\ effect' \in [Call -> Nat] /\ planRev' \in Nat /\ finish' \in [Call -> Nat]
    <3> DEFINE bad == m.effect # 0 /\ m.effect # planRev + 1
    <3>1. /\ item' = [item EXCEPT ![m.call] = "done"]
          /\ effect' = [effect EXCEPT ![m.call] = IF bad THEN 0 ELSE m.effect]
          /\ planRev' = IF m.effect # 0 /\ ~bad THEN m.effect ELSE planRev
          /\ finish' = [finish EXCEPT ![m.call] = IF m.effect = 0 \/ bad THEN @ + 1 ELSE @]
      BY <1>7 DEF Receive
    <3>2. effect \in [Call -> Nat] /\ finish \in [Call -> Nat] /\ planRev \in Nat
      BY <1>0 DEF TypeOK
    <3> HIDE DEF bad
    <3> QED BY <3>1, <3>2, <2>2
  <2>7. item' \in [Call -> {"new", "settled", "ready", "running", "sent", "lost", "done"}]
    BY <1>0, <2>6 DEF TypeOK
  <2>8. running' \in 0..Limit
    <3>1. m.call \in Working
      BY <2>2 DEF Working
    <3>2. running >= 1
      BY <1>0, <3>1, CountOut, Working \in SUBSET Call DEF Counted, Working
    <3>3. running \in 0..Limit /\ running' = running - 1
      BY <1>0, <1>7 DEF Receive, TypeOK
    <3> QED BY <3>2, <3>3, ToolAssumption
  <2>9. completed' \in 0..N
    <3>1. m.call \notin DoneCalls
      BY <2>2 DEF DoneCalls
    <3>2. completed + 1 <= N
      BY <1>0, <2>2, <3>1, CountIn, DoneCalls \in SUBSET Call DEF Counted, DoneCalls
    <3>3. completed \in 0..N /\ completed' = completed + 1
      BY <1>0, <1>7 DEF Receive, TypeOK
    <3> QED BY <3>2, <3>3, ToolAssumption
  <2> QED BY <1>0, <1>7, <2>1, <2>5, <2>6, <2>7, <2>8, <2>9 DEF Receive, TypeOK, askVars, Message
<1>8. ASSUME NEW c \in Call, NEW o \in {"ok", "error", "Aborted"}, ToolReturns(c, o) PROVE TypeOK'
  <2> DEFINE m == [call |-> c, outcome |-> o,
                   effect |-> IF c \in Planner /\ o = "ok" THEN base[c] + 1 ELSE 0]
  <2>1. m \in Message
    BY <1>0 DEF TypeOK, Message, Outcome
  <2>2. inbox' \in Seq(Message)
    BY <1>0, <1>8, <2>1, AppendProperties DEF ToolReturns, TypeOK, Message
  <2>3. item' \in [Call -> {"new", "settled", "ready", "running", "sent", "lost", "done"}]
    BY <1>0, <1>8 DEF ToolReturns, TypeOK
  <2> QED BY <1>0, <1>8, <2>2, <2>3 DEF ToolReturns, TypeOK, askVars, Message
<1>9. ASSUME NEW c \in Call, ToolPanics(c) \/ DeadlinePasses(c) PROVE TypeOK'
  BY ZenonT(30), <1>0, <1>9 DEF ToolPanics, DeadlinePasses, TypeOK, callVars, batchVars, askVars
<1>10. CASE UserCancels
  BY <1>0, <1>10 DEF UserCancels, TypeOK, callVars, batchVars, askVars
<1>11. CASE Assemble
  BY <1>0, <1>11 DEF Assemble, TypeOK, Outcome, batchVars, askVars
<1>12. CASE Commit
  <2>1. \A c \in Call : outcome[c] # "none"
    BY <1>0, <1>12 DEF Commit, Phases
  <2>2. outcome \in [Call -> Outcome]
    BY <1>0, <2>1 DEF TypeOK
  <2>3. finish' \in [Call -> Nat]
    <3>1. finish \in [Call -> Nat] /\ 1 \in Nat
      BY <1>0 DEF TypeOK
    <3>2. \/ finish' = [c \in Call |-> IF finish[c] = 0 THEN 1 ELSE finish[c]]
          \/ finish' = finish
      BY <1>12 DEF Commit
    <3> QED BY <3>1, <3>2
  <2>4. log' = <<>> \/ log' \in [Call -> Outcome]
    BY <1>0, <1>12, <2>2 DEF Commit, TypeOK
  <2> QED BY <1>0, <1>12, <2>3, <2>4 DEF Commit, TypeOK, batchVars, askVars
<1>13. CASE UNCHANGED vars
  BY <1>0, <1>13 DEF vars, TypeOK, callVars, batchVars, askVars
<1> QED BY <1>1, <1>2, <1>3, <1>4, <1>5, <1>6, <1>7, <1>8, <1>9, <1>10, <1>11, <1>12, <1>13
        DEF Next, Coordinator, Batch, Ended

-----------------------------------------------------------------------------
(* Which calls have been checked, and which have an outcome.               *)

\* One call is checked, with or without an outcome.
LEMMA CheckedShape ==
    ASSUME TypeOK, Phases, Outcomes, Checking, next \in Call,
           \/ Pass(next)
           \/ \E o \in Outcome : Refuse(next, o),
           pending' = 0, UNCHANGED <<running, completed, inbox, log>>
    PROVE  Phases' /\ Outcomes'
<1>1. /\ pc' = "check" /\ next' = next + 1
      /\ next \in Nat /\ item[next] = "new" /\ log = <<>>
      /\ outcome[next] = "none" /\ finish[next] = 0
  BY ToolAssumption DEF Pass, Refuse, Phases, Outcomes, Checking, Call
<1>2. Outcomes'
  <2> SUFFICES ASSUME NEW c \in Call
               PROVE  /\ outcome'[c] # "none" <=> item'[c] \in {"settled", "done"}
                      /\ finish'[c] \in {0, 1}
                      /\ outcome'[c] = "none" => finish'[c] = 0
    BY DEF Outcomes
  <2>1. /\ outcome[c] # "none" <=> item[c] \in {"settled", "done"}
        /\ finish[c] \in {0, 1}
        /\ outcome[c] = "none" => finish[c] = 0
    BY DEF Outcomes
  <2>2. CASE Pass(next)
    BY <1>1, <2>1, <2>2 DEF Pass, TypeOK
  <2>3. ASSUME NEW o \in Outcome, Refuse(next, o)
        PROVE  /\ outcome'[c] # "none" <=> item'[c] \in {"settled", "done"}
               /\ finish'[c] \in {0, 1}
               /\ outcome'[c] = "none" => finish'[c] = 0
    <3>1. CASE c # next
      BY <2>1, <2>3, <3>1 DEF Refuse, TypeOK
    <3>2. CASE c = next
      <4>1. item'[c] = "settled" /\ outcome'[c] = o /\ finish'[c] = finish[c] + 1
        BY <2>3, <3>2 DEF Refuse, TypeOK
      <4>2. o # "none"
        BY DEF Outcome
      <4> QED BY <1>1, <3>2, <4>1, <4>2
    <3> QED BY <3>1, <3>2
  <2> QED BY <2>2, <2>3
<1>3. \A c \in Call : /\ c >= next + 1 <=> item'[c] = "new"
                      /\ item'[c] \in {"new", "settled", "ready"}
  <2> SUFFICES ASSUME NEW c \in Call
               PROVE  /\ c >= next + 1 <=> item'[c] = "new"
                      /\ item'[c] \in {"new", "settled", "ready"}
    OBVIOUS
  <2>1. c \in Nat /\ (c >= next <=> item[c] = "new") /\ item[c] \in {"new", "settled", "ready"}
    BY ToolAssumption DEF Phases, Call
  <2>2. PICK v \in {"settled", "ready"} : item' = [item EXCEPT ![next] = v]
    BY DEF Pass, Refuse
  <2>3. item'[c] = IF c = next THEN v ELSE item[c]
    BY <2>2 DEF TypeOK
  <2> QED BY <1>1, <2>1, <2>3
<1> QED BY <1>1, <1>2, <1>3 DEF Phases, Checking

LEMMA ShapeStep == ToolInv /\ [Next]_vars => Phases' /\ Outcomes'
<1> SUFFICES ASSUME ToolInv, [Next]_vars PROVE Phases' /\ Outcomes'
  OBVIOUS
<1>0. TypeOK /\ Phases /\ Counted /\ Messages /\ Outcomes
  BY DEF ToolInv
<1>1. CASE Check
  <2>1. next \in Call /\ Checking /\ pending = 0
    BY <1>0, <1>1, ToolAssumption DEF Check, TypeOK, Call, Phases, Checking
  <2>2. CASE Refuse(next, "refused") /\ UNCHANGED <<pending, claimed>>
    <3>1. "refused" \in Outcome
      BY DEF Outcome
    <3> QED BY <1>0, <1>1, <2>1, <2>2, <3>1, CheckedShape DEF Check
  <2>3. CASE Pass(next) /\ UNCHANGED <<pending, claimed>>
    BY <1>0, <1>1, <2>1, <2>3, CheckedShape DEF Check
  <2>4. CASE /\ pc' = "asking" /\ pending' = next /\ next \in Asked
             /\ UNCHANGED <<callVars, next>>
    BY <1>0, <1>1, <2>1, <2>4 DEF Check, Phases, Outcomes, Checking, callVars
  <2> QED BY <1>1, <2>2, <2>3, <2>4 DEF Check
<1>2. CASE RequestApproval
  <2>1. next \in Call /\ Checking
    BY <1>0, <1>2, ToolAssumption DEF RequestApproval, AskCancelled, StaleReply, Reply, Phases, Checking
  <2>2. CASE StaleReply
    BY <1>0, <1>2, <2>2 DEF RequestApproval, StaleReply, Phases, Outcomes, Checking, callVars
  <2>3. CASE AskCancelled \/ Reply
    <3>1. "Aborted" \in Outcome /\ "refused" \in Outcome
      BY DEF Outcome
    <3>2. /\ Pass(next) \/ \E o \in Outcome : Refuse(next, o)
          /\ pending' = 0
      BY <2>3, <3>1 DEF AskCancelled, Reply, TakeReply, Unask
    <3>3. UNCHANGED <<running, completed, inbox, log>>
      BY <1>2 DEF RequestApproval
    <3> QED BY <1>0, <2>1, <3>2, <3>3, CheckedShape
  <2> QED BY <1>2, <2>2, <2>3 DEF RequestApproval
<1>3. ASSUME NEW t \in Thread, Claim(t) \/ SendReply(t) PROVE Phases' /\ Outcomes'
  BY <1>0, <1>3 DEF Claim, SendReply, Phases, Outcomes, Checking, callVars, batchVars
<1>4. CASE StartBatch
  <2>1. \A c \in Call : item[c] # "new"
    BY <1>0, <1>4, ToolAssumption DEF StartBatch, Phases, Checking, TypeOK, Call
  <2> QED BY <1>0, <1>4, <2>1 DEF StartBatch, Phases, Outcomes, Checking, callVars, askVars
<1>5. CASE LoopTop \/ Launched \/ ReceiveTimeout
  BY <1>0, <1>5 DEF LoopTop, Launched, ReceiveTimeout, Phases, Outcomes, Checking, callVars,
                    batchVars, askVars
<1>6. CASE Launch
  <2>1. next \in Call /\ pc = "launch" /\ pc' = pc /\ UNCHANGED <<pending, log>>
    BY <1>0, <1>6, ToolAssumption DEF Launch, TypeOK, Call, askVars
  <2>2. CASE UNCHANGED callVars
    BY <1>0, <2>1, <2>2 DEF Phases, Outcomes, Checking, callVars
  <2>3. CASE /\ item[next] = "ready"
             /\ item' = [item EXCEPT ![next] = "done"]
             /\ outcome' = [outcome EXCEPT ![next] = "Aborted"]
             /\ finish' = [finish EXCEPT ![next] = @ + 1]
    <3>1. finish[next] = 0
      BY <1>0, <2>1, <2>3 DEF Outcomes
    <3>2. finish \in [Call -> Nat]
      BY <1>0 DEF TypeOK
    <3>3. finish' = [finish EXCEPT ![next] = 1]
      BY <2>1, <2>3, <3>1, <3>2
    <3>4. Outcomes'
      BY <1>0, <2>1, <2>3, <3>2, <3>3 DEF Outcomes, TypeOK
    <3> QED BY <1>0, <2>1, <2>3, <3>4 DEF Phases, Checking, TypeOK
  <2>4. CASE /\ item[next] = "ready"
             /\ item' = [item EXCEPT ![next] = "running"]
             /\ UNCHANGED <<outcome, finish>>
    BY <1>0, <2>1, <2>4 DEF Phases, Outcomes, Checking, TypeOK
  <2> QED BY <1>6, <2>2, <2>3, <2>4 DEF Launch
<1>7. CASE Receive
  <2> DEFINE m == Head(inbox)
  <2>1. m = inbox[1] /\ 1 \in 1..Len(inbox)
    <3>1. inbox \in Seq(Message) /\ inbox # <<>>
      BY <1>0, <1>7 DEF Receive, TypeOK, Message
    <3> QED BY <3>1, HeadTypes
  <2>2. /\ item[m.call] = "sent" /\ m.outcome \in {"ok", "error", "Aborted"}
        /\ m.call \in Call
    <3>1. inbox \in Seq(Message)
      BY <1>0 DEF TypeOK, Message
    <3>2. inbox[1] \in Message
      BY <2>1, <3>1
    <3> QED BY <1>0, <2>1, <3>2 DEF Messages, Message
  <2>3. PICK o \in Outcome, f \in {finish[m.call], finish[m.call] + 1} :
           /\ item' = [item EXCEPT ![m.call] = "done"]
           /\ outcome' = [outcome EXCEPT ![m.call] = o]
           /\ finish' = [finish EXCEPT ![m.call] = f]
    <3> DEFINE bad == m.effect # 0 /\ m.effect # planRev + 1
    <3>1. PICK seen \in {Mended(m.call, m.outcome), "error"} :
             /\ item' = [item EXCEPT ![m.call] = "done"]
             /\ outcome' = [outcome EXCEPT ![m.call] = IF bad THEN "Internal" ELSE seen]
             /\ finish' = [finish EXCEPT ![m.call] = IF m.effect = 0 \/ bad THEN @ + 1 ELSE @]
      BY <1>7 DEF Receive
    <3>2. seen \in Outcome /\ "Internal" \in Outcome
      BY <2>2 DEF Mended, Outcome
    <3> HIDE DEF bad
    <3>3. (IF bad THEN "Internal" ELSE seen) \in Outcome
      BY <3>2
    <3>4. CASE m.effect = 0 \/ bad
      BY <3>1, <3>3, <3>4
    <3>5. CASE ~(m.effect = 0 \/ bad)
      BY <3>1, <3>3, <3>5
    <3> QED BY <3>4, <3>5
  <2>4. o # "none" /\ finish[m.call] = 0
    BY <1>0, <2>2 DEF Outcomes, Outcome
  <2>5. f \in {0, 1}
    BY <2>3, <2>4
  <2>6. Outcomes'
    <3> HIDE DEF m
    <3> QED BY <1>0, <2>2, <2>3, <2>4, <2>5 DEF Outcomes, TypeOK
  <2>7. Phases'
    <3> HIDE DEF m
    <3> QED BY <1>0, <1>7, <2>2, <2>3 DEF Receive, Phases, Checking, TypeOK, askVars
  <2> QED BY <2>6, <2>7
<1>8. ASSUME NEW c \in Call, NEW v \in {"sent", "lost"}, item[c] = "running",
             item' = [item EXCEPT ![c] = v], UNCHANGED <<pc, outcome, finish, pending, log, next>>
      PROVE  Phases' /\ Outcomes'
  <2>1. ~Checking
    BY <1>0, <1>8 DEF Phases
  <2>2. \A d \in Call : item'[d] = IF d = c THEN v ELSE item[d]
    BY <1>0, <1>8 DEF TypeOK
  <2> QED BY <1>0, <1>8, <2>1, <2>2 DEF Phases, Outcomes, Checking
<1>9. ASSUME NEW c \in Call, NEW o \in {"ok", "error", "Aborted"}, ToolReturns(c, o)
      PROVE  Phases' /\ Outcomes'
  BY <1>8, <1>9 DEF ToolReturns, askVars
<1>10. ASSUME NEW c \in Call, ToolPanics(c) PROVE Phases' /\ Outcomes'
  BY <1>8, <1>10 DEF ToolPanics, batchVars, askVars
<1>11. ASSUME NEW c \in Call, DeadlinePasses(c) PROVE Phases' /\ Outcomes'
  BY <1>0, <1>11 DEF DeadlinePasses, Phases, Outcomes, Checking, callVars, askVars
<1>12. CASE UserCancels
  BY <1>0, <1>12 DEF UserCancels, Phases, Outcomes, Checking, callVars, batchVars, askVars
<1>13. CASE Assemble
  <2>1. \A c \in Call : outcome[c] # "none"
    BY <1>0, <1>13, AllHaveOutcomes DEF Assemble, Checking
  <2>2. outcome' = outcome
    BY <1>0, <1>13, <2>1 DEF Assemble, TypeOK
  <2> QED BY <1>0, <1>13, <2>1, <2>2 DEF Assemble, Phases, Outcomes, Checking, batchVars, askVars
<1>14. CASE Commit
  <2>1. \A c \in Call : outcome[c] # "none"
    BY <1>0, <1>14 DEF Commit, Phases
  <2>2. \A c \in Call : finish'[c] \in {0, 1}
    BY <1>0, <1>14 DEF Commit, Outcomes
  <2>3. Outcomes'
    BY <1>0, <1>14, <2>1, <2>2 DEF Commit, Outcomes
  <2> QED BY <1>0, <1>14, <2>1, <2>3 DEF Commit, Phases, Checking, batchVars, askVars
<1>15. CASE UNCHANGED vars
  BY <1>0, <1>15 DEF vars, Phases, Outcomes, Checking, callVars, batchVars, askVars
<1> QED BY <1>1, <1>2, <1>3, <1>4, <1>5, <1>6, <1>7, <1>9, <1>10, <1>11, <1>12, <1>13, <1>14, <1>15
        DEF Next, Coordinator, Batch, Ended

-----------------------------------------------------------------------------
(* The messages of the workers.                                            *)

\* The message the coordinator takes.
LEMMA Received ==
    ASSUME TypeOK, Messages, Receive
    PROVE  LET m == Head(inbox)
           IN  /\ inbox \in Seq(Message) /\ inbox # <<>> /\ m = inbox[1] /\ 1 \in 1..Len(inbox)
               /\ m \in Message /\ m.call \in Call /\ item[m.call] = "sent"
               /\ m.outcome \in {"ok", "error", "Aborted"} /\ m.effect \in Nat
               /\ m.effect # 0 => m.call \in Planner /\ m.effect = base[m.call] + 1
               /\ m.outcome = "Aborted" => cancel \/ m.call \in late
               /\ item' = [item EXCEPT ![m.call] = "done"]
<1>1. inbox \in Seq(Message) /\ inbox # <<>>
  BY DEF Receive, TypeOK, Message
<1>2. Head(inbox) = inbox[1] /\ 1 \in 1..Len(inbox) /\ Head(inbox) \in Message
  BY <1>1, HeadTypes
<1>3. Head(inbox).call \in Call /\ Head(inbox).effect \in Nat
  BY <1>2 DEF Message
<1>4. item' = [item EXCEPT ![Head(inbox).call] = "done"]
  BY DEF Receive
<1> QED BY <1>1, <1>2, <1>3, <1>4 DEF Messages

\* A step that takes no message and sends none.
LEMMA MessagesStay ==
    ASSUME Messages, TypeOK, inbox' = inbox, cancel => cancel', late \subseteq late',
           \A c \in Call : item[c] = "sent" => item'[c] = "sent" /\ base'[c] = base[c]
    PROVE  Messages'
<1>1. inbox \in Seq(Message)
  BY DEF TypeOK, Message
<1>2. \A i \in 1..Len(inbox) : inbox[i] \in Message
  BY <1>1
<1>3. \A i \in 1..Len(inbox) : inbox[i].call \in Call
  BY <1>2 DEF Message
<1> QED BY <1>3 DEF Messages

LEMMA MessagesStep == ToolInv /\ [Next]_vars => Messages'
<1> SUFFICES ASSUME ToolInv, [Next]_vars PROVE Messages'
  OBVIOUS
<1>0. TypeOK /\ Phases /\ Messages /\ Flagged
  BY DEF ToolInv
<1>1. CASE Check \/ RequestApproval
  <2>1. inbox = <<>> /\ inbox' = inbox
    BY <1>0, <1>1 DEF Check, RequestApproval, AskCancelled, StaleReply, Reply, Phases, Checking
  <2> QED BY <2>1 DEF Messages
<1>2. CASE Launch
  <2>1. item[next] # "sent" => \A c \in Call : item[c] = "sent" => c # next
    OBVIOUS
  <2>2. \A c \in Call : item[c] = "sent" => item'[c] = "sent" /\ base'[c] = base[c]
    BY <1>0, <1>2, <2>1 DEF Launch, TypeOK, callVars
  <2> QED BY <1>0, <1>2, <2>2, MessagesStay DEF Launch
<1>3. CASE Receive
  <2> DEFINE m == Head(inbox)
             q == Tail(inbox)
  <2>1. /\ inbox \in Seq(Message) /\ inbox # <<>> /\ m = inbox[1] /\ 1 \in 1..Len(inbox)
        /\ m.call \in Call /\ item' = [item EXCEPT ![m.call] = "done"]
    BY <1>0, <1>3, Received
  <2>2. /\ inbox' = q /\ UNCHANGED <<cancel, late, base>>
    BY <1>3 DEF Receive
  <2>3. /\ Len(q) \in Nat /\ Len(q) = Len(inbox) - 1
        /\ \A i \in 1..Len(q) : q[i] = inbox[i + 1] /\ i + 1 \in 1..Len(inbox)
    BY <2>1, HeadTypes
  <2>4. \A i \in 1..Len(q) : q[i].call \in Call /\ q[i].call # m.call
    <3> SUFFICES ASSUME NEW i \in 1..Len(q) PROVE q[i].call \in Call /\ q[i].call # m.call
      OBVIOUS
    <3>1. i + 1 \in 1..Len(inbox) /\ q[i] = inbox[i + 1] /\ i + 1 # 1
      BY <2>3
    <3>2. inbox[i + 1] \in Message
      BY <2>1, <3>1
    <3> QED BY <1>0, <2>1, <3>1, <3>2 DEF Messages, Message
  <2>5. \A i, j \in 1..Len(q) : q[i].call = q[j].call => i = j
    <3> SUFFICES ASSUME NEW i \in 1..Len(q), NEW j \in 1..Len(q), q[i].call = q[j].call PROVE i = j
      OBVIOUS
    <3>1. /\ i + 1 \in 1..Len(inbox) /\ q[i] = inbox[i + 1]
          /\ j + 1 \in 1..Len(inbox) /\ q[j] = inbox[j + 1]
      BY <2>3
    <3>2. i + 1 = j + 1
      BY <1>0, <3>1 DEF Messages
    <3> QED BY <2>3, <3>2
  <2>6. ASSUME NEW i \in 1..Len(q)
        PROVE  /\ item'[q[i].call] = "sent"
               /\ q[i].outcome \in {"ok", "error", "Aborted"}
               /\ q[i].effect # 0 => q[i].call \in Planner /\ q[i].effect = base[q[i].call] + 1
               /\ q[i].outcome = "Aborted" => cancel \/ q[i].call \in late
    <3>1. i + 1 \in 1..Len(inbox) /\ q[i] = inbox[i + 1]
      BY <2>3
    <3>2. item'[q[i].call] = item[q[i].call]
      BY <1>0, <2>1, <2>4 DEF TypeOK
    <3> QED BY <1>0, <3>1, <3>2 DEF Messages
  <2> HIDE DEF q
  <2> QED BY <2>2, <2>5, <2>6 DEF Messages
<1>4. ASSUME NEW c \in Call, NEW o \in {"ok", "error", "Aborted"}, ToolReturns(c, o) PROVE Messages'
  <2> DEFINE m == [call |-> c, outcome |-> o,
                   effect |-> IF c \in Planner /\ o = "ok" THEN base[c] + 1 ELSE 0]
             n == Len(inbox)
  <2>1. inbox \in Seq(Message) /\ inbox' = Append(inbox, m)
    BY <1>0, <1>4 DEF ToolReturns, TypeOK, Message
  <2>2. m \in Message
    BY <1>0 DEF TypeOK, Message, Outcome
  <2>3. /\ n \in Nat /\ Len(inbox') = n + 1 /\ inbox'[n + 1] = m
        /\ \A i \in 1..n : inbox'[i] = inbox[i]
    BY <2>1, <2>2, AppendProperties, LenProperties
  <2>4. /\ UNCHANGED <<cancel, late, base>> /\ item' = [item EXCEPT ![c] = "sent"]
        /\ item[c] = "running"
    BY <1>4 DEF ToolReturns
  <2>5. o = "Aborted" => cancel \/ c \in late
    BY <1>0, <1>4 DEF ToolReturns, Flagged
  <2>6. \A i \in 1..n : inbox[i].call \in Call /\ inbox[i].call # c
    <3>1. \A i \in 1..n : inbox[i] \in Message
      BY <2>1
    <3>2. \A i \in 1..n : inbox[i].call \in Call
      BY <3>1 DEF Message
    <3> QED BY <1>0, <2>4, <3>2 DEF Messages
  <2>7. /\ m.call = c /\ m.outcome = o
        /\ m.effect # 0 => c \in Planner /\ m.effect = base[c] + 1
    OBVIOUS
  <2> HIDE DEF m, n
  <2>8. \A i \in 1..n + 1 : i = n + 1 \/ i \in 1..n
    BY <2>3
  <2>9. \A i, j \in 1..n + 1 : inbox'[i].call = inbox'[j].call => i = j
    BY <1>0, <2>3, <2>6, <2>7, <2>8 DEF Messages, n
  <2>10. ASSUME NEW i \in 1..n + 1
         PROVE  /\ item'[inbox'[i].call] = "sent"
                /\ inbox'[i].outcome \in {"ok", "error", "Aborted"}
                /\ inbox'[i].effect # 0 =>
                      inbox'[i].call \in Planner /\ inbox'[i].effect = base[inbox'[i].call] + 1
                /\ inbox'[i].outcome = "Aborted" => cancel \/ inbox'[i].call \in late
    <3>1. CASE i = n + 1
      BY <1>0, <2>3, <2>4, <2>5, <2>7, <3>1 DEF TypeOK
    <3>2. CASE i \in 1..n
      <4>1. inbox'[i] = inbox[i] /\ item'[inbox[i].call] = item[inbox[i].call]
        BY <1>0, <2>3, <2>4, <2>6, <3>2 DEF TypeOK
      <4> QED BY <1>0, <3>2, <4>1 DEF Messages, n
    <3> QED BY <2>8, <3>1, <3>2
  <2> QED BY <2>3, <2>4, <2>9, <2>10 DEF Messages
<1>5. ASSUME NEW c \in Call, ToolPanics(c) PROVE Messages'
  <2>1. \A d \in Call : item[d] = "sent" => item'[d] = "sent" /\ base'[d] = base[d]
    BY <1>0, <1>5 DEF ToolPanics, TypeOK, batchVars
  <2> QED BY <1>0, <1>5, <2>1, MessagesStay DEF ToolPanics, batchVars
<1>6. CASE \/ StartBatch \/ LoopTop \/ Launched \/ ReceiveTimeout \/ UserCancels \/ Assemble \/ Commit
           \/ \E c \in Call : DeadlinePasses(c)
           \/ \E t \in Thread : Claim(t) \/ SendReply(t)
           \/ UNCHANGED vars
  <2>1. UNCHANGED <<inbox, item, base>> /\ (cancel => cancel') /\ late \subseteq late'
    <3>1. CASE \/ StartBatch \/ LoopTop \/ Launched \/ ReceiveTimeout \/ UserCancels \/ UNCHANGED vars
      BY <3>1 DEF StartBatch, LoopTop, Launched, ReceiveTimeout, UserCancels, vars, callVars, batchVars
    <3>2. CASE Assemble \/ Commit
      BY <3>2 DEF Assemble, Commit, batchVars
    <3>3. ASSUME NEW c \in Call, DeadlinePasses(c)
          PROVE  UNCHANGED <<inbox, item, base, cancel>> /\ late \subseteq late'
      BY <3>3 DEF DeadlinePasses, callVars
    <3>4. ASSUME NEW t \in Thread, Claim(t) \/ SendReply(t)
          PROVE  UNCHANGED <<inbox, item, base, cancel, late>>
      BY <3>4 DEF Claim, SendReply, callVars, batchVars
    <3> QED BY <1>6, <3>1, <3>2, <3>3, <3>4
  <2> QED BY <1>0, <2>1, MessagesStay
<1> QED BY <1>1, <1>2, <1>3, <1>4, <1>5, <1>6 DEF Next, Coordinator, Batch, Ended

-----------------------------------------------------------------------------
(* The counters of the batch and the plan.                                 *)

\* A call of the batch moves on.
LEMMA MovesOn ==
    ASSUME TypeOK, NEW c \in Ready, NEW v \in {"running", "sent", "lost", "done"},
           item' = [item EXCEPT ![c] = v]
    PROVE  /\ Cap' = Cap
           /\ v = "done" => Working' = Working \ {c} /\ DoneCalls' = DoneCalls \cup {c}
           /\ v # "done" => Working' = Working \cup {c} /\ DoneCalls' = DoneCalls \ {c}
<1>1. \A d \in Call : item'[d] = IF d = c THEN v ELSE item[d]
  BY DEF TypeOK
<1>2. c \in Call /\ item[c] \in {"ready", "running", "sent", "lost", "done"}
  BY DEF Ready
<1>3. Ready' = Ready
  BY <1>1, <1>2 DEF Ready
<1>4. v = "done" => Working' = Working \ {c} /\ DoneCalls' = DoneCalls \cup {c}
  BY <1>1, <1>2 DEF Working, DoneCalls
<1>5. v # "done" => Working' = Working \cup {c} /\ DoneCalls' = DoneCalls \ {c}
  BY <1>1, <1>2 DEF Working, DoneCalls
<1> QED BY <1>3, <1>4, <1>5 DEF Cap

LEMMA CountedStep == ToolInv /\ [Next]_vars => Counted'
<1> SUFFICES ASSUME ToolInv, [Next]_vars PROVE Counted'
  OBVIOUS
<1>0. TypeOK /\ Phases /\ Messages /\ Counted /\ Phases'
  BY ShapeStep DEF ToolInv
<1>a. /\ Working \in SUBSET Call /\ DoneCalls \in SUBSET Call
      /\ running \in Nat /\ completed \in Nat
  BY <1>0 DEF Working, DoneCalls, TypeOK
<1>1. CASE pc' \in {"check", "asking"}
  <2>1. running' = 0 /\ completed' = 0 /\ \A c \in Call : item'[c] \in {"new", "settled", "ready"}
    BY <1>0, <1>1 DEF Phases, Checking
  <2>2. Working' = {} /\ DoneCalls' = {}
    BY <2>1 DEF Working, DoneCalls
  <2>3. Cap' \in Nat
    BY ToolAssumption DEF Cap
  <2> QED BY <2>1, <2>2, <2>3, FS_EmptySet DEF Counted
<1>2. CASE UNCHANGED <<item, running, completed>>
  BY <1>0, <1>2 DEF Counted, Cap, Ready, Working, DoneCalls
<1>3. CASE Launch
  <2>1. next \in Call
    BY <1>0, <1>3, ToolAssumption DEF Launch, TypeOK, Call
  <2>2. CASE item[next] = "ready" /\ item' = [item EXCEPT ![next] = "done"]
             /\ completed' = completed + 1 /\ running' = running
    <3>1. next \in Ready /\ next \notin Working /\ next \notin DoneCalls
      BY <2>1, <2>2 DEF Ready, Working, DoneCalls
    <3>a. Working \ {next} = Working
      BY <3>1
    <3>2. Cap' = Cap /\ Working' = Working /\ DoneCalls' = DoneCalls \cup {next}
      BY <1>0, <2>2, <3>1, <3>a, MovesOn
    <3>3. Cardinality(DoneCalls \cup {next}) = Cardinality(DoneCalls) + 1
      BY <1>a, <2>1, <3>1, CountIn
    <3> QED BY <1>0, <2>2, <3>2, <3>3 DEF Counted
  <2>3. CASE item[next] = "ready" /\ item' = [item EXCEPT ![next] = "running"]
             /\ running' = running + 1 /\ completed' = completed
    <3>1. next \in Ready /\ next \notin Working /\ next \notin DoneCalls
      BY <2>1, <2>3 DEF Ready, Working, DoneCalls
    <3>a. DoneCalls \ {next} = DoneCalls
      BY <3>1
    <3>2. Cap' = Cap /\ Working' = Working \cup {next} /\ DoneCalls' = DoneCalls
      BY <1>0, <2>3, <3>1, <3>a, MovesOn
    <3>3. Cardinality(Working \cup {next}) = Cardinality(Working) + 1
      BY <1>a, <2>1, <3>1, CountIn
    <3>4. running + 1 <= Cap
      BY <1>a, <1>3, CapFacts DEF Launch
    <3> QED BY <1>0, <2>3, <3>2, <3>3, <3>4 DEF Counted
  <2> QED BY <1>2, <1>3, <2>2, <2>3 DEF Launch, callVars
<1>4. CASE Receive
  <2> DEFINE c == Head(inbox).call
  <2>1. c \in Call /\ item[c] = "sent" /\ item' = [item EXCEPT ![c] = "done"]
    BY <1>0, <1>4, Received
  <2>2. running' = running - 1 /\ completed' = completed + 1
    BY <1>4 DEF Receive
  <2> HIDE DEF c
  <2>3. c \in Ready /\ c \in Working /\ c \notin DoneCalls
    BY <2>1 DEF Ready, Working, DoneCalls
  <2>4. Cap' = Cap /\ Working' = Working \ {c} /\ DoneCalls' = DoneCalls \cup {c}
    BY <1>0, <2>1, <2>3, MovesOn
  <2>5. /\ Cardinality(Working \ {c}) = Cardinality(Working) - 1
        /\ Cardinality(DoneCalls \cup {c}) = Cardinality(DoneCalls) + 1
    BY <1>a, <2>1, <2>3, CountIn, CountOut
  <2> QED BY <1>0, <1>a, <2>2, <2>4, <2>5, CapFacts DEF Counted
<1>5. ASSUME NEW c \in Call, NEW v \in {"sent", "lost"}, item[c] = "running",
             item' = [item EXCEPT ![c] = v], UNCHANGED <<running, completed>>
      PROVE  Counted'
  <2>1. c \in Ready /\ c \in Working /\ c \notin DoneCalls
    BY <1>5 DEF Ready, Working, DoneCalls
  <2>a. Working \cup {c} = Working /\ DoneCalls \ {c} = DoneCalls
    BY <2>1
  <2>2. Cap' = Cap /\ Working' = Working /\ DoneCalls' = DoneCalls
    BY <1>0, <1>5, <2>1, <2>a, MovesOn
  <2> QED BY <1>0, <1>5, <2>2 DEF Counted
<1>6. ASSUME NEW c \in Call, NEW o \in {"ok", "error", "Aborted"}, ToolReturns(c, o) PROVE Counted'
  BY <1>5, <1>6 DEF ToolReturns
<1>7. ASSUME NEW c \in Call, ToolPanics(c) PROVE Counted'
  BY <1>5, <1>7 DEF ToolPanics, batchVars
<1>8. CASE Check \/ RequestApproval
  <2>1. pc' \in {"check", "asking"}
    BY <1>8 DEF Check, RequestApproval, AskCancelled, StaleReply, Reply, TakeReply, Refuse, Pass
  <2> QED BY <1>1, <2>1
<1>9. CASE \/ StartBatch \/ LoopTop \/ Launched \/ ReceiveTimeout \/ UserCancels \/ UNCHANGED vars
           \/ Assemble \/ Commit
  BY <1>2, <1>9 DEF StartBatch, LoopTop, Launched, ReceiveTimeout, UserCancels, vars, callVars,
                    batchVars, Assemble, Commit
<1>10. ASSUME NEW c \in Call, DeadlinePasses(c) PROVE Counted'
  BY <1>2, <1>10 DEF DeadlinePasses, callVars
<1>11. ASSUME NEW t \in Thread, Claim(t) \/ SendReply(t) PROVE Counted'
  BY <1>2, <1>11 DEF Claim, SendReply, callVars, batchVars
<1> QED BY <1>3, <1>4, <1>6, <1>7, <1>8, <1>9, <1>10, <1>11 DEF Next, Coordinator, Batch, Ended

\* A call that updates the plan works alone.
LEMMA PlannerAlone ==
    ASSUME TypeOK, Counted, NEW c \in Working \cap Planner
    PROVE  Working = {c}
<1>1. c \in Ready /\ c \notin ParallelSafe
  BY ToolAssumption DEF Working, Ready
<1>2. running <= 1
  BY <1>1 DEF Counted, Cap
<1>3. Working \in SUBSET Call
  BY DEF Working
<1>4. Cardinality(Working \ {c}) = running - 1 /\ running >= 1
  BY <1>3, CountOut DEF Counted
<1>5. Cardinality(Working \ {c}) = 0
  BY <1>2, <1>4 DEF TypeOK
<1>6. Working \ {c} = {}
  BY <1>3, <1>5, FiniteCalls, FS_EmptySet
<1> QED BY <1>6

\* A message about the plan is about the next revision of it.
LEMMA NextRevision ==
    ASSUME TypeOK, Messages, Counted, PlanAtWork, Receive, Head(inbox).effect # 0
    PROVE  Head(inbox).effect = planRev + 1 /\ Working = {Head(inbox).call}
<1>1. /\ Head(inbox).call \in Call /\ item[Head(inbox).call] = "sent"
      /\ Head(inbox).call \in Planner
      /\ Head(inbox).effect = base[Head(inbox).call] + 1
  BY Received
<1>2. Head(inbox).call \in Working
  BY <1>1 DEF Working
<1>3. base[Head(inbox).call] = planRev
  BY <1>1, <1>2 DEF PlanAtWork
<1> QED BY <1>1, <1>2, <1>3, PlannerAlone

LEMMA PlanStep == ToolInv /\ [Next]_vars => PlanAtWork'
<1> SUFFICES ASSUME ToolInv, [Next]_vars PROVE PlanAtWork'
  OBVIOUS
<1>0. TypeOK /\ Phases /\ Messages /\ Counted /\ PlanAtWork /\ Phases'
  BY ShapeStep DEF ToolInv
<1>1. CASE pc' \in {"check", "asking"}
  <2>1. Working' = {}
    BY <1>0, <1>1 DEF Phases, Checking, Working
  <2> QED BY <2>1 DEF PlanAtWork
<1>2. CASE Working' \subseteq Working /\ UNCHANGED <<base, planRev>>
  BY <1>0, <1>2 DEF PlanAtWork
<1>3. CASE Launch
  <2>1. next \in Call /\ planRev' = planRev
    BY <1>0, <1>3, ToolAssumption DEF Launch, TypeOK, Call
  <2>2. CASE UNCHANGED <<item, base>>
    BY <1>2, <2>1, <2>2 DEF Working
  <2>3. CASE item[next] = "ready" /\ item' = [item EXCEPT ![next] = "done"] /\ base' = base
    <3>1. \A c \in Call : item'[c] = IF c = next THEN "done" ELSE item[c]
      BY <1>0, <2>3 DEF TypeOK
    <3>2. Working' \subseteq Working
      BY <3>1 DEF Working
    <3> QED BY <1>2, <2>1, <2>3, <3>2
  <2>4. CASE /\ item[next] = "ready" /\ item' = [item EXCEPT ![next] = "running"]
             /\ base' = [base EXCEPT ![next] = planRev]
    <3>1. \A c \in Call : c # next => item'[c] = item[c]
      BY <1>0, <2>4 DEF TypeOK
    <3>2. \A c \in Call : base'[c] = IF c = next THEN planRev ELSE base[c]
      BY <1>0, <2>4 DEF TypeOK
    <3> QED BY <1>0, <2>1, <3>1, <3>2 DEF PlanAtWork, Working
  <2> QED BY <1>3, <2>2, <2>3, <2>4 DEF Launch, callVars
<1>4. CASE Receive
  <2> DEFINE c == Head(inbox).call
             rev == Head(inbox).effect
  <2>1. c \in Call /\ item[c] = "sent" /\ item' = [item EXCEPT ![c] = "done"]
    BY <1>0, <1>4, Received
  <2>2. \A d \in Call : item'[d] = IF d = c THEN "done" ELSE item[d]
    BY <1>0, <2>1 DEF TypeOK
  <2>3. Working' = Working \ {c}
    BY <2>1, <2>2 DEF Working
  <2>4. CASE rev = 0
    <3>1. UNCHANGED <<base, planRev>>
      BY <1>4, <2>4 DEF Receive
    <3> QED BY <1>2, <2>3, <3>1
  <2>5. CASE rev # 0
    <3>1. Working' = {}
      BY <1>0, <1>4, <2>3, <2>5, NextRevision
    <3> QED BY <3>1 DEF PlanAtWork
  <2> QED BY <2>4, <2>5
<1>5. ASSUME NEW c \in Call, NEW v \in {"sent", "lost"}, item[c] = "running",
             item' = [item EXCEPT ![c] = v], UNCHANGED <<base, planRev>>
      PROVE  PlanAtWork'
  <2>1. \A d \in Call : item'[d] = IF d = c THEN v ELSE item[d]
    BY <1>0, <1>5 DEF TypeOK
  <2>2. Working' \subseteq Working
    BY <1>5, <2>1 DEF Working
  <2> QED BY <1>2, <1>5, <2>2
<1>6. ASSUME NEW c \in Call, NEW o \in {"ok", "error", "Aborted"}, ToolReturns(c, o) PROVE PlanAtWork'
  BY <1>5, <1>6 DEF ToolReturns
<1>7. ASSUME NEW c \in Call, ToolPanics(c) PROVE PlanAtWork'
  BY <1>5, <1>7 DEF ToolPanics, batchVars
<1>8. CASE Check \/ RequestApproval
  <2>1. pc' \in {"check", "asking"}
    BY <1>8 DEF Check, RequestApproval, AskCancelled, StaleReply, Reply, TakeReply, Refuse, Pass
  <2> QED BY <1>1, <2>1
<1>9. CASE UNCHANGED <<item, base, planRev>>
  BY <1>2, <1>9 DEF Working
<1>10. CASE \/ StartBatch \/ LoopTop \/ Launched \/ ReceiveTimeout \/ UserCancels \/ UNCHANGED vars
            \/ Assemble \/ Commit
  BY <1>9, <1>10 DEF StartBatch, LoopTop, Launched, ReceiveTimeout, UserCancels, vars, callVars,
                     batchVars, Assemble, Commit
<1>11. ASSUME NEW c \in Call, DeadlinePasses(c) PROVE PlanAtWork'
  BY <1>9, <1>11 DEF DeadlinePasses, callVars
<1>12. ASSUME NEW t \in Thread, Claim(t) \/ SendReply(t) PROVE PlanAtWork'
  BY <1>9, <1>12 DEF Claim, SendReply, callVars, batchVars
<1> QED BY <1>3, <1>4, <1>6, <1>7, <1>8, <1>10, <1>11, <1>12 DEF Next, Coordinator, Batch, Ended

-----------------------------------------------------------------------------
(* What the results say.                                                   *)

\* A new outcome is no internal error, and an abort only of a cancelled run.
LEMMA NewOutcomes ==
    ASSUME ToolInv, [Next]_vars, NEW d \in Call, outcome'[d] # outcome[d]
    PROVE  outcome'[d] # "Internal" /\ (outcome'[d] = "Aborted" => cancel)
<1>0. TypeOK /\ Phases /\ Messages /\ Counted /\ PlanAtWork
  BY DEF ToolInv
<1>1. ASSUME NEW c, NEW o \in {"refused", "Aborted"}, o = "Aborted" => cancel,
             outcome' = [outcome EXCEPT ![c] = o]
      PROVE  outcome'[d] # "Internal" /\ (outcome'[d] = "Aborted" => cancel)
  <2>1. outcome'[d] = o
    BY <1>0, <1>1 DEF TypeOK
  <2> QED BY <1>1, <2>1
<1>2. CASE Check
  BY <1>1, <1>2 DEF Check, Refuse, Pass, callVars
<1>3. CASE RequestApproval
  BY <1>1, <1>3 DEF RequestApproval, AskCancelled, StaleReply, Reply, TakeReply, Refuse, Pass, callVars
<1>4. CASE Launch
  BY <1>1, <1>4 DEF Launch, callVars
<1>5. CASE Receive
  <2> DEFINE m == Head(inbox)
             bad == m.effect # 0 /\ m.effect # planRev + 1
  <2>1. /\ m.outcome \in {"ok", "error", "Aborted"}
        /\ m.outcome = "Aborted" => cancel \/ m.call \in late
    BY <1>0, <1>5, Received
  <2>2. ~bad
    BY <1>0, <1>5, NextRevision
  <2>3. PICK seen \in {Mended(m.call, m.outcome), "error"} :
           outcome' = [outcome EXCEPT ![m.call] = IF bad THEN "Internal" ELSE seen]
    BY <1>5 DEF Receive
  <2>4. seen # "Internal" /\ (seen = "Aborted" => cancel)
    BY <2>1 DEF Mended
  <2>5. outcome' = [outcome EXCEPT ![m.call] = seen]
    BY <2>2, <2>3
  <2>6. outcome'[d] = seen
    BY <1>0, <2>5 DEF TypeOK
  <2> QED BY <2>4, <2>6
<1>6. CASE Assemble
  <2>1. \A c \in Call : outcome[c] # "none"
    BY <1>6, AllHaveOutcomes DEF ToolInv, Assemble, Checking
  <2> QED BY <1>6, <2>1 DEF Assemble
<1>7. CASE \/ StartBatch \/ LoopTop \/ Launched \/ ReceiveTimeout \/ UserCancels \/ UNCHANGED vars
           \/ Commit
  BY <1>7 DEF StartBatch, LoopTop, Launched, ReceiveTimeout, UserCancels, vars, callVars, Commit
<1>8. ASSUME NEW c \in Call,
             ToolPanics(c) \/ DeadlinePasses(c) \/ \E o \in {"ok", "error", "Aborted"} : ToolReturns(c, o)
      PROVE  FALSE
  BY <1>8 DEF DeadlinePasses, ToolPanics, ToolReturns, callVars
<1>9. ASSUME NEW t \in Thread, Claim(t) \/ SendReply(t) PROVE FALSE
  BY <1>9 DEF Claim, SendReply, callVars
<1> QED BY <1>2, <1>3, <1>4, <1>5, <1>6, <1>7, <1>8, <1>9 DEF Next, Coordinator, Batch, Ended

\* A cancelled run stays cancelled and a late call late.
LEMMA OnlyLater == [Next]_vars => (cancel => cancel') /\ late \subseteq late'
<1> SUFFICES ASSUME [Next]_vars PROVE (cancel => cancel') /\ late \subseteq late'
  OBVIOUS
<1>1. CASE Check \/ RequestApproval \/ Launch \/ Receive \/ Assemble \/ Commit
  BY <1>1 DEF Check, RequestApproval, Launch, Receive, Assemble, Commit, batchVars
<1>2. CASE \/ StartBatch \/ LoopTop \/ Launched \/ ReceiveTimeout \/ UserCancels \/ UNCHANGED vars
  BY <1>2 DEF StartBatch, LoopTop, Launched, ReceiveTimeout, UserCancels, vars, batchVars
<1>3. ASSUME NEW c \in Call,
             ToolPanics(c) \/ DeadlinePasses(c) \/ \E o \in {"ok", "error", "Aborted"} : ToolReturns(c, o)
      PROVE  cancel' = cancel /\ late \subseteq late'
  BY <1>3 DEF DeadlinePasses, ToolPanics, ToolReturns, batchVars
<1>4. ASSUME NEW t \in Thread, Claim(t) \/ SendReply(t) PROVE cancel' = cancel /\ late' = late
  BY <1>4 DEF Claim, SendReply, batchVars
<1> QED BY <1>1, <1>2, <1>3, <1>4 DEF Next, Coordinator, Batch, Ended

\* A flag is raised at the top of the loop and nowhere else.
LEMMA OnlyAtTop == [Next]_vars => LoopTop \/ flagged' = flagged
<1> SUFFICES ASSUME [Next]_vars PROVE LoopTop \/ flagged' = flagged
  OBVIOUS
<1>1. CASE Check \/ RequestApproval \/ Launch \/ Receive \/ Assemble \/ Commit
  BY <1>1 DEF Check, RequestApproval, Launch, Receive, Assemble, Commit, batchVars
<1>2. CASE StartBatch \/ Launched \/ ReceiveTimeout \/ UserCancels \/ UNCHANGED vars
  BY <1>2 DEF StartBatch, Launched, ReceiveTimeout, UserCancels, vars, batchVars
<1>3. ASSUME NEW c \in Call,
             ToolPanics(c) \/ DeadlinePasses(c) \/ \E o \in {"ok", "error", "Aborted"} : ToolReturns(c, o)
      PROVE  flagged' = flagged
  BY <1>3 DEF DeadlinePasses, ToolPanics, ToolReturns, batchVars
<1>4. ASSUME NEW t \in Thread, Claim(t) \/ SendReply(t) PROVE flagged' = flagged
  BY <1>4 DEF Claim, SendReply, batchVars
<1> QED BY <1>1, <1>2, <1>3, <1>4 DEF Next, Coordinator, Batch, Ended

LEMMA ResultsStep == ToolInv /\ [Next]_vars => Flagged' /\ PlanInOrder' /\ AbortMeansCancel'
<1> SUFFICES ASSUME ToolInv, [Next]_vars PROVE Flagged' /\ PlanInOrder' /\ AbortMeansCancel'
  OBVIOUS
<1>1. (cancel => cancel') /\ late \subseteq late'
  BY OnlyLater
<1>2. PlanInOrder'
  BY NewOutcomes DEF PlanInOrder, ToolInv
<1>3. AbortMeansCancel'
  BY <1>1, NewOutcomes DEF AbortMeansCancel, ToolInv
<1>4. Flagged'
  <2>1. CASE LoopTop
    BY <2>1, <1>1 DEF LoopTop, Flagged, ToolInv
  <2>2. CASE flagged' = flagged
    BY <2>2, <1>1 DEF Flagged, ToolInv
  <2> QED BY <2>1, <2>2, OnlyAtTop
<1> QED BY <1>2, <1>3, <1>4

\* What is written has been announced.
LEMMA LogStep == ToolInv /\ [Next]_vars => (log # <<>> => \A c \in Call : finish[c] = 1)'
<1> SUFFICES ASSUME ToolInv, [Next]_vars, log' # <<>> PROVE \A c \in Call : finish'[c] = 1
  OBVIOUS
<1>0. Phases /\ Phases' /\ Outcomes /\ (log # <<>> => \A c \in Call : finish[c] = 1)
  BY ShapeStep DEF ToolInv
<1>1. pc' = "end"
  BY <1>0 DEF Phases
<1>2. CASE Commit
  BY <1>0, <1>2 DEF Commit, Outcomes, Phases
<1>3. CASE UNCHANGED <<log, finish>>
  BY <1>0, <1>3
<1>4. CASE Check \/ RequestApproval \/ Launch \/ Receive
  BY <1>1, <1>4 DEF Check, RequestApproval, AskCancelled, StaleReply, Reply, TakeReply, Refuse, Pass,
                    Launch, Receive
<1>5. CASE \/ Assemble \/ StartBatch \/ LoopTop \/ Launched \/ ReceiveTimeout \/ UserCancels
           \/ UNCHANGED vars
  BY <1>3, <1>5 DEF Assemble, StartBatch, LoopTop, Launched, ReceiveTimeout, UserCancels, vars, callVars
<1>6. ASSUME NEW c \in Call,
             ToolPanics(c) \/ DeadlinePasses(c) \/ \E o \in {"ok", "error", "Aborted"} : ToolReturns(c, o)
      PROVE  UNCHANGED <<log, finish>>
  BY <1>6 DEF DeadlinePasses, ToolPanics, ToolReturns, callVars
<1>7. ASSUME NEW t \in Thread, Claim(t) \/ SendReply(t) PROVE UNCHANGED <<log, finish>>
  BY <1>7 DEF Claim, SendReply, callVars
<1> QED BY <1>2, <1>3, <1>4, <1>5, <1>6, <1>7 DEF Next, Coordinator, Batch, Ended

-----------------------------------------------------------------------------
(* What the user allowed.                                                  *)

\* The steps outside the checks neither ask nor answer, and add no call.
LEMMA NotAsking ==
    ASSUME ToolInv, [Next]_vars
    PROVE  \/ Check \/ RequestApproval \/ \E t \in Thread : Claim(t) \/ SendReply(t)
           \/ /\ UNCHANGED <<thread, granted, replies, decision, claimed>>
              /\ Ready' \subseteq Ready
              /\ pc' \in {"check", "asking"} => pc' = pc /\ next' = next
<1> DEFINE Quiet == /\ UNCHANGED <<thread, granted, replies, decision, claimed>>
                    /\ Ready' \subseteq Ready
                    /\ pc' \in {"check", "asking"} => pc' = pc /\ next' = next
<1>0. TypeOK /\ Messages /\ Phases
  BY DEF ToolInv
<1>1. CASE \/ StartBatch \/ LoopTop \/ Launched \/ ReceiveTimeout \/ UserCancels \/ UNCHANGED vars
  BY <1>1 DEF StartBatch, LoopTop, Launched, ReceiveTimeout, UserCancels, vars, callVars, batchVars,
              askVars, Ready
<1>2. CASE Assemble \/ Commit
  BY <1>2 DEF Assemble, Commit, Ready, batchVars, askVars
<1>3. ASSUME NEW c \in Call, NEW v \in {"running", "sent", "lost", "done"},
             item[c] \in {"ready", "running", "sent"}, item' = [item EXCEPT ![c] = v]
      PROVE  Ready' \subseteq Ready
  <2>1. \A d \in Call : d # c => item'[d] = item[d]
    BY <1>0, <1>3 DEF TypeOK
  <2> QED BY <1>3, <2>1 DEF Ready
<1>4. CASE Launch
  <2>1. next \in Call
    BY <1>0, <1>4, ToolAssumption DEF Launch, TypeOK, Call
  <2>2. CASE item' = item
    BY <1>4, <2>2 DEF Launch, Ready, askVars
  <2>3. CASE item[next] = "ready"
    <3>1. item' = item \/ \E v \in {"running", "sent", "lost", "done"} : item' = [item EXCEPT ![next] = v]
      BY <1>4 DEF Launch, callVars
    <3>2. Ready' \subseteq Ready
      BY <1>3, <2>1, <2>3, <3>1 DEF Ready
    <3> QED BY <1>4, <3>2 DEF Launch, askVars
  <2> QED BY <1>4, <2>2, <2>3 DEF Launch, callVars
<1>5. CASE Receive
  <2>1. /\ Head(inbox).call \in Call /\ item[Head(inbox).call] = "sent"
        /\ item' = [item EXCEPT ![Head(inbox).call] = "done"]
    BY <1>0, <1>5, Received
  <2>2. Ready' \subseteq Ready
    BY <1>3, <2>1
  <2> QED BY <1>5, <2>2 DEF Receive, askVars
<1>6. ASSUME NEW c \in Call, NEW o \in {"ok", "error", "Aborted"}, ToolReturns(c, o) PROVE Quiet
  <2>1. Ready' \subseteq Ready
    BY <1>3, <1>6 DEF ToolReturns
  <2> QED BY <1>6, <2>1 DEF ToolReturns, askVars
<1>7. ASSUME NEW c \in Call, ToolPanics(c) PROVE Quiet
  <2>1. Ready' \subseteq Ready
    BY <1>3, <1>7 DEF ToolPanics
  <2> QED BY <1>7, <2>1 DEF ToolPanics, askVars, batchVars
<1>8. ASSUME NEW c \in Call, DeadlinePasses(c) PROVE Quiet
  BY <1>8 DEF DeadlinePasses, callVars, askVars, Ready
<1> QED BY <1>1, <1>2, <1>4, <1>5, <1>6, <1>7, <1>8 DEF Next, Coordinator, Batch, Ended

\* The steps of the answering threads.
LEMMA Claiming ==
    ASSUME ToolInv, NEW t \in Thread, Claim(t)
    PROVE  /\ UNCHANGED <<pc, next, item, granted, replies, decision>>
           /\ thread[t].at = "idle" /\ \A s \in Thread : s # t => thread'[s] = thread[s]
           /\ \/ /\ pc = "asking" /\ next \in Asked /\ ~claimed /\ claimed'
                 /\ thread'[t].at = "claimed" /\ thread'[t].call = next
              \/ /\ thread'[t].at = "refused" /\ claimed' = claimed
<1>0. TypeOK /\ Phases
  BY DEF ToolInv
<1>1. UNCHANGED <<pc, next, item, granted, replies, decision>> /\ thread[t].at = "idle"
  BY DEF Claim, callVars, batchVars
<1>2. PICK c \in Asked, a \in Answer :
         \/ /\ pending = c /\ ~claimed /\ claimed' = TRUE
            /\ thread' = [thread EXCEPT ![t] = [at |-> "claimed", call |-> c, answer |-> a]]
         \/ thread' = [thread EXCEPT ![t].at = "refused"] /\ claimed' = claimed
  BY DEF Claim
<1>3. \A s \in Thread : s # t => thread'[s] = thread[s]
  BY <1>0, <1>2 DEF TypeOK
<1>4. CASE thread' = [thread EXCEPT ![t].at = "refused"] /\ claimed' = claimed
  <2>1. thread'[t].at = "refused"
    BY <1>0, <1>4 DEF TypeOK
  <2> QED BY <1>1, <1>3, <1>4, <2>1
<1>5. CASE /\ pending = c /\ ~claimed /\ claimed' = TRUE
           /\ thread' = [thread EXCEPT ![t] = [at |-> "claimed", call |-> c, answer |-> a]]
  <2>1. thread'[t] = [at |-> "claimed", call |-> c, answer |-> a]
    BY <1>0, <1>5 DEF TypeOK
  <2>2. c # 0
    BY ToolAssumption DEF Call
  <2>3. pc = "asking" /\ c = next
    BY <1>0, <1>5, <2>2 DEF Phases
  <2>4. thread'[t].at = "claimed" /\ thread'[t].call = next
    BY <2>1, <2>3
  <2>5. next \in Asked /\ ~claimed /\ claimed'
    BY <1>5, <2>3
  <2> QED BY <1>1, <1>3, <2>3, <2>4, <2>5
<1> QED BY <1>2, <1>4, <1>5

LEMMA Sending ==
    ASSUME ToolInv, NEW t \in Thread, SendReply(t)
    PROVE  /\ UNCHANGED <<pc, next, item, granted, decision, claimed>>
           /\ thread[t].at = "claimed" /\ thread'[t].at = "accepted"
           /\ thread'[t].call = thread[t].call /\ thread'[t].answer = thread[t].answer
           /\ \A s \in Thread : s # t => thread'[s] = thread[s]
           /\ replies' = Append(replies, [call |-> thread[t].call, answer |-> thread[t].answer])
<1>0. TypeOK
  BY DEF ToolInv
<1>1. /\ UNCHANGED <<pc, next, item, granted, decision, claimed>>
      /\ thread[t].at = "claimed" /\ thread' = [thread EXCEPT ![t].at = "accepted"]
      /\ replies' = Append(replies, [call |-> thread[t].call, answer |-> thread[t].answer])
  BY DEF SendReply, callVars, batchVars
<1>2. /\ thread'[t].at = "accepted" /\ thread'[t].call = thread[t].call
      /\ thread'[t].answer = thread[t].answer
      /\ \A s \in Thread : s # t => thread'[s] = thread[s]
  BY <1>0, <1>1 DEF TypeOK
<1> QED BY <1>1, <1>2

\* The steps of the checks.
LEMMA ChecksNext ==
    ASSUME ToolInv, Check \/ RequestApproval
    PROVE  /\ Checking /\ next \in Call /\ thread' = thread
           /\ \/ pc' = "check" /\ next' = next + 1
              \/ pc = "check" /\ pc' = "asking" /\ next' = next
              \/ pc = "asking" /\ pc' = "asking" /\ next' = next /\ claimed' = claimed
<1>0. TypeOK /\ Phases
  BY DEF ToolInv
<1>1. Checking /\ next \in Call /\ thread' = thread
  BY <1>0, ToolAssumption DEF Check, RequestApproval, AskCancelled, StaleReply, Reply, Checking,
                              TypeOK, Call, Phases
<1>2. CASE Check
  BY <1>1, <1>2 DEF Check, Refuse, Pass
<1>3. CASE RequestApproval
  BY <1>1, <1>3 DEF RequestApproval, AskCancelled, StaleReply, Reply, TakeReply, Refuse, Pass
<1> QED BY <1>1, <1>2, <1>3

LEMMA ClaimsStep == ToolInv /\ [Next]_vars => Claims' /\ AnsweredOnce'
<1> SUFFICES ASSUME ToolInv, [Next]_vars PROVE Claims' /\ AnsweredOnce'
  OBVIOUS
<1>0. TypeOK /\ Phases /\ Claims /\ AnsweredOnce
  BY DEF ToolInv
<1>a. \A t \in Thread : thread[t].call \in Nat
  BY <1>0 DEF TypeOK
<1>1. CASE Check \/ RequestApproval
  <2>1. /\ Checking /\ next \in Nat /\ thread' = thread
        /\ \/ pc' = "check" /\ next' = next + 1
           \/ pc = "check" /\ pc' = "asking" /\ next' = next
           \/ pc = "asking" /\ pc' = "asking" /\ next' = next /\ claimed' = claimed
    BY <1>1, ChecksNext DEF Call
  <2> QED BY <1>0, <1>a, <2>1 DEF Claims, AnsweredOnce, Checking
<1>2. ASSUME NEW t \in Thread, Claim(t) PROVE Claims' /\ AnsweredOnce'
  <2>1. /\ UNCHANGED <<pc, next>>
        /\ \A s \in Thread : s # t => thread'[s] = thread[s]
        /\ \/ /\ pc = "asking" /\ next \in Asked /\ ~claimed /\ claimed'
              /\ thread'[t].at = "claimed" /\ thread'[t].call = next
           \/ /\ thread'[t].at = "refused" /\ claimed' = claimed
    BY <1>2, Claiming
  <2>2. next \in Nat
    BY <1>0 DEF TypeOK
  <2> QED BY <1>0, <1>a, <2>1, <2>2 DEF Claims, AnsweredOnce, Checking
<1>3. ASSUME NEW t \in Thread, SendReply(t) PROVE Claims' /\ AnsweredOnce'
  <2>1. /\ UNCHANGED <<pc, next, claimed>>
        /\ thread[t].at = "claimed" /\ thread'[t].at = "accepted"
        /\ thread'[t].call = thread[t].call
        /\ \A s \in Thread : s # t => thread'[s] = thread[s]
    BY <1>3, Sending
  <2> QED BY <1>0, <2>1 DEF Claims, AnsweredOnce, Checking
<1>4. CASE /\ UNCHANGED <<thread, claimed>>
           /\ pc' \in {"check", "asking"} => pc' = pc /\ next' = next
  BY <1>0, <1>4 DEF Claims, AnsweredOnce, Checking
<1> QED BY <1>1, <1>2, <1>3, <1>4, NotAsking

\* An accepted answer stays accepted.
LEMMA GivenStays ==
    ASSUME ToolInv, [Next]_vars, NEW c, NEW a, Given(c, a)
    PROVE  \E t \in Thread : thread'[t].at = "accepted" /\ thread'[t].call = c /\ thread'[t].answer = a
<1>1. CASE Check \/ RequestApproval \/ thread' = thread
  BY <1>1, ChecksNext DEF Given
<1>0. PICK s \in Thread : thread[s].at = "accepted" /\ thread[s].call = c /\ thread[s].answer = a
  BY DEF Given
<1>2. ASSUME NEW t \in Thread, Claim(t) PROVE thread'[s] = thread[s]
  BY <1>0, <1>2, Claiming
<1>3. ASSUME NEW t \in Thread, SendReply(t) PROVE thread'[s] = thread[s]
  BY <1>0, <1>3, Sending
<1> QED BY <1>0, <1>1, <1>2, <1>3, NotAsking

LEMMA RepliedStep == ToolInv /\ [Next]_vars => Replied'
<1> SUFFICES ASSUME ToolInv, [Next]_vars PROVE Replied'
  OBVIOUS
<1>0. Replied /\ replies \in Seq(Request)
  BY DEF ToolInv, TypeOK, Request
<1>1. CASE replies' = replies
  <2> SUFFICES ASSUME NEW i \in 1..Len(replies') PROVE Given(replies[i].call, replies[i].answer)'
    BY DEF Replied
  <2>1. Given(replies[i].call, replies[i].answer) /\ replies'[i] = replies[i]
    BY <1>0, <1>1 DEF Replied
  <2> QED BY <2>1, GivenStays DEF Given
<1>2. CASE replies # <<>> /\ replies' = Tail(replies)
  <2>1. \A i \in 1..Len(replies') : replies'[i] = replies[i + 1] /\ i + 1 \in 1..Len(replies)
    BY <1>0, <1>2, HeadTypes
  <2> SUFFICES ASSUME NEW i \in 1..Len(replies') PROVE Given(replies[i].call, replies[i].answer)'
    BY DEF Replied
  <2>2. Given(replies[i + 1].call, replies[i + 1].answer) /\ replies'[i] = replies[i + 1]
    BY <1>0, <2>1 DEF Replied
  <2> QED BY <2>2, GivenStays DEF Given
<1>3. ASSUME NEW t \in Thread, SendReply(t) PROVE Replied'
  <2> DEFINE r == [call |-> thread[t].call, answer |-> thread[t].answer]
  <2>1. /\ thread'[t].at = "accepted" /\ replies' = Append(replies, r)
        /\ thread'[t].call = r.call /\ thread'[t].answer = r.answer
    BY <1>3, Sending
  <2>3. r \in Request
    <3>1. thread[t].call \in Asked /\ thread[t].answer \in Answer
      BY <1>3 DEF ToolInv, Claims, TypeOK, SendReply
    <3> QED BY <3>1, ToolAssumption DEF Request
  <2> HIDE DEF r
  <2>4. /\ Len(replies) \in Nat /\ Len(replies') = Len(replies) + 1
        /\ replies'[Len(replies) + 1] = r
        /\ \A i \in 1..Len(replies) : replies'[i] = replies[i]
    BY <1>0, <2>1, <2>3, AppendProperties, LenProperties
  <2>5. \A i \in 1..Len(replies') : i = Len(replies) + 1 \/ i \in 1..Len(replies)
    BY <2>4
  <2>7. ASSUME NEW i \in 1..Len(replies') PROVE Given(replies[i].call, replies[i].answer)'
    <3>1. CASE i = Len(replies) + 1
      BY <2>1, <2>4, <3>1 DEF Given
    <3>2. CASE i \in 1..Len(replies)
      <4>1. Given(replies[i].call, replies[i].answer) /\ replies'[i] = replies[i]
        BY <1>0, <2>4, <3>2 DEF Replied
      <4> QED BY <4>1, GivenStays DEF Given
    <3> QED BY <2>5, <3>1, <3>2
  <2> QED BY <2>7 DEF Replied
<1>4. CASE Check
  BY <1>1, <1>4 DEF Check
<1>5. CASE RequestApproval
  BY <1>1, <1>2, <1>5 DEF RequestApproval, AskCancelled, StaleReply, Reply, TakeReply
<1>6. ASSUME NEW t \in Thread, Claim(t) PROVE Replied'
  BY <1>1, <1>6, Claiming
<1> QED BY <1>1, <1>3, <1>4, <1>5, <1>6, NotAsking

\* An answer is taken for the call being checked.
LEMMA Deciding ==
    ASSUME ToolInv, Reply
    PROVE  LET a == Head(replies).answer
           IN  /\ a \in Answer /\ Given(next, a) /\ next \in Call /\ next \in Asked
               /\ decision' = [decision EXCEPT ![next] = a]
               /\ next' = next + 1 /\ pc' = "check"
               /\ \/ granted' = granted
                  \/ /\ granted' = granted \cup {Key[next]} /\ a = "session" /\ next \notin OnceOnly
               /\ \/ item' = [item EXCEPT ![next] = "settled"]
                  \/ /\ item' = [item EXCEPT ![next] = "ready"]
                     /\ a = "once" \/ (a = "session" /\ next \notin OnceOnly)
<1> DEFINE r == Head(replies)
<1>0. TypeOK /\ Phases /\ Replied
  BY DEF ToolInv
<1>1. replies \in Seq(Request) /\ replies # <<>> /\ r.call = next /\ TakeReply(r) /\ pc = "asking"
  BY <1>0 DEF Reply, TypeOK, Request
<1>2. r \in Request /\ r = replies[1] /\ 1 \in 1..Len(replies)
  BY <1>1, HeadTypes
<1>3. r.answer \in Answer /\ Given(next, r.answer)
  BY <1>0, <1>1, <1>2 DEF Request, Replied
<1>4. next \in Call /\ next \in Asked
  BY <1>0, <1>1, ToolAssumption DEF Phases
<1> HIDE DEF r
<1>5. /\ decision' = [decision EXCEPT ![next] = r.answer]
      /\ granted' = IF Allows(r) /\ r.answer = "session" THEN granted \cup {Key[next]} ELSE granted
      /\ IF Allows(r) THEN Pass(next) ELSE Refuse(next, "refused")
  BY <1>1 DEF TakeReply
<1>6. \/ granted' = granted
      \/ granted' = granted \cup {Key[next]} /\ r.answer = "session" /\ next \notin OnceOnly
  BY <1>5 DEF Allows
<1>7. /\ next' = next + 1 /\ pc' = "check"
      /\ \/ item' = [item EXCEPT ![next] = "settled"]
         \/ /\ item' = [item EXCEPT ![next] = "ready"]
            /\ r.answer = "once" \/ (r.answer = "session" /\ next \notin OnceOnly)
  BY <1>5 DEF Allows, Pass, Refuse
<1> QED BY <1>3, <1>4, <1>5, <1>6, <1>7 DEF r

LEMMA DecidedStep == ToolInv /\ [Next]_vars => DecidedAsAnswered'
<1> SUFFICES ASSUME ToolInv, [Next]_vars, NEW c \in Call, decision'[c] # "none"
             PROVE  \E t \in Thread : /\ thread'[t].at = "accepted"
                                      /\ thread'[t].call = c /\ thread'[t].answer = decision'[c]
  BY DEF DecidedAsAnswered
<1>0. TypeOK /\ DecidedAsAnswered
  BY DEF ToolInv
<1>1. CASE decision'[c] = decision[c]
  <2>1. Given(c, decision[c])
    BY <1>0, <1>1 DEF DecidedAsAnswered, Given
  <2> QED BY <1>1, <2>1, GivenStays
<1>2. CASE Reply
  <2> DEFINE a == Head(replies).answer
  <2>1. Given(next, a) /\ decision' = [decision EXCEPT ![next] = a]
    BY <1>2, Deciding
  <2> HIDE DEF a
  <2>2. c # next => decision'[c] = decision[c]
    BY <1>0, <2>1 DEF TypeOK
  <2>3. c = next => Given(c, decision'[c])
    BY <1>0, <2>1 DEF TypeOK
  <2> QED BY <1>1, <2>2, <2>3, GivenStays
<1>3. CASE Check \/ (RequestApproval /\ ~Reply)
  BY <1>1, <1>3 DEF Check, RequestApproval, AskCancelled, StaleReply
<1>4. ASSUME NEW t \in Thread, Claim(t) \/ SendReply(t) PROVE decision' = decision
  BY <1>4, Claiming, Sending
<1> QED BY <1>1, <1>2, <1>3, <1>4, NotAsking

\* A grant given to an earlier call, while the decisions about those stay.
LEMMA GrantStays ==
    ASSUME ToolInv, NEW k, NEW c \in Call, GrantedBy(k, c),
           \A d \in Call : d <= c => decision'[d] = decision[d]
    PROVE  \E d \in Asked \ OnceOnly : d <= c /\ Key[d] = k /\ decision'[d] = "session"
  BY ToolAssumption DEF GrantedBy

LEMMA AllowedStep == ToolInv /\ [Next]_vars => Grants' /\ Allowed'
<1> SUFFICES ASSUME ToolInv, [Next]_vars PROVE Grants' /\ Allowed'
  OBVIOUS
<1>0. TypeOK /\ Phases /\ Grants /\ Allowed
  BY DEF ToolInv
<1>1. CASE Check
  <2>1. /\ next \in Call /\ next \in Nat /\ UNCHANGED <<granted, decision>> /\ Checking
        /\ next' = next \/ next' = next + 1
    <3>1. Checking /\ next \in Call /\ (next' = next \/ next' = next + 1)
      BY <1>1, ChecksNext
    <3>2. UNCHANGED <<granted, decision>>
      BY <1>1 DEF Check
    <3> QED BY <3>1, <3>2 DEF Call
  <2>2. Grants'
    <3> SUFFICES ASSUME NEW k \in granted PROVE \E c \in Call : c < next' /\ GrantedBy(k, c)'
      BY <2>1 DEF Grants
    <3>1. PICK c \in Call : c < next /\ GrantedBy(k, c)
      BY <1>0, <2>1 DEF Grants
    <3>2. c < next'
      BY <2>1, <3>1 DEF Call
    <3>3. GrantedBy(k, c)'
      BY <2>1, <3>1 DEF GrantedBy
    <3> QED BY <3>2, <3>3
  <2>3. Ready' \subseteq Ready \cup (IF Pass(next) THEN {next} ELSE {})
    <3>1. CASE Pass(next)
      BY <1>0, <3>1 DEF Pass, Ready, TypeOK
    <3>2. CASE Refuse(next, "refused")
      BY <1>0, <3>2 DEF Refuse, Ready, TypeOK
    <3>3. CASE item' = item
      BY <3>3 DEF Ready
    <3> QED BY <1>1, <3>1, <3>2, <3>3 DEF Check, callVars
  <2>4. Pass(next) /\ next \in Asked => next \notin OnceOnly /\ GrantedBy(Key[next], next)
    <3> SUFFICES ASSUME Pass(next), next \in Asked
                 PROVE  next \notin OnceOnly /\ GrantedBy(Key[next], next)
      OBVIOUS
    <3>1. Covered(next)
      <4>1. item[next] = "new" /\ item'[next] = "ready"
        BY <1>0, <2>1 DEF Phases, Pass, TypeOK
      <4>2. ~Refuse(next, "refused") /\ item' # item
        BY <1>0, <2>1, <4>1 DEF Refuse, TypeOK
      <4> QED BY <1>1, <4>2 DEF Check, callVars
    <3>2. PICK c \in Call : c < next /\ GrantedBy(Key[next], c)
      BY <1>0, <2>1, <3>1 DEF Grants, Covered
    <3>3. PICK d \in Asked \ OnceOnly : d <= c /\ Key[d] = Key[next] /\ decision[d] = "session"
      BY <3>2 DEF GrantedBy
    <3>4. d <= next
      BY <2>1, <3>2, <3>3, ToolAssumption DEF Call
    <3> QED BY <3>1, <3>3, <3>4 DEF Covered, GrantedBy
  <2>5. Allowed'
    <3> SUFFICES ASSUME NEW c \in Ready' \cap Asked
                 PROVE  decision[c] = "once" \/ (c \notin OnceOnly /\ GrantedBy(Key[c], c))
      BY <2>1 DEF Allowed, GrantedBy
    <3> QED BY <1>0, <2>3, <2>4 DEF Allowed
  <2> QED BY <2>2, <2>5
<1>2. CASE Reply
  <2> DEFINE a == Head(replies).answer
  <2>1. /\ next \in Call /\ next \in Asked
        /\ decision' = [decision EXCEPT ![next] = a]
        /\ next' = next + 1
        /\ \/ granted' = granted
           \/ /\ granted' = granted \cup {Key[next]} /\ a = "session" /\ next \notin OnceOnly
        /\ \/ item' = [item EXCEPT ![next] = "settled"]
           \/ /\ item' = [item EXCEPT ![next] = "ready"]
              /\ a = "once" \/ (a = "session" /\ next \notin OnceOnly)
    BY <1>2, Deciding
  <2> HIDE DEF a
  <2>2. Checking /\ next \in Nat
    BY <1>2, <2>1 DEF Reply, Checking, Call
  <2>3. /\ decision'[next] = a
        /\ \A d \in Call : d # next => decision'[d] = decision[d]
    BY <1>0, <2>1 DEF TypeOK
  <2>4. a = "session" /\ next \notin OnceOnly =>
           \E d \in Asked \ OnceOnly : d <= next /\ Key[d] = Key[next] /\ decision'[d] = "session"
    BY <2>1, <2>2, <2>3
  <2>5. ASSUME NEW k, NEW c \in Call, c < next, GrantedBy(k, c)
        PROVE  \E d \in Asked \ OnceOnly : d <= c /\ Key[d] = k /\ decision'[d] = "session"
    <3>1. \A d \in Call : d <= c => decision'[d] = decision[d]
      BY <2>2, <2>3, <2>5 DEF Call
    <3> QED BY <2>5, <3>1, GrantStays
  <2>6. Grants'
    <3> SUFFICES ASSUME NEW k \in granted'
                 PROVE  \E c \in Call : /\ c < next'
                                        /\ \E d \in Asked \ OnceOnly : d <= c /\ Key[d] = k /\ decision'[d] = "session"
      BY DEF Grants, GrantedBy
    <3>1. CASE k \in granted
      <4>1. PICK c \in Call : c < next /\ GrantedBy(k, c)
        BY <1>0, <2>2, <3>1 DEF Grants
      <4>2. c < next'
        BY <2>1, <2>2, <4>1 DEF Call
      <4> QED BY <2>5, <4>1, <4>2
    <3>2. CASE k = Key[next] /\ a = "session" /\ next \notin OnceOnly
      <4>1. next < next'
        BY <2>1, <2>2
      <4> QED BY <2>1, <2>4, <3>2, <4>1
    <3> QED BY <2>1, <3>1, <3>2
  <2>7. Allowed'
    <3> SUFFICES ASSUME NEW c \in Ready' \cap Asked
                 PROVE  \/ decision'[c] = "once"
                        \/ /\ c \notin OnceOnly
                           /\ \E d \in Asked \ OnceOnly : d <= c /\ Key[d] = Key[c] /\ decision'[d] = "session"
      BY DEF Allowed, GrantedBy
    <3>1. CASE c = next
      <4>1. item'[c] # "settled"
        BY <3>1 DEF Ready
      <4>2. a = "once" \/ (a = "session" /\ next \notin OnceOnly)
        BY <1>0, <2>1, <3>1, <4>1 DEF TypeOK
      <4> QED BY <2>3, <2>4, <3>1, <4>2
    <3>2. CASE c # next
      <4>1. item'[c] = item[c] /\ c \in Call
        BY <1>0, <2>1, <3>2, ToolAssumption DEF TypeOK
      <4>2. c \in Ready
        BY <4>1 DEF Ready
      <4>3. c < next
        BY <1>0, <2>2, <4>1, <4>2 DEF Phases, Ready, Call
      <4>4. decision[c] = "once" \/ (c \notin OnceOnly /\ GrantedBy(Key[c], c))
        BY <1>0, <4>2 DEF Allowed
      <4> QED BY <2>3, <2>5, <3>2, <4>1, <4>3, <4>4
    <3> QED BY <3>1, <3>2
  <2> QED BY <2>6, <2>7
<1>3. CASE AskCancelled \/ StaleReply
  <2>1. /\ UNCHANGED <<granted, decision>> /\ Checking /\ next \in Call
        /\ next' = next \/ next' = next + 1
        /\ item' = item \/ item' = [item EXCEPT ![next] = "settled"]
    BY <1>0, <1>3, ToolAssumption DEF AskCancelled, StaleReply, Refuse, Checking, callVars, Phases
  <2>2. Ready' \subseteq Ready
    BY <1>0, <2>1 DEF Ready, TypeOK
  <2>3. next \in Nat /\ next < next' + 1
    BY <2>1 DEF Call
  <2>4. Grants'
    <3> SUFFICES ASSUME NEW k \in granted PROVE \E c \in Call : c < next' /\ GrantedBy(k, c)'
      BY <2>1 DEF Grants
    <3>1. PICK c \in Call : c < next /\ GrantedBy(k, c)
      BY <1>0, <2>1 DEF Grants
    <3>2. c < next' /\ GrantedBy(k, c)'
      BY <2>1, <2>3, <3>1 DEF Call, GrantedBy
    <3> QED BY <3>2
  <2> QED BY <1>0, <2>1, <2>2, <2>4 DEF Allowed, GrantedBy
<1>4. CASE /\ UNCHANGED <<granted, decision>> /\ Ready' \subseteq Ready
           /\ pc' \in {"check", "asking"} => pc' = pc /\ next' = next
  BY <1>0, <1>4 DEF Grants, Allowed, GrantedBy, Checking
<1>5. ASSUME NEW t \in Thread, Claim(t) \/ SendReply(t) PROVE Grants' /\ Allowed'
  <2>1. UNCHANGED <<granted, decision, item, pc, next>>
    BY <1>5, Claiming, Sending
  <2> QED BY <1>4, <2>1 DEF Ready
<1> QED BY <1>1, <1>2, <1>3, <1>4, <1>5, NotAsking DEF RequestApproval

-----------------------------------------------------------------------------
(* The theorems.                                                           *)

\* The inductive invariant holds of every turn: the checks, the approvals, the
\* batch and the commit of runtime/tool_execution.rs keep all its parts.
THEOREM ToolInvariant == Spec => []ToolInv
<1>1. Init => ToolInv
  BY ToolStart
<1>2. ToolInv /\ [Next]_vars => ToolInv'
  <2> SUFFICES ASSUME ToolInv, [Next]_vars PROVE ToolInv'
    OBVIOUS
  <2>1. TypeOK' /\ Phases' /\ Outcomes' /\ Messages'
    BY TypesStep, ShapeStep, MessagesStep
  <2>2. Counted' /\ PlanAtWork' /\ Flagged' /\ PlanInOrder' /\ AbortMeansCancel'
    BY CountedStep, PlanStep, ResultsStep
  <2>3. Claims' /\ Replied' /\ Grants' /\ Allowed' /\ AnsweredOnce' /\ DecidedAsAnswered'
    BY ClaimsStep, RepliedStep, AllowedStep, DecidedStep
  <2>4. (log # <<>> => \A c \in Call : finish[c] = 1)'
    BY LogStep
  <2> QED BY <2>1, <2>2, <2>3, <2>4 DEF ToolInv
<1> QED BY <1>1, <1>2, PTL DEF Spec

\* Whatever the number of calls, of threads and of answers: one answer to each
\* request is accepted, the run does what it said, and no call the policy asks
\* about runs without it (request_approval, claim_approval).
THEOREM ApprovalAlways == Spec => []ApprovalSound
<1>1. ToolInv => ApprovalSound
  <2> SUFFICES ASSUME ToolInv PROVE ApprovalSound
    OBVIOUS
  <2>1. Executed \subseteq Ready
    BY DEF Executed, Ready
  <2>2. RunsAsAllowed
    BY <2>1 DEF ToolInv, Allowed, GrantedBy, RunsAsAllowed
  <2> QED BY <2>2 DEF ToolInv, ApprovalSound
<1> QED BY <1>1, ToolInvariant, PTL

\* Whatever the limit and the division of the calls: the batch never runs more
\* tools than it may, each plan update is the next revision, a result says
\* aborted only for a cancelled run, and each call is announced as finished once
\* (execute_tool_batch, execute_tool_turn).
THEOREM ResultsAlways == Spec => []ResultsSound
<1>1. ToolInv => ResultsSound
  <2> SUFFICES ASSUME ToolInv PROVE ResultsSound
    OBVIOUS
  <2>1. running = Cardinality(Working) /\ running <= Cap /\ running \in Nat
    BY DEF ToolInv, Counted, TypeOK
  <2>2. running <= Limit
    BY <2>1, CapFacts, ToolAssumption
  <2>3. Working \subseteq ParallelSafe \/ Cap = 1
    BY DEF Working, Ready, Cap
  <2>4. FinishedOnce
    BY DEF ToolInv, Outcomes, FinishedOnce
  <2> QED BY <2>1, <2>2, <2>3, <2>4 DEF ToolInv, ResultsSound, Scheduled
<1> QED BY <1>1, ToolInvariant, PTL

\* A call that has no outcome gets one, and nothing else changes what the
\* contract speaks of.
LEMMA Settles ==
    ASSUME ToolInv, log = <<>>, log' = log, NEW c \in Call, NEW o \in Outcome, outcome[c] = "none",
           outcome' = [outcome EXCEPT ![c] = o]
    PROVE  [Contract!Next]_(Contract!vars)
<1>1. Contract!Settle(c)
  BY DEF Contract!Settle
<1> QED BY <1>1 DEF Contract!Next, Call

LEMMA ContractStep == ToolInv /\ [Next]_vars => [Contract!Next]_(Contract!vars)
<1> SUFFICES ASSUME ToolInv, [Next]_vars PROVE [Contract!Next]_(Contract!vars)
  OBVIOUS
<1>0. TypeOK /\ Phases /\ Outcomes /\ Messages /\ Counted /\ PlanAtWork
  BY DEF ToolInv
<1>1. CASE UNCHANGED <<outcome, log>>
  BY <1>1 DEF Contract!vars
<1>2. ASSUME NEW o \in Outcome, next \in Call, Refuse(next, o), Checking, log' = log
      PROVE  [Contract!Next]_(Contract!vars)
  <2>1. outcome[next] = "none" /\ log = <<>>
    BY <1>0, <1>2, ToolAssumption DEF Phases, Outcomes, Checking, Call
  <2> QED BY <1>2, <2>1, Settles DEF Refuse
<1>3. CASE Check
  <2>1. Checking /\ next \in Call /\ log' = log /\ "refused" \in Outcome
    BY <1>3, ChecksNext DEF Check, Outcome
  <2>2. Refuse(next, "refused") \/ outcome' = outcome
    BY <1>3 DEF Check, Pass, callVars
  <2> QED BY <1>1, <1>2, <2>1, <2>2
<1>4. CASE RequestApproval
  <2>1. Checking /\ next \in Call /\ log' = log /\ "refused" \in Outcome /\ "Aborted" \in Outcome
    BY <1>4, ChecksNext DEF RequestApproval, Outcome
  <2>2. Refuse(next, "refused") \/ Refuse(next, "Aborted") \/ outcome' = outcome
    BY <1>4 DEF RequestApproval, AskCancelled, StaleReply, Reply, TakeReply, Pass, callVars
  <2> QED BY <1>1, <1>2, <2>1, <2>2
<1>5. CASE Launch
  <2>1. next \in Call /\ log = <<>> /\ log' = log /\ "Aborted" \in Outcome
    BY <1>0, <1>5, ToolAssumption DEF Launch, TypeOK, Call, Phases, Outcome
  <2>2. \/ outcome' = outcome
        \/ outcome[next] = "none" /\ outcome' = [outcome EXCEPT ![next] = "Aborted"]
    BY <1>0, <1>5, <2>1 DEF Launch, callVars, Outcomes
  <2> QED BY <1>1, <2>1, <2>2, Settles
<1>6. CASE Receive
  <2> DEFINE m == Head(inbox)
             bad == m.effect # 0 /\ m.effect # planRev + 1
  <2>1. m.call \in Call /\ item[m.call] = "sent" /\ m.outcome \in {"ok", "error", "Aborted"}
    BY <1>0, <1>6, Received
  <2>2. PICK seen \in {Mended(m.call, m.outcome), "error"} :
           outcome' = [outcome EXCEPT ![m.call] = IF bad THEN "Internal" ELSE seen]
    BY <1>6 DEF Receive
  <2>3. seen \in Outcome /\ "Internal" \in Outcome
    BY <2>1 DEF Mended, Outcome
  <2>4. log = <<>> /\ log' = log /\ outcome[m.call] = "none"
    BY <1>0, <1>6, <2>1 DEF Receive, Phases, Outcomes
  <2> HIDE DEF m, bad
  <2>5. (IF bad THEN "Internal" ELSE seen) \in Outcome
    BY <2>3
  <2> QED BY <2>1, <2>2, <2>4, <2>5, Settles
<1>7. CASE Assemble
  <2>1. \A c \in Call : outcome[c] # "none"
    BY <1>0, <1>7, AllHaveOutcomes DEF Assemble, Checking
  <2>2. outcome' = outcome /\ log' = log
    BY <1>0, <1>7, <2>1 DEF Assemble, TypeOK
  <2> QED BY <1>1, <2>2
<1>8. CASE Commit
  <2>1. log = <<>> /\ (\A c \in Call : outcome[c] # "none") /\ outcome' = outcome
    BY <1>0, <1>8 DEF Commit, Phases
  <2>2. CASE log' = outcome
    BY <2>1, <2>2 DEF Contract!Next, Contract!Write, Call
  <2> QED BY <1>1, <1>8, <2>1, <2>2 DEF Commit
<1>9. CASE StartBatch \/ LoopTop \/ Launched \/ ReceiveTimeout \/ UserCancels \/ UNCHANGED vars
  BY <1>1, <1>9 DEF StartBatch, LoopTop, Launched, ReceiveTimeout, UserCancels, vars, callVars
<1>10. ASSUME NEW c \in Call,
              ToolPanics(c) \/ DeadlinePasses(c) \/ \E o \in {"ok", "error", "Aborted"} : ToolReturns(c, o)
       PROVE  UNCHANGED <<outcome, log>>
  BY <1>10 DEF DeadlinePasses, ToolPanics, ToolReturns, callVars
<1>11. ASSUME NEW t \in Thread, Claim(t) \/ SendReply(t) PROVE UNCHANGED <<outcome, log>>
  BY <1>11 DEF Claim, SendReply, callVars
<1> QED BY <1>1, <1>3, <1>4, <1>5, <1>6, <1>7, <1>8, <1>9, <1>10, <1>11
        DEF Next, Coordinator, Batch, Ended

\* A turn of any number of calls implements ToolContract: each call gets one
\* result, never replaced, and they are written together or not at all
\* (execute_tool_turn, runtime/agent_loop.rs).
THEOREM TurnKeepsContract == Spec => KeepsToolContract
<1>1. Init => Contract!Init
  BY DEF Init, Contract!Init, Call
<1>2. ToolInv /\ [Next]_vars => [Contract!Next]_(Contract!vars)
  BY ContractStep
<1> QED BY <1>1, <1>2, ToolInvariant, PTL DEF Spec, KeepsToolContract, Contract!Spec
-----------------------------------------------------------------------------
(* The policy: what the rules say of a call.                               *)

\* Of some rules the strictest is one of them, and no other is stricter.
LEMMA StrictestIs ==
    ASSUME NEW found, found \subseteq Rule, found # {}
    PROVE  /\ Policy!Strictest(found) \in found
           /\ "deny" \in found => Policy!Strictest(found) = "deny"
           /\ "ask" \in found => Policy!Strictest(found) # "allow"
<1>1. \A s \in Rule : /\ Policy!Rank[s] \in 0..2
                      /\ Policy!Rank[s] = 0 <=> s = "allow"
                      /\ Policy!Rank[s] = 2 <=> s = "deny"
  BY DEF Rule, Policy!Rank
<1>2. \E r \in found : \A s \in found : Policy!Rank[s] <= Policy!Rank[r]
  <2>1. CASE "deny" \in found
    BY <1>1, <2>1
  <2>2. CASE "deny" \notin found /\ "ask" \in found
    <3>1. \A s \in found : s \in {"allow", "ask"}
      BY <2>2 DEF Rule
    <3> QED BY <1>1, <2>2, <3>1 DEF Policy!Rank
  <2>3. CASE "deny" \notin found /\ "ask" \notin found
    <3>1. \A s \in found : s = "allow"
      BY <2>3 DEF Rule
    <3> QED BY <1>1, <3>1
  <2> QED BY <2>1, <2>2, <2>3
<1>3. /\ Policy!Strictest(found) \in found
      /\ \A s \in found : Policy!Rank[s] <= Policy!Rank[Policy!Strictest(found)]
  BY <1>2 DEF Policy!Strictest
<1>4. "ask" \in found => Policy!Strictest(found) # "allow"
  BY <1>1, <1>3 DEF Policy!Rank
<1> QED BY <1>1, <1>3, <1>4

\* A table has a rule for everything.
Tabled == rules \in [read : Rule, write : Rule, outside : Rule, opaque : Rule]

\* The rules a call is judged by.
Found(tool, args) ==
    {IF Policy!ToolSpec[tool].command THEN rules.opaque ELSE Policy!OwnRule(tool)}
    \cup {Policy!PathRule(args[k]) : k \in Policy!ToolSpec[tool].paths \cap DOMAIN args}

\* They are all the rules that speak of it.
LEMMA FoundAll ==
    ASSUME NEW tool, NEW args, Tabled
    PROVE  /\ Found(tool, args) \subseteq Rule /\ Found(tool, args) # {}
           /\ Policy!Governing(tool, args) \subseteq Found(tool, args)
<1>1. Policy!OwnRule(tool) \in Rule /\ rules.opaque \in Rule
  BY DEF Tabled, Rule, Policy!OwnRule
<1>2. \A path : Policy!PathRule(path) \in Rule
  BY DEF Tabled, Rule, Policy!PathRule
<1>3. Found(tool, args) \subseteq Rule /\ Found(tool, args) # {}
  BY <1>1, <1>2 DEF Found
<1>4. ASSUME NEW r \in Policy!Governing(tool, args)
      PROVE  r \in Found(tool, args)
  <2> DEFINE s == Policy!ToolSpec[tool]
  <2>1. CASE \E k \in s.paths \cap DOMAIN args : args[k] = "outside" /\ r = rules.outside
    BY <2>1 DEF Found, Policy!PathRule
  <2>2. CASE s.command /\ r = rules.opaque
    BY <2>2 DEF Found
  <2>3. CASE ~s.command /\ r = Policy!OwnRule(tool)
    BY <2>3 DEF Found
  <2>4. ~s.command /\ ~s.always /\ s.reads => Policy!OwnRule(tool) = rules.read
    BY DEF Policy!OwnRule
  <2>5. ~s.command /\ ~s.always /\ ~s.reads /\ s.paths # {} => Policy!OwnRule(tool) = rules.write
    BY DEF Policy!OwnRule
  <2>6. ~s.command /\ ~s.always /\ ~s.reads /\ s.paths = {} => Policy!OwnRule(tool) = "ask"
    BY DEF Policy!OwnRule
  <2> QED BY <1>4, <2>1, <2>2, <2>3, <2>4, <2>5, <2>6 DEF Policy!Governing
<1> QED BY <1>3, <1>4

\* A call that is not refused is denied by no rule; one that has to be asked
\* about is never simply allowed, nor is one a rule says to ask about that no
\* grant covers.
LEMMA Judged ==
    ASSUME NEW tool, NEW args, Tabled
    PROVE  /\ Policy!Evaluate(tool, args) # "deny" => ~Policy!Denied(tool, args)
           /\ Policy!Forced(tool, args) => Policy!Evaluate(tool, args) \in {"deny", "ask once"}
           /\ "ask" \in Policy!Governing(tool, args) /\ Policy!Evaluate(tool, args) = "allow"
                => Policy!GrantKey(tool, args) \in grants
<1> DEFINE given == Policy!ToolSpec[tool].paths \cap DOMAIN args
           effective == Policy!Strictest(Found(tool, args))
           wrong == \E k \in given : args[k] \in {"number", "device"}
<1>1. Policy!Evaluate(tool, args) =
        IF effective = "deny" \/ wrong THEN "deny"
        ELSE IF Policy!Forced(tool, args) THEN "ask once"
        ELSE IF effective = "ask" /\ Policy!GrantKey(tool, args) \in grants THEN "allow"
        ELSE effective
  BY DEF Policy!Evaluate, Found
<1>2. /\ effective \in Rule
      /\ "deny" \in Policy!Governing(tool, args) => effective = "deny"
      /\ "ask" \in Policy!Governing(tool, args) => effective # "allow"
  BY FoundAll, StrictestIs
<1>3. Policy!Denied(tool, args) => wrong \/ effective = "deny"
  BY <1>2 DEF Policy!Denied
<1> HIDE DEF effective, wrong
<1>4. Policy!Evaluate(tool, args) # "deny" => ~wrong /\ effective # "deny"
  BY <1>1
<1> QED BY <1>1, <1>2, <1>3, <1>4 DEF Rule
-----------------------------------------------------------------------------
(* The policy: what a sequence of answers comes to.                        *)

\* Every set of numbers that is not empty has a least one: what an induction over
\* positions rests on here.
LEMMA LeastNatural ==
    ASSUME NEW T, T \subseteq Nat, T # {}
    PROVE  \E x \in T : \A y \in T : x <= y
<1> DEFINE R == {ss \in Nat \X Nat : ss[1] < ss[2]}
<1>1. IsWellFoundedOn(R, Nat)
  BY NatLessThanWellFounded DEF OpToRel
<1>0. \A y, z \in Nat : y < z => <<y, z>> \in R
  <2> SUFFICES ASSUME NEW y \in Nat, NEW z \in Nat, y < z PROVE <<y, z>> \in R
    OBVIOUS
  <2>1. <<y, z>> \in Nat \X Nat /\ <<y, z>>[1] < <<y, z>>[2]
    OBVIOUS
  <2> QED BY <2>1
<1> HIDE DEF R
<1>2. PICK x \in T : \A y \in T : ~ (<<y, x>> \in R)
  BY <1>1, WFMin
<1>3. \A y \in T : x <= y
  <2> SUFFICES ASSUME NEW y \in T PROVE x <= y
    OBVIOUS
  <2>1. ~(<<y, x>> \in R)
    BY <1>2
  <2>2. ~(y < x)
    BY <1>0, <2>1
  <2> QED BY <2>2
<1> QED BY <1>3

\* What holds of 0, and of a position if it holds of the one before, holds of all.
LEMMA UpTo ==
    ASSUME NEW n \in Nat, NEW T, 0 \in T, \A i \in 1..n : i - 1 \in T => i \in T
    PROVE  \A i \in 0..n : i \in T
<1> DEFINE Bad == {i \in 0..n : i \notin T}
<1> SUFFICES ASSUME Bad # {} PROVE FALSE
  OBVIOUS
<1>1. PICK x \in Bad : \A y \in Bad : x <= y
  <2>1. Bad \subseteq Nat /\ Bad # {}
    OBVIOUS
  <2> HIDE DEF Bad
  <2> QED BY <2>1, LeastNatural
<1>2. x \in 1..n /\ x - 1 \in 0..n /\ x - 1 \notin Bad
  BY <1>1
<1> QED BY <1>1, <1>2

\* f is where the first k steps lead from b, one after the other.
Steps(b, leap, f, k) == f[0] = b /\ \A i \in 1..k : f[i] = leap[i][f[i - 1]]

\* Steps taken one after the other from a beginning end somewhere.
LEMMA StepsExist ==
    ASSUME NEW n \in Nat, NEW V, NEW b \in V, NEW leap \in [1..n -> [V -> V]]
    PROVE  \E f \in [0..n -> V] : Steps(b, leap, f, n)
<1> DEFINE T == {k \in 0..n : \E f \in [0..k -> V] : Steps(b, leap, f, k)}
<1>1. 0 \in T
  <2> DEFINE z == [i \in 0..0 |-> b]
  <2>1. z \in [0..0 -> V] /\ Steps(b, leap, z, 0)
    BY DEF Steps
  <2> HIDE DEF z
  <2> QED BY <2>1
<1>2. ASSUME NEW x \in 1..n, x - 1 \in T PROVE x \in T
  <2>1. PICK f \in [0..x - 1 -> V] : Steps(b, leap, f, x - 1)
    BY <1>2
  <2>2. x - 1 \in 0..x - 1 /\ f[x - 1] \in V /\ leap[x] \in [V -> V]
    BY <2>1
  <2>3. leap[x][f[x - 1]] \in V
    BY <2>2
  <2> DEFINE g == [i \in 0..x |-> IF i = x THEN leap[x][f[x - 1]] ELSE f[i]]
  <2>4. g \in [0..x -> V] /\ g[0] = b
    BY <2>1, <2>3 DEF Steps
  <2>5. ASSUME NEW i \in 1..x PROVE g[i] = leap[i][g[i - 1]]
    <3>1. g[i - 1] = f[i - 1]
      OBVIOUS
    <3>2. g[i] = IF i = x THEN leap[x][f[x - 1]] ELSE f[i]
      OBVIOUS
    <3>3. CASE i = x
      BY <3>1, <3>2, <3>3
    <3>4. CASE i # x
      <4>1. i \in 1..(x - 1)
        BY <3>4
      <4> QED BY <2>1, <3>1, <3>2, <3>4, <4>1 DEF Steps
    <3> QED BY <3>3, <3>4
  <2>6. Steps(b, leap, g, x)
    BY <2>4, <2>5 DEF Steps
  <2> HIDE DEF g
  <2> QED BY <2>4, <2>6
<1>3. n \in T
  <2>1. \A i \in 1..n : i - 1 \in T => i \in T
    BY <1>2
  <2> HIDE DEF T
  <2>2. \A i \in 0..n : i \in T
    BY <1>1, <2>1, UpTo
  <2> QED BY <2>2
<1> QED BY <1>3

\* A valid image put after valid ones.
LEMMA OneMoreValid ==
    ASSUME NEW v \in Seq(BOOLEAN), NEW e \in BOOLEAN, e, \A j \in 1..Len(v) : v[j]
    PROVE  /\ Append(v, e) \in Seq(BOOLEAN) /\ Len(Append(v, e)) = Len(v) + 1
           /\ \A j \in 1..Len(v) + 1 : Append(v, e)[j]
<1>1. Append(v, e) \in Seq(BOOLEAN) /\ Len(Append(v, e)) = Len(v) + 1
  BY AppendProperties
<1>2. ASSUME NEW j \in 1..Len(v) PROVE Append(v, e)[j]
  <2>1. Append(v, e)[j] = v[j]
    BY AppendProperties
  <2> QED BY <2>1
<1>3. Append(v, e)[Len(v) + 1]
  <2>1. Append(v, e)[Len(v) + 1] = e
    BY AppendProperties
  <2> QED BY <2>1
<1>4. \A j \in 1..Len(v) + 1 : j = Len(v) + 1 \/ j \in 1..Len(v)
  BY LenProperties
<1> QED BY <1>1, <1>2, <1>3, <1>4

\* The images that are kept are valid, and no more than there were.
LEMMA UsableIs ==
    ASSUME NEW s \in Seq(BOOLEAN)
    PROVE  /\ Policy!Usable(s) \in Seq(BOOLEAN) /\ Len(Policy!Usable(s)) <= Len(s)
           /\ \A i \in DOMAIN Policy!Usable(s) : Policy!Usable(s)[i]
<1> DEFINE n == Len(s)
           c == CHOOSE g : g = [i \in 0..n |-> IF i = 0 THEN <<>>
                                               ELSE IF s[i] THEN Append(g[i - 1], s[i]) ELSE g[i - 1]]
           V == Seq(BOOLEAN)
           leap == [i \in 1..n |-> [v \in V |-> IF s[i] THEN Append(v, s[i]) ELSE v]]
<1>1. n \in Nat /\ \A i \in 1..n : s[i] \in BOOLEAN
  BY LenProperties
<1>2. leap \in [1..n -> [V -> V]] /\ <<>> \in V
  <2>1. ASSUME NEW i \in 1..n, NEW v \in V
        PROVE  (IF s[i] THEN Append(v, s[i]) ELSE v) \in V
    <3>1. s[i] \in BOOLEAN
      BY <1>1
    <3>2. Append(v, s[i]) \in V
      BY <3>1, AppendProperties
    <3> QED BY <3>2
  <2> HIDE DEF n, V
  <2>2. leap \in [1..n -> [V -> V]]
    BY <2>1
  <2>3. <<>> \in V
    BY DEF V
  <2> QED BY <2>2, <2>3
<1>3. PICK f \in [0..n -> V] : Steps(<<>>, leap, f, n)
  <2>1. n \in Nat /\ leap \in [1..n -> [V -> V]] /\ <<>> \in V
    BY <1>1, <1>2
  <2> HIDE DEF leap, V, n
  <2> QED BY <2>1, StepsExist
<1>4. f = [i \in 0..n |-> IF i = 0 THEN <<>>
                          ELSE IF s[i] THEN Append(f[i - 1], s[i]) ELSE f[i - 1]]
  <2>1. ASSUME NEW i \in 1..n
        PROVE  f[i] = IF s[i] THEN Append(f[i - 1], s[i]) ELSE f[i - 1]
    <3>1. i - 1 \in 0..n
      BY <1>1
    <3>2. f[i - 1] \in V
      BY <1>3, <3>1
    <3> QED BY <1>3, <3>2 DEF Steps
  <2>2. \A i \in 0..n : i = 0 \/ i \in 1..n
    BY <1>1
  <2> QED BY <1>1, <1>3, <2>1, <2>2 DEF Steps
<1>5. c = [i \in 0..n |-> IF i = 0 THEN <<>>
                          ELSE IF s[i] THEN Append(c[i - 1], s[i]) ELSE c[i - 1]]
  BY <1>4
<1> HIDE DEF c
<1> DEFINE T == {i \in 0..n : /\ c[i] \in V /\ Len(c[i]) <= i
                              /\ \A j \in 1..Len(c[i]) : c[i][j]}
<1>6. 0 \in T
  BY <1>1, <1>2, <1>5
<1>7. ASSUME NEW i \in 1..n, i - 1 \in T PROVE i \in T
  <2>0. i \in 0..n /\ i # 0 /\ s[i] \in BOOLEAN
    BY <1>1
  <2>1. c[i] = IF s[i] THEN Append(c[i - 1], s[i]) ELSE c[i - 1]
    <3> HIDE DEF n
    <3> QED BY <1>5, <2>0
  <2>2. /\ c[i - 1] \in V /\ Len(c[i - 1]) <= i - 1 /\ Len(c[i - 1]) \in Nat
        /\ \A j \in 1..Len(c[i - 1]) : c[i - 1][j]
    BY <1>7, LenProperties
  <2>3. CASE s[i]
    <3>1. c[i] = Append(c[i - 1], s[i])
      BY <2>1, <2>3
    <3>2. /\ Append(c[i - 1], s[i]) \in V
          /\ Len(Append(c[i - 1], s[i])) = Len(c[i - 1]) + 1
          /\ \A j \in 1..Len(c[i - 1]) + 1 : Append(c[i - 1], s[i])[j]
      BY <2>0, <2>2, <2>3, OneMoreValid
    <3>5. Len(c[i]) = Len(c[i - 1]) + 1 /\ Len(c[i]) <= i
      BY <2>0, <2>2, <3>1, <3>2
    <3>6. c[i] \in V /\ \A j \in 1..Len(c[i]) : c[i][j]
      BY <3>1, <3>2, <3>5
    <3> QED BY <2>0, <3>5, <3>6
  <2>4. CASE ~s[i]
    <3>1. c[i] = c[i - 1]
      BY <2>1, <2>4
    <3> QED BY <2>0, <2>2, <3>1
  <2> QED BY <2>3, <2>4
<1>8. n \in T
  <2>1. n \in Nat /\ \A i \in 1..n : i - 1 \in T => i \in T
    BY <1>1, <1>7
  <2> HIDE DEF T, n
  <2>2. \A i \in 0..n : i \in T
    BY <1>6, <2>1, UpTo
  <2> QED BY <2>1, <2>2
<1>9. Policy!Usable(s) = c[n]
  BY DEF Policy!Usable, c
<1> QED BY <1>8, <1>9, LenProperties

\* Outcomes of tools, and what a hook after a tool may answer.
ToolOutcomes == [error : BOOLEAN, images : Seq(BOOLEAN), effect : BOOLEAN, omitted : Nat]
HookAnswers == [kind : {"continue", "stop", "open", "closed", "ok", "error"}, images : Seq(BOOLEAN)]

\* A normalised outcome has at most four images, all valid, none if it is an
\* error; and every other image is accounted for.
LEMMA NormalizeIs ==
    ASSUME NEW o \in ToolOutcomes
    PROVE  LET f == Policy!Normalize(o) IN
           /\ f \in ToolOutcomes /\ f.effect = o.effect /\ f.error = o.error
           /\ f.error => f.images = <<>>
           /\ Len(f.images) <= 4 /\ \A i \in DOMAIN f.images : f.images[i]
           /\ ~f.error => f.omitted + Len(f.images) = o.omitted + Len(o.images)
<1> DEFINE n == Len(o.images)
           m == IF n < 4 THEN n ELSE 4
           first == SubSeq(o.images, 1, m)
           kept == Policy!Usable(first)
           f == Policy!Normalize(o)
<1>1. /\ o.images \in Seq(BOOLEAN) /\ o.omitted \in Nat /\ n \in Nat
      /\ o.error \in BOOLEAN /\ o.effect \in BOOLEAN
  BY LenProperties DEF ToolOutcomes
<1>2. m \in Nat /\ m <= n /\ m <= 4
  BY <1>1
<1>3. first \in Seq(BOOLEAN) /\ Len(first) = m
  <2>1. 1 \in 1..n + 1 /\ m \in 1 - 1..n
    BY <1>1, <1>2
  <2> HIDE DEF m
  <2>2. /\ SubSeq(o.images, 1, m) \in Seq(BOOLEAN)
        /\ Len(SubSeq(o.images, 1, m)) = IF 1 <= m THEN m - 1 + 1 ELSE 0
    BY <1>1, <2>1, SubSeqProperties
  <2> QED BY <1>2, <2>2
<1>4. /\ kept \in Seq(BOOLEAN) /\ Len(kept) \in Nat /\ Len(kept) <= m
      /\ \A i \in DOMAIN kept : kept[i]
  <2> HIDE DEF first, m
  <2> QED BY <1>3, UsableIs, LenProperties
<1>5. f = IF o.error THEN [o EXCEPT !.images = <<>>, !.omitted = 0]
          ELSE [o EXCEPT !.images = kept, !.omitted = o.omitted + n - Len(kept)]
  BY <1>1 DEF Policy!Normalize, Policy!MaxImages
<1> HIDE DEF kept, n, m, f
<1>6. CASE o.error
  <2>1. f = [o EXCEPT !.images = <<>>, !.omitted = 0]
    BY <1>5, <1>6
  <2>2. /\ f \in ToolOutcomes /\ f.effect = o.effect /\ f.error = o.error
        /\ f.images = <<>>
    <3>1. <<>> \in Seq(BOOLEAN) /\ 0 \in Nat
      OBVIOUS
    <3>2. f = [error |-> o.error, images |-> <<>>, effect |-> o.effect, omitted |-> 0]
      BY <2>1 DEF ToolOutcomes
    <3> QED BY <1>1, <3>1, <3>2 DEF ToolOutcomes
  <2> QED BY <1>6, <2>2 DEF f
<1>7. CASE ~o.error
  <2>1. o.omitted + n - Len(kept) \in Nat
    BY <1>1, <1>2, <1>4
  <2>2. f = [o EXCEPT !.images = kept, !.omitted = o.omitted + n - Len(kept)]
    BY <1>5, <1>7
  <2>3. /\ f \in ToolOutcomes /\ f.effect = o.effect /\ f.error = o.error
        /\ f.images = kept /\ f.omitted = o.omitted + n - Len(kept)
    BY <1>1, <1>4, <2>1, <2>2 DEF ToolOutcomes
  <2>4. Len(f.images) <= 4 /\ f.omitted + Len(f.images) = o.omitted + n
    BY <1>1, <1>2, <1>4, <2>3
  <2> QED BY <1>4, <1>7, <2>3, <2>4 DEF f, n
<1> QED BY <1>1, <1>6, <1>7

\* What the answer of one hook after a tool makes of the pipeline.
AfterHook(results, i, p) ==
    CASE results[i].kind \in {"ok", "error"} ->
           [p EXCEPT !.outcome = [error  |-> results[i].kind = "error",
                                  images |-> results[i].images,
                                  effect |-> p.outcome.effect, omitted |-> 0]]
      [] results[i].kind \in {"stop", "closed"} -> [p EXCEPT !.stop = i]
      [] OTHER -> p

\* The effect stays that of the tool; the run stops if some hook said so or failed
\* closed; and where no hook replaced the outcome it is the same.
LEMMA PostToolIs ==
    ASSUME NEW results \in Seq(HookAnswers), NEW o \in ToolOutcomes
    PROVE  LET p == Policy!PostTool(results, o) IN
           /\ p.outcome \in ToolOutcomes /\ p.outcome.effect = o.effect
           /\ p.stop # 0 <=> \E i \in DOMAIN results : results[i].kind \in {"stop", "closed"}
           /\ (\A i \in DOMAIN results : results[i].kind \notin {"ok", "error"}) => p.outcome = o
<1> DEFINE n == Len(results)
           b == [outcome |-> o, stop |-> 0]
           V == [outcome : ToolOutcomes, stop : Nat]
           c == CHOOSE g : g = [i \in 0..n |-> IF i = 0 THEN b ELSE AfterHook(results, i, g[i - 1])]
           leap == [i \in 1..n |-> [p \in V |-> AfterHook(results, i, p)]]
<1>1. n \in Nat /\ DOMAIN results = 1..n /\ \A i \in 1..n : results[i] \in HookAnswers /\ i \in Nat
  BY LenProperties
<1>2. b \in V
  OBVIOUS
<1>3. ASSUME NEW i \in 1..n, NEW p \in V
      PROVE  /\ AfterHook(results, i, p) \in V
             /\ AfterHook(results, i, p).outcome.effect = p.outcome.effect
             /\ AfterHook(results, i, p).stop =
                  IF results[i].kind \in {"stop", "closed"} THEN i ELSE p.stop
             /\ results[i].kind \notin {"ok", "error"} =>
                  AfterHook(results, i, p).outcome = p.outcome
  <2> DEFINE r == results[i]
             q == [error |-> r.kind = "error", images |-> r.images,
                   effect |-> p.outcome.effect, omitted |-> 0]
  <2>1. r \in HookAnswers /\ i \in Nat /\ p.outcome \in ToolOutcomes /\ p.stop \in Nat
    BY <1>1
  <2>2. q \in ToolOutcomes /\ q.effect = p.outcome.effect
    BY <2>1 DEF HookAnswers, ToolOutcomes
  <2>3. CASE r.kind \in {"ok", "error"}
    <3>1. AfterHook(results, i, p) = [p EXCEPT !.outcome = q]
      BY <2>3 DEF AfterHook
    <3> HIDE DEF q
    <3> QED BY <2>1, <2>2, <2>3, <3>1
  <2>4. CASE r.kind \in {"stop", "closed"}
    <3>1. AfterHook(results, i, p) = [p EXCEPT !.stop = i]
      BY <2>4 DEF AfterHook
    <3> QED BY <2>1, <2>4, <3>1
  <2>5. CASE r.kind \notin {"ok", "error", "stop", "closed"}
    <3>1. AfterHook(results, i, p) = p
      BY <2>5 DEF AfterHook
    <3> QED BY <2>1, <2>5, <3>1
  <2> QED BY <2>3, <2>4, <2>5
<1> HIDE DEF b
<1>4. leap \in [1..n -> [V -> V]]
  <2>1. \A i \in 1..n, p \in V : AfterHook(results, i, p) \in V
    BY <1>3
  <2> HIDE DEF n, V
  <2> QED BY <2>1
<1>5. PICK f \in [0..n -> V] : Steps(b, leap, f, n)
  <2>1. n \in Nat /\ b \in V /\ leap \in [1..n -> [V -> V]]
    BY <1>1, <1>2, <1>4
  <2> HIDE DEF leap, V, n
  <2> QED BY <2>1, StepsExist
<1>6. f = [i \in 0..n |-> IF i = 0 THEN b ELSE AfterHook(results, i, f[i - 1])]
  <2>1. ASSUME NEW i \in 1..n
        PROVE  f[i] = AfterHook(results, i, f[i - 1])
    <3>1. i - 1 \in 0..n
      BY <1>1
    <3>2. f[i - 1] \in V
      BY <1>5, <3>1
    <3> HIDE DEF V
    <3> QED BY <1>5, <3>2 DEF Steps
  <2>2. \A i \in 0..n : i = 0 \/ i \in 1..n
    BY <1>1
  <2> HIDE DEF V
  <2> QED BY <1>1, <1>5, <2>1, <2>2 DEF Steps
<1>7. c = [i \in 0..n |-> IF i = 0 THEN b ELSE AfterHook(results, i, c[i - 1])]
  BY <1>6
<1> HIDE DEF c
<1> DEFINE Said(i) == \E j \in 1..i : results[j].kind \in {"stop", "closed"}
           Same(i) == \A j \in 1..i : results[j].kind \notin {"ok", "error"}
           T == {i \in 0..n : /\ c[i] \in V /\ c[i].outcome.effect = o.effect
                              /\ c[i].stop # 0 <=> Said(i)
                              /\ Same(i) => c[i].outcome = o}
<1>8. 0 \in T
  BY <1>1, <1>2, <1>7 DEF b
<1>9. ASSUME NEW i \in 1..n, i - 1 \in T PROVE i \in T
  <2>1. i \in 0..n /\ i # 0 /\ i \in Nat /\ c[i - 1] \in V
    BY <1>1, <1>9
  <2>2. c[i] = AfterHook(results, i, c[i - 1])
    <3> HIDE DEF n
    <3> QED BY <1>7, <2>1
  <2>3. \A j \in 1..i : j = i \/ j \in 1..(i - 1)
    BY <2>1
  <2>4. \A j \in 1..(i - 1) : j \in 1..i
    BY <2>1
  <2>5. i \in 1..i
    BY <2>1
  <2>6. /\ c[i] \in V /\ c[i].outcome.effect = c[i - 1].outcome.effect
        /\ c[i].stop = IF results[i].kind \in {"stop", "closed"} THEN i ELSE c[i - 1].stop
        /\ results[i].kind \notin {"ok", "error"} => c[i].outcome = c[i - 1].outcome
    <3> HIDE DEF V
    <3> QED BY <1>3, <2>1, <2>2
  <2>7. Said(i) <=> results[i].kind \in {"stop", "closed"} \/ Said(i - 1)
    BY <2>3, <2>4, <2>5
  <2>8. Same(i) <=> results[i].kind \notin {"ok", "error"} /\ Same(i - 1)
    BY <2>3, <2>4, <2>5
  <2> HIDE DEF V, Said, Same
  <2> QED BY <1>9, <2>1, <2>6, <2>7, <2>8
<1>10. n \in T
  <2>1. n \in Nat /\ \A i \in 1..n : i - 1 \in T => i \in T
    BY <1>1, <1>9
  <2> HIDE DEF T, n
  <2>2. \A i \in 0..n : i \in T
    BY <1>8, <2>1, UpTo
  <2> QED BY <2>1, <2>2
<1>11. Policy!PostTool(results, o) = c[n]
  BY DEF Policy!PostTool, AfterHook, c, b
<1> QED BY <1>1, <1>10, <1>11

-----------------------------------------------------------------------------
(* The policy: its inductive invariant.                                    *)

\* A remembered grant is that of a call the user allowed for the session.
Granted ==
    \A g \in grants : \E other \in allowed : g = Policy!GrantKey(other[1], other[2])

\* A call that is asked about has passed both looks, and its answer is open.
AsksAsJudged ==
    call.stage = "asked" =>
        /\ call = [stage |-> "asked", tool |-> call.tool, given |-> call.given,
                   args |-> call.args, scopes |-> call.scopes, answer |-> "none"]
        /\ Policy!Valid(call.tool, call.args)
        /\ ~Policy!Denied(call.tool, call.args) /\ ~Policy!Denied(call.tool, call.given)
        /\ Policy!Forced(call.tool, call.args) => call.scopes = {"once"}

PolicyInv ==
    /\ rules \in RuleSets
    /\ Granted
    /\ AsksAsJudged
    /\ Policy!RunsAsAllowed
    /\ Policy!ObservationSound

\* What a grant covers is the call itself or, for a remote tool, its name.
LEMMA KeyCovers ==
    ASSUME NEW tool, NEW args, NEW t, NEW a,
           Policy!GrantKey(tool, args) = Policy!GrantKey(t, a)
    PROVE  t = tool /\ (Policy!ToolSpec[tool].byName \/ a = args)
BY DEF Policy!GrantKey

LEMMA PolicyInit == Policy!Init => PolicyInv
BY DEF Policy!Init, Policy!NoCall, PolicyInv, Granted, AsksAsJudged, Policy!RunsAsAllowed,
       Policy!ObservationSound

\* Two looks at a call, before and after the hooks.
LEMMA PreflightStep ==
    ASSUME PolicyInv, NEW tool, NEW given, NEW results, Policy!Preflight(tool, given, results)
    PROVE  PolicyInv'
<1> DEFINE args == Policy!Rewritten(results, given)
           verdict == Policy!Evaluate(tool, args)
<1>1. Tabled
  BY PolicyAssumption DEF PolicyInv, Tabled
<1>2. /\ rules' = rules /\ grants' = grants /\ allowed' = allowed
      /\ Policy!Passes(tool, given)
      /\ Policy!Valid(tool, args) /\ verdict # "deny"
      /\ call' = [stage  |-> IF verdict = "allow" THEN "ready" ELSE "asked",
                  tool   |-> tool, given |-> given, args |-> args,
                  scopes |-> IF verdict = "ask once" THEN {"once"} ELSE {"once", "session"},
                  answer |-> "none"]
  BY DEF Policy!Preflight
<1> HIDE DEF args, verdict
<1>3. /\ call'.tool = tool /\ call'.given = given /\ call'.args = args /\ call'.answer = "none"
      /\ call'.stage = IF verdict = "allow" THEN "ready" ELSE "asked"
      /\ call'.scopes = IF verdict = "ask once" THEN {"once"} ELSE {"once", "session"}
  BY <1>2
<1>4. ~Policy!Denied(tool, args) /\ ~Policy!Denied(tool, given)
  BY <1>1, <1>2, Judged DEF Policy!Passes, verdict
<1>5. Policy!Forced(tool, args) => verdict = "ask once"
  BY <1>1, <1>2, Judged DEF verdict
<1>6. "ask" \in Policy!Governing(tool, args) /\ verdict = "allow" =>
        \E other \in allowed : Policy!Alike(other, tool, args)
  <2> SUFFICES ASSUME "ask" \in Policy!Governing(tool, args), verdict = "allow"
               PROVE  \E other \in allowed : Policy!Alike(other, tool, args)
    OBVIOUS
  <2>1. Policy!GrantKey(tool, args) \in grants
    BY <1>1, Judged DEF verdict
  <2>2. PICK other \in allowed : Policy!GrantKey(tool, args) = Policy!GrantKey(other[1], other[2])
    BY <2>1 DEF PolicyInv, Granted
  <2> QED BY <2>2, KeyCovers DEF Policy!Alike
<1>7. Granted'
  BY <1>2 DEF PolicyInv, Granted, Policy!GrantKey
<1>8. AsksAsJudged'
  <2>1. /\ Policy!Valid(call.tool, call.args)'
        /\ ~Policy!Denied(call.tool, call.args)' /\ ~Policy!Denied(call.tool, call.given)'
        /\ Policy!Forced(call.tool, call.args)' => call'.scopes = {"once"}
    BY ZenonT(40), <1>2, <1>3, <1>4, <1>5 DEF Policy!Valid, Policy!Denied, Policy!Governing, Policy!Forced
  <2>2. ASSUME call'.stage = "asked"
        PROVE  call' = [stage |-> "asked", tool |-> call'.tool, given |-> call'.given,
                        args |-> call'.args, scopes |-> call'.scopes, answer |-> "none"]
    BY <1>2, <1>3, <2>2
  <2> QED BY <2>1, <2>2 DEF AsksAsJudged
<1>9. Policy!RunsAsAllowed'
  <2>1. CASE verdict # "allow"
    <3>1. call'.stage # "ready"
      BY <1>3, <2>1
    <3> QED BY <3>1 DEF Policy!RunsAsAllowed
  <2>2. CASE verdict = "allow"
    <3>1. ~Policy!Forced(tool, args)
      BY <1>5, <2>2
    <3>2. Policy!Valid(call.tool, call.args)' /\ ~Policy!Forced(call.tool, call.args)'
      BY <1>2, <1>3, <3>1 DEF Policy!Valid, Policy!Forced
    <3>3. ~Policy!Denied(call.tool, call.args)' /\ ~Policy!Denied(call.tool, call.given)'
      BY ZenonT(40), <1>2, <1>3, <1>4 DEF Policy!Denied, Policy!Governing
    <3>4. "ask" \in Policy!Governing(call.tool, call.args)' => "ask" \in Policy!Governing(tool, args)
      BY ZenonT(30), <1>2, <1>3 DEF Policy!Governing
    <3>5. ("ask" \in Policy!Governing(call.tool, call.args) =>
             \E other \in allowed : Policy!Alike(other, call.tool, call.args))'
      BY <1>2, <1>3, <1>6, <2>2, <3>4
    <3>6. (Policy!Valid(call.tool, call.args))'
      BY <3>2
    <3>7. (Policy!Forced(call.tool, call.args) => call.answer = "once")'
      BY <3>2
    <3>8. (~Policy!Denied(call.tool, call.args) /\ ~Policy!Denied(call.tool, call.given))'
      BY <3>3
    <3>9. ("ask" \in Policy!Governing(call.tool, call.args) /\ call.answer = "none" =>
             \E other \in allowed : Policy!Alike(other, call.tool, call.args))'
      BY <3>5
    <3> QED BY <3>6, <3>7, <3>8, <3>9 DEF Policy!RunsAsAllowed
  <2> QED BY <2>1, <2>2
<1>10. Policy!ObservationSound'
  BY <1>3 DEF Policy!ObservationSound
<1> QED BY <1>2, <1>7, <1>8, <1>9, <1>10 DEF PolicyInv

\* The answer of the user: what is granted is what was allowed.
LEMMA AnswerStep ==
    ASSUME PolicyInv, NEW reply \in {"once", "session", "deny"}, Policy!Answer(reply)
    PROVE  PolicyInv'
<1>1. call.stage = "asked" /\ rules' = rules
  BY DEF Policy!Answer
<1>2. CASE reply \notin call.scopes
  <2>1. call' = Policy!NoCall /\ grants' = grants /\ allowed' = allowed
    BY <1>2 DEF Policy!Answer
  <2>2. call'.stage = "none"
    BY <2>1 DEF Policy!NoCall
  <2> QED BY <1>1, <2>1, <2>2 DEF PolicyInv, Granted, AsksAsJudged,
                                  Policy!RunsAsAllowed, Policy!ObservationSound, Policy!GrantKey
<1>3. CASE reply \in call.scopes
  <2>1. call' = [call EXCEPT !.stage = "ready", !.answer = reply]
    BY <1>3 DEF Policy!Answer
  <2>2. /\ grants' = IF reply = "session" THEN grants \cup {Policy!GrantKey(call.tool, call.args)} ELSE grants
        /\ allowed' = IF reply = "session" THEN allowed \cup {<<call.tool, call.args>>} ELSE allowed
    BY <1>3 DEF Policy!Answer
  <2>3. Granted'
    <3>1. CASE reply # "session"
      BY <2>2, <3>1 DEF PolicyInv, Granted, Policy!GrantKey
    <3>2. CASE reply = "session"
      <4> DEFINE new == <<call.tool, call.args>>
      <4>1. new \in allowed' /\ Policy!GrantKey(call.tool, call.args) = Policy!GrantKey(new[1], new[2])
        BY <2>2, <3>2
      <4>2. \A g \in grants : \E other \in allowed' : g = Policy!GrantKey(other[1], other[2])
        BY <2>2, <3>2 DEF PolicyInv, Granted
      <4>3. grants' = grants \cup {Policy!GrantKey(call.tool, call.args)}
        BY <2>2, <3>2
      <4>4. \A g \in grants' : \E other \in allowed' : g = Policy!GrantKey(other[1], other[2])
        BY <4>1, <4>2, <4>3
      <4> QED BY <4>4 DEF Granted, Policy!GrantKey
    <3> QED BY <3>1, <3>2
  <2>4. /\ call = [stage |-> "asked", tool |-> call.tool, given |-> call.given,
                   args |-> call.args, scopes |-> call.scopes, answer |-> "none"]
        /\ Policy!Valid(call.tool, call.args)
        /\ ~Policy!Denied(call.tool, call.args) /\ ~Policy!Denied(call.tool, call.given)
        /\ Policy!Forced(call.tool, call.args) => call.scopes = {"once"}
    BY <1>1 DEF PolicyInv, AsksAsJudged
  <2>5. /\ call'.stage = "ready" /\ call'.tool = call.tool /\ call'.args = call.args
        /\ call'.given = call.given /\ call'.answer = reply
    BY <2>1, <2>4
  <2>6. /\ Policy!Valid(call.tool, call.args)'
        /\ ~Policy!Denied(call.tool, call.args)' /\ ~Policy!Denied(call.tool, call.given)'
        /\ Policy!Forced(call.tool, call.args)' => call'.answer = "once"
    <3>1. Policy!Forced(call.tool, call.args) => reply = "once"
      BY <1>3, <2>4
    <3> QED BY <1>1, <2>4, <2>5, <3>1 DEF Policy!Valid, Policy!Denied, Policy!Governing, Policy!Forced
  <2>7. Policy!RunsAsAllowed'
    BY <2>5, <2>6 DEF Policy!RunsAsAllowed
  <2>8. AsksAsJudged' /\ Policy!ObservationSound'
    BY <2>5 DEF AsksAsJudged, Policy!ObservationSound
  <2> QED BY <1>1, <2>3, <2>7, <2>8 DEF PolicyInv
<1> QED BY <1>2, <1>3

\* The outcome, through the hooks.
LEMMA ExecuteStep ==
    ASSUME PolicyInv, NEW o \in Policy!Outcome, NEW results \in [1..Hooks -> Policy!PostResult],
           Policy!Execute(o, results)
    PROVE  PolicyInv'
<1> DEFINE before == Policy!Normalize(o)
           post == Policy!PostTool(results, before)
           f == Policy!Normalize(post.outcome)
<1>1. o \in ToolOutcomes /\ o.omitted = 0
  BY PolicyAssumption DEF Policy!Outcome, ToolOutcomes
<1>2. results \in Seq(HookAnswers) /\ DOMAIN results = 1..Hooks
  <2>1. Policy!PostResult \subseteq HookAnswers
    <3>1. <<>> \in Seq(BOOLEAN)
      OBVIOUS
    <3>2. \A im \in Images : im \in Seq(BOOLEAN)
      BY PolicyAssumption
    <3>3. ASSUME NEW r \in Policy!PostResult PROVE r \in HookAnswers
      <4>1. CASE \E k \in {"continue", "stop", "open", "closed"} : r = [kind |-> k, images |-> <<>>]
        BY <3>1, <4>1 DEF HookAnswers
      <4>2. CASE \E k \in {"ok", "error"}, im \in Images : r = [kind |-> k, images |-> im]
        BY <3>2, <4>2 DEF HookAnswers
      <4> QED BY <3>3, <4>1, <4>2 DEF Policy!PostResult
    <3> QED BY <3>3
  <2>2. results \in [1..Hooks -> HookAnswers] /\ Hooks \in Nat
    BY <2>1, PolicyAssumption
  <2> QED BY <2>2
<1>3. /\ before \in ToolOutcomes /\ before.effect = o.effect /\ before.error = o.error
      /\ ~before.error => before.omitted + Len(before.images) = Len(o.images)
  <2>1. o.images \in Seq(BOOLEAN) /\ Len(o.images) \in Nat
    BY <1>1, LenProperties DEF ToolOutcomes
  <2>2. /\ before \in ToolOutcomes /\ before.effect = o.effect /\ before.error = o.error
        /\ ~before.error => before.omitted + Len(before.images) = o.omitted + Len(o.images)
    BY <1>1, NormalizeIs
  <2>3. o.omitted + Len(o.images) = Len(o.images)
    BY <1>1, <2>1
  <2> HIDE DEF before
  <2> QED BY <2>2, <2>3
<1> HIDE DEF before
<1>4. /\ post.outcome \in ToolOutcomes /\ post.outcome.effect = before.effect
      /\ post.stop # 0 <=> \E i \in DOMAIN results : results[i].kind \in {"stop", "closed"}
      /\ (\A i \in DOMAIN results : results[i].kind \notin {"ok", "error"}) => post.outcome = before
  BY <1>2, <1>3, PostToolIs
<1> HIDE DEF post
<1>5. /\ f.effect = post.outcome.effect /\ f.error = post.outcome.error
      /\ f.error => f.images = <<>>
      /\ Len(f.images) <= 4 /\ \A i \in DOMAIN f.images : f.images[i]
      /\ ~f.error => f.omitted + Len(f.images) = post.outcome.omitted + Len(post.outcome.images)
  BY <1>4, NormalizeIs
<1> HIDE DEF f
<1>6. /\ result' = [raw |-> o, hooks |-> results, final |-> f, stop |-> post.stop]
      /\ call' = [stage |-> "done"]
      /\ rules' = rules /\ grants' = grants /\ allowed' = allowed
  BY DEF Policy!Execute, f, post, before
<1>7. /\ result'.raw = o /\ result'.hooks = results /\ result'.final = f
      /\ result'.stop = post.stop
  BY <1>6
<1>8. Policy!ObservationSound'
  <2>1. ~f.error /\ (\A i \in DOMAIN results : results[i].kind \notin {"ok", "error"})
          => f.omitted + Len(f.images) = Len(o.images)
    BY <1>3, <1>4, <1>5
  <2> QED BY <1>3, <1>4, <1>5, <1>7, <2>1 DEF Policy!ObservationSound, Policy!MaxImages
<1> QED BY <1>6, <1>8 DEF PolicyInv, Granted, AsksAsJudged, Policy!RunsAsAllowed, Policy!GrantKey

LEMMA PolicyStep == PolicyInv /\ [Policy!Next]_(Policy!vars) => PolicyInv'
<1> SUFFICES ASSUME PolicyInv, [Policy!Next]_(Policy!vars) PROVE PolicyInv'
  OBVIOUS
<1>1. ASSUME NEW tool \in DOMAIN Policy!ToolSpec, NEW given \in Arguments,
             NEW results \in [1..Hooks -> Policy!HookResult], Policy!Preflight(tool, given, results)
      PROVE  PolicyInv'
  BY <1>1, PreflightStep
<1>2. ASSUME NEW reply \in {"once", "session", "deny"}, Policy!Answer(reply) PROVE PolicyInv'
  BY <1>2, AnswerStep
<1>3. ASSUME NEW o \in Policy!Outcome, NEW results \in [1..Hooks -> Policy!PostResult],
             Policy!Execute(o, results)
      PROVE  PolicyInv'
  BY <1>3, ExecuteStep
<1>4. CASE Policy!Commit \/ Policy!SelectModel
  BY <1>4 DEF Policy!Commit, Policy!SelectModel, Policy!NoCall, PolicyInv, Granted, AsksAsJudged,
              Policy!RunsAsAllowed, Policy!ObservationSound, Policy!GrantKey
<1>5. CASE Policy!ForgetSession
  BY <1>5 DEF Policy!ForgetSession, Policy!NoCall, PolicyInv, Granted, AsksAsJudged,
              Policy!RunsAsAllowed, Policy!ObservationSound, Policy!GrantKey
<1>6. ASSUME NEW newRules \in RuleSets, NEW extra, Policy!Reload(newRules, Policy!BuiltIn \cup extra)
      PROVE  PolicyInv'
  BY <1>6 DEF Policy!Reload, Policy!NoCall, PolicyInv, Granted, AsksAsJudged,
              Policy!RunsAsAllowed, Policy!ObservationSound, Policy!GrantKey
<1>7. CASE UNCHANGED Policy!vars
  BY SMTT(40), <1>7 DEF Policy!vars, PolicyInv, Granted, AsksAsJudged, Policy!RunsAsAllowed, Policy!ObservationSound,
              Policy!GrantKey, Policy!Valid, Policy!Denied, Policy!Governing, Policy!Forced
<1> QED BY <1>1, <1>2, <1>3, <1>4, <1>5, <1>6, <1>7 DEF Policy!Next

\* No rewriting by a hook and no earlier grant gets a call past the rules, and no
\* hook forges what a tool did, for every table of rules, every set of arguments,
\* any number of hooks and any number of grants (preflight_tool_call and
\* request_approval, runtime/tool_execution.rs).
THEOREM PolicyAlways == Policy!Spec => []PolicySound
<1>1. PolicyInv => PolicySound
  BY DEF PolicyInv, PolicySound, Policy!PolicySound
<1> QED BY <1>1, PolicyInit, PolicyStep, PTL DEF Policy!Spec

-----------------------------------------------------------------------------
(* The process behind a tool.                                              *)

Output == [Streams -> Seq(Nat)]

\* Everything is kept of the chunks q, one after the other.
Gathered(f, q) == \A i \in 1..Len(q) : f[i] = Kept(f[i - 1], q[i])

\* have is what a tool keeps of full, and says so: all of it, or for a query whose
\* bytes are used up the first of each stream.
Agrees(have, full, short) ==
  IF kind = "query" /\ short
    THEN /\ Total(have) = MaxBytes /\ MaxBytes < Total(full)
         /\ \A s \in Streams : IsPrefix(have[s], full[s])
    ELSE /\ have = full /\ ~short
         /\ kind = "query" => Total(full) <= MaxBytes

\* What was written is had, on its way in the channel, or in the pipes.
Accounted ==
  \E f \in [0..Len(chan) -> Output] :
    /\ Gathered(f, chan)
    /\ Agrees(got, f[0], cut)
    /\ \A s \in Streams : f[Len(chan)][s] \o pipe[s] = written[s]

Closed(s) == reader[s] \in {"ended", "failed"}

\* The tool has returned, and not because a query could not ask for its process.
Over == step = "returned" /\ ~(kind = "query" /\ ending = "wait_failed")

\* What is left of the process at each step.
Placed ==
  /\ main = "none" =>
       rest = "none" /\ step \in {"start", "returned"} /\ \A s \in Streams : reader[s] = "none"
  /\ step = "start" => main = "none"
  /\ step = "stop" => kind = "query"
  /\ step \in {"close", "join", "last"} => main = "gone"
  /\ \A s \in Streams : reader[s] = "ended" => pipe[s] = <<>> /\ main = "gone" /\ rest # "up"
  /\ step \in {"join", "last", "returned"} /\ tree = "job" => rest \notin {"up", "detached"}
  /\ step = "last" => \A s \in Streams : Closed(s)
  /\ ending = "not_started" => step = "returned" /\ main = "none"
  /\ Over /\ ending # "not_started" =>
       main = "gone" /\ chan = <<>> /\ \A s \in Streams : Closed(s)

ProcessInv == ProcessTypeOK /\ Placed /\ Accounted

-----------------------------------------------------------------------------
\* The bytes had of both streams.
LEMMA TotalIs ==
    ASSUME NEW h \in Output, NEW a \in Seq(Nat), NEW b \in Seq(Nat),
           h["stdout"] = a, h["stderr"] = b
    PROVE  Total(h) \in Nat /\ Total(h) = Len(a) + Len(b)
<1>1. Len(a) \in Nat /\ Len(b) \in Nat
  BY LenProperties
<1> QED BY <1>1 DEF Total

\* What one more chunk adds.
LEMMA KeptIs ==
    ASSUME NEW h \in Output, NEW c \in Chunk
    PROVE  /\ Kept(h, c) \in Output
           /\ Kept(h, c)[c.stream] = h[c.stream] \o c.bytes
           /\ \A s \in Streams : s # c.stream => Kept(h, c)[s] = h[s]
           /\ Total(h) \in Nat /\ Len(c.bytes) \in Nat
           /\ Total(Kept(h, c)) = Total(h) + Len(c.bytes)
<1>1. c.stream \in Streams /\ c.bytes \in Seq(Nat)
  BY DEF Chunk
<1>2. PICK a \in Seq(Nat), b \in Seq(Nat), d \in Seq(Nat) :
        h["stdout"] = a /\ h["stderr"] = b /\ c.bytes = d
  BY <1>1 DEF Output, Streams
<1>3. a \o d \in Seq(Nat) /\ b \o d \in Seq(Nat)
  BY ConcatProperties
<1>4. /\ Kept(h, c) \in Output
      /\ Kept(h, c)[c.stream] = h[c.stream] \o c.bytes
      /\ \A s \in Streams : s # c.stream => Kept(h, c)[s] = h[s]
  BY <1>1, <1>2, <1>3 DEF Kept, Output, Streams
<1>5. Len(a) \in Nat /\ Len(b) \in Nat /\ Len(d) \in Nat
  BY LenProperties
<1>6. Total(h) = Len(a) + Len(b)
  BY <1>2, TotalIs
<1>7. Total(Kept(h, c)) = Len(a) + Len(b) + Len(d)
  <2>1. CASE c.stream = "stdout"
    <3>1. Kept(h, c)["stdout"] = a \o d /\ Kept(h, c)["stderr"] = b
      BY <1>2, <1>4, <2>1 DEF Streams
    <3>2. Total(Kept(h, c)) = Len(a \o d) + Len(b)
      BY <1>3, <1>4, <3>1, TotalIs
    <3>3. Len(a \o d) = Len(a) + Len(d)
      BY ConcatProperties
    <3> QED BY <1>5, <3>2, <3>3
  <2>2. CASE c.stream = "stderr"
    <3>1. Kept(h, c)["stderr"] = b \o d /\ Kept(h, c)["stdout"] = a
      BY <1>2, <1>4, <2>2 DEF Streams
    <3>2. Total(Kept(h, c)) = Len(a) + Len(b \o d)
      BY <1>3, <1>4, <3>1, TotalIs
    <3>3. Len(b \o d) = Len(b) + Len(d)
      BY ConcatProperties
    <3> QED BY <1>5, <3>2, <3>3
  <2> QED BY <1>1, <2>1, <2>2 DEF Streams
<1>8. Len(c.bytes) = Len(d)
  BY <1>2
<1>9. Total(h) \in Nat
  BY <1>5, <1>6
<1>10. Total(Kept(h, c)) = Total(h) + Len(c.bytes)
  BY <1>5, <1>6, <1>7, <1>8
<1> QED BY <1>4, <1>5, <1>8, <1>9, <1>10

\* A prefix is one of whatever is longer.
LEMMA PrefixLonger ==
    ASSUME NEW a \in Seq(Nat), NEW b \in Seq(Nat), NEW c \in Seq(Nat), IsPrefix(a, b)
    PROVE  IsPrefix(a, b \o c)
<1>1. /\ Len(a) \in Nat /\ Len(b) \in Nat /\ Len(c) \in Nat /\ Len(a) <= Len(b)
      /\ SubSeq(a, 1, Len(a)) = SubSeq(b, 1, Len(a))
  BY LenProperties DEF IsPrefix
<1>2. b \o c \in Seq(Nat) /\ Len(b \o c) = Len(b) + Len(c)
  BY ConcatProperties
<1>3. SubSeq(b \o c, 1, Len(a)) = SubSeq(b, 1, Len(a))
  <2>1. CASE Len(a) = 0
    <3>1. SubSeq(b \o c, 1, Len(a)) = <<>> /\ SubSeq(b, 1, Len(a)) = <<>>
      BY <1>1, <2>1, SubSeqEmpty
    <3> QED BY <3>1
  <2>2. CASE Len(a) # 0
    <3>1. 1 \in 1..Len(b) /\ Len(a) \in 1..Len(b)
      BY <1>1, <2>2
    <3> QED BY <3>1, SubSeqOfConcat1
  <2> QED BY <2>1, <2>2
<1> QED BY <1>1, <1>2, <1>3 DEF IsPrefix

LEMMA PrefixOf ==
    ASSUME NEW a \in Seq(Nat), NEW b \in Seq(Nat), NEW c \in Seq(Nat)
    PROVE  IsPrefix(a \o b, a \o (b \o c))
<1>1. a \o b \in Seq(Nat)
  BY ConcatProperties
<1>2. IsPrefix(a \o b, a \o b)
  BY <1>1, LenProperties DEF IsPrefix
<1>3. (a \o b) \o c = a \o (b \o c)
  BY ConcatAssociative, SMTT(30)
<1>4. IsPrefix(a \o b, (a \o b) \o c)
  BY <1>1, <1>2, PrefixLonger
<1> QED BY <1>3, <1>4

\* The first bytes of the last chunk, after all that came before.
LEMMA PrefixCut ==
    ASSUME NEW a \in Seq(Nat), NEW b \in Seq(Nat), NEW n \in 0..Len(b)
    PROVE  /\ SubSeq(b, 1, n) \in Seq(Nat) /\ Len(SubSeq(b, 1, n)) = n
           /\ IsPrefix(a \o SubSeq(b, 1, n), a \o b)
<1> DEFINE p == SubSeq(b, 1, n)
           r == SubSeq(b, n + 1, Len(b))
<1>1. Len(b) \in Nat /\ n \in Nat /\ n <= Len(b) /\ \A i \in 1..Len(b) : b[i] \in Nat
  BY LenProperties, ElementOfSeq
<1>2. p \in Seq(Nat) /\ Len(p) = n
  <2>1. \A i \in 1..n : b[i] \in Nat
    BY <1>1
  <2> QED BY <1>1, <2>1, SubSeqProperties
<1>3. r \in Seq(Nat)
  <2>1. \A i \in n + 1..Len(b) : b[i] \in Nat
    BY <1>1
  <2> QED BY <1>1, <2>1, SubSeqProperties
<1>4. p \o r = b
  <2>1. 1 \in 1..Len(b) + 1 /\ n \in 1 - 1..Len(b) /\ Len(b) \in n..Len(b)
    BY <1>1
  <2>2. p \o r = SubSeq(b, 1, Len(b))
    BY <2>1, ConcatAdjacentSubSeq
  <2> QED BY <2>2, SubSeqFull
<1> HIDE DEF p, r
<1>5. IsPrefix(a \o p, a \o (p \o r))
  BY <1>2, <1>3, PrefixOf
<1> QED BY <1>2, <1>4, <1>5 DEF p

LEMMA TakeTyped ==
    ASSUME kind \in {"command", "query"}, NEW have \in Output, NEW c \in Chunk
    PROVE  Take(have, c) \in Output
<1> DEFINE n == Len(c.bytes)
           room == IF Total(have) >= MaxBytes THEN 0 ELSE MaxBytes - Total(have)
           m == IF n < room THEN n ELSE room
<1>1. c.stream \in Streams /\ c.bytes \in Seq(Nat)
  BY DEF Chunk
<1>2. MaxBytes \in Nat /\ Total(have) \in Nat /\ n \in Nat
  BY KeptIs, ProcessAssumption
<1>3. m \in 0..n
  BY <1>2
<1>4. SubSeq(c.bytes, 1, m) \in Seq(Nat)
  BY <1>1, <1>3, PrefixCut
<1>5. Kept(have, c) \in Output
  BY KeptIs
<1>6. PICK d \in Chunk : d = [c EXCEPT !.bytes = SubSeq(c.bytes, 1, m)]
  BY <1>4 DEF Chunk
<1>7. Kept(have, d) \in Output
  BY KeptIs
<1>8. Take(have, c) = Kept(have, c) \/ Take(have, c) = Kept(have, d)
  BY <1>6 DEF Take, WithinLimit
<1> QED BY <1>5, <1>7, <1>8

\* One chunk taken, without and with a limit, keeps the account.
LEMMA TakeAgrees ==
    ASSUME kind \in {"command", "query"},
           NEW have \in Output, NEW full \in Output, NEW short \in BOOLEAN, NEW c \in Chunk,
           Agrees(have, full, short)
    PROVE  /\ Take(have, c) \in Output
           /\ Agrees(Take(have, c), Kept(full, c), short \/ Take(have, c) # Kept(have, c))
<1> DEFINE n == Len(c.bytes)
           room == IF Total(have) >= MaxBytes THEN 0 ELSE MaxBytes - Total(have)
           some == [c EXCEPT !.bytes = SubSeq(@, 1, IF n < room THEN n ELSE room)]
<1>1. /\ c.stream \in Streams /\ c.bytes \in Seq(Nat) /\ n \in Nat /\ MaxBytes \in Nat
      /\ Total(have) \in Nat /\ Total(full) \in Nat /\ room \in Nat
  <2>1. c.stream \in Streams /\ c.bytes \in Seq(Nat)
    BY DEF Chunk
  <2>2. MaxBytes \in Nat
    BY ProcessAssumption
  <2>3. Total(have) \in Nat /\ Total(full) \in Nat /\ n \in Nat
    BY KeptIs
  <2> QED BY <2>1, <2>2, <2>3
<1>2. CASE kind = "command"
  <2>1. Take(have, c) = Kept(have, c) /\ have = full /\ ~short
    BY <1>2 DEF Take, Agrees
  <2> QED BY <1>2, <2>1, KeptIs DEF Agrees
<1>3. CASE kind = "query"
  <2>1. Take(have, c) = Kept(have, some)
    BY <1>3 DEF Take, WithinLimit
  <2>2. CASE ~short /\ n <= room
    <3>1. have = full /\ Total(have) + n <= MaxBytes
      BY <1>1, <1>3, <2>2 DEF Agrees
    <3>2. (IF n < room THEN n ELSE room) = n
      BY <1>1, <2>2
    <3>3. SubSeq(c.bytes, 1, n) = c.bytes
      BY <1>1, SubSeqFull
    <3>4. some = c
      <4>1. some = [c EXCEPT !.bytes = c.bytes]
        BY <3>2, <3>3
      <4> QED BY <4>1 DEF Chunk
    <3> HIDE DEF some, room, n
    <3>5. Take(have, c) = Kept(have, c) /\ Kept(have, c) \in Output /\ Total(Kept(have, c)) <= MaxBytes
      BY <2>1, <3>1, <3>4, KeptIs DEF n
    <3> QED BY <1>3, <2>2, <3>1, <3>5 DEF Agrees
  <2>3. CASE short \/ n > room
    <3> DEFINE m == IF n < room THEN n ELSE room
    <3>1. /\ m \in 0..n /\ Total(have) + m = MaxBytes /\ MaxBytes < Total(full) + n
          /\ ~short => m < n
      BY <1>1, <1>3, <2>3, SMTT(30) DEF Agrees
    <3>2. /\ SubSeq(c.bytes, 1, m) \in Seq(Nat) /\ Len(SubSeq(c.bytes, 1, m)) = m
      BY <1>1, <3>1, PrefixCut
    <3>3. some \in Chunk /\ some.stream = c.stream /\ some.bytes = SubSeq(c.bytes, 1, m)
      <4>1. some = [c EXCEPT !.bytes = SubSeq(c.bytes, 1, m)]
        OBVIOUS
      <4> HIDE DEF some, m
      <4> QED BY <3>2, <4>1 DEF Chunk
    <3> HIDE DEF some, m, room
    <3>4. /\ Kept(have, some) \in Output
          /\ Kept(have, some)[c.stream] = have[c.stream] \o SubSeq(c.bytes, 1, m)
          /\ \A s \in Streams : s # c.stream => Kept(have, some)[s] = have[s]
          /\ Total(Kept(have, some)) = Total(have) + Len(some.bytes)
      <4>1. PICK d \in Chunk : d = some /\ d.stream = c.stream /\ d.bytes = SubSeq(c.bytes, 1, m)
        BY <3>3
      <4>2. /\ Kept(have, d) \in Output
            /\ Kept(have, d)[d.stream] = have[d.stream] \o d.bytes
            /\ \A s \in Streams : s # d.stream => Kept(have, d)[s] = have[s]
            /\ Total(Kept(have, d)) = Total(have) + Len(d.bytes)
        BY KeptIs
      <4> QED BY <4>1, <4>2
    <3>5. Len(some.bytes) = m
      BY <3>2, <3>3
    <3>6. Take(have, c) \in Output /\ Total(Take(have, c)) = MaxBytes
      BY <2>1, <3>1, <3>4, <3>5
    <3>7. MaxBytes < Total(Kept(full, c))
      BY <1>1, <3>1, KeptIs
    <3>8. short \/ Take(have, c) # Kept(have, c)
      <4>1. Total(Kept(have, c)) = Total(have) + n
        BY KeptIs
      <4> QED BY <1>1, <3>1, <3>6, <4>1
    <3>9. ASSUME NEW s \in Streams PROVE IsPrefix(Take(have, c)[s], Kept(full, c)[s])
      <4>0. have[s] \in Seq(Nat) /\ full[s] \in Seq(Nat)
        BY DEF Output
      <4>1. IsPrefix(have[s], full[s])
        <5>1. CASE short
          BY <1>3, <5>1 DEF Agrees
        <5>2. CASE ~short
          <6>1. have = full
            BY <5>2 DEF Agrees
          <6> QED BY <4>0, <6>1, LenProperties DEF IsPrefix
        <5> QED BY <5>1, <5>2
      <4>2. CASE s # c.stream
        <5>1. Take(have, c)[s] = have[s] /\ Kept(full, c)[s] = full[s]
          BY <2>1, <3>4, <4>2, KeptIs
        <5> QED BY <4>1, <5>1
      <4>3. CASE s = c.stream
        <5>1. /\ Take(have, c)[s] = have[s] \o SubSeq(c.bytes, 1, m)
              /\ Kept(full, c)[s] = full[s] \o c.bytes
          BY <2>1, <3>4, <4>3, KeptIs
        <5>2. CASE ~short
          <6>1. have = full
            BY <5>2 DEF Agrees
          <6> QED BY <1>1, <3>1, <4>0, <5>1, <6>1, PrefixCut
        <5>3. CASE short
          <6>1. m = 0
            BY <1>1, <1>3, <3>1, <5>3 DEF Agrees
          <6>2. SubSeq(c.bytes, 1, m) = <<>>
            BY <6>1, SubSeqEmpty
          <6>3. Take(have, c)[s] = have[s]
            BY <4>0, <5>1, <6>2, ConcatEmptySeq
          <6> QED BY <1>1, <4>0, <4>1, <5>1, <6>3, PrefixLonger
        <5> QED BY <5>2, <5>3
      <4> QED BY <4>2, <4>3
    <3> QED BY <1>3, <3>6, <3>7, <3>8, <3>9 DEF Agrees
  <2>4. (~short /\ n <= room) \/ short \/ n > room
    BY <1>1
  <2> QED BY <2>2, <2>3, <2>4
<1> QED BY <1>2, <1>3

-----------------------------------------------------------------------------
(* What is had, and the steps that change it.                              *)

\* Chunks that are taken: what is had agrees with what everything comes to, so that
\* what is still in the channel leads to all that was written.
LEMMA TakenAccounts ==
    ASSUME ProcessTypeOK, Accounted, NEW n \in 0..Len(chan), Taken(n), UNCHANGED <<kind, pipe, written>>
    PROVE  /\ chan' \in Seq(Chunk) /\ got' \in Output /\ cut' \in BOOLEAN
           /\ Accounted'
           /\ n = Len(chan) => chan' = <<>>
<1> DEFINE IsAfter(a) == a = [i \in 0..n |-> IF i = 0 THEN got ELSE Take(a[i - 1], chan[i])]
           after == CHOOSE a : IsAfter(a)
           short(i) == cut \/ \E j \in 1..i : after[j] # Kept(after[j - 1], chan[j])
<1>1. /\ chan \in Seq(Chunk) /\ got \in Output /\ cut \in BOOLEAN /\ Len(chan) \in Nat /\ n \in Nat
      /\ kind \in {"command", "query"}
  BY LenProperties DEF ProcessTypeOK, Output
<1>2. PICK f \in [0..Len(chan) -> Output] :
        /\ Gathered(f, chan) /\ Agrees(got, f[0], cut)
        /\ \A s \in Streams : f[Len(chan)][s] \o pipe[s] = written[s]
  BY DEF Accounted
<1>3. ASSUME NEW i \in 1..n
      PROVE  /\ chan[i] \in Chunk /\ i - 1 \in 0..n /\ i - 1 \in 0..Len(chan)
             /\ f[i] = Kept(f[i - 1], chan[i]) /\ f[i - 1] \in Output
  <2>1. i \in 1..Len(chan) /\ i - 1 \in 0..Len(chan)
    BY <1>1
  <2>2. chan[i] \in Chunk
    BY <1>1, <2>1, ElementOfSeq
  <2>3. f[i] = Kept(f[i - 1], chan[i])
    BY <1>2, <2>1 DEF Gathered
  <2> QED BY <1>1, <1>2, <2>1, <2>2, <2>3
<1>4. IsAfter(after)
  <2> DEFINE leap == [i \in 1..n |-> [h \in Output |-> IF Take(h, chan[i]) \in Output THEN Take(h, chan[i]) ELSE h]]
  <2>1. leap \in [1..n -> [Output -> Output]]
    OBVIOUS
  <2> HIDE DEF leap
  <2>2. PICK g \in [0..n -> Output] : Steps(got, leap, g, n)
    BY <1>1, <2>1, StepsExist
  <2>3. g[0] = got /\ \A i \in 1..n : g[i] = leap[i][g[i - 1]]
    BY <2>2 DEF Steps
  <2>4. ASSUME NEW i \in 1..n PROVE g[i] = Take(g[i - 1], chan[i])
    <3>1. g[i - 1] \in Output /\ chan[i] \in Chunk
      BY <1>3, <2>2
    <3>2. Take(g[i - 1], chan[i]) \in Output
      BY <1>1, <3>1, TakeTyped
    <3> QED BY <2>3, <3>1, <3>2 DEF leap
  <2>5. ASSUME NEW i \in 0..n PROVE g[i] = IF i = 0 THEN got ELSE Take(g[i - 1], chan[i])
    <3>1. CASE i = 0
      BY <2>3, <3>1
    <3>2. CASE i # 0
      <4>1. i \in 1..n
        BY <1>1, <3>2
      <4> QED BY <2>4, <3>2, <4>1
    <3> QED BY <3>1, <3>2
  <2>6. IsAfter(g)
    <3> DEFINE e == [i \in 0..n |-> IF i = 0 THEN got ELSE Take(g[i - 1], chan[i])]
    <3>1. g = e
      BY <2>5
    <3> QED BY <3>1
  <2> QED BY <2>6
<1>5. /\ got' = after[n] /\ cut' = (cut \/ \E i \in 1..n : after[i] # Kept(after[i - 1], chan[i]))
      /\ chan' = SubSeq(chan, n + 1, Len(chan))
  BY DEF Taken, after
<1>6. after[0] = got /\ \A i \in 1..n : after[i] = Take(after[i - 1], chan[i])
  <2>1. after = [i \in 0..n |-> IF i = 0 THEN got ELSE Take(after[i - 1], chan[i])]
    BY <1>4
  <2> HIDE DEF after
  <2>2. after[0] = got
    BY <1>1, <2>1
  <2>3. ASSUME NEW i \in 1..n PROVE after[i] = Take(after[i - 1], chan[i])
    <3>1. i \in 0..n /\ i # 0
      BY <1>1
    <3> QED BY <2>1, <3>1
  <2> QED BY <2>2, <2>3
<1> HIDE DEF after, IsAfter
<1> DEFINE Right(i) == after[i] \in Output /\ Agrees(after[i], f[i], short(i))
           T == {i \in 0..n : Right(i)}
<1>7. \A i \in 0..n : Right(i)
  <2>1. 0 \in T
    <3>1. short(0) = cut
      BY <1>1
    <3> QED BY <1>1, <1>2, <1>6, <3>1
  <2>2. ASSUME NEW i \in 1..n, i - 1 \in T PROVE i \in T
    <3>1. Right(i - 1) /\ i \in 0..n
      BY <1>1, <2>2
    <3>2. PICK b \in BOOLEAN, h \in Output, c \in Chunk, w \in Output :
            b = short(i - 1) /\ h = after[i - 1] /\ c = chan[i] /\ w = f[i - 1]
      BY <1>3, <3>1
    <3>3. Take(h, c) \in Output /\ Agrees(Take(h, c), Kept(w, c), b \/ Take(h, c) # Kept(h, c))
      <4>1. Agrees(h, w, b)
        BY <3>1, <3>2
      <4> QED BY <1>1, <4>1, TakeAgrees
    <3>4. after[i] = Take(h, c) /\ f[i] = Kept(w, c)
      BY <1>3, <1>6, <3>2
    <3>5. short(i) = (b \/ after[i] # Kept(h, c))
      <4>1. \A j : j \in 1..i <=> j \in 1..i - 1 \/ j = i
        BY <1>1
      <4> QED BY <3>2, <4>1
    <3>6. Right(i)
      BY <3>3, <3>4, <3>5
    <3> QED BY <3>1, <3>6
  <2>3. \A i \in 1..n : i - 1 \in T => i \in T
    BY <2>2
  <2> HIDE DEF T
  <2>4. \A i \in 0..n : i \in T
    BY <1>1, <2>1, <2>3, UpTo
  <2> QED BY <2>4 DEF T
<1>8. got' \in Output /\ cut' \in BOOLEAN /\ Agrees(got', f[n], cut')
  <2>1. n \in 0..n
    BY <1>1
  <2>2. cut' = short(n)
    BY <1>5
  <2> QED BY <1>5, <1>7, <2>1, <2>2
<1> HIDE DEF T, Right, short
<1> DEFINE m == Len(chan) - n
<1>9. /\ chan' \in Seq(Chunk) /\ m \in Nat /\ Len(chan') = m
      /\ \A i \in 1..m : chan'[i] = chan[n + i] /\ n + i \in 1..Len(chan)
  <2>1. \A i \in n + 1..Len(chan) : chan[i] \in Chunk
    <3> SUFFICES ASSUME NEW i \in n + 1..Len(chan) PROVE chan[i] \in Chunk
      OBVIOUS
    <3>1. i \in 1..Len(chan)
      BY <1>1
    <3> QED BY <1>1, <3>1, ElementOfSeq
  <2>2. n + 1 \in Int /\ Len(chan) \in Int
    BY <1>1
  <2>3. /\ chan' \in Seq(Chunk)
        /\ Len(chan') = IF n + 1 <= Len(chan) THEN Len(chan) - (n + 1) + 1 ELSE 0
        /\ \A i \in 1..Len(chan) - (n + 1) + 1 : chan'[i] = chan[n + 1 + i - 1]
    BY <1>5, <2>1, <2>2, SubSeqProperties
  <2>4. m \in Nat /\ Len(chan') = m
    BY <1>1, <2>3
  <2>5. ASSUME NEW i \in 1..m PROVE chan'[i] = chan[n + i] /\ n + i \in 1..Len(chan)
    <3>1. i \in 1..Len(chan) - (n + 1) + 1 /\ n + 1 + i - 1 = n + i /\ n + i \in 1..Len(chan)
      BY <1>1, <2>4
    <3> QED BY <2>3, <3>1
  <2> QED BY <2>3, <2>4, <2>5
<1> DEFINE g == [i \in 0..m |-> f[n + i]]
<1>10. /\ g \in [0..m -> Output] /\ g[0] = f[n] /\ g[m] = f[Len(chan)]
       /\ \A i \in 1..m : g[i] = f[n + i] /\ g[i - 1] = f[n + i - 1]
  <2>1. \A i \in 0..m : n + i \in 0..Len(chan)
    BY <1>1
  <2>2. n + 0 = n /\ n + m = Len(chan) /\ \A i \in 1..m : i - 1 \in 0..m /\ i \in 0..m /\ n + (i - 1) = n + i - 1
    BY <1>1
  <2>3. 0 \in 0..m /\ m \in 0..m
    BY <1>9
  <2> HIDE DEF m
  <2>4. g \in [0..m -> Output]
    BY <1>2, <2>1
  <2> QED BY <2>2, <2>3, <2>4
<1>11. Gathered(g, chan')
  <2> SUFFICES ASSUME NEW i \in 1..Len(chan') PROVE g[i] = Kept(g[i - 1], chan'[i])
    BY DEF Gathered
  <2>1. i \in 1..m /\ n + i \in 1..Len(chan) /\ chan'[i] = chan[n + i]
    BY <1>9
  <2>2. f[n + i] = Kept(f[n + i - 1], chan[n + i])
    BY <1>2, <2>1 DEF Gathered
  <2> HIDE DEF g, m
  <2> QED BY <1>10, <2>1, <2>2
<1> HIDE DEF g, m
<1>12. \A s \in Streams : g[Len(chan')][s] \o pipe'[s] = written'[s]
  BY <1>2, <1>9, <1>10
<1>13. Accounted'
  BY <1>8, <1>9, <1>10, <1>11, <1>12 DEF Accounted, Agrees
<1>14. n = Len(chan) => chan' = <<>>
  BY <1>1, <1>9, EmptySeq DEF m
<1> QED BY <1>8, <1>9, <1>13, <1>14

\* A reader moves what is in its pipe to the channel.
LEMMA ReadAccounts ==
    ASSUME ProcessTypeOK, Accounted, NEW s \in Streams, Read(s)
    PROVE  Accounted' /\ chan' \in Seq(Chunk) /\ pipe' \in [Streams -> Seq(Nat)]
<1> DEFINE n == Len(chan)
<1>1. /\ chan \in Seq(Chunk) /\ n \in Nat /\ pipe \in [Streams -> Seq(Nat)] /\ pipe[s] \in Seq(Nat)
  BY LenProperties DEF ProcessTypeOK
<1>2. PICK c \in Chunk : c = [stream |-> s, bytes |-> pipe[s]]
  BY <1>1 DEF Chunk
<1>3. /\ chan' = Append(chan, c) /\ chan' \in Seq(Chunk) /\ Len(chan') = n + 1 /\ chan'[n + 1] = c
      /\ \A i \in 1..n : chan'[i] = chan[i]
  <2>1. chan' = Append(chan, c)
    BY <1>2 DEF Read
  <2> QED BY <1>1, <2>1, AppendProperties
<1>4. PICK f \in [0..n -> Output] :
        /\ Gathered(f, chan) /\ Agrees(got, f[0], cut)
        /\ \A t \in Streams : f[n][t] \o pipe[t] = written[t]
  BY DEF Accounted
<1>5. PICK h \in Output : h = f[n]
  <2>1. n \in 0..n
    BY <1>1
  <2> QED BY <1>4, <2>1
<1>6. Kept(h, c) \in Output /\ Kept(h, c)[s] = h[s] \o pipe[s] /\ \A t \in Streams : t # s => Kept(h, c)[t] = h[t]
  <2>1. /\ Kept(h, c) \in Output /\ Kept(h, c)[c.stream] = h[c.stream] \o c.bytes
        /\ \A t \in Streams : t # c.stream => Kept(h, c)[t] = h[t]
    BY KeptIs
  <2> QED BY <1>2, <2>1
<1> DEFINE g == [i \in 0..n + 1 |-> IF i = n + 1 THEN Kept(h, c) ELSE f[i]]
<1>7. g \in [0..n + 1 -> Output] /\ g[n + 1] = Kept(h, c) /\ \A i \in 0..n : g[i] = f[i]
  BY <1>1, <1>4, <1>6
<1> HIDE DEF g, n
<1>8. Gathered(g, chan')
  <2> SUFFICES ASSUME NEW i \in 1..n + 1 PROVE g[i] = Kept(g[i - 1], chan'[i])
    BY <1>3 DEF Gathered
  <2>1. CASE i = n + 1
    <3>1. g[i] = Kept(h, c) /\ chan'[i] = c
      BY <1>3, <1>7, <2>1
    <3>2. i - 1 = n /\ n \in 0..n
      BY <1>1, <2>1
    <3> QED BY <1>5, <1>7, <3>1, <3>2
  <2>2. CASE i # n + 1
    <3>1. i \in 1..n /\ i \in 0..n /\ i - 1 \in 0..n
      BY <1>1, <2>2
    <3>2. f[i] = Kept(f[i - 1], chan[i])
      BY <1>4, <3>1 DEF Gathered, n
    <3> QED BY <1>3, <1>7, <3>1, <3>2
  <2> QED BY <2>1, <2>2
<1>9. pipe' = [pipe EXCEPT ![s] = <<>>] /\ UNCHANGED <<kind, got, cut, written>>
  BY DEF Read, toolVars, outerVars
<1>10. ASSUME NEW t \in Streams PROVE g[n + 1][t] \o pipe'[t] = written'[t]
  <2>0. h[t] \in Seq(Nat) /\ pipe[t] \in Seq(Nat) /\ h[t] \o pipe[t] = written[t]
    BY <1>1, <1>4, <1>5 DEF Output
  <2>1. CASE t = s
    <3>1. pipe'[t] = <<>> /\ h[t] \o pipe[t] \in Seq(Nat)
      BY <1>1, <1>9, <2>0, <2>1, ConcatProperties
    <3>2. (h[t] \o pipe[t]) \o <<>> = h[t] \o pipe[t]
      BY <3>1, ConcatEmptySeq
    <3> QED BY <1>6, <1>7, <1>9, <2>0, <2>1, <3>1, <3>2
  <2>2. CASE t # s
    BY <1>1, <1>6, <1>7, <1>9, <2>0, <2>2
  <2> QED BY <2>1, <2>2
<1>11. Agrees(got', g[0], cut')
  BY <1>1, <1>4, <1>7, <1>9
<1>12. pipe' \in [Streams -> Seq(Nat)]
  BY <1>1, <1>9
<1>13. Len(chan') \in Nat /\ g \in [0..Len(chan') -> Output]
  BY <1>1, <1>3, <1>7
<1>14. Accounted'
  <2>1. \A t \in Streams : g[Len(chan')][t] \o pipe'[t] = written'[t]
    BY <1>3, <1>10
  <2> QED BY <1>8, <1>9, <1>11, <1>13, <2>1 DEF Accounted, Agrees
<1> QED BY <1>3, <1>12, <1>14

\* What is known of the output so far and the pipe, with one byte more.
LEMMA OneMoreByte ==
    ASSUME NEW k \in Seq(Nat), NEW p \in Seq(Nat), NEW b \in Seq(Nat)
    PROVE  k \o (p \o b) = (k \o p) \o b
  BY ConcatAssociative

\* What is written is in the pipe.
LEMMA WriteAccounts ==
    ASSUME ProcessTypeOK, Accounted, NEW s \in Streams, Write(s)
    PROVE  /\ Accounted' /\ pipe' \in [Streams -> Seq(Nat)] /\ written' \in [Streams -> Seq(Nat)]
           /\ \A t \in Streams : Len(pipe'[t]) <= PipeSize
           /\ Total(written') <= Bytes[kind']
<1>1. /\ chan \in Seq(Chunk) /\ Len(chan) \in Nat /\ pipe \in [Streams -> Seq(Nat)]
      /\ written \in Output /\ kind \in {"command", "query"} /\ \A t \in Streams : Len(pipe[t]) <= PipeSize
  BY LenProperties DEF ProcessTypeOK, Output
<1>2. PICK a \in Seq(Nat), b \in Seq(Nat) : written["stdout"] = a /\ written["stderr"] = b
  BY <1>1 DEF Output, Streams
<1>3. PICK x \in Nat : x = Total(written) + 1
  BY <1>1, <1>2, TotalIs
<1>4. PICK p \in Seq(Nat), w \in Seq(Nat) : p = pipe[s] /\ w = written[s]
  BY <1>1 DEF Output
<1>5. /\ Append(p, x) \in Seq(Nat) /\ Append(w, x) \in Seq(Nat)
      /\ Len(Append(p, x)) = Len(p) + 1 /\ Len(Append(w, x)) = Len(w) + 1
      /\ Len(p) \in Nat /\ Len(w) \in Nat
      /\ Append(p, x) = p \o <<x>> /\ Append(w, x) = w \o <<x>> /\ <<x>> \in Seq(Nat)
  <2>1. /\ Append(p, x) \in Seq(Nat) /\ Append(w, x) \in Seq(Nat)
        /\ Len(Append(p, x)) = Len(p) + 1 /\ Len(Append(w, x)) = Len(w) + 1
    BY AppendProperties
  <2>2. Len(p) \in Nat /\ Len(w) \in Nat /\ <<x>> \in Seq(Nat)
    BY LenProperties
  <2>3. Append(p, x) = p \o <<x>> /\ Append(w, x) = w \o <<x>>
    BY AppendIsConcat
  <2> QED BY <2>1, <2>2, <2>3
<1>6. /\ pipe' = [pipe EXCEPT ![s] = Append(p, x)] /\ written' = [written EXCEPT ![s] = Append(w, x)]
      /\ UNCHANGED <<kind, chan, got, cut>> /\ Total(written) < Bytes[kind] /\ Len(p) < PipeSize
  BY <1>3, <1>4 DEF Write, toolVars
<1>7. pipe' \in [Streams -> Seq(Nat)] /\ written' \in Output
  BY <1>1, <1>5, <1>6 DEF Output
<1>8. ASSUME NEW t \in Streams PROVE Len(pipe'[t]) <= PipeSize
  <2>1. PipeSize \in Nat
    BY ProcessAssumption
  <2>2. CASE t = s
    <3>1. pipe'[t] = Append(p, x)
      BY <1>1, <1>6, <2>2
    <3> QED BY <1>5, <1>6, <2>1, <3>1
  <2>3. CASE t # s
    <3>1. pipe'[t] = pipe[t]
      BY <1>1, <1>6, <2>3
    <3> QED BY <1>1, <3>1
  <2> QED BY <2>2, <2>3
<1>9. PICK f \in [0..Len(chan) -> Output] :
        /\ Gathered(f, chan) /\ Agrees(got, f[0], cut)
        /\ \A t \in Streams : f[Len(chan)][t] \o pipe[t] = written[t]
  BY DEF Accounted
<1>10. PICK h \in Output : h = f[Len(chan)]
  <2>1. Len(chan) \in 0..Len(chan)
    BY <1>1
  <2> QED BY <1>9, <2>1
<1>11. ASSUME NEW t \in Streams PROVE h[t] \o pipe'[t] = written'[t]
  <2>1. h[t] \in Seq(Nat) /\ h[t] \o pipe[t] = written[t]
    BY <1>9, <1>10 DEF Output
  <2>2. CASE t = s
    <3>1. pipe'[t] = p \o <<x>> /\ written'[t] = w \o <<x>>
      BY <1>1, <1>5, <1>6, <2>2 DEF Output
    <3>2. PICK k \in Seq(Nat) : k = h[t]
      BY <2>1
    <3>3. k \o (p \o <<x>>) = (k \o p) \o <<x>>
      <4>1. PICK last \in Seq(Nat) : last = <<x>>
        BY <1>5
      <4>2. k \o (p \o last) = (k \o p) \o last
        BY OneMoreByte, ZenonT(40)
      <4> QED BY <4>1, <4>2
    <3>4. k \o p = w
      BY <1>4, <2>1, <2>2, <3>2
    <3> QED BY <3>1, <3>2, <3>3, <3>4
  <2>3. CASE t # s
    BY <1>1, <1>6, <2>1, <2>3 DEF Output
  <2> QED BY <2>2, <2>3
<1>12. Accounted'
  BY <1>6, <1>9, <1>10, <1>11 DEF Accounted, Agrees
<1>13. Total(written') <= Bytes[kind']
  <2>1. Len(a) \in Nat /\ Len(b) \in Nat /\ Total(written) = Len(a) + Len(b)
    BY <1>1, <1>2, LenProperties, TotalIs
  <2>2. Total(written') = Total(written) + 1
    <3>1. CASE s = "stdout"
      <4>1. written'["stdout"] = Append(w, x) /\ written'["stderr"] = b /\ w = a
        BY <1>1, <1>2, <1>4, <1>6, <3>1 DEF Output, Streams
      <4>2. Total(written') = Len(Append(w, x)) + Len(b)
        BY <1>5, <1>7, <4>1, TotalIs
      <4> QED BY <1>5, <2>1, <4>1, <4>2
    <3>2. CASE s = "stderr"
      <4>1. written'["stderr"] = Append(w, x) /\ written'["stdout"] = a /\ w = b
        BY <1>1, <1>2, <1>4, <1>6, <3>2 DEF Output, Streams
      <4>2. Total(written') = Len(a) + Len(Append(w, x))
        BY <1>5, <1>7, <4>1, TotalIs
      <4> QED BY <1>5, <2>1, <4>1, <4>2
    <3> QED BY <3>1, <3>2 DEF Streams
  <2>3. PICK y \in Nat : y = Bytes[kind]
    BY <1>1, ProcessAssumption
  <2>4. kind' = kind
    BY <1>6
  <2> QED BY <1>6, <2>1, <2>2, <2>3, <2>4
<1> QED BY <1>7, <1>8, <1>12, <1>13 DEF Output

-----------------------------------------------------------------------------
(* The steps, and the theorem.                                             *)

LEMMA AccountedKept ==
    ASSUME Accounted, UNCHANGED <<kind, chan, got, cut, pipe, written>> PROVE Accounted'
BY DEF Accounted, Agrees

LEMMA ProcessStart == ProcessInit => ProcessInv
<1> SUFFICES ASSUME ProcessInit PROVE ProcessInv
  OBVIOUS
<1> DEFINE e == [s \in Streams |-> <<>>]
<1>1. <<>> \in Seq(Nat) /\ <<>> \in Seq(Chunk) /\ Len(<<>>) = 0
  BY EmptySeq
<1>2. e \in Output
  BY <1>1 DEF Output
<1>3. e["stdout"] = <<>> /\ e["stderr"] = <<>>
  BY DEF Streams
<1>4. Total(e) = 0
  <2> HIDE DEF e
  <2>1. Total(e) = Len(<<>>) + Len(<<>>)
    BY <1>1, <1>2, <1>3, TotalIs
  <2> QED BY <1>1, <2>1
<1>5. got = e /\ pipe = e /\ written = e /\ chan = <<>>
  BY DEF ProcessInit
<1>6. kind \in {"command", "query"} /\ PipeSize \in Nat /\ MaxBytes \in Nat /\ Bytes[kind] \in Nat
  BY ProcessAssumption DEF ProcessInit
<1>7. ProcessTypeOK
  <2>1. \A s \in Streams : Len(pipe[s]) <= PipeSize
    BY <1>1, <1>5, <1>6
  <2>2. Total(written) <= Bytes[kind]
    BY <1>4, <1>5, <1>6
  <2> HIDE DEF e
  <2> QED BY <1>1, <1>2, <1>5, <2>1, <2>2 DEF ProcessInit, ProcessTypeOK, Output
<1>8. Placed
  BY DEF ProcessInit, Placed, Over
<1>9. Accounted
  <2> DEFINE f == [i \in 0..0 |-> e]
  <2>1. f \in [0..0 -> Output] /\ f[0] = e
    BY <1>2
  <2>2. Gathered(f, chan)
    BY <1>1, <1>5 DEF Gathered
  <2>3. Agrees(got, f[0], cut)
    BY <1>4, <1>5, <1>6, <2>1 DEF Agrees, ProcessInit
  <2>4. \A s \in Streams : f[0][s] \o pipe[s] = written[s]
    <3>1. <<>> \o <<>> = <<>>
      BY <1>1, ConcatEmptySeq
    <3> QED BY <1>5, <2>1, <3>1
  <2> HIDE DEF f, e
  <2> QED BY <1>1, <1>5, <2>1, <2>2, <2>3, <2>4 DEF Accounted
<1> QED BY <1>7, <1>8, <1>9 DEF ProcessInv

\* The steps of the tool's thread that take nothing from the channel.
LEMMA ThreadKeeps ==
    ASSUME ProcessInv, Start \/ Look \/ Ask \/ QueryLook \/ CloseJob \/ Join
    PROVE  ProcessInv'
<1>1. ProcessTypeOK /\ Placed /\ Accounted
  BY DEF ProcessInv
<1>2. UNCHANGED <<kind, tree, pipe, chan, got, cut, written, cancelled, overtime>>
  BY DEF Start, Look, Ask, QueryLook, CloseJob, Join, outerVars
<1>3. Accounted'
  BY <1>1, <1>2, AccountedKept
<1>4. CASE Start
  <2>1. ProcessTypeOK'
    BY <1>1, <1>2, <1>4 DEF Start, ProcessTypeOK, Placed
  <2>2. Placed'
    BY <1>1, <1>2, <1>4 DEF Start, ProcessTypeOK, Placed, Over, Closed
  <2> QED BY <1>3, <2>1, <2>2 DEF ProcessInv
<1>5. CASE Look
  <2>1. ProcessTypeOK'
    BY <1>1, <1>2, <1>5 DEF Look, Kill, Ends, ProcessTypeOK
  <2>2. Placed'
    BY <1>1, <1>2, <1>5 DEF Look, Kill, Ends, ProcessTypeOK, Placed, Over, Closed
  <2> QED BY <1>3, <2>1, <2>2 DEF ProcessInv
<1>6. CASE Ask
  <2>1. ProcessTypeOK'
    BY <1>1, <1>2, <1>6 DEF Ask, Kill, Ends, ProcessTypeOK
  <2>2. Placed'
    BY <1>1, <1>2, <1>6 DEF Ask, Kill, Ends, ProcessTypeOK, Placed, Over, Closed
  <2> QED BY <1>3, <2>1, <2>2 DEF ProcessInv
<1>7. CASE QueryLook
  <2>1. ProcessTypeOK'
    BY <1>1, <1>2, <1>7 DEF QueryLook, Ends, ProcessTypeOK
  <2>2. Placed'
    BY <1>1, <1>2, <1>7 DEF QueryLook, Ends, ProcessTypeOK, Placed, Over, Closed
  <2> QED BY <1>3, <2>1, <2>2 DEF ProcessInv
<1>8. CASE CloseJob \/ Join
  <2>1. ProcessTypeOK'
    BY <1>1, <1>2, <1>8 DEF CloseJob, Join, ProcessTypeOK
  <2>2. Placed'
    BY <1>1, <1>2, <1>8 DEF CloseJob, Join, ProcessTypeOK, Placed, Over, Closed
  <2> QED BY <1>3, <2>1, <2>2 DEF ProcessInv
<1> QED BY <1>4, <1>5, <1>6, <1>7, <1>8

\* The steps that take chunks.
LEMMA TakesKeep ==
    ASSUME ProcessInv, TakeSome \/ TakeLast PROVE ProcessInv'
<1>1. ProcessTypeOK /\ Placed /\ Accounted
  BY DEF ProcessInv
<1>2. UNCHANGED <<kind, tree, pipe, written, cancelled, overtime, main, rest, reader>>
  BY DEF TakeSome, TakeLast, outerVars
<1>3. Len(chan) \in Nat
  BY <1>1, LenProperties DEF ProcessTypeOK
<1>4. CASE TakeSome
  <2>1. PICK n \in 0..Len(chan) : Taken(n)
    <3>1. Tick \in Nat
      BY ProcessAssumption
    <3>2. (IF kind = "command" /\ Len(chan) > Tick THEN Tick ELSE Len(chan)) \in 0..Len(chan)
      BY <1>3, <3>1
    <3> QED BY <1>4, <3>2 DEF TakeSome
  <2>2. /\ Accounted' /\ chan' \in Seq(Chunk) /\ got' \in Output /\ cut' \in BOOLEAN
    BY <1>1, <1>2, <2>1, TakenAccounts
  <2>3. ProcessTypeOK'
    BY <1>1, <1>2, <1>4, <2>2 DEF TakeSome, ProcessTypeOK, Output
  <2>4. Placed'
    BY <1>1, <1>2, <1>4 DEF TakeSome, Placed, Over, Closed
  <2> QED BY <2>2, <2>3, <2>4 DEF ProcessInv
<1>5. CASE TakeLast
  <2>1. Len(chan) \in 0..Len(chan) /\ Taken(Len(chan))
    BY <1>3, <1>5 DEF TakeLast
  <2>2. /\ Accounted' /\ chan' \in Seq(Chunk) /\ got' \in Output /\ cut' \in BOOLEAN
        /\ chan' = <<>>
    BY <1>1, <1>2, <2>1, TakenAccounts
  <2>3. ProcessTypeOK'
    BY <1>1, <1>2, <1>5, <2>2 DEF TakeLast, ProcessTypeOK, Output
  <2>4. Placed'
    BY <1>1, <1>2, <1>5, <2>2 DEF TakeLast, Placed, Over, Closed, ProcessTypeOK
  <2> QED BY <2>2, <2>3, <2>4 DEF ProcessInv
<1> QED BY <1>4, <1>5

\* The readers and what the command does.
LEMMA OutsideKeeps ==
    ASSUME ProcessInv,
           NEW s \in Streams,
           Read(s) \/ ReadEnd(s) \/ ReadFails(s) \/ Write(s) \/ Fork \/ Detach \/ Exit \/ Cancel \/ TimeIsOver
    PROVE  ProcessInv'
<1>1. ProcessTypeOK /\ Placed /\ Accounted
  BY DEF ProcessInv
<1>2. UNCHANGED <<step, got, cut, ending, kind, tree>>
  BY DEF Read, ReadEnd, ReadFails, Write, Fork, Detach, Exit, Cancel, TimeIsOver, toolVars, outerVars
<1>3. CASE Read(s)
  <2>1. Accounted' /\ chan' \in Seq(Chunk) /\ pipe' \in [Streams -> Seq(Nat)]
    BY <1>1, <1>3, ReadAccounts
  <2>2. \A t \in Streams : Len(pipe'[t]) <= PipeSize
    <3>1. \A t \in Streams : pipe'[t] = pipe[t] \/ pipe'[t] = <<>>
      BY <1>1, <1>3 DEF Read, ProcessTypeOK
    <3>2. \A t \in Streams : Len(pipe[t]) <= PipeSize
      BY <1>1 DEF ProcessTypeOK
    <3>3. Len(<<>>) <= PipeSize
      BY ProcessAssumption, EmptySeq
    <3> QED BY <3>1, <3>2, <3>3
  <2>3. ProcessTypeOK'
    BY <1>1, <1>2, <1>3, <2>1, <2>2 DEF Read, ProcessTypeOK, outerVars
  <2>4. Placed'
    BY <1>1, <1>2, <1>3 DEF Read, ProcessTypeOK, Placed, Over, Closed, outerVars
  <2> QED BY <2>1, <2>3, <2>4 DEF ProcessInv
<1>4. CASE Write(s)
  <2>1. /\ Accounted' /\ pipe' \in [Streams -> Seq(Nat)] /\ written' \in [Streams -> Seq(Nat)]
        /\ \A t \in Streams : Len(pipe'[t]) <= PipeSize
        /\ Total(written') <= Bytes[kind']
    BY <1>1, <1>4, WriteAccounts
  <2>2. UNCHANGED <<cancelled, overtime, main, rest, reader, chan>> /\ reader[s] = "reading"
    BY <1>4 DEF Write
  <2>3. ProcessTypeOK'
    BY <1>1, <1>2, <2>1, <2>2 DEF ProcessTypeOK
  <2>4. \A t \in Streams : t # s => pipe'[t] = pipe[t]
    BY <1>1, <1>4 DEF Write, ProcessTypeOK
  <2>5. Placed'
    BY <1>1, <1>2, <2>2, <2>4 DEF Placed, Over, Closed
  <2> QED BY <2>1, <2>3, <2>5 DEF ProcessInv
<1>5. CASE ReadEnd(s) \/ ReadFails(s)
  <2>1. Accounted'
    BY <1>1, <1>2, <1>5, AccountedKept DEF ReadEnd, ReadFails, outerVars
  <2>2. ProcessTypeOK'
    <3>1. UNCHANGED <<main, rest, pipe, chan, written, cancelled, overtime>>
      BY <1>5 DEF ReadEnd, ReadFails, outerVars
    <3>2. reader' \in [Streams -> {"none", "reading", "ended", "failed"}]
      BY <1>1, <1>5 DEF ReadEnd, ReadFails, ProcessTypeOK
    <3> QED BY <1>1, <1>2, <3>1, <3>2 DEF ProcessTypeOK
  <2>3. Placed'
    BY <1>1, <1>2, <1>5 DEF ReadEnd, ReadFails, ProcessTypeOK, Placed, Over, Closed, Holds, outerVars
  <2> QED BY <2>1, <2>2, <2>3 DEF ProcessInv
<1>6. CASE Fork \/ Detach \/ Exit
  <2>1. UNCHANGED <<pipe, written, cancelled, overtime, reader, chan>>
    BY <1>6 DEF Fork, Detach, Exit, outerVars
  <2>2. Accounted'
    BY <1>1, <1>2, <2>1, AccountedKept
  <2>3. ProcessTypeOK'
    BY <1>1, <1>2, <1>6, <2>1 DEF Fork, Detach, Exit, ProcessTypeOK
  <2>4. Placed'
    BY <1>1, <1>2, <1>6, <2>1 DEF Fork, Detach, Exit, ProcessTypeOK, Placed, Over, Closed
  <2> QED BY <2>2, <2>3, <2>4 DEF ProcessInv
<1>7. CASE Cancel \/ TimeIsOver
  <2>1. UNCHANGED <<pipe, written, main, rest, reader, chan>>
    BY <1>7 DEF Cancel, TimeIsOver
  <2>2. Accounted'
    BY <1>1, <1>2, <2>1, AccountedKept
  <2>3. ProcessTypeOK'
    <3>1. cancelled' \in BOOLEAN /\ overtime' \in BOOLEAN
      BY <1>1, <1>7 DEF Cancel, TimeIsOver, ProcessTypeOK
    <3> QED BY <1>1, <1>2, <2>1, <3>1 DEF ProcessTypeOK
  <2>4. Placed'
    BY <1>1, <1>2, <2>1 DEF Placed, Over, Closed
  <2> QED BY <2>2, <2>3, <2>4 DEF ProcessInv
<1> QED BY <1>3, <1>4, <1>5, <1>6, <1>7

LEMMA ProcessStep == ProcessInv /\ [ProcessNext]_tpVars => ProcessInv'
<1> SUFFICES ASSUME ProcessInv, [ProcessNext]_tpVars PROVE ProcessInv'
  OBVIOUS
<1>1. CASE Start \/ ToolSteps
  BY <1>1, ThreadKeeps, TakesKeep DEF ToolSteps
<1>2. CASE \E s \in Streams : Read(s) \/ ReadEnd(s) \/ ReadFails(s) \/ Write(s)
  BY <1>2, OutsideKeeps
<1>3. CASE Fork \/ Detach \/ Exit \/ Cancel \/ TimeIsOver
  <2>1. "stdout" \in Streams
    BY DEF Streams
  <2> QED BY <1>3, <2>1, OutsideKeeps
<1>4. CASE UNCHANGED tpVars
  <2>1. ProcessTypeOK /\ Placed /\ Accounted
    BY DEF ProcessInv
  <2>2. Accounted'
    BY <1>4, <2>1, AccountedKept DEF tpVars
  <2>3. ProcessTypeOK'
    BY <1>4, <2>1 DEF ProcessTypeOK, tpVars
  <2>4. Placed'
    BY <1>4, <2>1 DEF Placed, Over, Closed, tpVars
  <2> QED BY <2>2, <2>3, <2>4 DEF ProcessInv
<1> QED BY <1>1, <1>2, <1>3, <1>4 DEF ProcessNext

LEMMA ProcessInvSound == ProcessInv => ProcessSound
<1> SUFFICES ASSUME ProcessInv PROVE ProcessSound
  OBVIOUS
<1>1. ProcessTypeOK /\ Placed /\ Accounted
  BY DEF ProcessInv
<1>2. ASSUME Over, ending # "not_started", \A s \in Streams : reader[s] # "failed"
      PROVE  Agrees(got, written, cut)
  <2>1. chan = <<>> /\ \A s \in Streams : pipe[s] = <<>>
    BY <1>1, <1>2 DEF Placed, Closed
  <2>2. PICK h \in Output : Agrees(got, h, cut) /\ \A s \in Streams : h[s] \o <<>> = written[s]
    <3>1. PICK f \in [0..Len(chan) -> Output] :
            /\ Agrees(got, f[0], cut)
            /\ \A s \in Streams : f[Len(chan)][s] \o pipe[s] = written[s]
      BY <1>1 DEF Accounted
    <3>2. Len(chan) = 0
      BY <2>1, EmptySeq
    <3>3. f[0] \in Output
      BY <3>1, <3>2
    <3> QED BY <2>1, <3>1, <3>2, <3>3
  <2>3. ASSUME NEW s \in Streams PROVE h[s] = written[s]
    <3>1. h[s] \in Seq(Nat)
      BY DEF Output
    <3>2. h[s] \o <<>> = h[s]
      BY <3>1, ConcatEmptySeq
    <3> QED BY <2>2, <3>2
  <2>4. h = written
    BY <1>1, <2>3 DEF Output, ProcessTypeOK
  <2> QED BY <2>2, <2>4
<1>3. OutputWhole
  <2> SUFFICES ASSUME step = "returned", ending \notin {"not_started", "wait_failed"},
                      \A s \in Streams : reader[s] # "failed"
               PROVE  \/ kind = "command" /\ got = written
                      \/ kind = "query" /\ \A s \in Streams : IsPrefix(got[s], written[s])
                                        /\ Total(got) <= MaxBytes
                                        /\ cut <=> got # written
    BY DEF OutputWhole
  <2>1. Agrees(got, written, cut) /\ kind \in {"command", "query"} /\ cut \in BOOLEAN
    BY <1>1, <1>2 DEF Over, ProcessTypeOK
  <2>2. CASE kind = "command"
    BY <2>1, <2>2 DEF Agrees
  <2>3. CASE kind = "query" /\ ~cut
    <3>1. got = written /\ Total(got) <= MaxBytes
      BY <2>1, <2>3 DEF Agrees
    <3>2. ASSUME NEW s \in Streams PROVE IsPrefix(got[s], written[s])
      <4>1. got[s] \in Seq(Nat)
        BY <1>1 DEF ProcessTypeOK
      <4> QED BY <3>1, <4>1, LenProperties DEF IsPrefix
    <3> QED BY <2>3, <3>1, <3>2
  <2>4. CASE kind = "query" /\ cut
    <3>1. /\ Total(got) = MaxBytes /\ MaxBytes < Total(written)
          /\ \A s \in Streams : IsPrefix(got[s], written[s])
      BY <2>1, <2>4 DEF Agrees
    <3>2. MaxBytes \in Nat
      BY ProcessAssumption
    <3>3. got # written /\ Total(got) <= MaxBytes
      BY <3>1, <3>2
    <3> QED BY <2>4, <3>1, <3>3
  <2> QED BY <2>1, <2>2, <2>3, <2>4
<1>4. NothingRuns
  BY <1>1 DEF NothingRuns, Placed, Over, Closed, ProcessTypeOK
<1> QED BY <1>1, <1>3, <1>4 DEF ProcessSound

\* What a tool returns of the output is what was written, whole or cut where it
\* says so, and nothing of the command runs that still could write, with a job
\* nothing at all: for pipes and limits of any size and any number of chunks
\* (tools/run_command.rs, tools/git.rs).
THEOREM ProcessAlways == ProcessSpec => []ProcessSound
BY ProcessStart, ProcessStep, ProcessInvSound, PTL DEF ProcessSpec
=============================================================================
