--------------------------- MODULE RpcServerProofs ---------------------------
(***************************************************************************)
(* Theorems about RpcServer for every set of requests and every capacity   *)
(* its assumption allows: the blocking sends of the process fit, and a     *)
(* closed input ends the connection only after every terminal is written.  *)
(***************************************************************************)
EXTENDS RpcServer, Functions, SequenceTheorems, FiniteSetTheorems, TLAPS

-----------------------------------------------------------------------------
(* A queue as the set of what waits in it.                                 *)

\* The empty queue holds nothing, and only the empty queue does.
LEMMA RangeEmpty ==
    ASSUME NEW S, NEW q \in Seq(S)
    PROVE  /\ Range(q) \subseteq S
           /\ Range(q) = {} <=> q = <<>>
  BY DEF Range

\* The empty queue holds nothing.
LEMMA EmptyQueue == Range(<<>>) = {} /\ IsInjective(<<>>)
  BY DEF Range, IsInjective

\* Appending adds one element.
LEMMA RangeAppend ==
    ASSUME NEW S, NEW q \in Seq(S), NEW e \in S
    PROVE  Range(Append(q, e)) = Range(q) \cup {e}
<1> DEFINE r == Append(q, e)
<1>1. /\ DOMAIN r = 1 .. Len(q) + 1
      /\ \A i \in 1 .. Len(q) : r[i] = q[i]
      /\ r[Len(q) + 1] = e
      /\ DOMAIN q = 1 .. Len(q)
  BY AppendProperties
<1>2. Range(r) \subseteq Range(q) \cup {e}
  BY <1>1, LenProperties DEF Range
<1>3. Range(q) \subseteq Range(r)
  <2> SUFFICES ASSUME NEW i \in 1 .. Len(q) PROVE q[i] \in Range(r)
    BY <1>1 DEF Range
  <2> QED BY <1>1, LenProperties, i \in DOMAIN r DEF Range
<1>4. e \in Range(r)
  BY <1>1, LenProperties DEF Range
<1> QED BY <1>2, <1>3, <1>4

-----------------------------------------------------------------------------
(* The inductive invariant.                                                *)

\* No member of S occurs twice in q.
Distinct(q, S) == \A i, j \in 1..Len(q) : q[i] = q[j] /\ q[i] \in S => i = j

\* The requests of queue q, each there once, all stand at this status.
Lists(q, t, status) ==
    /\ Distinct(q, Request)
    /\ \A r \in Range(q) : r \in Request => t[r] = status

\* A request's status says which queue it is in.
Queues ==
    /\ Lists(input, thread, "written")
    /\ Lists(chan, thread, "submitted")
    /\ Lists(responses, thread, "handed")

\* The counter counts the requests between their frame and their response.
Counted == inFlight = Cardinality(InFlight)

\* The end of the input is taken below the bound, and no frame after it.
CloseSeen ==
    /\ server = "input" => ~inputClosed
    /\ server \in {"closing", "drain"} => inputClosed
    /\ inputClosed => inFlight < MaxInFlight

\* Before the loop sends its shutdown the channel holds requests only.
NotAsked == server \in {"responses", "events", "input", "closing"} => Detached \notin Range(chan)

\* Where the terminal of an accepted command is.
Account ==
    /\ Range(events) \subseteq accepted
    /\ connected <=> ~LoopReturned
    /\ connected => accepted = owed \cup Range(events) \cup told
    /\ connected /\ worker = "gone" => owed = {}
    /\ emitting # None => worker # "gone"
    /\ server # "done" => ended = "no"

RpcInv == TypeOK /\ Queues /\ Counted /\ CloseSeen /\ NotAsked /\ Account /\ EofTellsAll

Statuses == {"unsent", "written", "running", "submitted", "finished",
             "handed", "dropped", "answered"}
Flying   == {"running", "submitted", "finished", "handed"}

-----------------------------------------------------------------------------
(* Queues of requests.                                                     *)

\* A status change of requests outside the queue leaves it in order.
LEMMA ListsSame ==
    ASSUME NEW q, NEW t, NEW u, NEW status, Lists(q, t, status),
           \A r \in Request : t[r] = status => u[r] = status
    PROVE  Lists(q, u, status)
  BY DEF Lists

\* A request enters at the tail.
LEMMA ListsAppend ==
    ASSUME NEW S, NEW q \in Seq(S), NEW t \in [Request -> Statuses], NEW status,
           Lists(q, t, status), NEW r \in S \cap Request, t[r] # status
    PROVE  Lists(Append(q, r), [t EXCEPT ![r] = status], status)
<1> DEFINE a == Append(q, r)
           u == [t EXCEPT ![r] = status]
<1>1. r \notin Range(q)
  BY DEF Lists
<1>2. Range(a) = Range(q) \cup {r}
  BY RangeAppend
<1>3. /\ Len(q) \in Nat /\ Len(a) = Len(q) + 1
      /\ \A i \in 1..Len(q) : a[i] = q[i] /\ q[i] \in Range(q)
      /\ a[Len(q) + 1] = r
  BY AppendProperties, LenProperties DEF Range
<1>4. Distinct(a, Request)
  <2> SUFFICES ASSUME NEW i \in 1..Len(a), NEW j \in 1..Len(a), a[i] = a[j], a[i] \in Request
               PROVE  i = j
    BY DEF Distinct
  <2>1. (i \in 1..Len(q) \/ i = Len(q) + 1) /\ (j \in 1..Len(q) \/ j = Len(q) + 1)
    BY <1>3
  <2>2. CASE i \in 1..Len(q) /\ j \in 1..Len(q)
    BY <2>2, <1>3 DEF Lists, Distinct
  <2> QED BY <2>1, <2>2, <1>1, <1>3
<1>5. \A x \in Range(a) : x \in Request => u[x] = status
  BY <1>2 DEF Lists
<1> QED BY <1>4, <1>5 DEF Lists

\* So does something that is no request.
LEMMA ListsAppendOther ==
    ASSUME NEW S, NEW q \in Seq(S), NEW t, NEW status, Lists(q, t, status),
           NEW e \in S, e \notin Request
    PROVE  Lists(Append(q, e), t, status)
<1> DEFINE a == Append(q, e)
<1>1. Range(a) = Range(q) \cup {e}
  BY RangeAppend
<1>2. /\ Len(q) \in Nat /\ Len(a) = Len(q) + 1
      /\ \A i \in 1..Len(q) : a[i] = q[i]
      /\ a[Len(q) + 1] = e
  BY AppendProperties, LenProperties
<1>3. Distinct(a, Request)
  <2> SUFFICES ASSUME NEW i \in 1..Len(a), NEW j \in 1..Len(a), a[i] = a[j], a[i] \in Request
               PROVE  i = j
    BY DEF Distinct
  <2>1. i \in 1..Len(q) /\ j \in 1..Len(q)
    BY <1>2
  <2> QED BY <2>1, <1>2 DEF Lists, Distinct
<1> QED BY <1>1, <1>3 DEF Lists

\* The head leaves; a request that leaves may change its status.
LEMMA ListsTail ==
    ASSUME NEW S, NEW q \in Seq(S), q # <<>>, NEW t \in [Request -> Statuses],
           NEW status, Lists(q, t, status)
    PROVE  /\ Head(q) \in S /\ Head(q) \in Range(q) /\ Tail(q) \in Seq(S)
           /\ Range(Tail(q)) \subseteq Range(q)
           /\ Lists(Tail(q), t, status)
           /\ Head(q) \in Request =>
                 /\ t[Head(q)] = status
                 /\ \A v : Lists(Tail(q), [t EXCEPT ![Head(q)] = v], status)
<1> DEFINE h == Head(q)
           r == Tail(q)
<1>1. /\ h = q[1] /\ h \in S
      /\ Len(q) \in Nat \ {0}
      /\ r \in Seq(S) /\ Len(r) = Len(q) - 1
      /\ \A i \in 1..Len(r) : r[i] = q[i + 1]
  BY HeadTailProperties, LenProperties
<1>2. h \in Range(q)
  BY <1>1, LenProperties DEF Range
<1>3. \A i \in 1..Len(r) : i + 1 \in 1..Len(q) /\ r[i] \in Range(q)
  BY <1>1, LenProperties DEF Range
<1>4. Range(r) \subseteq Range(q)
  BY <1>1, <1>3, LenProperties DEF Range
<1>5. Distinct(r, Request)
  <2> SUFFICES ASSUME NEW i \in 1..Len(r), NEW j \in 1..Len(r), r[i] = r[j], r[i] \in Request
               PROVE  i = j
    BY DEF Distinct
  <2>1. i + 1 = j + 1
    BY <1>1, <1>3 DEF Lists, Distinct
  <2> QED BY <2>1, <1>1
<1>6. h \in Request => h \notin Range(r)
  <2> SUFFICES ASSUME h \in Request, NEW i \in 1..Len(r), r[i] = h PROVE FALSE
    BY <1>1, LenProperties DEF Range
  <2>1. 1 = i + 1
    BY <1>1, <1>3 DEF Lists, Distinct
  <2> QED BY <2>1
<1>7. Lists(r, t, status)
  BY <1>4, <1>5 DEF Lists
<1>8. ASSUME h \in Request, NEW v PROVE Lists(r, [t EXCEPT ![h] = v], status)
  BY <1>4, <1>5, <1>6, <1>8 DEF Lists
<1> QED BY <1>1, <1>2, <1>4, <1>7, <1>8 DEF Lists

\* A queue of requests is as long as the set of them is large.
LEMMA DistinctLength ==
    ASSUME NEW S, IsFiniteSet(S), NEW q \in Seq(S), Distinct(q, S)
    PROVE  /\ IsFiniteSet(Range(q))
           /\ Len(q) = Cardinality(Range(q))
<1> DEFINE n == Len(q)
<1>1. n \in Nat /\ q \in [1..n -> S]
  BY LenProperties
<1>2. Range(q) \subseteq S
  BY <1>1 DEF Range
<1>3. IsFiniteSet(Range(q))
  BY <1>2, FS_Subset
<1>4. q \in Bijection(1..n, Range(q))
  BY <1>1 DEF Bijection, Injection, Surjection, IsInjective, Distinct, Range
<1>5. IsFiniteSet(1..n) /\ Cardinality(1..n) = n
  BY <1>1, FS_Interval
<1>6. Cardinality(Range(q)) = Cardinality(1..n)
  BY <1>4, <1>5, FS_Bijection DEF ExistsBijection
<1> QED BY <1>3, <1>5, <1>6

-----------------------------------------------------------------------------
(* The counter.                                                            *)

\* The requests in flight are finitely many, and those in a queue as many as it is long.
LEMMA InFlightFinite ==
    /\ IsFiniteSet(InFlight)
    /\ Cardinality(InFlight) \in Nat
    /\ \A S \in SUBSET InFlight : IsFiniteSet(S) /\ Cardinality(S) <= Cardinality(InFlight)
<1>1. InFlight \subseteq Request /\ IsFiniteSet(Request)
  BY RpcAssumption DEF InFlight
<1>2. IsFiniteSet(InFlight)
  BY <1>1, FS_Subset
<1> QED BY <1>2, FS_Subset, FS_CardinalityType

\* What one status change does to the counter.
LEMMA CountStep ==
    ASSUME Counted, thread \in [Request -> Statuses], inFlight \in Nat,
           NEW r \in Request, NEW v \in Statuses, thread' = [thread EXCEPT ![r] = v]
    PROVE  /\ (thread[r] \in Flying <=> v \in Flying) /\ inFlight' = inFlight => Counted'
           /\ thread[r] \notin Flying /\ v \in Flying /\ inFlight' = inFlight + 1 => Counted'
           /\ thread[r] \in Flying =>
                 /\ inFlight > 0
                 /\ v \notin Flying /\ inFlight' = inFlight - 1 => Counted'
<1>1. /\ \A s \in Request : s \in InFlight <=> thread[s] \in Flying
      /\ \A s \in Request : s \in InFlight' <=> thread'[s] \in Flying
      /\ InFlight \subseteq Request /\ InFlight' \subseteq Request
  BY DEF InFlight, Flying
<1>2. \A s \in Request : thread'[s] = IF s = r THEN v ELSE thread[s]
  OBVIOUS
<1>3. IsFiniteSet(InFlight) /\ Cardinality(InFlight) \in Nat
  BY InFlightFinite
<1>4. CASE thread[r] \in Flying /\ v \in Flying
  <2>1. InFlight' = InFlight
    BY <1>1, <1>2, <1>4
  <2>2. inFlight > 0
    BY <1>1, <1>3, <1>4, FS_EmptySet DEF Counted
  <2> QED BY <2>1, <2>2, <1>4 DEF Counted
<1>5. CASE thread[r] \notin Flying /\ v \notin Flying
  <2>1. InFlight' = InFlight
    BY <1>1, <1>2, <1>5
  <2> QED BY <2>1, <1>5 DEF Counted
<1>6. CASE thread[r] \notin Flying /\ v \in Flying
  <2>1. InFlight' = InFlight \cup {r} /\ r \notin InFlight
    BY <1>1, <1>2, <1>6
  <2>2. Cardinality(InFlight') = Cardinality(InFlight) + 1
    BY <2>1, <1>3, FS_AddElement
  <2> QED BY <2>2, <1>6 DEF Counted
<1>7. CASE thread[r] \in Flying /\ v \notin Flying
  <2>1. InFlight' = InFlight \ {r} /\ r \in InFlight
    BY <1>1, <1>2, <1>7
  <2>2. Cardinality(InFlight') = Cardinality(InFlight) - 1
    BY <2>1, <1>3, FS_RemoveElement
  <2>3. inFlight > 0
    BY <2>1, <1>3, FS_EmptySet DEF Counted
  <2> QED BY <2>2, <2>3, <1>7 DEF Counted
<1> QED BY <1>4, <1>5, <1>6, <1>7

\* The worker's exit answers the commands in its channel: none leaves the count.
LEMMA DropKeeps ==
    ASSUME TypeOK, Queues, Counted, DropChannel, UNCHANGED <<input, responses, inFlight>>
    PROVE  Queues' /\ Counted' /\ thread' \in [Request -> Statuses]
<1>1. /\ thread \in [Request -> Statuses]
      /\ thread' = [r \in Request |-> IF r \in Range(chan) THEN "finished" ELSE thread[r]]
  BY DEF TypeOK, DropChannel, Statuses
<1>2. \A r \in Request : r \in Range(chan) => thread[r] = "submitted"
  BY DEF Queues, Lists
<1>3. /\ Lists(input, thread', "written")
      /\ Lists(responses, thread', "handed")
  BY <1>1, <1>2, ListsSame DEF Queues
<1>4. Lists(<<>>, thread', "submitted")
  BY DEF Lists, Distinct, Range
<1>5. Queues'
  BY <1>3, <1>4 DEF Queues, DropChannel
<1>6. InFlight' = InFlight
  BY <1>1, <1>2 DEF InFlight
<1> QED BY <1>1, <1>5, <1>6 DEF Counted, Statuses

-----------------------------------------------------------------------------
(* Each step keeps the queues and the counter.                             *)

\* A step that touches no queue, no status and not the counter.
LEMMA QuietStep ==
    ASSUME Queues, Counted, UNCHANGED <<input, chan, responses, thread, inFlight>>
    PROVE  Queues' /\ Counted'
  BY DEF Queues, Counted, InFlight

\* A request outside the three queues changes to a status outside them.
LEMMA OutsideStep ==
    ASSUME TypeOK, Queues, Counted, UNCHANGED <<input, chan, responses>>,
           NEW r \in Request, NEW v \in Statuses \ {"written", "submitted", "handed"},
           thread' = [thread EXCEPT ![r] = v],
           thread[r] \in {"running", "finished"},
           \/ v \in Flying /\ inFlight' = inFlight
           \/ v \notin Flying /\ inFlight' = inFlight - 1
    PROVE  Queues' /\ Counted'
<1>1. thread \in [Request -> Statuses] /\ inFlight \in Nat
  BY RpcAssumption DEF TypeOK, Statuses
<1>2. \A status \in {"written", "submitted", "handed"} :
         \A s \in Request : thread[s] = status => thread'[s] = status
  BY <1>1
<1>3. /\ Lists(input, thread', "written")
      /\ Lists(chan, thread', "submitted")
      /\ Lists(responses, thread', "handed")
  BY <1>2, ListsSame DEF Queues
<1>4. Counted'
  BY <1>1, CountStep DEF Flying
<1> QED BY <1>3, <1>4 DEF Queues

\* Every step keeps the queues and the counter.
LEMMA QueuesStep ==
    ASSUME TypeOK, Queues, Counted, [Next]_vars
    PROVE  Queues' /\ Counted'
<1> USE RpcAssumption
<1>1. /\ thread \in [Request -> Statuses] /\ inFlight \in Nat
      /\ input \in Seq(Request \cup {Eof})
      /\ chan \in Seq(Request \cup {Detached})
      /\ responses \in Seq(Request)
      /\ Eof \notin Request /\ Detached \notin Request
  BY DEF TypeOK, Statuses
<1>2. /\ Lists(input, thread, "written")
      /\ Lists(chan, thread, "submitted")
      /\ Lists(responses, thread, "handed")
  BY DEF Queues
<1>3. CASE ClientCloses
  <2>1. Lists(Append(input, Eof), thread, "written")
    BY <1>1, <1>2, ListsAppendOther
  <2> QED BY <2>1, <1>3, <1>2 DEF ClientCloses, threadVars, serverVars, sessionVars, Queues,
                                  Counted, InFlight
<1>4. ASSUME NEW r \in Request, ClientSends(r) PROVE Queues' /\ Counted'
  <2>1. /\ input' = Append(input, r)
        /\ thread' = [thread EXCEPT ![r] = "written"] /\ thread[r] = "unsent"
        /\ UNCHANGED <<chan, responses, inFlight>>
    BY <1>4 DEF ClientSends, serverVars, sessionVars
  <2>2. Lists(input', thread', "written")
    <3>1. r \in (Request \cup {Eof}) \cap Request /\ thread[r] # "written"
      BY <2>1
    <3>2. Lists(Append(input, r), [thread EXCEPT ![r] = "written"], "written")
      BY <1>1, <1>2, <3>1, ListsAppend
    <3> QED BY <2>1, <3>2
  <2>3. /\ Lists(chan', thread', "submitted")
        /\ Lists(responses', thread', "handed")
    BY <1>1, <1>2, <2>1, ListsSame
  <2>4. Counted'
    BY <1>1, <2>1, CountStep DEF Flying, Statuses
  <2> QED BY <2>2, <2>3, <2>4 DEF Queues
<1>5. ASSUME NEW r \in Request, AnswerQuery(r) PROVE Queues' /\ Counted'
  BY <1>5, OutsideStep DEF AnswerQuery, Finish, clientVars, serverVars, sessionVars, Flying, Statuses
<1>6. ASSUME NEW r \in Request, SubmitCommand(r) PROVE Queues' /\ Counted'
  <2>1. CASE chan' = Append(chan, r) /\ thread' = [thread EXCEPT ![r] = "submitted"]
    <3>1. thread[r] = "running" /\ UNCHANGED <<input, responses, inFlight>>
      BY <1>6 DEF SubmitCommand, clientVars, serverVars
    <3>2. Lists(chan', thread', "submitted")
      <4>1. r \in (Request \cup {Detached}) \cap Request /\ thread[r] # "submitted"
        BY <3>1
      <4>2. Lists(Append(chan, r), [thread EXCEPT ![r] = "submitted"], "submitted")
        BY <1>1, <1>2, <4>1, ListsAppend
      <4> QED BY <2>1, <4>2
    <3>3. /\ Lists(input', thread', "written")
          /\ Lists(responses', thread', "handed")
      BY <1>1, <1>2, <2>1, <3>1, ListsSame
    <3>4. Counted'
      BY <1>1, <2>1, <3>1, CountStep DEF Flying, Statuses
    <3> QED BY <3>2, <3>3, <3>4 DEF Queues
  <2>2. CASE Finish(r, "error") /\ UNCHANGED chan
    BY <1>6, <2>2, OutsideStep DEF SubmitCommand, Finish, clientVars, serverVars, Flying, Statuses
  <2> QED BY <1>6, <2>1, <2>2 DEF SubmitCommand
<1>7. ASSUME NEW r \in Request, HandIn(r) PROVE Queues' /\ Counted'
  <2>1. CASE responses' = Append(responses, r) /\ thread' = [thread EXCEPT ![r] = "handed"]
             /\ UNCHANGED inFlight
    <3>1. thread[r] = "finished" /\ UNCHANGED <<input, chan>>
      BY <1>7 DEF HandIn, clientVars, sessionVars
    <3>2. Lists(responses', thread', "handed")
      BY <1>1, <1>2, <2>1, <3>1, ListsAppend
    <3>3. /\ Lists(input', thread', "written")
          /\ Lists(chan', thread', "submitted")
      BY <1>1, <1>2, <2>1, <3>1, ListsSame
    <3>4. Counted'
      BY <1>1, <2>1, <3>1, CountStep DEF Flying, Statuses
    <3> QED BY <3>2, <3>3, <3>4 DEF Queues
  <2>2. CASE thread' = [thread EXCEPT ![r] = "dropped"] /\ inFlight' = inFlight - 1
             /\ UNCHANGED responses
    BY <1>7, <2>2, OutsideStep DEF HandIn, clientVars, sessionVars, Flying, Statuses
  <2> QED BY <1>7, <2>1, <2>2 DEF HandIn
<1>8. CASE TakeCommand
  <2> DEFINE h == Head(chan)
  <2>1. /\ chan # <<>> /\ chan' = Tail(chan)
        /\ UNCHANGED <<input, responses, inFlight>>
        /\ \/ h = Detached /\ UNCHANGED thread
           \/ h # Detached /\ thread' = [thread EXCEPT ![h] = "finished"]
    BY <1>8 DEF TakeCommand, Finish, clientVars, threadVars, serverVars
  <2>2. /\ h \in Request \cup {Detached}
        /\ Lists(Tail(chan), thread, "submitted")
        /\ h \in Request => /\ thread[h] = "submitted"
                            /\ \A v : Lists(Tail(chan), [thread EXCEPT ![h] = v], "submitted")
    BY <1>1, <1>2, <2>1, ListsTail
  <2>3. CASE UNCHANGED thread
    BY <2>1, <2>2, <2>3, <1>2 DEF Queues, Counted, InFlight
  <2>4. CASE h \in Request /\ thread' = [thread EXCEPT ![h] = "finished"]
    <3>1. Lists(chan', thread', "submitted")
      BY <2>1, <2>2, <2>4
    <3>2. /\ Lists(input', thread', "written")
          /\ Lists(responses', thread', "handed")
      BY <1>1, <1>2, <2>1, <2>2, <2>4, ListsSame
    <3>3. Counted'
      BY <1>1, <2>1, <2>2, <2>4, CountStep DEF Flying, Statuses
    <3> QED BY <3>1, <3>2, <3>3 DEF Queues
  <2> QED BY <2>1, <2>2, <2>3, <2>4
<1>9. CASE Report
  <2>1. CASE DropChannel
    BY <1>9, <2>1, DropKeeps DEF Report, clientVars, serverVars
  <2>2. CASE UNCHANGED <<worker, chan, thread, reply>>
    BY <1>9, <2>2, QuietStep DEF Report, clientVars, serverVars
  <2> QED BY <1>9, <2>1, <2>2 DEF Report
<1>10. CASE WorkerExits
  BY <1>10, DropKeeps DEF WorkerExits, clientVars, serverVars
<1>11. CASE WriteResponse
  <2> DEFINE h == Head(responses)
  <2>1. /\ responses # <<>> /\ responses' = Tail(responses)
        /\ thread' = [thread EXCEPT ![h] = "answered"] /\ inFlight' = inFlight - 1
        /\ UNCHANGED <<input, chan>>
    BY <1>11 DEF WriteResponse, clientVars, sessionVars
  <2>2. /\ h \in Request /\ thread[h] = "handed"
        /\ Lists(responses', thread', "handed")
    BY <1>1, <1>2, <2>1, ListsTail
  <2>3. /\ Lists(input', thread', "written")
        /\ Lists(chan', thread', "submitted")
    BY <1>1, <1>2, <2>1, <2>2, ListsSame
  <2>4. Counted'
    BY <1>1, <2>1, <2>2, CountStep DEF Flying, Statuses
  <2> QED BY <2>2, <2>3, <2>4 DEF Queues
<1>12. CASE TakeFrame
  <2> DEFINE h == Head(input)
  <2>1. /\ input # <<>> /\ input' = Tail(input)
        /\ UNCHANGED <<responses, chan>>
        /\ \/ h = Eof /\ UNCHANGED <<inFlight, thread>>
           \/ /\ h # Eof
              /\ inFlight' = inFlight + 1
              /\ thread' = [thread EXCEPT ![h] = "running"]
    BY <1>12 DEF TakeFrame, sessionVars
  <2>2. /\ h \in Request \cup {Eof}
        /\ Lists(Tail(input), thread, "written")
        /\ h \in Request => /\ thread[h] = "written"
                            /\ \A v : Lists(Tail(input), [thread EXCEPT ![h] = v], "written")
    BY <1>1, <1>2, <2>1, ListsTail
  <2>3. CASE UNCHANGED <<inFlight, thread>>
    BY <2>1, <2>2, <2>3, <1>2 DEF Queues, Counted, InFlight
  <2>4. CASE h \in Request /\ inFlight' = inFlight + 1 /\ thread' = [thread EXCEPT ![h] = "running"]
    <3>1. Lists(input', thread', "written")
      BY <2>1, <2>2, <2>4
    <3>2. /\ Lists(chan', thread', "submitted")
          /\ Lists(responses', thread', "handed")
      BY <1>1, <1>2, <2>1, <2>2, <2>4, ListsSame
    <3>3. Counted'
      BY <1>1, <2>1, <2>2, <2>4, CountStep DEF Flying, Statuses
    <3> QED BY <3>1, <3>2, <3>3 DEF Queues
  <2> QED BY <2>1, <2>2, <2>3, <2>4
<1>13. CASE SendDetached
  <2>1. /\ UNCHANGED <<input, responses, thread, inFlight>>
        /\ chan' = Append(chan, Detached) \/ UNCHANGED chan
    BY <1>13 DEF SendDetached, clientVars, threadVars
  <2>2. Lists(Append(chan, Detached), thread, "submitted")
    BY <1>1, <1>2, ListsAppendOther
  <2> QED BY <2>1, <2>2, <1>2 DEF Queues, Counted, InFlight
<1>14. CASE Ask \/ AskCancelled \/ \E r \in Request : StartReport(r)
  BY <1>14, QuietStep DEF Ask, AskCancelled, StartReport, runFrame, clientVars, threadVars, serverVars
<1>15. CASE ResponsesWritten \/ EventsWritten \/ InputTimeout \/ WriteFails
  BY <1>15, QuietStep DEF ResponsesWritten, EventsWritten, InputTimeout, WriteFails,
                          clientVars, threadVars, sessionVars
<1>16. CASE WriteEvent \/ WaitForEvent \/ Drain
  BY <1>16, QuietStep DEF WriteEvent, WaitForEvent, Drain, clientVars, threadVars
<1>17. CASE UNCHANGED vars
  BY <1>17, QuietStep DEF vars, clientVars, threadVars, serverVars, sessionVars
<1> QED BY <1>3, <1>4, <1>5, <1>6, <1>7, <1>8, <1>9, <1>10, <1>11, <1>12, <1>13, <1>14, <1>15,
           <1>16, <1>17 DEF Next, Client, Thread, Session, Server


-----------------------------------------------------------------------------
(* Types and the end of the input.                                         *)

\* The head and the tail of a queue hold what it held.
LEMMA RangeHeadTail ==
    ASSUME NEW S, NEW q \in Seq(S), q # <<>>
    PROVE  /\ Head(q) \in S /\ Tail(q) \in Seq(S)
           /\ Range(q) = {Head(q)} \cup Range(Tail(q))
<1> DEFINE r == Tail(q)
<1>1. /\ Head(q) = q[1] /\ Head(q) \in S
      /\ Len(q) \in Nat \ {0}
      /\ r \in Seq(S) /\ Len(r) = Len(q) - 1
      /\ \A i \in 1..Len(r) : r[i] = q[i + 1]
  BY HeadTailProperties, LenProperties
<1>2. Range(q) = {q[i] : i \in 1..Len(q)} /\ Range(r) = {r[i] : i \in 1..Len(r)}
  BY <1>1, LenProperties DEF Range
<1>3. Range(r) \subseteq Range(q)
  BY <1>1, <1>2
<1>4. \A i \in 1..Len(q) : i = 1 \/ (i - 1 \in 1..Len(r) /\ q[i] = r[i - 1])
  BY <1>1
<1>5. \A e \in Range(q) : e = Head(q) \/ e \in Range(r)
  BY ZenonT(30), <1>1, <1>2, <1>4
<1>6. Head(q) \in Range(q)
  BY <1>1, <1>2
<1> QED BY <1>1, <1>3, <1>5, <1>6

\* The counter after a step: it grows only when a frame is taken below the bound.
LEMMA CounterMoves ==
    ASSUME TypeOK, Counted', [Next]_vars
    PROVE  /\ inFlight' \in 0..MaxInFlight
           /\ inFlight' <= inFlight \/ (server = "input" /\ UNCHANGED inputClosed)
           /\ inputClosed' = inputClosed \/ (TakeFrame /\ inFlight' = inFlight /\ inFlight < MaxInFlight)
<1> USE RpcAssumption
<1>1. inFlight \in 0..MaxInFlight /\ MaxInFlight \in Nat
  BY DEF TypeOK
<1>2. inFlight' \in Nat
  <2>1. InFlight' \subseteq Request
    BY DEF InFlight
  <2>2. IsFiniteSet(InFlight')
    BY <2>1, FS_Subset
  <2> QED BY <2>2, FS_CardinalityType DEF Counted
<1>3. \/ /\ inFlight' \in {inFlight, inFlight - 1}
         /\ UNCHANGED inputClosed
      \/ /\ TakeFrame /\ inFlight < MaxInFlight /\ server = "input"
         /\ \/ UNCHANGED inFlight
            \/ inFlight' = inFlight + 1 /\ UNCHANGED inputClosed
  <2>1. CASE TakeFrame
    BY <2>1, <1>1 DEF TakeFrame, Saturated
  <2>2. CASE Client
    BY <2>2 DEF Client, ClientCloses, ClientSends, serverVars
  <2>3. CASE Session
    BY <2>3 DEF Session, TakeCommand, Ask, AskCancelled, Report, WorkerExits, StartReport,
                runFrame, serverVars
  <2>4. CASE \E r \in Request : Thread(r)
    BY <2>4 DEF Thread, AnswerQuery, SubmitCommand, HandIn, serverVars
  <2>5. CASE Server \/ WriteFails
    BY <2>1, <2>5 DEF Server, WriteResponse, ResponsesWritten, WriteEvent, EventsWritten,
                      WaitForEvent, InputTimeout, SendDetached, Drain, WriteFails
  <2>6. CASE UNCHANGED vars
    BY <2>6 DEF vars, serverVars
  <2> QED BY <2>2, <2>3, <2>4, <2>5, <2>6 DEF Next
<1> QED BY <1>1, <1>2, <1>3

\* Where the serve loop may go.
LEMMA LoopMoves ==
    ASSUME [Next]_vars
    PROVE  \/ UNCHANGED <<server, connected, ended>>
           \/ /\ ~LoopReturned /\ ~LoopReturned' /\ UNCHANGED <<connected, ended>>
              /\ server' = "input" => server = "events" /\ ~inputClosed /\ UNCHANGED inputClosed
              /\ server' \in {"closing", "drain"} =>
                    UNCHANGED inputClosed /\ (inputClosed \/ server = "closing")
              /\ server' \in {"responses", "events", "input", "closing"} =>
                    server \in {"responses", "events", "input"}
           \/ ~LoopReturned /\ server' = "cleanup" /\ connected' = FALSE /\ UNCHANGED ended
           \/ /\ server # "done" /\ server' = "done" /\ connected' = FALSE
              /\ ended' \in {"shutdown", "lost", "eof", "broken"}
              /\ ended' = "eof" => server = "drain" /\ events = <<>> /\ worker = "gone"
                                   /\ UNCHANGED <<worker, told, accepted>>
<1>1. CASE Client
  BY <1>1 DEF Client, ClientCloses, ClientSends, serverVars
<1>2. CASE Session
  BY <1>2 DEF Session, TakeCommand, Ask, AskCancelled, Report, WorkerExits, StartReport,
              runFrame, serverVars
<1>3. CASE \E r \in Request : Thread(r)
  BY <1>3 DEF Thread, AnswerQuery, SubmitCommand, HandIn, serverVars
<1>4. CASE WriteFails
  BY <1>4 DEF WriteFails, Goto, LoopReturned
<1>5. CASE WriteResponse \/ ResponsesWritten \/ TakeFrame \/ InputTimeout
  BY <1>5 DEF WriteResponse, ResponsesWritten, TakeFrame, InputTimeout, Goto, End, LoopReturned
<1>6. CASE WriteEvent \/ EventsWritten
  BY <1>6 DEF WriteEvent, EventsWritten, Goto, LoopReturned
<1>7. CASE WaitForEvent
  BY <1>7 DEF WaitForEvent, Goto, End, LoopReturned
<1>8. CASE SendDetached
  BY <1>8 DEF SendDetached, Goto, End, LoopReturned
<1>9. CASE Drain
  BY <1>9 DEF Drain, Goto, End, LoopReturned, WriteFirstEvent
<1>10. CASE UNCHANGED vars
  BY <1>10 DEF vars, serverVars
<1> QED BY <1>1, <1>2, <1>3, <1>4, <1>5, <1>6, <1>7, <1>8, <1>9, <1>10 DEF Next, Server


\* The end of the input is taken below the bound, and no frame after it.
LEMMA CloseStep ==
    ASSUME TypeOK, CloseSeen, Counted', [Next]_vars
    PROVE  CloseSeen'
<1>1. /\ MaxInFlight \in Nat /\ inFlight \in Int /\ inFlight' \in Int
      /\ inputClosed \in BOOLEAN
  BY CounterMoves, RpcAssumption DEF TypeOK
<1>2. \/ UNCHANGED <<server, connected, ended>>
      \/ /\ server' = "input" => ~inputClosed /\ UNCHANGED inputClosed
         /\ server' \in {"closing", "drain"} =>
               UNCHANGED inputClosed /\ (inputClosed \/ server = "closing")
      \/ server' \in {"cleanup", "done"}
  BY LoopMoves
<1>3. inputClosed' => inFlight' < MaxInFlight
  <2>1. CASE UNCHANGED inputClosed
    BY <2>1, <1>1, CounterMoves DEF CloseSeen
  <2>2. CASE inFlight' = inFlight /\ inFlight < MaxInFlight
    BY <2>2
  <2> QED BY <2>1, <2>2, CounterMoves
<1>4. inputClosed' # inputClosed => server' = "responses"
  <2>1. TakeFrame => server' = "responses"
    BY DEF TakeFrame, Goto
  <2> QED BY <2>1, CounterMoves
<1>5. server' = "input" => ~inputClosed'
  BY <1>2, <1>4 DEF CloseSeen
<1>6. server' \in {"closing", "drain"} => inputClosed'
  BY <1>2, <1>4 DEF CloseSeen
<1> QED BY <1>3, <1>5, <1>6 DEF CloseSeen

\* The flag and the state of the run keep their domains.
LEMMA FlagsStep ==
    ASSUME TypeOK, [Next]_vars
    PROVE  run' \in {"none", "going", "asking"} /\ cancel' \in BOOLEAN
<1>0. run \in {"none", "going", "asking"} /\ cancel \in BOOLEAN
  BY DEF TypeOK
<1>1. CASE Client
  BY <1>0, <1>1 DEF Client, ClientCloses, ClientSends, sessionVars
<1>2. ASSUME NEW r \in Request, Thread(r)
      PROVE  run' \in {"none", "going", "asking"} /\ cancel' \in BOOLEAN
  BY <1>0, <1>2 DEF Thread, AnswerQuery, SubmitCommand, HandIn, sessionVars
<1>3. CASE TakeCommand
  <2>1. run' \in {run, "going"}
    BY <1>3 DEF TakeCommand
  <2>2. cancel' \in BOOLEAN
    BY <1>0, <1>3 DEF TakeCommand, FlagAfter
  <2> QED BY <1>0, <2>1, <2>2
<1>4. CASE Ask \/ AskCancelled \/ \E r \in Request : StartReport(r)
  BY <1>0, <1>4 DEF Ask, AskCancelled, StartReport, runFrame
<1>5. CASE Report \/ WorkerExits
  BY <1>0, <1>5 DEF Report, WorkerExits, DropChannel
<1>6. CASE Server \/ WriteFails
  BY <1>0, <1>6 DEF Server, WriteResponse, ResponsesWritten, WriteEvent, EventsWritten, WaitForEvent,
                    TakeFrame, InputTimeout, SendDetached, Drain, WriteFails, End, sessionVars
<1>7. CASE UNCHANGED vars
  BY <1>0, <1>7 DEF vars, sessionVars
<1> QED BY <1>1, <1>2, <1>3, <1>4, <1>5, <1>6, <1>7 DEF Next, Session

\* Every step keeps the types.
LEMMA TypeStep ==
    ASSUME TypeOK, Queues, Counted', Account, [Next]_vars
    PROVE  TypeOK'
<1> USE RpcAssumption
<1>0. run' \in {"none", "going", "asking"} /\ cancel' \in BOOLEAN
  BY FlagsStep
<1>1. inFlight' \in 0..MaxInFlight
  BY CounterMoves
<1>2. CASE Client
  <2>1. \A e \in Request \cup {Eof} : Append(input, e) \in Seq(Request \cup {Eof})
    BY AppendProperties DEF TypeOK
  <2>2. input' \in Seq(Request \cup {Eof})
    BY <1>2, <2>1 DEF Client, ClientCloses, ClientSends
  <2>3. /\ thread' \in [Request -> Statuses]
        /\ UNCHANGED <<reply, responses, serverVars, sessionVars>>
    BY <1>2 DEF Client, ClientCloses, ClientSends, threadVars, TypeOK, Statuses
  <2> QED BY <1>0, <2>2, <2>3 DEF serverVars, sessionVars, TypeOK, Statuses
<1>3. ASSUME NEW r \in Request, Thread(r) PROVE TypeOK'
  <2>1. Append(chan, r) \in Seq(Request \cup {Detached}) /\ Append(responses, r) \in Seq(Request)
    BY AppendProperties DEF TypeOK
  <2>2. /\ chan' \in Seq(Request \cup {Detached}) /\ responses' \in Seq(Request)
        /\ UNCHANGED <<input, inputClosed, server, ended, connected, told, events, worker, owed,
                       emitting, accepted>>
    BY <1>3, <2>1 DEF Thread, AnswerQuery, SubmitCommand, HandIn, clientVars, serverVars,
                      sessionVars, TypeOK
  <2>3. thread' \in [Request -> Statuses] /\ reply' \in [Request -> {"none", "ok", "error"}]
    <3>1. thread \in [Request -> Statuses] /\ reply \in [Request -> {"none", "ok", "error"}]
      BY DEF TypeOK, Statuses
    <3>2. /\ \E status \in {"submitted", "finished", "handed", "dropped"} :
                thread' = [thread EXCEPT ![r] = status]
          /\ \/ reply' = reply
             \/ \E answer \in {"ok", "error"} : reply' = [reply EXCEPT ![r] = answer]
      BY <1>3 DEF Thread, AnswerQuery, SubmitCommand, HandIn, Finish, serverVars, sessionVars
    <3>3. thread' \in [Request -> Statuses]
      BY <3>1, <3>2 DEF Statuses
    <3>4. reply' \in [Request -> {"none", "ok", "error"}]
      BY <3>1, <3>2
    <3> QED BY <3>3, <3>4
  <2> QED BY <1>0, <1>1, <2>2, <2>3 DEF TypeOK, Statuses
<1>4. CASE TakeCommand
  <2>1. Head(chan) \in Request \cup {Detached} /\ Tail(chan) \in Seq(Request \cup {Detached})
    BY <1>4, RangeHeadTail DEF TypeOK, TakeCommand
  <2> QED BY <1>0, <1>1, <1>4, <2>1 DEF TakeCommand, Finish, clientVars, threadVars, serverVars, TypeOK
<1>5. ASSUME NEW r \in Request, StartReport(r) PROVE TypeOK'
  BY <1>0, <1>5 DEF StartReport, runFrame, clientVars, threadVars, serverVars, TypeOK
<1>18. CASE Ask \/ AskCancelled
  BY <1>0, <1>18 DEF Ask, AskCancelled, runFrame, clientVars, threadVars, serverVars, TypeOK
<1>6. CASE DropChannel /\ UNCHANGED <<clientVars, responses, serverVars, events, owed, accepted>>
           /\ emitting' = None
  BY <1>0, <1>6 DEF DropChannel, clientVars, serverVars, TypeOK
<1>7. CASE Report
  <2>1. CASE connected
    <3>1. emitting \in Request /\ emitting # None
      BY <1>7 DEF Report, TypeOK
    <3>2. Append(events, emitting) \in Seq(Request)
      BY <3>1, AppendProperties DEF TypeOK
    <3>3. /\ events' = Append(events, emitting) /\ owed' \subseteq owed /\ emitting' = None
          /\ UNCHANGED <<worker, chan, thread, reply, clientVars, responses, serverVars, accepted>>
      BY <1>7, <2>1 DEF Report
    <3> QED BY <1>0, <3>2, <3>3 DEF clientVars, serverVars, TypeOK
  <2> QED BY <1>6, <1>7, <2>1 DEF Report
<1>8. CASE WorkerExits
  BY <1>6, <1>8 DEF WorkerExits
<1>9. CASE WriteResponse
  <2>1. Head(responses) \in Request /\ Tail(responses) \in Seq(Request)
    BY <1>9, RangeHeadTail DEF TypeOK, WriteResponse
  <2> QED BY <1>0, <1>1, <1>9, <2>1 DEF WriteResponse, End, Goto, clientVars, sessionVars, TypeOK
<1>10. CASE TakeFrame
  <2>1. Head(input) \in Request \cup {Eof} /\ Tail(input) \in Seq(Request \cup {Eof})
    BY <1>10, RangeHeadTail DEF TypeOK, TakeFrame
  <2> QED BY <1>0, <1>1, <1>10, <2>1 DEF TakeFrame, Goto, sessionVars, TypeOK
<1>11. WriteFirstEvent /\ events # <<>> =>
         events' \in Seq(Request) /\ told' \subseteq accepted
  <2> SUFFICES ASSUME WriteFirstEvent, events # <<>>
               PROVE  events' \in Seq(Request) /\ told' \subseteq accepted
    OBVIOUS
  <2>1. Tail(events) \in Seq(Request) /\ Range(events) = {Head(events)} \cup Range(Tail(events))
    BY RangeHeadTail DEF TypeOK
  <2> QED BY <2>1 DEF WriteFirstEvent, TypeOK, Account
<1>12. CASE WriteEvent
  BY <1>0, <1>11, <1>12 DEF WriteEvent, clientVars, threadVars, TypeOK
<1>13. CASE WaitForEvent
  BY <1>0, <1>11, <1>13 DEF WaitForEvent, Goto, End, clientVars, threadVars, TypeOK
<1>14. CASE Drain
  BY <1>0, <1>11, <1>14 DEF Drain, Goto, End, clientVars, threadVars, TypeOK
<1>15. CASE SendDetached
  <2>1. Append(chan, Detached) \in Seq(Request \cup {Detached})
    BY AppendProperties DEF TypeOK
  <2>2. chan' \in Seq(Request \cup {Detached})
    BY <1>15, <2>1 DEF SendDetached, TypeOK
  <2>3. /\ server' \in {"drain", "done"} /\ ended' \in {ended, "broken"}
        /\ connected' \in {connected, FALSE}
        /\ UNCHANGED <<clientVars, threadVars, inputClosed, inFlight, told, events, worker, owed,
                       emitting, accepted>>
    BY <1>15 DEF SendDetached, Goto, End
  <2> QED BY <1>0, <2>2, <2>3 DEF clientVars, threadVars, TypeOK
<1>16. CASE ResponsesWritten \/ EventsWritten \/ InputTimeout \/ WriteFails
  BY <1>0, <1>16 DEF ResponsesWritten, EventsWritten, InputTimeout, WriteFails, Goto,
               clientVars, threadVars, sessionVars, TypeOK
<1>17. CASE UNCHANGED vars
  BY <1>0, <1>17 DEF vars, clientVars, threadVars, serverVars, sessionVars, TypeOK
<1> QED BY <1>2, <1>3, <1>4, <1>5, <1>7, <1>8, <1>9, <1>10, <1>12, <1>13, <1>14, <1>15, <1>16,
           <1>17, <1>18 DEF Next, Session, Server

\* Before the loop sends its shutdown the channel holds requests only.
LEMMA AskedStep ==
    ASSUME TypeOK, NotAsked, [Next]_vars
    PROVE  NotAsked'
<1> USE RpcAssumption
<1>1. \/ UNCHANGED server
      \/ server' \in {"responses", "events", "input", "closing"} =>
            server \in {"responses", "events", "input"}
  BY LoopMoves
<1>2. \/ Range(chan') \subseteq Range(chan) \cup Request
      \/ server' \in {"drain", "done"}
  <2>1. CASE SendDetached
    BY <2>1 DEF SendDetached, Goto, End
  <2>2. ASSUME NEW r \in Request, SubmitCommand(r) PROVE Range(chan') \subseteq Range(chan) \cup Request
    <3>1. Range(Append(chan, r)) = Range(chan) \cup {r}
      <4>1. chan \in Seq(Request \cup {Detached}) /\ r \in Request \cup {Detached}
        BY DEF TypeOK
      <4> QED BY <4>1, RangeAppend
    <3>2. chan' = Append(chan, r) \/ chan' = chan
      BY <2>2 DEF SubmitCommand
    <3>3. CASE chan' = Append(chan, r)
      BY <3>1, <3>3, Zenon
    <3>4. CASE chan' = chan
      BY <3>4, Zenon
    <3> QED BY <3>2, <3>3, <3>4
  <2>3. CASE TakeCommand
    BY <2>3, RangeHeadTail DEF TakeCommand, TypeOK
  <2>4. CASE Report \/ WorkerExits
    BY <2>4 DEF Report, WorkerExits, DropChannel, Range
  <2>5. CASE UNCHANGED chan
    BY <2>5
  <2>6. Next => \/ SendDetached \/ TakeCommand \/ Report \/ WorkerExits \/ UNCHANGED chan
                \/ \E r \in Request : SubmitCommand(r)
    BY DEF Next, Client, ClientCloses, ClientSends, Thread, AnswerQuery, HandIn, Session,
           Ask, AskCancelled, StartReport, runFrame, Server, WriteResponse, ResponsesWritten, WriteEvent, EventsWritten,
           WaitForEvent, TakeFrame, InputTimeout, Drain, WriteFails, sessionVars
  <2>7. UNCHANGED vars => UNCHANGED chan
    BY DEF vars, sessionVars
  <2> QED BY <2>1, <2>2, <2>3, <2>4, <2>5, <2>6, <2>7
<1> QED BY <1>1, <1>2 DEF NotAsked


-----------------------------------------------------------------------------
(* Where the terminals are.                                                *)

\* What a step may do to the terminals and to the worker.
LEMMA TerminalMoves ==
    ASSUME [Next]_vars
    PROVE  \/ UNCHANGED <<accepted, owed, events, told, worker, emitting>>
           \/ /\ worker = "up" /\ worker' # "gone" /\ emitting = None
              /\ UNCHANGED <<events, told, emitting>>
              /\ \/ UNCHANGED <<accepted, owed>>
                 \/ \E c \in {Head(chan)} : accepted' = accepted \cup {c} /\ owed' = owed \cup {c}
           \/ worker # "gone" /\ UNCHANGED <<accepted, owed, events, told, worker>>
           \/ /\ connected /\ emitting # None /\ emitting' = None
              /\ events' = Append(events, emitting) /\ owed' = owed \ {emitting}
              /\ UNCHANGED <<accepted, told, worker>>
           \/ /\ (~connected \/ owed = {}) /\ worker' = "gone" /\ emitting' = None
              /\ UNCHANGED <<accepted, owed, events, told>>
           \/ /\ events # <<>> /\ WriteFirstEvent /\ ~LoopReturned
              /\ UNCHANGED <<accepted, owed, worker, emitting>>
<1>1. CASE Client
  BY <1>1 DEF Client, ClientCloses, ClientSends, serverVars, sessionVars
<1>2. ASSUME NEW r \in Request, Thread(r)
      PROVE  UNCHANGED <<accepted, owed, events, told, worker, emitting>>
  BY <1>2 DEF Thread, AnswerQuery, SubmitCommand, HandIn, serverVars, sessionVars
<1>3. CASE TakeCommand
  BY <1>3 DEF TakeCommand, serverVars
<1>4. ASSUME NEW r \in Request, StartReport(r)
      PROVE  worker # "gone" /\ UNCHANGED <<accepted, owed, events, told, worker>>
  BY <1>4 DEF StartReport, runFrame, serverVars
<1>10. CASE Ask \/ AskCancelled
  BY <1>10 DEF Ask, AskCancelled, runFrame, serverVars
<1>5. CASE Report
  BY <1>5 DEF Report, DropChannel, serverVars
<1>6. CASE WorkerExits
  BY <1>6 DEF WorkerExits, DropChannel, serverVars
<1>7. CASE WriteEvent \/ WaitForEvent \/ Drain
  BY <1>7 DEF WriteEvent, WaitForEvent, Drain, LoopReturned
<1>8. CASE WriteResponse \/ ResponsesWritten \/ EventsWritten \/ TakeFrame \/ InputTimeout
           \/ SendDetached \/ WriteFails
  BY <1>8 DEF WriteResponse, ResponsesWritten, EventsWritten, TakeFrame, InputTimeout,
              SendDetached, WriteFails, sessionVars
<1>9. CASE UNCHANGED vars
  BY <1>9 DEF vars, serverVars, sessionVars
<1> QED BY <1>1, <1>2, <1>3, <1>4, <1>5, <1>6, <1>7, <1>8, <1>9, <1>10 DEF Next, Session, Server

\* Every accepted command's terminal is owed, under way or written while the
\* server listens, and the end of the input finds them all written.
LEMMA AccountStep ==
    ASSUME TypeOK, Account, EofTellsAll, [Next]_vars
    PROVE  Account' /\ EofTellsAll'
<1>1. /\ events \in Seq(Request) /\ told \subseteq accepted /\ owed \subseteq accepted
      /\ accepted \subseteq Request /\ emitting \in owed \cup {None}
  BY DEF TypeOK
<1>2. /\ connected' <=> ~LoopReturned'
      /\ connected' => connected
      /\ server' # "done" => ended' = "no"
      /\ server = "done" => server' = "done" /\ ended' = ended
  <2>1. /\ connected \in BOOLEAN
        /\ connected <=> ~LoopReturned
        /\ server # "done" => ended = "no"
    BY DEF TypeOK, Account
  <2>2. CASE UNCHANGED <<server, connected, ended>>
    BY <2>1, <2>2 DEF LoopReturned
  <2>3. CASE ~LoopReturned /\ ~LoopReturned' /\ UNCHANGED <<connected, ended>>
    BY <2>1, <2>3 DEF LoopReturned
  <2>4. CASE ~LoopReturned /\ server' = "cleanup" /\ connected' = FALSE /\ UNCHANGED ended
    BY <2>1, <2>4 DEF LoopReturned
  <2>5. CASE server # "done" /\ server' = "done" /\ connected' = FALSE
    BY <2>1, <2>5 DEF LoopReturned
  <2> QED BY <2>2, <2>3, <2>4, <2>5, LoopMoves
<1>3. Account'
  <2>1. CASE UNCHANGED <<accepted, owed, events, told, worker, emitting>>
    BY <1>2, <2>1, Zenon DEF Account
  <2>2. CASE /\ worker = "up" /\ worker' # "gone" /\ emitting = None
             /\ UNCHANGED <<events, told, emitting>>
             /\ \/ UNCHANGED <<accepted, owed>>
                \/ \E c \in {Head(chan)} : accepted' = accepted \cup {c} /\ owed' = owed \cup {c}
    <3>1. Range(events') = Range(events)
      BY <2>2, Zenon
    <3>2. \/ accepted' = accepted /\ owed' = owed
          \/ \E c \in {Head(chan)} : accepted' = accepted \cup {c} /\ owed' = owed \cup {c}
      BY <2>2
    <3> QED BY <1>2, <2>2, <3>1, <3>2 DEF Account
  <2>3. CASE worker # "gone" /\ UNCHANGED <<accepted, owed, events, told, worker>>
    <3>1. Range(events') = Range(events)
      BY <2>3, Zenon
    <3> QED BY <1>2, <2>3, <3>1 DEF Account
  <2>4. CASE /\ connected /\ emitting # None /\ emitting' = None
             /\ events' = Append(events, emitting) /\ owed' = owed \ {emitting}
             /\ UNCHANGED <<accepted, told, worker>>
    <3>1. Range(Append(events, emitting)) = Range(events) \cup {emitting}
      BY <1>1, <2>4, RangeAppend
    <3>2. Range(events') = Range(events) \cup {emitting}
      BY <2>4, <3>1, Zenon
    <3>3. emitting \in accepted /\ emitting \in owed
      BY <1>1, <2>4
    <3> QED BY <1>1, <1>2, <2>4, <3>2, <3>3 DEF Account
  <2>5. CASE /\ (~connected \/ owed = {}) /\ worker' = "gone" /\ emitting' = None
             /\ UNCHANGED <<accepted, owed, events, told>>
    <3>1. Range(events') = Range(events)
      BY <2>5, Zenon
    <3> QED BY <1>2, <2>5, <3>1 DEF Account
  <2>6. CASE /\ events # <<>> /\ WriteFirstEvent /\ ~LoopReturned
             /\ UNCHANGED <<accepted, owed, worker, emitting>>
    <3>1. Range(events) = {Head(events)} \cup Range(Tail(events))
      BY <1>1, <2>6, RangeHeadTail
    <3>2. events' = Tail(events) /\ told' = told \cup {Head(events)}
      BY <2>6 DEF WriteFirstEvent
    <3>3. Range(events) = {Head(events)} \cup Range(events')
      BY <3>1, <3>2, Zenon
    <3> QED BY <1>2, <2>6, <3>2, <3>3 DEF Account
  <2> QED BY <2>1, <2>2, <2>3, <2>4, <2>5, <2>6, TerminalMoves
<1>4. EofTellsAll'
  <2>1. CASE ended' = ended /\ ended = "eof"
    <3>1. worker = "gone" /\ told = accepted /\ server = "done" /\ LoopReturned /\ emitting = None
          /\ ~connected
      BY <2>1 DEF EofTellsAll, Account, LoopReturned
    <3>2. worker' = "gone" /\ UNCHANGED <<told, accepted>>
      BY <3>1, TerminalMoves
    <3> QED BY <3>1, <3>2 DEF EofTellsAll
  <2>2. CASE ended' = "eof" /\ server = "drain" /\ events = <<>> /\ worker = "gone"
             /\ UNCHANGED <<worker, told, accepted>>
    <3>1. Range(events) = {}
      BY <1>1, <2>2, RangeEmpty
    <3>2. connected /\ owed = {}
      BY <2>2 DEF Account, LoopReturned
    <3>3. accepted = told
      BY <3>1, <3>2 DEF Account
    <3> QED BY <2>2, <3>3 DEF EofTellsAll
  <2>3. CASE ended' # "eof"
    BY <2>3 DEF EofTellsAll
  <2> QED BY <2>1, <2>2, <2>3, LoopMoves
<1> QED BY <1>3, <1>4

-----------------------------------------------------------------------------
(* The theorems.                                                           *)

\* The invariant holds at first.
LEMMA RpcInit == Init => RpcInv
<1> SUFFICES ASSUME Init PROVE RpcInv
  OBVIOUS
<1> USE RpcAssumption
<1>1. InFlight = {}
  BY DEF Init, InFlight
<1>2. Counted
  BY <1>1, FS_EmptySet DEF Counted, Init
<1>3. Range(<<>>) = {}
  BY EmptyQueue
<1>4. TypeOK
  <2>1. /\ <<>> \in Seq(Request) /\ <<>> \in Seq(Request \cup {Eof})
        /\ <<>> \in Seq(Request \cup {Detached})
    BY EmptySeq
  <2>2. 0 \in 0..MaxInFlight
    OBVIOUS
  <2> QED BY <2>1, <2>2 DEF Init, TypeOK
<1>5. \A status : Lists(<<>>, thread, status)
  BY <1>3 DEF Lists, Distinct
<1> QED BY <1>2, <1>3, <1>4, <1>5 DEF Init, RpcInv, Queues, CloseSeen, NotAsked, Account, EofTellsAll,
                                     LoopReturned

\* The invariant is inductive, whatever the number of requests and the capacities.
THEOREM RpcInvariant == Spec => []RpcInv
<1>1. RpcInv /\ [Next]_vars => RpcInv'
  <2> SUFFICES ASSUME RpcInv, [Next]_vars PROVE RpcInv'
    OBVIOUS
  <2>1. Queues' /\ Counted'
    BY QueuesStep DEF RpcInv
  <2>2. TypeOK'
    BY <2>1, TypeStep DEF RpcInv
  <2>3. CloseSeen' /\ NotAsked' /\ Account' /\ EofTellsAll'
    BY <2>1, CloseStep, AskedStep, AccountStep DEF RpcInv
  <2> QED BY <2>1, <2>2, <2>3 DEF RpcInv
<1> QED BY <1>1, RpcInit, PTL DEF Spec

\* Every variable of the connection keeps to its domain; the counter of requests
\* in flight never passes its bound.
THEOREM RpcTypeCorrect == Spec => []TypeOK
<1>1. RpcInv => TypeOK
  BY DEF RpcInv
<1> QED BY <1>1, RpcInvariant, PTL

\* A request thread finds room for its response, and the loop for its
\* shutdown, with any bound on requests that the command channel can hold.
THEOREM SendsAlwaysFit == Spec => []SendsFit
<1>1. RpcInv => SendsFit
  <2> SUFFICES ASSUME RpcInv PROVE SendsFit
    OBVIOUS
  <2>1. /\ IsFiniteSet(Request) /\ Detached \notin Request
        /\ MaxInFlight \in Nat /\ Capacity \in Nat /\ MaxInFlight <= Capacity
        /\ responses \in Seq(Request) /\ chan \in Seq(Request \cup {Detached})
        /\ inFlight \in 0..MaxInFlight /\ inFlight = Cardinality(InFlight)
    BY RpcAssumption DEF RpcInv, TypeOK, Counted
  <2>2. ASSUME NEW r \in Request, thread[r] = "finished" PROVE Len(responses) < MaxInFlight
    <3>1. Len(responses) = Cardinality(Range(responses)) /\ IsFiniteSet(Range(responses))
      BY <2>1, DistinctLength DEF RpcInv, Queues, Lists
    <3>2. Range(responses) \subseteq InFlight \ {r} /\ r \in InFlight
      <4>1. \A s \in Range(responses) : s \in Request /\ thread[s] = "handed"
        BY <2>1, RangeEmpty DEF RpcInv, Queues, Lists
      <4> QED BY <4>1, <2>2 DEF InFlight
    <3>3. IsFiniteSet(InFlight \ {r}) /\ Cardinality(InFlight \ {r}) = inFlight - 1
      BY <3>2, <2>1, InFlightFinite, FS_RemoveElement
    <3>4. Cardinality(Range(responses)) <= Cardinality(InFlight \ {r})
      BY <3>2, <3>3, FS_Subset
    <3> QED BY <3>1, <3>3, <3>4, <2>1, FS_CardinalityType
  <2>3. ASSUME server = "closing" PROVE Len(chan) < Capacity
    <3>1. Range(chan) \subseteq Request
      BY <2>1, <2>3, RangeEmpty DEF RpcInv, NotAsked
    <3>2. chan \in Seq(Request)
      BY <2>1, <3>1, LenProperties DEF Range
    <3>3. Len(chan) = Cardinality(Range(chan)) /\ IsFiniteSet(Range(chan))
      BY <2>1, <3>2, DistinctLength DEF RpcInv, Queues, Lists
    <3>4. Range(chan) \subseteq InFlight
      BY <3>1 DEF RpcInv, Queues, Lists, InFlight
    <3>5. Cardinality(Range(chan)) <= inFlight
      BY <2>1, <3>4, InFlightFinite
    <3>6. inFlight < MaxInFlight
      BY <2>3 DEF RpcInv, CloseSeen
    <3> QED BY <2>1, <3>3, <3>5, <3>6, FS_CardinalityType
  <2> QED BY <2>2, <2>3 DEF SendsFit
<1> QED BY <1>1, RpcInvariant, PTL

\* When the loop ends because its input did, the session has exited and every
\* command it accepted has had its terminal written.
THEOREM EofAlwaysTellsAll == Spec => []EofTellsAll
<1>1. RpcInv => EofTellsAll
  BY DEF RpcInv
<1> QED BY <1>1, RpcInvariant, PTL

=============================================================================
