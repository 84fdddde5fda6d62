------------------------- MODULE SessionStoreProofs -------------------------
(***************************************************************************)
(* Theorems about SessionStore for every number of processes, sessions and *)
(* entries, and, after them, about the plans the entries hold and the tool  *)
(* that changes them (PlanUpdates): every log and every call there can be.  *)
(***************************************************************************)
EXTENDS SessionStore, PlanUpdates, SequenceTheorems, FiniteSetTheorems, WellFoundedInduction, TLAPS

-----------------------------------------------------------------------------
(* The entries of a batch.                                                 *)

\* A batch becomes as many entries as it has payloads, the first a child of
\* the given parent and each later one of its predecessor.
LEMMA ChainedBatch ==
    ASSUME NEW payloads \in Seq(Payload), NEW parent \in 0..fresh,
           fresh \in 0..MaxEntries, RoomFor(payloads)
    PROVE  LET new == Chained(payloads, parent)
           IN  /\ new \in Seq(Entry)
               /\ Len(new) = Len(payloads)
               /\ \A i \in 1..Len(payloads) :
                     /\ new[i].id = fresh + i
                     /\ new[i].parent = IF i = 1 THEN parent ELSE fresh + i - 1
<1> DEFINE n == Len(payloads)
           new == Chained(payloads, parent)
<1>1. n \in Nat /\ MaxEntries \in Nat /\ fresh + n <= MaxEntries
  BY StoreAssumption DEF RoomFor
<1>2. \A i \in 1..n : payloads[i] \in Payload
  OBVIOUS
<1>3. \A i \in 1..n :
         /\ fresh + i \in Ids
         /\ (IF i = 1 THEN parent ELSE fresh + i - 1) \in {0} \cup Ids
  BY <1>1 DEF Ids
<1>4. new = [i \in 1..n |-> [id     |-> fresh + i,
                             parent |-> IF i = 1 THEN parent ELSE fresh + i - 1,
                             plan   |-> payloads[i]]]
  BY DEF Chained
<1>5. \A i \in 1..n : new[i] \in Entry
  BY <1>2, <1>3, <1>4 DEF Entry
<1>6. new \in Seq(Entry) /\ Len(new) = n
  BY <1>1, <1>4, <1>5, IsASeq
<1> QED BY <1>4, <1>6

-----------------------------------------------------------------------------
(* Type correctness.                                                       *)

\* The initial state is well typed.
LEMMA StoreTypeInit == Init => TypeOK
<1> SUFFICES ASSUME Init PROVE TypeOK
  OBVIOUS
<1>1. MaxEntries \in Nat
  BY StoreAssumption
<1>2. <<>> \in Seq(Entry) /\ <<>> \in Seq(Payload)
  BY EmptySeq
<1>3. /\ row \subseteq known /\ known \subseteq Session /\ cleared \subseteq row
      /\ current \in [Process -> known]
  BY DEF Init
<1>4. opening \in [Process -> [session : row \cup {None}, leaf : 0..fresh]]
  BY DEF Init, NoStore
<1>5. \A p \in Process : opening[p].session = None
  BY DEF Init, NoStore
<1> QED BY <1>1, <1>2, <1>3, <1>4, <1>5 DEF Init, TypeOK

\* An agent's batch is a non-empty sequence of payloads.
LEMMA BatchTyped ==
    ASSUME NEW p, NEW b \in Batches(p)
    PROVE  b \in Seq(Payload) /\ b # <<>>
<1>1. 0 \in Payload
  BY StoreAssumption DEF Payload
<1>2. CASE b = <<0>>
  BY <1>1, <1>2
<1>3. CASE b # <<0>>
  <2>1. PICK n \in Payload : b = <<n>> \/ b = <<0, n>>
    BY <1>3 DEF Batches
  <2>2. CASE b = <<n>>
    BY <1>1, <2>2
  <2>3. CASE b = <<0, n>>
    <3>1. b = Append(<<0>>, n) /\ <<0>> \in Seq(Payload)
      BY <1>1, <2>3
    <3> QED BY <3>1, AppendProperties
  <2> QED BY <2>1, <2>2, <2>3
<1> QED BY <1>2, <1>3

\* Every step keeps the types.
LEMMA StoreTypeStep == TypeOK /\ [Next]_vars => TypeOK'
<1> SUFFICES ASSUME TypeOK, [Next]_vars PROVE TypeOK'
  OBVIOUS
<1> USE DEF dbVars, procVars
<1>1. ASSUME NEW p \in Process, NEW b \in Batches(p), CreateStore(p, b) PROVE TypeOK'
  <2>1. b \in Seq(Payload) /\ b # <<>> /\ current[p] \in known /\ mode[p] = "pending"
    BY <1>1, BatchTyped DEF CreateStore, TypeOK
  <2>2. opening' \in [Process -> [session : row' \cup {None}, leaf : 0..fresh']]
    BY <1>1 DEF CreateStore, TypeOK
  <2>3. batch' \in [Process -> Seq(Payload)]
    BY <1>1, <2>1 DEF CreateStore, TypeOK
  <2>4. ASSUME NEW q \in Process
        PROVE  /\ (pc'[q] \in {"reading", "writing"}) <=> (batch'[q] # <<>>)
               /\ (pc'[q] = "loading") <=> (opening'[q].session # None)
               /\ mode'[q] = "open" \/ pc'[q] \in {"reading", "writing"} => current'[q] \in row'
               /\ mode'[q] = "pending" => mem'[q] = <<>> /\ memLeaf'[q] = 0
    BY <1>1, <2>1 DEF CreateStore, TypeOK
  <2> QED BY <1>1, <2>1, <2>2, <2>3, <2>4 DEF CreateStore, TypeOK
<1>2. ASSUME NEW p \in Process, NEW b \in Batches(p), BeginAppend(p, b) PROVE TypeOK'
  BY <1>2, BatchTyped DEF BeginAppend, TypeOK
<1>3. ASSUME NEW p \in Process, ReadLog(p) PROVE TypeOK'
  BY <1>3 DEF ReadLog, TypeOK
<1>4. ASSUME NEW p \in Process, Commit(p) PROVE TypeOK'
  <2> DEFINE s   == current[p]
             new == Chained(batch[p], memLeaf[p])
  <2>1. /\ s \in Session /\ s \in row
        /\ batch[p] \in Seq(Payload) /\ memLeaf[p] \in 0..fresh /\ RoomFor(batch[p])
        /\ fresh \in 0..MaxEntries
    BY <1>4 DEF Commit, Write, TypeOK
  <2>2. new \in Seq(Entry) /\ Len(new) = Len(batch[p]) /\ Len(new) \in Nat
    BY <2>1, ChainedBatch
  <2>3. fresh' \in 0..MaxEntries /\ 0..fresh \subseteq 0..fresh' /\ fresh' = fresh + Len(new)
    BY <1>4, <2>1, <2>2, StoreAssumption DEF Commit, Write, RoomFor
  <2>4. log[s] \o new \in Seq(Entry) /\ mem[p] \o new \in Seq(Entry)
    BY <2>1, <2>2, ConcatProperties DEF TypeOK
  <2>5. /\ log' \in [Session -> Seq(Entry)]
        /\ mem' \in [Process -> Seq(Entry)]
    BY <1>4, <2>4 DEF Commit, Write, TypeOK
  <2>6. fresh' \in 0..fresh'
    BY <2>3
  <2>7. /\ leaf' \in [Session -> 0..fresh']
        /\ memLeaf' \in [Process -> 0..fresh']
        /\ opening' \in [Process -> [session : row' \cup {None}, leaf : 0..fresh']]
    <3>1. leaf' = [leaf EXCEPT ![s] = fresh'] /\ memLeaf' = [memLeaf EXCEPT ![p] = fresh']
          /\ UNCHANGED <<opening, row>>
      BY <1>4, <2>3 DEF Commit, Write
    <3>2. /\ leaf \in [Session -> 0..fresh'] /\ memLeaf \in [Process -> 0..fresh']
          /\ opening \in [Process -> [session : row \cup {None}, leaf : 0..fresh']]
      BY <2>3 DEF TypeOK
    <3> HIDE DEF s
    <3> QED BY <2>6, <3>1, <3>2
  <2>8. /\ row' \subseteq known' /\ known' \subseteq Session /\ cleared' \subseteq row'
        /\ mode' \in [Process -> {"pending", "open"}]
        /\ current' \in [Process -> known']
        /\ pc' \in [Process -> {"idle", "reading", "writing", "loading"}]
        /\ batch' \in [Process -> Seq(Payload)]
    BY <1>4, EmptySeq DEF Commit, Write, TypeOK
  <2>9. ASSUME NEW q \in Process
        PROVE  /\ (pc'[q] \in {"reading", "writing"}) <=> (batch'[q] # <<>>)
               /\ (pc'[q] = "loading") <=> (opening'[q].session # None)
               /\ mode'[q] = "open" \/ pc'[q] \in {"reading", "writing"} => current'[q] \in row'
               /\ mode'[q] = "pending" => mem'[q] = <<>> /\ memLeaf'[q] = 0
    BY <1>4, <2>1 DEF Commit, Write, TypeOK
  <2> QED BY <2>3, <2>5, <2>7, <2>8, <2>9 DEF TypeOK
<1>5. ASSUME NEW p \in Process, AppendFails(p) PROVE TypeOK'
  BY <1>5, EmptySeq DEF AppendFails, TypeOK
<1>6. ASSUME NEW p \in Process, Clear(p) PROVE TypeOK'
  <2>1. current[p] \in row /\ 0 \in 0..fresh /\ <<>> \in Seq(Entry)
    BY <1>6, EmptySeq, StoreAssumption DEF Clear, TypeOK
  <2> QED BY <1>6, <2>1 DEF Clear, TypeOK
<1>7. ASSUME NEW p \in Process, NEW s \in Session, OpenStore(p, s) PROVE TypeOK'
  BY <1>7, StoreAssumption DEF OpenStore, TypeOK
<1>8. ASSUME NEW p \in Process, LoadEntries(p) PROVE TypeOK'
  <2>1. /\ opening[p].session \in row /\ opening[p].session \in Session
        /\ opening[p].session \in known
        /\ opening[p].leaf \in 0..fresh /\ 0 \in 0..fresh
    BY <1>8, StoreAssumption DEF LoadEntries, TypeOK
  <2> QED BY <1>8, <2>1 DEF LoadEntries, NoStore, TypeOK
<1>9. ASSUME NEW p \in Process, LoadFails(p) PROVE TypeOK'
  <2>1. 0 \in 0..fresh
    BY StoreAssumption DEF TypeOK
  <2> QED BY <1>9, <2>1 DEF LoadFails, NoStore, TypeOK
<1>10. ASSUME NEW p \in Process, NEW s \in Session, Restart(p, s) PROVE TypeOK'
  <2>1. 0 \in 0..fresh /\ <<>> \in Seq(Entry) /\ <<>> \in Seq(Payload)
    BY EmptySeq, StoreAssumption DEF TypeOK
  <2> QED BY <1>10, <2>1 DEF Restart, NoStore, TypeOK
<1>11. CASE UNCHANGED vars
  BY <1>11 DEF vars, TypeOK
<1> QED
  BY <1>1, <1>2, <1>3, <1>4, <1>5, <1>6, <1>7, <1>8, <1>9, <1>10, <1>11
     DEF Next, StartAppend, Resume, Relaunch

\* Every variable keeps to its domain, for any number of processes.
THEOREM StoreTypeCorrect == Spec => []TypeOK
<1> QED BY StoreTypeInit, StoreTypeStep, PTL DEF Spec

-----------------------------------------------------------------------------
(* One chain.                                                              *)

\* A batch chained to the last entry of a chain lengthens the chain.
LEMMA ChainExtends ==
    ASSUME NEW entries \in Seq(Entry), ChainOf(entries),
           NEW new \in Seq(Entry), new # <<>>,
           \A i \in 1..Len(new) :
              new[i].parent = IF i = 1 THEN LastOf(entries) ELSE new[i - 1].id
    PROVE  ChainOf(entries \o new) /\ LastOf(entries \o new) = new[Len(new)].id
<1> DEFINE m == Len(entries)
           n == Len(new)
           all == entries \o new
<1>1. /\ m \in Nat /\ n \in Nat \ {0}
      /\ all \in Seq(Entry) /\ Len(all) = m + n
      /\ \A i \in 1..m : all[i] = entries[i]
      /\ \A i \in (m + 1)..(m + n) : all[i] = new[i - m]
  BY ConcatProperties, LenProperties, EmptySeq
<1>2. all # <<>> /\ all[m + n] = new[n]
  BY <1>1
<1>3. ASSUME NEW i \in 1..(m + n)
      PROVE  all[i].parent = IF i = 1 THEN 0 ELSE all[i - 1].id
  <2>1. CASE i <= m
    <3>1. i \in 1..m /\ (i # 1 => i - 1 \in 1..m)
      BY <1>1, <2>1
    <3> QED BY <1>1, <3>1 DEF ChainOf
  <2>2. CASE i = m + 1
    <3>1. all[i] = new[1] /\ all[i].parent = LastOf(entries)
      BY <1>1, <2>2
    <3>2. CASE m = 0
      BY <1>1, <2>2, <3>1, <3>2 DEF LastOf
    <3>3. CASE m # 0
      <4>1. i # 1 /\ i - 1 = m /\ m \in 1..m /\ entries # <<>>
        BY <1>1, <2>2, <3>3
      <4> QED BY <1>1, <3>1, <4>1 DEF LastOf
    <3> QED BY <3>2, <3>3
  <2>3. CASE i > m + 1
    <3>1. /\ i # 1 /\ i - m \in 1..n /\ i - m # 1
          /\ i \in (m + 1)..(m + n) /\ i - 1 \in (m + 1)..(m + n)
          /\ (i - 1) - m = (i - m) - 1
      BY <1>1, <2>3
    <3>2. all[i] = new[i - m] /\ all[i - 1] = new[(i - m) - 1]
      BY <1>1, <3>1
    <3> QED BY <3>1, <3>2
  <2> QED BY <1>1, <2>1, <2>2, <2>3
<1>4. ChainOf(all)
  <2>1. DOMAIN all = 1..(m + n)
    BY <1>1
  <2> QED BY <1>3, <2>1 DEF ChainOf
<1>5. LastOf(all) = new[n].id
  BY <1>1, <1>2 DEF LastOf
<1> QED BY <1>4, <1>5

\* What a committed transaction did to the log it wrote.
LEMMA CommitEffect ==
    ASSUME TypeOK, NEW p \in Process, Commit(p)
    PROVE  LET s   == current[p]
               new == Chained(batch[p], memLeaf[p])
           IN  /\ s \in Session /\ new \in Seq(Entry) /\ new # <<>> /\ Len(new) \in Nat \ {0}
               /\ log' = [log EXCEPT ![s] = log[s] \o new]
               /\ mem' = [mem EXCEPT ![p] = mem[p] \o new]
               /\ leaf' = [leaf EXCEPT ![s] = fresh'] /\ fresh' = fresh + Len(new)
               /\ memLeaf' = [memLeaf EXCEPT ![p] = fresh']
               /\ new[Len(new)].id = fresh'
               /\ \A i \in 1..Len(new) :
                     new[i].parent = IF i = 1 THEN leaf[s] ELSE new[i - 1].id
<1> DEFINE s   == current[p]
           new == Chained(batch[p], memLeaf[p])
<1>1. /\ s \in Session /\ batch[p] \in Seq(Payload) /\ batch[p] # <<>>
      /\ memLeaf[p] \in 0..fresh /\ RoomFor(batch[p]) /\ fresh \in 0..MaxEntries
      /\ leaf[s] = memLeaf[p] /\ fresh \in Nat
  BY StoreAssumption DEF Commit, Write, TypeOK
<1>2. /\ new \in Seq(Entry) /\ Len(new) = Len(batch[p]) /\ Len(new) \in Nat \ {0}
      /\ \A i \in 1..Len(new) :
            /\ new[i].id = fresh + i
            /\ new[i].parent = IF i = 1 THEN memLeaf[p] ELSE fresh + i - 1
  <2>1. Len(batch[p]) \in Nat \ {0}
    BY <1>1, LenProperties, EmptySeq
  <2>2. /\ new \in Seq(Entry) /\ Len(new) = Len(batch[p])
        /\ \A i \in 1..Len(batch[p]) :
              /\ new[i].id = fresh + i
              /\ new[i].parent = IF i = 1 THEN memLeaf[p] ELSE fresh + i - 1
    BY <1>1, ChainedBatch
  <2> HIDE DEF new
  <2> QED BY <2>1, <2>2
<1>3. /\ log' = [log EXCEPT ![s] = log[s] \o new]
      /\ mem' = [mem EXCEPT ![p] = mem[p] \o new]
      /\ leaf' = [leaf EXCEPT ![s] = fresh'] /\ fresh' = fresh + Len(new)
      /\ memLeaf' = [memLeaf EXCEPT ![p] = fresh']
  BY DEF Commit, Write
<1>4. ASSUME NEW i \in 1..Len(new)
      PROVE  new[i].parent = IF i = 1 THEN leaf[s] ELSE new[i - 1].id
  <2>1. CASE i = 1
    BY <1>1, <1>2, <2>1
  <2>2. CASE i # 1
    <3>1. i - 1 \in 1..Len(new) /\ fresh + (i - 1) = fresh + i - 1
      BY <1>1, <1>2, <2>2
    <3> QED BY <1>2, <2>2, <3>1
  <2> QED BY <2>1, <2>2
<1>5. new[Len(new)].id = fresh' /\ new # <<>>
  BY <1>2, <1>3, EmptySeq
<1> QED BY <1>1, <1>2, <1>3, <1>4, <1>5

\* Every step keeps every log a chain that ends at its leaf.
LEMMA ChainStep == TypeOK /\ ChainOK /\ [Next]_vars => ChainOK'
<1> SUFFICES ASSUME TypeOK, ChainOK, [Next]_vars PROVE ChainOK'
  OBVIOUS
<1>1. ASSUME NEW p \in Process, Commit(p) PROVE ChainOK'
  <2> DEFINE s   == current[p]
             new == Chained(batch[p], memLeaf[p])
  <2>1. /\ s \in Session /\ new \in Seq(Entry) /\ new # <<>>
        /\ log' = [log EXCEPT ![s] = log[s] \o new]
        /\ leaf' = [leaf EXCEPT ![s] = fresh']
        /\ new[Len(new)].id = fresh'
        /\ \A i \in 1..Len(new) :
              new[i].parent = IF i = 1 THEN leaf[s] ELSE new[i - 1].id
    BY <1>1, CommitEffect
  <2>2. log[s] \in Seq(Entry) /\ ChainOf(log[s]) /\ leaf[s] = LastOf(log[s])
    BY <2>1 DEF TypeOK, ChainOK
  <2> HIDE DEF new, s
  <2>3. ChainOf(log[s] \o new) /\ LastOf(log[s] \o new) = fresh'
    BY <2>1, <2>2, ChainExtends
  <2>4. ASSUME NEW r \in Session PROVE ChainOf(log'[r]) /\ leaf'[r] = LastOf(log'[r])
    BY <2>1, <2>3 DEF TypeOK, ChainOK
  <2> QED BY <2>4 DEF ChainOK, ChainOf, LastOf
<1>2. ASSUME NEW p \in Process, Clear(p) PROVE ChainOK'
  <2>1. ChainOf(<<>>) /\ LastOf(<<>>) = 0
    BY EmptySeq DEF ChainOf, LastOf
  <2>2. ASSUME NEW r \in Session PROVE ChainOf(log'[r]) /\ leaf'[r] = LastOf(log'[r])
    BY <1>2, <2>1 DEF Clear, TypeOK, ChainOK
  <2> QED BY <2>2 DEF ChainOK, ChainOf, LastOf
<1>3. CASE UNCHANGED <<log, leaf>>
  BY <1>3 DEF ChainOK, ChainOf, LastOf
<1>4. ASSUME NEW p \in Process,
             \/ StartAppend(p) \/ ReadLog(p) \/ AppendFails(p)
             \/ Resume(p) \/ LoadEntries(p) \/ LoadFails(p) \/ Relaunch(p)
      PROVE  UNCHANGED <<log, leaf>>
  BY <1>4 DEF StartAppend, CreateStore, BeginAppend, ReadLog, AppendFails, Resume, OpenStore,
              LoadEntries, LoadFails, Relaunch, Restart, dbVars
<1>5. CASE UNCHANGED vars
  BY <1>3, <1>5 DEF vars, dbVars
<1> QED BY <1>1, <1>2, <1>3, <1>4, <1>5 DEF Next

\* Every session's facts form one chain that ends at its leaf, however many
\* processes append to it, clear it, fail or die.
THEOREM ChainAlways == Spec => []ChainOK
<1>1. Init => ChainOK
  <2>1. ChainOf(<<>>) /\ LastOf(<<>>) = 0
    BY EmptySeq DEF ChainOf, LastOf
  <2> QED BY <2>1 DEF Init, ChainOK
<1> QED BY <1>1, StoreTypeInit, StoreTypeStep, ChainStep, PTL DEF Spec

-----------------------------------------------------------------------------
(* The leaf stands for the log its writer has in memory.                   *)

\* A process that may commit has the whole log of its session in memory, or
\* the session was cleared.
LEMMA WriterKnowsLog ==
    ASSUME TypeOK, ChainOK, WriterSawLog, NEW p \in Process, Commit(p),
           current[p] \notin cleared
    PROVE  mem[p] = log[current[p]]
<1>1. leaf[current[p]] = memLeaf[p] /\ current[p] \in Session
  BY DEF Commit, TypeOK
<1>2. CASE mode[p] = "open"
  BY <1>1, <1>2 DEF WriterSawLog
<1>3. CASE mode[p] = "pending"
  <2>1. mem[p] = <<>> /\ leaf[current[p]] = 0
    BY <1>1, <1>3 DEF TypeOK
  <2>2. log[current[p]] \in Seq(Entry) /\ LastOf(log[current[p]]) = 0
    BY <1>1, <2>1 DEF TypeOK, ChainOK
  <2>3. ASSUME log[current[p]] # <<>> PROVE FALSE
    <3> DEFINE entries == log[current[p]]
    <3>1. Len(entries) \in 1..Len(entries)
      BY <2>2, <2>3, LenProperties, EmptySeq
    <3>2. entries[Len(entries)] \in Entry
      BY <2>2, <3>1
    <3> QED BY <2>2, <2>3, <3>2, StoreAssumption DEF LastOf, Entry, Ids
  <2> QED BY <2>1, <2>3
<1> QED BY <1>2, <1>3 DEF TypeOK

\* Every step keeps what a matching leaf says of a process's memory.
LEMMA SightStep == TypeOK /\ ChainOK /\ WriterSawLog /\ [Next]_vars => WriterSawLog'
<1> SUFFICES ASSUME TypeOK, ChainOK, WriterSawLog, [Next]_vars,
                    NEW q \in Process,
                    mode'[q] = "open", current'[q] \notin cleared',
                    memLeaf'[q] = leaf'[current'[q]]
             PROVE  mem'[q] = log'[current'[q]]
  BY DEF WriterSawLog
<1> USE DEF dbVars, procVars
<1>1. ASSUME NEW p \in Process, Commit(p) PROVE mem'[q] = log'[current'[q]]
  <2> DEFINE s   == current[p]
             new == Chained(batch[p], memLeaf[p])
  <2>1. /\ s \in Session /\ Len(new) \in Nat \ {0}
        /\ log' = [log EXCEPT ![s] = log[s] \o new]
        /\ mem' = [mem EXCEPT ![p] = mem[p] \o new]
        /\ leaf' = [leaf EXCEPT ![s] = fresh'] /\ fresh' = fresh + Len(new)
        /\ memLeaf' = [memLeaf EXCEPT ![p] = fresh']
    BY <1>1, CommitEffect
  <2>2. UNCHANGED <<current, cleared>> /\ mode' = [mode EXCEPT ![p] = "open"]
    BY <1>1 DEF Commit, Write
  <2> HIDE DEF new, s
  <2>3. CASE q = p
    <3>1. mem[p] = log[s]
      BY <1>1, <2>2, <2>3, WriterKnowsLog DEF s
    <3>2. s = current'[q] /\ log'[s] = log[s] \o new /\ mem'[p] = mem[p] \o new
      BY <2>1, <2>2, <2>3 DEF TypeOK, s
    <3> QED BY <2>3, <3>1, <3>2
  <2>4. CASE q # p /\ current[q] = s
    <3>1. memLeaf[q] \in 0..fresh /\ fresh \in Nat
      BY StoreAssumption DEF TypeOK
    <3>2. memLeaf'[q] = memLeaf[q] /\ leaf'[s] = fresh'
      BY <2>1, <2>4 DEF TypeOK
    <3>3. memLeaf[q] # fresh'
      BY <2>1, <3>1
    <3> QED BY <2>2, <2>4, <3>2, <3>3
  <2>5. CASE q # p /\ current[q] # s
    BY <2>1, <2>2, <2>5 DEF TypeOK, WriterSawLog
  <2> QED BY <2>3, <2>4, <2>5
<1>2. ASSUME NEW p \in Process, Clear(p) PROVE mem'[q] = log'[current'[q]]
  BY <1>2 DEF Clear, TypeOK, WriterSawLog
<1>3. ASSUME NEW p \in Process, LoadEntries(p) PROVE mem'[q] = log'[current'[q]]
  BY <1>3 DEF LoadEntries, TypeOK, WriterSawLog
<1>4. ASSUME NEW p \in Process, NEW s \in Session, Restart(p, s)
      PROVE  mem'[q] = log'[current'[q]]
  BY <1>4 DEF Restart, TypeOK, WriterSawLog
<1>5. CASE UNCHANGED <<log, leaf, cleared, procVars>>
  BY <1>5 DEF WriterSawLog
<1>6. ASSUME NEW p \in Process,
             \/ StartAppend(p) \/ ReadLog(p) \/ AppendFails(p) \/ Resume(p) \/ LoadFails(p)
      PROVE  UNCHANGED <<log, leaf, cleared, procVars>>
  BY <1>6 DEF StartAppend, CreateStore, BeginAppend, ReadLog, AppendFails, Resume, OpenStore,
              LoadFails
<1>7. CASE UNCHANGED vars
  BY <1>5, <1>7 DEF vars
<1> QED BY <1>1, <1>2, <1>3, <1>4, <1>5, <1>6, <1>7 DEF Next, Relaunch

\* The invariant the log's theorems rest on.
StoreInv == TypeOK /\ ChainOK /\ WriterSawLog

LEMMA StoreInvariant == Spec => []StoreInv
<1>1. Init => StoreInv
  <2>1. Init => ChainOK
    <3>1. ChainOf(<<>>) /\ LastOf(<<>>) = 0
      BY EmptySeq DEF ChainOf, LastOf
    <3> QED BY <3>1 DEF Init, ChainOK
  <2>2. Init => WriterSawLog
    BY DEF Init, WriterSawLog
  <2> QED BY <2>1, <2>2, StoreTypeInit DEF StoreInv
<1>2. StoreInv /\ [Next]_vars => StoreInv'
  BY StoreTypeStep, ChainStep, SightStep DEF StoreInv
<1> QED BY <1>1, <1>2, PTL DEF Spec

\* A process whose chain tail is the database's has the whole log in memory,
\* in every session that was never cleared.
THEOREM WriterSawLogAlways == Spec => []WriterSawLog
<1>1. StoreInv => WriterSawLog
  BY DEF StoreInv
<1> QED BY <1>1, StoreInvariant, PTL

\* The step form of AppendInSight.
InSight ==
    \A s \in Session \ cleared :
        log'[s] # log[s] /\ s \notin cleared' =>
            \E p \in Process :
                /\ current[p] = s
                /\ Len(log'[s]) > Len(mem[p])
                /\ SubSeq(log'[s], 1, Len(mem[p])) = mem[p]
                /\ mem[p] = log[s]

\* Only a commit, or a clear, changes a log.
LEMMA InSightStep == StoreInv /\ [Next]_vars => InSight
<1> SUFFICES ASSUME StoreInv, [Next]_vars,
                    NEW s \in Session, s \notin cleared, s \notin cleared', log'[s] # log[s]
             PROVE  \E p \in Process :
                        /\ current[p] = s
                        /\ Len(log'[s]) > Len(mem[p])
                        /\ SubSeq(log'[s], 1, Len(mem[p])) = mem[p]
                        /\ mem[p] = log[s]
  BY DEF InSight
<1>1. PICK p \in Process : Commit(p) \/ Clear(p)
  <2>1. ASSUME NEW p \in Process,
               \/ StartAppend(p) \/ ReadLog(p) \/ AppendFails(p) \/ Resume(p)
               \/ LoadEntries(p) \/ LoadFails(p) \/ Relaunch(p)
        PROVE  UNCHANGED log
    BY <2>1 DEF StartAppend, CreateStore, BeginAppend, ReadLog, AppendFails, Resume, OpenStore,
                LoadEntries, LoadFails, Relaunch, Restart, dbVars
  <2> QED BY <2>1 DEF Next, vars, dbVars
<1>2. TypeOK /\ ChainOK /\ WriterSawLog
  BY DEF StoreInv
<1>3. CASE Clear(p)
  BY <1>2, <1>3 DEF Clear, TypeOK
<1>4. CASE Commit(p)
  <2> DEFINE new == Chained(batch[p], memLeaf[p])
  <2>1. /\ current[p] \in Session /\ new \in Seq(Entry) /\ Len(new) \in Nat \ {0}
        /\ log' = [log EXCEPT ![current[p]] = log[current[p]] \o new]
    BY <1>2, <1>4, CommitEffect
  <2> HIDE DEF new
  <2>2. current[p] = s
    BY <1>2, <2>1 DEF TypeOK
  <2>3. mem[p] = log[s] /\ mem[p] \in Seq(Entry) /\ log'[s] = mem[p] \o new
    BY <1>2, <1>4, <2>1, <2>2, WriterKnowsLog DEF TypeOK
  <2>4. /\ Len(mem[p]) \in Nat
        /\ Len(mem[p] \o new) = Len(mem[p]) + Len(new)
        /\ SubSeq(mem[p] \o new, 1, Len(mem[p])) = mem[p]
    BY <2>1, <2>3, LenProperties, ConcatProperties, SubSeqProperties
  <2>5. Len(log'[s]) > Len(mem[p])
    BY <2>1, <2>3, <2>4
  <2> QED BY <2>2, <2>3, <2>4, <2>5
<1> QED BY <1>1, <1>3, <1>4

\* An append to a session nobody cleared extends exactly the log its writer
\* had in memory.
THEOREM AppendsInSight == Spec => AppendInSight
<1>1. StoreInv /\ [Next]_vars => [InSight]_vars
  BY InSightStep
<1> QED BY <1>1, StoreInvariant, PTL DEF Spec, AppendInSight, InSight

-----------------------------------------------------------------------------
(* The plan facts of a log.                                                *)

\* Every set of numbers that is not empty has a least one: what an induction over
\* the positions of a log rests on.
LEMMA LeastNatural ==
    ASSUME NEW T, T \subseteq Nat, T # {}
    PROVE  \E x \in T : \A y \in T : x <= y
<1> DEFINE R == {ss \in Nat \X Nat : ss[1] < ss[2]}
<1>1. IsWellFoundedOn(R, Nat)
  BY NatLessThanWellFounded DEF OpToRel
<1>0. \A y, z \in Nat : y < z => <<y, z>> \in R
  <2> SUFFICES ASSUME NEW y \in Nat, NEW z \in Nat, y < z PROVE <<y, z>> \in R
    OBVIOUS
  <2>1. <<y, z>> \in Nat \X Nat /\ <<y, z>>[1] < <<y, z>>[2]
    OBVIOUS
  <2> QED BY <2>1
<1> HIDE DEF R
<1>2. PICK x \in T : \A y \in T : ~ (<<y, x>> \in R)
  BY <1>1, WFMin
<1>3. \A y \in T : x <= y
  <2> SUFFICES ASSUME NEW y \in T PROVE x <= y
    OBVIOUS
  <2>1. ~(<<y, x>> \in R)
    BY <1>2
  <2>2. ~(y < x)
    BY <1>0, <2>1
  <2> QED BY <2>2
<1> QED BY <1>3

\* One entry more.
LEMMA CountStep ==
    ASSUME NEW e, NEW i \in Nat \ {0}
    PROVE  /\ PlansBefore(e, 0) = 0
           /\ PlansBefore(e, i - 1) \in Nat
           /\ PlansBefore(e, i) = IF e[i].plan # 0 THEN PlansBefore(e, i - 1) + 1
                                  ELSE PlansBefore(e, i - 1)
<1> DEFINE S == {j \in 1..(i - 1) : e[j].plan # 0}
           T == {j \in 1..i : e[j].plan # 0}
<1>1. {j \in 1..0 : e[j].plan # 0} = {}
  OBVIOUS
<1>2. IsFiniteSet(S) /\ Cardinality(S) \in Nat /\ i \notin S
  <2>1. IsFiniteSet(1..(i - 1))
    BY FS_Interval
  <2>2. S \in SUBSET (1..(i - 1))
    OBVIOUS
  <2> QED BY <2>1, <2>2, FS_Subset, FS_CardinalityType
<1>3. T = IF e[i].plan # 0 THEN S \cup {i} ELSE S
  OBVIOUS
<1>4. Cardinality(S \cup {i}) = Cardinality(S) + 1
  BY <1>2, FS_AddElement
<1> HIDE DEF S, T
<1>5. Cardinality(T) = IF e[i].plan # 0 THEN Cardinality(S) + 1 ELSE Cardinality(S)
  BY <1>3, <1>4
<1> QED BY <1>1, <1>2, <1>5, FS_EmptySet DEF PlansBefore, S, T

\* The revision reduce_plan arrives at is the number of plan facts.
LEMMA PlanIsCount ==
    ASSUME NEW e \in Seq(Entry), PlansAdvance(e)
    PROVE  PlanOf(e) = PlansBefore(e, Len(e))
<1> DEFINE n == Len(e)
           IsPlan(f) == f = [i \in 0..n |-> IF i = 0 THEN 0 ELSE Advance(f[i - 1], e[i].plan)]
           count == [i \in 0..n |-> PlansBefore(e, i)]
           after == CHOOSE f : IsPlan(f)
<1>1. n \in Nat
  BY LenProperties
<1>2. ASSUME NEW i \in 1..n
      PROVE  /\ PlansBefore(e, i - 1) \in Nat
             /\ Advance(PlansBefore(e, i - 1), e[i].plan) = PlansBefore(e, i)
  <2>1. /\ i \in Nat \ {0} /\ e[i] \in Entry /\ e[i].plan \in Nat
        /\ e[i].plan # 0 => e[i].plan = PlansBefore(e, i - 1) + 1
    <3>1. i \in 1..Len(e) /\ i \in Nat \ {0}
      BY <1>1, <1>2
    <3>2. e[i] \in Entry
      BY <3>1, ElementOfSeq
    <3>3. e[i].plan \in Nat
      BY <3>2, StoreAssumption DEF Entry, Payload
    <3> QED BY <3>1, <3>2, <3>3 DEF PlansAdvance
  <2> QED BY <2>1, CountStep DEF Advance
<1>3. IsPlan(count)
  <2>1. PlansBefore(e, 0) = 0
    BY CountStep, 1 \in Nat \ {0}
  <2>2. ASSUME NEW i \in 0..n
        PROVE  PlansBefore(e, i) = IF i = 0 THEN 0 ELSE Advance(count[i - 1], e[i].plan)
    <3>1. CASE i = 0
      BY <2>1, <3>1
    <3>2. CASE i # 0
      <4>1. i \in 1..n /\ i - 1 \in 0..n
        BY <1>1, <3>2
      <4> QED BY <1>2, <3>2, <4>1
    <3> QED BY <3>1, <3>2
  <2> QED BY <2>2
<1>4. IsPlan(after)
  BY <1>3
<1> HIDE DEF after, count
<1>5. ASSUME NEW i \in 0..n PROVE after[i] = PlansBefore(e, i)
  <2> DEFINE Bad == {j \in 0..n : after[j] # PlansBefore(e, j)}
  <2>1. SUFFICES ASSUME Bad # {} PROVE FALSE
    OBVIOUS
  <2>2. PICK x \in Bad : \A y \in Bad : x <= y
    <3>1. Bad \subseteq Nat
      BY <1>1
    <3> HIDE DEF Bad
    <3> QED BY <2>1, <3>1, LeastNatural
  <2>3. x \in 0..n /\ after[x] = IF x = 0 THEN 0 ELSE Advance(after[x - 1], e[x].plan)
    BY <1>4, <2>2
  <2>4. CASE x = 0
    BY <2>2, <2>3, <2>4, CountStep, 1 \in Nat \ {0}
  <2>5. CASE x # 0
    <3>1. x \in 1..n /\ x - 1 \in 0..n /\ x - 1 \notin Bad
      BY <1>1, <2>2, <2>3, <2>5
    <3>2. after[x - 1] = PlansBefore(e, x - 1)
      BY <3>1
    <3> QED BY <1>2, <2>2, <2>3, <2>5, <3>1, <3>2
  <2> QED BY <2>4, <2>5
<1>6. PlanOf(e) = after[n]
  BY DEF PlanOf, after
<1> QED BY <1>1, <1>5, <1>6

\* The plan facts before a position are those of the log up to it.
LEMMA CountInFront ==
    ASSUME NEW e \in Seq(Entry), NEW new \in Seq(Entry), NEW i \in 0..Len(e)
    PROVE  PlansBefore(e \o new, i) = PlansBefore(e, i)
<1>1. \A j \in 1..i : (e \o new)[j] = e[j]
  BY LenProperties, ConcatProperties
<1>2. {j \in 1..i : (e \o new)[j].plan # 0} = {j \in 1..i : e[j].plan # 0}
  BY <1>1
<1> QED BY <1>2 DEF PlansBefore

\* A batch computed from the plan of a log advances it.
LEMMA PlansExtend ==
    ASSUME NEW e \in Seq(Entry), PlansAdvance(e), NEW new \in Seq(Entry),
           NEW n, n = PlanOf(e) + 1,
           \/ Len(new) = 1 /\ new[1].plan \in {0, n}
           \/ Len(new) = 2 /\ new[1].plan = 0 /\ new[2].plan = n
    PROVE  PlansAdvance(e \o new)
<1> DEFINE all == e \o new
           m == Len(e)
<1>1. /\ m \in Nat /\ Len(new) \in {1, 2} /\ Len(all) = m + Len(new)
      /\ \A i \in 1..m : all[i] = e[i]
      /\ \A i \in 1..Len(new) : all[m + i] = new[i]
  BY LenProperties, ConcatProperties
<1>2. \A i \in 0..m : PlansBefore(all, i) = PlansBefore(e, i)
  BY CountInFront
<1>3. n = PlansBefore(all, m) + 1
  BY <1>1, <1>2, PlanIsCount
<1> HIDE DEF all
<1>4. SUFFICES ASSUME NEW i \in 1..Len(all), all[i].plan # 0
               PROVE  all[i].plan = PlansBefore(all, i - 1) + 1
  BY DEF PlansAdvance, all
<1>5. CASE i <= m
  <2>1. i \in 1..m /\ i - 1 \in 0..m
    BY <1>1, <1>5
  <2> QED BY <1>1, <1>2, <1>4, <2>1 DEF PlansAdvance
<1>6. CASE i = m + 1
  <2>1. all[i] = new[1]
    BY <1>1, <1>6
  <2> QED BY <1>1, <1>3, <1>4, <1>6, <2>1
<1>7. CASE i = m + 2
  <2>1. Len(new) = 2 /\ all[i] = new[2] /\ all[m + 1] = new[1] /\ new[1].plan = 0
    BY <1>1, <1>7
  <2>2. PlansBefore(all, m + 1) = PlansBefore(all, m)
    <3>1. m + 1 \in Nat \ {0} /\ (m + 1) - 1 = m
      BY <1>1
    <3>2. all[m + 1].plan = 0
      BY <2>1
    <3> HIDE DEF all
    <3> QED BY <3>1, <3>2, CountStep
  <2>3. i - 1 = m + 1 /\ new[2].plan = n
    BY <1>1, <1>7, <2>1
  <2> QED BY <1>3, <2>1, <2>2, <2>3
<1>8. i <= m \/ i = m + 1 \/ i = m + 2
  <2>1. i \in Nat /\ i <= m + Len(new)
    BY <1>1
  <2> QED BY <1>1, <2>1
<1> QED BY <1>5, <1>6, <1>7, <1>8

\* A batch is computed from the memory of its writer, which stays until the end
\* of the append.
BatchOfMemory ==
    \A p \in Process : pc[p] \in {"reading", "writing"} => batch[p] \in Batches(p)

PlanInv == StoreInv /\ BatchOfMemory /\ UnclearedPlansAdvance

\* What a batch turns the log into.
LEMMA BatchExtends ==
    ASSUME TypeOK, NEW p \in Process, batch[p] \in Batches(p), PlansAdvance(mem[p]),
           RoomFor(batch[p])
    PROVE  PlansAdvance(mem[p] \o Chained(batch[p], memLeaf[p]))
<1> DEFINE n == PlanOf(mem[p]) + 1
           new == Chained(batch[p], memLeaf[p])
<1>1. /\ mem[p] \in Seq(Entry) /\ batch[p] \in Seq(Payload)
      /\ memLeaf[p] \in 0..fresh /\ fresh \in 0..MaxEntries
  BY DEF TypeOK
<1>2. /\ new \in Seq(Entry) /\ Len(new) = Len(batch[p])
      /\ \A i \in 1..Len(batch[p]) : new[i].plan = batch[p][i]
  BY <1>1, ChainedBatch DEF Chained
<1>3. batch[p] = <<0>> \/ batch[p] = <<n>> \/ batch[p] = <<0, n>>
  BY DEF Batches
<1>4. \/ Len(new) = 1 /\ new[1].plan \in {0, n}
      \/ Len(new) = 2 /\ new[1].plan = 0 /\ new[2].plan = n
  <2>1. Len(<<0>>) = 1 /\ <<0>>[1] = 0 /\ Len(<<n>>) = 1 /\ <<n>>[1] = n
        /\ Len(<<0, n>>) = 2 /\ <<0, n>>[1] = 0 /\ <<0, n>>[2] = n
    OBVIOUS
  <2> HIDE DEF n, new
  <2>2. CASE batch[p] = <<0>>
    BY <1>2, <2>1, <2>2
  <2>3. CASE batch[p] = <<n>>
    BY <1>2, <2>1, <2>3
  <2>4. CASE batch[p] = <<0, n>>
    BY <1>2, <2>1, <2>4
  <2> QED BY <1>3, <2>2, <2>3, <2>4
<1>5. PlansAdvance(mem[p] \o new)
  <2> HIDE DEF new
  <2> QED BY <1>1, <1>2, <1>4, PlansExtend
<1> QED BY <1>5

LEMMA BatchStep == TypeOK /\ BatchOfMemory /\ [Next]_vars => BatchOfMemory'
<1> SUFFICES ASSUME TypeOK, BatchOfMemory, [Next]_vars,
                    NEW q \in Process, pc'[q] \in {"reading", "writing"}
             PROVE  batch'[q] \in Batches(q)'
  BY DEF BatchOfMemory
<1>1. ASSUME mem'[q] = mem[q], batch'[q] \in Batches(q)
      PROVE  batch'[q] \in Batches(q)'
  BY <1>1 DEF Batches
<1>2. ASSUME mem'[q] = mem[q], batch'[q] = batch[q], pc[q] \in {"reading", "writing"}
      PROVE  batch'[q] \in Batches(q)'
  BY <1>1, <1>2 DEF BatchOfMemory
<1> USE DEF dbVars, procVars
<1>3. ASSUME NEW p \in Process, NEW b \in Batches(p), CreateStore(p, b) \/ BeginAppend(p, b)
      PROVE  batch'[q] \in Batches(q)'
  <2>1. /\ mem' = mem /\ pc' = [pc EXCEPT ![p] = "reading"]
        /\ batch' = [batch EXCEPT ![p] = b]
    BY <1>3 DEF CreateStore, BeginAppend
  <2>2. CASE p = q
    BY <1>1, <2>1, <2>2 DEF TypeOK
  <2>3. CASE p # q
    BY <1>2, <2>1, <2>3 DEF TypeOK
  <2> QED BY <2>2, <2>3
<1>4. ASSUME NEW p \in Process, ReadLog(p) PROVE batch'[q] \in Batches(q)'
  BY <1>2, <1>4 DEF ReadLog, TypeOK
<1>5. ASSUME NEW p \in Process,
             \/ Commit(p) \/ AppendFails(p) \/ Clear(p) \/ Resume(p)
             \/ LoadEntries(p) \/ LoadFails(p) \/ Relaunch(p)
      PROVE  /\ pc'[p] \notin {"reading", "writing"}
             /\ p # q => pc'[q] = pc[q] /\ mem'[q] = mem[q] /\ batch'[q] = batch[q]
  <2>1. CASE Commit(p) \/ AppendFails(p) \/ Clear(p)
    BY <2>1 DEF Commit, Write, AppendFails, Clear, TypeOK
  <2>2. CASE Resume(p) \/ LoadEntries(p) \/ LoadFails(p) \/ Relaunch(p)
    BY SMTT(20), <2>2 DEF Resume, OpenStore, LoadEntries, LoadFails, Relaunch, Restart, TypeOK
  <2> QED BY <1>5, <2>1, <2>2
<1>6. CASE UNCHANGED vars
  BY <1>2, <1>6 DEF vars
<1> QED BY <1>2, <1>3, <1>4, <1>5, <1>6 DEF Next, StartAppend

\* In a session nobody cleared a batch is appended to the log it was computed from.
LEMMA PlanStep == PlanInv /\ [Next]_vars => UnclearedPlansAdvance'
<1> SUFFICES ASSUME PlanInv, [Next]_vars, NEW s \in Session, s \notin cleared'
             PROVE  PlansAdvance(log'[s])
  BY DEF UnclearedPlansAdvance
<1> USE DEF dbVars, procVars
<1>0. TypeOK /\ ChainOK /\ WriterSawLog
  BY DEF PlanInv, StoreInv
<1>1. ASSUME s \notin cleared, log'[s] = log[s] PROVE PlansAdvance(log'[s])
  BY <1>1 DEF PlanInv, UnclearedPlansAdvance
<1>2. ASSUME NEW p \in Process, Commit(p) PROVE PlansAdvance(log'[s])
  <2> DEFINE new == Chained(batch[p], memLeaf[p])
  <2>1. /\ cleared' = cleared /\ pc[p] = "writing" /\ RoomFor(batch[p])
        /\ log' = [log EXCEPT ![current[p]] = log[current[p]] \o new]
    BY <1>2 DEF Commit, Write
  <2> HIDE DEF new
  <2>2. CASE s # current[p]
    BY <1>0, <1>1, <2>1, <2>2 DEF TypeOK
  <2>3. CASE s = current[p]
    <3>1. mem[p] = log[s]
      BY <1>0, <1>2, <2>1, <2>3, WriterKnowsLog
    <3>2. PlansAdvance(mem[p]) /\ batch[p] \in Batches(p)
      BY <2>1, <3>1 DEF PlanInv, UnclearedPlansAdvance, BatchOfMemory
    <3>3. PlansAdvance(mem[p] \o new)
      BY <1>0, <2>1, <3>2, BatchExtends DEF new
    <3> QED BY <1>0, <2>1, <2>3, <3>1, <3>3 DEF TypeOK
  <2> QED BY <2>2, <2>3
<1>3. ASSUME NEW p \in Process, Clear(p) PROVE PlansAdvance(log'[s])
  BY <1>0, <1>1, <1>3 DEF Clear, TypeOK
<1>4. ASSUME NEW p \in Process,
             \/ StartAppend(p) \/ ReadLog(p) \/ AppendFails(p) \/ Resume(p)
             \/ LoadEntries(p) \/ LoadFails(p) \/ Relaunch(p)
      PROVE  UNCHANGED <<log, cleared>>
  BY <1>4 DEF StartAppend, CreateStore, BeginAppend, ReadLog, AppendFails, Resume, OpenStore,
              LoadEntries, LoadFails, Relaunch, Restart
<1>5. CASE UNCHANGED vars
  BY <1>1, <1>5 DEF vars
<1> QED BY <1>1, <1>2, <1>3, <1>4, <1>5 DEF Next

\* Whatever processes append to a session, read it before they write, fail or
\* die: as long as nobody clears it, its plan facts are revisions 1, 2, 3, ...,
\* each advancing the plan of those before it by one (validate_plan_append, which
\* reads the log outside the transaction that writes; reduce_plan).
THEOREM PlansAlwaysAdvance == Spec => []UnclearedPlansAdvance
<1>1. Init => BatchOfMemory /\ UnclearedPlansAdvance
  <2>1. PlansAdvance(<<>>)
    BY DEF PlansAdvance
  <2> QED BY <2>1 DEF Init, BatchOfMemory, UnclearedPlansAdvance
<1>2. Spec => []StoreInv
  BY StoreInvariant
<1>3. StoreInv /\ BatchOfMemory /\ UnclearedPlansAdvance /\ [Next]_vars
      => (BatchOfMemory /\ UnclearedPlansAdvance)'
  BY BatchStep, PlanStep DEF PlanInv, StoreInv
<1> QED BY <1>1, <1>2, <1>3, PTL DEF Spec

-----------------------------------------------------------------------------
(* The plan of a log: what the operators of PlanUpdates are made of.        *)

\* What holds of 0, and of a number when it holds of the one before, holds up to n.
LEMMA UpTo ==
    ASSUME NEW n \in Nat, NEW T, 0 \in T, \A i \in 1..n : i - 1 \in T => i \in T
    PROVE  \A i \in 0..n : i \in T
<1> DEFINE Bad == {i \in 0..n : i \notin T}
<1>1. SUFFICES ASSUME Bad # {} PROVE FALSE
  OBVIOUS
<1>2. PICK x \in Bad : \A y \in Bad : x <= y
  <2>1. Bad \subseteq Nat
    OBVIOUS
  <2> HIDE DEF Bad
  <2> QED BY <1>1, <2>1, LeastNatural
<1>3. x \in 1..n /\ x - 1 \in 0..n /\ ~ (x <= x - 1)
  OBVIOUS
<1>4. x - 1 \notin Bad
  <2> HIDE DEF Bad
  <2> QED BY <1>2, <1>3
<1> QED BY <1>3, <1>4

\* A function may be defined from its value before.
Stepped(n, B, b, step) == \E g \in [0..n -> B] : g[0] = b /\ \A i \in 1..n : g[i] = step[i][g[i - 1]]

LEMMA Stepwise ==
    ASSUME NEW n \in Nat, NEW B, NEW b \in B, NEW step, \A i \in 1..n : \A x \in B : step[i][x] \in B
    PROVE  Stepped(n, B, b, step)
<1> DEFINE Steps(g, k) == g[0] = b /\ \A i \in 1..k : g[i] = step[i][g[i - 1]]
           T == {k \in 0..n : \E g \in [0..k -> B] : Steps(g, k)}
<1>1. 0 \in T
  <2> DEFINE g == [i \in 0..0 |-> b]
  <2>1. g \in [0..0 -> B] /\ Steps(g, 0)
    OBVIOUS
  <2>2. 0 \in 0..n
    OBVIOUS
  <2> HIDE DEF g
  <2> QED BY <2>1, <2>2
<1>2. ASSUME NEW k \in 1..n, k - 1 \in T PROVE k \in T
  <2>1. PICK g \in [0..k - 1 -> B] : Steps(g, k - 1)
    BY <1>2
  <2> DEFINE h == [i \in 0..k |-> IF i = k THEN step[k][g[k - 1]] ELSE g[i]]
  <2>2. k \in Nat /\ k # 0 /\ k - 1 \in 0..k - 1 /\ k \in 0..n /\ k \in 0..k /\ 0 \in 0..k
    OBVIOUS
  <2>3. g[k - 1] \in B /\ step[k][g[k - 1]] \in B
    BY <2>1, <2>2
  <2>4. h \in [0..k -> B]
    <3>1. \A i \in 0..k : i # k => i \in 0..k - 1
      BY <2>2
    <3> QED BY <2>3, <3>1
  <2>5. h[0] = b
    BY <2>1, <2>2
  <2>6. ASSUME NEW i \in 1..k PROVE h[i] = step[i][h[i - 1]]
    <3>1. i \in 0..k /\ i - 1 \in 0..k /\ i - 1 # k
      OBVIOUS
    <3>2. h[i - 1] = g[i - 1]
      BY <3>1
    <3>3. CASE i = k
      BY <3>1, <3>2, <3>3
    <3>4. CASE i # k
      <4>1. i \in 1..k - 1 /\ h[i] = g[i]
        BY <3>1, <3>4
      <4> QED BY <2>1, <3>2, <4>1
    <3> QED BY <3>3, <3>4
  <2> HIDE DEF h
  <2> QED BY <2>2, <2>4, <2>5, <2>6
<1> HIDE DEF T
<1>3. \A k \in 0..n : k \in T
  BY <1>1, <1>2, UpTo
<1>4. n \in T
  BY <1>3
<1> QED BY <1>4 DEF T, Stepped

\* A plan is no error.
LEMMA PlanOrError ==
    /\ \A p \in PlanSnapshot : ~ Failed(p)
    /\ Failed(Invalid) /\ Failed(Conflict)
    /\ Invalid \notin PlanSnapshot /\ Conflict \notin PlanSnapshot
<1>1. ASSUME NEW p \in PlanSnapshot PROVE DOMAIN p = {"revision", "items", "explanation"}
  BY DEF PlanSnapshot
<1>2. \A p \in PlanSnapshot : ~ Failed(p)
  BY <1>1 DEF Failed
<1>3. Failed(Invalid) /\ Failed(Conflict)
  BY DEF Failed, Invalid, Conflict
<1> QED BY <1>2, <1>3

LEMMA TextTrimmed ==
    /\ NoText = Written("no text", FALSE) /\ NoText \notin Text /\ Trim(NoText) = NoText
    /\ NoText.word = "no text" /\ ~ NoText.blanks
    /\ \A t \in Text : /\ Trim(t) \in Text /\ Trim(t) # NoText /\ ~ Trim(t).blanks
                       /\ Trim(t).word = t.word /\ Trim(Trim(t)) = Trim(t)
                       /\ ~ t.blanks => Trim(t) = t
<1>1. NoText.word = "no text" /\ NoText.blanks = FALSE
  BY DEF NoText, Written
<1>2. NoText \notin Text
  BY <1>1 DEF Text
<1>3. ASSUME NEW t \in Text
      PROVE  /\ Trim(t) \in Text /\ ~ Trim(t).blanks /\ Trim(t).word = t.word /\ Trim(Trim(t)) = Trim(t)
             /\ ~ t.blanks => Trim(t) = t
  <2>1. t.word \in STRING \ {NoText.word} /\ t.blanks \in BOOLEAN
        /\ t = [word |-> t.word, blanks |-> t.blanks]
    BY DEF Text
  <2>2. Trim(t).word = t.word /\ Trim(t).blanks = FALSE
    BY DEF Trim, Written
  <2>3. Trim(t) \in Text
    BY <2>1 DEF Trim, Written, Text
  <2>4. Trim(Trim(t)) = Trim(t)
    BY <2>2 DEF Trim, Written
  <2>5. ASSUME ~ t.blanks PROVE Trim(t) = t
    <3>1. t.blanks = FALSE
      BY <2>1, <2>5
    <3> QED BY <2>1, <3>1 DEF Trim, Written
  <2> QED BY <2>2, <2>3, <2>4, <2>5
<1>4. Trim(NoText) = NoText
  BY <1>1 DEF Trim, NoText, Written
<1>5. NoText = Written("no text", FALSE)
  BY DEF NoText
<1>6. \A t \in Text : Trim(t) # NoText
  BY <1>2, <1>3
<1> QED BY <1>1, <1>2, <1>3, <1>4, <1>5, <1>6

\* One item less.
LEMMA RemoveAtShape ==
    ASSUME NEW S, NEW s \in Seq(S), NEW at \in 1..Len(s)
    PROVE  /\ RemoveAt(s, at) \in Seq(S) /\ Len(RemoveAt(s, at)) = Len(s) - 1
           /\ \A i \in 1..Len(s) - 1 : RemoveAt(s, at)[i] = IF i < at THEN s[i] ELSE s[i + 1]
<1> DEFINE n == Len(s)
           front == SubSeq(s, 1, at - 1)
           back == SubSeq(s, at + 1, n)
<1>1. n \in Nat /\ at \in Nat /\ at \in 1..n /\ \A i \in 1..n : s[i] \in S
  BY LenProperties, ElementOfSeq
<1>2. front \in Seq(S) /\ Len(front) = at - 1 /\ \A i \in 1..at - 1 : front[i] = s[i]
  <2>1. \A i \in 1..at - 1 : s[i] \in S
    BY <1>1
  <2>2. /\ front \in Seq(S) /\ Len(front) = IF 1 <= at - 1 THEN at - 1 - 1 + 1 ELSE 0
        /\ \A i \in 1..at - 1 - 1 + 1 : front[i] = s[1 + i - 1]
    BY <1>1, <2>1, SubSeqProperties
  <2> HIDE DEF front
  <2>3. (IF 1 <= at - 1 THEN at - 1 - 1 + 1 ELSE 0) = at - 1
    BY <1>1
  <2>4. \A i \in 1..at - 1 : i \in 1..at - 1 - 1 + 1 /\ 1 + i - 1 = i
    BY <1>1
  <2> QED BY <2>2, <2>3, <2>4
<1>3. back \in Seq(S) /\ Len(back) = n - at /\ \A i \in 1..n - at : back[i] = s[at + i]
  <2>1. \A i \in at + 1..n : s[i] \in S
    BY <1>1
  <2>2. /\ back \in Seq(S) /\ Len(back) = IF at + 1 <= n THEN n - (at + 1) + 1 ELSE 0
        /\ \A i \in 1..n - (at + 1) + 1 : back[i] = s[at + 1 + i - 1]
    BY <1>1, <2>1, SubSeqProperties
  <2> HIDE DEF back, n
  <2>3. (IF at + 1 <= n THEN n - (at + 1) + 1 ELSE 0) = n - at
    BY <1>1
  <2>4. \A i \in 1..n - at : i \in 1..n - (at + 1) + 1 /\ at + 1 + i - 1 = at + i
    BY <1>1
  <2> QED BY <2>2, <2>3, <2>4
<1> HIDE DEF front, back
<1> DEFINE out == front \o back
<1>4. /\ out \in Seq(S) /\ Len(out) = Len(front) + Len(back)
      /\ \A i \in 1..Len(front) + Len(back) : out[i] = IF i <= Len(front) THEN front[i] ELSE back[i - Len(front)]
  BY <1>2, <1>3, ConcatProperties
<1>5. RemoveAt(s, at) = out
  BY DEF RemoveAt, front, back
<1> HIDE DEF out, n
<1>6. Len(out) = n - 1
  BY <1>1, <1>2, <1>3, <1>4
<1>7. ASSUME NEW i \in 1..n - 1 PROVE out[i] = IF i < at THEN s[i] ELSE s[i + 1]
  <2>1. i \in 1..Len(front) + Len(back)
    BY <1>1, <1>2, <1>3
  <2>2. CASE i < at
    <3>1. i <= Len(front) /\ i \in 1..at - 1
      BY <1>1, <1>2, <2>2
    <3> QED BY <1>2, <1>4, <2>1, <2>2, <3>1
  <2>3. CASE ~ (i < at)
    <3>1. ~ (i <= Len(front)) /\ i - Len(front) = i - at + 1 /\ i - at + 1 \in 1..n - at
          /\ at + (i - at + 1) = i + 1
      BY <1>1, <1>2, <2>3
    <3>2. out[i] = back[i - at + 1]
      BY <1>4, <2>1, <3>1
    <3>3. back[i - at + 1] = s[at + (i - at + 1)]
      BY <1>3, <3>1
    <3> QED BY <2>3, <3>1, <3>2, <3>3
  <2> QED BY <2>2, <2>3
<1> QED BY <1>4, <1>5, <1>6, <1>7 DEF n

-----------------------------------------------------------------------------
(* What the first patches of a call make of the items of a plan: which      *)
(* places of Intended are left, and what is there, its text as written.      *)

Changed(item, p) == [item EXCEPT !.text = IF p.text = NoText THEN @ ELSE p.text,
                                 !.status = IF p.status = "none" THEN @ ELSE p.status]
Added(p) == [id |-> Trim(p.id), text |-> p.text,
             status |-> IF p.status = "none" THEN "pending" ELSE p.status]

NamedBy(items, patches, k, i) == {j \in 1..k : Trim(patches[j].id) = items[i].id}

AfterAt(items, patches, k, i) ==
    IF i <= Len(items)
      THEN IF NamedBy(items, patches, k, i) = {} THEN items[i]
           ELSE Changed(items[i], patches[CHOOSE j \in NamedBy(items, patches, k, i) : TRUE])
      ELSE Added(patches[i - Len(items)])

Left(items, patches, k) ==
    {i \in 1..Len(items) : \A j \in NamedBy(items, patches, k, i) : ~ patches[j].remove}
      \cup {i \in Len(items) + 1..Len(items) + k : Trim(patches[i - Len(items)].id) \notin IdsOf(items)}

\* No two items have an id; a patch that can be applied after those before it.
Distinct(items) == \A i, j \in 1..Len(items) : items[i].id = items[j].id => i = j

PatchOk(items, patches, j) ==
    LET p == patches[j]
        held == Trim(p.id) \in IdsOf(items)
    IN  /\ ~ Empty(p.id) /\ ~ Seen(patches, j)
        /\ p.remove => held /\ p.text = NoText /\ p.status = "none"
        /\ ~ p.remove => IF held THEN p.text # NoText \/ p.status # "none" ELSE p.text # NoText
PatchesOk(items, patches, k) == \A j \in 1..k : PatchOk(items, patches, j)

\* q goes through the numbers of a set in their order.
Enumerates(q, n, K) ==
    /\ q \in [1..n -> K]
    /\ \A i, j \in 1..n : i < j => q[i] < q[j]
    /\ \A x \in K : \E i \in 1..n : q[i] = x

\* The items are what the first k patches make of the plan.
FollowsBy(items, patches, k, made, q) ==
    /\ Enumerates(q, Len(made), Left(items, patches, k))
    /\ \A i \in 1..Len(made) : made[i] = AfterAt(items, patches, k, q[i])
Follows(items, patches, k, made) == \E q : FollowsBy(items, patches, k, made, q)

LEMMA ItemTyped ==
    ASSUME NEW items \in Seq(PlanItem)
    PROVE  /\ Len(items) \in Nat /\ DOMAIN items = 1..Len(items)
           /\ \A i \in 1..Len(items) : /\ items[i] \in PlanItem /\ items[i].id \in Text
                                       /\ items[i].text \in Text /\ items[i].status \in PlanStatus
           /\ \A id : id \in IdsOf(items) <=> \E i \in 1..Len(items) : items[i].id = id
<1>1. Len(items) \in Nat /\ DOMAIN items = 1..Len(items) /\ \A i \in 1..Len(items) : items[i] \in PlanItem
  BY LenProperties, ElementOfSeq
<1>2. \A item \in PlanItem : item.id \in Text /\ item.text \in Text /\ item.status \in PlanStatus
  BY DEF PlanItem
<1> QED BY <1>1, <1>2 DEF IdsOf

LEMMA PatchTyped ==
    ASSUME NEW patches \in Seq(PlanItemPatch)
    PROVE  /\ Len(patches) \in Nat /\ DOMAIN patches = 1..Len(patches)
           /\ \A j \in 1..Len(patches) :
                /\ patches[j] \in PlanItemPatch /\ patches[j].id \in Text
                /\ patches[j].text \in Text \cup {NoText} /\ patches[j].status \in PlanStatus \cup {"none"}
                /\ patches[j].remove \in BOOLEAN
<1>1. /\ Len(patches) \in Nat /\ DOMAIN patches = 1..Len(patches)
      /\ \A j \in 1..Len(patches) : patches[j] \in PlanItemPatch
  BY LenProperties, ElementOfSeq
<1>2. \A p \in PlanItemPatch : /\ p.id \in Text /\ p.text \in Text \cup {NoText}
                               /\ p.status \in PlanStatus \cup {"none"} /\ p.remove \in BOOLEAN
  BY DEF PlanItemPatch
<1> QED BY <1>1, <1>2

LEMMA ItemChanged ==
    ASSUME NEW item \in PlanItem, NEW p \in PlanItemPatch
    PROVE  /\ Changed(item, p) \in PlanItem /\ Changed(item, p).id = item.id
           /\ Changed(item, p) = [id |-> item.id,
                                  text |-> IF p.text = NoText THEN item.text ELSE p.text,
                                  status |-> IF p.status = "none" THEN item.status ELSE p.status]
<1>1. /\ p.text \in Text \cup {NoText} /\ p.status \in PlanStatus \cup {"none"} /\ p.id \in Text
      /\ item.id \in Text /\ item.text \in Text /\ item.status \in PlanStatus
      /\ item = [id |-> item.id, text |-> item.text, status |-> item.status]
  BY DEF PlanItem, PlanItemPatch
<1> DEFINE text == IF p.text = NoText THEN item.text ELSE p.text
           status == IF p.status = "none" THEN item.status ELSE p.status
<1>2. text \in Text /\ status \in PlanStatus
  BY <1>1
<1>3. Changed(item, p) = [item EXCEPT !.text = text, !.status = status]
  BY DEF Changed
<1> HIDE DEF text, status
<1>4. [item EXCEPT !.text = text, !.status = status] = [id |-> item.id, text |-> text, status |-> status]
  <2> DEFINE retold == [item EXCEPT !.text = text]
  <2>1. [item EXCEPT !.text = text, !.status = status] = [retold EXCEPT !.status = status]
    OBVIOUS
  <2>2. retold = [id |-> item.id, text |-> text, status |-> item.status]
    BY <1>1
  <2> HIDE DEF retold
  <2>3. [retold EXCEPT !.status = status] = [id |-> item.id, text |-> text, status |-> status]
    BY <2>2
  <2> QED BY <2>1, <2>3
<1>5. [id |-> item.id, text |-> text, status |-> status] \in PlanItem
  BY <1>1, <1>2 DEF PlanItem
<1> QED BY <1>3, <1>4, <1>5 DEF text, status

LEMMA ItemAdded ==
    ASSUME NEW p \in PlanItemPatch, p.text # NoText
    PROVE  Added(p) \in PlanItem
<1>1. p.text \in Text /\ p.id \in Text /\ p.status \in PlanStatus \cup {"none"}
  BY DEF PlanItemPatch
<1>2. Trim(p.id) \in Text
  BY <1>1, TextTrimmed
<1>3. (IF p.status = "none" THEN "pending" ELSE p.status) \in PlanStatus
  BY <1>1 DEF PlanStatus
<1> QED BY <1>1, <1>2, <1>3 DEF Added, PlanItem

\* What patch k does to the places.
LEMMA PlacesStep ==
    ASSUME NEW items \in Seq(PlanItem), Distinct(items), NEW patches \in Seq(PlanItemPatch),
           NEW k \in 1..Len(patches), ~ Seen(patches, k)
    PROVE  LET id == Trim(patches[k].id)
               N == Len(items)
               old == Left(items, patches, k - 1)
           IN  /\ \A i \in 1..N : items[i].id # id =>
                     AfterAt(items, patches, k, i) = AfterAt(items, patches, k - 1, i)
               /\ \A i \in 1..N : items[i].id = id =>
                     /\ AfterAt(items, patches, k - 1, i) = items[i]
                     /\ AfterAt(items, patches, k, i) = Changed(items[i], patches[k])
                     /\ i \in old
               /\ \A i \in N + 1..N + k : AfterAt(items, patches, k, i) = AfterAt(items, patches, k - 1, i)
               /\ AfterAt(items, patches, k, N + k) = Added(patches[k])
               /\ \A i \in Left(items, patches, k) : i \in 1..N + k
               /\ Left(items, patches, k) =
                    (old \ {i \in 1..N : items[i].id = id /\ patches[k].remove})
                      \cup (IF id \in IdsOf(items) THEN {} ELSE {N + k})
<1> DEFINE id == Trim(patches[k].id)
           N == Len(items)
           For(m, i) == NamedBy(items, patches, m, i)
<1>1. N \in Nat /\ k \in Nat /\ k # 0 /\ k - 1 \in Nat
  BY ItemTyped, PatchTyped
<1>2. \A j \in 1..k - 1 : Trim(patches[j].id) # id
  BY DEF Seen
<1>3. ASSUME NEW i \in 1..N PROVE For(k, i) = IF items[i].id = id THEN {k} ELSE For(k - 1, i)
  <2>1. \A j : j \in 1..k <=> j = k \/ j \in 1..k - 1
    BY <1>1
  <2>2. CASE items[i].id = id
    BY <1>2, <2>1, <2>2 DEF NamedBy
  <2>3. CASE items[i].id # id
    BY <1>2, <2>1, <2>3 DEF NamedBy
  <2> QED BY <2>2, <2>3
<1>4. ASSUME NEW i \in 1..N, items[i].id = id PROVE For(k - 1, i) = {}
  BY <1>2, <1>4 DEF NamedBy
<1>5. ASSUME NEW i \in 1..N, items[i].id # id
      PROVE  AfterAt(items, patches, k, i) = AfterAt(items, patches, k - 1, i)
  <2>1. For(k, i) = For(k - 1, i)
    BY <1>3, <1>5
  <2> QED BY <2>1 DEF AfterAt
<1>6. ASSUME NEW i \in 1..N, items[i].id = id
      PROVE  /\ AfterAt(items, patches, k - 1, i) = items[i]
             /\ AfterAt(items, patches, k, i) = Changed(items[i], patches[k])
             /\ i \in Left(items, patches, k - 1)
  <2>1. i <= Len(items) /\ For(k - 1, i) = {} /\ For(k, i) = {k}
    BY <1>1, <1>3, <1>4, <1>6
  <2>2. (CHOOSE j \in {k} : TRUE) = k
    OBVIOUS
  <2>3. AfterAt(items, patches, k - 1, i) = items[i]
    BY <2>1 DEF AfterAt
  <2>4. AfterAt(items, patches, k, i) = Changed(items[i], patches[k])
    BY <2>1, <2>2 DEF AfterAt
  <2>5. i \in Left(items, patches, k - 1)
    BY <2>1 DEF Left
  <2> QED BY <2>3, <2>4, <2>5
<1>7. ASSUME NEW i \in N + 1..N + k
      PROVE  /\ AfterAt(items, patches, k, i) = AfterAt(items, patches, k - 1, i)
             /\ AfterAt(items, patches, k, i) = Added(patches[i - N])
  <2>1. ~ (i <= Len(items))
    BY <1>1
  <2> QED BY <2>1 DEF AfterAt
<1>8. AfterAt(items, patches, k, N + k) = Added(patches[k])
  <2>1. N + k \in N + 1..N + k /\ (N + k) - N = k
    BY <1>1
  <2> HIDE DEF N
  <2> QED BY <1>7, <2>1
<1>9. \A i \in Left(items, patches, k) : i \in 1..N + k
  BY <1>1 DEF Left
<1> DEFINE new(m) == {i \in N + 1..N + m : Trim(patches[i - N].id) \notin IdsOf(items)}
           stay(m) == {i \in 1..N : \A j \in For(m, i) : ~ patches[j].remove}
<1>10. new(k) = new(k - 1) \cup (IF id \in IdsOf(items) THEN {} ELSE {N + k})
  <2>1. \A i : i \in N + 1..N + k <=> i = N + k \/ i \in N + 1..N + (k - 1)
    BY <1>1
  <2>2. (N + k) - N = k
    BY <1>1
  <2> HIDE DEF N
  <2>3. ASSUME NEW i PROVE i \in new(k) <=> i \in new(k - 1) \/ (i = N + k /\ id \notin IdsOf(items))
    BY <2>1, <2>2
  <2> HIDE DEF new, id
  <2> QED BY <2>3
<1>11. stay(k) = stay(k - 1) \ {i \in 1..N : items[i].id = id /\ patches[k].remove}
  <2>1. ASSUME NEW i \in 1..N
        PROVE  i \in stay(k) <=> i \in stay(k - 1) /\ ~ (items[i].id = id /\ patches[k].remove)
    <3>1. CASE items[i].id = id
      <4>1. For(k, i) = {k} /\ For(k - 1, i) = {}
        BY <1>3, <1>4, <3>1
      <4> QED BY <3>1, <4>1
    <3>2. CASE items[i].id # id
      <4>1. For(k, i) = For(k - 1, i)
        BY <1>3, <3>2
      <4> QED BY <3>2, <4>1
    <3> QED BY <3>1, <3>2
  <2>2. \A i : i \in stay(k) => i \in 1..N
    OBVIOUS
  <2>3. \A i : i \in stay(k - 1) => i \in 1..N
    OBVIOUS
  <2> HIDE DEF stay, id, N
  <2> QED BY <2>1, <2>2, <2>3
<1>12. \A m \in {k - 1, k} : Left(items, patches, m) = stay(m) \cup new(m)
  BY DEF Left
<1>13. new(k - 1) \cap {i \in 1..N : items[i].id = id /\ patches[k].remove} = {}
  BY <1>1
<1>14. Left(items, patches, k) =
          (Left(items, patches, k - 1) \ {i \in 1..N : items[i].id = id /\ patches[k].remove})
            \cup (IF id \in IdsOf(items) THEN {} ELSE {N + k})
  <2> HIDE DEF new, stay, id, N
  <2> QED BY <1>10, <1>11, <1>12, <1>13
<1> QED BY <1>5, <1>6, <1>7, <1>8, <1>9, <1>14

\* The item at a place of the plan keeps its id.
LEMMA AfterTyped ==
    ASSUME NEW items \in Seq(PlanItem), NEW patches \in Seq(PlanItemPatch),
           NEW k \in 0..Len(patches), NEW i \in 1..Len(items)
    PROVE  /\ AfterAt(items, patches, k, i) \in PlanItem
           /\ AfterAt(items, patches, k, i).id = items[i].id
<1> DEFINE For == NamedBy(items, patches, k, i)
           j == CHOOSE m \in For : TRUE
<1>1. i <= Len(items) /\ items[i] \in PlanItem
  BY ItemTyped
<1>2. CASE For = {}
  BY <1>1, <1>2 DEF AfterAt
<1>3. CASE For # {}
  <2>1. j \in For
    BY <1>3
  <2>2. j \in 1..Len(patches)
    BY <2>1, PatchTyped DEF NamedBy
  <2>3. patches[j] \in PlanItemPatch
    BY <2>2, PatchTyped
  <2>4. AfterAt(items, patches, k, i) = Changed(items[i], patches[j])
    BY <1>1, <1>3 DEF AfterAt
  <2> HIDE DEF j
  <2> QED BY <1>1, <2>3, <2>4, ItemChanged
<1> QED BY <1>2, <1>3

\* An id is held while the patches are applied when the plan had it, and its
\* item is the one the plan had.
LEMMA KnownIs ==
    ASSUME NEW items \in Seq(PlanItem), Distinct(items), NEW patches \in Seq(PlanItemPatch),
           NEW k \in 1..Len(patches), ~ Seen(patches, k),
           NEW made \in Seq(PlanItem), NEW q, FollowsBy(items, patches, k - 1, made, q)
    PROVE  LET id == Trim(patches[k].id)
               at == PositionOf(made, id)
           IN  /\ Knows(made, id) <=> id \in IdsOf(items)
               /\ id \in IdsOf(items) =>
                     /\ at \in 1..Len(made) /\ q[at] \in 1..Len(items)
                     /\ items[q[at]].id = id /\ made[at] = items[q[at]]
<1> DEFINE id == Trim(patches[k].id)
           N == Len(items)
           n == Len(made)
           old == Left(items, patches, k - 1)
<1>1. /\ N \in Nat /\ n \in Nat /\ k - 1 \in 0..Len(patches) /\ DOMAIN made = 1..n
  BY ItemTyped, PatchTyped
<1>2. \A m \in 1..n : q[m] \in old /\ made[m] = AfterAt(items, patches, k - 1, q[m])
  BY DEF FollowsBy, Enumerates
<1>3. \A x \in old : \E m \in 1..n : q[m] = x
  BY DEF FollowsBy, Enumerates
<1>4. \A x \in old : x \in 1..N \/ x \in N + 1..N + (k - 1)
  BY DEF Left
<1> HIDE DEF old
<1>5. ASSUME NEW m \in 1..n, made[m].id = id
      PROVE  q[m] \in 1..N /\ items[q[m]].id = id /\ made[m] = items[q[m]]
  <2>1. CASE q[m] \in N + 1..N + (k - 1)
    <3>1. ~ (q[m] <= N) /\ q[m] - N \in 1..k - 1
      BY <1>1, <2>1
    <3>2. made[m] = Added(patches[q[m] - N])
      BY <1>2, <3>1 DEF AfterAt
    <3>3. Trim(patches[q[m] - N].id) = id
      BY <1>5, <3>2 DEF Added
    <3> QED BY <3>1, <3>3 DEF Seen
  <2>2. CASE q[m] \in 1..N
    <3>1. items[q[m]].id = id
      BY <1>1, <1>2, <1>5, <2>2, AfterTyped
    <3> QED BY <1>2, <2>2, <3>1, PlacesStep
  <2> QED BY <1>2, <1>4, <2>1, <2>2
<1>6. ASSUME NEW i \in 1..N, items[i].id = id PROVE \E m \in 1..n : made[m].id = id
  <2>1. i \in old /\ AfterAt(items, patches, k - 1, i) = items[i]
    BY <1>6, PlacesStep DEF old
  <2>2. PICK m \in 1..n : q[m] = i
    BY <1>3, <2>1
  <2> QED BY <1>2, <1>6, <2>1, <2>2
<1>7. Knows(made, id) <=> \E m \in 1..n : made[m].id = id
  BY <1>1 DEF Knows
<1>8. id \in IdsOf(items) <=> \E i \in 1..N : items[i].id = id
  BY ItemTyped
<1>9. ASSUME id \in IdsOf(items) PROVE PositionOf(made, id) \in 1..n /\ made[PositionOf(made, id)].id = id
  <2>1. \E m \in 1..n : made[m].id = id
    BY <1>6, <1>8, <1>9
  <2> QED BY <1>1, <2>1 DEF PositionOf
<1> HIDE DEF id, N, n
<1>10. Knows(made, id) <=> id \in IdsOf(items)
  BY <1>5, <1>6, <1>7, <1>8
<1>11. ASSUME id \in IdsOf(items)
       PROVE  LET at == PositionOf(made, id) IN
              /\ at \in 1..n /\ q[at] \in 1..N /\ items[q[at]].id = id /\ made[at] = items[q[at]]
  BY <1>5, <1>9, <1>11
<1> QED BY <1>10, <1>11 DEF id, N, n

\* One patch that takes an item away.
LEMMA RemoveFollows ==
    ASSUME NEW items \in Seq(PlanItem), Distinct(items), NEW patches \in Seq(PlanItemPatch),
           NEW k \in 1..Len(patches), ~ Seen(patches, k), patches[k].remove,
           Trim(patches[k].id) \in IdsOf(items),
           NEW made \in Seq(PlanItem), NEW q, FollowsBy(items, patches, k - 1, made, q)
    PROVE  LET after == RemoveAt(made, PositionOf(made, Trim(patches[k].id)))
           IN  after \in Seq(PlanItem) /\ Follows(items, patches, k, after)
<1> DEFINE id == Trim(patches[k].id)
           at == PositionOf(made, id)
           after == RemoveAt(made, at)
           n == Len(made)
           old == Left(items, patches, k - 1)
           new == Left(items, patches, k)
           q2 == [m \in 1..n - 1 |-> IF m < at THEN q[m] ELSE q[m + 1]]
<1>1. n \in Nat /\ at \in 1..n /\ q[at] \in 1..Len(items) /\ items[q[at]].id = id
  BY KnownIs, ItemTyped
<1>2. new = old \ {q[at]}
  <2>1. {i \in 1..Len(items) : items[i].id = id /\ patches[k].remove} = {q[at]}
    BY <1>1 DEF Distinct
  <2>2. new = (old \ {i \in 1..Len(items) : items[i].id = id /\ patches[k].remove}) \cup {}
    BY PlacesStep
  <2> QED BY <2>1, <2>2
<1>3. /\ after \in Seq(PlanItem) /\ Len(after) = n - 1
      /\ \A m \in 1..n - 1 : after[m] = IF m < at THEN made[m] ELSE made[m + 1]
  BY <1>1, RemoveAtShape
<1>4. /\ q \in [1..n -> old] /\ \A i, j \in 1..n : i < j => q[i] < q[j]
      /\ \A x \in old : \E m \in 1..n : q[m] = x
      /\ \A m \in 1..n : made[m] = AfterAt(items, patches, k - 1, q[m])
  BY DEF FollowsBy, Enumerates
<1>5. \A x \in old : x \in Nat
  BY <1>1, ItemTyped DEF Left
<1> DEFINE from(m) == IF m < at THEN m ELSE m + 1
<1>6. \A m \in 1..n - 1 : from(m) \in 1..n /\ from(m) # at /\ q2[m] = q[from(m)]
  BY <1>1
<1>7. \A i, j \in 1..n : q[i] = q[j] => i = j
  <2> SUFFICES ASSUME NEW i \in 1..n, NEW j \in 1..n, q[i] = q[j] PROVE i = j
    OBVIOUS
  <2>1. q[i] \in Nat /\ q[j] \in Nat
    BY <1>4, <1>5
  <2>2. ~ (i < j) /\ ~ (j < i)
    BY <1>4, <2>1
  <2> QED BY <1>1, <2>2
<1> HIDE DEF after, at, old, new, n
<1>8. Enumerates(q2, n - 1, new)
  <2>1. ASSUME NEW m \in 1..n - 1 PROVE q2[m] \in new
    <3>1. q[from(m)] \in old /\ q[from(m)] # q[at]
      BY <1>1, <1>4, <1>6, <1>7
    <3> QED BY <1>2, <1>6, <3>1
  <2>2. ASSUME NEW i \in 1..n - 1, NEW j \in 1..n - 1, i < j PROVE q2[i] < q2[j]
    <3>1. from(i) < from(j)
      BY <1>1, <2>2
    <3>2. q[from(i)] < q[from(j)]
      BY <1>4, <1>6, <3>1
    <3> QED BY <1>6, <3>2
  <2>3. ASSUME NEW x \in new PROVE \E m \in 1..n - 1 : q2[m] = x
    <3>1. PICK m \in 1..n : q[m] = x
      BY <1>2, <1>4
    <3>2. m # at
      BY <1>2, <3>1
    <3>3. CASE m < at
      <4>1. m \in 1..n - 1 /\ from(m) = m
        BY <1>1, <3>3
      <4> QED BY <1>6, <3>1, <4>1
    <3>4. CASE ~ (m < at)
      <4>1. m - 1 \in 1..n - 1 /\ from(m - 1) = m
        BY <1>1, <3>2, <3>4
      <4> QED BY <1>6, <3>1, <4>1
    <3> QED BY <3>3, <3>4
  <2> HIDE DEF from
  <2>4. q2 \in [1..n - 1 -> new]
    BY <2>1
  <2> HIDE DEF q2
  <2> QED BY <2>2, <2>3, <2>4 DEF Enumerates
<1>9. ASSUME NEW m \in 1..n - 1 PROVE after[m] = AfterAt(items, patches, k, q2[m])
  <2>1. after[m] = made[from(m)] /\ from(m) \in 1..n
    BY <1>3, <1>6
  <2>2. q2[m] \in old /\ q2[m] # q[at] /\ q2[m] \in new
    BY <1>2, <1>8, <1>9 DEF Enumerates
  <2>3. made[from(m)] = AfterAt(items, patches, k - 1, q2[m])
    BY <1>4, <1>6, <2>1
  <2>4. q2[m] \in 1..Len(items) + k
    BY <2>2, PlacesStep DEF new
  <2>5. CASE q2[m] \in 1..Len(items)
    <3>1. items[q2[m]].id # id
      BY <1>1, <2>2, <2>5 DEF Distinct
    <3> HIDE DEF q2, from
    <3>2. AfterAt(items, patches, k, q2[m]) = AfterAt(items, patches, k - 1, q2[m])
      BY <2>5, <3>1, PlacesStep
    <3> QED BY <2>1, <2>3, <3>2
  <2>6. CASE q2[m] \in Len(items) + 1..Len(items) + k
    <3> HIDE DEF q2, from
    <3>1. AfterAt(items, patches, k, q2[m]) = AfterAt(items, patches, k - 1, q2[m])
      BY <2>6, PlacesStep
    <3> QED BY <2>1, <2>3, <3>1
  <2>7. q2[m] \in 1..Len(items) \/ q2[m] \in Len(items) + 1..Len(items) + k
    <3> HIDE DEF q2
    <3> QED BY <2>4, ItemTyped
  <2> QED BY <2>5, <2>6, <2>7
<1> HIDE DEF q2
<1>10. Follows(items, patches, k, after)
  BY <1>3, <1>8, <1>9 DEF Follows, FollowsBy, new
<1> QED BY <1>3, <1>10 DEF after, at

\* One patch that changes an item.
LEMMA ChangeFollows ==
    ASSUME NEW items \in Seq(PlanItem), Distinct(items), NEW patches \in Seq(PlanItemPatch),
           NEW k \in 1..Len(patches), ~ Seen(patches, k), ~ patches[k].remove,
           Trim(patches[k].id) \in IdsOf(items),
           NEW made \in Seq(PlanItem), NEW q, FollowsBy(items, patches, k - 1, made, q)
    PROVE  LET at == PositionOf(made, Trim(patches[k].id))
               after == [made EXCEPT ![at] = Changed(made[at], patches[k])]
           IN  /\ at \in 1..Len(made)
               /\ after \in Seq(PlanItem) /\ Follows(items, patches, k, after)
<1> DEFINE id == Trim(patches[k].id)
           at == PositionOf(made, id)
           new == Changed(made[at], patches[k])
           after == [made EXCEPT ![at] = new]
           n == Len(made)
           old == Left(items, patches, k - 1)
<1>1. /\ n \in Nat /\ at \in 1..n /\ q[at] \in 1..Len(items) /\ items[q[at]].id = id
      /\ made[at] = items[q[at]] /\ made[at] \in PlanItem /\ DOMAIN made = 1..n
  BY KnownIs, ItemTyped
<1>2. Left(items, patches, k) = old
  <2>1. Left(items, patches, k) =
          (old \ {i \in 1..Len(items) : items[i].id = id /\ patches[k].remove}) \cup {}
    BY PlacesStep
  <2> QED BY <2>1
<1>3. new \in PlanItem
  BY <1>1, ItemChanged, PatchTyped
<1> HIDE DEF new, at
<1>4. /\ after \in Seq(PlanItem) /\ Len(after) = n
      /\ \A m \in 1..n : after[m] = IF m = at THEN new ELSE made[m]
  BY <1>1, <1>3, ExceptSeq
<1>5. /\ Enumerates(q, n, old) /\ \A m \in 1..n : q[m] \in old
      /\ \A m \in 1..n : made[m] = AfterAt(items, patches, k - 1, q[m])
  BY DEF FollowsBy, Enumerates
<1>6. \A i, j \in 1..n : q[i] = q[j] => i = j
  <2> SUFFICES ASSUME NEW i \in 1..n, NEW j \in 1..n, q[i] = q[j] PROVE i = j
    OBVIOUS
  <2>0. \A x \in old : x \in Nat
    BY <1>1, ItemTyped DEF Left
  <2>1. q[i] \in Nat /\ q[j] \in Nat
    BY <1>5, <2>0
  <2>2. ~ (i < j) /\ ~ (j < i)
    BY <1>5, <2>1 DEF Enumerates
  <2> QED BY <1>1, <2>2
<1>7. ASSUME NEW m \in 1..n PROVE after[m] = AfterAt(items, patches, k, q[m])
  <2>1. CASE m = at
    <3>1. AfterAt(items, patches, k, q[m]) = Changed(items[q[m]], patches[k])
      BY <1>1, <2>1, PlacesStep
    <3>2. after[m] = Changed(items[q[m]], patches[k])
      BY <1>1, <1>4, <2>1 DEF new
    <3> QED BY <3>1, <3>2
  <2>2. CASE m # at
    <3>1. q[m] \in old /\ q[m] # q[at] /\ after[m] = AfterAt(items, patches, k - 1, q[m])
      BY <1>1, <1>4, <1>5, <1>6, <2>2
    <3>2. q[m] \in 1..Len(items) \/ q[m] \in Len(items) + 1..Len(items) + k
      <4>1. q[m] \in Left(items, patches, k)
        BY <1>2, <3>1
      <4>2. q[m] \in 1..Len(items) + k
        BY <4>1, PlacesStep
      <4> HIDE DEF old
      <4> QED BY <4>2, ItemTyped
    <3>3. CASE q[m] \in 1..Len(items)
      <4>1. items[q[m]].id # id
        BY <1>1, <3>1, <3>3 DEF Distinct
      <4> QED BY <3>1, <3>3, <4>1, PlacesStep
    <3>4. CASE q[m] \in Len(items) + 1..Len(items) + k
      <4>1. AfterAt(items, patches, k, q[m]) = AfterAt(items, patches, k - 1, q[m])
        BY <3>4, PlacesStep
      <4> QED BY <3>1, <4>1
    <3> QED BY <3>2, <3>3, <3>4
  <2> QED BY <2>1, <2>2
<1> HIDE DEF after, old
<1>8. Follows(items, patches, k, after)
  BY <1>2, <1>4, <1>5, <1>7 DEF Follows, FollowsBy
<1> QED BY <1>1, <1>4, <1>8 DEF after, at, new

\* One patch that adds an item.
LEMMA AddFollows ==
    ASSUME NEW items \in Seq(PlanItem), Distinct(items), NEW patches \in Seq(PlanItemPatch),
           NEW k \in 1..Len(patches), ~ Seen(patches, k), patches[k].text # NoText,
           Trim(patches[k].id) \notin IdsOf(items),
           NEW made \in Seq(PlanItem), NEW q, FollowsBy(items, patches, k - 1, made, q)
    PROVE  LET after == Append(made, Added(patches[k]))
           IN  after \in Seq(PlanItem) /\ Follows(items, patches, k, after)
<1> DEFINE id == Trim(patches[k].id)
           new == Added(patches[k])
           after == Append(made, new)
           n == Len(made)
           N == Len(items)
           old == Left(items, patches, k - 1)
           q2 == [m \in 1..n + 1 |-> IF m = n + 1 THEN N + k ELSE q[m]]
<1>1. n \in Nat /\ N \in Nat /\ k \in Nat /\ k # 0
  BY ItemTyped, PatchTyped
<1>2. Left(items, patches, k) = old \cup {N + k}
  <2>1. \A i \in 1..N : items[i].id # id
    BY ItemTyped
  <2>2. Left(items, patches, k) =
          (old \ {i \in 1..Len(items) : items[i].id = id /\ patches[k].remove}) \cup {N + k}
    BY PlacesStep
  <2> HIDE DEF old, id
  <2> QED BY <2>1, <2>2
<1>3. new \in PlanItem
  BY ItemAdded, PatchTyped
<1> HIDE DEF new
<1>4. /\ after \in Seq(PlanItem) /\ Len(after) = n + 1
      /\ \A m \in 1..n : after[m] = made[m]
      /\ after[n + 1] = new
  BY <1>3, AppendProperties
<1>5. /\ q \in [1..n -> old] /\ \A i, j \in 1..n : i < j => q[i] < q[j]
      /\ \A x \in old : \E m \in 1..n : q[m] = x
      /\ \A m \in 1..n : made[m] = AfterAt(items, patches, k - 1, q[m])
  BY DEF FollowsBy, Enumerates
<1>6. \A x \in old : x \in 1..N + (k - 1)
  BY <1>1 DEF Left
<1> HIDE DEF old, after, id, n, N
<1>7. \A m \in 1..n : m \in 1..n + 1 /\ m # n + 1 /\ q2[m] = q[m] /\ q[m] \in old
  BY <1>1, <1>5
<1>8. n + 1 \in 1..n + 1 /\ q2[n + 1] = N + k
  BY <1>1
<1>9. \A m \in 1..n + 1 : m = n + 1 \/ m \in 1..n
  BY <1>1
<1>10. q2 \in [1..n + 1 -> old \cup {N + k}]
  BY <1>7, <1>8, <1>9
<1> HIDE DEF q2
<1>11. Enumerates(q2, n + 1, old \cup {N + k})
  <2>1. ASSUME NEW i \in 1..n + 1, NEW j \in 1..n + 1, i < j PROVE q2[i] < q2[j]
    <3>1. i \in 1..n
      BY <1>1, <2>1
    <3>2. CASE j \in 1..n
      BY <1>5, <1>7, <2>1, <3>1, <3>2
    <3>3. CASE j = n + 1
      <4>1. q2[i] \in 1..N + (k - 1) /\ q2[j] = N + k
        BY <1>6, <1>7, <1>8, <3>1, <3>3
      <4> QED BY <1>1, <4>1
    <3> QED BY <1>9, <3>2, <3>3
  <2>2. ASSUME NEW x \in old \cup {N + k} PROVE \E m \in 1..n + 1 : q2[m] = x
    BY <1>5, <1>7, <1>8
  <2> QED BY <1>10, <2>1, <2>2 DEF Enumerates
<1>12. ASSUME NEW m \in 1..n + 1 PROVE after[m] = AfterAt(items, patches, k, q2[m])
  <2>1. CASE m = n + 1
    <3>1. AfterAt(items, patches, k, N + k) = new
      BY PlacesStep DEF new, N
    <3> QED BY <1>4, <1>8, <2>1, <3>1
  <2>2. CASE m \in 1..n
    <3>1. q2[m] = q[m] /\ after[m] = AfterAt(items, patches, k - 1, q2[m]) /\ q2[m] \in old
      BY <1>4, <1>5, <1>7, <2>2
    <3>2. q2[m] \in 1..N \/ q2[m] \in N + 1..N + k
      BY <1>1, <1>6, <3>1
    <3>3. CASE q2[m] \in 1..N
      <4>1. items[q2[m]].id # id
        BY <3>3, ItemTyped DEF id, N
      <4> QED BY <3>1, <3>3, <4>1, PlacesStep DEF id, N
    <3>4. CASE q2[m] \in N + 1..N + k
      BY <3>1, <3>4, PlacesStep DEF N
    <3> QED BY <3>2, <3>3, <3>4
  <2> QED BY <1>9, <2>1, <2>2
<1>13. Follows(items, patches, k, after)
  BY <1>2, <1>4, <1>11, <1>12 DEF Follows, FollowsBy
<1> QED BY <1>4, <1>13 DEF after, new

\* What one patch does to a plan, case by case.
LEMMA PatchedCases ==
    ASSUME NEW plan \in PlanSnapshot, NEW patch \in PlanItemPatch
    PROVE  LET held == Knows(plan.items, patch.id)
               at == PositionOf(plan.items, patch.id)
               after == Patched(plan, patch)
           IN  /\ patch.remove =>
                    IF patch.text # NoText \/ patch.status # "none" \/ ~ held THEN after = Invalid
                    ELSE after \in PlanSnapshot /\ after.items = RemoveAt(plan.items, at)
               /\ ~ patch.remove /\ held =>
                    IF patch.text = NoText /\ patch.status = "none" THEN after = Invalid
                    ELSE /\ after \in PlanSnapshot
                         /\ after.items = [plan.items EXCEPT ![at] = Changed(plan.items[at], patch)]
               /\ ~ patch.remove /\ ~ held =>
                    IF patch.text = NoText THEN after = Invalid
                    ELSE /\ after \in PlanSnapshot
                         /\ after.items = Append(plan.items, [id |-> patch.id, text |-> patch.text,
                                             status |-> IF patch.status = "none" THEN "pending" ELSE patch.status])
<1> DEFINE items == plan.items
           held == Knows(items, patch.id)
           at == PositionOf(items, patch.id)
           after == Patched(plan, patch)
           added == [id |-> patch.id, text |-> patch.text,
                     status |-> IF patch.status = "none" THEN "pending" ELSE patch.status]
<1>1. /\ items \in Seq(PlanItem) /\ plan.revision \in Nat /\ plan.explanation \in Text \cup {NoText}
      /\ plan = [revision |-> plan.revision, items |-> items, explanation |-> plan.explanation]
  BY DEF PlanSnapshot
<1>2. /\ patch.id \in Text /\ patch.text \in Text \cup {NoText}
      /\ patch.status \in PlanStatus \cup {"none"} /\ patch.remove \in BOOLEAN
  BY DEF PlanItemPatch
<1>3. ASSUME held PROVE at \in 1..Len(items) /\ items[at] \in PlanItem
  <2>1. \E m \in 1..Len(items) : items[m].id = patch.id
    BY <1>1, <1>3, ItemTyped DEF Knows
  <2>2. at \in 1..Len(items)
    BY <1>1, <2>1, ItemTyped DEF PositionOf
  <2> QED BY <1>1, <2>2, ItemTyped
<1>4. ASSUME NEW some \in Seq(PlanItem)
      PROVE  [plan EXCEPT !.items = some] \in PlanSnapshot /\ [plan EXCEPT !.items = some].items = some
  BY <1>1 DEF PlanSnapshot
<1>5. ASSUME patch.remove
      PROVE  IF patch.text # NoText \/ patch.status # "none" \/ ~ held THEN after = Invalid
             ELSE after \in PlanSnapshot /\ after.items = RemoveAt(items, at)
  <2>1. CASE patch.text # NoText \/ patch.status # "none" \/ ~ held
    BY <1>5, <2>1 DEF Patched
  <2>2. CASE ~ (patch.text # NoText \/ patch.status # "none" \/ ~ held)
    <3>1. RemoveAt(items, at) \in Seq(PlanItem)
      BY <1>1, <1>3, <2>2, RemoveAtShape
    <3>2. after = [plan EXCEPT !.items = RemoveAt(items, at)]
      BY <1>5, <2>2 DEF Patched
    <3> QED BY <1>4, <2>2, <3>1, <3>2
  <2> QED BY <2>1, <2>2
<1>6. ASSUME ~ patch.remove, held
      PROVE  IF patch.text = NoText /\ patch.status = "none" THEN after = Invalid
             ELSE /\ after \in PlanSnapshot
                  /\ after.items = [items EXCEPT ![at] = Changed(items[at], patch)]
  <2>1. CASE patch.text = NoText /\ patch.status = "none"
    BY <1>6, <2>1 DEF Patched
  <2>2. CASE ~ (patch.text = NoText /\ patch.status = "none")
    <3> DEFINE item == items[at]
               text == IF patch.text = NoText THEN item.text ELSE patch.text
               status == IF patch.status = "none" THEN item.status ELSE patch.status
               retold == [item EXCEPT !.text = text]
               plan1 == [plan EXCEPT !.items[at].text = text]
    <3>1. at \in 1..Len(items) /\ item \in PlanItem
      BY <1>3, <1>6
    <3>2. after = [plan EXCEPT !.items[at].text = text, !.items[at].status = status]
      BY <1>6, <2>2 DEF Patched
    <3>3. after = [plan1 EXCEPT !.items[at].status = status]
      <4> HIDE DEF after, at, text, status, items, item
      <4>1. [plan EXCEPT !.items[at].text = text, !.items[at].status = status]
              = [[plan EXCEPT !.items[at].text = text] EXCEPT !.items[at].status = status]
        OBVIOUS
      <4> QED BY <3>2, <4>1
    <3>4. plan1 = [plan EXCEPT !.items = [items EXCEPT ![at] = retold]]
      OBVIOUS
    <3>5. item.text \in Text /\ item.status \in PlanStatus /\ item.id \in Text
      BY <3>1 DEF PlanItem
    <3>6. text \in Text /\ retold \in PlanItem /\ retold.status = item.status
      BY <1>2, <3>1, <3>5 DEF PlanItem
    <3>7. Changed(item, patch) = [retold EXCEPT !.status = status]
      BY DEF Changed
    <3>8. Changed(item, patch) \in PlanItem
      BY <3>1, ItemChanged
    <3> DEFINE items1 == [items EXCEPT ![at] = retold]
               items2 == [items EXCEPT ![at] = Changed(item, patch)]
    <3>9. items1 \in Seq(PlanItem) /\ items1[at] = retold /\ items2 \in Seq(PlanItem)
      <4> HIDE DEF item, retold, at, items
      <4> QED BY <1>1, <3>1, <3>6, <3>8, ExceptSeq
    <3>10. plan1 \in PlanSnapshot /\ plan1.items = items1
      <4>1. plan1 = [plan EXCEPT !.items = items1]
        <5> HIDE DEF plan1, retold, items, at
        <5> QED BY <3>4
      <4>2. [plan EXCEPT !.items = items1] \in PlanSnapshot
            /\ [plan EXCEPT !.items = items1].items = items1
        <5> HIDE DEF items1
        <5> QED BY <1>4, <3>9
      <4> HIDE DEF plan1, items1
      <4> QED BY <4>1, <4>2
    <3>11. [items1 EXCEPT ![at] = [retold EXCEPT !.status = status]] = items2
      <4> DEFINE new == [retold EXCEPT !.status = status]
      <4>1. [items1 EXCEPT ![at] = new] = [items EXCEPT ![at] = new]
        <5> HIDE DEF new, retold, items, at
        <5> QED OBVIOUS
      <4>2. items2 = [items EXCEPT ![at] = new]
        <5>1. Changed(item, patch) = new
          BY <3>7
        <5> HIDE DEF new, items, at, item
        <5> QED BY <5>1
      <4> QED BY <4>1, <4>2
    <3>12. after = [plan1 EXCEPT !.items = items2]
      <4>1. after = [plan1 EXCEPT !.items = [plan1.items EXCEPT ![at] = [plan1.items[at] EXCEPT !.status = status]]]
        <5> HIDE DEF plan1, after, at, status
        <5> QED BY <3>3
      <4>2. plan1.items[at] = retold
        BY <3>9, <3>10
      <4> HIDE DEF plan1, after, at, items1, items2, status, retold
      <4> QED BY <3>10, <3>11, <4>1, <4>2
    <3> HIDE DEF plan1, items2
    <3>13. after \in PlanSnapshot /\ after.items = items2
      BY <3>9, <3>10, <3>12 DEF PlanSnapshot
    <3> HIDE DEF after
    <3> QED BY <2>2, <3>13 DEF items2
  <2> QED BY <2>1, <2>2
<1>7. ASSUME ~ patch.remove, ~ held
      PROVE  IF patch.text = NoText THEN after = Invalid
             ELSE after \in PlanSnapshot /\ after.items = Append(items, added)
  <2>1. CASE patch.text = NoText
    BY <1>7, <2>1 DEF Patched
  <2>2. CASE patch.text # NoText
    <3>1. after = [plan EXCEPT !.items = Append(items, added)]
      BY <1>7, <2>2 DEF Patched
    <3>2. added \in PlanItem
      <4>1. (IF patch.status = "none" THEN "pending" ELSE patch.status) \in PlanStatus
        BY <1>2 DEF PlanStatus
      <4> QED BY <1>2, <2>2, <4>1 DEF PlanItem
    <3> HIDE DEF added
    <3>3. Append(items, added) \in Seq(PlanItem)
      BY <1>1, <3>2, AppendProperties
    <3> QED BY <1>4, <2>2, <3>1, <3>3
  <2> QED BY <2>1, <2>2
<1> HIDE DEF after, held, at, added, items
<1> QED BY <1>5, <1>6, <1>7 DEF after, held, at, added, items

\* Patch k is applied exactly when it can be, and what it leaves follows the
\* first k patches.
LEMMA PatchStep ==
    ASSUME NEW items \in Seq(PlanItem), Distinct(items), NEW patches \in Seq(PlanItemPatch),
           NEW k \in 1..Len(patches), NEW plan \in PlanSnapshot,
           Follows(items, patches, k - 1, plan.items), ~ Empty(patches[k].id), ~ Seen(patches, k)
    PROVE  LET after == Patched(plan, [patches[k] EXCEPT !.id = Trim(@)])
           IN  IF PatchOk(items, patches, k)
                 THEN after \in PlanSnapshot /\ Follows(items, patches, k, after.items)
               ELSE after = Invalid
<1> DEFINE p == patches[k]
           id == Trim(p.id)
           patch == [p EXCEPT !.id = id]
           after == Patched(plan, patch)
           made == plan.items
           at == PositionOf(made, id)
           held == id \in IdsOf(items)
<1>1. /\ p \in PlanItemPatch /\ p.id \in Text /\ p.text \in Text \cup {NoText}
      /\ p.status \in PlanStatus \cup {"none"} /\ p.remove \in BOOLEAN
  BY PatchTyped
<1>2. id \in Text
  BY <1>1, TextTrimmed
<1> HIDE DEF p, id
<1>3. /\ patch \in PlanItemPatch /\ patch.id = id /\ patch.text = p.text
      /\ patch.status = p.status /\ patch.remove = p.remove
  BY <1>1, <1>2 DEF PlanItemPatch
<1>4. [p EXCEPT !.id = Trim(@)] = patch
  BY DEF id
<1> HIDE DEF patch
<1>5. PICK q : FollowsBy(items, patches, k - 1, made, q)
  BY DEF Follows
<1>6. made \in Seq(PlanItem)
  BY DEF PlanSnapshot
<1> HIDE DEF made
<1>7. Knows(made, id) <=> held
  BY <1>5, <1>6, KnownIs DEF id, p
<1>8. Changed(made[at], patch) = Changed(made[at], p)
  BY <1>3 DEF Changed
<1>9. [id |-> patch.id, text |-> patch.text, status |-> IF patch.status = "none" THEN "pending" ELSE patch.status]
        = Added(p)
  BY <1>3 DEF Added, id
<1>10. PatchOk(items, patches, k) <=>
          /\ p.remove => held /\ p.text = NoText /\ p.status = "none"
          /\ ~ p.remove => IF held THEN p.text # NoText \/ p.status # "none" ELSE p.text # NoText
  BY DEF PatchOk, p, id
<1> HIDE DEF held
<1>11. CASE p.remove
  <2>1. IF p.text # NoText \/ p.status # "none" \/ ~ held THEN after = Invalid
        ELSE after \in PlanSnapshot /\ after.items = RemoveAt(made, at)
    <3> HIDE DEF after, at
    <3> QED BY <1>3, <1>7, <1>11, PatchedCases DEF made, after, at
  <2>2. CASE p.text # NoText \/ p.status # "none" \/ ~ held
    <3> HIDE DEF after
    <3> QED BY <1>4, <1>10, <1>11, <2>1, <2>2 DEF after, p
  <2>3. CASE ~ (p.text # NoText \/ p.status # "none" \/ ~ held)
    <3>1. Follows(items, patches, k, RemoveAt(made, at))
      BY <1>5, <1>6, <1>11, <2>3, RemoveFollows DEF id, p, held
    <3>2. PatchOk(items, patches, k) /\ after \in PlanSnapshot /\ after.items = RemoveAt(made, at)
      BY <1>10, <1>11, <2>1, <2>3
    <3> HIDE DEF after, at
    <3> QED BY <1>4, <3>1, <3>2 DEF after, p
  <2> QED BY <2>2, <2>3
<1>12. CASE ~ p.remove /\ held
  <2>1. IF p.text = NoText /\ p.status = "none" THEN after = Invalid
        ELSE after \in PlanSnapshot /\ after.items = [made EXCEPT ![at] = Changed(made[at], patch)]
    <3> HIDE DEF after, at
    <3> QED BY <1>3, <1>7, <1>12, PatchedCases DEF made, after, at
  <2>2. CASE p.text = NoText /\ p.status = "none"
    <3> HIDE DEF after
    <3> QED BY <1>4, <1>10, <1>12, <2>1, <2>2 DEF after, p
  <2>3. CASE ~ (p.text = NoText /\ p.status = "none")
    <3>1. Follows(items, patches, k, [made EXCEPT ![at] = Changed(made[at], p)])
      BY <1>5, <1>6, <1>12, ChangeFollows DEF id, p, held
    <3>2. PatchOk(items, patches, k)
      BY <1>10, <1>12, <2>3
    <3>3. after \in PlanSnapshot /\ after.items = [made EXCEPT ![at] = Changed(made[at], p)]
      BY <1>8, <2>1, <2>3
    <3> HIDE DEF after, at
    <3> QED BY <1>4, <3>1, <3>2, <3>3 DEF after, p
  <2> QED BY <2>2, <2>3
<1>13. CASE ~ p.remove /\ ~ held
  <2>1. IF p.text = NoText THEN after = Invalid
        ELSE after \in PlanSnapshot /\ after.items = Append(made, Added(p))
    <3> HIDE DEF after
    <3> QED BY <1>3, <1>7, <1>9, <1>13, PatchedCases DEF made, after
  <2>2. CASE p.text = NoText
    <3> HIDE DEF after
    <3> QED BY <1>4, <1>10, <1>13, <2>1, <2>2 DEF after, p
  <2>3. CASE p.text # NoText
    <3>1. Follows(items, patches, k, Append(made, Added(p)))
      BY <1>5, <1>6, <1>13, <2>3, AddFollows DEF id, p, held
    <3>2. PatchOk(items, patches, k)
      BY <1>10, <1>13, <2>3
    <3> HIDE DEF after
    <3> QED BY <1>4, <2>1, <2>3, <3>1, <3>2 DEF after, p
  <2> QED BY <2>2, <2>3
<1> QED BY <1>11, <1>12, <1>13

\* Every patch takes a plan to a plan, or is refused.
LEMMA PatchedTyped ==
    ASSUME NEW plan \in PlanSnapshot, NEW patch \in PlanItemPatch
    PROVE  Patched(plan, patch) \in PlanSnapshot \cup {Invalid}
BY PatchedCases

\* All patches are applied one after the other, to the plan those before made.
LEMMA PatchesInTurn ==
    ASSUME NEW former \in PlanSnapshot, NEW patches \in Seq(PlanItemPatch)
    PROVE  \E c \in [0..Len(patches) -> PlanSnapshot \cup {Invalid}] :
              /\ c[0] = former /\ AllPatched(former, patches) = c[Len(patches)]
              /\ \A k \in 1..Len(patches) :
                    c[k] = IF Failed(c[k - 1]) \/ Empty(patches[k].id) \/ Seen(patches, k) THEN Invalid
                           ELSE Patched(c[k - 1], [patches[k] EXCEPT !.id = Trim(@)])
<1> DEFINE n == Len(patches)
           B == PlanSnapshot \cup {Invalid}
           Next1(plan, k) == IF Failed(plan) \/ Empty(patches[k].id) \/ Seen(patches, k) THEN Invalid
                             ELSE Patched(plan, [patches[k] EXCEPT !.id = Trim(@)])
           step == [k \in 1..n |-> [plan \in B |-> Next1(plan, k)]]
<1>1. n \in Nat /\ former \in B
  BY PatchTyped
<1>2. ASSUME NEW k \in 1..n, NEW plan \in B PROVE Next1(plan, k) \in B
  <2>1. CASE Failed(plan) \/ Empty(patches[k].id) \/ Seen(patches, k)
    BY <2>1
  <2>2. CASE ~ (Failed(plan) \/ Empty(patches[k].id) \/ Seen(patches, k))
    <3>1. plan \in PlanSnapshot
      BY <2>2, PlanOrError
    <3>2. [patches[k] EXCEPT !.id = Trim(@)] \in PlanItemPatch
      <4>1. patches[k] \in PlanItemPatch /\ Trim(patches[k].id) \in Text
        BY PatchTyped, TextTrimmed
      <4> QED BY <4>1 DEF PlanItemPatch
    <3>3. Patched(plan, [patches[k] EXCEPT !.id = Trim(@)]) \in B
      BY <3>1, <3>2, PatchedTyped
    <3> QED BY <2>2, <3>3
  <2> QED BY <2>1, <2>2
<1> HIDE DEF Next1, B
<1>3. \A k \in 1..n : \A plan \in B : step[k][plan] \in B
  BY <1>2
<1>4. PICK g \in [0..n -> B] : g[0] = former /\ \A k \in 1..n : g[k] = step[k][g[k - 1]]
  <2>1. Stepped(n, B, former, step)
    <3> HIDE DEF step, n
    <3> QED BY <1>1, <1>3, Stepwise
  <2> HIDE DEF step
  <2> QED BY <2>1 DEF Stepped
<1>5. \A k \in 1..n : k - 1 \in 0..n /\ g[k - 1] \in B /\ g[k] = Next1(g[k - 1], k)
  <2> SUFFICES ASSUME NEW k \in 1..n
               PROVE  k - 1 \in 0..n /\ g[k - 1] \in B /\ g[k] = Next1(g[k - 1], k)
    OBVIOUS
  <2>1. k - 1 \in 0..n
    BY <1>1
  <2>2. g[k - 1] \in B /\ g[k] = step[k][g[k - 1]]
    BY <1>4, <2>1
  <2>3. step[k][g[k - 1]] = Next1(g[k - 1], k)
    BY <2>2
  <2> QED BY <2>1, <2>2, <2>3
<1> DEFINE Is(h) == h = [k \in 0..n |-> IF k = 0 THEN former ELSE Next1(h[k - 1], k)]
           c == CHOOSE h : Is(h)
<1>6. Is(g)
  <2>1. \A k \in 0..n : g[k] = IF k = 0 THEN former ELSE Next1(g[k - 1], k)
    <3>1. \A k \in 0..n : k = 0 \/ k \in 1..n
      BY <1>1
    <3> QED BY <1>4, <1>5, <3>1
  <2> QED BY <1>4, <2>1
<1>7. Is(c)
  BY <1>6
<1>8. AllPatched(former, patches) = c[n]
  BY DEF AllPatched, Next1
<1> HIDE DEF c
<1>9. c[0] = former /\ \A k \in 1..n : c[k] = Next1(c[k - 1], k)
  BY <1>1, <1>7
<1>10. \A k \in 0..n : c[k] \in B
  <2> DEFINE T == {k \in 0..n : c[k] \in B}
  <2>1. 0 \in T
    BY <1>1, <1>9
  <2>2. ASSUME NEW k \in 1..n, k - 1 \in T PROVE k \in T
    BY <1>1, <1>2, <1>9, <2>2
  <2> HIDE DEF T
  <2>3. \A k \in 0..n : k \in T
    BY <1>1, <2>1, <2>2, UpTo
  <2> QED BY <2>3 DEF T
<1>11. c \in [0..n -> B]
  BY <1>7, <1>10
<1> QED BY <1>8, <1>9, <1>11 DEF Next1, B

\* The patches of a call are applied exactly when every one of them can be, and
\* what they make follows all of them.
LEMMA PatchesFollow ==
    ASSUME NEW former \in PlanSnapshot, Distinct(former.items), NEW patches \in Seq(PlanItemPatch)
    PROVE  LET after == AllPatched(former, patches)
           IN  IF PatchesOk(former.items, patches, Len(patches))
                 THEN after \in PlanSnapshot /\ Follows(former.items, patches, Len(patches), after.items)
               ELSE Failed(after)
<1> DEFINE n == Len(patches)
           items == former.items
<1>1. n \in Nat /\ items \in Seq(PlanItem) /\ Len(items) \in Nat
  BY PatchTyped, ItemTyped DEF PlanSnapshot
<1>2. PICK c \in [0..n -> PlanSnapshot \cup {Invalid}] :
              /\ c[0] = former /\ AllPatched(former, patches) = c[n]
              /\ \A k \in 1..n :
                    c[k] = IF Failed(c[k - 1]) \/ Empty(patches[k].id) \/ Seen(patches, k) THEN Invalid
                           ELSE Patched(c[k - 1], [patches[k] EXCEPT !.id = Trim(@)])
  BY PatchesInTurn
<1> DEFINE Good(k) == IF PatchesOk(items, patches, k)
                        THEN c[k] \in PlanSnapshot /\ Follows(items, patches, k, c[k].items)
                      ELSE c[k] = Invalid
           T == {k \in 0..n : Good(k)}
<1> HIDE DEF items
<1>3. 0 \in T
  <2>1. PatchesOk(items, patches, 0)
    BY DEF PatchesOk
  <2> DEFINE N == Len(items)
             q == [i \in 1..N |-> i]
  <2>2. Left(items, patches, 0) = 1..N
    <3>1. \A i : NamedBy(items, patches, 0, i) = {}
      BY DEF NamedBy
    <3>2. \A i \in N + 1..N + 0 : FALSE
      BY <1>1
    <3> QED BY <3>1, <3>2 DEF Left
  <2>3. Enumerates(q, N, 1..N)
    BY <1>1 DEF Enumerates
  <2>4. \A i \in 1..N : items[i] = AfterAt(items, patches, 0, q[i])
    BY <1>1 DEF AfterAt, NamedBy
  <2>5. Follows(items, patches, 0, items)
    BY <2>2, <2>3, <2>4 DEF Follows, FollowsBy
  <2>6. c[0] \in PlanSnapshot /\ c[0].items = items
    BY <1>2 DEF items
  <2>7. 0 \in 0..n
    BY <1>1
  <2> HIDE DEF n
  <2> QED BY <2>1, <2>5, <2>6, <2>7
<1>4. ASSUME NEW k \in 1..n, k - 1 \in T PROVE k \in T
  <2>1. k \in 0..n /\ k - 1 \in Nat /\ (\A j : j \in 1..k <=> j = k \/ j \in 1..k - 1)
    BY <1>1
  <2>2. PatchesOk(items, patches, k) <=> PatchesOk(items, patches, k - 1) /\ PatchOk(items, patches, k)
    BY <2>1 DEF PatchesOk
  <2>3. Good(k - 1)
    BY <1>4
  <2>4. c[k] = IF Failed(c[k - 1]) \/ Empty(patches[k].id) \/ Seen(patches, k) THEN Invalid
               ELSE Patched(c[k - 1], [patches[k] EXCEPT !.id = Trim(@)])
    BY <1>2
  <2>5. CASE ~ PatchesOk(items, patches, k - 1)
    <3>1. c[k] = Invalid
      BY <2>3, <2>4, <2>5, PlanOrError
    <3> QED BY <2>1, <2>2, <2>5, <3>1
  <2>6. CASE PatchesOk(items, patches, k - 1)
    <3>1. c[k - 1] \in PlanSnapshot /\ Follows(items, patches, k - 1, c[k - 1].items) /\ ~ Failed(c[k - 1])
      BY <2>3, <2>6, PlanOrError
    <3>2. CASE Empty(patches[k].id) \/ Seen(patches, k)
      <4>1. ~ PatchOk(items, patches, k) /\ c[k] = Invalid
        BY <2>4, <3>2 DEF PatchOk
      <4> QED BY <2>1, <2>2, <4>1
    <3>3. CASE ~ (Empty(patches[k].id) \/ Seen(patches, k))
      <4>1. c[k] = Patched(c[k - 1], [patches[k] EXCEPT !.id = Trim(@)])
        BY <2>4, <3>1, <3>3
      <4>2. IF PatchOk(items, patches, k)
              THEN c[k] \in PlanSnapshot /\ Follows(items, patches, k, c[k].items)
            ELSE c[k] = Invalid
        BY <1>1, <3>1, <3>3, <4>1, PatchStep DEF items
      <4> QED BY <2>1, <2>2, <2>6, <4>2
    <3> QED BY <3>2, <3>3
  <2> QED BY <2>5, <2>6
<1> HIDE DEF T
<1>5. n \in T
  <2>1. \A k \in 0..n : k \in T
    BY <1>1, <1>3, <1>4, UpTo
  <2> QED BY <1>1, <2>1
<1>6. Good(n)
  BY <1>5 DEF T
<1> HIDE DEF n
<1> QED BY <1>2, <1>6, PlanOrError DEF items, n

-----------------------------------------------------------------------------
(* The plan of a log is a legal one, and a call takes it where it asks.     *)

LegalPlan == {p \in PlanSnapshot : Snapshot(p) /\ p.revision <= MaxRevision}

LegalItems(items) ==
    /\ Len(items) <= MaxItems
    /\ \A i \in DOMAIN items : /\ ~ Empty(items[i].id) /\ ~ items[i].id.blanks
                               /\ ~ Empty(items[i].text) /\ ~ items[i].text.blanks
    /\ \A i, j \in DOMAIN items : items[i].id = items[j].id => i = j
    /\ Cardinality({i \in DOMAIN items : items[i].status = "in_progress"}) <= 1

LEMMA SnapshotIs == \A p : Snapshot(p) <=> LegalItems(p.items) /\ ~ p.explanation.blanks
BY DEF Snapshot, LegalItems

LEMMA LegalIfNoneInProgress ==
    ASSUME NEW items, Len(items) <= MaxItems,
           \A i \in DOMAIN items : /\ ~ Empty(items[i].id) /\ ~ items[i].id.blanks
                                   /\ ~ Empty(items[i].text) /\ ~ items[i].text.blanks,
           \A i, j \in DOMAIN items : items[i].id = items[j].id => i = j,
           \A i \in DOMAIN items : items[i].status # "in_progress"
    PROVE  LegalItems(items)
<1> DEFINE S == {i \in DOMAIN items : items[i].status = "in_progress"}
<1>1. S = {}
  OBVIOUS
<1>2. Cardinality(S) <= 1
  <2> HIDE DEF S
  <2> QED BY <1>1, FS_EmptySet
<1> QED BY <1>2 DEF LegalItems

LEMMA NoPlanLegal == NoPlan \in LegalPlan /\ LegalItems(<<>>)
<1>1. MaxItems \in Nat /\ MaxRevision \in Nat
  BY PlanAssumption
<1>2. <<>> \in Seq(PlanItem) /\ Len(<<>>) = 0 /\ DOMAIN <<>> = {}
  BY EmptySeq
<1>3. LegalItems(<<>>)
  BY <1>1, <1>2, LegalIfNoneInProgress
<1>4. NoPlan \in PlanSnapshot /\ NoPlan.items = <<>> /\ NoPlan.explanation = NoText /\ NoPlan.revision = 0
  BY <1>2 DEF NoPlan, PlanSnapshot
<1>5. Snapshot(NoPlan)
  BY <1>3, <1>4, SnapshotIs, TextTrimmed
<1> QED BY <1>1, <1>3, <1>4, <1>5 DEF LegalPlan

\* Whatever plans a log holds, it reduces to a legal one.
LEMMA ReduceLegal ==
    ASSUME NEW facts \in Seq(PlanSnapshot)
    PROVE  Reduce(facts) \in LegalPlan
<1> DEFINE n == Len(facts)
           Next1(plan, k) == IF Transition(plan, facts[k]) THEN facts[k] ELSE plan
           step == [k \in 1..n |-> [plan \in LegalPlan |-> Next1(plan, k)]]
<1>1. n \in Nat /\ NoPlan \in LegalPlan /\ \A k \in 1..n : facts[k] \in PlanSnapshot
  BY NoPlanLegal, LenProperties, ElementOfSeq
<1>2. ASSUME NEW k \in 1..n, NEW plan \in LegalPlan PROVE Next1(plan, k) \in LegalPlan
  <2>1. CASE Transition(plan, facts[k])
    <3>1. plan.revision \in Nat /\ plan.revision < MaxRevision /\ facts[k].revision = plan.revision + 1
          /\ Snapshot(facts[k]) /\ MaxRevision \in Nat
      BY <2>1, PlanAssumption DEF Transition, LegalPlan, PlanSnapshot
    <3>2. facts[k] \in LegalPlan
      BY <1>1, <3>1 DEF LegalPlan
    <3> QED BY <2>1, <3>2
  <2>2. CASE ~ Transition(plan, facts[k])
    BY <2>2
  <2> QED BY <2>1, <2>2
<1> HIDE DEF Next1
<1>3. \A k \in 1..n : \A plan \in LegalPlan : step[k][plan] \in LegalPlan
  BY <1>2
<1>4. PICK g \in [0..n -> LegalPlan] : g[0] = NoPlan /\ \A k \in 1..n : g[k] = step[k][g[k - 1]]
  <2>1. Stepped(n, LegalPlan, NoPlan, step)
    <3> HIDE DEF step, n
    <3> QED BY <1>1, <1>3, Stepwise
  <2> HIDE DEF step
  <2> QED BY <2>1 DEF Stepped
<1>5. \A k \in 1..n : g[k] = Next1(g[k - 1], k)
  <2> SUFFICES ASSUME NEW k \in 1..n PROVE g[k] = Next1(g[k - 1], k)
    OBVIOUS
  <2>1. k - 1 \in 0..n
    BY <1>1
  <2>2. g[k - 1] \in LegalPlan /\ g[k] = step[k][g[k - 1]]
    BY <1>4, <2>1
  <2>3. step[k][g[k - 1]] = Next1(g[k - 1], k)
    BY <2>2
  <2> QED BY <2>2, <2>3
<1> DEFINE Is(h) == h = [k \in 0..n |-> IF k = 0 THEN NoPlan ELSE Next1(h[k - 1], k)]
           c == CHOOSE h : Is(h)
<1>6. Is(g)
  <2>1. \A k \in 0..n : g[k] = IF k = 0 THEN NoPlan ELSE Next1(g[k - 1], k)
    <3>1. \A k \in 0..n : k = 0 \/ k \in 1..n
      BY <1>1
    <3> QED BY <1>4, <1>5, <3>1
  <2> QED BY <1>4, <2>1
<1>7. Is(c)
  BY <1>6
<1>8. Reduce(facts) = c[n]
  BY DEF Reduce, Next1
<1> HIDE DEF c
<1>9. c[0] = NoPlan /\ \A k \in 1..n : c[k] = Next1(c[k - 1], k)
  BY <1>1, <1>7
<1>10. c[n] \in LegalPlan
  <2> DEFINE T == {k \in 0..n : c[k] \in LegalPlan}
  <2>1. 0 \in T
    BY <1>1, <1>9
  <2>2. ASSUME NEW k \in 1..n, k - 1 \in T PROVE k \in T
    BY <1>1, <1>2, <1>9, <2>2
  <2> HIDE DEF T
  <2>3. \A k \in 0..n : k \in T
    BY <1>1, <2>1, <2>2, UpTo
  <2>4. n \in T
    BY <1>1, <2>3
  <2> QED BY <2>4 DEF T
<1> QED BY <1>8, <1>10

\* The plan update_plan makes of the items it is given.
ItemTrimmed(item) == [item EXCEPT !.id = Trim(@), !.text = Trim(@)]
Trimmed(items) == [i \in DOMAIN items |-> ItemTrimmed(items[i])]
Explained(why) == IF Empty(Trim(why)) THEN NoText ELSE Trim(why)
Updated(former, items, why) ==
    [revision |-> former.revision + 1, items |-> Trimmed(items), explanation |-> Explained(why)]

LEMMA ItemIsTrimmed ==
    ASSUME NEW item \in PlanItem
    PROVE  /\ ItemTrimmed(item) \in PlanItem
           /\ ItemTrimmed(item) = [id |-> Trim(item.id), text |-> Trim(item.text), status |-> item.status]
           /\ ~ item.id.blanks /\ ~ item.text.blanks => ItemTrimmed(item) = item
<1> DEFINE id == Trim(item.id)
           text == Trim(item.text)
           one == [item EXCEPT !.id = id]
<1>1. /\ item.id \in Text /\ item.text \in Text /\ item.status \in PlanStatus
      /\ item = [id |-> item.id, text |-> item.text, status |-> item.status]
  BY DEF PlanItem
<1>2. id \in Text /\ text \in Text
  BY <1>1, TextTrimmed
<1>3. ItemTrimmed(item) = [item EXCEPT !.id = id, !.text = text]
  BY DEF ItemTrimmed
<1>4. ~ item.id.blanks /\ ~ item.text.blanks => id = item.id /\ text = item.text
  BY <1>1, TextTrimmed
<1> HIDE DEF id, text
<1>5. [item EXCEPT !.id = id, !.text = text] = [one EXCEPT !.text = text]
  OBVIOUS
<1>6. one = [id |-> id, text |-> item.text, status |-> item.status]
  BY <1>1
<1> HIDE DEF one
<1>7. [one EXCEPT !.text = text] = [id |-> id, text |-> text, status |-> item.status]
  BY <1>6
<1>8. [id |-> id, text |-> text, status |-> item.status] \in PlanItem
  BY <1>1, <1>2 DEF PlanItem
<1>9. ItemTrimmed(item) = [id |-> id, text |-> text, status |-> item.status]
  BY <1>3, <1>5, <1>7
<1> QED BY <1>1, <1>4, <1>8, <1>9 DEF id, text

LEMMA TrimmedTyped ==
    ASSUME NEW items \in Seq(PlanItem)
    PROVE  /\ Trimmed(items) \in Seq(PlanItem) /\ Len(Trimmed(items)) = Len(items)
           /\ \A i \in 1..Len(items) : Trimmed(items)[i] = ItemTrimmed(items[i])
<1>1. Len(items) \in Nat /\ DOMAIN items = 1..Len(items) /\ \A i \in 1..Len(items) : items[i] \in PlanItem
  BY ItemTyped
<1>2. \A i \in 1..Len(items) : ItemTrimmed(items[i]) \in PlanItem
  BY <1>1, ItemIsTrimmed
<1> DEFINE n == Len(items)
           t == [i \in 1..n |-> ItemTrimmed(items[i])]
<1>3. Trimmed(items) = t
  BY <1>1 DEF Trimmed
<1>4. t \in Seq(PlanItem) /\ Len(t) = n
  BY <1>1, <1>2, IsASeq
<1> QED BY <1>3, <1>4

LEMMA UpdateTyped ==
    ASSUME NEW former \in PlanSnapshot, NEW items \in Seq(PlanItem), NEW why \in Text \cup {NoText}
    PROVE  LET next == Updated(former, items, why)
           IN  /\ next \in PlanSnapshot /\ ~ next.explanation.blanks
               /\ next.revision = former.revision + 1 /\ next.items = Trimmed(items)
               /\ next.explanation = Explained(why)
               /\ UpdatePlan(former, items, why) =
                    IF former.revision >= MaxRevision THEN Conflict
                    ELSE IF Snapshot(next) THEN next ELSE Invalid
<1>1. Trimmed(items) \in Seq(PlanItem) /\ former.revision \in Nat
  BY TrimmedTyped DEF PlanSnapshot
<1>2. Explained(why) \in Text \cup {NoText} /\ ~ Explained(why).blanks
  <2>1. Trim(why) \in Text \cup {NoText} /\ ~ Trim(why).blanks /\ ~ NoText.blanks
    <3>1. CASE why = NoText
      <4>1. Trim(why) = NoText
        BY <3>1, TextTrimmed
      <4> QED BY <4>1, TextTrimmed
    <3>2. CASE why \in Text
      BY <3>2, TextTrimmed
    <3> QED BY <3>1, <3>2
  <2> QED BY <2>1 DEF Explained
<1>3. Updated(former, items, why) \in PlanSnapshot
  <2>1. former.revision + 1 \in Nat
    BY <1>1
  <2> HIDE DEF Explained, Trimmed
  <2> QED BY <1>1, <1>2, <2>1 DEF Updated, PlanSnapshot
<1>4. UpdatePlan(former, items, why) =
        IF former.revision >= MaxRevision THEN Conflict
        ELSE IF Snapshot(Updated(former, items, why)) THEN Updated(former, items, why) ELSE Invalid
  BY DEF UpdatePlan, Updated, Trimmed, ItemTrimmed, Explained
<1> QED BY <1>2, <1>3, <1>4 DEF Updated

\* The places of a set, in order, are its first, second and later ones.
LEMMA NthIs ==
    ASSUME NEW K \in SUBSET Nat, NEW n \in Nat, NEW q, Enumerates(q, n, K)
    PROVE  Cardinality(K) = n /\ \A i \in 1..n : Nth(K, i) = q[i]
<1>1. /\ q \in [1..n -> K] /\ (\A i, j \in 1..n : i < j => q[i] < q[j])
      /\ \A x \in K : \E i \in 1..n : q[i] = x
  BY DEF Enumerates
<1>2. \A i \in 1..n : q[i] \in K /\ q[i] \in Nat
  BY <1>1
<1>3. \A i, j \in 1..n : q[i] < q[j] => i < j
  <2> SUFFICES ASSUME NEW i \in 1..n, NEW j \in 1..n, q[i] < q[j] PROVE i < j
    OBVIOUS
  <2>1. ~ (j < i) /\ i # j
    BY <1>1, <1>2
  <2> QED BY <2>1
<1>4. \A i, j \in 1..n : q[i] = q[j] => i = j
  <2> SUFFICES ASSUME NEW i \in 1..n, NEW j \in 1..n, q[i] = q[j] PROVE i = j
    OBVIOUS
  <2>1. ~ (j < i) /\ ~ (i < j)
    BY <1>1, <1>2
  <2> QED BY <2>1
<1>5. ASSUME NEW m \in 0..n, NEW S, \A x : x \in S <=> \E i \in 1..m : x = q[i]
      PROVE  Cardinality(S) = m
  <2> DEFINE f == [i \in 1..m |-> q[i]]
  <2>1. m \in Nat /\ \A i \in 1..m : i \in 1..n
    OBVIOUS
  <2>2. f \in [1..m -> S] /\ \A i \in 1..m : f[i] = q[i]
    BY <1>5
  <2>3. \A i, j \in 1..m : f[i] = f[j] => i = j
    BY <1>4, <2>1, <2>2
  <2>4. \A x \in S : \E i \in 1..m : f[i] = x
    BY <1>5, <2>2
  <2>5. f \in Bijection(1..m, S)
    <3> HIDE DEF f
    <3> QED BY <2>2, <2>3, <2>4 DEF Bijection, Injection, Surjection, IsInjective
  <2>6. ExistsBijection(1..m, S)
    BY <2>5 DEF ExistsBijection
  <2>7. IsFiniteSet(1..m) /\ Cardinality(1..m) = m
    <3>1. IsFiniteSet(1..m) /\ Cardinality(1..m) = IF 1 > m THEN 0 ELSE m - 1 + 1
      BY <2>1, FS_Interval
    <3>2. (IF 1 > m THEN 0 ELSE m - 1 + 1) = m
      BY <2>1
    <3> QED BY <3>1, <3>2
  <2> QED BY <2>6, <2>7, FS_Bijection
<1>6. Cardinality(K) = n
  <2>1. \A x : x \in K <=> \E i \in 1..n : x = q[i]
    BY <1>1, <1>2
  <2> QED BY <1>5, <2>1
<1>7. ASSUME NEW i \in 1..n PROVE Cardinality({j \in K : j < q[i]}) = i - 1
  <2> DEFINE S == {j \in K : j < q[i]}
  <2>1. i - 1 \in 0..n /\ \A m \in 1..i - 1 : m \in 1..n /\ m < i
    OBVIOUS
  <2>2. ASSUME NEW x \in S PROVE \E m \in 1..i - 1 : x = q[m]
    <3>1. PICK m \in 1..n : q[m] = x
      BY <1>1
    <3>2. m < i
      BY <1>3, <3>1
    <3>3. m \in 1..i - 1
      BY <3>2
    <3> QED BY <3>1, <3>3
  <2>3. ASSUME NEW m \in 1..i - 1 PROVE q[m] \in S
    BY <1>1, <1>2, <2>1
  <2>4. \A x : x \in S <=> \E m \in 1..i - 1 : x = q[m]
    <3> HIDE DEF S
    <3> QED BY <2>2, <2>3
  <2> HIDE DEF S
  <2>5. Cardinality(S) = i - 1
    BY <1>5, <2>1, <2>4
  <2> QED BY <2>5 DEF S
<1>8. ASSUME NEW i \in 1..n PROVE Nth(K, i) = q[i]
  <2> DEFINE Here(k) == Cardinality({j \in K : j < k}) = i - 1
  <2>1. q[i] \in K /\ Here(q[i])
    BY <1>2, <1>7
  <2>2. ASSUME NEW k \in K, Here(k) PROVE k = q[i]
    <3>1. PICK m \in 1..n : q[m] = k
      BY <1>1
    <3>2. Cardinality({j \in K : j < k}) = m - 1
      BY <1>7, <3>1
    <3>3. m - 1 = i - 1
      BY <2>2, <3>2
    <3>4. m = i
      BY <3>3
    <3> QED BY <3>1, <3>4
  <2>3. Nth(K, i) = CHOOSE k \in K : Here(k)
    BY DEF Nth
  <2> HIDE DEF Here
  <2> QED BY <2>1, <2>2, <2>3
<1> QED BY <1>6, <1>8

\* What follows all patches of a call is, its texts trimmed, what the call asks for.
LEMMA IntendedIs ==
    ASSUME NEW plan \in PlanSnapshot, Snapshot(plan), NEW call \in UpdatePlanArgs, ~ call.clear,
           NEW made \in Seq(PlanItem), Follows(plan.items, call.patches, Len(call.patches), made)
    PROVE  Trimmed(made) = Intended(plan.items, call)
<1> DEFINE items == plan.items
           patches == call.patches
           n == Len(patches)
           N == Len(items)
           m == Len(made)
           K == Left(items, patches, n)
<1>1. items \in Seq(PlanItem) /\ patches \in Seq(PlanItemPatch)
  BY DEF PlanSnapshot, UpdatePlanArgs
<1> HIDE DEF items, patches
<1>2. /\ n \in Nat /\ N \in Nat /\ m \in Nat /\ DOMAIN patches = 1..n /\ DOMAIN items = 1..N
      /\ \A i \in 1..N : items[i] \in PlanItem /\ items[i].text \in Text /\ items[i].id \in Text
      /\ \A j \in 1..n : /\ patches[j] \in PlanItemPatch /\ patches[j].id \in Text
                         /\ patches[j].text \in Text \cup {NoText}
                         /\ patches[j].status \in PlanStatus \cup {"none"}
  BY <1>1, ItemTyped, PatchTyped
<1>3. \A i \in 1..N : ~ items[i].id.blanks /\ ~ items[i].text.blanks
  BY <1>2, SnapshotIs DEF LegalItems, items
<1>4. PICK q : /\ Enumerates(q, m, K) /\ q \in [1..m -> K]
               /\ \A i \in 1..m : made[i] = AfterAt(items, patches, n, q[i])
  BY DEF Follows, FollowsBy, Enumerates, items, patches
<1>5. Places(items, patches) = K
  <2> DEFINE stay == {i \in 1..N : \A j \in 1..n : Trim(patches[j].id) = items[i].id => ~ patches[j].remove}
             fresh2 == {j \in 1..n : Trim(patches[j].id) \notin IdsOf(items)}
             new == {N + j : j \in fresh2}
             new2 == {i \in N + 1..N + n : Trim(patches[i - N].id) \notin IdsOf(items)}
  <2>1. {i \in 1..N : \A j \in NamedBy(items, patches, n, i) : ~ patches[j].remove} = stay
    BY DEF NamedBy
  <2>2. new = new2
    <3>1. ASSUME NEW j \in fresh2 PROVE N + j \in new2
      <4>1. N + j \in N + 1..N + n /\ (N + j) - N = j
        BY <1>2
      <4> HIDE DEF N
      <4> QED BY <4>1
    <3>2. ASSUME NEW i \in new2 PROVE i - N \in fresh2 /\ i = N + (i - N)
      <4>1. i \in N + 1..N + n
        OBVIOUS
      <4>2. i - N \in 1..n /\ i = N + (i - N)
        BY <1>2, <4>1
      <4> QED BY <4>2
    <3> HIDE DEF fresh2, new2
    <3> QED BY <3>1, <3>2
  <2>3. Places(items, patches) = stay \cup new
    BY <1>2 DEF Places
  <2>4. K = stay \cup new2
    <3> HIDE DEF stay
    <3> QED BY <2>1 DEF Left
  <2> HIDE DEF stay, new, new2
  <2> QED BY <2>2, <2>3, <2>4
<1>6. Cardinality(K) = m /\ \A i \in 1..m : Nth(K, i) = q[i]
  <2>1. K \in SUBSET Nat
    BY <1>2 DEF Left
  <2> HIDE DEF K, m
  <2> QED BY <1>2, <1>4, <2>1, NthIs
<1>7. ASSUME NEW k \in K, AfterAt(items, patches, n, k) \in PlanItem
      PROVE  ItemAt(items, patches, k) = ItemTrimmed(AfterAt(items, patches, n, k))
  <2> DEFINE For == NamedBy(items, patches, n, k)
             p == patches[CHOOSE j \in For : TRUE]
             after == AfterAt(items, patches, n, k)
  <2>1. k \in 1..N \/ k \in N + 1..N + n
    BY DEF Left
  <2>2. ItemTrimmed(after) = [id |-> Trim(after.id), text |-> Trim(after.text), status |-> after.status]
    BY <1>7, ItemIsTrimmed
  <2>3. CASE k \in 1..N
    <3>1. k <= Len(items) /\ For = {j \in DOMAIN patches : Trim(patches[j].id) = items[k].id}
      BY <1>2, <2>3 DEF NamedBy
    <3>2. CASE For = {}
      <4>1. after = items[k] /\ ItemAt(items, patches, k) = items[k]
        BY <3>1, <3>2 DEF AfterAt, ItemAt
      <4> HIDE DEF after
      <4> QED BY <1>2, <1>3, <2>3, <4>1, ItemIsTrimmed DEF after
    <3>3. CASE For # {}
      <4>1. (CHOOSE j \in For : TRUE) \in 1..n
        BY <3>3 DEF NamedBy
      <4>2. p \in PlanItemPatch /\ p.text \in Text \cup {NoText} /\ p.status \in PlanStatus \cup {"none"}
        BY <1>2, <4>1
      <4>3. after = Changed(items[k], p)
        BY <3>1, <3>3 DEF AfterAt
      <4>4. ItemAt(items, patches, k) =
              [items[k] EXCEPT !.text = IF p.text = NoText THEN @ ELSE Trim(p.text),
                               !.status = IF p.status = "none" THEN @ ELSE p.status]
        BY <3>1, <3>3 DEF ItemAt
      <4> HIDE DEF p, after
      <4> DEFINE item == items[k]
                 text == IF p.text = NoText THEN item.text ELSE p.text
                 trim == IF p.text = NoText THEN item.text ELSE Trim(p.text)
                 status == IF p.status = "none" THEN item.status ELSE p.status
                 told == [item EXCEPT !.text = trim]
      <4>5. /\ item \in PlanItem /\ item.id \in Text /\ item.text \in Text
            /\ ~ item.id.blanks /\ ~ item.text.blanks
            /\ item = [id |-> item.id, text |-> item.text, status |-> item.status]
        BY <1>2, <1>3, <2>3 DEF PlanItem
      <4>6. after = [id |-> item.id, text |-> text, status |-> status]
        BY <4>2, <4>3, <4>5, ItemChanged
      <4>7. Trim(item.id) = item.id /\ Trim(item.text) = item.text /\ Trim(text) = trim
        BY <4>2, <4>5, TextTrimmed
      <4>8. ItemAt(items, patches, k) = [item EXCEPT !.text = trim, !.status = status]
        BY <4>4
      <4> HIDE DEF item, text, trim, status
      <4>9. [item EXCEPT !.text = trim, !.status = status] = [told EXCEPT !.status = status]
        OBVIOUS
      <4>10. told = [id |-> item.id, text |-> trim, status |-> item.status]
        BY <4>5
      <4> HIDE DEF told
      <4>11. [told EXCEPT !.status = status] = [id |-> item.id, text |-> trim, status |-> status]
        BY <4>10
      <4>12. ItemTrimmed(after) = [id |-> item.id, text |-> trim, status |-> status]
        <5>1. after.id = item.id /\ after.text = text /\ after.status = status
          BY <4>6
        <5> QED BY <2>2, <4>7, <5>1 DEF after
      <4> QED BY <4>8, <4>9, <4>11, <4>12 DEF after
    <3> QED BY <3>2, <3>3
  <2>4. CASE k \in N + 1..N + n
    <3>1. ~ (k <= Len(items)) /\ k - N \in 1..n
      BY <1>2, <2>4
    <3> DEFINE t == patches[k - N]
    <3>2. t.id \in Text
      BY <1>2, <3>1
    <3>3. after = Added(t)
      BY <3>1 DEF AfterAt
    <3>4. ItemAt(items, patches, k) = [id |-> Trim(t.id), text |-> Trim(t.text),
                                       status |-> IF t.status = "none" THEN "pending" ELSE t.status]
      BY <3>1 DEF ItemAt
    <3> HIDE DEF t, after
    <3>5. /\ after.id = Trim(t.id) /\ after.text = t.text
          /\ after.status = IF t.status = "none" THEN "pending" ELSE t.status
      BY <3>3 DEF Added
    <3>6. Trim(Trim(t.id)) = Trim(t.id)
      BY <3>2, TextTrimmed
    <3> QED BY <2>2, <3>4, <3>5, <3>6 DEF after
  <2> QED BY <2>1, <2>3, <2>4
<1>8. Trimmed(made) = [i \in 1..m |-> ItemTrimmed(made[i])] /\ \A i \in 1..m : made[i] \in PlanItem
  BY ItemTyped DEF Trimmed
<1>9. Intended(items, call) = [i \in 1..m |-> ItemAt(items, patches, q[i])]
  <2>1. Intended(items, call) = [i \in 1..Cardinality(K) |-> ItemAt(items, patches, Nth(K, i))]
    <3> HIDE DEF K
    <3> QED BY <1>5 DEF Intended, patches
  <2> HIDE DEF K, m
  <2> QED BY <1>6, <2>1
<1>10. \A i \in 1..m : ItemAt(items, patches, q[i]) = ItemTrimmed(made[i])
  <2> HIDE DEF K, m, n
  <2> QED BY <1>4, <1>7, <1>8
<1> HIDE DEF m
<1>11. Intended(items, call) = [i \in 1..m |-> ItemTrimmed(made[i])]
  BY <1>9, <1>10
<1> QED BY <1>8, <1>11 DEF items

\* A call is well-formed when all its patches can be applied in turn.
LEMMA WellFormedIs ==
    ASSUME NEW items \in Seq(PlanItem), NEW call \in UpdatePlanArgs, ~ call.clear
    PROVE  WellFormed(items, call) <=>
             (call.patches # <<>> \/ call.explanation # NoText)
               /\ PatchesOk(items, call.patches, Len(call.patches))
<1> DEFINE patches == call.patches
           n == Len(patches)
           id(j) == Trim(patches[j].id)
           Apart == \A i, j \in 1..n : id(i) = id(j) => i = j
           Alone == \A j \in 1..n : ~ Seen(patches, j)
           Each(j) == LET p == patches[j]
                          held == Trim(p.id) \in IdsOf(items)
                      IN  /\ ~ Empty(p.id)
                          /\ p.remove => held /\ p.text = NoText /\ p.status = "none"
                          /\ ~ p.remove => IF held THEN p.text # NoText \/ p.status # "none"
                                           ELSE p.text # NoText
<1>1. patches \in Seq(PlanItemPatch)
  BY DEF UpdatePlanArgs
<1>2. n \in Nat /\ DOMAIN patches = 1..n
  BY <1>1, PatchTyped
<1>3. Alone <=> \A i \in 1..n : \A j \in 1..i - 1 : id(j) # id(i)
  BY DEF Seen
<1>4. Apart => Alone
  <2> SUFFICES ASSUME Apart, NEW i \in 1..n, NEW j \in 1..i - 1 PROVE id(j) # id(i)
    BY <1>3
  <2>1. j \in 1..n /\ j # i
    BY <1>2
  <2> HIDE DEF id
  <2> QED BY <2>1
<1>5. Alone => Apart
  <2> SUFFICES ASSUME Alone, NEW i \in 1..n, NEW j \in 1..n, id(i) = id(j) PROVE i = j
    OBVIOUS
  <2>1. ~ (j \in 1..i - 1) /\ ~ (i \in 1..j - 1)
    <3> HIDE DEF id, Alone
    <3> QED BY <1>3
  <2> HIDE DEF id, Alone
  <2> QED BY <1>2, <2>1
<1>6. WellFormed(items, call) <=>
        (patches # <<>> \/ call.explanation # NoText) /\ Apart /\ \A j \in 1..n : Each(j)
  BY <1>2 DEF WellFormed
<1>7. PatchesOk(items, patches, n) <=> Alone /\ \A j \in 1..n : Each(j)
  BY DEF PatchesOk, PatchOk
<1> HIDE DEF Apart, Alone, Each
<1> QED BY <1>4, <1>5, <1>6, <1>7

\* What PlanSound says of a call, and of the end of a cancelled turn.
Answered(plan, call) ==
    LET next == PatchPlan(plan, call)
        asked == [plan EXCEPT !.revision = @ + 1, !.items = Intended(plan.items, call)]
    IN  IF Failed(next)
          THEN ~WellFormed(plan.items, call) \/ ~Snapshot(asked) \/ plan.revision = MaxRevision
          ELSE /\ WellFormed(plan.items, call)
               /\ Transition(plan, next)
               /\ next.items = asked.items
               /\ (call.explanation = NoText /\ ~call.clear) =>
                    next.explanation =
                      IF Empty(plan.explanation) THEN NoText ELSE plan.explanation

Settled(item) == [item EXCEPT !.status = IF @ = "in_progress" THEN "pending" ELSE @]
AllSettled(items) == [i \in DOMAIN items |-> Settled(items[i])]
Paused(plan) ==
    LET paused == ReturnInProgressToPending(plan)
    IN  (AllSettled(plan.items) # plan.items /\ plan.revision < MaxRevision) =>
           Transition(plan, paused) /\ paused.items = AllSettled(plan.items)

LEMMA PlanSoundIs == PlanSound <=> (open => /\ Snapshot(Plan)
                                            /\ \A call \in Calls : Answered(Plan, call)
                                            /\ Paused(Plan))
BY DEF PlanSound, Answered, Paused, AllSettled, Settled

\* A legal plan says nothing in an explanation that is empty or has blanks around it.
LEMMA LegalExplained ==
    ASSUME NEW plan \in LegalPlan
    PROVE  /\ plan.explanation \in Text \cup {NoText} /\ Trim(plan.explanation) = plan.explanation
           /\ Explained(plan.explanation) = IF Empty(plan.explanation) THEN NoText ELSE plan.explanation
<1>1. plan.explanation \in Text \cup {NoText} /\ ~ plan.explanation.blanks
  BY SnapshotIs DEF LegalPlan, PlanSnapshot
<1>2. Trim(plan.explanation) = plan.explanation
  BY <1>1, TextTrimmed
<1> QED BY <1>1, <1>2 DEF Explained

LEMMA UpdateAnswers ==
    ASSUME NEW plan \in LegalPlan, NEW call \in UpdatePlanArgs, WellFormed(plan.items, call),
           NEW items \in Seq(PlanItem), Trimmed(items) = Intended(plan.items, call),
           NEW why \in Text \cup {NoText},
           call.explanation = NoText /\ ~ call.clear => why = plan.explanation,
           PatchPlan(plan, call) = UpdatePlan(plan, items, why)
    PROVE  /\ Answered(plan, call)
           /\ ~ Failed(PatchPlan(plan, call)) => PatchPlan(plan, call) \in PlanSnapshot
<1> DEFINE next == Updated(plan, items, why)
           intended == Intended(plan.items, call)
           asked == [plan EXCEPT !.revision = @ + 1, !.items = intended]
<1>1. /\ plan \in PlanSnapshot /\ plan.revision \in Nat /\ plan.revision <= MaxRevision
      /\ MaxRevision \in Nat /\ ~ plan.explanation.blanks
  BY SnapshotIs, PlanAssumption DEF LegalPlan, PlanSnapshot
<1>2. /\ next \in PlanSnapshot /\ ~ next.explanation.blanks /\ next.revision = plan.revision + 1
      /\ next.items = intended /\ next.explanation = Explained(why)
      /\ PatchPlan(plan, call) =
           IF plan.revision >= MaxRevision THEN Conflict ELSE IF Snapshot(next) THEN next ELSE Invalid
  <2> HIDE DEF next
  <2> QED BY <1>1, UpdateTyped DEF next
<1>3. asked.items = intended /\ asked.explanation = plan.explanation
  <2> HIDE DEF intended
  <2> DEFINE one == [plan EXCEPT !.revision = @ + 1]
  <2>1. asked = [one EXCEPT !.items = intended]
    BY <1>1 DEF PlanSnapshot
  <2>2. one \in PlanSnapshot /\ one.explanation = plan.explanation
    BY <1>1 DEF PlanSnapshot
  <2> HIDE DEF one
  <2>3. DOMAIN one = {"revision", "items", "explanation"}
    BY <2>2 DEF PlanSnapshot
  <2> QED BY <2>1, <2>2, <2>3
<1>4. Snapshot(asked) <=> Snapshot(next)
  <2> HIDE DEF asked, next
  <2> QED BY <1>1, <1>2, <1>3, SnapshotIs
<1> HIDE DEF next, intended, asked
<1>5. CASE plan.revision >= MaxRevision
  <2>1. PatchPlan(plan, call) = Conflict /\ plan.revision = MaxRevision
    BY <1>1, <1>2, <1>5
  <2> QED BY <2>1, PlanOrError DEF Answered
<1>6. CASE ~ (plan.revision >= MaxRevision) /\ ~ Snapshot(next)
  <2>1. PatchPlan(plan, call) = Invalid /\ ~ Snapshot(asked)
    BY <1>2, <1>4, <1>6
  <2> QED BY <2>1, PlanOrError DEF Answered, asked, intended
<1>7. CASE ~ (plan.revision >= MaxRevision) /\ Snapshot(next)
  <2>1. PatchPlan(plan, call) = next /\ ~ Failed(next)
    BY <1>2, <1>7, PlanOrError
  <2>2. Transition(plan, next)
    BY <1>1, <1>2, <1>7 DEF Transition
  <2>3. next.items = asked.items
    BY <1>2, <1>3
  <2>4. call.explanation = NoText /\ ~ call.clear =>
          next.explanation = IF Empty(plan.explanation) THEN NoText ELSE plan.explanation
    BY <1>2, LegalExplained
  <2>5. Answered(plan, call)
    BY <2>1, <2>2, <2>3, <2>4 DEF Answered, asked, intended
  <2> QED BY <1>2, <2>1, <2>5
<1> QED BY <1>5, <1>6, <1>7

\* Every call is answered as PlanSound says, and leaves a plan if it leaves anything.
LEMMA CallAnswered ==
    ASSUME NEW plan \in LegalPlan, NEW call \in UpdatePlanArgs
    PROVE  /\ Answered(plan, call)
           /\ ~ Failed(PatchPlan(plan, call)) => PatchPlan(plan, call) \in PlanSnapshot
<1> DEFINE items == plan.items
           patches == call.patches
           changed == AllPatched(plan, patches)
           why == IF call.explanation = NoText THEN plan.explanation ELSE call.explanation
<1>1. /\ plan \in PlanSnapshot /\ Snapshot(plan) /\ items \in Seq(PlanItem)
      /\ patches \in Seq(PlanItemPatch) /\ call.explanation \in Text \cup {NoText}
      /\ call.clear \in BOOLEAN
  BY DEF LegalPlan, PlanSnapshot, UpdatePlanArgs
<1>2. Distinct(items)
  BY <1>1, SnapshotIs, ItemTyped DEF LegalItems, Distinct
<1>3. why \in Text \cup {NoText}
  BY <1>1, LegalExplained
<1>4. ASSUME PatchPlan(plan, call) = Invalid, ~ WellFormed(items, call)
      PROVE  Answered(plan, call) /\ Failed(PatchPlan(plan, call))
  BY <1>4, PlanOrError DEF Answered
<1>5. CASE call.clear /\ (patches # <<>> \/ call.explanation # NoText)
  <2>1. PatchPlan(plan, call) = Invalid
    BY <1>5 DEF PatchPlan
  <2>2. ~ WellFormed(items, call)
    BY <1>5 DEF WellFormed
  <2> QED BY <1>4, <2>1, <2>2
<1>6. CASE call.clear /\ ~ (patches # <<>> \/ call.explanation # NoText)
  <2>1. PatchPlan(plan, call) = UpdatePlan(plan, <<>>, NoText)
    BY <1>6 DEF PatchPlan
  <2>2. WellFormed(items, call)
    BY <1>6 DEF WellFormed
  <2>3. <<>> \in Seq(PlanItem) /\ DOMAIN <<>> = {}
    BY EmptySeq
  <2>4. Intended(items, call) = <<>>
    <3>1. Cardinality({}) = 0 /\ 1..0 = {}
      BY FS_EmptySet
    <3> QED BY <1>6, <3>1 DEF Intended
  <2>5. Trimmed(<<>>) = <<>>
    BY <2>3 DEF Trimmed
  <2> QED BY <1>6, <2>1, <2>2, <2>3, <2>4, <2>5, UpdateAnswers
<1>7. CASE ~ call.clear /\ ~ WellFormed(items, call)
  <2>1. (patches = <<>> /\ call.explanation = NoText) \/ ~ PatchesOk(items, patches, Len(patches))
    BY <1>1, <1>7, WellFormedIs
  <2>2. ~ PatchesOk(items, patches, Len(patches)) => Failed(changed)
    BY <1>1, <1>2, PatchesFollow
  <2>3. PatchPlan(plan, call) = Invalid
    BY <1>7, <2>1, <2>2 DEF PatchPlan
  <2> QED BY <1>4, <1>7, <2>3
<1>8. CASE ~ call.clear /\ WellFormed(items, call)
  <2>1. (patches # <<>> \/ call.explanation # NoText) /\ PatchesOk(items, patches, Len(patches))
    BY <1>1, <1>8, WellFormedIs
  <2>2. changed \in PlanSnapshot /\ Follows(items, patches, Len(patches), changed.items)
    BY <1>1, <1>2, <2>1, PatchesFollow
  <2>3. ~ Failed(changed) /\ changed.items \in Seq(PlanItem)
    BY <2>2, PlanOrError DEF PlanSnapshot
  <2>4. PatchPlan(plan, call) = UpdatePlan(plan, changed.items, why)
    BY <1>8, <2>1, <2>3 DEF PatchPlan
  <2> HIDE DEF changed
  <2>5. Trimmed(changed.items) = Intended(items, call)
    BY <1>1, <1>8, <2>2, <2>3, IntendedIs
  <2>6. call.explanation = NoText /\ ~ call.clear => why = plan.explanation
    OBVIOUS
  <2> HIDE DEF why
  <2> QED BY <1>3, <1>8, <2>3, <2>4, <2>5, <2>6, UpdateAnswers
<1> QED BY <1>5, <1>6, <1>7, <1>8

LEMMA ItemSettled ==
    ASSUME NEW item \in PlanItem
    PROVE  /\ Settled(item) \in PlanItem /\ Settled(item).status # "in_progress"
           /\ Settled(item).id = item.id /\ Settled(item).text = item.text
           /\ Settled(item) = IF item.status = "in_progress" THEN [item EXCEPT !.status = "pending"] ELSE item
<1>1. /\ item.id \in Text /\ item.text \in Text /\ item.status \in PlanStatus
      /\ item = [id |-> item.id, text |-> item.text, status |-> item.status]
  BY DEF PlanItem
<1>2. CASE item.status = "in_progress"
  <2>1. Settled(item) = [id |-> item.id, text |-> item.text, status |-> "pending"]
        /\ Settled(item) = [item EXCEPT !.status = "pending"]
    BY <1>1, <1>2 DEF Settled
  <2> QED BY <1>1, <1>2, <2>1 DEF PlanItem, PlanStatus
<1>3. CASE item.status # "in_progress"
  <2>1. Settled(item) = item
    BY <1>1, <1>3 DEF Settled
  <2> QED BY <1>3, <2>1
<1> QED BY <1>2, <1>3

\* The end of a cancelled turn settles a legal plan.
LEMMA CancelledPauses ==
    ASSUME NEW plan \in LegalPlan
    PROVE  /\ Paused(plan)
           /\ LET next == ReturnInProgressToPending(plan) IN next # NoPlan => next \in PlanSnapshot
<1> DEFINE items == plan.items
           N == Len(items)
           settled == AllSettled(items)
           next == Updated(plan, settled, CancelledNote)
           updated == UpdatePlan(plan, settled, CancelledNote)
           Going == \E i \in DOMAIN items : items[i].status = "in_progress"
<1>1. /\ plan \in PlanSnapshot /\ plan.revision \in Nat /\ MaxRevision \in Nat
      /\ items \in Seq(PlanItem) /\ LegalItems(items)
  BY SnapshotIs, PlanAssumption DEF LegalPlan, PlanSnapshot
<1>2. N \in Nat /\ DOMAIN items = 1..N /\ \A i \in 1..N : items[i] \in PlanItem
  BY <1>1, ItemTyped
<1>3. /\ settled \in Seq(PlanItem) /\ Len(settled) = N /\ DOMAIN settled = 1..N
      /\ \A i \in 1..N : settled[i] = Settled(items[i])
  <2> DEFINE s == [i \in 1..N |-> Settled(items[i])]
  <2>1. settled = s
    BY <1>2 DEF AllSettled
  <2>2. \A i \in 1..N : Settled(items[i]) \in PlanItem
    BY <1>2, ItemSettled
  <2>3. s \in Seq(PlanItem) /\ Len(s) = N
    <3> HIDE DEF N
    <3> QED BY <1>2, <2>2, IsASeq
  <2> QED BY <2>1, <2>3
<1>4. \A i \in 1..N : /\ items[i].id \in Text /\ ~ Empty(items[i].id) /\ ~ items[i].id.blanks
                      /\ ~ Empty(items[i].text) /\ ~ items[i].text.blanks
                      /\ \A j \in 1..N : items[i].id = items[j].id => i = j
  BY <1>1, <1>2, ItemTyped DEF LegalItems
<1>5. \A i \in 1..N : /\ settled[i].id = items[i].id /\ settled[i].text = items[i].text
                      /\ settled[i].status # "in_progress"
                      /\ settled[i] \in PlanItem
  <2> HIDE DEF N, items, settled
  <2> QED BY <1>2, <1>3, ItemSettled
<1> HIDE DEF settled, N
<1>6. Len(settled) <= MaxItems
  BY <1>1, <1>3 DEF LegalItems, N
<1>7. LegalItems(settled)
  <2> HIDE DEF items
  <2> QED BY <1>3, <1>4, <1>5, <1>6, LegalIfNoneInProgress
<1>8. Trimmed(settled) = settled
  <2>1. \A i \in 1..N : ItemTrimmed(settled[i]) = settled[i]
    <3> HIDE DEF items
    <3> QED BY <1>4, <1>5, ItemIsTrimmed
  <2>2. Trimmed(settled) = [i \in 1..N |-> settled[i]]
    BY <1>3, <2>1 DEF Trimmed
  <2>3. settled = [i \in 1..N |-> settled[i]]
    BY <1>3
  <2> QED BY <2>2, <2>3
<1>9. CancelledNote \in Text
  BY PlanAssumption
<1>10. /\ next \in PlanSnapshot /\ ~ next.explanation.blanks /\ next.revision = plan.revision + 1
       /\ next.items = settled
       /\ updated = IF plan.revision >= MaxRevision THEN Conflict ELSE IF Snapshot(next) THEN next ELSE Invalid
  <2> HIDE DEF next
  <2> QED BY <1>1, <1>3, <1>8, <1>9, UpdateTyped DEF next
<1> HIDE DEF next
<1>11. Snapshot(next)
  BY <1>7, <1>10, SnapshotIs
<1>12. updated = IF plan.revision >= MaxRevision THEN Conflict ELSE next
  BY <1>10, <1>11
<1>13. ReturnInProgressToPending(plan) = IF Going /\ ~ Failed(updated) THEN updated ELSE NoPlan
  <2> DEFINE Back(item) == IF item.status = "in_progress" THEN [item EXCEPT !.status = "pending"] ELSE item
             backs == [i \in DOMAIN plan.items |-> Back(plan.items[i])]
  <2>1. \A i \in 1..N : Back(items[i]) = settled[i]
    BY <1>2, <1>3, ItemSettled
  <2>2. backs = settled
    <3>1. backs = [i \in 1..N |-> Back(items[i])]
      BY <1>2
    <3> HIDE DEF Back, backs
    <3>2. backs = [i \in 1..N |-> settled[i]]
      BY <2>1, <3>1
    <3> QED BY <1>3, <3>2
  <2>3. ReturnInProgressToPending(plan) =
          LET was == UpdatePlan(plan, backs, CancelledNote)
          IN  IF (\E i \in DOMAIN plan.items : plan.items[i].status = "in_progress") /\ ~Failed(was)
                THEN was ELSE NoPlan
    BY DEF ReturnInProgressToPending
  <2> HIDE DEF backs
  <2> QED BY <2>2, <2>3
<1> HIDE DEF updated
<1>14. settled # items => Going
  <2> SUFFICES ASSUME ~ Going PROVE settled = items
    OBVIOUS
  <2>1. \A i \in 1..N : settled[i] = items[i]
    BY <1>2, <1>3, ItemSettled
  <2>2. settled = [i \in 1..N |-> settled[i]]
    BY <1>3
  <2>3. items = [i \in 1..N |-> items[i]]
    BY <1>1, <1>2
  <2> HIDE DEF items
  <2> QED BY <2>1, <2>2, <2>3
<1>15. ASSUME settled # items, plan.revision < MaxRevision
       PROVE  /\ Transition(plan, ReturnInProgressToPending(plan))
              /\ ReturnInProgressToPending(plan).items = settled
  <2>1. updated = next /\ ~ Failed(next)
    BY <1>1, <1>10, <1>12, <1>15, PlanOrError
  <2>2. ReturnInProgressToPending(plan) = next
    BY <1>13, <1>14, <1>15, <2>1
  <2> QED BY <1>10, <1>11, <1>15, <2>2 DEF Transition
<1>16. ASSUME ReturnInProgressToPending(plan) # NoPlan PROVE ReturnInProgressToPending(plan) \in PlanSnapshot
  <2>1. ReturnInProgressToPending(plan) = updated /\ ~ Failed(updated)
    BY <1>13, <1>16
  <2> QED BY <1>10, <1>12, <2>1, PlanOrError
<1> QED BY <1>15, <1>16 DEF Paused, settled

\* Whatever the model calls, other writers record and cancelled turns repair,
\* the plan a session reads off its log is a legal one; a call leaves exactly
\* what all its patches together ask for or is refused for a reason, and the
\* end of a cancelled turn only settles what was in progress (plan.rs,
\* reduce_plan, patch_plan, update_plan and return_in_progress_to_pending).
THEOREM PlanAlways == PlanSpec => []PlanSound
<1> DEFINE Facts == planLog \in Seq(PlanSnapshot)
<1>1. Facts => PlanSound
  <2> SUFFICES ASSUME Facts PROVE PlanSound
    OBVIOUS
  <2>1. Plan \in LegalPlan
    BY ReduceLegal DEF Plan
  <2>2. Snapshot(Plan) /\ Paused(Plan)
    <3>1. Snapshot(Plan)
      BY <2>1 DEF LegalPlan
    <3> QED BY <2>1, <3>1, CancelledPauses
  <2>3. \A call \in Calls : Answered(Plan, call)
    BY <2>1, CallAnswered, PlanAssumption
  <2> QED BY <2>2, <2>3, PlanSoundIs
<1>2. PlanInit => Facts
  BY EmptySeq DEF PlanInit
<1>3. Facts /\ [PlanNext]_planVars => Facts'
  <2> SUFFICES ASSUME Facts, [PlanNext]_planVars PROVE Facts'
    OBVIOUS
  <2>1. Plan \in LegalPlan
    BY ReduceLegal DEF Plan
  <2>2. ASSUME NEW fact \in PlanSnapshot, planLog' = Append(planLog, fact) PROVE Facts'
    BY <2>2, AppendProperties
  <2>3. CASE TakeUp
    BY <2>3, EmptySeq, PlanAssumption DEF TakeUp
  <2> HIDE DEF Facts
  <2>4. ASSUME NEW call \in Calls, CallTool(call) PROVE Facts'
    <3>1. PatchPlan(Plan, call) \in PlanSnapshot
      BY <2>1, <2>4, CallAnswered, PlanAssumption DEF CallTool
    <3> QED BY <2>2, <2>4, <3>1 DEF CallTool
  <2>5. CASE TurnCancelled
    <3>1. ReturnInProgressToPending(Plan) \in PlanSnapshot
      BY <2>1, <2>5, CancelledPauses DEF TurnCancelled
    <3> QED BY <2>2, <2>5, <3>1 DEF TurnCancelled
  <2>6. CASE UNCHANGED planVars
    BY <2>6 DEF Facts, planVars
  <2> QED BY <2>3, <2>4, <2>5, <2>6 DEF PlanNext
<1> QED BY <1>1, <1>2, <1>3, PTL DEF PlanSpec
=============================================================================
