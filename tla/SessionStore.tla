---------------------------- MODULE SessionStore ----------------------------
(***************************************************************************)
(* The persistent fact log of a session (storage.rs): one SQLite database  *)
(* per session, shared by every onemore process of the workspace.  A       *)
(* process holds a SessionManager, whose current session is Pending (no    *)
(* database yet) or Open (a connection and the chain tail it last knew),   *)
(* and the agent's in-memory copy of the facts (runtime/commands.rs).      *)
(*                                                                         *)
(* An entry keeps its id, its parent and the plan revision it carries      *)
(* (0: not a plan fact).  UUIDs are numbers never used before; a           *)
(* transaction is one step or fails as a whole.  Reads outside a           *)
(* transaction are steps of their own.                                     *)
(***************************************************************************)
EXTENDS Naturals, Sequences, FiniteSets

CONSTANTS
    Process,    \* the processes, at most one session each
    Session,    \* session ids
    MaxEntries, \* bound on the entries ever written
    None        \* no session

ASSUME StoreAssumption ==
    /\ MaxEntries \in Nat
    /\ None \notin Session

VARIABLES
    row,      \* sessions whose database holds its session row
    log,      \* the entries table of each session, in sequence order
    leaf,     \* session.leaf_id, 0 when NULL
    fresh,    \* the last entry id given out
    known,    \* session ids given out so far
    cleared,  \* history: sessions the user ever cleared
    mode,     \* SessionManager.current: "pending" or "open"
    current,  \* id of the current session
    memLeaf,  \* SessionStore.leaf_id of the current session
    mem,      \* Agent.entries
    pc,       \* where the process stands in a storage operation
    batch,    \* the payloads being appended
    opening   \* the store a load has opened: its session and leaf

dbVars   == <<row, log, leaf, fresh, cleared>>
procVars == <<mode, current, memLeaf, mem>>
vars == <<dbVars, known, procVars, pc, batch, opening>>

Ids       == 1..MaxEntries
Payload   == 0..MaxEntries
Entry     == [id : Ids, parent : {0} \cup Ids, plan : Payload]
NoStore   == [session |-> None, leaf |-> 0]

\* reduce_plan: the revision a log arrives at; a plan fact that does not
\* advance it by exactly one is ignored.
Advance(revision, plan) == IF plan = revision + 1 THEN plan ELSE revision
PlanOf(entries) ==
    LET after[i \in 0..Len(entries)] ==
            IF i = 0 THEN 0 ELSE Advance(after[i - 1], entries[i].plan)
    IN  after[Len(entries)]

\* validate_plan_append: every plan fact of the batch advances the log's plan.
PlanAppends(entries, payloads) ==
    LET after[i \in 0..Len(payloads)] ==
            IF i = 0 THEN PlanOf(entries) ELSE Advance(after[i - 1], payloads[i])
    IN  \A i \in 1..Len(payloads) : payloads[i] # 0 => payloads[i] = after[i - 1] + 1

\* The batches an agent commits: messages, and plan updates computed from the
\* plan of its own memory.
Batches(p) ==
    LET next == {n \in Payload : n = PlanOf(mem[p]) + 1}
    IN  {<<0>>} \cup {<<n>> : n \in next} \cup {<<0, n>> : n \in next}

\* Mutant: every entry of a batch is a child of the leaf.
ChainedSiblings(payloads, parent) ==
    [i \in 1..Len(payloads) |->
        [id |-> fresh + i, parent |-> parent, plan |-> payloads[i]]]

\* The entries a batch becomes: fresh ids, each the child of the one before it.
Chained(payloads, parent) ==
    [i \in 1..Len(payloads) |->
        [id     |-> fresh + i,
         parent |-> IF i = 1 THEN parent ELSE fresh + i - 1,
         plan   |-> payloads[i]]]

Init ==
    /\ row = {}
    /\ log = [s \in Session |-> <<>>]
    /\ leaf = [s \in Session |-> 0]
    /\ fresh = 0
    /\ cleared = {}
    /\ current \in [Process -> Session]
    /\ \A p, q \in Process : p # q => current[p] # current[q]
    /\ known = {current[p] : p \in Process}
    /\ mode = [p \in Process |-> "pending"]
    /\ memLeaf = [p \in Process |-> 0]
    /\ mem = [p \in Process |-> <<>>]
    /\ pc = [p \in Process |-> "idle"]
    /\ batch = [p \in Process |-> <<>>]
    /\ opening = [p \in Process |-> NoStore]

-----------------------------------------------------------------------------
(* SessionManager::append_payloads and Agent::commit.                      *)

\* The bound on the run: enough unused entry ids for the batch.
RoomFor(payloads) == fresh + Len(payloads) <= MaxEntries

\* A pending session gets its database on the first append: the schema and the
\* session row are committed before any entry is.  When the row is already
\* there the INSERT violates the primary key and the call fails at once.
CreateStore(p, payloads) ==
    /\ pc[p] = "idle" /\ mode[p] = "pending"
    /\ RoomFor(payloads) /\ PlanAppends(<<>>, payloads)
    /\ current[p] \notin row
    /\ row' = row \cup {current[p]}
    /\ pc' = [pc EXCEPT ![p] = "reading"]
    /\ batch' = [batch EXCEPT ![p] = payloads]
    /\ UNCHANGED <<log, leaf, fresh, cleared, known, procVars, opening>>

\* An open session appends through the store it holds.
BeginAppend(p, payloads) ==
    /\ pc[p] = "idle" /\ mode[p] = "open"
    /\ RoomFor(payloads)
    /\ pc' = [pc EXCEPT ![p] = "reading"]
    /\ batch' = [batch EXCEPT ![p] = payloads]
    /\ UNCHANGED <<dbVars, known, procVars, opening>>

\* The plan facts are validated against what the database holds now, outside
\* the transaction.
ReadLog(p) ==
    /\ pc[p] = "reading"
    /\ PlanAppends(log[current[p]], batch[p])
    /\ pc' = [pc EXCEPT ![p] = "writing"]
    /\ UNCHANGED <<dbVars, known, procVars, batch, opening>>

\* The transaction, its commit, and the update of the agent's memory.
Write(p) ==
    LET s   == current[p]
        new == Chained(batch[p], memLeaf[p])
    IN  /\ RoomFor(batch[p])
        /\ log' = [log EXCEPT ![s] = @ \o new]
        /\ fresh' = fresh + Len(new)
        /\ leaf' = [leaf EXCEPT ![s] = fresh + Len(new)]
        /\ memLeaf' = [memLeaf EXCEPT ![p] = fresh + Len(new)]
        /\ mem' = [mem EXCEPT ![p] = @ \o new]
        /\ mode' = [mode EXCEPT ![p] = "open"]
        /\ pc' = [pc EXCEPT ![p] = "idle"]
        /\ batch' = [batch EXCEPT ![p] = <<>>]
        /\ UNCHANGED <<row, cleared, known, current, opening>>

\* Mutant: the transaction does not compare the leaf.
CommitUnchecked(p) == pc[p] = "writing" /\ Write(p)

\* The transaction first compares the leaf the store knows with the stored one.
Commit(p) ==
    /\ pc[p] = "writing"
    /\ leaf[current[p]] = memLeaf[p]
    /\ Write(p)

\* Mutant: a failed append leaves its facts in memory.
FailKeepingFacts(p) ==
    /\ pc[p] \in {"reading", "writing"}
    /\ RoomFor(batch[p])
    /\ mem' = [mem EXCEPT ![p] = @ \o Chained(batch[p], memLeaf[p])]
    /\ pc' = [pc EXCEPT ![p] = "idle"]
    /\ batch' = [batch EXCEPT ![p] = <<>>]
    /\ UNCHANGED <<dbVars, known, mode, current, memLeaf, opening>>

\* Validation, the leaf check, SQLITE_BUSY or I/O fails: the transaction rolls
\* back, memory stays as it was, and a pending session stays pending.
AppendFails(p) ==
    /\ pc[p] \in {"reading", "writing"}
    /\ pc' = [pc EXCEPT ![p] = "idle"]
    /\ batch' = [batch EXCEPT ![p] = <<>>]
    /\ UNCHANGED <<dbVars, known, procVars, opening>>

-----------------------------------------------------------------------------
(* /clear and /resume.                                                     *)

\* The user clears an open session: every entry goes, whoever wrote it, and no
\* leaf is compared.  (A pending session has nothing to clear.)
Clear(p) ==
    /\ pc[p] = "idle" /\ mode[p] = "open"
    /\ log' = [log EXCEPT ![current[p]] = <<>>]
    /\ leaf' = [leaf EXCEPT ![current[p]] = 0]
    /\ cleared' = cleared \cup {current[p]}
    /\ memLeaf' = [memLeaf EXCEPT ![p] = 0]
    /\ mem' = [mem EXCEPT ![p] = <<>>]
    /\ UNCHANGED <<row, fresh, known, mode, current, pc, batch, opening>>

\* A load finds the session in the list, opens it and reads its leaf ...
OpenStore(p, s) ==
    /\ pc[p] = "idle"
    /\ s \in row
    /\ opening' = [opening EXCEPT ![p] = [session |-> s, leaf |-> leaf[s]]]
    /\ pc' = [pc EXCEPT ![p] = "loading"]
    /\ UNCHANGED <<dbVars, known, procVars, batch>>

\* ... then reads its entries, and only then replaces the current session.
LoadEntries(p) ==
    /\ pc[p] = "loading"
    /\ mode' = [mode EXCEPT ![p] = "open"]
    /\ current' = [current EXCEPT ![p] = opening[p].session]
    /\ memLeaf' = [memLeaf EXCEPT ![p] = opening[p].leaf]
    /\ mem' = [mem EXCEPT ![p] = log[opening[p].session]]
    /\ opening' = [opening EXCEPT ![p] = NoStore]
    /\ pc' = [pc EXCEPT ![p] = "idle"]
    /\ UNCHANGED <<dbVars, known, batch>>

\* Opening or reading fails: the current session and the memory stay.
LoadFails(p) ==
    /\ pc[p] = "loading"
    /\ opening' = [opening EXCEPT ![p] = NoStore]
    /\ pc' = [pc EXCEPT ![p] = "idle"]
    /\ UNCHANGED <<dbVars, known, procVars, batch>>

\* The process ends, at any point, and is started again: a new pending session.
Restart(p, s) ==
    /\ s \notin known
    /\ known' = known \cup {s}
    /\ current' = [current EXCEPT ![p] = s]
    /\ mode' = [mode EXCEPT ![p] = "pending"]
    /\ memLeaf' = [memLeaf EXCEPT ![p] = 0]
    /\ mem' = [mem EXCEPT ![p] = <<>>]
    /\ pc' = [pc EXCEPT ![p] = "idle"]
    /\ batch' = [batch EXCEPT ![p] = <<>>]
    /\ opening' = [opening EXCEPT ![p] = NoStore]
    /\ UNCHANGED dbVars

StartAppend(p)  == \E b \in Batches(p) : CreateStore(p, b) \/ BeginAppend(p, b)
Resume(p)   == \E s \in Session : OpenStore(p, s)
Relaunch(p) == \E s \in Session : Restart(p, s)

Next ==
    \E p \in Process :
        \/ StartAppend(p) \/ ReadLog(p) \/ Commit(p) \/ AppendFails(p)
        \/ Clear(p)
        \/ Resume(p) \/ LoadEntries(p) \/ LoadFails(p)
        \/ Relaunch(p)

Spec == Init /\ [][Next]_vars

-----------------------------------------------------------------------------
(* Properties.                                                             *)

TypeOK ==
    /\ row \subseteq known /\ known \subseteq Session /\ cleared \subseteq row
    /\ log \in [Session -> Seq(Entry)]
    /\ leaf \in [Session -> 0..fresh]
    /\ fresh \in 0..MaxEntries
    /\ mode \in [Process -> {"pending", "open"}]
    /\ current \in [Process -> known]
    /\ memLeaf \in [Process -> 0..fresh]
    /\ mem \in [Process -> Seq(Entry)]
    /\ pc \in [Process -> {"idle", "reading", "writing", "loading"}]
    /\ batch \in [Process -> Seq(Payload)]
    /\ opening \in [Process -> [session : row \cup {None}, leaf : 0..fresh]]
    /\ \A p \in Process :
          /\ (pc[p] \in {"reading", "writing"}) <=> (batch[p] # <<>>)
          /\ (pc[p] = "loading") <=> (opening[p].session # None)
          /\ mode[p] = "open" \/ pc[p] \in {"reading", "writing"} => current[p] \in row
          /\ mode[p] = "pending" => mem[p] = <<>> /\ memLeaf[p] = 0

\* The facts of a session form one chain whatever processes write it, fail,
\* clear or die (storage.rs:15): each entry is the child of the entry before it
\* and the leaf is the last entry.
ChainOf(entries) ==
    \A i \in DOMAIN entries :
        entries[i].parent = IF i = 1 THEN 0 ELSE entries[i - 1].id
LastOf(entries) == IF entries = <<>> THEN 0 ELSE entries[Len(entries)].id
ChainOK ==
    \A s \in Session : ChainOf(log[s]) /\ leaf[s] = LastOf(log[s])

\* A process whose chain tail is the database's has every fact of the session
\* in memory, unless the session was cleared: the leaf stands for the log the
\* agent computed its next facts from.
WriterSawLog ==
    \A p \in Process :
        mode[p] = "open" /\ current[p] \notin cleared
            /\ memLeaf[p] = leaf[current[p]]
        => mem[p] = log[current[p]]

\* An append extends exactly the log its writer had in memory: two processes
\* on one session never interleave facts neither has seen.
AppendInSight ==
    [][\A s \in Session \ cleared :
          log'[s] # log[s] /\ s \notin cleared' =>
              \E p \in Process :
                  /\ current[p] = s
                  /\ Len(log'[s]) > Len(mem[p])
                  /\ SubSeq(log'[s], 1, Len(mem[p])) = mem[p]
                  /\ mem[p] = log[s]]_vars

\* The plan facts of a log, in order, are revisions 1, 2, 3, ...
PlansBefore(entries, i) == Cardinality({j \in 1..i : entries[j].plan # 0})
PlansAdvance(entries) ==
    \A i \in 1..Len(entries) :
        entries[i].plan # 0 => entries[i].plan = PlansBefore(entries, i - 1) + 1

\* Plan facts advance strictly (storage.rs:499) in a session nobody cleared,
\* although each was validated against a read outside the transaction.
UnclearedPlansAdvance == \A s \in Session \ cleared : PlansAdvance(log[s])

\* The same for every session: a load that opened the session before another
\* process wrote and read it afterwards has facts without their leaf, and the
\* leaf check cannot tell a cleared log from one never written.
PlanFactsAdvance == \A s \in Session : PlansAdvance(log[s])

\* A pending session has never appended: when every append so far returned an
\* error, the database is as it was, without the session (storage.rs:301).
PendingLeavesNoTrace ==
    \A p \in Process :
        pc[p] = "idle" /\ mode[p] = "pending" => current[p] \notin row
=============================================================================
