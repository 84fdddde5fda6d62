--------------------------- MODULE WorkspaceProofs ---------------------------
(***************************************************************************)
(* Proofs about what the processes of a workspace share: a listing that is *)
(* returned is new (SessionList), a switch of the model leaves the log,    *)
(* the preference and its file agreed (ModelSelection), and a migration    *)
(* loses and doubles nothing (StoreMigration), for any number of callers,  *)
(* processes, models and messages.                                         *)
(***************************************************************************)
EXTENDS Workspace, Functions, SequenceTheorems, TLAPS

-----------------------------------------------------------------------------
(* A queue as the set of what waits in it.                                 *)

\* The empty queue holds nothing, and only the empty queue does.
LEMMA RangeEmpty ==
    ASSUME NEW S, NEW q \in Seq(S)
    PROVE  /\ Range(q) \subseteq S
           /\ Range(q) = {} <=> q = <<>>
  BY DEF Range

\* The empty queue holds nothing.
LEMMA EmptyQueue == Range(<<>>) = {} /\ IsInjective(<<>>)
  BY DEF Range, IsInjective

\* Appending adds one element.
LEMMA RangeAppend ==
    ASSUME NEW S, NEW q \in Seq(S), NEW e \in S
    PROVE  Range(Append(q, e)) = Range(q) \cup {e}
<1> DEFINE r == Append(q, e)
<1>1. /\ DOMAIN r = 1 .. Len(q) + 1
      /\ \A i \in 1 .. Len(q) : r[i] = q[i]
      /\ r[Len(q) + 1] = e
      /\ DOMAIN q = 1 .. Len(q)
  BY AppendProperties
<1>2. Range(r) \subseteq Range(q) \cup {e}
  BY <1>1, LenProperties DEF Range
<1>3. Range(q) \subseteq Range(r)
  <2> SUFFICES ASSUME NEW i \in 1 .. Len(q) PROVE q[i] \in Range(r)
    BY <1>1 DEF Range
  <2> QED BY <1>1, LenProperties, i \in DOMAIN r DEF Range
<1>4. e \in Range(r)
  BY <1>1, LenProperties DEF Range
<1> QED BY <1>2, <1>3, <1>4

\* A new element keeps the queue free of repetition.
LEMMA InjectiveAppend ==
    ASSUME NEW S, NEW q \in Seq(S), NEW e \in S, IsInjective(q), e \notin Range(q)
    PROVE  IsInjective(Append(q, e))
  BY AppendProperties, LenProperties DEF IsInjective, Range

\* The head leaves, and with it every occurrence of it.
LEMMA RangeTail ==
    ASSUME NEW S, NEW q \in Seq(S), q # <<>>, IsInjective(q)
    PROVE  /\ Head(q) \in S
           /\ Head(q) \in Range(q)
           /\ Tail(q) \in Seq(S)
           /\ Range(Tail(q)) = Range(q) \ {Head(q)}
           /\ IsInjective(Tail(q))
<1> DEFINE t == Tail(q)
<1>1. /\ Head(q) = q[1]
      /\ Len(q) \in Nat \ {0}
      /\ DOMAIN q = 1 .. Len(q)
      /\ t \in Seq(S)
      /\ DOMAIN t = 1 .. Len(q) - 1
      /\ \A i \in 1 .. Len(q) - 1 : t[i] = q[i + 1]
  BY HeadTailProperties, LenProperties
<1>2. IsInjective(t)
  BY <1>1 DEF IsInjective
<1>3. \A i \in 1 .. Len(q) - 1 : t[i] \in Range(q) /\ t[i] # Head(q)
  BY <1>1 DEF IsInjective, Range
<1>4. \A i \in 1 .. Len(q) : q[i] # Head(q) => q[i] \in Range(t)
  <2> SUFFICES ASSUME NEW i \in 1 .. Len(q), q[i] # Head(q) PROVE q[i] \in Range(t)
    OBVIOUS
  <2>1. i - 1 \in 1 .. Len(q) - 1 /\ t[i - 1] = q[i]
    BY <1>1
  <2> QED BY <2>1, <1>1 DEF Range
<1>5. Range(t) = Range(q) \ {Head(q)}
  BY <1>1, <1>3, <1>4 DEF Range
<1>6. Head(q) \in Range(q) /\ Head(q) \in S
  BY <1>1 DEF Range
<1> QED BY <1>1, <1>2, <1>5, <1>6

-----------------------------------------------------------------------------
(* The listing.                                                            *)

\* A queued call waits in the channel once, and the slot is the last outcome.
Queued == IsInjective(chan) /\ \A c \in Range(chan) : pc[c] = "sent"
SlotIsLast == generation > 0 => slot = history[generation]

ListInv == TypeOK /\ Queued /\ SlotIsLast /\ ListingIsNew

LEMMA ListInit == Init => ListInv
<1> SUFFICES ASSUME Init PROVE ListInv
  OBVIOUS
<1>1. TypeOK
  <2>1. chan \in Seq(Caller) /\ history \in Seq(Outcomes) /\ Len(history) = generation
    BY EmptySeq DEF Init
  <2>2. generation \in Nat /\ seen \in [Caller -> 0..generation]
    BY DEF Init
  <2>3. /\ result \in [Caller -> Results] /\ slot \in Outcomes
        /\ \A c \in Caller : (pc[c] = "returned") <=> (result[c] # "none")
    BY DEF Init, Results, Outcomes, Scopes
  <2> QED BY <2>1, <2>2, <2>3 DEF Init, TypeOK
<1>2. Queued /\ SlotIsLast
  <2>1. chan = <<>> /\ generation = 0
    BY DEF Init
  <2> QED BY <2>1, EmptyQueue DEF Queued, SlotIsLast
<1>3. ListingIsNew
  BY ListAssumption DEF Init, ListingIsNew, Outcomes, Scopes
<1> QED BY <1>1, <1>2, <1>3 DEF ListInv

\* Only the return of a call changes what it returned, and only reading the
\* generation what it has seen; the outcomes of the past stay.
LEMMA ListingStays ==
    ASSUME ListInv, seen' = seen, history' = history,
           \A c \in Caller : result'[c] \in Outcomes => result'[c] = result[c]
    PROVE  ListingIsNew'
  BY DEF ListInv, ListingIsNew

\* Ending a call that is not in the channel disturbs nothing but what it returned.
LEMMA Returned ==
    ASSUME ListInv, NEW c \in Caller, pc[c] \notin {"sent", "returned"},
           NEW r \in Results \ {"none"}, Return(c, r),
           UNCHANGED <<seen, chan, executing, generation, slot, disconnected, history>>
    PROVE  TypeOK' /\ Queued' /\ SlotIsLast'
<1>1. /\ pc \in [Caller -> {"idle", "submit", "sent", "waiting", "returned"}]
      /\ result \in [Caller -> Results] /\ chan \in Seq(Caller)
      /\ pc' = [pc EXCEPT ![c] = "returned"] /\ result' = [result EXCEPT ![c] = r]
  BY DEF ListInv, TypeOK, Return
<1>2. \A d \in Caller : (pc'[d] = "returned") <=> (result'[d] # "none")
  BY <1>1 DEF ListInv, TypeOK
<1>3. TypeOK'
  BY <1>1, <1>2 DEF ListInv, TypeOK
<1>4. Range(chan) \subseteq Caller
  BY <1>1, RangeEmpty
<1> QED BY <1>1, <1>3, <1>4 DEF ListInv, Queued, SlotIsLast

LEMMA ListStep == ListInv /\ [Next]_vars => ListInv'
<1> SUFFICES ASSUME ListInv, [Next]_vars PROVE ListInv'
  OBVIOUS
<1> USE DEF ListInv
<1>0. Scopes \subseteq Outcomes /\ "error" \in Outcomes /\ "none" \in Results
      /\ "busy" \in Results \ Outcomes /\ "disconnected" \in Results \ Outcomes
      /\ Outcomes \subseteq Results /\ "none" \notin Outcomes
  BY DEF Results, Outcomes, Scopes
<1>c. /\ pc \in [Caller -> {"idle", "submit", "sent", "waiting", "returned"}]
      /\ chan \in Seq(Caller) /\ Range(chan) \subseteq Caller /\ generation \in Nat
  BY RangeEmpty DEF TypeOK
<1>1. ASSUME NEW c \in Caller, ReadGeneration(c) PROVE ListInv'
  <2>1. result[c] = "none" /\ c \notin Range(chan) /\ pc[c] = "idle"
    BY <1>1 DEF ReadGeneration, TypeOK, Queued
  <2>2. CASE disconnected /\ Return(c, "disconnected") /\ UNCHANGED seen
    <3>1. TypeOK' /\ Queued' /\ SlotIsLast'
      BY <1>0, <1>1, <2>1, <2>2, Returned DEF ReadGeneration
    <3>2. ListingIsNew'
      BY <1>0, <1>1, <2>2, ListingStays DEF ReadGeneration, Return, TypeOK
    <3> QED BY <3>1, <3>2
  <2>3. CASE /\ seen' = [seen EXCEPT ![c] = generation]
             /\ pc' = [pc EXCEPT ![c] = "submit"] /\ UNCHANGED result
    <3>1. UNCHANGED <<result, chan, executing, generation, slot, disconnected, history>>
      BY <1>1, <2>3 DEF ReadGeneration
    <3>2. pc' \in [Caller -> {"idle", "submit", "sent", "waiting", "returned"}]
          /\ seen' \in [Caller -> 0..generation]
      BY <1>c, <2>3 DEF TypeOK
    <3>3. TypeOK'
      BY <1>c, <2>1, <2>3, <3>1, <3>2 DEF TypeOK
    <3>4. Queued' /\ SlotIsLast'
      BY <1>c, <2>1, <2>3, <3>1 DEF Queued, SlotIsLast
    <3>5. ListingIsNew'
      BY <1>0, <2>1, <2>3, <3>1 DEF TypeOK, ListingIsNew
    <3> QED BY <3>3, <3>4, <3>5
  <2> QED BY <1>1, <2>2, <2>3 DEF ReadGeneration
<1>2. ASSUME NEW c \in Caller, Submit(c) PROVE ListInv'
  <2>1. c \notin Range(chan) /\ result[c] = "none" /\ pc[c] = "submit"
    BY <1>2 DEF Submit, TypeOK, Queued
  <2>2. CASE disconnected /\ Return(c, "disconnected") /\ UNCHANGED chan
    <3>1. TypeOK' /\ Queued' /\ SlotIsLast'
      BY <1>0, <1>2, <2>1, <2>2, Returned DEF Submit
    <3>2. ListingIsNew'
      BY <1>0, <1>2, <2>2, ListingStays DEF Submit, Return, TypeOK
    <3> QED BY <3>1, <3>2
  <2>3. CASE /\ chan' = Append(chan, c)
             /\ pc' = [pc EXCEPT ![c] = "sent"] /\ UNCHANGED result
    <3>1. UNCHANGED <<result, seen, executing, generation, slot, disconnected, history>>
      BY <1>2, <2>3 DEF Submit
    <3>2. /\ chan' \in Seq(Caller) /\ Range(chan') = Range(chan) \cup {c}
          /\ IsInjective(chan')
      BY <1>c, <2>1, <2>3, AppendProperties, RangeAppend, InjectiveAppend DEF Queued
    <3>3. TypeOK'
      BY <1>c, <2>1, <2>3, <3>1, <3>2 DEF TypeOK
    <3>4. Queued'
      BY <1>c, <2>3, <3>2 DEF Queued
    <3>5. SlotIsLast' /\ ListingIsNew'
      BY <3>1, ListingStays DEF SlotIsLast
    <3> QED BY <3>3, <3>4, <3>5
  <2> QED BY <1>2, <2>2, <2>3 DEF Submit
<1>3. ASSUME NEW c \in Caller, TakeSlot(c) PROVE ListInv'
  <2>1. PICK r \in Results \ {"none"} :
          /\ Return(c, r)
          /\ r = "disconnected" \/ (r = slot /\ generation > seen[c])
    BY <1>0, <1>3 DEF TakeSlot, TypeOK
  <2>2. TypeOK' /\ Queued' /\ SlotIsLast'
    BY <1>3, <2>1, Returned DEF TakeSlot
  <2>3. CASE r = "disconnected"
    BY <1>0, <1>3, <2>1, <2>2, <2>3, ListingStays DEF TakeSlot, Return, TypeOK
  <2>4. CASE r = slot /\ generation > seen[c]
    <3>1. seen[c] \in Nat /\ generation \in DOMAIN history /\ history[generation] = slot
      BY <2>4, LenProperties DEF TypeOK, SlotIsLast
    <3>2. ListingIsNew'
      BY <1>3, <2>1, <2>4, <3>1 DEF TakeSlot, Return, TypeOK, ListingIsNew
    <3> QED BY <2>2, <3>2
  <2> QED BY <2>1, <2>3, <2>4
<1>4. ASSUME Admit PROVE ListInv'
  <2> DEFINE c == Head(chan)
  <2>1. chan \in Seq(Caller) /\ IsInjective(chan) /\ chan # <<>>
    BY <1>4 DEF Admit, TypeOK, Queued
  <2>2. /\ c \in Caller /\ pc[c] = "sent" /\ result[c] = "none"
        /\ Tail(chan) \in Seq(Caller) /\ IsInjective(Tail(chan))
        /\ Range(Tail(chan)) = Range(chan) \ {c}
    BY <2>1, RangeTail DEF TypeOK, Queued
  <2>3. chan' = Tail(chan)
    BY <1>4 DEF Admit
  <2> HIDE DEF c
  <2>4. \/ /\ executing' = c /\ pc' = [pc EXCEPT ![c] = "waiting"] /\ result' = result
        \/ /\ executing' = executing /\ pc' = [pc EXCEPT ![c] = "returned"]
           /\ result' = [result EXCEPT ![c] = "busy"]
    BY <1>4 DEF Admit, Return, c
  <2>5. UNCHANGED <<seen, generation, slot, disconnected, history>>
    BY <1>4 DEF Admit
  <2>6. TypeOK'
    BY <1>0, <2>2, <2>3, <2>4, <2>5 DEF TypeOK
  <2>7. Queued'
    BY <2>2, <2>3, <2>4, RangeEmpty DEF Queued, TypeOK
  <2>8. SlotIsLast' /\ ListingIsNew'
    BY <1>0, <2>2, <2>4, <2>5, ListingStays DEF SlotIsLast, TypeOK
  <2> QED BY <2>6, <2>7, <2>8
<1>5. ASSUME Publish PROVE ListInv'
  <2>1. PICK outcome \in {Scope[executing], "error"} :
          slot' = outcome /\ history' = Append(history, outcome)
    BY <1>5 DEF Publish
  <2>2. outcome \in Outcomes
    BY <1>0, <1>5, ListAssumption DEF Publish, TypeOK
  <2>3. /\ history' \in Seq(Outcomes) /\ Len(history') = generation + 1
        /\ DOMAIN history' = 1..generation + 1 /\ DOMAIN history = 1..generation
        /\ \A i \in 1..generation : history'[i] = history[i]
        /\ history'[generation + 1] = outcome
    BY <2>1, <2>2, AppendProperties, LenProperties DEF TypeOK
  <2>4. TypeOK'
    BY <1>5, <2>1, <2>2, <2>3 DEF Publish, TypeOK
  <2>5. Queued' /\ SlotIsLast'
    BY <1>5, <2>1, <2>3 DEF Publish, Queued, SlotIsLast
  <2>6. ListingIsNew'
    <3>1. result' = result /\ seen' = seen /\ DOMAIN history \subseteq DOMAIN history'
          /\ \A i \in DOMAIN history : history'[i] = history[i]
      BY <1>5, <1>c, <2>3 DEF Publish
    <3> QED BY <3>1 DEF ListingIsNew
  <2> QED BY <2>4, <2>5, <2>6
<1>6. ASSUME Disconnect PROVE ListInv'
  <2>1. TypeOK'
    BY <1>0, <1>6, EmptySeq DEF Disconnect, TypeOK
  <2>2. Queued' /\ SlotIsLast'
    BY <1>6, EmptyQueue DEF Disconnect, Queued, SlotIsLast
  <2>3. ListingIsNew'
    BY <1>0, <1>6, ListingStays DEF Disconnect
  <2> QED BY <2>1, <2>2, <2>3
<1>7. CASE UNCHANGED vars
  BY <1>7 DEF vars, TypeOK, Queued, SlotIsLast, ListingIsNew
<1> QED BY <1>1, <1>2, <1>3, <1>4, <1>5, <1>6, <1>7 DEF Next, Worker

\* However many callers ask for listings of whatever scope, whatever fails and
\* whenever the worker goes: the listing a call returns was published after the
\* call had begun (list_sessions_with_scope, wait_for_session_list).
THEOREM ListingAlways == Spec => []ListingIsNew
<1>1. ListInv => ListingIsNew
  BY DEF ListInv
<1> QED BY <1>1, ListInit, ListStep, PTL DEF Spec

-----------------------------------------------------------------------------
(* The selection.                                                          *)

Forward == {"temp", "replace", "rename"}
Back == {"backTemp", "backReplace", "backRename"}

Choice == [model : Selectable, effort : Effort]
Prefs == [Selectable -> AnyEffort]

SelectionTyped ==
    /\ prefFile \in Prefs \cup {NoFile}
    /\ lastSaved \in Process \cup {Nobody}
    /\ temp \in [Process -> Prefs \cup {NoFile}]
    /\ own \in [Process -> Prefs]
    /\ catalogue \in [Process -> Registry]
    /\ active \in [Process -> Choice]
    /\ change \in [Process -> Choice \cup {Selection!NoChange}]
    /\ step \in [Process -> {"idle", "log"} \cup Forward \cup Back]
    /\ target \in [Process -> Choice \cup {Selection!NoChange}]
    /\ previous \in [Process -> AnyEffort]
    /\ unsettled \in [Process -> BOOLEAN]

\* A selection the catalogue of a process has.
Offered(p, s) == s \in Choice /\ s.effort \in catalogue[p].efforts[s.model]

\* A start with these preferences would come to the effort in use.
InUse(p, prefs) ==
    unsettled[p] \/ active[p].effort = Selection!Effective(catalogue[p], active[p].model, prefs)

Restore(c, m, e) == Selection!Kept(c, m, IF e = "unset" THEN c.default[m] ELSE e)
Undone(p) == [own[p] EXCEPT ![target[p].model] =
                 Restore(catalogue[p], target[p].model, previous[p])]

\* At every step of a switch: what it has logged is in use; what is in use is
\* remembered, or would be after the way back, which is known.
Remembered(p) ==
    /\ Offered(p, active[p])
    /\ change[p] \in {Selection!NoChange, active[p]}
    /\ step[p] # "idle" => Offered(p, target[p])
    /\ step[p] \in {"idle"} \cup Forward => InUse(p, own[p])
    /\ step[p] \in Forward => previous[p] = own[p][target[p].model]
    /\ step[p] \in {"log"} \cup Back =>
          /\ own[p][target[p].model] =
                Selection!Kept(catalogue[p], target[p].model, target[p].effort)
          /\ InUse(p, Undone(p))

\* The file between two writes of one process, and in the middle of one.
Filed(p) ==
    /\ step[p] \in {"replace", "rename", "backReplace", "backRename"} =>
          temp[p] = Selection!Wanted(p)
    /\ lastSaved = p => /\ step[p] \notin {"rename", "backRename"}
                        /\ Selection!Loaded = own[p]

SelectionInv == SelectionTyped /\ \A p \in Process : Remembered(p) /\ Filed(p)

LEMMA CatalogueFacts ==
    ASSUME NEW c \in Registry, NEW m \in Selectable
    PROVE  /\ c.initial \in Selectable /\ c.efforts[c.initial] # {}
           /\ c.default[m] \in Effort /\ c.efforts[m] \subseteq Effort
           /\ c.efforts[m] # {} => c.default[m] \in c.efforts[m]
  BY WorkspaceAssumption DEF IsCatalogue

\* A catalogue that has a model gives it an effort it has.
LEMMA EffectiveOffered ==
    ASSUME NEW c \in Registry, NEW m \in Selectable, c.efforts[m] # {}, NEW prefs
    PROVE  Selection!Effective(c, m, prefs) \in c.efforts[m]
  BY CatalogueFacts DEF Selection!Effective

LEMMA KeptTyped ==
    ASSUME NEW c \in Registry, NEW m \in Selectable, NEW e \in AnyEffort
    PROVE  Selection!Kept(c, m, e) \in AnyEffort /\ Restore(c, m, e) \in AnyEffort
  BY CatalogueFacts DEF Selection!Kept, Restore, AnyEffort

\* What has been saved for a selection is what a start would come to.
LEMMA KeptIsEffective ==
    ASSUME NEW c \in Registry, NEW m \in Selectable, NEW e \in c.efforts[m], NEW prefs,
           prefs[m] = Selection!Kept(c, m, e)
    PROVE  Selection!Effective(c, m, prefs) = e
  BY CatalogueFacts, WorkspaceAssumption DEF Selection!Kept, Selection!Effective

\* Writing back what was saved before changes no effort a start would come to,
\* though it may drop one that is the default by now.
LEMMA RestoreIsNeutral ==
    ASSUME NEW c \in Registry, NEW m \in Selectable, c.efforts[m] # {},
           NEW prefs \in Prefs, NEW back \in Prefs, NEW k \in Selectable,
           back = [prefs EXCEPT ![m] = Restore(c, m, prefs[m])]
    PROVE  Selection!Effective(c, k, back) = Selection!Effective(c, k, prefs)
<1>1. CASE k # m
  BY <1>1 DEF Prefs, Selection!Effective
<1>2. CASE k = m
  <2>1. back[m] = Restore(c, m, prefs[m])
    BY DEF Prefs
  <2>2. c.default[m] \in c.efforts[m] /\ "unset" \notin c.efforts[m]
    BY CatalogueFacts, WorkspaceAssumption
  <2> QED BY <1>2, <2>1, <2>2 DEF Restore, Selection!Kept, Selection!Effective
<1> QED BY <1>1, <1>2

\* initial_selection is one the catalogue has.
LEMMA PreferredOffered ==
    ASSUME NEW c \in Registry, NEW prefs
    PROVE  LET s == Selection!Preferred(c, prefs)
           IN  /\ s \in Choice /\ s.effort \in c.efforts[s.model]
               /\ s.effort = Selection!Effective(c, s.model, prefs)
<1>1. /\ c.initial \in Selectable /\ c.efforts[c.initial] # {}
      /\ c.efforts[c.initial] \subseteq Effort
  BY WorkspaceAssumption DEF IsCatalogue
<1>2. Selection!Effective(c, c.initial, prefs) \in c.efforts[c.initial]
  BY <1>1, EffectiveOffered
<1> QED BY <1>1, <1>2 DEF Choice, Selection!Preferred

LEMMA SelectionInit == Selection!Init => SelectionInv
<1> SUFFICES ASSUME Selection!Init PROVE SelectionInv
  OBVIOUS
<1> USE DEF Selection!Init
<1>1. Selection!Unset \in Prefs
  BY DEF Selection!Unset, Prefs, AnyEffort
<1>2. \A p \in Process : /\ Offered(p, active[p])
                         /\ active[p].effort =
                               Selection!Effective(catalogue[p], active[p].model, own[p])
  BY PreferredOffered DEF Offered
<1>3. SelectionTyped
  <2>1. active \in [Process -> Choice]
    BY <1>2 DEF Offered
  <2> QED BY <1>1, <2>1 DEF SelectionTyped, AnyEffort
<1>4. \A p \in Process : Remembered(p)
  BY <1>2 DEF Remembered, InUse, Forward, Back
<1>5. \A p \in Process : Filed(p)
  BY WorkspaceAssumption DEF Filed
<1> QED BY <1>3, <1>4, <1>5 DEF SelectionInv

LEMMA Typed ==
    ASSUME SelectionTyped, NEW p \in Process
    PROVE  /\ own[p] \in Prefs /\ previous[p] \in AnyEffort
           /\ catalogue[p] \in Registry
           /\ active[p] \in Choice /\ active[p].model \in Selectable
           /\ Selection!Loaded \in Prefs
  BY DEF SelectionTyped, Selection!Loaded, Selection!Unset, Prefs, Choice, AnyEffort

LEMMA WantedTyped ==
    ASSUME SelectionTyped, NEW p \in Process, step[p] # "idle", Remembered(p)
    PROVE  /\ target[p] \in Choice /\ target[p].model \in Selectable
           /\ target[p].effort \in catalogue[p].efforts[target[p].model]
           /\ Selection!Wanted(p) \in Prefs
<1>1. /\ target[p] \in Choice /\ target[p].model \in Selectable /\ target[p].effort \in Effort
      /\ target[p].effort \in catalogue[p].efforts[target[p].model]
  BY DEF Remembered, Offered, Choice
<1>2. target[p].effort \in AnyEffort
  BY <1>1 DEF AnyEffort
<1>3. /\ Selection!Kept(catalogue[p], target[p].model, target[p].effort) \in AnyEffort
      /\ Restore(catalogue[p], target[p].model, previous[p]) \in AnyEffort
  BY <1>1, <1>2, Typed, KeptTyped
<1> QED BY <1>1, <1>3, Typed DEF Selection!Wanted, Selection!Restored, Restore, Prefs

\* What a step of one process leaves alone of another.
Others(p) ==
    \A q \in Process \ {p} :
        /\ temp'[q] = temp[q] /\ own'[q] = own[q] /\ active'[q] = active[q]
        /\ catalogue'[q] = catalogue[q] /\ change'[q] = change[q] /\ step'[q] = step[q]
        /\ target'[q] = target[q] /\ previous'[q] = previous[q] /\ unsettled'[q] = unsettled[q]

\* The others' part of the invariant holds as long as the file is not taken for
\* theirs.
LEMMA OthersStand ==
    ASSUME SelectionInv, NEW p \in Process, Others(p),
           \/ prefFile' = prefFile /\ lastSaved' \in {lastSaved, Nobody}
           \/ lastSaved' \in {p, Nobody},
           NEW q \in Process \ {p}
    PROVE  Remembered(q)' /\ Filed(q)'
<1>1. Remembered(q) /\ Filed(q)
  BY DEF SelectionInv
<1>2. Remembered(q)'
  BY <1>1 DEF Others, Remembered, Offered, InUse, Undone
<1>3. Selection!Wanted(q)' = Selection!Wanted(q)
  BY DEF Others, Selection!Wanted, Selection!Restored
<1>4. lastSaved' = q => lastSaved = q /\ Selection!Loaded' = Selection!Loaded
  BY WorkspaceAssumption DEF Selection!Loaded
<1>5. Filed(q)'
  BY <1>1, <1>3, <1>4 DEF Others, Filed
<1> QED BY <1>2, <1>5

\* The locals of a switch end with it.
LEMMA LocalsEffect ==
    ASSUME SelectionTyped, NEW p \in Process, Selection!Locals(p)
    PROVE  /\ target' \in [Process -> Choice \cup {Selection!NoChange}]
           /\ previous' \in [Process -> AnyEffort]
           /\ step'[p] # "idle" => target'[p] = target[p] /\ previous'[p] = previous[p]
           /\ \A q \in Process \ {p} : target'[q] = target[q] /\ previous'[q] = previous[q]
<1>1. "unset" \in AnyEffort
  BY DEF AnyEffort
<1> QED BY <1>1 DEF SelectionTyped, Selection!Locals

\* The copy follows what was written: where a switch stands after that.
LEMMA SavedEffect ==
    ASSUME SelectionInv, NEW p \in Process, Selection!Saved(p), Selection!Locals(p),
           step[p] \in Forward \cup Back,
           UNCHANGED <<catalogue, active, change, unsettled>>
    PROVE  /\ own' \in [Process -> Prefs] /\ lastSaved' = p
           /\ step' \in [Process -> {"idle", "log"} \cup Forward \cup Back]
           /\ step'[p] \in {"idle", "log"} /\ own'[p] = Selection!Wanted(p)
           /\ \A q \in Process \ {p} : own'[q] = own[q] /\ step'[q] = step[q]
           /\ Remembered(p)'
<1>1. SelectionTyped /\ Remembered(p) /\ step[p] # "idle"
  BY DEF SelectionInv, Forward, Back
<1>2. /\ own' = [own EXCEPT ![p] = Selection!Wanted(p)] /\ lastSaved' = p
      /\ step' = [step EXCEPT ![p] = IF step[p] \in Back THEN "idle" ELSE "log"]
  BY DEF Selection!Saved, Selection!To, Selection!Back, Back
<1>3. /\ own' \in [Process -> Prefs] /\ own'[p] = Selection!Wanted(p)
      /\ step' \in [Process -> {"idle", "log"} \cup Forward \cup Back]
      /\ step'[p] = IF step[p] \in Back THEN "idle" ELSE "log"
      /\ \A q \in Process \ {p} : own'[q] = own[q] /\ step'[q] = step[q]
  BY <1>1, <1>2, WantedTyped DEF SelectionTyped
<1>4. /\ own[p] \in Prefs /\ own'[p] \in Prefs /\ catalogue[p] \in Registry
      /\ active[p].model \in Selectable
      /\ target[p].model \in Selectable /\ catalogue[p].efforts[target[p].model] # {}
  BY <1>1, <1>3, Typed, WantedTyped
<1>5. Remembered(p)'
  <2>1. CASE step[p] \in Forward
    <3>1. /\ step'[p] = "log" /\ target'[p] = target[p] /\ previous'[p] = previous[p]
          /\ own'[p] = [own[p] EXCEPT ![target[p].model] =
                           Selection!Kept(catalogue[p], target[p].model, target[p].effort)]
      BY <1>1, <1>3, <2>1, LocalsEffect DEF Forward, Back, Selection!Wanted
    <3>2. InUse(p, own[p]) /\ previous[p] = own[p][target[p].model]
      BY <1>1, <2>1 DEF Remembered
    <3>3. Undone(p)' = Undone(p) /\ Undone(p) \in Prefs
      BY <1>4, <3>1, KeptTyped, Typed, <1>1 DEF Undone, Prefs
    <3>4. Selection!Effective(catalogue[p], active[p].model, Undone(p)) =
             Selection!Effective(catalogue[p], active[p].model, own[p])
      <4>1. Undone(p) = [own[p] EXCEPT ![target[p].model] =
                            Restore(catalogue[p], target[p].model, own[p][target[p].model])]
        BY <3>2 DEF Undone
      <4> QED BY <1>4, <3>3, <4>1, RestoreIsNeutral
    <3>5. own'[p][target[p].model] =
             Selection!Kept(catalogue[p], target[p].model, target[p].effort)
      BY <1>4, <3>1 DEF Prefs
    <3>6. InUse(p, Undone(p))'
      BY <3>2, <3>3, <3>4 DEF InUse
    <3> QED BY <1>1, <3>1, <3>5, <3>6, <2>1 DEF Remembered, Offered, Forward, Back
  <2>2. CASE step[p] \in Back
    <3>1. step'[p] = "idle" /\ own'[p] = Undone(p)
      BY <1>3, <2>2 DEF Forward, Back, Selection!Wanted, Selection!Restored, Restore, Undone
    <3> QED BY <1>1, <2>2, <3>1 DEF Remembered, Offered, InUse, Forward, Back
  <2> QED BY <2>1, <2>2
<1> QED BY <1>2, <1>3, <1>5

LEMMA SelectionStep == SelectionInv /\ [Selection!Next]_(Selection!selVars) => SelectionInv'
<1> SUFFICES ASSUME SelectionInv, [Selection!Next]_(Selection!selVars) PROVE SelectionInv'
  OBVIOUS
<1>0. SelectionTyped
  BY DEF SelectionInv
<1> USE DEF Selection!To, Selection!files, Selection!inUse
<1>a. ASSUME NEW p \in Process, SelectionTyped', Remembered(p)', Filed(p)', Others(p),
             \/ prefFile' = prefFile /\ lastSaved' \in {lastSaved, Nobody}
             \/ lastSaved' \in {p, Nobody}
      PROVE  SelectionInv'
  <2>1. \A q \in Process \ {p} : Remembered(q)' /\ Filed(q)'
    BY <1>a, OthersStand
  <2> QED BY <1>a, <2>1 DEF SelectionInv
<1>b. ASSUME NEW p \in Process, NEW c \in Registry, NEW prefs, Selection!TakeUp(p, c, prefs)
      PROVE  /\ catalogue' \in [Process -> Registry] /\ active' \in [Process -> Choice]
             /\ change' \in [Process -> Choice \cup {Selection!NoChange}]
             /\ unsettled' \in [Process -> BOOLEAN]
             /\ Offered(p, active[p])' /\ change'[p] = Selection!NoChange
             /\ active'[p].effort = Selection!Effective(catalogue'[p], active'[p].model, prefs)
  <2>1. /\ Selection!Preferred(c, prefs) \in Choice
        /\ catalogue'[p] = c /\ active'[p] = Selection!Preferred(c, prefs)
        /\ active' \in [Process -> Choice]
    BY <1>0, <1>b, PreferredOffered DEF Selection!TakeUp, SelectionTyped
  <2> QED BY <1>0, <1>b, <2>1, PreferredOffered DEF Selection!TakeUp, SelectionTyped, Offered
<1>1. ASSUME NEW p \in Process, NEW s \in Selection!Selection, Selection!Switch(p, s)
      PROVE  SelectionInv'
  <2>1. Offered(p, s) /\ s \in Choice
    BY <1>1 DEF Selection!Switch, Selection!Selection, Choice, Offered
  <2>2. SelectionTyped'
    <3>1. own[p][s.model] \in AnyEffort
      BY <1>0, <2>1 DEF SelectionTyped, Choice, Prefs
    <3> QED BY <1>0, <1>1, <2>1, <3>1 DEF Selection!Switch, SelectionTyped, Forward
  <2>3. Others(p) /\ prefFile' = prefFile /\ lastSaved' = lastSaved
    BY <1>0, <1>1 DEF Selection!Switch, SelectionTyped, Others
  <2>4. /\ step[p] = "idle" /\ step'[p] = "temp"
        /\ target'[p] = s /\ previous'[p] = own[p][s.model]
        /\ UNCHANGED <<prefFile, lastSaved, temp, own, catalogue, active, change, unsettled>>
    BY <1>0, <1>1 DEF Selection!Switch, SelectionTyped
  <2>5. Remembered(p)'
    BY <2>1, <2>4 DEF SelectionInv, Remembered, Offered, InUse, Forward, Back
  <2>6. Filed(p)'
    BY <2>4 DEF SelectionInv, Filed, Selection!Loaded
  <2> QED BY <1>a, <2>2, <2>3, <2>5, <2>6
<1>2. ASSUME NEW p \in Process, Selection!WriteTemp(p) PROVE SelectionInv'
  <2>1. /\ step[p] \in Forward \cup Back /\ step[p] \in {"temp", "backTemp"}
        /\ Selection!Locals(p) /\ UNCHANGED <<catalogue, active, change, unsettled>>
        /\ Selection!Wanted(p) \in Prefs
    BY <1>0, <1>2, WantedTyped DEF SelectionInv, Selection!WriteTemp, Forward, Back
  <2>2. CASE Selection!Wanted(p) = Selection!Unset
    <3>1. prefFile' = NoFile /\ Selection!Saved(p) /\ temp' = temp
      BY <1>2, <2>2 DEF Selection!WriteTemp
    <3>2. SelectionTyped' /\ Others(p) /\ lastSaved' = p /\ Remembered(p)'
      BY <1>0, <2>1, <3>1, SavedEffect, LocalsEffect DEF SelectionTyped, Others
    <3>3. Filed(p)'
      BY <2>1, <2>2, <3>1, SavedEffect DEF Filed, Selection!Loaded, Selection!Unset
    <3> QED BY <1>a, <3>2, <3>3
  <2>3. CASE Selection!Wanted(p) # Selection!Unset
    <3>1. /\ temp' = [temp EXCEPT ![p] = Selection!Wanted(p)]
          /\ step' = [step EXCEPT ![p] = IF step[p] = "temp" THEN "replace" ELSE "backReplace"]
          /\ UNCHANGED <<prefFile, own, lastSaved>>
      BY <1>2, <2>3 DEF Selection!WriteTemp
    <3>2. /\ step'[p] = (IF step[p] = "temp" THEN "replace" ELSE "backReplace")
          /\ target'[p] = target[p] /\ previous'[p] = previous[p]
          /\ temp'[p] = Selection!Wanted(p)
      BY <1>0, <2>1, <3>1, LocalsEffect DEF SelectionTyped
    <3>3. SelectionTyped' /\ Others(p)
      BY <1>0, <2>1, <3>1, LocalsEffect DEF SelectionTyped, Others, Forward, Back
    <3>4. Remembered(p)'
      BY <2>1, <3>1, <3>2 DEF SelectionInv, Remembered, Offered, InUse, Undone, Forward, Back
    <3>5. Selection!Wanted(p)' = Selection!Wanted(p)
      BY <2>1, <3>1, <3>2 DEF Selection!Wanted, Selection!Restored, Forward, Back
    <3>6. Filed(p)'
      BY <3>1, <3>2, <3>5 DEF SelectionInv, Filed, Selection!Loaded
    <3> QED BY <1>a, <3>1, <3>3, <3>4, <3>6
  <2> QED BY <2>2, <2>3
<1>3. ASSUME NEW p \in Process, Selection!RemoveOld(p) PROVE SelectionInv'
  <2>1. /\ step[p] \in {"replace", "backReplace"} /\ prefFile' = NoFile /\ lastSaved' = Nobody
        /\ step' = [step EXCEPT ![p] = IF step[p] = "replace" THEN "rename" ELSE "backRename"]
        /\ Selection!Locals(p) /\ UNCHANGED <<temp, own, catalogue, active, change, unsettled>>
    BY <1>3 DEF Selection!RemoveOld
  <2>2. /\ step'[p] = (IF step[p] = "replace" THEN "rename" ELSE "backRename")
        /\ target'[p] = target[p] /\ previous'[p] = previous[p]
    BY <1>0, <2>1, LocalsEffect DEF SelectionTyped
  <2>3. SelectionTyped' /\ Others(p)
    BY <1>0, <2>1, LocalsEffect DEF SelectionTyped, Others, Forward, Back
  <2>4. Remembered(p)'
    BY <2>1, <2>2 DEF SelectionInv, Remembered, Offered, InUse, Undone, Forward, Back
  <2>5. Selection!Wanted(p)' = Selection!Wanted(p)
    BY <2>1, <2>2 DEF Selection!Wanted, Selection!Restored, Forward, Back
  <2>6. Filed(p)'
    BY <2>1, <2>2, <2>5, WorkspaceAssumption DEF SelectionInv, Filed
  <2> QED BY <1>a, <2>1, <2>3, <2>4, <2>6
<1>4. ASSUME NEW p \in Process, Selection!Rename(p) PROVE SelectionInv'
  <2>1. /\ step[p] \in {"rename", "backRename"} /\ step[p] \in Forward \cup Back
        /\ prefFile' = temp[p] /\ temp' = [temp EXCEPT ![p] = NoFile]
        /\ Selection!Saved(p) /\ Selection!Locals(p) /\ UNCHANGED <<catalogue, active, change, unsettled>>
    BY <1>4 DEF Selection!Rename, Forward, Back
  <2>2. temp[p] = Selection!Wanted(p) /\ temp[p] \in Prefs /\ temp[p] # NoFile
    <3>1. temp[p] = Selection!Wanted(p) /\ Selection!Wanted(p) \in Prefs
      BY <1>0, <2>1, WantedTyped DEF SelectionInv, Filed
    <3> QED BY <3>1, WorkspaceAssumption DEF Prefs
  <2>3. SelectionTyped' /\ Others(p) /\ lastSaved' = p /\ Remembered(p)'
    BY <1>0, <2>1, <2>2, SavedEffect, LocalsEffect DEF SelectionTyped, Others
  <2>4. Filed(p)'
    BY <2>1, <2>2, SavedEffect DEF Filed, Selection!Loaded
  <2> QED BY <1>a, <2>3, <2>4
<1>5. ASSUME NEW p \in Process, Selection!WriteFails(p) PROVE SelectionInv'
  <2>1. /\ step[p] \in Forward \cup Back
        /\ unsettled' = [unsettled EXCEPT ![p] = unsettled[p] \/ step[p] \in Back]
        /\ temp' = [temp EXCEPT ![p] = NoFile] /\ step' = [step EXCEPT ![p] = "idle"]
        /\ Selection!Locals(p) /\ UNCHANGED <<prefFile, lastSaved, own, catalogue, active, change>>
    BY <1>5 DEF Selection!WriteFails, Selection!Back, Forward, Back
  <2>2. step'[p] = "idle" /\ (unsettled'[p] <=> unsettled[p] \/ step[p] \in Back)
    BY <1>0, <2>1 DEF SelectionTyped
  <2>3. SelectionTyped'
    <3>1. unsettled' \in [Process -> BOOLEAN]
      BY <1>0, <2>1 DEF SelectionTyped
    <3> QED BY <1>0, <2>1, <3>1, LocalsEffect DEF SelectionTyped
  <2>4. Others(p)
    BY <1>0, <2>1, LocalsEffect DEF SelectionTyped, Others
  <2>5. Remembered(p)'
    BY <2>1, <2>2 DEF SelectionInv, Remembered, Offered, InUse, Forward, Back
  <2>6. Filed(p)'
    BY <2>1, <2>2 DEF SelectionInv, Filed, Selection!Loaded
  <2> QED BY <1>a, <2>1, <2>3, <2>4, <2>5, <2>6
<1>6. ASSUME NEW p \in Process, Selection!Log(p) PROVE SelectionInv'
  <2>1. /\ step[p] = "log" /\ step' = [step EXCEPT ![p] = "idle"]
        /\ change' = [change EXCEPT ![p] = target[p]] /\ active' = [active EXCEPT ![p] = target[p]]
        /\ Selection!Locals(p) /\ UNCHANGED <<prefFile, lastSaved, temp, own, catalogue, unsettled>>
    BY <1>6 DEF Selection!Log
  <2>2. step'[p] = "idle" /\ change'[p] = target[p] /\ active'[p] = target[p]
    BY <1>0, <2>1 DEF SelectionTyped
  <2>3. target[p] \in Choice /\ Offered(p, target[p])
    BY <1>0, <2>1, WantedTyped DEF SelectionInv, Remembered
  <2>4. SelectionTyped' /\ Others(p)
    BY <1>0, <2>1, <2>3, LocalsEffect DEF SelectionTyped, Others
  <2>5. target[p].effort =
           Selection!Effective(catalogue[p], target[p].model, own[p])
    BY <1>0, <2>1, <2>3, Typed, WantedTyped, KeptIsEffective DEF SelectionInv, Remembered
  <2>6. Remembered(p)'
    BY <2>1, <2>2, <2>3, <2>5 DEF Remembered, Offered, InUse, Forward, Back
  <2>7. Filed(p)'
    BY <2>1, <2>2 DEF SelectionInv, Filed, Selection!Loaded
  <2> QED BY <1>a, <2>1, <2>4, <2>6, <2>7
<1>7. ASSUME NEW p \in Process, Selection!LogFails(p) PROVE SelectionInv'
  <2>1. /\ step[p] = "log" /\ step' = [step EXCEPT ![p] = "backTemp"]
        /\ Selection!Locals(p)
        /\ UNCHANGED <<prefFile, lastSaved, temp, own, catalogue, active, change, unsettled>>
    BY <1>7 DEF Selection!LogFails
  <2>2. step'[p] = "backTemp" /\ target'[p] = target[p] /\ previous'[p] = previous[p]
    BY <1>0, <2>1, LocalsEffect DEF SelectionTyped
  <2>3. SelectionTyped' /\ Others(p)
    BY <1>0, <2>1, LocalsEffect DEF SelectionTyped, Others, Back
  <2>4. Remembered(p)'
    BY <2>1, <2>2 DEF SelectionInv, Remembered, Offered, InUse, Undone, Forward, Back
  <2>5. Filed(p)'
    BY <2>1, <2>2 DEF SelectionInv, Filed, Selection!Loaded
  <2> QED BY <1>a, <2>1, <2>3, <2>4, <2>5
<1>8. ASSUME NEW p \in Process, Selection!OtherLog(p) PROVE SelectionInv'
  <2>1. /\ step[p] = "idle" /\ change' = [change EXCEPT ![p] = Selection!NoChange]
        /\ UNCHANGED <<prefFile, lastSaved, temp, own, catalogue, active, step, target,
                       previous, unsettled>>
    BY <1>8 DEF Selection!OtherLog
  <2>2. SelectionTyped' /\ Others(p) /\ change'[p] = Selection!NoChange
    BY <1>0, <2>1 DEF SelectionTyped, Others
  <2>3. Remembered(p)'
    BY <2>1, <2>2 DEF SelectionInv, Remembered, Offered, InUse, Forward, Back
  <2>4. Filed(p)'
    BY <2>1 DEF SelectionInv, Filed, Selection!Loaded
  <2> QED BY <1>a, <2>1, <2>2, <2>3, <2>4
<1>9. ASSUME NEW p \in Process, NEW c \in Registry, Selection!Reload(p, c) PROVE SelectionInv'
  <2>1. /\ step[p] = "idle" /\ Selection!TakeUp(p, c, own[p])
        /\ UNCHANGED <<prefFile, lastSaved, temp, own, step, target, previous>>
    BY <1>9 DEF Selection!Reload
  <2>2. /\ catalogue' \in [Process -> Registry] /\ active' \in [Process -> Choice]
        /\ change' \in [Process -> Choice \cup {Selection!NoChange}]
        /\ unsettled' \in [Process -> BOOLEAN]
        /\ Offered(p, active[p])' /\ change'[p] = Selection!NoChange
        /\ active'[p].effort = Selection!Effective(catalogue'[p], active'[p].model, own[p])
    BY <1>0, <2>1, <1>b
  <2>3. SelectionTyped' /\ Others(p)
    BY <1>0, <2>1, <2>2 DEF Selection!TakeUp, SelectionTyped, Others
  <2>4. Remembered(p)'
    BY <2>1, <2>2 DEF Remembered, InUse, Forward, Back
  <2>5. Filed(p)'
    BY <2>1 DEF SelectionInv, Filed, Selection!Loaded
  <2> QED BY <1>a, <2>1, <2>3, <2>4, <2>5
<1>10. ASSUME NEW p \in Process, NEW c \in Registry, Selection!Restart(p, c)
       PROVE  SelectionInv'
  <2>1. /\ own' = [own EXCEPT ![p] = Selection!Loaded]
        /\ Selection!TakeUp(p, c, Selection!Loaded)
        /\ temp' = [temp EXCEPT ![p] = NoFile]
        /\ lastSaved' = IF lastSaved = p THEN Nobody ELSE lastSaved
        /\ step' = [step EXCEPT ![p] = "idle"] /\ Selection!Locals(p) /\ prefFile' = prefFile
    BY <1>10 DEF Selection!Restart
  <2>2. /\ catalogue' \in [Process -> Registry] /\ active' \in [Process -> Choice]
        /\ change' \in [Process -> Choice \cup {Selection!NoChange}]
        /\ unsettled' \in [Process -> BOOLEAN]
        /\ Offered(p, active[p])' /\ change'[p] = Selection!NoChange
        /\ active'[p].effort =
              Selection!Effective(catalogue'[p], active'[p].model, Selection!Loaded)
    BY <1>0, <2>1, <1>b
  <2>3. own'[p] = Selection!Loaded /\ step'[p] = "idle" /\ Selection!Loaded \in Prefs
    BY <1>0, <2>1, Typed DEF SelectionTyped
  <2>4. SelectionTyped' /\ Others(p)
    BY <1>0, <2>1, <2>2, <2>3, LocalsEffect DEF Selection!TakeUp, SelectionTyped, Others
  <2>5. Remembered(p)'
    BY <2>2, <2>3 DEF Remembered, InUse, Forward, Back
  <2>6. Filed(p)'
    BY <2>1, <2>3, WorkspaceAssumption DEF Filed
  <2> QED BY <1>a, <2>1, <2>4, <2>5, <2>6
<1>11. CASE UNCHANGED Selection!selVars
  BY <1>11 DEF Selection!selVars, SelectionInv, SelectionTyped, Remembered, Offered, InUse, Undone,
     Filed, Selection!Wanted, Selection!Restored, Selection!Loaded
<1> QED BY <1>1, <1>2, <1>3, <1>4, <1>5, <1>6, <1>7, <1>8, <1>9, <1>10, <1>11 DEF Selection!Next

\* However many processes of a workspace switch models, reload configurations that
\* offer other efforts, load and clear sessions, and whichever of their writes fail
\* or are cut off by a death: between commands the selection in use is offered, is
\* what a start or a reload would come to from what is remembered, and is the
\* last switch the process has recorded in this log; and the preference file is
\* the copy of the process that wrote it last (apply_model_selection, set_effort,
\* write_file, reload, builder.rs).
THEOREM SelectionAlways == Selection!Spec => []SelectionSound
<1>1. SelectionInv => SelectionSound
  BY DEF SelectionInv, Remembered, Offered, Filed, InUse, SelectionSound, Selection!SelectionSound,
     Selection!Settled, Selection!FileIsCopy
<1> QED BY <1>1, SelectionInit, SelectionStep, PTL DEF Selection!Spec

-----------------------------------------------------------------------------
(* The migration.                                                          *)

Message == {Messages[i] : i \in DOMAIN Messages}

MigrationTyped ==
    /\ db \in [version : {0, 2, 4}, table : BOOLEAN, messages : Seq(Message),
               entries : Seq(Message), columns : BOOLEAN, readable : BOOLEAN]
    /\ opening \in [Opener -> {"version", "table", "begin", "write", "migrate", "open", "failed"}]
    /\ legacy \in [Opener -> BOOLEAN]

\* Old messages are in their table, or they are facts; the current version has
\* every column and no such table.
Whole ==
    /\ had = db.messages \o db.entries
    /\ IF db.table THEN db.version = 0 /\ db.entries = <<>> ELSE db.messages = <<>>
    /\ db.version = 4 => db.columns

\* A process that does not know of a legacy table has none to know of; who has
\* the store open sees the current version.
KnowsTable(p) ==
    /\ opening[p] = "table" /\ ~legacy[p] => db.version # 0
    /\ opening[p] \in {"begin", "write", "migrate"} /\ ~legacy[p] => ~db.table
    /\ opening[p] = "open" => db.version = 4

MigrationInv == MigrationTyped /\ Whole /\ \A p \in Opener : KnowsTable(p)

LEMMA MigrationInit == Migration!Init => MigrationInv
<1> SUFFICES ASSUME Migration!Init PROVE MigrationInv
  OBVIOUS
<1>1. Messages \in Seq(Message) /\ <<>> \in Seq(Message)
  BY WorkspaceAssumption, EmptySeq DEF Message
<1>2. /\ db.version \in {0, 2} /\ db.table \in BOOLEAN /\ db.messages \in Seq(Message)
      /\ db.entries \in Seq(Message)
      /\ db \in [version : {0, 2, 4}, table : BOOLEAN, messages : Seq(Message),
                 entries : Seq(Message), columns : BOOLEAN, readable : BOOLEAN]
      /\ IF db.table THEN db.version = 0 /\ db.entries = <<>> ELSE db.messages = <<>>
  <2>1. PICK v \in {0, 2}, t \in BOOLEAN, m \in Seq(Message), e \in Seq(Message), r \in BOOLEAN :
          /\ db = [version |-> v, table |-> t, messages |-> m, entries |-> e,
                   columns |-> FALSE, readable |-> r]
          /\ IF t THEN v = 0 /\ e = <<>> ELSE m = <<>>
    BY <1>1 DEF Migration!Init, Migration!Stores
  <2> QED BY <2>1
<1>3. MigrationTyped
  BY <1>2 DEF Migration!Init, MigrationTyped
<1>4. Whole
  BY <1>2 DEF Migration!Init, Whole
<1>5. \A p \in Opener : KnowsTable(p)
  BY DEF Migration!Init, KnowsTable
<1> QED BY <1>3, <1>4, <1>5 DEF MigrationInv

\* A step of one opener that leaves the store as it is.
LEMMA StoreStands ==
    ASSUME MigrationInv, NEW p \in Opener, UNCHANGED <<had, db>>,
           opening' = [opening EXCEPT ![p] = opening'[p]],
           opening'[p] \in {"version", "table", "begin", "write", "migrate", "open", "failed"},
           legacy' = [legacy EXCEPT ![p] = legacy'[p]], legacy'[p] \in BOOLEAN,
           KnowsTable(p)'
    PROVE  MigrationInv'
<1>1. MigrationTyped' /\ Whole'
  BY DEF MigrationInv, MigrationTyped, Whole
<1>2. ASSUME NEW q \in Opener \ {p} PROVE KnowsTable(q)'
  BY DEF MigrationInv, MigrationTyped, KnowsTable
<1> QED BY <1>1, <1>2 DEF MigrationInv

LEMMA MigrationStep == MigrationInv /\ [Migration!Next]_(Migration!migVars) => MigrationInv'
<1> SUFFICES ASSUME MigrationInv, [Migration!Next]_(Migration!migVars) PROVE MigrationInv'
  OBVIOUS
<1> USE DEF Migration!Stands
<1>0. /\ MigrationTyped /\ Whole /\ \A q \in Opener : KnowsTable(q)
      /\ db.version \in {0, 2, 4} /\ db.table \in BOOLEAN
  BY DEF MigrationInv, MigrationTyped
<1>1. ASSUME NEW p \in Opener, Migration!ReadVersion(p) PROVE MigrationInv'
  <2>1. CASE /\ db.version >= 4 /\ opening' = [opening EXCEPT ![p] = "open"]
             /\ legacy' = legacy
    <3>1. opening'[p] = "open" /\ db.version = 4 /\ legacy[p] \in BOOLEAN
      BY <1>0, <2>1 DEF MigrationTyped
    <3>2. KnowsTable(p)' /\ UNCHANGED <<had, db>>
      BY <1>1, <3>1 DEF Migration!ReadVersion, KnowsTable
    <3> QED BY <1>0, <2>1, <3>1, <3>2, StoreStands DEF MigrationTyped
  <2>2. CASE /\ opening' = [opening EXCEPT ![p] = "table"]
             /\ legacy' = [legacy EXCEPT ![p] = db.version = 0]
    <3>1. opening'[p] = "table" /\ legacy'[p] = (db.version = 0)
      BY <1>0, <2>2 DEF MigrationTyped
    <3>2. KnowsTable(p)' /\ UNCHANGED <<had, db>>
      BY <1>1, <3>1 DEF Migration!ReadVersion, KnowsTable
    <3> QED BY <2>2, <3>1, <3>2, StoreStands
  <2> QED BY <1>1, <2>1, <2>2 DEF Migration!ReadVersion, Migration!Current
<1>2. ASSUME NEW p \in Opener, Migration!ReadTable(p) PROVE MigrationInv'
  <2>1. /\ opening[p] = "table" /\ opening' = [opening EXCEPT ![p] = "begin"]
        /\ legacy' = [legacy EXCEPT ![p] = legacy[p] /\ db.table] /\ UNCHANGED <<had, db>>
    BY <1>2 DEF Migration!ReadTable
  <2>2. opening'[p] = "begin" /\ legacy'[p] = (legacy[p] /\ db.table)
    BY <1>0, <2>1 DEF MigrationTyped
  <2>3. ~legacy[p] => ~db.table
    BY <1>0, <2>1 DEF KnowsTable, Whole
  <2>4. KnowsTable(p)'
    BY <2>1, <2>2, <2>3 DEF KnowsTable
  <2> QED BY <2>1, <2>2, <2>4, StoreStands
<1>3. ASSUME NEW p \in Opener, Migration!Begin(p) \/ Migration!TakeLock(p) PROVE MigrationInv'
  <2>1. /\ opening[p] \in {"begin", "write"} /\ UNCHANGED <<had, db, legacy>>
        /\ \/ opening' = [opening EXCEPT ![p] = "write"]
           \/ opening' = [opening EXCEPT ![p] = "migrate"]
    BY <1>3 DEF Migration!Begin, Migration!TakeLock
  <2>2. opening'[p] \in {"write", "migrate"} /\ legacy[p] \in BOOLEAN
    BY <1>0, <2>1 DEF MigrationTyped
  <2>3. KnowsTable(p)'
    BY <1>0, <2>1, <2>2 DEF KnowsTable
  <2> QED BY <1>0, <2>1, <2>2, <2>3, StoreStands DEF MigrationTyped
<1>4. ASSUME NEW p \in Opener,
             Migration!Busy(p) \/ Migration!MigrationFails(p) \/ Migration!TryAgain(p)
      PROVE  MigrationInv'
  <2>1. /\ UNCHANGED <<had, db, legacy>>
        /\ \/ opening' = [opening EXCEPT ![p] = "failed"]
           \/ opening' = [opening EXCEPT ![p] = "version"]
    BY <1>4 DEF Migration!Busy, Migration!MigrationFails, Migration!TryAgain, Migration!Fails
  <2>2. opening'[p] \in {"failed", "version"} /\ legacy[p] \in BOOLEAN
    BY <1>0, <2>1 DEF MigrationTyped
  <2> QED BY <1>0, <2>1, <2>2, StoreStands DEF MigrationTyped, KnowsTable
<1>5. ASSUME NEW p \in Opener, Migration!CommitMigration(p) PROVE MigrationInv'
  <2>1. /\ opening[p] = "migrate" /\ opening' = [opening EXCEPT ![p] = "open"]
        /\ legacy[p] => db.table
        /\ had' = had /\ legacy' = legacy
        /\ db' = [db EXCEPT !.version = 4, !.columns = TRUE,
                            !.entries = IF legacy[p] THEN db.entries \o db.messages ELSE db.entries,
                            !.messages = IF legacy[p] THEN <<>> ELSE db.messages,
                            !.table = IF legacy[p] THEN FALSE ELSE db.table]
    BY <1>5 DEF Migration!CommitMigration, Migration!Migrated, Migration!Current
  <2>2. legacy[p] \in BOOLEAN /\ db.messages \in Seq(Message) /\ db.entries \in Seq(Message)
    BY <1>0 DEF MigrationTyped
  <2>3. db.table = legacy[p]
    BY <1>0, <2>1, <2>2 DEF KnowsTable
  <2>4. db'.version = 4 /\ db'.columns /\ ~db'.table /\ db'.messages = <<>>
    BY <1>0, <2>1, <2>2, <2>3 DEF MigrationTyped, Whole
  <2>5. db'.entries = db.messages \o db.entries /\ db'.entries \in Seq(Message)
    <3>1. CASE legacy[p]
      BY <1>0, <2>1, <2>2, <2>3, <3>1 DEF MigrationTyped, Whole
    <3>2. CASE ~legacy[p]
      BY <1>0, <2>1, <2>2, <2>3, <3>2 DEF MigrationTyped, Whole
    <3> QED BY <3>1, <3>2
  <2>6. MigrationTyped'
    <3>1. /\ db.readable \in BOOLEAN
          /\ db' = [version |-> 4, table |-> FALSE, messages |-> <<>>, entries |-> db'.entries,
                    columns |-> TRUE, readable |-> db.readable]
      <4>1. PICK v \in {0, 2, 4}, t \in BOOLEAN, m \in Seq(Message), e \in Seq(Message),
                 c \in BOOLEAN, r \in BOOLEAN :
              db = [version |-> v, table |-> t, messages |-> m, entries |-> e, columns |-> c,
                    readable |-> r]
        BY <1>0 DEF MigrationTyped
      <4>2. db' = [version |-> 4, table |-> db'.table, messages |-> db'.messages,
                   entries |-> db'.entries, columns |-> TRUE, readable |-> r]
        BY <2>1, <4>1
      <4>3. db'.table = FALSE
        BY <2>1, <2>2, <2>3, <4>1
      <4> QED BY <2>4, <4>1, <4>2, <4>3
    <3>2. db' \in [version : {0, 2, 4}, table : BOOLEAN, messages : Seq(Message),
                   entries : Seq(Message), columns : BOOLEAN, readable : BOOLEAN]
      <4>1. PICK e \in Seq(Message), r \in BOOLEAN :
              db' = [version |-> 4, table |-> FALSE, messages |-> <<>>, entries |-> e,
                     columns |-> TRUE, readable |-> r]
        BY <2>5, <3>1
      <4>2. <<>> \in Seq(Message)
        BY EmptySeq
      <4> QED BY <4>1, <4>2
    <3> QED BY <1>0, <2>1, <3>2 DEF MigrationTyped
  <2>7. Whole'
    <3>1. db'.messages \o db'.entries = db'.entries
      BY <2>4, <2>5, ConcatEmptySeq
    <3> QED BY <1>0, <2>1, <2>4, <2>5, <3>1 DEF Whole
  <2>8. \A q \in Opener : KnowsTable(q)'
    BY <1>0, <2>1, <2>4 DEF KnowsTable, MigrationTyped
  <2> QED BY <2>6, <2>7, <2>8 DEF MigrationInv
<1>6. CASE UNCHANGED Migration!migVars
  BY <1>6 DEF Migration!migVars, MigrationInv, MigrationTyped, Whole, KnowsTable
<1> QED BY <1>1, <1>2, <1>3, <1>4, <1>5, <1>6 DEF Migration!Next

\* However many processes open an old store of whatever messages, fail, die and
\* try again: no message is lost or doubled, and who has the store open sees the
\* current schema (initialize, migrate_v1_messages).
THEOREM MigrationAlways == Migration!Spec => []MigrationSound
<1>1. MigrationInv => MigrationSound
  <2> SUFFICES ASSUME MigrationInv PROVE MigrationSound
    OBVIOUS
  <2>1. db.messages \o db.entries = had
    BY DEF MigrationInv, Whole
  <2>2. ASSUME NEW p \in Opener, opening[p] = "open"
        PROVE  db.version = 4 /\ db.columns /\ ~db.table
    BY <2>2 DEF MigrationInv, Whole, KnowsTable, MigrationTyped
  <2> QED BY <2>1, <2>2 DEF MigrationSound, Migration!MigrationSound, Migration!NothingLost,
             Migration!OpenIsCurrent, Migration!Current
<1> QED BY <1>1, MigrationInit, MigrationStep, PTL DEF Migration!Spec
=============================================================================
