----------------------------- MODULE PlanUpdates -----------------------------
(***************************************************************************)
(* The structured plan of a session (plan.rs) and the tool that changes it *)
(* (tools/update_plan.rs).  The log holds whole plans, each one a revision *)
(* further; the current plan is what the log reduces to.                   *)
(*                                                                         *)
(* A text is a word with or without blanks around it; lengths of texts are *)
(* left out.  MaxRevision stands for the largest u64.                      *)
(***************************************************************************)
EXTENDS Naturals, Sequences, FiniteSets, SequencesExt

CONSTANTS
  MaxItems,     \* MAX_PLAN_ITEMS
  MaxRevision,  \* the largest revision there is
  Calls,        \* the calls the model may make: patches, explanation, clear
  Logs          \* the logs of the sessions there are

VARIABLES
  open,    \* whether a session has been taken up, a new one or one of these
  planLog  \* its PlanUpdated facts

planVars == <<open, planLog>>

Written(w, blanks) == [word |-> w, blanks |-> blanks]
Trim(t) == Written(t.word, FALSE)
Empty(t) == t.word = ""

\* No text was given; no status was given is "none".
NoText == Written("no text", FALSE)
CancelledNote == Written("the turn was cancelled", FALSE)

\* The texts, the items and plans made of them, and the calls of the tool.
Text == [word : STRING \ {NoText.word}, blanks : BOOLEAN]
PlanStatus == {"pending", "in_progress", "completed"}
PlanItem == [id : Text, text : Text, status : PlanStatus]
PlanSnapshot == [revision : Nat, items : Seq(PlanItem), explanation : Text \cup {NoText}]
PlanItemPatch ==
  [id : Text, text : Text \cup {NoText}, status : PlanStatus \cup {"none"}, remove : BOOLEAN]
UpdatePlanArgs ==
  [patches : Seq(PlanItemPatch), explanation : Text \cup {NoText}, clear : BOOLEAN]

\* The last conjunct is for the provers, which know of no member of STRING.
ASSUME PlanAssumption ==
  /\ MaxItems \in Nat /\ MaxRevision \in Nat
  /\ Calls \subseteq UpdatePlanArgs
  /\ Logs \subseteq Seq(PlanSnapshot)
  /\ CancelledNote \in Text

NoPlan == [revision |-> 0, items |-> <<>>, explanation |-> NoText]

Invalid  == [error |-> "invalid"]
Conflict == [error |-> "conflict"]
Failed(r) == "error" \in DOMAIN r

-----------------------------------------------------------------------------
Snapshot(plan) ==
  LET items == plan.items IN
  /\ Len(items) <= MaxItems
  /\ \A i \in DOMAIN items :
       /\ ~Empty(items[i].id) /\ ~items[i].id.blanks
       /\ ~Empty(items[i].text) /\ ~items[i].text.blanks
  /\ \A i, j \in DOMAIN items : items[i].id = items[j].id => i = j
  /\ Cardinality({i \in DOMAIN items : items[i].status = "in_progress"}) <= 1
  /\ ~plan.explanation.blanks

Transition(current, next) ==
  current.revision < MaxRevision /\ next.revision = current.revision + 1 /\ Snapshot(next)

\* A plan that does not follow from the one before is passed over.
Reduce(facts) ==
  LET plan[i \in 0..Len(facts)] ==
        IF i = 0 THEN NoPlan
        ELSE IF Transition(plan[i - 1], facts[i]) THEN facts[i] ELSE plan[i - 1]
  IN  plan[Len(facts)]

Plan == Reduce(planLog)

UpdatePlan(current, items, explanation) ==
  LET trimmed == [i \in DOMAIN items |->
                    [items[i] EXCEPT !.id = Trim(@), !.text = Trim(@)]]
      why  == Trim(explanation)
      next == [revision |-> current.revision + 1, items |-> trimmed,
               explanation |-> IF Empty(why) THEN NoText ELSE why]
  IN  IF current.revision >= MaxRevision THEN Conflict
      ELSE IF Snapshot(next) THEN next ELSE Invalid

PositionOf(items, id) == CHOOSE i \in DOMAIN items : items[i].id = id
Knows(items, id) == \E i \in DOMAIN items : items[i].id = id

\* One patch applied to the plan so far.
Patched(plan, patch) ==
  LET known == Knows(plan.items, patch.id)
      at == PositionOf(plan.items, patch.id)
  IN  IF patch.remove
        THEN IF patch.text # NoText \/ patch.status # "none" \/ ~known THEN Invalid
             ELSE [plan EXCEPT !.items = RemoveAt(@, at)]
      ELSE IF known
        THEN IF patch.text = NoText /\ patch.status = "none" THEN Invalid
             ELSE [plan EXCEPT !.items[at].text = IF patch.text = NoText THEN @ ELSE patch.text,
                               !.items[at].status = IF patch.status = "none" THEN @
                                                    ELSE patch.status]
      ELSE IF patch.text = NoText THEN Invalid
           ELSE [plan EXCEPT !.items =
                   Append(@, [id |-> patch.id, text |-> patch.text,
                              status |-> IF patch.status = "none" THEN "pending"
                                         ELSE patch.status])]

\* A slip: the ids are compared as the model wrote them.
SeenAsWritten(patches, i) == \E j \in 1..i - 1 : patches[j].id = patches[i].id
Seen(patches, i) == \E j \in 1..i - 1 : Trim(patches[j].id) = Trim(patches[i].id)

\* All of them, one after the other.
AllPatched(current, patches) ==
  LET after[i \in 0..Len(patches)] ==
        IF i = 0 THEN current
        ELSE IF Failed(after[i - 1]) \/ Empty(patches[i].id) \/ Seen(patches, i) THEN Invalid
        ELSE Patched(after[i - 1], [patches[i] EXCEPT !.id = Trim(@)])
  IN  after[Len(patches)]

PatchPlan(current, call) ==
  LET changed == AllPatched(current, call.patches)
  IN  IF call.clear
        THEN IF call.patches # <<>> \/ call.explanation # NoText THEN Invalid
             ELSE UpdatePlan(current, <<>>, NoText)
      ELSE IF call.patches = <<>> /\ call.explanation = NoText THEN Invalid
      ELSE IF Failed(changed) THEN Invalid
      ELSE UpdatePlan(current, changed.items,
                      IF call.explanation = NoText THEN current.explanation ELSE call.explanation)

ReturnInProgressToPending(current) ==
  LET Back(item) == IF item.status = "in_progress" THEN [item EXCEPT !.status = "pending"] ELSE item
      next == UpdatePlan(current, [i \in DOMAIN current.items |-> Back(current.items[i])],
                         CancelledNote)
  IN  IF (\E i \in DOMAIN current.items : current.items[i].status = "in_progress") /\ ~Failed(next)
        THEN next ELSE NoPlan

-----------------------------------------------------------------------------
PlanInit == open = FALSE /\ planLog = <<>>

\* A new session, or one that is loaded in place of another.
TakeUp == open' = TRUE /\ planLog' \in Logs \cup {<<>>}

\* The tool; a refused call leaves no fact.
CallTool(call) ==
  LET next == PatchPlan(Plan, call) IN
  open /\ ~Failed(next) /\ planLog' = Append(planLog, next) /\ UNCHANGED open

\* The repair at the end of a cancelled turn.
TurnCancelled ==
  LET next == ReturnInProgressToPending(Plan) IN
  open /\ next # NoPlan /\ planLog' = Append(planLog, next) /\ UNCHANGED open

PlanNext == TakeUp \/ (\E call \in Calls : CallTool(call)) \/ TurnCancelled

PlanSpec == PlanInit /\ [][PlanNext]_planVars

-----------------------------------------------------------------------------
(* What a call should do, said of the whole list of patches at once.       *)

IdsOf(items) == {items[i].id : i \in DOMAIN items}

WellFormed(items, call) ==
  IF call.clear THEN call.patches = <<>> /\ call.explanation = NoText
  ELSE /\ call.patches # <<>> \/ call.explanation # NoText
       /\ \A i, j \in DOMAIN call.patches :
            Trim(call.patches[i].id) = Trim(call.patches[j].id) => i = j
       /\ \A i \in DOMAIN call.patches :
            LET p == call.patches[i]
                known == Trim(p.id) \in IdsOf(items)
            IN  /\ ~Empty(p.id)
                /\ p.remove => known /\ p.text = NoText /\ p.status = "none"
                /\ ~p.remove => IF known THEN p.text # NoText \/ p.status # "none" ELSE p.text # NoText

\* The n-th of a set of numbers.
Nth(K, n) == CHOOSE k \in K : Cardinality({j \in K : j < k}) = n - 1

\* The items a plan had, then those the patches may add: what becomes of the
\* item there, and the places that are left.
ItemAt(items, patches, k) ==
  IF k <= Len(items)
    THEN LET item == items[k]
             For == {j \in DOMAIN patches : Trim(patches[j].id) = item.id}
             p == patches[CHOOSE j \in For : TRUE]
         IN  IF For = {} THEN item
             ELSE [item EXCEPT !.text = IF p.text = NoText THEN @ ELSE Trim(p.text),
                               !.status = IF p.status = "none" THEN @ ELSE p.status]
    ELSE LET p == patches[k - Len(items)]
         IN  [id |-> Trim(p.id), text |-> Trim(p.text),
              status |-> IF p.status = "none" THEN "pending" ELSE p.status]

Places(items, patches) ==
  {i \in DOMAIN items : \A j \in DOMAIN patches : Trim(patches[j].id) = items[i].id => ~patches[j].remove}
    \cup {Len(items) + j : j \in {j \in DOMAIN patches : Trim(patches[j].id) \notin IdsOf(items)}}

Intended(items, call) ==
  LET places == IF call.clear THEN {} ELSE Places(items, call.patches)
  IN  [n \in 1..Cardinality(places) |-> ItemAt(items, call.patches, Nth(places, n))]

\* Whatever calls, cancelled turns and illegal facts of other writers the log
\* of an open session went through, the plan it reduces to is a legal one.  A
\* call either takes it to the plan the list of its patches asks for, with one
\* revision more and what it does not name as it was, or is refused, and then
\* for a reason: it is ill-formed, what it asks for is no legal plan, or the
\* revisions are used up.  A cancelled turn leaves nothing in progress and
\* changes no other item (plan.rs, patch_plan, update_plan, reduce_plan and
\* return_in_progress_to_pending).
PlanSound ==
  open =>
  LET plan == Plan
      paused == ReturnInProgressToPending(plan)
      Settled(item) == [item EXCEPT !.status = IF @ = "in_progress" THEN "pending" ELSE @]
      settled == [i \in DOMAIN plan.items |-> Settled(plan.items[i])]
  IN  /\ Snapshot(plan)
      /\ \A call \in Calls :
           LET next == PatchPlan(plan, call)
               asked == [plan EXCEPT !.revision = @ + 1, !.items = Intended(plan.items, call)]
           IN  IF Failed(next)
                 THEN ~WellFormed(plan.items, call) \/ ~Snapshot(asked) \/ plan.revision = MaxRevision
                 ELSE /\ WellFormed(plan.items, call)
                      /\ Transition(plan, next)
                      /\ next.items = asked.items
                      /\ (call.explanation = NoText /\ ~call.clear) =>
                           next.explanation =
                             IF Empty(plan.explanation) THEN NoText ELSE plan.explanation
      /\ (settled # plan.items /\ plan.revision < MaxRevision) =>
           Transition(plan, paused) /\ paused.items = settled
=============================================================================
