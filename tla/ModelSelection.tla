--------------------------- MODULE ModelSelection ---------------------------
(***************************************************************************)
(* The model a process talks to, and the reasoning effort it remembers per *)
(* model (runtime/commands.rs: apply_model_selection; storage.rs:          *)
(* WorkspacePreferences).  A switch writes the preference file, which all  *)
(* processes of a workspace share, then the log of its session; when the   *)
(* log refuses, the preference is written back.  Any write may fail, and a *)
(* process may die between any two steps.  A reload reads another          *)
(* configuration and picks its model anew; loading a session and clearing  *)
(* one change the log under the selection in use.                          *)
(***************************************************************************)
CONSTANTS
    Process,    \* processes of one workspace
    Selectable, \* the models there are
    Effort,     \* the efforts there are
    Registry,   \* what a configuration offers (ModelRegistry): efforts and
                \* default effort by model, and the initial model
    Nobody,     \* no process
    NoFile      \* no such file

VARIABLES
    prefFile,  \* the preference file
    lastSaved, \* history: the process whose write the file is, or Nobody
    temp,      \* the temporary file of each process
    own,       \* its copy of the preferences
    catalogue, \* models: the configuration it has read
    active,    \* active_selection
    change,    \* the last ModelChange fact it has recorded since it started,
               \* reloaded, loaded a session or cleared one; before the first of
               \* them what the log ends with is not about the selection in use
    step,      \* where it stands in apply_model_selection
    target,    \* the selection asked for
    previous,  \* previous_effort
    unsettled  \* history: a preference could not be written back

selVars == <<prefFile, lastSaved, temp, own, catalogue, active, change, step,
             target, previous, unsettled>>

Unset == [m \in Selectable |-> "unset"]
Selection == [model : Selectable, effort : Effort]
NoChange == [model |-> "none", effort |-> "none"]

\* load: what the file says, or nothing.
Loaded == IF prefFile = NoFile THEN Unset ELSE prefFile

\* The effort of a model: the saved one when the catalogue has it.
Effective(c, m, prefs) == IF prefs[m] \in c.efforts[m] THEN prefs[m] ELSE c.default[m]

\* What set_effort saves of an effort: nothing when it is the default.
Kept(c, m, e) == IF e = c.default[m] THEN "unset" ELSE e

\* initial_selection with the saved effort.
Preferred(c, prefs) == [model |-> c.initial, effort |-> Effective(c, c.initial, prefs)]

Init ==
    /\ prefFile = NoFile /\ lastSaved = Nobody
    /\ temp = [p \in Process |-> NoFile]
    /\ own = [p \in Process |-> Unset]
    /\ catalogue \in [Process -> Registry]
    /\ active = [p \in Process |-> Preferred(catalogue[p], Unset)]
    /\ change = [p \in Process |-> NoChange]
    /\ step = [p \in Process |-> "idle"]
    /\ target = [p \in Process |-> NoChange]
    /\ previous = [p \in Process |-> "unset"]
    /\ unsettled = [p \in Process |-> FALSE]

To(p, s) == step' = [step EXCEPT ![p] = s]

\* target and previous are locals of the call: they end with it.
Locals(p) ==
    IF step'[p] # "idle" THEN UNCHANGED <<target, previous>>
    ELSE /\ target' = [target EXCEPT ![p] = NoChange]
         /\ previous' = [previous EXCEPT ![p] = "unset"]

\* What set_effort writes: the new effort, or on the way back the old one.
Restored(p, c, m) ==
    Kept(c, m, IF previous[p] = "unset" THEN c.default[m] ELSE previous[p])
Wanted(p) ==
    LET m == target[p].model
        c == catalogue[p]
    IN  [own[p] EXCEPT ![m] = IF step[p] \in {"temp", "replace", "rename"}
                              THEN Kept(c, m, target[p].effort) ELSE Restored(p, c, m)]

Back == {"backTemp", "backReplace", "backRename"}

files == <<prefFile, lastSaved, temp, own>>
inUse == <<catalogue, active, change>>

\* A command asks for a selection: one the catalogue has not is refused.
Switch(p, s) ==
    /\ step[p] = "idle" /\ s.effort \in catalogue[p].efforts[s.model]
    /\ target' = [target EXCEPT ![p] = s]
    /\ previous' = [previous EXCEPT ![p] = own[p][s.model]]
    /\ To(p, "temp")
    /\ UNCHANGED <<files, inUse, unsettled>>

\* write_file has succeeded: the copy follows; then the log, or the end.
Saved(p) ==
    /\ own' = [own EXCEPT ![p] = Wanted(p)]
    /\ lastSaved' = p
    /\ To(p, IF step[p] \in Back THEN "idle" ELSE "log")

\* Nothing to remember: the file is removed.  Otherwise the temporary file is
\* written, the old file removed, the new one renamed.
WriteTemp(p) ==
    /\ step[p] \in {"temp", "backTemp"}
    /\ IF Wanted(p) = Unset
       THEN prefFile' = NoFile /\ Saved(p) /\ UNCHANGED temp
       ELSE /\ temp' = [temp EXCEPT ![p] = Wanted(p)]
            /\ To(p, IF step[p] = "temp" THEN "replace" ELSE "backReplace")
            /\ UNCHANGED <<prefFile, own, lastSaved>>
    /\ Locals(p) /\ UNCHANGED <<inUse, unsettled>>

RemoveOld(p) ==
    /\ step[p] \in {"replace", "backReplace"}
    /\ prefFile' = NoFile /\ lastSaved' = Nobody
    /\ To(p, IF step[p] = "replace" THEN "rename" ELSE "backRename")
    /\ Locals(p) /\ UNCHANGED <<temp, own, inUse, unsettled>>

Rename(p) ==
    /\ step[p] \in {"rename", "backRename"}
    /\ prefFile' = temp[p]
    /\ temp' = [temp EXCEPT ![p] = NoFile]
    /\ Saved(p)
    /\ Locals(p) /\ UNCHANGED <<inUse, unsettled>>

\* A write fails: the switch is off; on the way back, the user is told.
WriteFails(p) ==
    /\ step[p] \in {"temp", "replace", "rename"} \cup Back
    /\ unsettled' = [unsettled EXCEPT ![p] = @ \/ step[p] \in Back]
    /\ temp' = [temp EXCEPT ![p] = NoFile]     \* nobody reads one that is left
    /\ To(p, "idle")
    /\ Locals(p) /\ UNCHANGED <<prefFile, lastSaved, own, inUse>>

\* record_model_change, then the provider, the tools and the budget.
Log(p) ==
    /\ step[p] = "log"
    /\ change' = [change EXCEPT ![p] = target[p]]
    /\ active' = [active EXCEPT ![p] = target[p]]
    /\ To(p, "idle")
    /\ Locals(p) /\ UNCHANGED <<files, catalogue, unsettled>>

\* Mutant of LogFails: the preference is not written back.
LogFailsKeeping(p) ==
    /\ step[p] = "log" /\ To(p, "idle")
    /\ Locals(p) /\ UNCHANGED <<files, inUse, unsettled>>

LogFails(p) ==
    /\ step[p] = "log" /\ To(p, "backTemp")
    /\ Locals(p) /\ UNCHANGED <<files, inUse, unsettled>>

\* What is common to a reload and a start: the model is the one the
\* configuration names.  Neither is recorded in the log.
TakeUp(p, c, prefs) ==
    /\ catalogue' = [catalogue EXCEPT ![p] = c]
    /\ active' = [active EXCEPT ![p] = Preferred(c, prefs)]
    /\ change' = [change EXCEPT ![p] = NoChange]
    /\ unsettled' = [unsettled EXCEPT ![p] = FALSE]

\* The configuration is read again; the copy of the preferences and the session
\* stay.  A reload that fails changes nothing.
Reload(p, c) ==
    /\ step[p] = "idle" /\ TakeUp(p, c, own[p])
    /\ UNCHANGED <<files, step, target, previous>>

\* LoadSession and ClearConversation: another log, which ends with any model
\* change or with none; the selection in use stays.
OtherLog(p) ==
    /\ step[p] = "idle"
    /\ change' = [change EXCEPT ![p] = NoChange]
    /\ UNCHANGED <<files, catalogue, active, step, target, previous, unsettled>>

\* A process dies and another is started: it reads the file, and starts a session.
Restart(p, c) ==
    /\ own' = [own EXCEPT ![p] = Loaded]
    /\ TakeUp(p, c, Loaded)
    /\ temp' = [temp EXCEPT ![p] = NoFile]     \* it has another process id
    /\ lastSaved' = IF lastSaved = p THEN Nobody ELSE lastSaved
    /\ To(p, "idle")
    /\ Locals(p) /\ UNCHANGED prefFile

Next ==
    \E p \in Process :
        \/ \E s \in Selection : Switch(p, s)
        \/ WriteTemp(p) \/ RemoveOld(p) \/ Rename(p) \/ WriteFails(p)
        \/ Log(p) \/ LogFails(p) \/ OtherLog(p)
        \/ \E c \in Registry : Reload(p, c) \/ Restart(p, c)

Spec == Init /\ [][Next]_selVars

-----------------------------------------------------------------------------
(* Properties. *)

\* Between commands, whatever was switched, reloaded, loaded and cleared: the
\* selection in use is one the catalogue has; a start or a reload now would come
\* to the same effort of its model, unless the user was told that the preference
\* could not be written back; and the log does not end with another switch of
\* this process than the last one that was made.
Settled ==
    \A p \in Process : step[p] = "idle" =>
        /\ active[p].effort \in catalogue[p].efforts[active[p].model]
        /\ unsettled[p] \/ active[p].effort = Effective(catalogue[p], active[p].model, own[p])
        /\ change[p] \in {NoChange, active[p]}

\* The file, as long as no other process has touched it, is the writer's copy:
\* a failed switch has been undone in both.
FileIsCopy ==
    \A p \in Process : step[p] = "idle" /\ lastSaved = p => Loaded = own[p]

\* A switch (apply_model_selection, set_effort): both.
SelectionSound == Settled /\ FileIsCopy
=============================================================================
