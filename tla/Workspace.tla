------------------------------ MODULE Workspace ------------------------------
(***************************************************************************)
(* What the processes of one workspace share outside the log of a session: *)
(* the listing of sessions (SessionList), the preference file of the model *)
(* selection (ModelSelection) and the store itself, which each of them may *)
(* find in an old version (StoreMigration).  The three have no state in    *)
(* common; a slot, a file and a table are what is shared in each.          *)
(***************************************************************************)
EXTENDS SessionList

CONSTANTS
    Process, Selectable, Effort, Registry, Nobody, NoFile,  \* as in ModelSelection
    Opener, Messages, NoOpener                              \* as in StoreMigration

VARIABLES
    prefFile, lastSaved, temp, own, catalogue, active, change, step, target, previous,
    unsettled, had, db, commits, writeLock, opening, legacy, snapshot

Selection == INSTANCE ModelSelection
Migration == INSTANCE StoreMigration

AnyEffort == {"unset"} \cup Effort

\* A catalogue offers some models with some efforts, among them the default one;
\* its initial model is one it offers.
IsCatalogue(c) ==
    /\ c.initial \in Selectable /\ c.efforts[c.initial] # {}
    /\ c.efforts \in [Selectable -> SUBSET Effort] /\ c.default \in [Selectable -> Effort]
    /\ \A m \in Selectable : c.efforts[m] # {} => c.default[m] \in c.efforts[m]

\* A preference file is not taken for a missing one, a process not for none, an
\* effort not for one that is not saved.
ASSUME WorkspaceAssumption ==
    /\ \A c \in Registry : IsCatalogue(c)
    /\ "unset" \notin Effort
    /\ Nobody \notin Process /\ NoOpener \notin Opener
    /\ NoFile \notin [Selectable -> AnyEffort]
    /\ Messages \in Seq({Messages[i] : i \in DOMAIN Messages})

selVars == <<prefFile, lastSaved, temp, own, catalogue, active, change, step,
             target, previous, unsettled>>
migVars == <<had, db, commits, writeLock, opening, legacy, snapshot>>

-----------------------------------------------------------------------------
(* Properties.                                                             *)

\* A switch of the model and its roll-back: see ModelSelection.
SelectionSound == Selection!SelectionSound

\* An old store is migrated whole and once: see StoreMigration.
MigrationSound == Migration!MigrationSound
=============================================================================
