----------------------------- MODULE MCWorkspace -----------------------------
(***************************************************************************)
(* What processes of one workspace share outside the log of a session      *)
(* (Workspace), and the configuration file with its editor (ConfigEditor), *)
(* for TLC.  They share no state, so a behaviour runs one of them: part    *)
(* says which.                                                             *)
(***************************************************************************)
EXTENDS Workspace, MCDocuments, TLC

CONSTANTS u1, u2, u3, m1, m2

MCCallers == {u1, u2, u3}
\* Two calls for the workspace, one for every workspace.
MCScope == u1 :> "workspace" @@ u2 :> "workspace" @@ u3 :> "all"

MCProcess == {u1, u2}
MCSelectable == {m1, m2}
MCEffort == {"low", "high"}
\* The configuration before and after an edit: another model is the first, the
\* one that may be saved with "high" has it no more, the other has another effort.
MCRegistry ==
    {[initial |-> m1, efforts |-> m1 :> MCEffort @@ m2 :> {"low"},
      default |-> m1 :> "low" @@ m2 :> "low"],
     [initial |-> m2, efforts |-> m1 :> {"low"} @@ m2 :> {"high"},
      default |-> m1 :> "low" @@ m2 :> "high"]}
MCMessages == <<"q1", "a1", "q2">>

VARIABLES part, doc, keys

Config == INSTANCE ConfigEditor WITH Documents <- mcDocuments, Keyrings <- mcKeyrings

docVars == <<doc, keys>>
mcVars == <<part, vars, selVars, migVars, docVars>>

MCInit ==
    /\ part \in {"list", "select", "migrate", "config"}
    /\ Init /\ Selection!Init /\ Migration!Init
    /\ part # "select" => \A p \in Process : catalogue[p].initial = m1
    /\ part # "migrate" => db.version = 0 /\ had = <<>>
    /\ IF part = "config" THEN Config!Init
       ELSE doc = mcDocument /\ keys = CHOOSE k \in mcKeyrings : TRUE

MCNext ==
    /\ UNCHANGED part
    /\ \/ part = "list" /\ Next /\ UNCHANGED <<selVars, migVars, docVars>>
       \/ part = "select" /\ Selection!Next /\ UNCHANGED <<vars, migVars, docVars>>
       \/ part = "migrate" /\ Migration!Next /\ UNCHANGED <<vars, selVars, docVars>>
       \/ part = "config" /\ Config!Next /\ UNCHANGED <<vars, selVars, migVars>>

Listing(action) == part = "list" /\ action /\ UNCHANGED <<part, selVars, migVars, docVars>>

\* The fairness of SessionList; the others may stop at any step.
MCSpec ==
    /\ MCInit /\ [][MCNext]_mcVars
    /\ \A call \in Caller :
          WF_mcVars(Listing(Submit(call))) /\ WF_mcVars(Listing(TakeSlot(call)))
    /\ WF_mcVars(Listing(Worker))

ConfigSound == part = "config" => Config!LoadSound /\ Config!SaveSound
=============================================================================
