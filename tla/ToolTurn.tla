------------------------------ MODULE ToolTurn ------------------------------
(***************************************************************************)
(* The tools of a turn: the batch of calls (ToolBatch), and the way of one *)
(* call through rules, hooks and the user's answer to its observation      *)
(* (ToolPolicy).  The batch knows of the policy only which calls are asked *)
(* about and which grant covers them, so the two have no state in common.  *)
(***************************************************************************)
EXTENDS ToolBatch

CONSTANTS RuleSets, Arguments, Hooks, Images, MaxGrants  \* as in ToolPolicy

VARIABLES rules, grants, tools, call, allowed, result

Policy == INSTANCE ToolPolicy WITH Grants <- MaxGrants

Rule == {"allow", "ask", "deny"}

\* A table has a rule for each kind of access; a list of images is one.
ASSUME PolicyAssumption ==
    /\ RuleSets \subseteq [read : Rule, write : Rule, outside : Rule, opaque : Rule]
    /\ Hooks \in Nat
    /\ Images \subseteq Seq(BOOLEAN)

policyVars == <<rules, grants, tools, call, allowed, result>>

-----------------------------------------------------------------------------
(* Properties. *)

\* What runs is what was judged and answered: see ToolPolicy.
PolicySound == Policy!PolicySound
=============================================================================
