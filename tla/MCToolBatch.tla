---------------------------- MODULE MCToolBatch ----------------------------
(***************************************************************************)
(* The tools of a turn (ToolTurn) for TLC.  The batch and the policy share *)
(* no state, so a behaviour runs one of them: part says which.             *)
(***************************************************************************)
EXTENDS ToolTurn

CONSTANTS t1, t2

MCThread == {t1, t2}
\* The first three calls are of one kind.
MCKey == <<"a", "a", "a", "b">>

Table(r, w, o, s) == [read |-> r, write |-> w, outside |-> o, opaque |-> s]
MCRuleSets == {Table("allow", "allow", "ask", "ask"),    \* the default
               Table("ask", "deny", "allow", "allow"),
               Table("allow", "ask", "deny", "deny")}
MCArguments == {<<>>, [path |-> "inside"], [path |-> "outside"], [path |-> "device"], [path |-> "number"],
                [command |-> "plain"], [command |-> "risky"], [command |-> "plain", cwd |-> "outside"],
                [query |-> "x"], [query |-> "y"]}
MCImages == {<<>>, <<TRUE>>, <<FALSE, TRUE, TRUE, TRUE, TRUE>>}

VARIABLE part
mcVars == <<vars, policyVars, part>>

MCInit ==
    /\ Init /\ Policy!Init /\ part \in {"batch", "policy"}
    /\ part = "batch" => rules = Table("allow", "allow", "ask", "ask") /\ tools = Policy!BuiltIn
MCNext ==
    /\ UNCHANGED part
    /\ \/ part = "batch" /\ Next /\ UNCHANGED policyVars
       \/ part = "policy" /\ Policy!Next /\ UNCHANGED vars

MCSpec == MCInit /\ [][MCNext]_mcVars /\ Fairness
=============================================================================
