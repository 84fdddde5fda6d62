---------------------------- MODULE ToolContract ----------------------------
(***************************************************************************)
(* What one turn with tool calls promises the conversation: each call gets *)
(* one result, which is never changed, and the log gets all of them in one *)
(* piece, in the order of the calls, or nothing.                           *)
(***************************************************************************)
EXTENDS Naturals

CONSTANTS
    N,        \* the model asked for calls 1 to N
    Outcome   \* what can become of a call

VARIABLES
    result,   \* the result of each call, "none" before it has one
    log       \* what the turn wrote: one result per call, or <<>>

vars == <<result, log>>

Init ==
    /\ result = [c \in 1..N |-> "none"]
    /\ log = <<>>

\* A call without a result gets one.
Settle(c) ==
    /\ result[c] = "none" /\ log = <<>>
    /\ \E o \in Outcome : result' = [result EXCEPT ![c] = o]
    /\ UNCHANGED log

\* The results are written together when none is missing.
Write ==
    /\ log = <<>>
    /\ \A c \in 1..N : result[c] # "none"
    /\ log' = result
    /\ UNCHANGED result

Next == Write \/ \E c \in 1..N : Settle(c)

Spec == Init /\ [][Next]_vars
=============================================================================
