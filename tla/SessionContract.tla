--------------------------- MODULE SessionContract ---------------------------
(***************************************************************************)
(* What a session promises its clients about commands, whatever the worker *)
(* does inside (docs/protocol/rpc-sdk-design.md, section 4): a command is  *)
(* answered once, only an accepted command gets a terminal, it gets one,   *)
(* and the session is settled only when every accepted command has its     *)
(* terminal.                                                               *)
(***************************************************************************)
EXTENDS Sequences

CONSTANT Command

VARIABLES
    answer,     \* the admission answer of each command
    terminal,   \* the CommandFinished statuses of each command
    busy,       \* the session is not idle
    open        \* the session still serves commands

vars == <<answer, terminal, busy, open>>

Init ==
    /\ answer = [c \in Command |-> "none"]
    /\ terminal = [c \in Command |-> <<>>]
    /\ busy = FALSE
    /\ open = TRUE

\* The session starts working.
Wake ==
    /\ open /\ ~busy
    /\ busy' = TRUE
    /\ UNCHANGED <<answer, terminal, open>>

\* A command is accepted, or turned away because the session is busy.
Answer(c) ==
    /\ open /\ busy
    /\ answer[c] = "none"
    /\ \E a \in {"accepted", "busy"} : answer' = [answer EXCEPT ![c] = a]
    /\ UNCHANGED <<terminal, busy, open>>

\* An accepted command reaches its one terminal.
Finish(c) ==
    /\ open /\ busy
    /\ answer[c] = "accepted" /\ terminal[c] = <<>>
    /\ \E status \in {"succeeded", "failed", "cancelled"} :
          terminal' = [terminal EXCEPT ![c] = <<status>>]
    /\ UNCHANGED <<answer, busy, open>>

\* The session becomes idle owing no terminal.
Settle ==
    /\ open /\ busy
    /\ \A c \in Command : answer[c] = "accepted" => terminal[c] # <<>>
    /\ busy' = FALSE
    /\ UNCHANGED <<answer, terminal, open>>

Close ==
    /\ open
    /\ open' = FALSE
    /\ UNCHANGED <<answer, terminal, busy>>

\* A closed session answers whatever is left with "disconnected".
Disconnect ==
    /\ ~open
    /\ \E S \in SUBSET {c \in Command : answer[c] = "none"} :
          answer' = [c \in Command |-> IF c \in S THEN "disconnected" ELSE answer[c]]
    /\ UNCHANGED <<terminal, busy, open>>

Next ==
    \/ Wake \/ Settle \/ Close \/ Disconnect
    \/ \E c \in Command : Answer(c) \/ Finish(c)

Spec == Init /\ [][Next]_vars
=============================================================================
