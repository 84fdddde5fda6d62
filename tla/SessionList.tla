----------------------------- MODULE SessionList -----------------------------
(***************************************************************************)
(* list_sessions as its concurrent callers see it (sdk/controller.rs,      *)
(* sdk/shared.rs): a caller remembers the generation of the last listing,  *)
(* submits the command, and once the command is admitted waits for a newer *)
(* generation.  The worker publishes every listing in one shared slot.     *)
(* An RPC connection runs each request on a thread of its own, so several  *)
(* callers may be under way; every call is one caller here.                *)
(***************************************************************************)
EXTENDS Naturals, Sequences

CONSTANTS
    Caller,  \* the calls made
    Scope,   \* [Caller -> Scopes], what each call asks for
    None     \* no caller

Scopes == {"workspace", "all"}

ASSUME ListAssumption ==
    /\ Scope \in [Caller -> Scopes]
    /\ None \notin Caller

VARIABLES
    pc,           \* where each call stands
    seen,         \* the generation a call read before it submitted
    result,       \* what a call returned
    chan,         \* the command channel
    executing,    \* the admitted call whose listing the worker computes
    generation,   \* SessionShared: session_list_generation
    slot,         \* SessionShared: sessions or session_list_error
    disconnected, \* SessionShared: disconnected
    history       \* every outcome published so far

vars == <<pc, seen, result, chan, executing, generation, slot, disconnected, history>>

Outcomes == Scopes \cup {"error"}
Results  == Outcomes \cup {"none", "busy", "disconnected"}

Init ==
    /\ pc = [c \in Caller |-> "idle"]
    /\ seen = [c \in Caller |-> 0]
    /\ result = [c \in Caller |-> "none"]
    /\ chan = <<>>
    /\ executing = None
    /\ generation = 0
    /\ slot = "workspace"
    /\ disconnected = FALSE
    /\ history = <<>>

Return(c, r) ==
    /\ pc' = [pc EXCEPT ![c] = "returned"]
    /\ result' = [result EXCEPT ![c] = r]

\* session_list_generation, before the command is submitted.
ReadGeneration(c) ==
    /\ pc[c] = "idle"
    /\ \/ disconnected /\ Return(c, "disconnected") /\ UNCHANGED seen
       \/ /\ ~disconnected
          /\ seen' = [seen EXCEPT ![c] = generation]
          /\ pc' = [pc EXCEPT ![c] = "submit"]
          /\ UNCHANGED result
    /\ UNCHANGED <<chan, executing, generation, slot, disconnected, history>>

\* submit: the command enters the channel of a live worker.
Submit(c) ==
    /\ pc[c] = "submit"
    /\ \/ disconnected /\ Return(c, "disconnected") /\ UNCHANGED chan
       \/ /\ ~disconnected
          /\ chan' = Append(chan, c)
          /\ pc' = [pc EXCEPT ![c] = "sent"]
          /\ UNCHANGED result
    /\ UNCHANGED <<seen, executing, generation, slot, disconnected, history>>

\* The worker takes the command: admitted when idle, turned away by a run.
Admit ==
    /\ executing = None /\ ~disconnected /\ chan # <<>>
    /\ chan' = Tail(chan)
    /\ \/ /\ executing' = Head(chan)
          /\ pc' = [pc EXCEPT ![Head(chan)] = "waiting"]
          /\ UNCHANGED result
       \/ Return(Head(chan), "busy") /\ UNCHANGED executing
    /\ UNCHANGED <<seen, generation, slot, disconnected, history>>

\* Mutant: a failed listing is published without a new generation.
PublishErrorSilently ==
    /\ executing # None
    /\ \E outcome \in {Scope[executing], "error"} :
          /\ slot' = outcome
          /\ history' = Append(history, outcome)
          /\ generation' = IF outcome = "error" THEN generation ELSE generation + 1
    /\ executing' = None
    /\ UNCHANGED <<pc, seen, result, chan, disconnected>>

\* set_sessions or set_session_list_error: the slot and its generation change
\* together, and every waiting caller is notified.
Publish ==
    /\ executing # None
    /\ \E outcome \in {Scope[executing], "error"} :
          /\ slot' = outcome
          /\ history' = Append(history, outcome)
    /\ generation' = generation + 1
    /\ executing' = None
    /\ UNCHANGED <<pc, seen, result, chan, disconnected>>

\* Mutant: the caller takes the slot as it finds it.
TakeSlotAtOnce(c) ==
    /\ pc[c] = "waiting"
    /\ Return(c, IF disconnected THEN "disconnected" ELSE slot)
    /\ UNCHANGED <<seen, chan, executing, generation, slot, disconnected, history>>

\* wait_for_session_list: any newer generation ends the wait.
TakeSlot(c) ==
    /\ pc[c] = "waiting"
    /\ \/ disconnected /\ Return(c, "disconnected")
       \/ ~disconnected /\ generation > seen[c] /\ Return(c, slot)
    /\ UNCHANGED <<seen, chan, executing, generation, slot, disconnected, history>>

\* The worker exits between two commands: the channel's commands fail, and the
\* waiting callers are woken.
Disconnect ==
    /\ executing = None /\ ~disconnected
    /\ disconnected' = TRUE
    /\ chan' = <<>>
    /\ pc' = [c \in Caller |-> IF pc[c] = "sent" THEN "returned" ELSE pc[c]]
    /\ result' = [c \in Caller |-> IF pc[c] = "sent" THEN "disconnected" ELSE result[c]]
    /\ UNCHANGED <<seen, executing, generation, slot, history>>

Worker == Admit \/ Publish
Next ==
    \/ \E c \in Caller : ReadGeneration(c) \/ Submit(c) \/ TakeSlot(c)
    \/ Worker
    \/ Disconnect

Spec == Init /\ [][Next]_vars

\* A call under way goes on, and so does the worker; nobody has to call, and
\* the session has to end only if it is told to.
FairSpec ==
    /\ Spec
    /\ \A c \in Caller : WF_vars(Submit(c)) /\ WF_vars(TakeSlot(c))
    /\ WF_vars(Worker)

-----------------------------------------------------------------------------
(* Properties.                                                             *)

TypeOK ==
    /\ pc \in [Caller -> {"idle", "submit", "sent", "waiting", "returned"}]
    /\ seen \in [Caller -> 0..generation]
    /\ result \in [Caller -> Results]
    /\ chan \in Seq(Caller)
    /\ executing \in Caller \cup {None}
    /\ generation \in Nat /\ slot \in Outcomes /\ disconnected \in BOOLEAN
    /\ history \in Seq(Outcomes) /\ Len(history) = generation
    /\ \A c \in Caller : (pc[c] = "returned") <=> (result[c] # "none")

\* What a call returns was computed while the call was under way: a listing
\* published before it asked is never served again (sdk/shared.rs:181).
ListingIsNew ==
    \A c \in Caller :
        result[c] \in Outcomes => \E i \in DOMAIN history : i > seen[c] /\ history[i] = result[c]

\* A call that has begun returns: a failed listing and an exiting worker wake
\* their callers too.
ListReturns == \A c \in Caller : pc[c] # "idle" ~> pc[c] = "returned"

\* A call returns a listing of the scope it asked for: list_sessions lists the
\* current workspace only (docs/protocol/rpc-sdk-design.md:312).
ScopeIsAsAsked ==
    \A c \in Caller : result[c] \in Scopes => result[c] = Scope[c]
=============================================================================
