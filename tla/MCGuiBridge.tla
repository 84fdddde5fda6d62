----------------------------- MODULE MCGuiBridge -----------------------------
(***************************************************************************)
(* GuiBridge for TLC.  part says what a behaviour looks at: two requests   *)
(* of one process, or two starts of one connection whose child only        *)
(* answers the hello.                                                      *)
(***************************************************************************)
EXTENDS GuiBridge

CONSTANTS h1, h2, c1, c2
VARIABLE part
mcVars == <<gbVars, part>>

MCHandles == {h1, h2}
MCRequests   == {c1, c2}

MCInit == BridgeInit /\ part \in {"requests", "starts"}
MCNext ==
  /\ BridgeNext
  /\ UNCHANGED part
  /\ part = "requests" => stage'[h2] = "free"
  /\ part = "starts" => left' = left /\ \A c \in Requests : request'[c] = "idle"

Same(A) == A /\ UNCHANGED part

\* The fairness of GuiBridge.
MCSpec ==
  /\ MCInit /\ [][MCNext]_mcVars
  /\ \A h \in Handles : WF_mcVars(Same(ReaderSteps(h))) /\ WF_mcVars(Same(ShutdownSteps(h)))
  /\ \A c \in Requests : WF_mcVars(Same(CallSteps(c)))
=============================================================================
