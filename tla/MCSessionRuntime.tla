-------------------------- MODULE MCSessionRuntime --------------------------
(***************************************************************************)
(* Instances of SessionRuntime for TLC.                                    *)
(***************************************************************************)
EXTENDS SessionRuntime, TLC

CONSTANTS p, s, f, a, x, d, m

\* A prompt with steering, a follow-up and an abort racing it.
KindInputs == p :> "prompt" @@ s :> "steer" @@ f :> "follow_up" @@ a :> "abort"
MCInputs == {p, s, f, a}

\* A prompt, a compaction, an idle-only command and a shutdown, for liveness.
KindLive == p :> "prompt" @@ f :> "compact" @@ m :> "mutate" @@ x :> "shutdown"
MCLive == {p, f, m, x}

\* A prompt and a compaction under way when the front end leaves.
KindLeave == p :> "prompt" @@ f :> "compact" @@ d :> "detached"
MCLeave == {p, f, d}

\* A prompt steered once.
KindSteered == p :> "prompt" @@ s :> "steer"
MCSteered == {p, s}
=============================================================================
