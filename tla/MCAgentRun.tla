----------------------------- MODULE MCAgentRun -----------------------------
(***************************************************************************)
(* Model calls for TLC.  part says what a behaviour looks at: the run of   *)
(* the agent (AgentRun), the stream of one answer (ProviderStream), or the *)
(* encoding of a prompt that grows block by block (PromptEncoding).        *)
(***************************************************************************)
EXTENDS AgentRun, ProviderStream, PromptEncoding

VARIABLE part
mcVars == <<part, agentVars, streamVars, promptVars>>

\* Two tool rounds and an open call; a log with a result of a call nobody made,
\* one that is there twice, and calls the next message does not answer.
Rounds ==
    <<Message(User(<<Text>>)),
      Message(Assistant(<<Use(1)>>)), Message(User(<<Result(1, TRUE)>>)),
      Message(Assistant(<<Use(2)>>)), Message(User(<<Result(2, TRUE)>>)),
      Message(Assistant(<<Use(3)>>))>>
Damaged ==
    <<Message(User(<<Result(1, FALSE)>>)),
      Message(Assistant(<<Use(1)>>)), Message(User(<<Result(1, TRUE), Result(1, FALSE), Text>>)),
      Message(Assistant(<<Use(2), Use(3)>>)), Message(Assistant(<<Text>>))>>
MCOldLogs == {<<>>, Rounds, Damaged}

\* The blocks of a prompt: of a user, of an answer.
MCPromptBlocks == [
    user |-> {TextBlock(TRUE), TextBlock(FALSE), ResultBlock(1, TRUE, 2), ResultBlock(2, FALSE, 0)},
    assistant |-> {TextBlock(FALSE), ThinkingBlock("anthropic"), ThinkingBlock("openai"),
                   UseBlock(1, "raw"), UseBlock(2, "object")}]

MCInit ==
    /\ part \in {"run", "stream", "encode"}
    /\ Init /\ StreamInit /\ PromptInit
    /\ part # "run" => log = <<>>
    /\ part # "stream" => api = "messages"
    /\ part # "encode" => effort = FALSE

MCNext ==
    \/ part = "run" /\ Next /\ UNCHANGED <<part, streamVars, promptVars>>
    \/ part = "stream" /\ StreamNext /\ UNCHANGED <<part, agentVars, promptVars>>
    \/ part = "encode" /\ Grow /\ UNCHANGED <<part, agentVars, streamVars>>

\* WF_agentVars(Run), written out: Run can happen whenever the agent is not idle,
\* and then is what leaves the flag alone.
RunFairness ==
    []<>(phase = "idle") \/ []<><<phase # "idle" /\ cancel' = cancel>>_agentVars

\* The thread of the agent goes on: a read ends, if only by its timeout.
StreamFairness ==
    WF_mcVars(part = "stream" /\ Adapter /\ UNCHANGED <<part, agentVars, promptVars>>)

MCSpec == MCInit /\ [][MCNext]_mcVars /\ RunFairness /\ StreamFairness

\* Every call of the model, and every turn around it, comes to its end: a run
\* ends, and a call that was cancelled returns although its server may go on
\* with pings for ever.
CallsEnd == RunEnds /\ ((cancelled /\ pc \in {"check", "read"}) ~> pc = "end")
=============================================================================
