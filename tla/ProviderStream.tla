--------------------------- MODULE ProviderStream ---------------------------
(***************************************************************************)
(* One streamed answer of a model (provider/mod.rs, sse.rs, anthropic.rs,  *)
(* openai_responses.rs): the server sends items piece by piece as events   *)
(* of three lines, the connection may break between any two lines or       *)
(* within one, and the adapter puts the items together and says how the    *)
(* call ended.                                                             *)
(*                                                                         *)
(* Both adapters are here: api says which.  The text of an item is the     *)
(* number of its pieces received so far; the arguments of a call parse     *)
(* when all pieces are there, and an empty text parses as no arguments.    *)
(* Token counts, citations and the fingerprint of the prompt are left out. *)
(***************************************************************************)
EXTENDS Naturals, Sequences, FiniteSets

CONSTANTS
    Items,  \* bound: items of the answer
    Pieces  \* bound: pieces of an item

ASSUME StreamAssumption == Items \in Nat /\ Pieces \in Nat

VARIABLES
    api,     \* "messages" or "responses"
    item,    \* the items the server has started
    ended,   \* how the server ended the answer, "no" before
    wire,    \* the event being transferred, and how much of it was read
    pc,      \* where stream_turn_impl stands
    partials, blocks, stop, \* its locals
    shownPieces, \* history: the pieces given to on_event
    cancelled, \* the cancel flag
    result   \* how the call ended, "none" before

serverVars  == <<item, ended>>
adapterVars == <<partials, blocks, stop, shownPieces, result>>
streamVars == <<api, serverVars, wire, pc, adapterVars, cancelled>>

Kind == {"text", "thinking", "tool"}
Idle == [at |-> "between"]

StreamInit ==
    /\ api \in {"messages", "responses"}
    /\ item = <<>> /\ ended = "no" /\ wire = Idle
    /\ pc = "connect"
    /\ partials = [i \in {} |-> 0] /\ blocks = <<>> /\ stop = "none" /\ shownPieces = <<>>
    /\ cancelled = FALSE /\ result = "none"

-----------------------------------------------------------------------------
(* post_sse: a status outside 2xx, or no connection. *)

Retryable(status) == status \in {408, 429} \/ status >= 500

Connect(status) ==
    /\ pc = "connect"
    /\ IF status = 200 THEN pc' = "check" /\ UNCHANGED result
       ELSE pc' = "end" /\ result' = IF Retryable(status) THEN "retryable" ELSE "fatal"
    /\ UNCHANGED <<api, serverVars, wire, partials, blocks, stop, shownPieces, cancelled>>

-----------------------------------------------------------------------------
(* The server.  An answer ends with "end", at the token limit with "max", or *)
(* in a failure; some servers end a reasoning item with its text only, and   *)
(* proxies may put [DONE] where the answer breaks off.                       *)

CutOff(i) == item[i].sent < item[i].total
OpenItems == {i \in DOMAIN item : item[i].open}
Sends(event) == ended = "no" /\ pc = "read" /\ wire = Idle
                /\ wire' = [at |-> "named", event |-> event]
                /\ UNCHANGED <<api, pc, adapterVars, cancelled>>

StartItem(kind, total) ==
    /\ Len(item) < Items /\ stop = "none"
    /\ \A i \in DOMAIN item : item[i].open \/ ~CutOff(i)
    /\ \A i \in OpenItems : api = "responses" /\ item[i].kind = "thinking" /\ item[i].sent = item[i].total
    /\ item' = Append(item, [kind |-> kind, total |-> total, sent |-> 0, open |-> TRUE])
    /\ Sends([t |-> "start", i |-> Len(item) + 1, kind |-> kind])
    /\ UNCHANGED ended

SendPiece(i) ==
    /\ i \in OpenItems /\ item[i].sent < item[i].total
    /\ item' = [item EXCEPT ![i].sent = @ + 1]
    /\ Sends([t |-> "delta", i |-> i, kind |-> item[i].kind])
    /\ UNCHANGED ended

\* An item stops before its end only at the token limit.
StopItem(i) ==
    /\ i \in OpenItems
    /\ item' = [item EXCEPT ![i].open = FALSE]
    /\ Sends([t |-> "stop", i |-> i, kind |-> item[i].kind, sent |-> item[i].sent])
    /\ UNCHANGED ended

\* DeepSeek: reasoning_text.done, the item stays open.
TellReasoning(i) ==
    /\ api = "responses" /\ i \in OpenItems /\ item[i].kind = "thinking" /\ item[i].sent = item[i].total
    /\ Sends([t |-> "told", i |-> i, sent |-> item[i].sent])
    /\ UNCHANGED serverVars

Calls   == \E i \in DOMAIN item : item[i].kind = "tool"
Reason  == IF \E i \in DOMAIN item : CutOff(i) THEN "MaxTokens"
           ELSE IF Calls THEN "ToolUse" ELSE "EndTurn"
MayEnd  ==
    /\ \A i \in DOMAIN item : ~item[i].open \/ (api = "responses" /\ item[i].kind = "thinking" /\ ~CutOff(i))
                              \/ (api = "responses" /\ CutOff(i))

\* message_delta with the stop reason, sent before message_stop.
TellReason ==
    /\ api = "messages" /\ stop = "none" /\ MayEnd /\ item # <<>>
    /\ Sends([t |-> "reason", reason |-> Reason])
    /\ UNCHANGED serverVars

EndAnswer ==
    /\ MayEnd /\ item # <<>>
    /\ api = "messages" => stop = Reason
    /\ Sends([t |-> IF api = "responses" /\ Reason = "MaxTokens" THEN "max" ELSE "end"])
    /\ ended' = Reason
    /\ UNCHANGED item

\* error, response.failed, response.incomplete for another reason; [DONE]; a ping.
Trouble(t) ==
    /\ t = "other" => api = "responses"
    /\ Sends([t |-> t])
    /\ ended' = IF t = "ping" THEN "no" ELSE "trouble"
    /\ UNCHANGED item

Server ==
    \/ \E kind \in Kind, total \in 0..Pieces : StartItem(kind, total)
    \/ \E i \in DOMAIN item : SendPiece(i) \/ StopItem(i) \/ TellReasoning(i)
    \/ TellReason
    \/ EndAnswer
    \/ \E t \in {"error", "other", "[DONE]", "ping"} : Trouble(t)

-----------------------------------------------------------------------------
(* The adapters. *)

Put(f, i, x) == [j \in DOMAIN f \cup {i} |-> IF j = i THEN x ELSE f[j]]
Without(f, i) == [j \in DOMAIN f \ {i} |-> f[j]]

\* parse_args: "object" when the text parses, "raw" when it does not.
Parsed(i, sent) == IF sent \in {0, item[i].total} THEN "object" ELSE "raw"
Block(i, kind, sent) == [i |-> i, kind |-> kind, sent |-> sent,
                         input |-> IF kind = "tool" THEN Parsed(i, sent) ELSE "none"]

\* on_event tells of text and of reasoning, whatever became of the item.
Piece(e) == IF e.kind = "tool" THEN shownPieces ELSE Append(shownPieces, e.i)

\* What stays open at the end is taken over in the order of the indices; the
\* Responses adapter leaves out what is empty.
Collected ==
    LET kept == {i \in DOMAIN partials : api = "messages" \/ partials[i].kind = "tool" \/ partials[i].sent > 0}
        Nth(n) == CHOOSE i \in kept : Cardinality({j \in kept : j < i}) = n - 1
    IN blocks \o [n \in 1..Cardinality(kept) |-> Block(Nth(n), partials[Nth(n)].kind, partials[Nth(n)].sent)]

HasCalls(bs) == \E n \in DOMAIN bs : bs[n].kind = "tool"

Continue == pc' = "check" /\ UNCHANGED result
Return(r) == pc' = "end" /\ result' = r

OnStart(e) ==
    /\ partials' = Put(partials, e.i, [kind |-> e.kind, sent |-> 0])
    /\ Continue /\ UNCHANGED <<blocks, stop, shownPieces>>

OnDelta(e) ==
    /\ partials' = IF e.i \in DOMAIN partials THEN [partials EXCEPT ![e.i].sent = @ + 1] ELSE partials
    /\ shownPieces' = Piece(e)
    /\ Continue /\ UNCHANGED <<blocks, stop>>

\* The text that ends a reasoning item is taken if it is not there yet.
OnTold(e) ==
    /\ partials' = IF e.i \in DOMAIN partials THEN [partials EXCEPT ![e.i].sent = e.sent] ELSE partials
    /\ Continue /\ UNCHANGED <<blocks, stop, shownPieces>>

\* Messages: the pieces put together; Responses: the item sent with the event.
OnStop(e) ==
    /\ blocks' = CASE api = "messages" /\ e.i \in DOMAIN partials ->
                        Append(blocks, Block(e.i, partials[e.i].kind, partials[e.i].sent))
                   [] api = "responses" /\ (e.kind # "text" \/ e.sent > 0) ->
                        Append(blocks, Block(e.i, e.kind, e.sent))
                   [] OTHER -> blocks
    /\ partials' = Without(partials, e.i)
    /\ Continue /\ UNCHANGED <<stop, shownPieces>>

OnReason(e) ==
    /\ stop' = e.reason
    /\ Continue /\ UNCHANGED <<partials, blocks, shownPieces>>

OnEnd(e) ==
    /\ blocks' = Collected /\ partials' = [i \in {} |-> 0]
    /\ stop' = CASE api = "messages" -> stop
                 [] e.t = "max" -> "MaxTokens"
                 [] OTHER -> IF HasCalls(Collected) THEN "ToolUse" ELSE "EndTurn"
    /\ Return("done") /\ UNCHANGED shownPieces

\* One event of the stream: the match of stream_turn_impl.
Handle(e) ==
    \/ e.t = "start" /\ OnStart(e)
    \/ e.t = "delta" /\ OnDelta(e)
    \/ e.t = "told" /\ OnTold(e)
    \/ e.t = "stop" /\ OnStop(e)
    \/ e.t = "reason" /\ OnReason(e)
    \/ e.t \in {"end", "max"} /\ OnEnd(e)
    \/ e.t \in {"error", "other", "[DONE]", "broken"} /\ Return("fatal") /\ UNCHANGED <<partials, blocks, stop, shownPieces>>
    \/ e.t = "ping" /\ Continue /\ UNCHANGED <<partials, blocks, stop, shownPieces>>

\* The head of the loop.
Check ==
    /\ pc = "check"
    /\ IF cancelled THEN Return("aborted") ELSE pc' = "read" /\ UNCHANGED result
    /\ UNCHANGED <<api, serverVars, wire, partials, blocks, stop, shownPieces, cancelled>>

\* next_event: after the line with the name the line with the data, then the
\* empty line that ends the event.
ReadData ==
    /\ pc = "read" /\ wire.at = "named"
    /\ wire' = [wire EXCEPT !.at = "told"]
    /\ UNCHANGED <<api, serverVars, pc, adapterVars, cancelled>>
ReadEnd ==
    /\ pc = "read" /\ wire.at = "told"
    /\ Handle(wire.event) /\ wire' = Idle
    /\ UNCHANGED <<api, serverVars, cancelled>>

\* The connection closes: half an event is handed over as it is, and while its
\* data is not there, or not all of it, as data that does not parse.
Eof ==
    /\ pc = "read" /\ wire.at \in {"named", "told"}
    /\ Handle(IF wire.at = "told" THEN wire.event ELSE [t |-> "broken"])
    /\ wire' = [at |-> "closed"]
    /\ UNCHANGED <<api, serverVars, cancelled>>
\* Mutant: the end of the connection is taken for the end of the answer.
ClosedAsDone ==
    /\ pc = "read" /\ wire.at \in {"between", "closed"}
    /\ Return("done") /\ blocks' = Collected /\ stop' = "EndTurn"
    /\ wire' = [at |-> "closed"]
    /\ UNCHANGED <<api, serverVars, partials, shownPieces, cancelled>>
Closed ==
    /\ pc = "read" /\ wire.at \in {"between", "closed"}
    /\ Return("retryable")
    /\ wire' = [at |-> "closed"]
    /\ UNCHANGED <<api, serverVars, partials, blocks, stop, shownPieces, cancelled>>
\* A read that fails or times out.
ReadFails ==
    /\ pc = "read" /\ wire.at # "closed"
    /\ Return("retryable")
    /\ UNCHANGED <<api, serverVars, wire, partials, blocks, stop, shownPieces, cancelled>>

Adapter == Check \/ ReadData \/ ReadEnd \/ Eof \/ Closed \/ ReadFails

SetCancel ==
    /\ ~cancelled /\ cancelled' = TRUE
    /\ UNCHANGED <<api, serverVars, wire, pc, adapterVars>>

StreamNext ==
    \/ \E status \in {200, 400, 429, 500} : Connect(status)
    \/ Server \/ Adapter \/ SetCancel

StreamSpec == StreamInit /\ [][StreamNext]_streamVars
-----------------------------------------------------------------------------
(* Properties. *)

Times(i) == Cardinality({n \in DOMAIN shownPieces : shownPieces[n] = i})
BlocksOf(i) == {n \in DOMAIN blocks : blocks[n].i = i}

\* Only an answer the server ended is taken for one: every item it started is
\* there exactly once (an empty one may be missing), with every piece of it,
\* those the user was shown and no other, and the stop reason is the server's.
\* A call whose arguments the token limit cut off never passes for a call with
\* arguments, unless the whole turn is marked as cut off, which keeps the agent
\* from running any of its calls.
AnswerWhole ==
    result = "done" =>
        /\ ended \in {"EndTurn", "ToolUse", "MaxTokens"} /\ stop = ended
        /\ \A i \in DOMAIN item :
              /\ Cardinality(BlocksOf(i)) <= 1
              /\ BlocksOf(i) = {} => item[i].sent = 0 /\ item[i].kind # "tool"
              /\ \A n \in BlocksOf(i) : blocks[n].kind = item[i].kind /\ blocks[n].sent = item[i].sent
              /\ item[i].kind # "tool" => Times(i) = item[i].sent
        /\ \A n \in DOMAIN blocks :
              blocks[n].input = "object" /\ CutOff(blocks[n].i) => stop = "MaxTokens"

\* A call is given up for good only if the server told of trouble or refused the
\* request, or if the connection broke within an event.
FailureSound ==
    result = "fatal" => ended = "trouble" \/ wire.at = "closed" \/ item = <<>>

StreamSound == AnswerWhole /\ FailureSound

\* What ProviderError says of itself: a failure of the network, or of the server
\* while it was still sending, may be tried again.
CutIsRetryable == result = "fatal" => ended = "trouble" \/ item = <<>>
=============================================================================
