--------------------------- MODULE PromptEncoding ---------------------------
(***************************************************************************)
(* How the messages of a prompt become a request (build_body of            *)
(* provider/anthropic.rs and provider/openai_responses.rs): which blocks   *)
(* are sent, in which form, and for the Messages API how they are gathered *)
(* into turns that must alternate and must not be empty.                   *)
(* Texts are empty or not, images are counted, identifiers are numbers.    *)
(***************************************************************************)
EXTENDS Naturals, Sequences, FiniteSets, SequencesExt

CONSTANTS
    PromptBlocks,  \* the blocks a message of a role may hold
    MaxBlocks      \* bound of the model: blocks of a prompt

VARIABLES
    prompt,  \* the messages to send
    effort   \* whether an effort is asked for (ReasoningEffortPolicy::Send)

promptVars == <<prompt, effort>>

\* ProviderProfile::capabilities, as far as the encoding asks.
Profile == [
    anthropic |-> [api |-> "messages", images |-> TRUE, replay |-> FALSE],
    openai    |-> [api |-> "responses", images |-> TRUE, replay |-> TRUE],
    deepseekm |-> [api |-> "messages", images |-> FALSE, replay |-> FALSE],
    deepseekr |-> [api |-> "responses", images |-> FALSE, replay |-> FALSE]]

\* text: empty or not; thinking: of whom, with what can be sent back; use and
\* result: which call, with arguments that parsed or the raw text, and images.
TextBlock(empty) == [kind |-> "text", empty |-> empty]
ThinkingBlock(from) == [kind |-> "thinking", from |-> from]
UseBlock(i, input) == [kind |-> "use", id |-> i, input |-> input]
ResultBlock(i, empty, images) == [kind |-> "result", id |-> i, empty |-> empty, images |-> images]

\* The projection keeps results out of answers and everything else but texts out
\* of user messages.
PromptBlock == [
    user      |-> [kind : {"text"}, empty : BOOLEAN]
                    \cup [kind : {"result"}, id : Nat, empty : BOOLEAN, images : Nat],
    assistant |-> [kind : {"text"}, empty : BOOLEAN]
                    \cup [kind : {"thinking"}, from : {"anthropic", "openai"}]
                    \cup [kind : {"use"}, id : Nat, input : {"raw", "object"}]]

ASSUME PromptAssumption == \A role \in DOMAIN PromptBlock : PromptBlocks[role] \subseteq PromptBlock[role]

-----------------------------------------------------------------------------
(* Blocks. *)

\* args_to_object: what is no object is wrapped; args_to_string: sent as it is.
Arguments(p, input) == IF Profile[p].api = "messages" /\ input = "raw" THEN "wrapped" ELSE input

\* The text and the images of a result: images a profile cannot send are
\* mentioned in the text, and images never go without a text.
ResultContent(p, b) ==
    CASE b.images = 0 -> [text |-> IF b.empty THEN "empty" ELSE "given", images |-> 0]
      [] b.images > 0 /\ Profile[p].images ->
           [text |-> IF b.empty THEN "see attached image" ELSE "given", images |-> b.images]
      [] OTHER -> [text |-> "omission noted", images |-> 0]

\* Reasoning goes back only to the adapter it came from, if that takes it
\* (Messages: with a signature and an effort asked for).
Replayed(p, from, asked) ==
    IF Profile[p].api = "messages" THEN from = "anthropic" /\ asked
    ELSE from = "openai" /\ Profile[p].replay

EncodeBlock(p, asked, b) ==
    CASE b.kind = "text" /\ ~b.empty -> <<[kind |-> "text"]>>
      [] b.kind = "thinking" /\ Replayed(p, b.from, asked) -> <<[kind |-> "thinking"]>>
      [] b.kind = "use" -> <<[kind |-> "use", id |-> b.id, input |-> Arguments(p, b.input)]>>
      [] b.kind = "result" -> <<[kind |-> "result", id |-> b.id, content |-> ResultContent(p, b)]>>
      [] OTHER -> <<>>

EncodeBlocks(p, asked, blocks) ==
    FlattenSeq([j \in DOMAIN blocks |-> EncodeBlock(p, asked, blocks[j])])

-----------------------------------------------------------------------------
(* Bodies. *)

Turn(role, content) == [role |-> role, content |-> content]

\* Mutant: a message is never joined to the one before.
JoinedApart(out, role, content) == IF content = <<>> THEN out ELSE Append(out, Turn(role, content))
\* A message with nothing to send is skipped, one of the same role as the last
\* joins it.
Joined(out, role, content) ==
    CASE content = <<>> -> out
      [] content # <<>> /\ out # <<>> /\ out[Len(out)].role = role ->
           [out EXCEPT ![Len(out)].content = @ \o content]
      [] OTHER -> Append(out, Turn(role, content))

MessagesBody(p, asked, ms) ==
    LET upTo[k \in 0..Len(ms)] ==
            IF k = 0 THEN <<>>
            ELSE Joined(upTo[k - 1], ms[k].role, EncodeBlocks(p, asked, ms[k].blocks))
    IN upTo[Len(ms)]

\* Responses: a flat list of items; what a role cannot say is left out.
Sayable(role, b) == IF role = "user" THEN b.kind \in {"text", "result"} ELSE b.kind # "result"
Said(p, asked, m) ==
    FlattenSeq([j \in DOMAIN m.blocks |->
                  IF Sayable(m.role, m.blocks[j]) THEN EncodeBlock(p, asked, m.blocks[j]) ELSE <<>>])
SaidItems(p, asked, m) == [i \in DOMAIN Said(p, asked, m) |-> Turn(m.role, <<Said(p, asked, m)[i]>>)]

ResponsesBody(p, asked, ms) == FlattenSeq([k \in DOMAIN ms |-> SaidItems(p, asked, ms[k])])

Body(p, asked, ms) ==
    IF Profile[p].api = "messages" THEN MessagesBody(p, asked, ms) ELSE ResponsesBody(p, asked, ms)

-----------------------------------------------------------------------------
(* Every prompt there can be. *)

PromptInit == prompt = <<>> /\ effort \in BOOLEAN

\* A block more, in the last message or in a new one.
Grow ==
    /\ Len(FlattenSeq([k \in DOMAIN prompt |-> prompt[k].blocks])) < MaxBlocks
    /\ \E role \in DOMAIN PromptBlock : \E b \in PromptBlocks[role] :
          \/ prompt' = Append(prompt, [role |-> role, blocks |-> <<b>>])
          \/ /\ prompt # <<>> /\ prompt[Len(prompt)].role = role
             /\ prompt' = [prompt EXCEPT ![Len(prompt)].blocks = Append(@, b)]
    /\ UNCHANGED effort

PromptSpec == PromptInit /\ [][Grow]_promptVars

-----------------------------------------------------------------------------
(* Properties. *)

IdsIn(content, kind) == {content[i].id : i \in {j \in DOMAIN content : content[j].kind = kind}}

\* A prompt as the projection hands it over: every answer with uses followed by
\* their results.
InPairs(ms) ==
    \A k \in DOMAIN ms :
       /\ IdsIn(ms[k].blocks, "use") # {} =>
            k < Len(ms) /\ IdsIn(ms[k + 1].blocks, "result") = IdsIn(ms[k].blocks, "use")
       /\ IdsIn(ms[k].blocks, "result") # {} =>
            k > 1 /\ IdsIn(ms[k - 1].blocks, "use") = IdsIn(ms[k].blocks, "result")

\* What is sent, without the turns it is sent in.
Contents(body) == FlattenSeq([k \in DOMAIN body |-> body[k].content])
Sent(p, asked, ms) == FlattenSeq([k \in DOMAIN ms |-> EncodeBlocks(p, asked, ms[k].blocks)])

\* The turns of the Messages API alternate, and a turn with tool uses is followed
\* by the turn with their results.
TurnsSound(body) ==
    \A k \in DOMAIN body :
       /\ k > 1 => body[k].role # body[k - 1].role
       /\ IdsIn(body[k].content, "use") # {} =>
            k < Len(body) /\ IdsIn(body[k].content, "use") \subseteq IdsIn(body[k + 1].content, "result")

\* Arguments are objects where they must be, images go only where they are taken
\* and never without a text.
PieceSound(p, piece) ==
    /\ piece.kind = "use" /\ Profile[p].api = "messages" => piece.input # "raw"
    /\ piece.kind = "result" /\ piece.content.images > 0 =>
         Profile[p].images /\ piece.content.text # "empty"

\* Whatever the prompt, in every profile: skipping and joining lose nothing and
\* reorder nothing, no turn is empty, and each API finds its own rules kept
\* (build_body of both adapters).
EncodingSound ==
    \A p \in DOMAIN Profile :
       LET body == Body(p, effort, prompt) IN
       /\ Contents(body) = Sent(p, effort, prompt)
       /\ \A k \in DOMAIN body :
            /\ body[k].content # <<>>
            /\ \A i \in DOMAIN body[k].content : PieceSound(p, body[k].content[i])
       /\ Profile[p].api = "messages" /\ InPairs(prompt) => TurnsSound(body)
=============================================================================
