----------------------------- MODULE ToolPolicy -----------------------------
(***************************************************************************)
(* What may run (permission/mod.rs, hooks/mod.rs, tools/mod.rs and         *)
(* preflight_tool_call): a call of the model is validated, judged by the   *)
(* rules, shown to the hooks, which may refuse it or change its arguments, *)
(* judged again, and if need be put to the user, whose answer may cover    *)
(* later calls of the session.  ToolBatch takes the verdicts for granted;  *)
(* this module says where they come from, HookPipelines what the hooks say.*)
(*                                                                         *)
(* Arguments are functions from the keys the checks look at to what they   *)
(* find there; CommandRisk says which commands are plain, risky and        *)
(* unclear.  One call is followed at a time: the checks of a turn run one  *)
(* after the other, and commands that change rules, grants or tools run    *)
(* between turns, so a prepared call never meets another registry          *)
(* (the Conflict of execute_prepared).                                     *)
(***************************************************************************)
EXTENDS HookPipelines

CONSTANTS
    RuleSets,  \* the [permissions] tables of the configurations
    Arguments, \* what the model, or a hook, may pass
    Hooks,     \* number of hooks
    Images,    \* lists of images a tool, or a hook, may attach: TRUE for a valid one
    Grants     \* bound: session grants remembered at once

VARIABLES
    rules,   \* PermissionManager.rules
    grants,  \* PermissionManager.session_grants
    tools,   \* names in the registry
    call,    \* the call at hand
    allowed, \* history: calls allowed for the session since it was last cleared
    result   \* what the call just executed came to

vars == <<rules, grants, tools, call, allowed, result>>

Rank == [allow |-> 0, ask |-> 1, deny |-> 2]

-----------------------------------------------------------------------------
(* The declarations of the tools. *)

Spec0 == [reads |-> FALSE, paths |-> {}, command |-> FALSE, always |-> FALSE,
          byName |-> FALSE, strict |-> TRUE, needs |-> {}, takes |-> {}]
ToolSpec == [
    read_file   |-> [Spec0 EXCEPT !.reads = TRUE, !.paths = {"path"}, !.needs = {"path"}, !.takes = {"path"}],
    write_file  |-> [Spec0 EXCEPT !.paths = {"path"}, !.needs = {"path"}, !.takes = {"path"}],
    run_command |-> [Spec0 EXCEPT !.paths = {"cwd"}, !.command = TRUE, !.needs = {"command"}, !.takes = {"command", "cwd"}],
    web_search  |-> [Spec0 EXCEPT !.reads = TRUE, !.always = TRUE, !.needs = {"query"}, !.takes = {"query"}],
    mcp_tool    |-> [Spec0 EXCEPT !.byName = TRUE, !.strict = FALSE],
    mcp_asking  |-> [Spec0 EXCEPT !.byName = TRUE, !.always = TRUE, !.strict = FALSE]]
BuiltIn == {"read_file", "write_file", "run_command"}

\* validate_json_schema on these schemas: strings where strings are due, every
\* required key, no other key.  A remote tool's arguments are the server's affair.
Valid(tool, args) ==
    LET s == ToolSpec[tool] IN
    s.strict => /\ s.needs \subseteq DOMAIN args
                /\ DOMAIN args \subseteq s.takes
                /\ \A k \in DOMAIN args : args[k] # "number"

-----------------------------------------------------------------------------
(* PermissionManager::evaluate. *)

Strictest(found) == CHOOSE r \in found : \A s \in found : Rank[s] <= Rank[r]

PathRule(path) == IF path = "outside" THEN rules.outside ELSE "allow"

\* What governs a call that declares no command.
OwnRule(tool) ==
    LET s == ToolSpec[tool] IN
    CASE s.always -> "allow"
      [] ~s.always /\ ~s.reads /\ s.paths = {} -> "ask"
      [] OTHER -> IF s.reads THEN rules.read ELSE rules.write

\* Mutant: every grant by name.
GrantKeyByName(tool, args) == <<tool>>
GrantKey(tool, args) == IF ToolSpec[tool].byName THEN <<tool>> ELSE <<tool, args>>

Forced(tool, args) ==
    \/ ToolSpec[tool].always
    \/ ToolSpec[tool].command /\ args["command"] \in {"risky", "unclear"}

Evaluate(tool, args) ==
    LET s     == ToolSpec[tool]
        given == s.paths \cap DOMAIN args
        effective == Strictest({IF s.command THEN rules.opaque ELSE OwnRule(tool)}
                               \cup {PathRule(args[k]) : k \in given})
    IN IF effective = "deny" \/ \E k \in given : args[k] \in {"number", "device"} THEN "deny"
       ELSE IF Forced(tool, args) THEN "ask once"
       ELSE IF effective = "ask" /\ GrantKey(tool, args) \in grants THEN "allow"
       ELSE effective

-----------------------------------------------------------------------------
(* What a hook before a tool may answer, and what is left of an outcome. *)

HookResult == {[kind |-> k, args |-> <<>>] : k \in {"continue", "block", "open", "closed"}}
                \cup {[kind |-> "replace", args |-> a] : a \in Arguments}

MaxImages == 4
\* The valid ones among some images.
Usable(images) ==
    LET upTo[i \in 0..Len(images)] ==
          IF i = 0 THEN <<>>
          ELSE IF images[i] THEN Append(upTo[i - 1], images[i]) ELSE upTo[i - 1]
    IN upTo[Len(images)]

\* normalize_outcome: an error has no images; of the first four the valid ones stay.
Normalize(outcome) ==
    LET first == SubSeq(outcome.images, 1, IF Len(outcome.images) < MaxImages
                                           THEN Len(outcome.images) ELSE MaxImages)
        kept  == Usable(first)
    IN IF outcome.error
       THEN [outcome EXCEPT !.images = <<>>, !.omitted = 0]
       ELSE [outcome EXCEPT !.images = kept, !.omitted = @ + Len(outcome.images) - Len(kept)]

-----------------------------------------------------------------------------
NoCall   == [stage |-> "none"]
NoResult == [stop |-> 0]

Init ==
    /\ rules \in RuleSets
    /\ grants = {} /\ allowed = {}
    /\ tools \in {BuiltIn, BuiltIn \cup {"web_search", "mcp_tool", "mcp_asking"}}
    /\ call = NoCall /\ result = NoResult

\* preflight_tool_call: what it lets through, asked for or not.
Passes(tool, args) == Valid(tool, args) /\ Evaluate(tool, args) # "deny"

\* The arguments the second look judges and the tool gets.
Rewritten(results, given) == PreTool(results, given).arguments

Preflight(tool, given, results) ==
    /\ call = NoCall /\ tool \in tools
    /\ Passes(tool, given)
    /\ ~PreTool(results, given).block
    /\ LET args == Rewritten(results, given)
           verdict == Evaluate(tool, args)
       IN /\ Valid(tool, args) /\ verdict # "deny"
          /\ call' = [stage  |-> IF verdict = "allow" THEN "ready" ELSE "asked",
                      tool   |-> tool, given |-> given, args |-> args,
                      scopes |-> IF verdict = "ask once" THEN {"once"} ELSE {"once", "session"},
                      answer |-> "none"]
    /\ UNCHANGED <<rules, grants, tools, allowed, result>>

\* request_approval: a scope that was not offered is a refusal.
Answer(reply) ==
    /\ call.stage = "asked"
    /\ IF reply \in call.scopes
       THEN /\ call' = [call EXCEPT !.stage = "ready", !.answer = reply]
            /\ reply = "session" => Cardinality(grants) < Grants
            /\ grants' = IF reply = "session" THEN grants \cup {GrantKey(call.tool, call.args)} ELSE grants
            /\ allowed' = IF reply = "session" THEN allowed \cup {<<call.tool, call.args>>} ELSE allowed
       ELSE call' = NoCall /\ UNCHANGED <<grants, allowed>>
    /\ UNCHANGED <<rules, tools, result>>

\* execute_prepared, then the post hooks.
Execute(outcome, results) ==
    /\ call.stage = "ready"
    /\ LET post == PostTool(results, Normalize(outcome)) IN
       result' = [raw |-> outcome, hooks |-> results,
                  final |-> Normalize(post.outcome), stop |-> post.stop]
    /\ call' = [stage |-> "done"]
    /\ UNCHANGED <<rules, grants, tools, allowed>>

\* The result is committed, and the turn goes on or stops.
Commit ==
    /\ call.stage = "done"
    /\ call' = NoCall /\ result' = NoResult
    /\ UNCHANGED <<rules, grants, tools, allowed>>

\* clear and load of a session (commands.rs)
ForgetSession ==
    /\ call = NoCall
    /\ grants' = {} /\ allowed' = {}
    /\ UNCHANGED <<rules, tools, call, result>>

\* A reload that succeeds: a new manager, the registry built anew; then the MCP
\* servers that start add theirs.
Reload(newRules, newTools) ==
    /\ call = NoCall
    /\ rules' = newRules /\ grants' = {} /\ allowed' = {}
    /\ tools' = newTools
    /\ UNCHANGED <<call, result>>

\* select_model: replace_web_search.
SelectModel ==
    /\ call = NoCall
    /\ tools' \in {tools \cup {"web_search"}, tools \ {"web_search"}}
    /\ UNCHANGED <<rules, grants, call, allowed, result>>

Outcome == {[error |-> e, images |-> im, effect |-> f, omitted |-> 0] :
              e \in BOOLEAN, im \in Images, f \in BOOLEAN}
PostResult == {[kind |-> k, images |-> <<>>] : k \in {"continue", "stop", "open", "closed"}}
                \cup {[kind |-> k, images |-> im] : k \in {"ok", "error"}, im \in Images}

Next ==
    \/ \E tool \in DOMAIN ToolSpec, given \in Arguments, results \in [1..Hooks -> HookResult] :
          Preflight(tool, given, results)
    \/ \E reply \in {"once", "session", "deny"} : Answer(reply)
    \/ \E outcome \in Outcome, results \in [1..Hooks -> PostResult] : Execute(outcome, results)
    \/ Commit \/ ForgetSession
    \/ \E newRules \in RuleSets, extra \in {{}, {"mcp_tool", "mcp_asking"}} :
          Reload(newRules, BuiltIn \cup extra)
    \/ SelectModel

Spec == Init /\ [][Next]_vars

-----------------------------------------------------------------------------
(* Properties. *)

\* The rules that speak of a call, as the documentation of [permissions] lists
\* them: one per path outside, that of its kind, and no answer to an effect
\* nobody declared.
Governing(tool, args) ==
    LET s == ToolSpec[tool] IN
      {rules.outside : k \in {p \in s.paths \cap DOMAIN args : args[p] = "outside"}}
      \cup (IF s.command THEN {rules.opaque} ELSE {})
      \cup (IF ~s.command /\ ~s.always /\ s.reads THEN {rules.read} ELSE {})
      \cup (IF ~s.command /\ ~s.always /\ ~s.reads /\ s.paths # {} THEN {rules.write} ELSE {})
      \cup (IF ~s.command /\ ~s.always /\ ~s.reads /\ s.paths = {} THEN {"ask"} ELSE {})
Denied(tool, args) ==
    "deny" \in Governing(tool, args) \/ \E k \in ToolSpec[tool].paths \cap DOMAIN args : args[k] = "device"

\* An earlier call is equal or, for a remote tool, of the same name.
Alike(other, tool, args) == other[1] = tool /\ (ToolSpec[tool].byName \/ other[2] = args)

\* No rewriting by a hook and no earlier grant gets a call past the rules: what
\* is about to run, and what the model asked for before the hooks, are both
\* allowed by every rule that speaks of them; a call the tool or its command
\* says must be asked about was answered itself; and a call a rule says to ask
\* about was answered itself, or an equal one (or, for a remote tool, one of
\* the same name) was allowed for this session.
RunsAsAllowed ==
    call.stage = "ready" =>
        /\ Valid(call.tool, call.args)
        /\ ~Denied(call.tool, call.args) /\ ~Denied(call.tool, call.given)
        /\ Forced(call.tool, call.args) => call.answer = "once"
        /\ "ask" \in Governing(call.tool, call.args) /\ call.answer = "none" =>
             \E other \in allowed : Alike(other, call.tool, call.args)

\* However the post hooks rewrite an observation, the effect of the tool is
\* neither forged nor lost, an error carries no image, at most four valid images
\* reach the model and every other one is accounted for; the run stops exactly
\* if some hook said so or failed closed.
ObservationSound ==
    call.stage = "done" =>
        LET f == result.final IN
        /\ f.effect = result.raw.effect
        /\ f.error => f.images = <<>>
        /\ Len(f.images) <= MaxImages /\ \A i \in DOMAIN f.images : f.images[i]
        /\ ~f.error /\ (\A i \in DOMAIN result.hooks : result.hooks[i].kind \notin {"ok", "error"})
             => f.omitted + Len(f.images) = Len(result.raw.images)
        /\ (result.stop # 0) <=> \E i \in DOMAIN result.hooks : result.hooks[i].kind \in {"stop", "closed"}

PolicySound == RunsAsAllowed /\ ObservationSound
=============================================================================
