---------------------------- MODULE HookPipelines ----------------------------
(***************************************************************************)
(* The pipelines of hooks (hooks/mod.rs): what the answers of the hooks,   *)
(* taken one after the other, come to.  A failing hook is "open" (a        *)
(* warning) or "closed" (a refusal).                                       *)
(***************************************************************************)
EXTENDS Naturals, Sequences, FiniteSets, SequencesExt

\* run_pre_tool: in order, up to the first that blocks.
PreTool(results, given) ==
    FoldLeft(LAMBDA p, r :
        IF p.block THEN p
        ELSE [arguments |-> IF r.kind = "replace" THEN r.args ELSE p.arguments,
              block     |-> r.kind \in {"block", "closed"},
              warnings  |-> p.warnings + IF r.kind = "open" THEN 1 ELSE 0],
        [arguments |-> given, block |-> FALSE, warnings |-> 0], results)

\* run_user_prompt: only user text may be added.
UserPrompt(results) ==
    FoldLeft(LAMBDA p, r :
        IF p.block THEN p
        ELSE [added |-> IF r = "text" THEN p.added + 1 ELSE p.added,
              block |-> r \in {"block", "closed", "illegal"}],
        [added |-> 0, block |-> FALSE], results)

\* run_stop: which hook keeps the agent from stopping, 0 for none.
StopHooks(results) ==
    FoldLeft(LAMBDA p, i : IF p # 0 THEN p
                           ELSE IF results[i] \in {"prevent", "closed"} THEN i ELSE 0,
             0, [i \in DOMAIN results |-> i])

\* run_post_tool: every hook runs; one that replaces the outcome cannot replace
\* the effects; the last hook that says stop is the one reported.
PostTool(results, outcome) ==
    LET after[i \in 0..Len(results)] ==
          IF i = 0 THEN [outcome |-> outcome, stop |-> 0]
          ELSE LET p == after[i - 1] IN
               CASE results[i].kind \in {"ok", "error"} ->
                      [p EXCEPT !.outcome = [error  |-> results[i].kind = "error",
                                             images |-> results[i].images,
                                             effect |-> p.outcome.effect, omitted |-> 0]]
                 [] results[i].kind \in {"stop", "closed"} -> [p EXCEPT !.stop = i]
                 [] OTHER -> p
    IN after[Len(results)]
=============================================================================
