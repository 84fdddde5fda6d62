----------------------------- MODULE MCDocuments -----------------------------
(***************************************************************************)
(* Configuration files and environments for TLC: one section of a plain    *)
(* file at a time takes every shape.                                       *)
(***************************************************************************)
EXTENDS Naturals, Sequences

CONSTANT Absent  \* as in Configuration

EmptyTable == [x \in {} |-> x]
mcModel == [context_window |-> 4, max_tokens |-> Absent, efforts |-> Absent,
            default_effort |-> Absent]
mcModels ==
  {[context_window |-> w, max_tokens |-> 2, efforts |-> e, default_effort |-> d] :
     w \in {Absent, 1, 4}, d \in {Absent, "low", "medium"},
     e \in {Absent, <<>>, <<"low">>, <<"high", "low">>, <<"low", "low">>}}

mcProvider ==
  [form |-> "table", api |-> "messages", profile |-> Absent, url |-> "https://h",
   api_key |-> Absent, api_key_env |-> Absent, default_model |-> "m1",
   models |-> [m \in {"m1"} |-> mcModel],
   model |-> Absent, max_tokens |-> Absent, context_window |-> Absent]

mcOldProvider ==
  [mcProvider EXCEPT !.default_model = Absent, !.models = EmptyTable, !.model = "m1"]

mcWeb == [mode |-> Absent, external_backends |-> <<>>, backends |-> EmptyTable]
mcServer == [name |-> "files", command |-> "run", enabled |-> Absent,
             startup_timeout_ms |-> Absent, call_timeout_ms |-> Absent,
             always_ask |-> Absent, include_tools |-> Absent]
mcSettings ==
  [shell |-> Absent, max_turns |-> Absent, tool_timeout_secs |-> 0, commands |-> Absent,
   max_attempts |-> Absent, base_delay_ms |-> Absent, max_delay_ms |-> Absent,
   reserve_tokens |-> Absent]

mcDocument ==
  [provider |-> "main", settings |-> mcSettings,
   providers |-> [n \in {"main"} |-> mcProvider],
   web |-> mcWeb, mcp_servers |-> <<>>, mcp_form |-> "table"]

\* One section at a time takes every shape.
mcProviders ==
     {[mcProvider EXCEPT !.form = f, !.api = a, !.profile = p, !.api_key = k, !.api_key_env = e] :
        f \in {"table", "inline"}, a \in {"messages", "responses"},
        p \in {Absent, "openai", "anthropic", "deepseek-responses"},
        k \in {Absent, "", "key"}, e \in {Absent, "OTHER_KEY"}}
  \cup {[mcProvider EXCEPT !.profile = p, !.default_model = d, !.models = [m \in {"m1", "m2"} |->
                                                       IF m = "m1" THEN one ELSE mcModel]] :
        p \in {"anthropic", "deepseek-messages"}, d \in {Absent, "m1", "m2"}, one \in mcModels}
  \cup {[mcOldProvider EXCEPT !.model = m, !.max_tokens = t, !.context_window = w,
                              !.default_model = d, !.url = u] :
        m \in {Absent, "m1"}, t \in {Absent, 0, 2}, w \in {Absent, 1, 4},
        d \in {Absent, "m1"}, u \in {"h", "https://h"}}

mcAuths ==
  {[api_key |-> k, api_key_env |-> e] : k \in {Absent, "", "key"}, e \in {Absent, "OTHER_KEY"}}

mcWebs ==
  {[mode |-> m, external_backends |-> x, backends |-> b] :
     m \in {Absent, "native", "external", "disabled"},
     x \in {<<>>, <<"tavily">>, <<"brave", "tavily">>, <<"tavily", "brave-search">>,
            <<"brave", "brave-search">>},
     b \in UNION {[names -> mcAuths] :
                    names \in {{}, {"tavily"}, {"tavily", "brave-search"},
                               {"brave", "brave-search"}}}}

mcServers ==
  {[mcServer EXCEPT !.name = n, !.startup_timeout_ms = t, !.include_tools = i] :
     n \in {"files", "files ", "notes", "No"}, t \in {Absent, 0, 5}, i \in {Absent, <<>>}}

mcDocuments ==
     {[mcDocument EXCEPT !.providers.main = p] : p \in mcProviders}
  \cup {[mcDocument EXCEPT !.web = w, !.providers.main.api = a] :
          w \in mcWebs, a \in {"messages", "responses"}}
  \cup {[mcDocument EXCEPT !.mcp_servers = s, !.mcp_form = f] :
          s \in UNION {[1..n -> mcServers] : n \in 1..2}, f \in {"table", "inline"}}
  \cup {[mcDocument EXCEPT !.settings.base_delay_ms = b, !.settings.max_delay_ms = d,
                           !.settings.shell = s, !.settings.commands = c, !.provider = p] :
          b \in {Absent, 0, 1, 3}, d \in {Absent, 0, 2}, s \in {Absent, "cmd", "fish"},
          c \in {Absent, "deny", "never"}, p \in {"main", "other"}}

mcNames == {"ANTHROPIC_API_KEY", "OPENAI_API_KEY", "TAVILY_API_KEY", "BRAVE_SEARCH_API_KEY",
            "OTHER_KEY"}
mcKeyrings ==
  {[n \in mcNames |-> IF n \in set THEN "set" ELSE IF n \in blank THEN "" ELSE Absent] :
     set \in {{}, {"ANTHROPIC_API_KEY", "TAVILY_API_KEY"},
              mcNames \ {"BRAVE_SEARCH_API_KEY"}},
     blank \in {{}, {"BRAVE_SEARCH_API_KEY", "ANTHROPIC_API_KEY"}}}
=============================================================================
