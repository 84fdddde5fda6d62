---------------------------- MODULE Configuration ----------------------------
(***************************************************************************)
(* The configuration file as the program reads it (config.rs, web.rs): it  *)
(* accepts or refuses the file as a whole, gives it a meaning, and         *)
(* resolves a selected model against the environment.                      *)
(*                                                                         *)
(* A document is what the TOML parser yields.  Absent stands for a key     *)
(* that is not there.  Left out are the fields copied without a look (base *)
(* URLs beyond their scheme, arguments, working directories, location and  *)
(* domains of a search, prompts) and the refusal of unknown keys, which    *)
(* keeps them out of every document considered here.  Delays are in steps: *)
(* 1 stands for the default first delay, 2 for the default longest one.    *)
(***************************************************************************)
EXTENDS Naturals, Sequences, FiniteSets

CONSTANT Absent  \* a key that is not in the file, a variable that is not set

OrElse(v, default) == IF v = Absent THEN default ELSE v
IsIn(v, s) == \E i \in DOMAIN s : s[i] = v
NoRepeats(s) == \A i, j \in DOMAIN s : s[i] = s[j] => i = j

-----------------------------------------------------------------------------
(* Providers and their models.                                             *)

DefaultProfile(api) == IF api = "messages" THEN "anthropic" ELSE "openai"
Profile(p) == OrElse(p.profile, DefaultProfile(p.api))

ProfileFits(p) ==
  <<p.api, Profile(p)>> \in {<<"messages", "anthropic">>, <<"messages", "deepseek-messages">>,
                             <<"responses", "openai">>, <<"responses", "deepseek-responses">>}

\* Absent for the profiles that take no reasoning effort.
StandardEfforts(profile) ==
  CASE profile = "openai" -> <<"none", "minimal", "low", "medium", "high", "xhigh", "max">>
    [] profile = "anthropic" -> <<"low", "medium", "high", "xhigh", "max">>
    [] OTHER -> Absent

DefaultKeyEnv(api) == IF api = "messages" THEN "ANTHROPIC_API_KEY" ELSE "OPENAI_API_KEY"

LimitsHold(window, max) ==
  /\ window # 0
  /\ max # 0
  /\ (window # Absent /\ max # Absent) => max <= window

\* normalize_model_reasoning: what a request may send, or <<>> for nothing.
Efforts(profile, efforts) ==
  IF StandardEfforts(profile) = Absent THEN <<>>
  ELSE OrElse(efforts, StandardEfforts(profile))

DefaultEffort(efforts, default) ==
  IF efforts = <<>> THEN "medium"
  ELSE IF default # Absent THEN default
  ELSE IF IsIn("medium", efforts) THEN "medium" ELSE efforts[1]

ReasoningHolds(profile, efforts, default) ==
  /\ StandardEfforts(profile) = Absent => efforts = Absent /\ default = Absent
  /\ Efforts(profile, efforts) = <<>> => default = Absent
  /\ NoRepeats(Efforts(profile, efforts))
  /\ ~IsIn("", Efforts(profile, efforts))
  /\ Efforts(profile, efforts) # <<>> =>
       IsIn(DefaultEffort(Efforts(profile, efforts), default), Efforts(profile, efforts))

UsesNewFormat(p) == p.default_model # Absent \/ DOMAIN p.models # {}
UsesLegacyFormat(p) == \E f \in {"model", "max_tokens", "context_window"} : p[f] # Absent

\* A section of the new format must give every model a window: serde refuses
\* the file without one.
ProviderHolds(p) ==
  /\ p.url # "h"
  /\ p.api_key = Absent \/ p.api_key_env = Absent
  /\ p.api_key_env # ""
  /\ p.api \in {"messages", "responses"}
  /\ ProfileFits(p)
  /\ ~(UsesNewFormat(p) /\ UsesLegacyFormat(p))
  /\ IF UsesNewFormat(p)
       THEN /\ p.default_model \in DOMAIN p.models
            /\ \A m \in DOMAIN p.models :
                 /\ p.models[m].context_window # Absent
                 /\ LimitsHold(p.models[m].context_window, p.models[m].max_tokens)
                 /\ ReasoningHolds(Profile(p), p.models[m].efforts, p.models[m].default_effort)
       ELSE /\ p.model # Absent
            /\ LimitsHold(p.context_window, p.max_tokens)

Model(profile, window, max, efforts, default) ==
  [context_window |-> window, max_tokens |-> max, efforts |-> Efforts(profile, efforts),
   default_effort |-> DefaultEffort(Efforts(profile, efforts), default)]

\* normalize_provider.
Provider(p) ==
  [api |-> p.api, profile |-> Profile(p), url |-> p.url,
   api_key |-> p.api_key, api_key_env |-> p.api_key_env,
   default_model |-> IF UsesNewFormat(p) THEN p.default_model ELSE p.model,
   models |->
     IF UsesNewFormat(p)
       THEN [m \in DOMAIN p.models |->
               Model(Profile(p), p.models[m].context_window, p.models[m].max_tokens,
                     p.models[m].efforts, p.models[m].default_effort)]
       ELSE [m \in {p.model} |->
               Model(Profile(p), p.context_window, p.max_tokens, Absent, Absent)]]

-----------------------------------------------------------------------------
(* Web search and MCP servers.                                             *)

Kind(name) == IF name = "brave-search" THEN "brave" ELSE name
Kinds == {"tavily", "brave", "exa", "serper"}
StandardEnv(kind) ==
  CASE kind = "tavily" -> "TAVILY_API_KEY" [] kind = "brave" -> "BRAVE_SEARCH_API_KEY"
    [] kind = "exa" -> "EXA_API_KEY" [] kind = "serper" -> "SERPER_API_KEY"

BackendKinds(web) == [i \in DOMAIN web.external_backends |-> Kind(web.external_backends[i])]

WebHolds(web) ==
  /\ OrElse(web.mode, "auto") \in {"auto", "native", "external", "disabled"}
  /\ \A i \in DOMAIN web.external_backends : Kind(web.external_backends[i]) \in Kinds
  /\ NoRepeats(BackendKinds(web))
  /\ \A b \in DOMAIN web.backends :
       /\ Kind(b) \in Kinds
       /\ web.backends[b].api_key = Absent \/ web.backends[b].api_key_env = Absent
       /\ web.backends[b].api_key_env # ""
       /\ \A other \in DOMAIN web.backends : Kind(other) = Kind(b) => other = b

Web(web) ==
  [mode |-> OrElse(web.mode, "auto"),
   external_backends |-> BackendKinds(web),
   auth |-> [k \in {Kind(b) : b \in DOMAIN web.backends} |->
               web.backends[CHOOSE b \in DOMAIN web.backends : Kind(b) = k]]]

Trimmed(name) == IF name = "files " THEN "files" ELSE name

McpHolds(servers) ==
  /\ NoRepeats([i \in DOMAIN servers |-> Trimmed(servers[i].name)])
  /\ \A i \in DOMAIN servers :
       /\ Trimmed(servers[i].name) \in {"files", "notes"}
       /\ servers[i].command # ""
       /\ servers[i].startup_timeout_ms # 0
       /\ servers[i].call_timeout_ms # 0

Mcp(servers) ==
  [i \in DOMAIN servers |->
     [name |-> Trimmed(servers[i].name), command |-> servers[i].command,
      enabled |-> OrElse(servers[i].enabled, TRUE),
      startup_timeout_ms |-> OrElse(servers[i].startup_timeout_ms, 30),
      call_timeout_ms |-> OrElse(servers[i].call_timeout_ms, 60),
      always_ask |-> OrElse(servers[i].always_ask, FALSE),
      include_tools |-> servers[i].include_tools]]

-----------------------------------------------------------------------------
(* The plain settings: retry, compaction, permissions, agent.              *)

Settings(s) ==
  [shell |-> OrElse(s.shell, "auto"), max_turns |-> OrElse(s.max_turns, 200),
   tool_timeout_secs |-> IF s.tool_timeout_secs = 0 THEN Absent ELSE s.tool_timeout_secs,
   commands |-> OrElse(s.commands, "ask"),
   max_attempts |-> OrElse(s.max_attempts, 8), base_delay_ms |-> OrElse(s.base_delay_ms, 1),
   max_delay_ms |-> OrElse(s.max_delay_ms, 2),
   reserve_tokens |-> OrElse(s.reserve_tokens, 16384)]

SettingsHold(s) ==
  LET t == Settings(s) IN
  /\ t.shell \in {"auto", "gitbash", "powershell", "cmd"}
  /\ t.commands \in {"allow", "ask", "deny"}
  /\ \A f \in {"max_turns", "max_attempts", "base_delay_ms", "reserve_tokens"} : t[f] # 0
  /\ t.max_delay_ms >= t.base_delay_ms

\* Config::load: the whole file or an error.
Accepts(d) ==
  /\ d.provider \in DOMAIN d.providers
  /\ SettingsHold(d.settings)
  /\ \A n \in DOMAIN d.providers : ProviderHolds(d.providers[n])
  /\ WebHolds(d.web)
  /\ McpHolds(d.mcp_servers)

Meaning(d) ==
  [provider |-> d.provider, settings |-> Settings(d.settings),
   providers |-> [n \in DOMAIN d.providers |-> Provider(d.providers[n])],
   web |-> Web(d.web), mcp_servers |-> Mcp(d.mcp_servers)]
-----------------------------------------------------------------------------
(* What the program does with an accepted file.                            *)

DefaultSelection(c, provider) ==
  LET m == c.providers[provider].default_model IN
  [provider |-> provider, model |-> m,
   effort |-> c.providers[provider].models[m].default_effort]

\* The efforts the catalogue offers for a model; "medium" alone, never sent,
\* when the model takes none.
Offered(m) == IF m.efforts = <<>> THEN {"medium"} ELSE {m.efforts[i] : i \in DOMAIN m.efforts}

SelectionHolds(c, sel) ==
  /\ sel.provider \in DOMAIN c.providers
  /\ sel.model \in DOMAIN c.providers[sel.provider].models
  /\ sel.effort \in Offered(c.providers[sel.provider].models[sel.model])

\* The key of a provider, or Absent when there is none; "" sends no header.
ApiKey(p, keys) ==
  IF p.api_key # Absent THEN p.api_key ELSE keys[OrElse(p.api_key_env, DefaultKeyEnv(p.api))]

\* A key in the file decides, an empty one against the backend; a variable
\* counts when it is not empty.
Credential(web, kind, keys) ==
  LET auth == IF kind \in DOMAIN web.auth THEN web.auth[kind]
              ELSE [api_key |-> Absent, api_key_env |-> Absent]
      found == OrElse(auth.api_key, keys[OrElse(auth.api_key_env, StandardEnv(kind))])
  IN  IF found = "" THEN Absent ELSE found

NeedsExternal(web, profile) ==
  \/ web.mode = "external"
  \/ web.mode = "auto" /\ profile # "openai"

\* The first backend of the list that has a credential.
ExternalBackend(web, keys) ==
  LET able == {i \in DOMAIN web.external_backends :
                 Credential(web, web.external_backends[i], keys) # Absent}
  IN  IF able = {} THEN Absent
      ELSE web.external_backends[CHOOSE i \in able : \A j \in able : i <= j]

WebBinding(web, profile, keys) ==
  CASE web.mode = "disabled" -> "disabled"
    [] web.mode \in {"auto", "native"} /\ profile = "openai" -> "openai"
    [] web.mode = "native" /\ profile # "openai" -> "disabled"
    [] NeedsExternal(web, profile) -> OrElse(ExternalBackend(web, keys), "disabled")

Resolves(c, sel, keys) ==
  /\ SelectionHolds(c, sel)
  /\ ApiKey(c.providers[sel.provider], keys) # Absent
  /\ c.web.mode = "external" => ExternalBackend(c.web, keys) # Absent

Resolved(c, sel, keys) ==
  LET p == c.providers[sel.provider]
      m == p.models[sel.model] IN
  [api |-> p.api, profile |-> p.profile, url |-> p.url, api_key |-> ApiKey(p, keys),
   model |-> sel.model, max_tokens |-> m.max_tokens, context_window |-> m.context_window,
   effort |-> IF m.efforts = <<>> THEN Absent ELSE sel.effort,
   web |-> WebBinding(c.web, p.profile, keys)]
=============================================================================
