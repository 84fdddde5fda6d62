----------------------------- MODULE ConfigEditor -----------------------------
(***************************************************************************)
(* The visual editor of the desktop example (config_edit.rs): it reads the *)
(* configuration file into a form and writes the form back over the text   *)
(* it came from, for a program that reads it at its next start.            *)
(*                                                                         *)
(* `form` says whether a section is a table of its own or an inline table: *)
(* the program does not see the difference, the editor does.  The section  *)
(* of a model is a table of its own in every document considered.          *)
(***************************************************************************)
EXTENDS Configuration

CONSTANTS
  Documents,  \* the documents a user may have written
  Keyrings    \* what the environment may hold

VARIABLES
  doc,   \* the file
  keys   \* the environment of the program

ceVars == <<doc, keys>>

-----------------------------------------------------------------------------
(* get_config_dto and parse_doc.  A section that is no table of its own is *)
(* not seen.                                                               *)

FormModels(p) ==
  IF DOMAIN p.models # {}
    THEN [m \in DOMAIN p.models |-> [p.models[m] EXCEPT !.efforts = OrElse(@, <<>>)]]
  ELSE IF p.model # Absent
    THEN [m \in {p.model} |-> [context_window |-> p.context_window, max_tokens |-> p.max_tokens,
                               efforts |-> <<>>, default_effort |-> Absent]]
  ELSE <<>>

FormProvider(p) ==
  [api |-> p.api, profile |-> p.profile, url |-> p.url, api_key |-> p.api_key,
   api_key_env |-> p.api_key_env, default_model |-> OrElse(p.default_model, p.model),
   models |-> FormModels(p)]

Form(d) ==
  [provider |-> d.provider, settings |-> [d.settings EXCEPT !.shell = OrElse(@, "auto")],
   providers |-> [n \in {x \in DOMAIN d.providers : d.providers[x].form = "table"} |->
                    FormProvider(d.providers[n])],
   web |-> d.web,
   mcp_servers |-> IF d.mcp_form = "table" THEN d.mcp_servers ELSE <<>>]

-----------------------------------------------------------------------------
(* update_config_dto.                                                      *)

\* set_opt_str_in_table: an empty string removes the key, like none.
Text(v) == IF v = "" THEN Absent ELSE v
List(v) == IF v = <<>> THEN Absent ELSE v

SavedModels(models) ==
  [m \in DOMAIN models |-> [models[m] EXCEPT !.efforts = List(@), !.default_effort = Text(@)]]

\* A slip: the keys of the old format stay beside the new ones.
SavedProviderOverOld(f) ==
  [form |-> "table", api |-> f.api, profile |-> Text(f.profile), url |-> f.url,
   api_key |-> Text(f.api_key), api_key_env |-> Text(f.api_key_env),
   default_model |-> Text(f.default_model), models |-> SavedModels(f.models),
   model |-> Text(f.default_model), max_tokens |-> Absent, context_window |-> Absent]

\* The keys of the old format are removed whatever the form holds.
SavedProvider(f) ==
  [form |-> "table", api |-> f.api, profile |-> Text(f.profile), url |-> f.url,
   api_key |-> Text(f.api_key), api_key_env |-> Text(f.api_key_env),
   default_model |-> Text(f.default_model), models |-> SavedModels(f.models),
   model |-> Absent, max_tokens |-> Absent, context_window |-> Absent]

SavedBackend(b) ==
  [api_key |-> Text(b.api_key),
   api_key_env |-> IF Text(b.api_key) # Absent THEN Absent ELSE Text(b.api_key_env)]

SavedWeb(web) ==
  [web EXCEPT !.mode = Text(@),
              !.backends = [b \in DOMAIN @ |-> SavedBackend(@[b])]]

\* The servers that stay keep their place, new ones follow; the form is asked
\* by the exact name, and only the first table of a name is written.  An empty
\* list removes the key in either form; a list that is no array of tables is
\* left alone when the form has servers.
SavedServers(d, servers) ==
  LET In(s, list) == \E i \in DOMAIN list : list[i].name = s.name
      Kept(s) == In(s, servers)
      New(s) == ~In(s, d.mcp_servers)
      kept == SelectSeq(d.mcp_servers, Kept)
      Last(name) ==
        LET all == {i \in DOMAIN servers : servers[i].name = name}
        IN  servers[CHOOSE i \in all : \A j \in all : j <= i]
      Written(i) ==
        IF \E j \in 1..(i - 1) : kept[j].name = kept[i].name THEN kept[i] ELSE Last(kept[i].name)
  IN  IF servers # <<>> /\ d.mcp_form = "inline" THEN d.mcp_servers
      ELSE [i \in DOMAIN kept |-> Written(i)] \o SelectSeq(servers, New)

Saved(d, f) ==
  [provider |-> Text(f.provider),
   settings |-> [f.settings EXCEPT !.shell = Text(@), !.commands = Text(@)],
   providers |-> [n \in DOMAIN f.providers |-> SavedProvider(f.providers[n])],
   web |-> SavedWeb(f.web),
   mcp_servers |-> SavedServers(d, f.mcp_servers),
   mcp_form |-> IF f.mcp_servers = <<>> THEN "table" ELSE d.mcp_form]

-----------------------------------------------------------------------------
TypeOK == {"provider", "settings", "providers", "web", "mcp_servers", "mcp_form"} = DOMAIN doc

Init == doc \in Documents /\ keys \in Keyrings

\* The page is saved as it was opened.
Save == doc' = Saved(doc, Form(doc)) /\ UNCHANGED keys

\* One model is renamed to be the default, a server is switched off, a search
\* key is typed in; the rest is saved as it was opened.
SaveModel(n, m) ==
  /\ n \in DOMAIN Form(doc).providers
  /\ m \in DOMAIN Form(doc).providers[n].models
  /\ doc' = Saved(doc, [Form(doc) EXCEPT !.providers[n].default_model = m])
  /\ UNCHANGED keys

SaveServer(i, on) ==
  /\ i \in DOMAIN Form(doc).mcp_servers
  /\ doc' = Saved(doc, [Form(doc) EXCEPT !.mcp_servers[i].enabled = on])
  /\ UNCHANGED keys

SaveSearchKey(b) ==
  /\ b \in DOMAIN doc.web.backends
  /\ doc' = Saved(doc, [Form(doc) EXCEPT !.web.backends[b].api_key = "typed"])
  /\ UNCHANGED keys

Next ==
  \/ Save
  \/ \E n \in DOMAIN doc.providers : \E m \in {"m1", "m2"} : SaveModel(n, m)
  \/ \E i \in DOMAIN doc.mcp_servers, on \in BOOLEAN : SaveServer(i, on)
  \/ \E b \in DOMAIN doc.web.backends : SaveSearchKey(b)

Spec == Init /\ [][Next]_ceVars

-----------------------------------------------------------------------------
Catalogue(c) ==
  {[provider |-> n, model |-> m, effort |-> e] :
     <<n, m, e>> \in {x \in (DOMAIN c.providers) \X {"m1", "m2"} \X
                            {"none", "minimal", "low", "medium", "high", "xhigh", "max"} :
                        /\ x[2] \in DOMAIN c.providers[x[1]].models
                        /\ x[3] \in Offered(c.providers[x[1]].models[x[2]])}}

\* What an accepted file means for a choice (config.rs, web.rs): the default of
\* every provider is a choice the catalogue offers, and every choice of the
\* catalogue validates.  Whether it resolves is not settled by the file being
\* accepted: it does exactly when its provider has a key and, in mode
\* "external", a listed backend has one that is not empty, so all choices of a
\* provider resolve or none does.  Of one that resolves: a model that takes no
\* effort is sent none and every other is sent the one chosen; search goes to
\* the model's own service exactly when that is OpenAI's and the mode allows
\* it, to a backend only with a non-empty key of that backend and never past
\* an earlier one that has one, and with "external" always to a backend.
LoadSound ==
  LET c == Meaning(doc) IN
  Accepts(doc) =>
    /\ \A n \in DOMAIN c.providers : DefaultSelection(c, n) \in Catalogue(c)
    /\ \A sel \in Catalogue(c) :
         /\ SelectionHolds(c, sel)
         /\ Resolves(c, sel, keys) <=>
              /\ LET p == doc.providers[sel.provider]
                 IN  \/ p.api_key # Absent
                     \/ keys[OrElse(p.api_key_env, DefaultKeyEnv(p.api))] # Absent
              /\ \/ doc.web.mode # "external"
                 \/ \E kind \in {c.web.external_backends[i] :
                                     i \in DOMAIN c.web.external_backends} :
                      Credential(c.web, kind, keys) # Absent
         /\ Resolves(c, sel, keys) =>
              LET r == Resolved(c, sel, keys) IN
              /\ r.effort = Absent <=>
                   \/ r.profile \in {"deepseek-messages", "deepseek-responses"}
                   \/ \E p \in {doc.providers[sel.provider]} :
                        DOMAIN p.models # {} /\ p.models[sel.model].efforts = <<>>
              /\ r.effort # Absent => r.effort = sel.effort
              /\ r.web = "openai" <=> r.profile = "openai" /\ c.web.mode \in {"auto", "native"}
              /\ r.web \in Kinds =>
                   \E i \in DOMAIN c.web.external_backends :
                     /\ c.web.external_backends[i] = r.web
                     /\ Credential(c.web, r.web, keys) \notin {Absent, ""}
                     /\ \A j \in 1..(i - 1) :
                          Credential(c.web, c.web.external_backends[j], keys) = Absent
              /\ c.web.mode = "external" => r.web \in Kinds
    /\ \A i, j \in DOMAIN c.mcp_servers :
         c.mcp_servers[i].name = c.mcp_servers[j].name => i = j

\* What the editor cannot write back: a key that is there to be empty, a list
\* of efforts that is there to be empty, a model of the old format without a
\* window, and sections that are no tables of their own.
HasEmptyKey(d) ==
  \/ \E n \in DOMAIN d.providers : d.providers[n].api_key = ""
  \/ \E b \in DOMAIN d.web.backends : d.web.backends[b].api_key = ""
HasEmptyEfforts(d) ==
  \E n \in DOMAIN d.providers :
    \E m \in DOMAIN d.providers[n].models : d.providers[n].models[m].efforts = <<>>
HasOpenWindow(d) ==
  \E n \in DOMAIN d.providers :
    ~UsesNewFormat(d.providers[n]) /\ d.providers[n].context_window = Absent
HasInline(d) ==
  d.mcp_form = "inline" \/ \E n \in DOMAIN d.providers : d.providers[n].form = "inline"

\* Apart from those, a file the program accepts means the same after it was
\* opened in the editor and saved; and for every file a second save changes
\* nothing any more (config_edit.rs against config.rs).
SaveSound ==
  LET after == Saved(doc, Form(doc)) IN
  /\ (Accepts(doc) /\ ~HasEmptyKey(doc) /\ ~HasEmptyEfforts(doc) /\ ~HasOpenWindow(doc)
        /\ ~HasInline(doc)) =>
       Accepts(after) /\ Meaning(after) = Meaning(doc)
  /\ Saved(after, Form(after)) = after
=============================================================================
