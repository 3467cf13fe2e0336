---------------------------- MODULE Configuring -----------------------------
(***************************************************************************)
(* `opencoat configure llm` and `opencoat configure daemon`                 *)
(* (commands/configure_cmd.py), the two files they keep, daemon.yaml and    *)
(* opencoat.env, and what a starting daemon makes of them                   *)
(* (config/loader.py, the providers of runtime_builder.py).                 *)
(*                                                                         *)
(* A credential is there or it is not, so an environment is the set of its  *)
(* variables.  A model or a base URL is the provider it was chosen for.  A  *)
(* file is read in one step and written in another: nothing locks it in     *)
(* between.                                                                 *)
(***************************************************************************)
CONSTANTS Terminals,  \* where commands run
          Requests,   \* configure commands: name -> provider, mode, what is typed in
          Shell       \* terminal -> the credentials exported in its shell

VARIABLES yaml,     \* ~/.opencoat/daemon.yaml
          envfile,  \* ~/.opencoat/opencoat.env
          draft,    \* terminal -> what its configure command has collected and read
          asked     \* history: what the files were last configured for

confVars == <<yaml, envfile, draft, asked>>

KeyOf == [bai |-> "BAI_API_KEY", openai |-> "OPENAI_API_KEY", anthropic |-> "ANTHROPIC_API_KEY"]
ModelOf == [bai |-> "BAI_MODEL", openai |-> "OPENAI_MODEL", anthropic |-> "ANTHROPIC_MODEL"]
KeyProviders == DOMAIN KeyOf
Providers == KeyProviders \cup {"azure", "auto", "stub"}

\* The slots of the llm block that --mode inline writes secrets into.
InlineSlot == [AZURE_OPENAI_API_KEY |-> "api_key", AZURE_OPENAI_ENDPOINT |-> "endpoint",
               AZURE_OPENAI_DEPLOYMENT |-> "deployment"]
Azure == DOMAIN InlineSlot
Slots == {InlineSlot[v] : v \in Azure}

ApiKeys == {KeyOf[p] : p \in KeyProviders} \cup {"AZURE_OPENAI_API_KEY"}
Secrets == ApiKeys \cup Azure
EnvVars == Secrets \cup {ModelOf[p] : p \in KeyProviders}

Nothing == "none"
LlmBlock == [provider : Providers \cup {Nothing}, inline : SUBSET Slots,
             model : Providers \cup {Nothing}, base_url : Providers \cup {Nothing}]
Yaml == [llm : LlmBlock, stores : {Nothing, "memory", "sqlite"}]
NoYaml == [llm |-> [provider |-> Nothing, inline |-> {}, model |-> Nothing,
                    base_url |-> Nothing], stores |-> Nothing]

Request == [interactive : BOOLEAN, mode : {"env-file", "inline"}, provider : Providers,
            given : SUBSET EnvVars, model : BOOLEAN, base_url : BOOLEAN]

ASSUME ConfiguringAssumption ==
    /\ \A name \in DOMAIN Requests : Requests[name] \in Request
    /\ Shell \in [Terminals -> SUBSET EnvVars]

\* What a configure command that returned 0 was asked for, and whether the credential it
\* accepted reaches the two files.
Promise == [provider : Providers, model : Providers \cup {Nothing}, backed : BOOLEAN]
NoPromise == [provider |-> Nothing, model |-> Nothing, backed |-> FALSE]
NoDraft == [llm |-> NoYaml.llm, updates |-> {}, yaml |-> NoYaml, env |-> {},
            promise |-> NoPromise, alone |-> FALSE]

ConfTypeOK ==
    /\ yaml \in Yaml
    /\ envfile \subseteq EnvVars
    /\ draft \in [Terminals -> [llm : LlmBlock, updates : SUBSET EnvVars, yaml : Yaml,
                                env : SUBSET EnvVars, promise : Promise \cup {NoPromise},
                                alone : BOOLEAN]]
    /\ asked \in Promise \cup {NoPromise}

ConfInit ==
    /\ yaml = NoYaml /\ envfile = {}
    /\ draft = [t \in Terminals |-> NoDraft]
    /\ asked = NoPromise

-----------------------------------------------------------------------------
(* Collecting a request: what is on file counts where nothing new is given. *)
env_key(v, shell) ==
    \/ v \in envfile \cup shell
    \/ /\ "api_key" \in yaml.llm.inline
       /\ \/ yaml.llm.provider = "auto" /\ v \in ApiKeys
          \/ yaml.llm.provider \in KeyProviders /\ v = KeyOf[yaml.llm.provider]
          \/ yaml.llm.provider = "azure" /\ v = "AZURE_OPENAI_API_KEY"

azure_credential_parts(updates, shell) ==
    {v \in Azure : \/ v \in updates \cup envfile \cup shell
                   \/ InlineSlot[v] \in yaml.llm.inline \ {"api_key"}
                   \/ v = "AZURE_OPENAI_API_KEY" /\ env_key(v, shell)}

HasKey(p, known, shell) == KeyOf[p] \in known \/ env_key(KeyOf[p], shell)

HasCredentials(known, shell) ==
    \/ \E p \in KeyProviders : HasKey(p, known, shell)
    \/ azure_credential_parts(known, shell) = Azure

\* The flags of --non-interactive; a credential that is not given defaults to the shell's.
Flags(r, shell) == r.given \cup (shell \cap Secrets)

collect_non_interactive(r, shell) ==
    LET flags == Flags(r, shell)
        accepted == CASE r.provider = "stub" -> TRUE
                      [] r.provider = "azure" -> Azure \subseteq flags
                      [] r.provider = "auto" -> r.mode = "env-file" /\ HasCredentials(flags, shell)
                      [] OTHER -> HasKey(r.provider, flags, shell)
        embedded == CASE r.mode = "env-file" \/ r.provider = "stub" -> {}
                      [] r.provider = "azure" -> Slots
                      [] OTHER -> {"api_key"}
    IN  [accepted |-> accepted,
         updates |-> IF r.mode = "inline" \/ r.provider = "stub" THEN {} ELSE flags,
         llm |-> [provider |-> r.provider, inline |-> embedded,
                  model |-> IF r.model /\ r.provider # "stub" THEN r.provider ELSE Nothing,
                  base_url |-> IF r.base_url /\ r.provider \in KeyProviders THEN r.provider
                               ELSE Nothing]]

\* Mutant of KeepsBai: a kept key stays where it was.
NeverKeepsBai(r, shell) == FALSE

\* The prompts of the wizard.  An empty answer keeps what there is; a B.AI key that was
\* kept is also put on file for a daemon that will not see this shell ...
Asks(r, p) == r.provider \in {"auto", p}

KeepsBai(r, shell) ==
    /\ Asks(r, "bai") /\ r.mode = "env-file"
    /\ "BAI_API_KEY" \notin r.given \cup envfile
    /\ env_key("BAI_API_KEY", shell)

PromptedKeys(r, shell) ==
    {KeyOf[p] : p \in {q \in KeyProviders : Asks(r, q) /\ KeyOf[q] \in r.given}}
        \cup (IF KeepsBai(r, shell) THEN {"BAI_API_KEY"} ELSE {})

\* ... models go to the environment when the provider is `auto` ...
PromptedModels(r, shell) ==
    IF r.provider # "auto" THEN {}
    ELSE {ModelOf[p] : p \in {q \in {"bai", "openai"} : HasKey(q, r.given, shell)}}
         \cup (IF KeyOf.anthropic \in r.given THEN r.given \cap {ModelOf.anthropic} ELSE {})

\* ... and of Azure all three parts are needed, or none.
PromptedAzure(r, shell) ==
    IF Asks(r, "azure") THEN (r.given \cap Azure) \cup azure_credential_parts({}, shell) ELSE {}

\* Inline, what was prompted for goes into the llm block; a key that was kept is not
\* prompted for.
Embedded(r, keys, azure) ==
    IF r.mode = "env-file" THEN {}
    ELSE (IF (keys \cup azure) \cap ApiKeys = {} THEN {} ELSE {"api_key"})
         \cup {InlineSlot[v] : v \in azure}

\* The model picker ends with some model of the provider: listed, typed or the default.
prompt_openai_model(p) == p

collect_interactive(r, shell) ==
    LET keys == PromptedKeys(r, shell)
        azure == PromptedAzure(r, shell)
        accepted == CASE r.provider = "stub" -> TRUE
                      [] r.provider = "azure" -> azure = Azure
                      [] r.provider = "auto" -> /\ r.mode = "env-file" /\ azure \in {{}, Azure}
                                                /\ HasCredentials(keys \cup azure, shell)
                      [] OTHER -> HasKey(r.provider, r.given, shell)
    IN  [accepted |-> accepted,
         updates |-> IF r.mode = "inline" THEN {}
                     ELSE keys \cup PromptedModels(r, shell) \cup azure,
         llm |-> [provider |-> r.provider,
                  inline |-> Embedded(r, keys, azure),
                  model |-> IF r.provider \in KeyProviders THEN prompt_openai_model(r.provider)
                            ELSE Nothing,
                  base_url |-> Nothing]]

Collected(r, shell) ==
    IF r.interactive THEN collect_interactive(r, shell) ELSE collect_non_interactive(r, shell)

\* The credential that made the command accept the request is in the files when it returns.
\* It is not in two cases.  The wizard found the key in the shell or in daemon.yaml and Enter
\* kept it: only a B.AI key in env-file mode is put on file then.  Or --mode env-file found it
\* in daemon.yaml alone, from where write_yaml_llm drops it.
Backed(r, shell) ==
    LET kept == IF ~r.interactive THEN shell
                ELSE IF r.mode = "env-file" /\ env_key("BAI_API_KEY", shell) THEN {"BAI_API_KEY"}
                ELSE {}
        known == r.given \cup envfile \cup kept
    IN  CASE r.provider \in {"stub", "azure"} -> TRUE
          [] r.provider = "auto" ->
                \/ \E p \in KeyProviders : KeyOf[p] \in known
                \/ Azure \subseteq (IF r.interactive THEN PromptedAzure(r, shell) ELSE known)
          [] OTHER -> KeyOf[r.provider] \in known \/ (~r.interactive /\ r.mode = "inline")

-----------------------------------------------------------------------------
(* Writing: read, merge, write. *)
Collect(t, r) ==
    LET c == Collected(r, Shell[t])
    IN  /\ c.accepted
        /\ draft' = [draft EXCEPT ![t] =
                        [NoDraft EXCEPT !.llm = c.llm, !.updates = c.updates, !.alone = TRUE,
                         !.promise = [provider |-> r.provider, model |-> c.llm.model,
                                      backed |-> Backed(r, Shell[t])]]]
        /\ UNCHANGED <<yaml, envfile, asked>>

Refuses(t, r) == ~Collected(r, Shell[t]).accepted /\ UNCHANGED confVars

load_yaml_dict(t) ==
    /\ draft' = [draft EXCEPT ![t] = [draft[t] EXCEPT !.yaml = yaml,
                                         !.alone = @ \/ draft[t] = NoDraft]]
    /\ UNCHANGED <<yaml, envfile, asked>>

parse_env_file(t) ==
    /\ draft' = [draft EXCEPT ![t].env = envfile]
    /\ UNCHANGED <<yaml, envfile, asked>>

\* After a write by t no other configure command has the files to itself (history).
Leaves(t, mine) ==
    draft' = [u \in Terminals |-> IF u = t THEN mine ELSE [draft[u] EXCEPT !.alone = FALSE]]

Or(new, old) == IF new = Nothing THEN old ELSE new

\* Old fields stay unless they are given anew; the slots for secrets never stay.
Merged(old, new) ==
    [new EXCEPT !.model = Or(@, old.model), !.base_url = Or(@, old.base_url)]

write_yaml_llm(t) ==
    LET done == draft[t].updates = {}
    IN  /\ yaml' = [draft[t].yaml EXCEPT !.llm = Merged(@, draft[t].llm)]
        /\ asked' = IF done /\ draft[t].alone THEN draft[t].promise ELSE NoPromise
        /\ Leaves(t, IF done THEN NoDraft ELSE draft[t])
        /\ UNCHANGED envfile

write_env_file(t) ==
    /\ envfile' = draft[t].env \cup draft[t].updates
    /\ asked' = IF draft[t].alone THEN draft[t].promise ELSE NoPromise
    /\ Leaves(t, NoDraft)
    /\ UNCHANGED yaml

write_yaml_section(t) ==
    /\ yaml' = [draft[t].yaml EXCEPT !.stores = "sqlite"]
    /\ asked' = IF draft[t].alone THEN asked ELSE NoPromise
    /\ Leaves(t, NoDraft)
    /\ UNCHANGED envfile

-----------------------------------------------------------------------------
(* A daemon that starts. *)
\* _MERGEABLE_OPENCOAT_ENV_KEYS, as far as configure writes them.
Mergeable == EnvVars

merge_user_llm_env_file(environ) == environ \cup (envfile \cap Mergeable)

\* The bundled default.yaml, overlaid with the user's.
load_config ==
    [llm |-> [yaml.llm EXCEPT !.provider = IF @ = Nothing THEN "auto" ELSE @],
     stores |-> IF yaml.stores = Nothing THEN "sqlite" ELSE yaml.stores]

Failed == [kind |-> "error", model |-> Nothing]
Wired(llm, p) == [kind |-> p, model |-> IF llm.model = Nothing THEN p ELSE llm.model]

\* The client of a provider refuses to be made without its key.
BaiLLMClient(key) == key
OpenAILLMClient(key) == key
AnthropicLLMClient(key) == key
AzureOpenAILLMClient(endpoint, key) == endpoint /\ key

ApiKey(llm, environ, v) == "api_key" \in llm.inline \/ v \in environ

build_stub(llm, environ) == [kind |-> "stub", model |-> "stub"]

build_bai(llm, environ) ==
    IF BaiLLMClient(ApiKey(llm, environ, "BAI_API_KEY")) THEN Wired(llm, "bai") ELSE Failed

build_openai(llm, environ) ==
    IF OpenAILLMClient(ApiKey(llm, environ, "OPENAI_API_KEY")) THEN Wired(llm, "openai")
    ELSE Failed

build_anthropic(llm, environ) ==
    IF AnthropicLLMClient(ApiKey(llm, environ, "ANTHROPIC_API_KEY")) THEN Wired(llm, "anthropic")
    ELSE Failed

\* A deployment is the model.
build_azure(llm, environ) ==
    IF /\ "deployment" \in llm.inline \/ "AZURE_OPENAI_DEPLOYMENT" \in environ
       /\ AzureOpenAILLMClient("endpoint" \in llm.inline \/ "AZURE_OPENAI_ENDPOINT" \in environ,
                               ApiKey(llm, environ, "AZURE_OPENAI_API_KEY"))
    THEN [kind |-> "azure", model |-> "azure"] ELSE Failed

auto_pick_provider(environ) ==
    IF "BAI_API_KEY" \in environ THEN "bai"
    ELSE IF "OPENAI_API_KEY" \in environ THEN "openai"
    ELSE IF "ANTHROPIC_API_KEY" \in environ THEN "anthropic"
    ELSE IF {"AZURE_OPENAI_API_KEY", "AZURE_OPENAI_DEPLOYMENT"} \subseteq environ THEN "azure"
    ELSE Nothing

LLM_PROVIDER_BUILDERS(name, llm, environ) ==
    CASE name = "bai" -> build_bai(llm, environ)
      [] name = "openai" -> build_openai(llm, environ)
      [] name = "anthropic" -> build_anthropic(llm, environ)
      [] name = "azure" -> build_azure(llm, environ)

\* Nothing to pick: the stub, with a warning.
build_auto(llm, environ) ==
    LET picked == auto_pick_provider(environ)
    IN  IF picked = Nothing THEN [kind |-> "stub-fallback", model |-> "stub"]
        ELSE LLM_PROVIDER_BUILDERS(picked, llm, environ)

build_llm(llm, environ) ==
    CASE llm.provider = "auto" -> build_auto(llm, environ)
      [] llm.provider = "stub" -> build_stub(llm, environ)
      [] OTHER -> LLM_PROVIDER_BUILDERS(llm.provider, llm, environ)

\* What was asked for is what is built: the provider, or a real one for `auto`, with the
\* model that was chosen with it, unless `auto` picks Azure, where the deployment decides.
Delivers(built, promise) ==
    /\ IF promise.provider = "auto" THEN built.kind \notin {"error", "stub-fallback", "stub"}
       ELSE built.kind = promise.provider
    /\ promise.model # Nothing /\ built.kind # "azure" => built.model = promise.model

\* A daemon that cannot have it says so: it fails to start, or `auto` labels its stub.
SaysSo(built, promise) ==
    built.kind \in (IF promise.provider = "auto" THEN {"error", "stub-fallback"} ELSE {"error"})

Honours(built, promise) ==
    Delivers(built, promise) \/ (~promise.backed /\ SaysSo(built, promise))
=============================================================================
