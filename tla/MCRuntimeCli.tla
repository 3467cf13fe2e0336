---------------------------- MODULE MCRuntimeCli ----------------------------
(***************************************************************************)
(* Two pids and two terminals: two starts, a start against a stop, forced   *)
(* or not, the service commands against each other and against a start and  *)
(* a stop by hand, and configure before and during a start.                 *)
(***************************************************************************)
EXTENDS RuntimeCli

CONSTANTS i1, i2, p1, p2, t1, t2

MCPidOf == [i \in Instances |-> IF i = i1 THEN p1 ELSE p2]

Script(a, b) == [t \in Terminals |-> IF t = t1 THEN a ELSE b]

MCScripts ==
    {Script(<<"up">>, <<"up", "down">>),
     Script(<<"up_foreground">>, <<"down_force">>),
     Script(<<"service_install", "service_uninstall">>, <<"down">>),
     Script(<<"service_install">>, <<"up">>),
     Script(<<"service_install", "service_restart">>, <<>>),
     Script(<<"service_install", "service_stop">>, <<"service_start">>),
     Script(<<"inline", "keep", "service_install">>, <<"configure_daemon">>),
     Script(<<"azure", "auto", "up">>, <<>>),
     Script(<<"auto", "stub", "service_install">>, <<"openai">>),
     Script(<<"inline", "dropped", "up">>, <<>>),
     Script(<<"up">>, <<"anthropic">>),
     Script(<<>>, <<"shell_only", "service_install">>)}

\* In turn: a key embedded in the YAML by flags; the wizard in env-file mode, where Enter
\* keeps that key; three parts of Azure by prompt; `auto`, with what is on file, if
\* anything; a key from the shell, with a model and a base URL; a typed key embedded.  Then
\* the two requests whose key does not reach the files: by flags, with the key in daemon.yaml
\* alone, and the wizard, where Enter keeps the shell's.
Asking(interactive, mode, provider, given) ==
    [interactive |-> interactive, mode |-> mode, provider |-> provider, given |-> given,
     model |-> FALSE, base_url |-> FALSE]

MCRequests ==
    [inline |-> [Asking(FALSE, "inline", "bai", {"BAI_API_KEY"}) EXCEPT !.model = TRUE],
     keep |-> Asking(TRUE, "env-file", "bai", {}),
     azure |-> Asking(TRUE, "env-file", "azure", Azure),
     auto |-> Asking(TRUE, "env-file", "auto", {}),
     openai |-> [Asking(FALSE, "env-file", "openai", {}) EXCEPT !.model = TRUE, !.base_url = TRUE],
     anthropic |-> Asking(TRUE, "inline", "anthropic", {"ANTHROPIC_API_KEY"}),
     dropped |-> Asking(FALSE, "env-file", "bai", {}),
     shell_only |-> Asking(TRUE, "env-file", "openai", {}),
     stub |-> Asking(FALSE, "env-file", "stub", {})]

MCShell == [t \in Terminals |-> IF t = t1 THEN {} ELSE {"OPENAI_API_KEY"}]
=============================================================================
