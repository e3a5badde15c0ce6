--------------------------- MODULE MCProxyProcess ---------------------------
(***************************************************************************)
(* The invocations that TLC runs ProxyProcess with: a replay, two that do   *)
(* not start, and proxies configured by the command line, by the file, and  *)
(* by both.  Times are ticks of the model's clock.                          *)
(***************************************************************************)
EXTENDS ProxyProcess, TLC

Cli(flags, numbers) ==
    [replay |-> FALSE, target |-> TRUE, flags |-> flags, numbers |-> numbers]

NoFile == [status |-> "absent", sections |-> Nothing]

File(sections) == [status |-> "toml", sections |-> sections]

Delays(timeout, initial, max) ==
    [reconnect_timeout_ms |-> timeout, reconnect_initial_delay_ms |-> initial,
     reconnect_max_delay_ms |-> max]

Refused ==
    {[cli |-> [Cli({}, Nothing) EXCEPT !.replay = TRUE], file |-> NoFile],
     [cli |-> [Cli({}, Nothing) EXCEPT !.target = FALSE], file |-> NoFile],
     [cli |-> Cli({}, Nothing),
      file |-> [status |-> "malformed", sections |-> Nothing]]}

\* Without reconnection, which the file turns down; the keyboard is not read.
Plain ==
    [cli |-> Cli({"record"}, Delays(4, 2, 3) @@ ("max_size" :> 0)),
     file |-> File("persistence" :> ("reconnect" :> FALSE))]

\* Without reconnection.
Single == [cli |-> Cli({}, Delays(4, 2, 3)), file |-> NoFile]

\* The command line asks for reconnection, the file gives the delays.
ByBoth ==
    [cli |-> Cli({"reconnect"}, Nothing),
     file |-> File("persistence" :> (("reconnect" :> FALSE) @@ Delays(4, 2, 3)))]

\* The file asks for reconnection; the command line overrides its timeout.
ByFile ==
    [cli |-> Cli({}, "reconnect_timeout_ms" :> 0),
     file |-> File("persistence" :> (("reconnect" :> TRUE) @@ Delays(9, 3, 1)))]

MCInvocations == Refused \cup {Plain, Single, ByBoth, ByFile}

MCPolicies ==
    {ConfigOf(i.cli, i.file.sections).persistence : i \in MCInvocations \ Refused}

OneInvocation == {Single}

OnePolicy == {ConfigOf(Single.cli, Single.file.sections).persistence}

=============================================================================
