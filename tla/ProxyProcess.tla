---------------------------- MODULE ProxyProcess ----------------------------
(***************************************************************************)
(* The process from main() (src/main.rs) to its exit: what it was asked    *)
(* for (Configuration), the user's terminal in raw mode (src/terminal.rs), *)
(* the proxy and its ssh children (SshChildren), and the end of the        *)
(* runtime.                                                                *)
(*                                                                         *)
(* tokio reads stdin in a thread of its own, which the drop of the runtime *)
(* waits for.  A read once begun stays in flight when select! takes        *)
(* another branch, and ends when the user types.                           *)
(***************************************************************************)
EXTENDS SshChildren, Configuration

CONSTANT
    Invocations  \* command lines with the file they find: [cli, file]

VARIABLES
    invocation,  \* the one this process was started with
    stage,       \* where main() is
    raw,         \* the user's terminal is in raw mode
    stdinRead    \* a read of stdin is in flight

processVars == <<invocation, stage, raw, stdinRead>>
allVars == <<processVars, vars>>

\* entering: in Terminal::enter.  proxy: in PtyProxy::new or run.  replay: in
\* replay_session.  returned: in the drop of the runtime.
Stages == {"entering", "proxy", "replay", "returned", "exited", "killed"}

\* In proxy mode, and past Terminal::enter.
Started == {"proxy", "returned", "exited", "killed"}

Mode == RunMode(invocation.cli, invocation.file)

Config == ConfigOf(invocation.cli, invocation.file.sections)

-----------------------------------------------------------------------------

\* main() once RunMode::parse has answered.
ProcessInit ==
    /\ Init
    /\ invocation \in Invocations
    /\ stage = CASE Mode = "proxy" -> "entering"
                 [] Mode = "replay" -> "replay"
                 [] OTHER -> "exited"
    /\ Mode = "proxy" => policy = Config.persistence
    /\ raw = FALSE /\ stdinRead = FALSE

\* Terminal::enter
Enter ==
    /\ stage = "entering"
    /\ stage' = "proxy"
    /\ raw' = TRUE
    /\ UNCHANGED <<invocation, stdinRead, vars>>

\* enable_raw_mode fails: main() returns Err.
EnterFails ==
    /\ stage = "entering"
    /\ stage' = "returned"
    /\ UNCHANGED <<invocation, raw, stdinRead, vars>>

\* A step of the proxy, of ssh or of the clock.
Serve(step) ==
    /\ stage \in Started
    /\ phase = "open" => stage = "proxy"
    /\ step
    /\ UNCHANGED processVars

\* select! polls the stdin branch, if !buffer_full.
PollStdin ==
    /\ stage = "proxy" /\ phase = "serving"
    /\ Config.buffer.max_size > 0
    /\ ~stdinRead
    /\ stdinRead' = TRUE
    /\ UNCHANGED <<invocation, stage, raw, vars>>

\* The user types, and the read is done.
KeyTyped ==
    /\ stdinRead
    /\ stage \in {"proxy", "returned"}
    /\ stdinRead' = FALSE
    /\ UNCHANGED <<invocation, stage, raw, vars>>

Return_OnlyOk ==
    /\ stage = "proxy"
    /\ phase \in Gone \ {"killed"}
    /\ stage' = "returned"
    /\ raw' = (phase # "ended")
    /\ UNCHANGED <<invocation, stdinRead, vars>>

\* new() or run() returns, and what it owned is dropped: the Terminal, too.
Return ==
    /\ stage = "proxy"
    /\ phase \in Gone \ {"killed"}
    /\ stage' = "returned"
    /\ raw' = FALSE
    /\ UNCHANGED <<invocation, stdinRead, vars>>

\* The signal that ended the proxy ends the process: nothing is dropped.
Killed ==
    /\ stage = "proxy"
    /\ phase = "killed"
    /\ stage' = "killed"
    /\ UNCHANGED <<invocation, raw, stdinRead, vars>>

\* The runtime is dropped, and main() is over.
ExitProcess ==
    /\ \/ stage = "returned" /\ ~stdinRead
       \/ stage = "replay"
    /\ stage' = "exited"
    /\ UNCHANGED <<invocation, raw, stdinRead, vars>>

ProcessNext ==
    \/ Enter \/ EnterFails
    \/ Serve(Next)
    \/ PollStdin \/ KeyTyped
    \/ Return \/ Killed \/ ExitProcess

ProcessSpec == ProcessInit /\ [][ProcessNext]_allVars

\* Main's own steps go on, and so do the proxy's and the clock, as in
\* SshChildren.  Nobody has to type.
ProcessFairness ==
    /\ WF_allVars(Enter \/ EnterFails)
    /\ WF_allVars(Return \/ Killed)
    /\ WF_allVars(ExitProcess)
    /\ WF_allVars(Serve(OpenPty \/ NoPty \/ HalfPty))
    /\ WF_allVars(Serve(Fork \/ NoFork))
    /\ WF_allVars(Serve(Adopt \/ NoMaster))
    /\ WF_allVars(Serve(SetUp \/ SetUpFails))
    /\ WF_allVars(Serve(Retry))
    /\ WF_allVars(Serve(EndOfFile))
    /\ WF_allVars(Serve(Reap))
    /\ \A c \in Ptys : WF_allVars(Serve(Exec(c) \/ ExecFails(c)))
    /\ WF_allVars(Serve(Tick))

FairProcess == ProcessSpec /\ ProcessFairness

-----------------------------------------------------------------------------

\* Whichever way the proxy ends, the terminal is given back and the process
\* exits, but for a signal before its handlers are there, and as long as a read
\* of stdin is in flight (main.rs, terminal.rs; the early returns of new() and
\* run()).
EndIsClean ==
    phase \in Gone ~> \/ stage = "killed"
                      \/ ~raw /\ (stage = "exited" \/ stdinRead)

\* ssh is started a second time only by a user who asked for it, on the command
\* line or in the file, whatever ends a session or fails (config.rs, "CLI
\* enables OR file enables").
ReconnectOnlyIfAsked ==
    pty > 1 => \/ "reconnect" \in invocation.cli.flags
               \/ /\ "persistence" \in DOMAIN invocation.file.sections
                  /\ "reconnect" \in DOMAIN invocation.file.sections["persistence"]
                  /\ invocation.file.sections["persistence"]["reconnect"]

\* "Child-exit detection -> restore terminal + exit" (TODO.md:109).
ChildExitExits ==
    (phase = "serving" /\ ~policy.reconnect /\ state[child] = "zombie")
        ~> (~raw /\ stage = "exited")

=============================================================================
