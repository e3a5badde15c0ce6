------------------------- MODULE ProxyProcessProofs -------------------------
(***************************************************************************)
(* Theorems about ProxyProcess, for all invocations, policies, failures    *)
(* and numbers of PTYs.                                                    *)
(***************************************************************************)
EXTENDS ProxyProcess, SshChildrenProofs

\* Every step of main(), the terminal or the runtime leaves the proxy and its
\* children alone, and every other is one of theirs: what SshChildrenProofs says
\* of them is true of them in this process.
THEOREM ProcessServes == ProcessSpec => Spec
<1>1. ProcessInit => Init
  BY DEF ProcessInit
<1>2. [ProcessNext]_allVars => [Next]_vars
  BY DEF ProcessNext, allVars, Enter, EnterFails, Serve, PollStdin, KeyTyped,
     Return, Killed, ExitProcess
<1> QED
  BY <1>1, <1>2, PTL DEF ProcessSpec, Spec

\* Without reconnection there is one attempt.
OneAttempt ==
    ~policy.reconnect =>
        /\ pty <= 1
        /\ phase = "open" => pty = 0
        /\ phase \in Spawning => child = 0
        /\ phase # "backoff"

\* The policy is the one of the command line and the file, and a process that is
\* not to be a proxy is none.
AsInvoked ==
    /\ Mode = "proxy" => policy = Config.persistence
    /\ Mode # "proxy" => phase = "open" /\ pty = 0 /\ stage # "entering"
                         /\ stage # "proxy"

\* Every step keeps to the one attempt.
LEMMA AttemptStep ==
    ASSUME TypeOK, OneAttempt, [Next]_vars
    PROVE  OneAttempt'
<1> SUFFICES ASSUME ~policy'.reconnect
             PROVE  /\ pty' <= 1
                    /\ phase' = "open" => pty' = 0
                    /\ phase' \in Spawning => child' = 0
                    /\ phase' # "backoff"
  BY DEF OneAttempt
<1>1. policy' = policy
  BY DEF Next, vars, OpenPty, NoPty, HalfPty, Fork, NoFork, Adopt, NoMaster,
     AttemptFailed, SetUp, SetUpFails, EarlySignal, Retry, EndOfFile, Hangup,
     BeginReconnect, LeaveLoop, ToWaiting, StdioError, WriteError, Reap, Exec,
     ExecFails, Exit, Tick
<1>2. /\ pty <= 1 /\ (phase = "open" => pty = 0) /\ phase # "backoff"
      /\ (phase \in Spawning => child = 0) /\ ~policy.reconnect
  BY <1>1 DEF OneAttempt
<1>3. CASE OpenPty
  BY <1>2, <1>3 DEF OpenPty, Spawning
<1>4. CASE NoPty \/ HalfPty \/ NoFork \/ NoMaster
  BY <1>2, <1>4 DEF NoPty, HalfPty, NoFork, NoMaster, AttemptFailed, Spawning
<1>5. CASE \/ Fork \/ Adopt \/ SetUp \/ SetUpFails \/ EarlySignal \/ Retry
           \/ Hangup \/ LeaveLoop \/ StdioError \/ WriteError \/ Reap
  BY <1>2, <1>5 DEF Fork, Adopt, SetUp, SetUpFails, EarlySignal, Retry, Hangup,
     LeaveLoop, ToWaiting, StdioError, WriteError, Reap, Spawning
<1>6. CASE EndOfFile
  BY <1>2, <1>6 DEF EndOfFile, ToWaiting, Spawning
<1>7. CASE \/ \E c \in Ptys : Exec(c) \/ ExecFails(c) \/ Exit(c)
           \/ Tick \/ UNCHANGED vars
  BY <1>2, <1>7 DEF Exec, ExecFails, Exit, Tick, vars, Spawning
<1> QED
  BY <1>3, <1>4, <1>5, <1>6, <1>7 DEF Next

\* Every step of the process keeps to its invocation.
LEMMA InvokedStep ==
    ASSUME AsInvoked, [ProcessNext]_allVars
    PROVE  AsInvoked'
<1>1. invocation' = invocation
  BY DEF ProcessNext, allVars, processVars, Enter, EnterFails, Serve, PollStdin,
     KeyTyped, Return, Killed, ExitProcess
<1>2. Mode' = Mode /\ Config' = Config
  BY <1>1 DEF Mode, Config
<1>3. CASE Serve(Next)
  <2>1. policy' = policy
    BY <1>3 DEF Serve, Next, OpenPty, NoPty, HalfPty, Fork, NoFork, Adopt,
       NoMaster, AttemptFailed, SetUp, SetUpFails, EarlySignal, Retry,
       EndOfFile, Hangup, BeginReconnect, LeaveLoop, ToWaiting, StdioError,
       WriteError, Reap, Exec, ExecFails, Exit, Tick
  <2>2. Mode = "proxy"
    BY <1>3 DEF Serve, AsInvoked
  <2> QED
    BY <1>2, <2>1, <2>2 DEF AsInvoked
<1>4. CASE \/ Enter \/ EnterFails \/ PollStdin \/ KeyTyped \/ Return \/ Killed
           \/ ExitProcess \/ UNCHANGED allVars
  BY <1>2, <1>4 DEF AsInvoked, allVars, processVars, vars, Enter, EnterFails,
     PollStdin, KeyTyped, Return, Killed, ExitProcess
<1> QED
  BY <1>3, <1>4 DEF ProcessNext

\* ssh is started a second time only by a user who asked for it, through
\* RunMode::parse, reconnect() and everything that ends a session or fails.
THEOREM OnlyIfAsked == ProcessSpec => []ReconnectOnlyIfAsked
<1>1. ProcessInit => OneAttempt /\ AsInvoked
  BY DEF ProcessInit, Init, OneAttempt, AsInvoked, Spawning
<1>2. TypeOK /\ OneAttempt /\ AsInvoked /\ [Next]_vars /\ [ProcessNext]_allVars
      => OneAttempt' /\ AsInvoked'
  BY AttemptStep, InvokedStep
<1>3. TypeOK /\ OneAttempt /\ AsInvoked => ReconnectOnlyIfAsked
  <2> SUFFICES ASSUME TypeOK, OneAttempt, AsInvoked, pty > 1
               PROVE  \/ "reconnect" \in invocation.cli.flags
                      \/ /\ "persistence" \in DOMAIN invocation.file.sections
                         /\ "reconnect" \in
                                DOMAIN invocation.file.sections["persistence"]
                         /\ invocation.file.sections["persistence"]["reconnect"]
    BY DEF ReconnectOnlyIfAsked
  <2>1. policy = Config.persistence /\ policy.reconnect
    BY DEF OneAttempt, AsInvoked, TypeOK
  <2>2. Flag(invocation.cli, invocation.file.sections, "reconnect")
    BY <2>1 DEF Config, ConfigOf
  <2>3. Section("reconnect") = "persistence"
    BY DEF Section
  <2> QED
    BY <2>2, <2>3 DEF Flag, InFile, Setting
<1> QED
  BY <1>1, <1>2, <1>3, ProcessServes, ChildrenTypeCorrect, PTL
     DEF ProcessSpec, Spec

=============================================================================
