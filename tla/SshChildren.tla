----------------------------- MODULE SshChildren -----------------------------
(***************************************************************************)
(* The ssh children of one proxy over many sessions: opening a PTY, fork,  *)
(* exec, which process holds which side of which PTY, the reconnect loop   *)
(* of src/proxy.rs with its backoff and timeout, and the end.  What is     *)
(* typed and shown is PtyProxy's matter.                                   *)
(*                                                                         *)
(* A child has the number of the PTY it was forked with; 0 is the proxy.   *)
(* System calls take no time; ssh, sleeping and waiting do.                *)
(*                                                                         *)
(* As elsewhere, an operator with an underscore in its name is wrong on    *)
(* purpose.                                                                *)
(***************************************************************************)
EXTENDS Integers, FiniteSets

CONSTANTS
    Policies, \* the reconnect policies (PersistenceConfig) considered
    MinLife,  \* ssh does not end by itself sooner than this
    Failures, \* what may fail
    MaxPtys   \* bound: PTYs opened in a behaviour

\* posix_openpt: no PTY.  grantpt: it, unlockpt, ptsname or the open of the
\* slave side, after posix_openpt.  fork.  register: fcntl or AsyncFd::new,
\* after fork.  exec: execvp, in the child.  setup: SessionRecorder::new, or
\* Signals::new.  stdio: reading stdin, or writing stdout.
Steps == {"posix_openpt", "grantpt", "fork", "register", "exec", "setup", "stdio"}

ASSUME PoliciesAssumption ==
    Policies \subseteq [reconnect : BOOLEAN, timeout : Nat, initial_delay : Nat,
                        max_delay : Nat]
ASSUME LifeAssumption == MinLife \in Nat
ASSUME FailuresAssumption == Failures \subseteq Steps
ASSUME PtysAssumption == MaxPtys \in Nat \ {0}

VARIABLES
    policy,   \* config.persistence, which nothing changes
    phase,    \* where the proxy is
    pty,      \* the PTY opened last
    child,    \* child_pid; 0 in PtyProxy::new, before there is one
    state,    \* what became of each child
    holds,    \* the sides of PTYs that each process has open
    told,     \* the children that were sent SIGTERM
    lost,     \* the children whose pid the proxy does not know
    elapsed,  \* started.elapsed() of the reconnect loop
    next,     \* ReconnectBackoff.next
    wait,     \* what is left of the sleep
    age,      \* how long the current session has lasted, up to MinLife
    sinceTry  \* time since the last attempt to spawn, up to the first delay

timers == <<elapsed, next, wait, age, sinceTry>>
vars == <<policy, phase, pty, child, state, holds, told, lost, timers>>

\* open, fork, adopt: inside spawn_ssh_master.  setup: the rest of new(), and
\* run() before its loop.  backoff: asleep in reconnect().  serving: in the
\* loop of run().  waiting: in wait_for_child.  ended: run() returned Ok.  The
\* others returned Err: gave_up, from spawn_ssh_master; write_failed, from a
\* write to the PTY; setup_failed and stdio_failed.  killed: a signal did,
\* before run() listened to signals.
Gone == {"ended", "gave_up", "write_failed", "setup_failed", "stdio_failed",
         "killed"}
Phases == {"open", "fork", "adopt", "setup", "backoff", "serving", "waiting"}
          \cup Gone
Spawning == {"open", "fork", "adopt"}

Ptys == 1..MaxPtys
Sides == {"master", "slave"}
Processes == 0..MaxPtys

LesserOf(a, b) == IF a < b THEN a ELSE b

\* The states of a child that has not ended.
Living == {"forked", "ssh", "copy"}

\* Some process has the slave side of this PTY open.
SlaveOpen(p) == \E proc \in Processes : <<p, "slave">> \in holds[proc]

-----------------------------------------------------------------------------

\* PtyProxy::new before spawn_ssh_master.
Init ==
    /\ policy \in Policies
    /\ phase = "open"
    /\ pty = 0 /\ child = 0
    /\ state = [c \in Ptys |-> "none"]
    /\ holds = [proc \in Processes |-> {}]
    /\ told = {} /\ lost = {}
    /\ elapsed = 0 /\ next = policy.initial_delay /\ wait = 0
    /\ age = 0 /\ sinceTry = 0

NextDelay_Halved == LesserOf(next, policy.max_delay) \div 2

\* ReconnectBackoff::next_delay
NextDelay == LesserOf(next, policy.max_delay)

AttemptFailed_Persists(left) ==
    /\ IF child = 0
       THEN /\ phase' = "gave_up"
            /\ holds' = [holds EXCEPT ![0] = {}]
            /\ UNCHANGED <<next, wait>>
       ELSE /\ phase' = "backoff"
            /\ holds' = [holds EXCEPT ![0] = left]
            /\ wait' = NextDelay
            /\ next' = LesserOf(2 * NextDelay, policy.max_delay)
    /\ UNCHANGED <<policy, child, told, elapsed, age, sinceTry>>

AttemptFailed_NoSleep(left) ==
    /\ IF child = 0 \/ elapsed >= policy.timeout
       THEN /\ phase' = "gave_up"
            /\ holds' = [holds EXCEPT ![0] = {}]
            /\ UNCHANGED <<next, wait>>
       ELSE /\ phase' = "backoff"
            /\ holds' = [holds EXCEPT ![0] = left]
            /\ wait' = 0
            /\ next' = LesserOf(2 * NextDelay, policy.max_delay)
    /\ UNCHANGED <<policy, child, told, elapsed, age, sinceTry>>

\* spawn_ssh_master returned Err and left the proxy with these descriptors:
\* new() passes it on; reconnect() does when the timeout has passed, and
\* otherwise sleeps for the next delay.  A proxy that returns Err exits.
AttemptFailed(left) ==
    /\ IF child = 0 \/ elapsed >= policy.timeout
       THEN /\ phase' = "gave_up"
            /\ holds' = [holds EXCEPT ![0] = {}]
            /\ UNCHANGED <<next, wait>>
       ELSE /\ phase' = "backoff"
            /\ holds' = [holds EXCEPT ![0] = left]
            /\ wait' = NextDelay
            /\ next' = LesserOf(2 * NextDelay, policy.max_delay)
    /\ UNCHANGED <<policy, child, told, elapsed, age, sinceTry>>

\* open_pty succeeds; neither side is close-on-exec.
OpenPty ==
    /\ phase = "open"
    /\ pty < MaxPtys
    /\ phase' = "fork"
    /\ pty' = pty + 1
    /\ holds' = [holds EXCEPT ![0] = @ \cup ({pty + 1} \X Sides)]
    /\ UNCHANGED <<policy, child, state, told, lost, timers>>

\* open_pty fails before there is a descriptor.
NoPty ==
    /\ phase = "open"
    /\ "posix_openpt" \in Failures
    /\ AttemptFailed(holds[0])
    /\ UNCHANGED <<pty, state, lost>>

\* open_pty fails later: master_fd is a bare number, and nothing closes it.
HalfPty ==
    /\ phase = "open"
    /\ "grantpt" \in Failures
    /\ pty < MaxPtys
    /\ pty' = pty + 1
    /\ AttemptFailed(holds[0] \cup {<<pty + 1, "master">>})
    /\ UNCHANGED <<state, lost>>

\* fork: the child has what the parent has.
Fork ==
    /\ phase = "fork"
    /\ phase' = "adopt"
    /\ state' = [state EXCEPT ![pty] = "forked"]
    /\ holds' = [holds EXCEPT ![pty] = holds[0]]
    /\ UNCHANGED <<policy, pty, child, told, lost, timers>>

\* fork fails, and the pair is dropped.
NoFork ==
    /\ phase = "fork"
    /\ "fork" \in Failures
    /\ AttemptFailed(holds[0] \ ({pty} \X Sides))
    /\ UNCHANGED <<pty, state, lost>>

Adopt_KeepsSlave ==
    /\ phase = "adopt"
    /\ phase' = IF child = 0 THEN "setup" ELSE "serving"
    /\ child' = pty
    /\ holds' = [holds EXCEPT ![0] = @ \ {<<child, "master">>}]
    /\ age' = 0
    /\ UNCHANGED <<policy, pty, state, told, lost, elapsed, next, wait, sinceTry>>

Adopt_KeepsOldMaster ==
    /\ phase = "adopt"
    /\ phase' = IF child = 0 THEN "setup" ELSE "serving"
    /\ child' = pty
    /\ holds' = [holds EXCEPT ![0] = @ \ {<<pty, "slave">>}]
    /\ age' = 0
    /\ UNCHANGED <<policy, pty, state, told, lost, elapsed, next, wait, sinceTry>>

\* The rest of spawn_ssh_master and of new() or reconnect(): the slave side
\* is dropped, and the new master takes the place of the old one.
Adopt ==
    /\ phase = "adopt"
    /\ phase' = IF child = 0 THEN "setup" ELSE "serving"
    /\ child' = pty
    /\ holds' = [holds EXCEPT ![0] = @ \ {<<pty, "slave">>, <<child, "master">>}]
    /\ age' = 0
    /\ UNCHANGED <<policy, pty, state, told, lost, elapsed, next, wait, sinceTry>>

\* The recorder is made, and the signals are listened to.
SetUp ==
    /\ phase = "setup"
    /\ phase' = "serving"
    /\ UNCHANGED <<policy, pty, child, state, holds, told, lost, timers>>

\* One of the two cannot be: ssh runs already, and nobody tells it to end.
SetUpFails ==
    /\ phase = "setup"
    /\ "setup" \in Failures
    /\ phase' = "setup_failed"
    /\ holds' = [holds EXCEPT ![0] = {}]
    /\ UNCHANGED <<policy, pty, child, state, told, lost, timers>>

\* SIGTERM or SIGHUP while it still has its default action.
EarlySignal ==
    /\ phase = "setup" \/ (phase \in Spawning /\ child = 0)
    /\ phase' = "killed"
    /\ holds' = [holds EXCEPT ![0] = {}]
    /\ UNCHANGED <<policy, pty, child, state, told, lost, timers>>

\* PtyMaster::new or AsyncFd::new fails: the child runs, and its pid is lost.
NoMaster ==
    /\ phase = "adopt"
    /\ "register" \in Failures
    /\ AttemptFailed(holds[0] \ ({pty} \X Sides))
    /\ lost' = lost \cup {pty}
    /\ UNCHANGED <<pty, state>>

Retry_Early ==
    /\ phase = "backoff"
    /\ phase' = "open"
    /\ sinceTry' = 0
    /\ UNCHANGED <<policy, pty, child, state, holds, told, lost, elapsed, next,
                   wait, age>>

\* The sleep of reconnect() is over; the loop tries again.
Retry ==
    /\ phase = "backoff"
    /\ wait = 0
    /\ phase' = "open"
    /\ sinceTry' = 0
    /\ UNCHANGED <<policy, pty, child, state, holds, told, lost, elapsed, next,
                   wait, age>>

\* The loop is left, for wait_for_child.
ToWaiting ==
    /\ phase' = "waiting"
    /\ UNCHANGED <<policy, pty, child, state, holds, told, lost, timers>>

BeginReconnect_NoKill ==
    /\ phase' = "open"
    /\ elapsed' = 0
    /\ next' = policy.initial_delay
    /\ sinceTry' = 0
    /\ UNCHANGED <<policy, pty, child, state, holds, told, lost, wait, age>>

\* reconnect() up to its loop: SIGTERM for the old child, a new backoff.
BeginReconnect ==
    /\ phase' = "open"
    /\ told' = told \cup {child}
    /\ elapsed' = 0
    /\ next' = policy.initial_delay
    /\ sinceTry' = 0
    /\ UNCHANGED <<policy, pty, child, state, holds, lost, wait, age>>

EndOfFile_Unasked ==
    /\ phase = "serving"
    /\ ~SlaveOpen(child)
    /\ BeginReconnect

\* A read of the PTY reports that nobody has the slave side open.
EndOfFile ==
    /\ phase = "serving"
    /\ ~SlaveOpen(child)
    /\ \/ policy.reconnect /\ BeginReconnect
       \/ ~policy.reconnect /\ ToWaiting

\* SIGHUP, to reconnect: however young the session is, as when the signal came
\* during the previous reconnect().
Hangup ==
    /\ phase = "serving"
    /\ policy.reconnect
    /\ BeginReconnect

\* SIGTERM, the end of stdin, or SIGHUP without reconnection.
LeaveLoop == phase = "serving" /\ ToWaiting

\* Reading stdin or writing stdout fails, and run() with it.
StdioError ==
    /\ phase = "serving"
    /\ "stdio" \in Failures
    /\ phase' = "stdio_failed"
    /\ holds' = [holds EXCEPT ![0] = {}]
    /\ UNCHANGED <<policy, pty, child, state, told, lost, timers>>

\* A write to the PTY fails, and run() with it.
WriteError ==
    /\ phase = "serving"
    /\ ~SlaveOpen(child)
    /\ phase' = "write_failed"
    /\ holds' = [holds EXCEPT ![0] = {}]
    /\ UNCHANGED <<policy, pty, child, state, told, lost, timers>>

\* wait_for_child returns; the proxy exits.
Reap ==
    /\ phase = "waiting"
    /\ state[child] = "zombie"
    /\ phase' = "ended"
    /\ state' = [state EXCEPT ![child] = "reaped"]
    /\ holds' = [holds EXCEPT ![0] = {}]
    /\ UNCHANGED <<policy, pty, child, told, lost, timers>>

-----------------------------------------------------------------------------
\* The children.

\* The child of fork: setsid, the slave side as descriptors 0 to 2, execvp.
Exec(c) ==
    /\ state[c] = "forked"
    /\ state' = [state EXCEPT ![c] = "ssh"]
    /\ UNCHANGED <<policy, phase, pty, child, holds, told, lost, timers>>

\* execvp fails, and fork_ssh returns Err in the child, which drops its pair
\* and goes on as a copy of the proxy with the slave side as its terminal:
\* the first child at the end of new(), a later one inside reconnect().
ExecFails(c) ==
    /\ "exec" \in Failures
    /\ state[c] = "forked"
    /\ state' = [state EXCEPT ![c] = "copy"]
    /\ holds' = [holds EXCEPT ![c] = @ \ {<<c, "master">>}]
    /\ UNCHANGED <<policy, phase, pty, child, told, lost, timers>>

\* A child ends: when it was told to, when nobody serves it, or by itself
\* once the session has lasted.
Exit(c) ==
    /\ state[c] \in {"ssh", "copy"}
    /\ c \in told \cup lost \/ (c = child /\ age >= MinLife)
    /\ state' = [state EXCEPT ![c] = "zombie"]
    /\ holds' = [holds EXCEPT ![c] = {}]
    /\ UNCHANGED <<policy, phase, pty, child, told, lost, timers>>

\* Time passes, but not beyond the end of a sleep.
Tick ==
    /\ phase \in {"serving", "waiting", "backoff"}
    /\ (phase = "backoff" => wait > 0)
    /\ elapsed' = IF phase = "backoff" THEN elapsed + 1 ELSE elapsed
    /\ wait' = IF phase = "backoff" THEN wait - 1 ELSE wait
    /\ age' = LesserOf(age + 1, MinLife)
    /\ sinceTry' = LesserOf(sinceTry + 1, policy.initial_delay)
    /\ UNCHANGED <<policy, phase, pty, child, state, holds, told, lost, next>>

-----------------------------------------------------------------------------

Next ==
    \/ OpenPty \/ NoPty \/ HalfPty
    \/ Fork \/ NoFork
    \/ Adopt \/ NoMaster
    \/ SetUp \/ SetUpFails \/ EarlySignal
    \/ Retry
    \/ EndOfFile \/ Hangup \/ LeaveLoop \/ StdioError \/ WriteError \/ Reap
    \/ \E c \in Ptys : (Exec(c) \/ ExecFails(c) \/ Exit(c))
    \/ Tick

Spec == Init /\ [][Next]_vars

\* The proxy's own steps and the clock go on; so does a child up to execvp.
\* Nothing makes ssh end or a user act.
Fairness ==
    /\ WF_vars(OpenPty \/ NoPty \/ HalfPty)
    /\ WF_vars(Fork \/ NoFork)
    /\ WF_vars(Adopt \/ NoMaster)
    /\ WF_vars(SetUp \/ SetUpFails)
    /\ WF_vars(Retry)
    /\ WF_vars(EndOfFile)
    /\ WF_vars(Reap)
    /\ \A c \in Ptys : WF_vars(Exec(c) \/ ExecFails(c))
    /\ WF_vars(Tick)

FairSpec == Spec /\ Fairness

-----------------------------------------------------------------------------

\* Every variable keeps its type, a sleep is left only when it is over, and
\* the next delay never outgrows the configured ones.
TypeOK ==
    /\ policy \in Policies
    /\ phase \in Phases
    /\ pty \in 0..MaxPtys /\ child \in 0..pty
    /\ state \in [Ptys -> {"none", "forked", "ssh", "copy", "zombie", "reaped"}]
    /\ holds \in [Processes -> SUBSET (Ptys \X Sides)]
    /\ told \subseteq Ptys /\ lost \subseteq Ptys
    /\ elapsed \in Nat /\ next \in Nat /\ wait \in Nat
    /\ age \in 0..MinLife /\ sinceTry \in 0..policy.initial_delay
    /\ (wait # 0 => phase = "backoff")
    /\ next <= policy.max_delay \/ next <= policy.initial_delay

\* While a session is served, the slave side of its PTY is open exactly as
\* long as its child has not ended: so the end of ssh reaches the proxy as end
\* of file, whatever descriptors later children inherit, and nothing else does.
EndIsEof ==
    phase = "serving" => (SlaveOpen(child) <=> state[child] \in Living)

\* The other PTYs of which a process has a side open, and that had a child.
Others(proc) ==
    {p \in Ptys \ {proc} : state[p] # "none"
                           /\ \E side \in Sides : <<p, side>> \in holds[proc]}

\* Descriptors do not pile up with the sessions: a proxy that serves one has of
\* all the PTYs that had a child only the present master, and a child has,
\* besides its own PTY, at most the master of the session it replaced.
DescriptorsBounded ==
    /\ phase = "serving" =>
        \A fd \in holds[0] : fd = <<child, "master">> \/ state[fd[1]] = "none"
    /\ \A c \in Ptys :
        /\ Cardinality(Others(c)) <= 1
        /\ \A p \in Ptys \ {c} : <<p, "slave">> \notin holds[c]

\* Every child that runs is the one being served or waited for, was told to end
\* when it was replaced, or is about to be adopted, unless the step between fork
\* and adoption failed: no other ssh is left running unnoticed, and none at all
\* by a proxy that is gone, unless it was killed or its set-up or its own
\* terminal failed.
NoneForgotten ==
    \A c \in Ptys :
        state[c] \in Living =>
            \/ c \in told \cup lost
            \/ c = pty /\ phase \in {"adopt", "killed"}
            \/ c = child /\ phase \notin {"ended", "gave_up", "write_failed"}

\* The proxy is in reconnect().
Reconnecting == child # 0 /\ phase \in Spawning \cup {"backoff"}

\* reconnect() does not give up before its timeout, and is never at it for
\* longer than the timeout and one more delay, though it looks at the clock only
\* after a failed attempt.
TimeoutKept ==
    /\ Reconnecting => elapsed + wait <= policy.timeout + policy.max_delay
    /\ (phase = "gave_up" /\ child # 0) => elapsed >= policy.timeout

\* Attempts to spawn ssh during and between reconnects are at least the first
\* delay apart, or as long as a session lasts if that is shorter: one that ends
\* at once is replaced at once, with a new backoff each time.  A session that
\* still lives is replaced as often as a SIGHUP asks for it.
AttemptsSpaced ==
    [][phase # "open" /\ phase' = "open"
        => \/ phase = "serving" /\ SlaveOpen(child)
           \/ sinceTry >= LesserOf(LesserOf(policy.initial_delay, policy.max_delay),
                                   MinLife)]_vars

\* A session that ended is answered: another child is served, or the proxy
\* leaves.  The retries of reconnect() do not go on for ever.
LossAnswered ==
    (phase = "serving" /\ state[child] = "zombie")
        ~> \/ phase = "serving" /\ state[child] # "zombie"
           \/ phase \in {"waiting"} \cup Gone
=============================================================================
