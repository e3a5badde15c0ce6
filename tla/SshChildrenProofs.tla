-------------------------- MODULE SshChildrenProofs --------------------------
(***************************************************************************)
(* Theorems about SshChildren, for all policies, failures and numbers of   *)
(* PTYs.                                                        *)
(***************************************************************************)
EXTENDS SshChildren, FiniteSetTheorems, TLAPS

\* Where the proxy is says which PTY and which child there is.
PhaseInv ==
    /\ phase \in {"fork", "adopt"} => pty \in Ptys
    /\ phase \in {"setup", "serving", "backoff", "waiting"} => child \in Ptys

\* A child has the slave side of its own PTY while it lives, nothing once it
\* has ended, and never the slave side of another PTY.
ChildSides ==
    \A c \in Ptys :
        /\ state[c] \in Living => <<c, "slave">> \in holds[c]
        /\ state[c] \notin Living => holds[c] = {}
        /\ \A p \in Ptys : <<p, "slave">> \in holds[c] => p = c

\* The proxy has a slave side only between open_pty and the adoption of the
\* child, and then that of the PTY it just opened.
ProxySides ==
    /\ \A p \in Ptys : <<p, "slave">> \in holds[0]
                        => p = pty /\ phase \in {"fork", "adopt"}
    /\ phase \in {"fork", "adopt"} => <<pty, "slave">> \in holds[0]

\* The child that is being replaced was told to end.
Replaced == Reconnecting => child \in told

\* The first delay of reconnect(), as long as it is slept.
FirstDelay == LesserOf(policy.initial_delay, policy.max_delay)

\* A child that is being adopted or served was not told to end.
Fresh ==
    /\ told \cup lost \subseteq 1..pty
    /\ phase \in {"fork", "adopt"} => pty \notin told \cup lost /\ child # pty
    /\ phase = "adopt" => state[pty] \in Living
    /\ phase \in {"setup", "serving"} => child \notin told \cup lost

\* A session that is over has lasted, and the proxy has been at it, or asleep,
\* since the last attempt.
Lasted ==
    /\ phase \in {"setup", "serving"} => \/ state[child] \in Living
                                         \/ age >= MinLife
    /\ phase \in {"setup", "serving"} => \/ sinceTry >= age
                                         \/ sinceTry >= policy.initial_delay
    /\ next >= FirstDelay
    /\ phase = "backoff" => \/ sinceTry + wait >= FirstDelay
                            \/ sinceTry >= policy.initial_delay

\* The PTYs of the children are those opened before.
Forked ==
    \A c \in Ptys : state[c] # "none" => c < pty \/ (c = pty /\ phase # "fork")

\* Of the PTYs that had a child, the proxy has the one it is opening and the
\* master of the present session.
ProxyHolds ==
    \A fd \in holds[0] :
        /\ fd[1] <= pty
        /\ \/ fd[1] = pty /\ phase \in {"fork", "adopt"}
           \/ fd = <<child, "master">>
           \/ state[fd[1]] = "none"

\* A child has what the proxy had when it was forked.
Inherited ==
    \A c \in Ptys : \E q \in Processes : \A fd \in holds[c] :
        /\ fd[1] <= c
        /\ fd[1] = c \/ fd = <<q, "master">> \/ state[fd[1]] = "none"

HoldsInv == Forked /\ ProxyHolds /\ Inherited

IInv ==
    /\ TypeOK
    /\ PhaseInv
    /\ ChildSides
    /\ ProxySides
    /\ Replaced
    /\ NoneForgotten
    /\ TimeoutKept
    /\ Fresh
    /\ Lasted
    /\ HoldsInv

-----------------------------------------------------------------------------

\* What is left when the smaller of two is taken.
LEMMA LesserOfType ==
    ASSUME NEW a \in Nat, NEW b \in Nat
    PROVE  LesserOf(a, b) \in Nat /\ LesserOf(a, b) <= a /\ LesserOf(a, b) <= b
BY DEF LesserOf

\* What nothing changes is a policy.
LEMMA PolicyType ==
    ASSUME policy \in Policies
    PROVE  /\ policy.reconnect \in BOOLEAN /\ policy.timeout \in Nat
           /\ policy.initial_delay \in Nat /\ policy.max_delay \in Nat
BY PoliciesAssumption

\* The sleep before the next attempt is at most the maximum delay.
LEMMA DelayBound ==
    ASSUME TypeOK
    PROVE  /\ NextDelay \in Nat /\ NextDelay <= policy.max_delay
           /\ LesserOf(2 * NextDelay, policy.max_delay) \in Nat
           /\ LesserOf(2 * NextDelay, policy.max_delay) <= policy.max_delay
BY PolicyType, LesserOfType DEF NextDelay, LesserOf, TypeOK

\* A failed attempt keeps the types, and goes to sleep only with a child.
LEMMA AttemptType ==
    ASSUME TypeOK, NEW left \in SUBSET (Ptys \X Sides), AttemptFailed(left)
    PROVE  /\ policy' = policy /\ child' = child /\ told' = told
           /\ elapsed' = elapsed /\ age' = age /\ sinceTry' = sinceTry
           /\ phase' \in {"gave_up", "backoff"}
           /\ (phase' = "backoff" => child \in Ptys)
           /\ holds' \in [Processes -> SUBSET (Ptys \X Sides)]
           /\ next' \in Nat /\ wait' \in Nat
           /\ (wait' # 0 => phase' = "backoff" \/ wait # 0)
           /\ next' <= policy.max_delay \/ next' <= policy.initial_delay
<1>1. /\ policy' = policy /\ child' = child /\ told' = told
      /\ elapsed' = elapsed /\ age' = age /\ sinceTry' = sinceTry
      /\ phase' \in {"gave_up", "backoff"}
  BY DEF AttemptFailed
<1>2. phase' = "backoff" => child \in Ptys
  BY PtysAssumption DEF AttemptFailed, TypeOK, Ptys
<1>3. holds' \in [Processes -> SUBSET (Ptys \X Sides)]
  BY PtysAssumption DEF AttemptFailed, TypeOK, Processes
<1>4. /\ next' \in Nat /\ wait' \in Nat
      /\ (wait' # 0 => phase' = "backoff" \/ wait # 0)
      /\ next' <= policy.max_delay \/ next' <= policy.initial_delay
  BY DelayBound, PolicyType DEF AttemptFailed, TypeOK
<1> QED
  BY <1>1, <1>2, <1>3, <1>4

\* Every step keeps the types, and the phases have the PTY or child they need.
LEMMA TypeStep ==
    ASSUME TypeOK, PhaseInv, [Next]_vars
    PROVE  TypeOK' /\ PhaseInv'

<1>1. CASE OpenPty
  BY <1>1, LifeAssumption, PolicyType, PtysAssumption DEF OpenPty, TypeOK,
     PhaseInv, Ptys, Processes, Sides, Phases, Gone, timers
<1>2. CASE NoPty
  <2> DEFINE left == holds[0]
  <2>1. left \in SUBSET (Ptys \X Sides)
    BY <1>2, PtysAssumption DEF NoPty, TypeOK, Ptys, Processes, Sides
  <2>2. AttemptFailed(left)
    BY <1>2 DEF NoPty
  <2> HIDE DEF left
  <2> QED
    BY <1>2, <2>1, <2>2, AttemptType, PtysAssumption DEF NoPty, TypeOK,
       PhaseInv, Ptys, Phases, Gone
<1>3. CASE HalfPty
  <2> DEFINE left == holds[0] \cup {<<pty + 1, "master">>}
  <2>1. left \in SUBSET (Ptys \X Sides)
    BY <1>3, PtysAssumption DEF HalfPty, TypeOK, Ptys, Processes, Sides
  <2>2. AttemptFailed(left)
    BY <1>3 DEF HalfPty
  <2> HIDE DEF left
  <2>3. pty' \in 0..MaxPtys /\ child \in 0..pty'
    BY <1>3, PtysAssumption DEF HalfPty, TypeOK
  <2>4. PhaseInv'
    BY <1>3, <2>2, AttemptType, <2>1 DEF HalfPty, PhaseInv
  <2> QED
    BY <1>3, <2>1, <2>2, <2>3, <2>4, AttemptType, PtysAssumption
       DEF HalfPty, TypeOK, Phases, Gone
<1>4. CASE Fork
  BY <1>4, LifeAssumption, PolicyType, PtysAssumption DEF Fork, TypeOK,
     PhaseInv, Ptys, Processes, Sides, Phases, Gone, timers
<1>5. CASE NoFork
  <2> DEFINE left == holds[0] \ ({pty} \X Sides)
  <2>1. left \in SUBSET (Ptys \X Sides)
    BY <1>5, PtysAssumption DEF NoFork, TypeOK, Ptys, Processes, Sides
  <2>2. AttemptFailed(left)
    BY <1>5 DEF NoFork
  <2> HIDE DEF left
  <2> QED
    BY <1>5, <2>1, <2>2, AttemptType, PtysAssumption DEF NoFork, TypeOK,
       PhaseInv, Ptys, Phases, Gone
<1>6. CASE Adopt
  BY <1>6, LifeAssumption, PolicyType, PtysAssumption DEF Adopt, TypeOK,
     PhaseInv, Ptys, Processes, Sides, Phases, Gone, timers
<1>7. CASE NoMaster
  <2> DEFINE left == holds[0] \ ({pty} \X Sides)
  <2>1. left \in SUBSET (Ptys \X Sides)
    BY <1>7, PtysAssumption DEF NoMaster, TypeOK, Ptys, Processes, Sides
  <2>2. AttemptFailed(left)
    BY <1>7 DEF NoMaster
  <2> HIDE DEF left
  <2> QED
    BY <1>7, <2>1, <2>2, AttemptType, PtysAssumption DEF NoMaster, TypeOK,
       PhaseInv, Ptys, Phases, Gone
<1>8. CASE Retry
  BY <1>8, LifeAssumption, PolicyType, PtysAssumption DEF Retry, TypeOK,
     PhaseInv, Ptys, Processes, Sides, Phases, Gone, timers
<1>9. CASE EndOfFile
  <2>1. CASE BeginReconnect
    BY <1>9, <2>1, PolicyType, PtysAssumption DEF EndOfFile, BeginReconnect,
       TypeOK, PhaseInv, Ptys, Processes, Sides, Phases, timers
  <2>2. CASE ToWaiting
    BY <1>9, <2>2, PolicyType, PtysAssumption DEF EndOfFile, ToWaiting,
       TypeOK, PhaseInv, Ptys, Processes, Sides, Phases, timers
  <2> QED
    BY <1>9, <2>1, <2>2 DEF EndOfFile
<1>10. CASE Hangup
  BY <1>10, LifeAssumption, PolicyType, PtysAssumption DEF Hangup,
     BeginReconnect, TypeOK, PhaseInv, Ptys, Processes, Sides, Phases, Gone,
     timers
<1>11. CASE LeaveLoop
  BY <1>11, LifeAssumption, PolicyType, PtysAssumption DEF LeaveLoop,
     ToWaiting, TypeOK, PhaseInv, Ptys, Processes, Sides, Phases, Gone, timers
<1>12. CASE WriteError
  BY <1>12, LifeAssumption, PolicyType, PtysAssumption DEF WriteError, TypeOK,
     PhaseInv, Ptys, Processes, Sides, Phases, Gone, timers
<1>13. CASE Reap
  BY <1>13, LifeAssumption, PolicyType, PtysAssumption DEF Reap, TypeOK,
     PhaseInv, Ptys, Processes, Sides, Phases, Gone, timers
<1>14. ASSUME NEW c \in Ptys, Exec(c) PROVE TypeOK' /\ PhaseInv'
  BY <1>14, LifeAssumption, PolicyType, PtysAssumption DEF Exec, TypeOK,
     PhaseInv, Ptys, Processes, Sides, Phases, Gone, timers
<1>15. ASSUME NEW c \in Ptys, ExecFails(c) PROVE TypeOK' /\ PhaseInv'
  BY <1>15, LifeAssumption, PolicyType, PtysAssumption DEF ExecFails, TypeOK,
     PhaseInv, Ptys, Processes, Sides, Phases, Gone, timers
<1>16. ASSUME NEW c \in Ptys, Exit(c) PROVE TypeOK' /\ PhaseInv'
  BY <1>16, LifeAssumption, PolicyType, PtysAssumption DEF Exit, TypeOK,
     PhaseInv, Ptys, Processes, Sides, Phases, Gone, timers
<1>17. CASE Tick
  BY <1>17, LifeAssumption, PolicyType, PtysAssumption DEF Tick, LesserOf,
     TypeOK, PhaseInv, Ptys, Processes, Sides, Phases, Gone, timers
<1>18. CASE SetUp
  BY <1>18, LifeAssumption, PolicyType, PtysAssumption DEF SetUp, TypeOK,
     PhaseInv, Ptys, Processes, Sides, Phases, Spawning, Gone, timers
<1>19. CASE SetUpFails
  BY <1>19, LifeAssumption, PolicyType, PtysAssumption DEF SetUpFails, TypeOK,
     PhaseInv, Ptys, Processes, Sides, Phases, Spawning, Gone, timers
<1>20. CASE EarlySignal
  BY <1>20, LifeAssumption, PolicyType, PtysAssumption DEF EarlySignal, TypeOK,
     PhaseInv, Ptys, Processes, Sides, Phases, Spawning, Gone, timers
<1>21. CASE StdioError
  BY <1>21, LifeAssumption, PolicyType, PtysAssumption DEF StdioError, TypeOK,
     PhaseInv, Ptys, Processes, Sides, Phases, Spawning, Gone, timers
<1>22. CASE UNCHANGED vars
  BY <1>22 DEF vars, timers, TypeOK, PhaseInv, Ptys, Processes, Sides, Phases,
     Gone
<1> QED
  BY <1>1, <1>2, <1>3, <1>4, <1>5, <1>6, <1>7, <1>8, <1>9, <1>10, <1>11,
     <1>12, <1>13, <1>14, <1>15, <1>16, <1>17, <1>18,
     <1>19, <1>20, <1>21, <1>22 DEF Next

\* Every step keeps who has which slave side open.
LEMMA SidesStep ==
    ASSUME TypeOK, PhaseInv, ChildSides, ProxySides, [Next]_vars
    PROVE  ChildSides' /\ ProxySides'
<1> DEFINE Same(c) == holds'[c] = holds[c] /\ state'[c] = state[c]
<1> DEFINE ProxySlaves == {p \in Ptys : <<p, "slave">> \in holds[0]}
<1>1. CASE OpenPty
  <2>1. \A c \in Ptys : Same(c)
    BY <1>1, PtysAssumption DEF OpenPty, TypeOK, Ptys, Processes, Sides
  <2>2. ProxySlaves' = {pty'} /\ phase' = "fork"
    BY <1>1, PtysAssumption DEF OpenPty, TypeOK, Ptys, Processes, Sides,
       ProxySides, PhaseInv
  <2> QED
    BY <1>1, <2>1, <2>2 DEF ChildSides, ProxySides, Living, Ptys
<1>2. CASE NoPty
  <2>1. \A c \in Ptys : Same(c)
    BY <1>2, PtysAssumption DEF NoPty, AttemptFailed, TypeOK, Ptys, Processes,
       Sides
  <2>2. ProxySlaves' = {} /\ phase' \in {"gave_up", "backoff"}
    BY <1>2, PtysAssumption DEF NoPty, AttemptFailed, TypeOK, Ptys, Processes,
       Sides, ProxySides, PhaseInv
  <2> QED
    BY <1>2, <2>1, <2>2 DEF ChildSides, ProxySides, Living, Ptys
<1>3. CASE HalfPty
  <2>1. \A c \in Ptys : Same(c)
    BY <1>3, PtysAssumption DEF HalfPty, AttemptFailed, TypeOK, Ptys,
       Processes, Sides
  <2>2. ProxySlaves' = {} /\ phase' \in {"gave_up", "backoff"}
    BY <1>3, PtysAssumption DEF HalfPty, AttemptFailed, TypeOK, Ptys,
       Processes, Sides, ProxySides, PhaseInv
  <2> QED
    BY <1>3, <2>1, <2>2 DEF ChildSides, ProxySides, Living, Ptys
<1>4. CASE Fork
  <2>1. \A d \in Ptys : d # pty => Same(d)
    BY <1>4, PtysAssumption DEF Fork, TypeOK, Ptys, Processes, Sides
  <2>2. pty \in Ptys /\ holds'[pty] = holds[0] /\ state'[pty] = "forked"
    BY <1>4, PtysAssumption DEF Fork, TypeOK, Ptys, Processes, Sides, PhaseInv
  <2>3. holds'[0] = holds[0] /\ pty' = pty /\ phase' = "adopt"
    BY <1>4, PtysAssumption DEF Fork, TypeOK, Ptys, Processes, Sides,
       ProxySides, PhaseInv
  <2>4. ChildSides'
    BY <1>4, <2>1, <2>2 DEF ChildSides, ProxySides, Living, Fork
  <2>5. ProxySides'
    BY <1>4, <2>3 DEF ProxySides, Ptys, Fork
  <2> QED
    BY <2>4, <2>5
<1>5. CASE NoFork
  <2>1. \A c \in Ptys : Same(c)
    BY <1>5, PtysAssumption DEF NoFork, AttemptFailed, TypeOK, Ptys, Processes,
       Sides
  <2>2. ProxySlaves' = {} /\ phase' \in {"gave_up", "backoff"}
    BY <1>5, PtysAssumption DEF NoFork, AttemptFailed, TypeOK, Ptys, Processes,
       Sides, ProxySides, PhaseInv
  <2> QED
    BY <1>5, <2>1, <2>2 DEF ChildSides, ProxySides, Living, Ptys
<1>6. CASE Adopt
  <2>1. \A c \in Ptys : Same(c)
    BY <1>6, PtysAssumption DEF Adopt, TypeOK, Ptys, Processes, Sides
  <2>2. ProxySlaves' = {} /\ phase' \in {"setup", "serving"}
    BY <1>6, PtysAssumption DEF Adopt, TypeOK, Ptys, Processes, Sides,
       ProxySides, PhaseInv
  <2> QED
    BY <1>6, <2>1, <2>2 DEF ChildSides, ProxySides, Living, Ptys
<1>7. CASE NoMaster
  <2>1. \A c \in Ptys : Same(c)
    BY <1>7, PtysAssumption DEF NoMaster, AttemptFailed, TypeOK, Ptys,
       Processes, Sides
  <2>2. ProxySlaves' = {} /\ phase' \in {"gave_up", "backoff"}
    BY <1>7, PtysAssumption DEF NoMaster, AttemptFailed, TypeOK, Ptys,
       Processes, Sides, ProxySides, PhaseInv
  <2> QED
    BY <1>7, <2>1, <2>2 DEF ChildSides, ProxySides, Living, Ptys
<1>8. CASE Retry
  BY <1>8, PtysAssumption DEF Retry, TypeOK, PhaseInv, ChildSides, ProxySides,
     Living, Ptys, Processes, Sides
<1>9. CASE EndOfFile
  BY <1>9, PtysAssumption DEF EndOfFile, BeginReconnect, ToWaiting, TypeOK,
     PhaseInv, ChildSides, ProxySides, Living, Ptys, Processes, Sides
<1>10. CASE Hangup
  BY <1>10, PtysAssumption DEF Hangup, BeginReconnect, TypeOK, PhaseInv,
     ChildSides, ProxySides, Living, Ptys, Processes, Sides
<1>11. CASE LeaveLoop
  BY <1>11, PtysAssumption DEF LeaveLoop, ToWaiting, TypeOK, PhaseInv,
     ChildSides, ProxySides, Living, Ptys, Processes, Sides
<1>12. CASE WriteError
  <2>1. \A c \in Ptys : Same(c)
    BY <1>12, PtysAssumption DEF WriteError, TypeOK, Ptys, Processes, Sides
  <2>2. ProxySlaves' = {} /\ phase' = "write_failed"
    BY <1>12, PtysAssumption DEF WriteError, TypeOK, Ptys, Processes, Sides,
       ProxySides, PhaseInv
  <2> QED
    BY <1>12, <2>1, <2>2 DEF ChildSides, ProxySides, Living, Ptys
<1>13. CASE Reap
  <2>1. \A d \in Ptys : d # child => Same(d)
    BY <1>13, PtysAssumption DEF Reap, TypeOK, Ptys, Processes, Sides
  <2>2. /\ child \in Ptys /\ holds'[child] = holds[child]
        /\ state[child] = "zombie" /\ state'[child] = "reaped"
    BY <1>13, PtysAssumption DEF Reap, TypeOK, Ptys, Processes, Sides, PhaseInv
  <2>3. holds'[0] = {} /\ phase' = "ended"
    BY <1>13, PtysAssumption DEF Reap, TypeOK, Ptys, Processes, Sides,
       ProxySides, PhaseInv
  <2>4. ChildSides'
    BY <1>13, <2>1, <2>2 DEF ChildSides, ProxySides, Living, Reap
  <2>5. ProxySides'
    BY <1>13, <2>3 DEF ProxySides, Ptys, Reap
  <2> QED
    BY <2>4, <2>5
<1>14. ASSUME NEW c \in Ptys, Exec(c) PROVE ChildSides' /\ ProxySides'
  <2>1. \A d \in Ptys : d # c => Same(d)
    BY <1>14, PtysAssumption DEF Exec, TypeOK, Ptys, Processes, Sides
  <2>2. /\ c \in Ptys /\ holds'[c] = holds[c]
        /\ state[c] = "forked" /\ state'[c] = "ssh"
    BY <1>14, PtysAssumption DEF Exec, TypeOK, Ptys, Processes, Sides, PhaseInv
  <2>3. holds'[0] = holds[0] /\ pty' = pty /\ phase' = phase
    BY <1>14, PtysAssumption DEF Exec, TypeOK, Ptys, Processes, Sides,
       ProxySides, PhaseInv
  <2>4. ChildSides'
    BY <1>14, <2>1, <2>2 DEF ChildSides, ProxySides, Living, Exec
  <2>5. ProxySides'
    BY <1>14, <2>3 DEF ProxySides, Ptys, Exec
  <2> QED
    BY <2>4, <2>5
<1>15. ASSUME NEW c \in Ptys, ExecFails(c) PROVE ChildSides' /\ ProxySides'
  <2>1. \A d \in Ptys : d # c => Same(d)
    BY <1>15, PtysAssumption DEF ExecFails, TypeOK, Ptys, Processes, Sides
  <2>2. /\ c \in Ptys /\ holds'[c] = holds[c] \ {<<c, "master">>}
        /\ state'[c] = "copy"
    BY <1>15, PtysAssumption DEF ExecFails, TypeOK, Ptys, Processes, Sides,
       PhaseInv
  <2>3. holds'[0] = holds[0] /\ pty' = pty /\ phase' = phase
    BY <1>15, PtysAssumption DEF ExecFails, TypeOK, Ptys, Processes, Sides,
       ProxySides, PhaseInv
  <2>4. ChildSides'
    BY <1>15, <2>1, <2>2 DEF ChildSides, ProxySides, Living, ExecFails
  <2>5. ProxySides'
    BY <1>15, <2>3 DEF ProxySides, Ptys, ExecFails
  <2> QED
    BY <2>4, <2>5
<1>16. ASSUME NEW c \in Ptys, Exit(c) PROVE ChildSides' /\ ProxySides'
  <2>1. \A d \in Ptys : d # c => Same(d)
    BY <1>16, PtysAssumption DEF Exit, TypeOK, Ptys, Processes, Sides
  <2>2. c \in Ptys /\ holds'[c] = {} /\ state'[c] = "zombie"
    BY <1>16, PtysAssumption DEF Exit, TypeOK, Ptys, Processes, Sides, PhaseInv
  <2>3. holds'[0] = holds[0] /\ pty' = pty /\ phase' = phase
    BY <1>16, PtysAssumption DEF Exit, TypeOK, Ptys, Processes, Sides,
       ProxySides, PhaseInv
  <2>4. ChildSides'
    BY <1>16, <2>1, <2>2 DEF ChildSides, ProxySides, Living, Exit
  <2>5. ProxySides'
    BY <1>16, <2>3 DEF ProxySides, Ptys, Exit
  <2> QED
    BY <2>4, <2>5
<1>17. CASE Tick
  BY <1>17, PtysAssumption DEF Tick, TypeOK, PhaseInv, ChildSides, ProxySides,
     Living, Ptys, Processes, Sides
<1>18. CASE SetUp
  BY <1>18, PtysAssumption DEF SetUp, TypeOK, PhaseInv, ChildSides, ProxySides,
     Living, Ptys, Processes, Sides, timers
<1>19. CASE SetUpFails
  <2>1. \A c \in Ptys : Same(c)
    BY <1>19, PtysAssumption DEF SetUpFails, TypeOK, Ptys, Processes
  <2>2. ProxySlaves' = {} /\ phase' = "setup_failed"
    BY <1>19, PtysAssumption DEF SetUpFails, TypeOK, Processes
  <2> QED
    BY <1>19, <2>1, <2>2 DEF ChildSides, ProxySides, Living, Ptys
<1>20. CASE EarlySignal
  <2>1. \A c \in Ptys : Same(c)
    BY <1>20, PtysAssumption DEF EarlySignal, TypeOK, Ptys, Processes
  <2>2. ProxySlaves' = {} /\ phase' = "killed"
    BY <1>20, PtysAssumption DEF EarlySignal, TypeOK, Processes
  <2> QED
    BY <1>20, <2>1, <2>2 DEF ChildSides, ProxySides, Living, Ptys
<1>21. CASE StdioError
  <2>1. \A c \in Ptys : Same(c)
    BY <1>21, PtysAssumption DEF StdioError, TypeOK, Ptys, Processes
  <2>2. ProxySlaves' = {} /\ phase' = "stdio_failed"
    BY <1>21, PtysAssumption DEF StdioError, TypeOK, Processes
  <2> QED
    BY <1>21, <2>1, <2>2 DEF ChildSides, ProxySides, Living, Ptys
<1>22. CASE UNCHANGED vars
  BY <1>22 DEF vars, timers, TypeOK, PhaseInv, ChildSides, ProxySides, Living,
     Ptys, Processes, Sides
<1> QED
  BY <1>1, <1>2, <1>3, <1>4, <1>5, <1>6, <1>7, <1>8, <1>9, <1>10, <1>11,
     <1>12, <1>13, <1>14, <1>15, <1>16, <1>17, <1>18,
     <1>19, <1>20, <1>21, <1>22 DEF Next

\* Every step keeps account of the children.
LEMMA ToldStep ==
    ASSUME TypeOK, PhaseInv, ChildSides, ProxySides, Replaced, NoneForgotten,
           [Next]_vars
    PROVE  Replaced' /\ NoneForgotten'

<1>1. CASE OpenPty
  BY <1>1, PtysAssumption DEF OpenPty, TypeOK, PhaseInv, Replaced,
     NoneForgotten, Reconnecting, Spawning, Living, Ptys
<1>2. CASE NoPty
  BY <1>2, PtysAssumption DEF NoPty, AttemptFailed, TypeOK, PhaseInv, Replaced,
     NoneForgotten, Reconnecting, Spawning, Living, Ptys
<1>3. CASE HalfPty
  BY <1>3, PtysAssumption DEF HalfPty, AttemptFailed, TypeOK, PhaseInv,
     Replaced, NoneForgotten, Reconnecting, Spawning, Living, Ptys
<1>4. CASE Fork
  BY <1>4, PtysAssumption DEF Fork, TypeOK, PhaseInv, Replaced, NoneForgotten,
     Reconnecting, Spawning, Living, Ptys
<1>5. CASE NoFork
  BY <1>5, PtysAssumption DEF NoFork, AttemptFailed, TypeOK, PhaseInv,
     Replaced, NoneForgotten, Reconnecting, Spawning, Living, Ptys
<1>6. CASE Adopt
  BY <1>6, PtysAssumption DEF Adopt, TypeOK, PhaseInv, Replaced, NoneForgotten,
     Reconnecting, Spawning, Living, Ptys
<1>7. CASE NoMaster
  BY <1>7, PtysAssumption DEF NoMaster, AttemptFailed, TypeOK, PhaseInv,
     Replaced, NoneForgotten, Reconnecting, Spawning, Living, Ptys
<1>8. CASE Retry
  BY <1>8, PtysAssumption DEF Retry, TypeOK, PhaseInv, Replaced, NoneForgotten,
     Reconnecting, Spawning, Living, Ptys
<1>9. CASE EndOfFile
  BY <1>9, PtysAssumption DEF EndOfFile, BeginReconnect, ToWaiting, TypeOK,
     PhaseInv, Replaced, NoneForgotten, Reconnecting, Spawning, Living, Ptys
<1>10. CASE Hangup
  BY <1>10, PtysAssumption DEF Hangup, BeginReconnect, TypeOK, PhaseInv,
     Replaced, NoneForgotten, Reconnecting, Spawning, Living, Ptys
<1>11. CASE LeaveLoop
  BY <1>11, PtysAssumption DEF LeaveLoop, ToWaiting, TypeOK, PhaseInv,
     Replaced, NoneForgotten, Reconnecting, Spawning, Living, Ptys
<1>12. CASE WriteError
  <2>1. child \in Ptys /\ state[child] \notin Living
    <3>1. child \in Ptys /\ child \in Processes
      BY <1>12, PtysAssumption DEF WriteError, PhaseInv, Ptys, Processes
    <3>2. <<child, "slave">> \notin holds[child]
      BY <1>12, <3>1 DEF WriteError, SlaveOpen
    <3> QED
      BY <3>1, <3>2 DEF ChildSides
  <2> QED
    BY <1>12, <2>1 DEF WriteError, Replaced, NoneForgotten, Reconnecting,
       Spawning
<1>13. CASE Reap
  BY <1>13, PtysAssumption DEF Reap, TypeOK, PhaseInv, Replaced, NoneForgotten,
     Reconnecting, Spawning, Living, Ptys
<1>14. ASSUME NEW c \in Ptys, Exec(c) PROVE Replaced' /\ NoneForgotten'
  BY <1>14, PtysAssumption DEF Exec, TypeOK, PhaseInv, Replaced, NoneForgotten,
     Reconnecting, Spawning, Living, Ptys
<1>15. ASSUME NEW c \in Ptys, ExecFails(c) PROVE Replaced' /\ NoneForgotten'
  BY <1>15, PtysAssumption DEF ExecFails, TypeOK, PhaseInv, Replaced,
     NoneForgotten, Reconnecting, Spawning, Living, Ptys
<1>16. ASSUME NEW c \in Ptys, Exit(c) PROVE Replaced' /\ NoneForgotten'
  BY <1>16, PtysAssumption DEF Exit, TypeOK, PhaseInv, Replaced, NoneForgotten,
     Reconnecting, Spawning, Living, Ptys
<1>17. CASE Tick
  BY <1>17, PtysAssumption DEF Tick, TypeOK, PhaseInv, Replaced, NoneForgotten,
     Reconnecting, Spawning, Living, Ptys
<1>18. CASE SetUp
  BY <1>18, PtysAssumption DEF SetUp, TypeOK, PhaseInv, Replaced,
     NoneForgotten, Reconnecting, Spawning, Living, Ptys
<1>19. CASE SetUpFails
  BY <1>19, PtysAssumption DEF SetUpFails, TypeOK, PhaseInv, Replaced,
     NoneForgotten, Reconnecting, Spawning, Living, Ptys
<1>20. CASE EarlySignal
  BY <1>20, PtysAssumption DEF EarlySignal, TypeOK, PhaseInv, Replaced,
     NoneForgotten, Reconnecting, Spawning, Living, Ptys
<1>21. CASE StdioError
  BY <1>21, PtysAssumption DEF StdioError, TypeOK, PhaseInv, Replaced,
     NoneForgotten, Reconnecting, Spawning, Living, Ptys
<1>22. CASE UNCHANGED vars
  BY <1>22 DEF vars, timers, TypeOK, PhaseInv, Replaced, NoneForgotten,
     Reconnecting, Spawning, Living, Ptys
<1> QED
  BY <1>1, <1>2, <1>3, <1>4, <1>5, <1>6, <1>7, <1>8, <1>9, <1>10, <1>11,
     <1>12, <1>13, <1>14, <1>15, <1>16, <1>17, <1>18,
     <1>19, <1>20, <1>21, <1>22 DEF Next

\* Every step keeps the bounds on the time spent in reconnect().
LEMMA TimeStep ==
    ASSUME TypeOK, PhaseInv, TimeoutKept, [Next]_vars
    PROVE  TimeoutKept'

<1>1. CASE OpenPty
  BY <1>1, PolicyType DEF OpenPty, TypeOK, PhaseInv, TimeoutKept, Reconnecting,
     Spawning, timers
<1>2. CASE NoPty
  BY <1>2, DelayBound, PolicyType DEF NoPty, AttemptFailed, TypeOK, PhaseInv,
     TimeoutKept, Reconnecting, Spawning, timers
<1>3. CASE HalfPty
  BY <1>3, DelayBound, PolicyType DEF HalfPty, AttemptFailed, TypeOK, PhaseInv,
     TimeoutKept, Reconnecting, Spawning, timers
<1>4. CASE Fork
  BY <1>4, PolicyType DEF Fork, TypeOK, PhaseInv, TimeoutKept, Reconnecting,
     Spawning, timers
<1>5. CASE NoFork
  BY <1>5, DelayBound, PolicyType DEF NoFork, AttemptFailed, TypeOK, PhaseInv,
     TimeoutKept, Reconnecting, Spawning, timers
<1>6. CASE Adopt
  BY <1>6, PolicyType DEF Adopt, TypeOK, PhaseInv, TimeoutKept, Reconnecting,
     Spawning, timers
<1>7. CASE NoMaster
  BY <1>7, DelayBound, PolicyType DEF NoMaster, AttemptFailed, TypeOK,
     PhaseInv, TimeoutKept, Reconnecting, Spawning, timers
<1>8. CASE Retry
  BY <1>8, PolicyType DEF Retry, TypeOK, PhaseInv, TimeoutKept, Reconnecting,
     Spawning, timers
<1>9. CASE EndOfFile
  BY <1>9, PolicyType DEF EndOfFile, BeginReconnect, ToWaiting, TypeOK,
     PhaseInv, TimeoutKept, Reconnecting, Spawning, timers
<1>10. CASE Hangup
  BY <1>10, PolicyType DEF Hangup, BeginReconnect, TypeOK, PhaseInv,
     TimeoutKept, Reconnecting, Spawning, timers
<1>11. CASE LeaveLoop
  BY <1>11, PolicyType DEF LeaveLoop, ToWaiting, TypeOK, PhaseInv, TimeoutKept,
     Reconnecting, Spawning, timers
<1>12. CASE WriteError
  BY <1>12, PolicyType DEF WriteError, TypeOK, PhaseInv, TimeoutKept,
     Reconnecting, Spawning, timers
<1>13. CASE Reap
  BY <1>13, PolicyType DEF Reap, TypeOK, PhaseInv, TimeoutKept, Reconnecting,
     Spawning, timers
<1>14. ASSUME NEW c \in Ptys, Exec(c) PROVE TimeoutKept'
  BY <1>14, PolicyType DEF Exec, TypeOK, PhaseInv, TimeoutKept, Reconnecting,
     Spawning, timers
<1>15. ASSUME NEW c \in Ptys, ExecFails(c) PROVE TimeoutKept'
  BY <1>15, PolicyType DEF ExecFails, TypeOK, PhaseInv, TimeoutKept,
     Reconnecting, Spawning, timers
<1>16. ASSUME NEW c \in Ptys, Exit(c) PROVE TimeoutKept'
  BY <1>16, PolicyType DEF Exit, TypeOK, PhaseInv, TimeoutKept, Reconnecting,
     Spawning, timers
<1>17. CASE Tick
  BY <1>17, PolicyType DEF Tick, LesserOf, TypeOK, PhaseInv, TimeoutKept,
     Reconnecting, Spawning, timers
<1>18. CASE SetUp
  BY <1>18, PolicyType DEF SetUp, TypeOK, PhaseInv, TimeoutKept, Reconnecting,
     Spawning, timers
<1>19. CASE SetUpFails
  BY <1>19, PolicyType DEF SetUpFails, TypeOK, PhaseInv, TimeoutKept,
     Reconnecting, Spawning, timers
<1>20. CASE EarlySignal
  BY <1>20, PolicyType DEF EarlySignal, TypeOK, PhaseInv, TimeoutKept,
     Reconnecting, Spawning, timers
<1>21. CASE StdioError
  BY <1>21, PolicyType DEF StdioError, TypeOK, PhaseInv, TimeoutKept,
     Reconnecting, Spawning, timers
<1>22. CASE UNCHANGED vars
  BY <1>22 DEF vars, timers, TypeOK, PhaseInv, TimeoutKept, Reconnecting,
     Spawning
<1> QED
  BY <1>1, <1>2, <1>3, <1>4, <1>5, <1>6, <1>7, <1>8, <1>9, <1>10, <1>11,
     <1>12, <1>13, <1>14, <1>15, <1>16, <1>17, <1>18,
     <1>19, <1>20, <1>21, <1>22 DEF Next

\* The first delay that is slept is a number.
LEMMA FirstDelayType ==
    ASSUME TypeOK
    PROVE  FirstDelay \in Nat /\ FirstDelay <= policy.initial_delay
BY PolicyType, LesserOfType DEF FirstDelay, TypeOK

\* What a failed attempt does to the phase and the clocks.
LEMMA AttemptTimes ==
    ASSUME TypeOK, NEW left, AttemptFailed(left)
    PROVE  /\ phase' \in {"gave_up", "backoff"} /\ policy' = policy
           /\ sinceTry' = sinceTry /\ wait' \in Nat
BY DelayBound DEF AttemptFailed, TypeOK

\* No sleep is shorter than the first.
LEMMA AttemptLasts ==
    ASSUME TypeOK, Lasted, NEW left, AttemptFailed(left)
    PROVE  next' >= FirstDelay /\ (phase' = "backoff" => wait' >= FirstDelay)
<1>1. /\ policy.max_delay \in Nat /\ policy.initial_delay \in Nat
      /\ next \in Nat /\ FirstDelay \in Nat
      /\ FirstDelay <= policy.max_delay /\ next >= FirstDelay
  BY PolicyType, LesserOfType DEF TypeOK, Lasted, FirstDelay
<1>2. NextDelay \in Nat /\ NextDelay >= FirstDelay
  BY <1>1 DEF NextDelay, LesserOf
<1>3. LesserOf(2 * NextDelay, policy.max_delay) >= FirstDelay
  BY <1>1, <1>2 DEF LesserOf
<1> QED
  BY <1>1, <1>2, <1>3 DEF AttemptFailed

\* Every step keeps apart the children told to end and the one in use.
LEMMA FreshStep ==
    ASSUME TypeOK, PhaseInv, Fresh, [Next]_vars
    PROVE  Fresh'
<1>1. CASE OpenPty
  BY <1>1, PtysAssumption DEF OpenPty, TypeOK, PhaseInv, Fresh, Living, Ptys,
     timers
<1>2. CASE NoPty
  BY <1>2, PtysAssumption DEF NoPty, AttemptFailed, TypeOK, PhaseInv, Fresh,
     Living, Ptys, timers
<1>3. CASE HalfPty
  BY <1>3, PtysAssumption DEF HalfPty, AttemptFailed, TypeOK, PhaseInv, Fresh,
     Living, Ptys, timers
<1>4. CASE Fork
  BY <1>4, PtysAssumption DEF Fork, TypeOK, PhaseInv, Fresh, Living, Ptys,
     timers
<1>5. CASE NoFork
  BY <1>5, PtysAssumption DEF NoFork, AttemptFailed, TypeOK, PhaseInv, Fresh,
     Living, Ptys, timers
<1>6. CASE Adopt
  BY <1>6, PtysAssumption DEF Adopt, TypeOK, PhaseInv, Fresh, Living, Ptys,
     timers
<1>7. CASE NoMaster
  BY <1>7, PtysAssumption DEF NoMaster, AttemptFailed, TypeOK, PhaseInv, Fresh,
     Living, Ptys, timers
<1>8. CASE Retry
  BY <1>8, PtysAssumption DEF Retry, TypeOK, PhaseInv, Fresh, Living, Ptys,
     timers
<1>9. CASE EndOfFile
  <2>1. CASE BeginReconnect
    <3>1. child \in 1..pty
      BY <1>9, PtysAssumption DEF EndOfFile, TypeOK, PhaseInv, Ptys
    <3> QED
      BY <1>9, <2>1, <3>1 DEF EndOfFile, BeginReconnect, Fresh
  <2>2. CASE ToWaiting
    BY <1>9, <2>2 DEF EndOfFile, ToWaiting, Fresh, timers
  <2> QED
    BY <1>9, <2>1, <2>2 DEF EndOfFile
<1>10. CASE Hangup
  BY <1>10, PtysAssumption DEF Hangup, BeginReconnect, TypeOK, PhaseInv, Fresh,
     Living, Ptys, timers
<1>11. CASE LeaveLoop
  BY <1>11, PtysAssumption DEF LeaveLoop, ToWaiting, TypeOK, PhaseInv, Fresh,
     Living, Ptys, timers
<1>12. CASE WriteError
  BY <1>12, PtysAssumption DEF WriteError, TypeOK, PhaseInv, Fresh, Living,
     Ptys, timers
<1>13. CASE Reap
  BY <1>13, PtysAssumption DEF Reap, TypeOK, PhaseInv, Fresh, Living, Ptys,
     timers
<1>14. ASSUME NEW c \in Ptys, Exec(c) PROVE Fresh'
  BY <1>14, PtysAssumption DEF Exec, TypeOK, PhaseInv, Fresh, Living, Ptys,
     timers
<1>15. ASSUME NEW c \in Ptys, ExecFails(c) PROVE Fresh'
  BY <1>15, PtysAssumption DEF ExecFails, TypeOK, PhaseInv, Fresh, Living,
     Ptys, timers
<1>16. ASSUME NEW c \in Ptys, Exit(c) PROVE Fresh'
  BY <1>16, PtysAssumption DEF Exit, TypeOK, PhaseInv, Fresh, Living, Ptys,
     timers
<1>17. CASE Tick
  BY <1>17, PtysAssumption DEF Tick, TypeOK, PhaseInv, Fresh, Living, Ptys,
     timers
<1>18. CASE SetUp
  BY <1>18, PtysAssumption DEF SetUp, TypeOK, PhaseInv, Fresh, Living, Ptys,
     timers
<1>19. CASE SetUpFails
  BY <1>19, PtysAssumption DEF SetUpFails, TypeOK, PhaseInv, Fresh, Living,
     Ptys, timers
<1>20. CASE EarlySignal
  BY <1>20, PtysAssumption DEF EarlySignal, TypeOK, PhaseInv, Fresh, Living,
     Ptys, timers
<1>21. CASE StdioError
  BY <1>21, PtysAssumption DEF StdioError, TypeOK, PhaseInv, Fresh, Living,
     Ptys, timers
<1>22. CASE UNCHANGED vars
  BY <1>22 DEF vars, TypeOK, PhaseInv, Fresh, Living, Ptys, timers
<1> QED
  BY <1>1, <1>2, <1>3, <1>4, <1>5, <1>6, <1>7, <1>8, <1>9, <1>10, <1>11, <1>12,
     <1>13, <1>14, <1>15, <1>16, <1>17, <1>18, <1>19, <1>20, <1>21, <1>22 DEF
     Next

\* Every step keeps account of how long ago the last attempt was.
LEMMA LastedStep ==
    ASSUME TypeOK, PhaseInv, ChildSides, Fresh, Lasted, [Next]_vars
    PROVE  Lasted'
<1>1. CASE OpenPty
  BY <1>1, PolicyType, LifeAssumption, PtysAssumption DEF OpenPty, TypeOK,
     PhaseInv, Fresh, Lasted, FirstDelay, Living, Ptys, timers
<1>2. CASE NoPty
  <2>1. AttemptFailed(holds[0])
    BY <1>2 DEF NoPty
  <2>2. next' >= FirstDelay /\ (phase' = "backoff" => wait' >= FirstDelay)
    BY <2>1, AttemptLasts
  <2>3. /\ phase' \in {"gave_up", "backoff"} /\ policy' = policy
        /\ sinceTry' = sinceTry /\ wait' \in Nat
    BY <2>1, AttemptTimes
  <2> QED
    BY <2>2, <2>3, FirstDelayType DEF TypeOK, Lasted, FirstDelay
<1>3. CASE HalfPty
  <2>1. AttemptFailed(holds[0] \cup {<<pty + 1, "master">>})
    BY <1>3 DEF HalfPty
  <2>2. next' >= FirstDelay /\ (phase' = "backoff" => wait' >= FirstDelay)
    BY <2>1, AttemptLasts
  <2>3. /\ phase' \in {"gave_up", "backoff"} /\ policy' = policy
        /\ sinceTry' = sinceTry /\ wait' \in Nat
    BY <2>1, AttemptTimes
  <2> QED
    BY <2>2, <2>3, FirstDelayType DEF TypeOK, Lasted, FirstDelay
<1>4. CASE Fork
  BY <1>4, PolicyType, LifeAssumption, PtysAssumption DEF Fork, TypeOK,
     PhaseInv, Fresh, Lasted, FirstDelay, Living, Ptys, timers
<1>5. CASE NoFork
  <2>1. AttemptFailed(holds[0] \ ({pty} \X Sides))
    BY <1>5 DEF NoFork
  <2>2. next' >= FirstDelay /\ (phase' = "backoff" => wait' >= FirstDelay)
    BY <2>1, AttemptLasts
  <2>3. /\ phase' \in {"gave_up", "backoff"} /\ policy' = policy
        /\ sinceTry' = sinceTry /\ wait' \in Nat
    BY <2>1, AttemptTimes
  <2> QED
    BY <2>2, <2>3, FirstDelayType DEF TypeOK, Lasted, FirstDelay
<1>6. CASE Adopt
  BY <1>6, PolicyType, LifeAssumption, PtysAssumption DEF Adopt, TypeOK,
     PhaseInv, Fresh, Lasted, FirstDelay, Living, Ptys, timers
<1>7. CASE NoMaster
  <2>1. AttemptFailed(holds[0] \ ({pty} \X Sides))
    BY <1>7 DEF NoMaster
  <2>2. next' >= FirstDelay /\ (phase' = "backoff" => wait' >= FirstDelay)
    BY <2>1, AttemptLasts
  <2>3. /\ phase' \in {"gave_up", "backoff"} /\ policy' = policy
        /\ sinceTry' = sinceTry /\ wait' \in Nat
    BY <2>1, AttemptTimes
  <2> QED
    BY <2>2, <2>3, FirstDelayType DEF TypeOK, Lasted, FirstDelay
<1>8. CASE Retry
  BY <1>8, PolicyType, LifeAssumption, PtysAssumption DEF Retry, TypeOK,
     PhaseInv, Fresh, Lasted, FirstDelay, Living, Ptys, timers
<1>9. CASE EndOfFile
  <2>1. CASE BeginReconnect
    BY <1>9, <2>1, FirstDelayType, PolicyType DEF EndOfFile, BeginReconnect,
       Lasted, FirstDelay, TypeOK
  <2>2. CASE ToWaiting
    BY <1>9, <2>2 DEF EndOfFile, ToWaiting, Lasted, FirstDelay, timers
  <2> QED
    BY <1>9, <2>1, <2>2 DEF EndOfFile
<1>10. CASE Hangup
  BY <1>10, FirstDelayType, PolicyType DEF Hangup, BeginReconnect, Lasted,
     FirstDelay, TypeOK
<1>11. CASE LeaveLoop
  BY <1>11, PolicyType, LifeAssumption, PtysAssumption DEF LeaveLoop,
     ToWaiting, TypeOK, PhaseInv, Fresh, Lasted, FirstDelay, Living, Ptys,
     timers
<1>12. CASE WriteError
  BY <1>12, PolicyType, LifeAssumption, PtysAssumption DEF WriteError, TypeOK,
     PhaseInv, Fresh, Lasted, FirstDelay, Living, Ptys, timers
<1>13. CASE Reap
  BY <1>13, PolicyType, LifeAssumption, PtysAssumption DEF Reap, TypeOK,
     PhaseInv, Fresh, Lasted, FirstDelay, Living, Ptys, timers
<1>14. ASSUME NEW c \in Ptys, Exec(c) PROVE Lasted'
  BY <1>14, PolicyType, LifeAssumption, PtysAssumption DEF Exec, TypeOK,
     PhaseInv, Fresh, Lasted, FirstDelay, Living, Ptys, timers
<1>15. ASSUME NEW c \in Ptys, ExecFails(c) PROVE Lasted'
  BY <1>15, PolicyType, LifeAssumption, PtysAssumption DEF ExecFails, TypeOK,
     PhaseInv, Fresh, Lasted, FirstDelay, Living, Ptys, timers
<1>16. ASSUME NEW c \in Ptys, Exit(c) PROVE Lasted'
  BY <1>16, PolicyType, LifeAssumption, PtysAssumption DEF Exit, TypeOK,
     PhaseInv, Fresh, Lasted, FirstDelay, Living, Ptys, timers
<1>17. CASE Tick
  <2>1. /\ phase' = phase /\ policy' = policy /\ next' = next
        /\ child' = child /\ state' = state
        /\ age \in Nat /\ sinceTry \in Nat /\ wait \in Nat
        /\ policy.initial_delay \in Nat /\ FirstDelay \in Nat /\ MinLife \in Nat
    BY <1>17, FirstDelayType, PolicyType, LifeAssumption DEF Tick, TypeOK
  <2>2. age' = LesserOf(age + 1, MinLife)
        /\ sinceTry' = LesserOf(sinceTry + 1, policy.initial_delay)
    BY <1>17 DEF Tick
  <2>3. phase \in {"setup", "serving"} => \/ state[child] \in Living
                                          \/ age' >= MinLife
    BY <2>1, <2>2 DEF Lasted, LesserOf
  <2>4. phase \in {"setup", "serving"} =>
            sinceTry' >= age' \/ sinceTry' >= policy.initial_delay
    BY <2>1, <2>2 DEF Lasted, LesserOf
  <2>5. phase = "backoff" => wait' = wait - 1
    BY <1>17 DEF Tick
  <2>6. phase = "backoff" => \/ sinceTry' + wait' >= FirstDelay
                            \/ sinceTry' >= policy.initial_delay
    BY <2>1, <2>2, <2>5, <1>17 DEF Lasted, LesserOf, Tick
  <2> QED
    BY <2>1, <2>3, <2>4, <2>6 DEF Lasted, FirstDelay
<1>18. CASE SetUp
  BY <1>18, PolicyType, LifeAssumption, PtysAssumption DEF SetUp, TypeOK,
     PhaseInv, Fresh, Lasted, FirstDelay, Living, Ptys, timers
<1>19. CASE SetUpFails
  BY <1>19, PolicyType, LifeAssumption, PtysAssumption DEF SetUpFails, TypeOK,
     PhaseInv, Fresh, Lasted, FirstDelay, Living, Ptys, timers
<1>20. CASE EarlySignal
  BY <1>20, PolicyType, LifeAssumption, PtysAssumption DEF EarlySignal, TypeOK,
     PhaseInv, Fresh, Lasted, FirstDelay, Living, Ptys, timers
<1>21. CASE StdioError
  BY <1>21, PolicyType, LifeAssumption, PtysAssumption DEF StdioError, TypeOK,
     PhaseInv, Fresh, Lasted, FirstDelay, Living, Ptys, timers
<1>22. CASE UNCHANGED vars
  BY <1>22 DEF vars, TypeOK, PhaseInv, Fresh, Lasted, FirstDelay, Living, Ptys,
     timers
<1> QED
  BY <1>1, <1>2, <1>3, <1>4, <1>5, <1>6, <1>7, <1>8, <1>9, <1>10, <1>11, <1>12,
     <1>13, <1>14, <1>15, <1>16, <1>17, <1>18, <1>19, <1>20, <1>21, <1>22 DEF
     Next

\* A step that only gives up sides keeps account of them.
LEMMA HoldsQuiet ==
    ASSUME HoldsInv, state' = state, child' = child, pty' = pty,
           \A c \in Ptys : holds'[c] = holds[c],
           \A fd \in holds'[0] : fd \in holds[0],
           phase' = "fork" => phase = "fork",
           \A fd \in holds'[0] :
               fd[1] = pty /\ phase \in {"fork", "adopt"}
                   => phase' \in {"fork", "adopt"}
    PROVE  HoldsInv'
<1>1. Forked'
  BY DEF HoldsInv, Forked
<1>2. ProxyHolds'
  BY DEF HoldsInv, ProxyHolds
<1>3. Inherited'
  BY DEF HoldsInv, Inherited
<1> QED
  BY <1>1, <1>2, <1>3 DEF HoldsInv

\* A step of a child keeps account of the sides it gives up.
LEMMA HoldsChild ==
    ASSUME TypeOK, HoldsInv, NEW c \in Ptys, state[c] # "none",
           state' = [state EXCEPT ![c] = state'[c]], state'[c] # "none",
           child' = child, pty' = pty, phase' = phase,
           \A proc \in Processes : holds'[proc] \subseteq holds[proc]
    PROVE  HoldsInv'
<1>1. \A p \in Ptys : state'[p] = "none" <=> state[p] = "none"
  <2> DEFINE new == state'[c]
  <2>1. new # "none" /\ state' = [state EXCEPT ![c] = new]
    OBVIOUS
  <2> HIDE DEF new
  <2> QED
    BY <2>1 DEF TypeOK
<1>2. \A proc \in Ptys \cup {0} : /\ proc \in Processes
                                   /\ \A fd \in holds[proc] : fd[1] \in Ptys
  BY PtysAssumption DEF TypeOK, Ptys, Processes
<1>3. Forked'
  BY <1>1 DEF HoldsInv, Forked
<1>4. ProxyHolds'
  BY <1>1, <1>2 DEF HoldsInv, ProxyHolds
<1>5. Inherited'
  BY <1>1, <1>2 DEF HoldsInv, Inherited
<1> QED
  BY <1>3, <1>4, <1>5 DEF HoldsInv

\* Every step keeps account of who has which side of which PTY.
LEMMA HoldsStep ==
    ASSUME TypeOK, PhaseInv, ChildSides, HoldsInv, [Next]_vars
    PROVE  HoldsInv'
<1>0. \A p \in Ptys : p \in Processes /\ p # 0
  BY PtysAssumption DEF Ptys, Processes
<1>1. CASE OpenPty
  <2>1. /\ state' = state /\ child' = child /\ pty' = pty + 1 /\ phase' = "fork"
        /\ holds'[0] = holds[0] \cup ({pty + 1} \X Sides)
        /\ \A c \in Ptys : holds'[c] = holds[c]
    BY <1>0, <1>1, PtysAssumption DEF OpenPty, TypeOK, Processes
  <2>2. Forked'
    BY <2>1 DEF HoldsInv, Forked, TypeOK, Ptys
  <2>3. ProxyHolds'
    <3> SUFFICES ASSUME NEW fd \in holds'[0]
                 PROVE  /\ fd[1] <= pty + 1
                        /\ \/ fd[1] = pty + 1
                           \/ fd = <<child, "master">>
                           \/ state[fd[1]] = "none"
      BY <2>1 DEF ProxyHolds
    <3>1. CASE fd \in {pty + 1} \X Sides
      BY <3>1 DEF TypeOK
    <3>2. CASE fd \in holds[0]
      <4>1. fd \in Ptys \X Sides
        BY <3>2, PtysAssumption DEF TypeOK, Processes
      <4> QED
        BY <1>1, <3>2, <4>1 DEF HoldsInv, ProxyHolds, OpenPty, TypeOK, Ptys
    <3> QED
      BY <2>1, <3>1, <3>2
  <2>4. Inherited'
    BY <2>1 DEF HoldsInv, Inherited
  <2> QED
    BY <2>2, <2>3, <2>4 DEF HoldsInv
<1>2. CASE NoPty
  BY <1>2, HoldsQuiet, PtysAssumption DEF NoPty, AttemptFailed, TypeOK, Ptys,
     Processes, timers
<1>3. CASE HalfPty
  <2>1. /\ state' = state /\ child' = child /\ pty' = pty + 1
        /\ phase' \in {"gave_up", "backoff"}
        /\ holds'[0] \subseteq holds[0] \cup {<<pty + 1, "master">>}
        /\ \A c \in Ptys : holds'[c] = holds[c]
    BY <1>0, <1>3, PtysAssumption DEF HalfPty, AttemptFailed, TypeOK, Processes
  <2>2. pty \in Nat /\ pty + 1 \in Ptys
    BY <1>3, PtysAssumption DEF HalfPty, TypeOK, Ptys
  <2>3. Forked' /\ state[pty + 1] = "none"
    BY <2>1, <2>2 DEF HoldsInv, Forked, Ptys
  <2>4. ProxyHolds'
    <3> SUFFICES ASSUME NEW fd \in holds'[0]
                 PROVE  /\ fd[1] <= pty + 1
                        /\ fd = <<child, "master">> \/ state[fd[1]] = "none"
      BY <2>1 DEF ProxyHolds
    <3>1. CASE fd = <<pty + 1, "master">>
      BY <2>2, <2>3, <3>1
    <3>2. CASE fd \in holds[0]
      <4>1. fd \in Ptys \X Sides
        BY <3>2, PtysAssumption DEF TypeOK, Processes
      <4> QED
        BY <1>3, <3>2, <4>1 DEF HoldsInv, ProxyHolds, HalfPty, TypeOK, Ptys
    <3> QED
      BY <2>1, <3>1, <3>2
  <2>5. Inherited'
    BY <2>1 DEF HoldsInv, Inherited
  <2> QED
    BY <2>3, <2>4, <2>5 DEF HoldsInv
<1>4. CASE Fork
  <2>1. /\ child' = child /\ pty' = pty /\ phase' = "adopt" /\ pty \in Ptys
        /\ holds'[0] = holds[0] /\ holds'[pty] = holds[0]
        /\ state[pty] = "none" /\ state'[pty] = "forked"
    BY <1>0, <1>4, PtysAssumption DEF Fork, TypeOK, Processes, PhaseInv,
       HoldsInv, Forked, Ptys
  <2>2. \A c \in Ptys : c # pty => holds'[c] = holds[c] /\ state'[c] = state[c]
    BY <1>0, <1>4 DEF Fork, TypeOK
  <2>3. \A proc \in Processes : holds[proc] \subseteq Ptys \X Sides
    BY DEF TypeOK
  <2>4. Forked'
    BY <1>4, <2>1, <2>2 DEF HoldsInv, Forked, Fork
  <2>5. ProxyHolds'
    <3> SUFFICES ASSUME NEW fd \in holds[0], fd[1] # pty
                 PROVE  /\ fd[1] <= pty
                        /\ \/ fd = <<child, "master">>
                           \/ state'[fd[1]] = "none"
      BY <2>1 DEF ProxyHolds, TypeOK
    <3>1. fd \in Ptys \X Sides
      BY <2>3, PtysAssumption DEF Processes
    <3> QED
      BY <2>2, <3>1 DEF HoldsInv, ProxyHolds
  <2>6. Inherited'
    <3> SUFFICES ASSUME NEW c \in Ptys
                 PROVE  \E q \in Processes : \A fd \in holds'[c] :
                            /\ fd[1] <= c
                            /\ \/ fd[1] = c
                               \/ fd = <<q, "master">>
                               \/ state'[fd[1]] = "none"
      BY DEF Inherited
    <3>1. CASE c = pty
      <4>1. child \in Processes
        BY PtysAssumption DEF TypeOK, Processes
      <4>2. \A fd \in holds[0] : fd[1] <= pty
        BY DEF HoldsInv, ProxyHolds
      <4>3. \A fd \in holds[0] : fd[1] = pty \/ fd = <<child, "master">>
                                  \/ state'[fd[1]] = "none"
        BY <2>1, <2>5 DEF ProxyHolds
      <4> QED
        BY <2>1, <3>1, <4>1, <4>2, <4>3
    <3>2. CASE c # pty /\ state[c] = "none"
      <4>1. holds'[c] = {}
        BY <2>2, <3>2 DEF ChildSides, Living
      <4> QED
        BY <1>0, <4>1
    <3>3. CASE c # pty /\ state[c] # "none"
      <4>1. c < pty
        BY <3>3 DEF HoldsInv, Forked
      <4>2. PICK q \in Processes : \A fd \in holds[c] :
                /\ fd[1] <= c
                /\ fd[1] = c \/ fd = <<q, "master">> \/ state[fd[1]] = "none"
        BY DEF HoldsInv, Inherited
      <4>3. \A fd \in holds[c] : fd \in Ptys \X Sides /\ fd[1] # pty
        BY <1>0, <2>1, <2>3, <4>1, <4>2 DEF Ptys
      <4> QED
        BY <2>2, <3>3, <4>2, <4>3
    <3> QED
      BY <3>1, <3>2, <3>3
  <2> QED
    BY <2>4, <2>5, <2>6 DEF HoldsInv
<1>5. CASE NoFork
  BY <1>5, HoldsQuiet, PtysAssumption DEF NoFork, AttemptFailed, TypeOK,
     HoldsInv, ProxyHolds, Sides, Ptys,
     Processes, timers
<1>6. CASE Adopt
  <2>1. /\ child' = pty /\ pty' = pty /\ phase' \in {"setup", "serving"}
        /\ state' = state /\ phase = "adopt"
        /\ holds'[0] = holds[0] \ {<<pty, "slave">>, <<child, "master">>}
        /\ \A c \in Ptys : holds'[c] = holds[c]
    BY <1>0, <1>6, PtysAssumption DEF Adopt, TypeOK, Processes
  <2>2. Forked' /\ Inherited'
    BY <2>1 DEF HoldsInv, Forked, Inherited
  <2>3. ProxyHolds'
    <3> SUFFICES ASSUME NEW fd \in holds'[0]
                 PROVE  /\ fd[1] <= pty
                        /\ fd = <<pty, "master">> \/ state[fd[1]] = "none"
      BY <2>1 DEF ProxyHolds
    <3>1. fd \in Ptys \X Sides /\ fd \in holds[0]
      BY <2>1, PtysAssumption DEF TypeOK, Processes
    <3>2. fd[1] = pty => fd = <<pty, "master">>
      BY <2>1, <3>1 DEF Sides
    <3> QED
      BY <2>1, <3>1, <3>2 DEF HoldsInv, ProxyHolds
  <2> QED
    BY <2>2, <2>3 DEF HoldsInv
<1>7. CASE NoMaster
  BY <1>7, HoldsQuiet, PtysAssumption DEF NoMaster, AttemptFailed, TypeOK,
     HoldsInv, ProxyHolds, Sides, Ptys,
     Processes, timers
<1>8. CASE Retry
  BY <1>8, HoldsQuiet, PtysAssumption DEF Retry, TypeOK, Ptys,
     Processes, timers
<1>9. CASE EndOfFile
  BY <1>9, HoldsQuiet, PtysAssumption DEF EndOfFile, BeginReconnect,
     ToWaiting, TypeOK, Ptys, Processes, timers
<1>10. CASE Hangup
  BY <1>10, HoldsQuiet, PtysAssumption DEF Hangup, BeginReconnect, TypeOK, Ptys,
     Processes, timers
<1>11. CASE LeaveLoop
  BY <1>11, HoldsQuiet, PtysAssumption DEF LeaveLoop, ToWaiting, TypeOK, Ptys,
     Processes, timers
<1>12. CASE WriteError
  BY <1>12, HoldsQuiet, PtysAssumption DEF WriteError, TypeOK, Ptys,
     Processes, timers
<1>13. CASE Reap
  <2>1. child \in Ptys /\ phase' = "ended" /\ state'[child] = "reaped"
    BY <1>13 DEF Reap, PhaseInv, TypeOK
  <2>2. \A c \in Ptys : c # child => state'[c] = state[c]
    BY <1>13 DEF Reap, TypeOK
  <2>3. /\ holds'[0] = {} /\ \A c \in Ptys : holds'[c] = holds[c]
        /\ pty' = pty /\ state[child] = "zombie" /\ phase = "waiting"
    BY <1>0, <1>13, PtysAssumption DEF Reap, TypeOK, Processes
  <2>4. \A p \in Ptys : state'[p] = "none" <=> state[p] = "none"
    BY <2>1, <2>2, <2>3
  <2>5. \A c \in Ptys : \A fd \in holds[c] : fd[1] \in Ptys
    BY <1>0 DEF TypeOK
  <2>6. Forked' /\ ProxyHolds' /\ Inherited'
    BY <2>1, <2>3, <2>4, <2>5 DEF HoldsInv, Forked, ProxyHolds, Inherited
  <2> QED
    BY <2>6 DEF HoldsInv
<1>14. ASSUME NEW c \in Ptys, Exec(c) PROVE HoldsInv'
  <2>1. state[c] # "none" /\ state'[c] # "none"
    BY <1>14 DEF Exec, TypeOK
  <2>2. \A proc \in Processes : holds'[proc] \subseteq holds[proc]
    BY <1>14 DEF Exec, TypeOK
  <2> QED
    BY <1>14, <2>1, <2>2, HoldsChild DEF Exec
<1>15. ASSUME NEW c \in Ptys, ExecFails(c) PROVE HoldsInv'
  <2>1. state[c] # "none" /\ state'[c] # "none"
    BY <1>15 DEF ExecFails, TypeOK
  <2>2. \A proc \in Processes : holds'[proc] \subseteq holds[proc]
    BY <1>15 DEF ExecFails, TypeOK
  <2> QED
    BY <1>15, <2>1, <2>2, HoldsChild DEF ExecFails
<1>16. ASSUME NEW c \in Ptys, Exit(c) PROVE HoldsInv'
  <2>1. state[c] # "none" /\ state'[c] # "none"
    BY <1>16 DEF Exit, TypeOK
  <2>2. \A proc \in Processes : holds'[proc] \subseteq holds[proc]
    BY <1>16 DEF Exit, TypeOK
  <2> QED
    BY <1>16, <2>1, <2>2, HoldsChild DEF Exit
<1>17. CASE Tick
  BY <1>17, HoldsQuiet, PtysAssumption DEF Tick, TypeOK, Ptys,
     Processes, timers
<1>18. CASE SetUp
  BY <1>18, HoldsQuiet, PtysAssumption DEF SetUp, TypeOK, Ptys,
     Processes, timers
<1>19. CASE SetUpFails
  BY <1>19, HoldsQuiet, PtysAssumption DEF SetUpFails, TypeOK, Ptys,
     Processes, timers
<1>20. CASE EarlySignal
  BY <1>20, HoldsQuiet, PtysAssumption DEF EarlySignal, TypeOK, Ptys,
     Processes, timers
<1>21. CASE StdioError
  BY <1>21, HoldsQuiet, PtysAssumption DEF StdioError, TypeOK, Ptys,
     Processes, timers
<1>22. CASE UNCHANGED vars
  BY <1>22, HoldsQuiet DEF vars
<1> QED
  BY <1>1, <1>2, <1>3, <1>4, <1>5, <1>6, <1>7, <1>8, <1>9, <1>10, <1>11,
     <1>12, <1>13, <1>14, <1>15, <1>16, <1>17, <1>18, <1>19, <1>20, <1>21,
     <1>22 DEF Next

-----------------------------------------------------------------------------

\* The conjunction of the above is an inductive invariant.
LEMMA ChildrenInvariant == Spec => []IInv
<1>1. Init => IInv
  <2> SUFFICES ASSUME Init
               PROVE  IInv
    OBVIOUS
  <2> USE PolicyType, PtysAssumption
  <2>1. TypeOK /\ PhaseInv
    <3>1. policy.initial_delay \in Nat /\ 0 \in 0..policy.initial_delay
      BY DEF Init
    <3>2. 0 \in 0..MinLife /\ 0 \in 0..MaxPtys
      BY LifeAssumption
    <3> QED
      BY <3>1, <3>2 DEF Init, TypeOK, PhaseInv, Phases, Ptys, Processes, Sides
  <2>2. ChildSides /\ ProxySides
    BY DEF Init, ChildSides, ProxySides, Living, Processes, Ptys
  <2>3. Replaced /\ NoneForgotten /\ TimeoutKept
    BY DEF Init, Replaced, NoneForgotten, TimeoutKept, Reconnecting, Living,
       Ptys
  <2>4. Fresh /\ Lasted
    BY FirstDelayType, <2>1 DEF Init, Fresh, Lasted, FirstDelay
  <2>5. HoldsInv
    BY DEF Init, HoldsInv, Forked, ProxyHolds, Inherited, Processes, Ptys
  <2> QED
    BY <2>1, <2>2, <2>3, <2>4, <2>5 DEF IInv
<1>2. IInv /\ [Next]_vars => IInv'
  BY TypeStep, SidesStep, ToldStep, TimeStep, FreshStep, LastedStep, HoldsStep
     DEF IInv
<1> QED
  BY <1>1, <1>2, PTL DEF Spec

\* Every variable keeps its type.
THEOREM ChildrenTypeCorrect == Spec => []TypeOK
<1>1. IInv => TypeOK
  BY DEF IInv
<1> QED
  BY <1>1, ChildrenInvariant, PTL

\* While a session is served, the slave side of its PTY is open exactly as long
\* as its child lives, in fork_ssh, spawn_ssh_master and reconnect() together.
THEOREM EndReachesProxy == Spec => []EndIsEof
<1>1. IInv => EndIsEof
  <2> SUFFICES ASSUME IInv, phase = "serving"
               PROVE  SlaveOpen(child) <=> state[child] \in Living
    BY DEF EndIsEof
  <2> USE PtysAssumption DEF IInv, Ptys, Processes
  <2>1. child \in Ptys
    BY DEF PhaseInv
  <2>2. <<child, "slave">> \notin holds[0]
    BY <2>1 DEF ProxySides
  <2>3. state[child] \in Living <=> <<child, "slave">> \in holds[child]
    BY <2>1 DEF ChildSides
  <2>4. \A proc \in Ptys : <<child, "slave">> \in holds[proc] => proc = child
    BY <2>1 DEF ChildSides
  <2> QED
    BY <2>1, <2>2, <2>3, <2>4 DEF SlaveOpen
<1> QED
  BY <1>1, ChildrenInvariant, PTL

\* No child of reconnect() is left running unnoticed.
THEOREM NoChildForgotten == Spec => []NoneForgotten
<1>1. IInv => NoneForgotten
  BY DEF IInv
<1> QED
  BY <1>1, ChildrenInvariant, PTL

\* reconnect() keeps its timeout, whatever the delays are.
THEOREM TimeoutCorrect == Spec => []TimeoutKept
<1>1. IInv => TimeoutKept
  BY DEF IInv
<1> QED
  BY <1>1, ChildrenInvariant, PTL

\* Attempts to spawn ssh keep the first delay between them, or a session's life:
\* the sleep of reconnect(), and the loss that calls it.  Only a SIGHUP that
\* finds the session alive is not kept waiting.
THEOREM AttemptsKeepDelay == Spec => AttemptsSpaced
<1>1. IInv /\ [Next]_vars
        => [phase # "open" /\ phase' = "open"
             => \/ phase = "serving" /\ SlaveOpen(child)
                \/ sinceTry >= LesserOf(LesserOf(policy.initial_delay,
                                                 policy.max_delay), MinLife)]_vars
  <2> SUFFICES ASSUME IInv, Next, phase # "open", phase' = "open",
                      ~(phase = "serving" /\ SlaveOpen(child))
               PROVE  sinceTry >= LesserOf(FirstDelay, MinLife)
    BY DEF FirstDelay
  <2>1. /\ TypeOK /\ PhaseInv /\ ChildSides /\ Fresh /\ Lasted
        /\ FirstDelay \in Nat /\ FirstDelay <= policy.initial_delay
    BY FirstDelayType DEF IInv
  <2>2. CASE Retry
    BY <2>1, <2>2, LifeAssumption, PolicyType DEF Retry, TypeOK, Lasted,
       LesserOf
  <2>3. CASE phase = "serving"
    <3>1. child \in Ptys /\ child \in Processes
      BY <2>1, <2>3, PtysAssumption DEF PhaseInv, Ptys, Processes
    <3>2. <<child, "slave">> \notin holds[child]
      BY <2>3, <3>1 DEF SlaveOpen
    <3>3. age >= MinLife
      BY <2>1, <2>3, <3>1, <3>2 DEF ChildSides, Lasted
    <3> QED
      BY <2>1, <2>3, <3>3, LifeAssumption, PolicyType DEF TypeOK, Lasted, LesserOf
  <2>4. Retry \/ Hangup \/ EndOfFile
    BY DEF Next, OpenPty, NoPty, HalfPty, Fork, NoFork, Adopt, NoMaster,
       AttemptFailed, SetUp, SetUpFails, EarlySignal, LeaveLoop, ToWaiting,
       StdioError, WriteError, Reap, Exec, ExecFails, Exit, Tick
  <2> QED
    BY <2>2, <2>3, <2>4 DEF Hangup, EndOfFile
<1> QED
  BY <1>1, ChildrenInvariant, PTL DEF Spec, AttemptsSpaced

\* Descriptors do not pile up with the sessions, though none is close-on-exec
\* and a child inherits what the proxy has (open_pty, fork_ssh, reconnect()).
THEOREM DescriptorsStayBounded == Spec => []DescriptorsBounded
<1>1. IInv => DescriptorsBounded
  <2> SUFFICES ASSUME IInv
               PROVE  DescriptorsBounded
    OBVIOUS
  <2>1. TypeOK /\ ChildSides /\ ProxyHolds /\ Inherited
    BY DEF IInv, HoldsInv
  <2>2. phase = "serving" =>
            \A fd \in holds[0] :
                fd = <<child, "master">> \/ state[fd[1]] = "none"
    BY <2>1 DEF ProxyHolds
  <2>3. ASSUME NEW c \in Ptys PROVE Cardinality(Others(c)) <= 1
    <3>1. PICK q \in Processes : \A fd \in holds[c] :
              fd[1] = c \/ fd = <<q, "master">> \/ state[fd[1]] = "none"
      BY <2>1, <2>3 DEF Inherited
    <3>2. Others(c) \subseteq {q}
      BY <3>1 DEF Others
    <3>3. IsFiniteSet({q}) /\ Cardinality({q}) = 1
      BY FS_Singleton
    <3>4. Cardinality(Others(c)) <= Cardinality({q})
      BY <3>2, <3>3, FS_Subset
    <3> QED
      BY <3>3, <3>4
  <2>4. \A c \in Ptys : \A p \in Ptys \ {c} : <<p, "slave">> \notin holds[c]
    BY <2>1 DEF ChildSides
  <2> QED
    BY <2>2, <2>3, <2>4 DEF DescriptorsBounded
<1> QED
  BY <1>1, ChildrenInvariant, PTL
=============================================================================
