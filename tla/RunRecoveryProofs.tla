--------------------------- MODULE RunRecoveryProofs ---------------------------
(***************************************************************************)
(* Crash recovery for any number of runs, pids, starts and crashes: two live *)
(* Agents on one worktree always have one of the named causes, a process     *)
(* that is no Agent is spared, and a running task has a running run.         *)
(***************************************************************************)
EXTENDS RunRecovery, TLAPS

\* Start times tell processes apart, and rows hold only those that were given.
HostShape ==
    /\ \A p, q \in Pids : host[p].start # 0 /\ host[p].start = host[q].start => p = q
    /\ \A p \in Pids : host[p].start <= starts
    /\ \A s \in recorded : s <= starts

\* A row has no process before its launch has read one, and the registry knows
\* processes of active runs only, while the application is up.
RowShape ==
    \A r \in Runs :
      /\ token[r] <= starts /\ own[r] <= starts
      /\ status[r] = "preparing" => pid[r] = NoPid /\ token[r] = 0
      /\ r \in launching => status[r] \in {"preparing", "exited"}
      /\ own[r] # 0 => active(r)
      /\ stage # "up" => own[r] = 0 /\ r \notin launching

\* A worktree has one active run at most.
OneActive ==
    \A r, q \in Runs :
      r # q /\ worktreeOf[r] = worktreeOf[q] /\ active(r) => ~active(q)

\* The routine works in its own stage; on an active row, on the pid of that row.
ProbeShape ==
    \A r \in Runs :
      /\ r \in todo => stage = "pass" /\ active(r)
      /\ probe[r] = "pass" => stage = "pass"
      /\ probe[r] \in {"cancel", "stop", "continue"} => stage = "up"
      /\ probe[r] # "none" => seen[r].pid \in Pids
      /\ probe[r] \in {"pass", "cancel", "stop"} =>
           /\ active(r) /\ own[r] = 0 /\ r \notin launching
           /\ pid[r] \in Pids /\ seen[r].pid = pid[r]

\* When the identity of a process of this instance is recorded, its row has it.
OwnRecorded ==
    \A r \in Runs, p \in Pids :
      host[p].run = r /\ host[p].start # 0 /\ host[p].start = own[r] =>
        \/ own[r] \notin recorded
        \/ r \notin launching /\ pid[r] = p /\ token[r] = own[r]

\* An Agent that was not let go still has the row that keeps others off its
\* worktree: through the registry, or through the identity the row recorded.
owned(p) ==
    LET r == host[p].run
    IN /\ active(r)
       /\ \/ own[r] = host[p].start
          \/ own[r] = 0 /\ pid[r] = p /\ token[r] = host[p].start
AgentsHeld == \A p \in Pids : isAgent(p) => letGo(host[p].start) \/ owned(p)

\* A recorded token is never the start time of a process that is no Agent.
AgentToken ==
    \A r \in Runs, p \in Pids :
      token[r] # 0 /\ host[p].start = token[r] => host[p].run # Stranger

\* What the routine goes on to kill was an Agent's process when it was read.
SeenAgent ==
    \A r \in Runs : probe[r] # "none" =>
      \/ token[r] = 0 /\ probe[r] \in {"pass", "stop"}
      \/ /\ seen[r].start # 0 /\ seen[r].start <= starts
         /\ \A p \in Pids : host[p].start = seen[r].start => host[p].run # Stranger

\* Only the pass interrupts runs, and it owes their task until it ends.
TaskShape ==
    /\ stage # "pass" => interrupted = {}
    /\ task = "running" => ~noActiveRun(status) \/ torn \/ interrupted # {}

RecoveryInv ==
    /\ TypeOK /\ HostShape /\ RowShape /\ OneActive /\ ProbeShape
    /\ OwnRecorded /\ AgentsHeld /\ AgentToken /\ SeenAgent /\ TaskShape

-----------------------------------------------------------------------------
(* What the types say of the host and of the survivor routine.              *)

LEMMA HostFacts ==
    ASSUME TypeOK
    PROVE  /\ \A p \in Pids : /\ host[p].start \in 0 .. MaxStarts
                              /\ host[p].run \in Runs \cup {Stranger}
                              /\ host[p].start = 0 <=> host[p] = Gone
           /\ \A r \in Runs : /\ seen[r].start \in 0 .. MaxStarts
                              /\ seen[r].pid \in Pids \cup {NoPid}
  BY RecoveryAssumption DEF TypeOK, Process, Gone

\* A new process has a start time no other process ever had.
LEMMA NewProcess ==
    ASSUME TypeOK, HostShape, NEW p \in Pids, NEW owner, newProcess(p, owner),
           UNCHANGED recorded
    PROVE  HostShape'
<1>1. starts \in Nat /\ starts' = starts + 1
  BY RecoveryAssumption DEF TypeOK, newProcess
<1>2. \A q \in Pids : host'[q].start = IF q = p THEN starts + 1 ELSE host[q].start
  BY DEF TypeOK, newProcess
<1>3. \A q \in Pids : host[q].start \in Nat /\ host[q].start <= starts
  BY RecoveryAssumption, HostFacts DEF HostShape
<1>4. \A s \in recorded : s \in Nat /\ s <= starts
  BY DEF HostShape, TypeOK
<1> QED BY <1>1, <1>2, <1>3, <1>4 DEF HostShape

\* A terminate adds the process it reaches to those that were told to stop.
LEMMA KillReaches ==
    ASSUME RecoveryInv, NEW r \in Runs, probe[r] # "none", killSucceeds(r) \/ killFails(r)
    PROVE  /\ signalled \subseteq signalled'
           /\ signalled' \subseteq 1 .. MaxStarts
<1>1. seen[r].pid \in Pids /\ signalled \subseteq 1 .. MaxStarts
  BY DEF RecoveryInv, ProbeShape, TypeOK
<1>2. host[seen[r].pid].start \in 0 .. MaxStarts
  BY <1>1, HostFacts DEF RecoveryInv
<1>3. {host[seen[r].pid].start} \ {0} \subseteq 1 .. MaxStarts
  BY <1>2, RecoveryAssumption DEF RecoveryAssumption
<1> QED BY <1>1, <1>3 DEF killSucceeds, killFails

-----------------------------------------------------------------------------
(* Every step keeps the invariant.                                          *)

LEMMA StartKeeps ==
    ASSUME RecoveryInv, NEW r \in Runs, Start(r)
    PROVE  RecoveryInv'
<1> USE RecoveryAssumption, HostFacts
    DEF RecoveryInv, RecoveryAssumption, TypeOK, rowVars, passVars, history, Gone, Unread
<1>1. TypeOK'
  BY DEF Start, prepare, Status, Terminal, ActiveStatus, noActiveRun
<1>2. RowShape'
  BY DEF Start, prepare, RowShape, active, ActiveStatus
<1>3. OneActive'
  BY DEF Start, prepare, OneActive, active, ActiveStatus, worktreeFree
<1>4. ProbeShape'
  BY DEF Start, prepare, ProbeShape, active, ActiveStatus
<1>5. OwnRecorded'
  BY DEF Start, prepare, OwnRecorded, RowShape, active, ActiveStatus
<1>6. AgentsHeld'
  BY DEF Start, prepare, AgentsHeld, isAgent, letGo, owned, active,
         ActiveStatus
<1>7. AgentToken'
  BY DEF Start, prepare, AgentToken
<1>8. SeenAgent'
  BY DEF Start, prepare, SeenAgent
<1>9. TaskShape'
  BY DEF Start, prepare, TaskShape, noActiveRun, ActiveStatus
<1>10. HostShape'
  BY DEF Start, prepare, HostShape
<1> QED BY <1>1, <1>2, <1>3, <1>4, <1>5, <1>6, <1>7, <1>8, <1>9, <1>10

LEMMA ResumeKeeps ==
    ASSUME RecoveryInv, NEW r \in Runs, Resume(r)
    PROVE  RecoveryInv'
<1> USE RecoveryAssumption, HostFacts
    DEF RecoveryInv, RecoveryAssumption, TypeOK, rowVars, passVars, history, Gone, Unread
<1>1. TypeOK'
  BY DEF Resume, prepare, Status, Terminal, ActiveStatus, noActiveRun
<1>2. RowShape'
  BY DEF Resume, prepare, RowShape, active, ActiveStatus
<1>3. OneActive'
  BY DEF Resume, prepare, OneActive, active, ActiveStatus, worktreeFree
<1>4. ProbeShape'
  BY DEF Resume, prepare, ProbeShape, active, ActiveStatus
<1>5. OwnRecorded'
  BY DEF Resume, prepare, OwnRecorded
<1>6. AgentsHeld'
  BY DEF Resume, prepare, AgentsHeld, isAgent, letGo, owned, active,
         ActiveStatus
<1>7. AgentToken'
  BY DEF Resume, prepare, AgentToken
<1>8. SeenAgent'
  BY DEF Resume, prepare, SeenAgent
<1>9. TaskShape'
  BY DEF Resume, prepare, TaskShape, noActiveRun, ActiveStatus
<1>10. HostShape'
  BY DEF Resume, prepare, HostShape
<1> QED BY <1>1, <1>2, <1>3, <1>4, <1>5, <1>6, <1>7, <1>8, <1>9, <1>10

LEMMA SpawnKeeps ==
    ASSUME RecoveryInv, NEW r \in Runs, NEW p \in Pids, Spawn(r, p)
    PROVE  RecoveryInv'
<1> USE RecoveryAssumption, HostFacts
    DEF RecoveryInv, RecoveryAssumption, TypeOK, rowVars, passVars, history, Gone, Unread
<1>1. TypeOK'
  BY DEF Spawn, newProcess, Process
<1>2. HostShape'
  BY NewProcess DEF Spawn, history
<1>3. RowShape'
  BY DEF Spawn, newProcess, RowShape, active, ActiveStatus
<1>4. ProbeShape'
  BY DEF Spawn, newProcess, ProbeShape, RowShape, active, ActiveStatus
<1>5. OwnRecorded'
  <2>1. \A q \in Pids : host'[q].start = IF q = p THEN starts + 1 ELSE host[q].start
    BY DEF Spawn, newProcess
  <2>2. \A q \in Pids : q # p => host'[q] = host[q]
    BY DEF Spawn, newProcess
  <2>3. \A s \in Runs : own'[s] = IF s = r THEN starts + 1 ELSE own[s]
    BY DEF Spawn
  <2>4. \A q \in Pids : host[q].start \in Nat /\ host[q].start <= starts
    BY DEF HostShape
  <2>5. \A s \in Runs : own[s] \in Nat /\ own[s] <= starts
    BY DEF RowShape
  <2>6. starts + 1 \notin recorded
    BY DEF HostShape
  <2>7. ASSUME NEW s \in Runs, NEW q \in Pids, host'[q].run = s, host'[q].start # 0,
               host'[q].start = own'[s]
        PROVE  \/ own'[s] \notin recorded'
               \/ s \notin launching' /\ pid'[s] = q /\ token'[s] = own'[s]
    <3>1. CASE s = r
      BY <2>3, <2>6, <3>1 DEF Spawn
    <3>2. CASE s # r
      BY <2>1, <2>2, <2>3, <2>4, <2>5, <2>7, <3>2 DEF Spawn, OwnRecorded
    <3> QED BY <3>1, <3>2
  <2> QED BY <2>7 DEF OwnRecorded
<1>6. AgentsHeld'
  BY DEF Spawn, newProcess, AgentsHeld, isAgent, letGo, owned, active,
         ActiveStatus, RowShape, HostShape, OwnRecorded, ProbeShape
<1>7. AgentToken'
  BY DEF Spawn, newProcess, AgentToken
<1>8. SeenAgent'
  BY DEF Spawn, newProcess, SeenAgent
<1>9. OneActive' /\ TaskShape'
  BY DEF Spawn, newProcess, OneActive, TaskShape, active, ActiveStatus,
         noActiveRun
<1> QED BY <1>1, <1>2, <1>3, <1>4, <1>5, <1>6, <1>7, <1>8, <1>9

LEMMA RecordProcessKeeps ==
    ASSUME RecoveryInv, NEW r \in Runs, RecordProcess(r)
    PROVE  RecoveryInv'
<1> USE RecoveryAssumption, HostFacts
    DEF RecoveryInv, RecoveryAssumption, TypeOK, rowVars, passVars, history, Gone, Unread
<1> r \in launching /\ launching' = launching \ {r} /\ stage = "up"
  BY DEF RecordProcess
<1>1. CASE ~active(r)
  <2>1. UNCHANGED <<stage, status, pid, token, exitKnown, task, host, starts, own, probe,
                    seen, todo, interrupted, reachable, broken, signalled, crashes,
                    recorded, unprobed, abandoned, torn>>
    BY <1>1 DEF RecordProcess
  <2> QED
    BY <2>1 DEF HostShape, RowShape, OneActive, ProbeShape, OwnRecorded, AgentsHeld,
                AgentToken, SeenAgent, TaskShape, active, isAgent, letGo, owned,
                noActiveRun
<1>2. CASE active(r)
  <2>1. status[r] = "preparing" /\ pid[r] = NoPid /\ token[r] = 0 /\ probe[r] # "pass"
    BY <1>2 DEF active, ActiveStatus, RowShape, ProbeShape
  <2>2. PICK p \in Pids : /\ host[p].run = r /\ host[p].start = own[r] /\ own[r] # 0
                          /\ pid' = [pid EXCEPT ![r] = p]
    BY <1>2 DEF RecordProcess, processesOf
  <2>3. /\ token' = [token EXCEPT ![r] = own[r]] \/ token' = token
        /\ status' = [status EXCEPT ![r] = "running"]
        /\ recorded' = recorded \cup {token'[r]}
        /\ UNCHANGED <<stage, exitKnown, task, host, starts, own, probe, seen, todo,
                       interrupted, reachable, broken, signalled, crashes, unprobed,
                       abandoned, torn>>
    BY <1>2 DEF RecordProcess
  <2>4. own[r] \in 0 .. MaxStarts /\ own[r] <= starts
    BY DEF RowShape
  <2>5. /\ token' \in [Runs -> 0 .. MaxStarts]
        /\ token'[r] = 0 \/ token'[r] = own[r]
        /\ \A s \in Runs : s # r => token'[s] = token[s] /\ pid'[s] = pid[s]
        /\ pid'[r] = p
    BY <2>1, <2>2, <2>3, <2>4
  <2>6. TypeOK'
    <3>1. recorded' \subseteq 0 .. MaxStarts
      <4>1. token'[r] \in 0 .. MaxStarts
        BY <2>5
      <4> QED BY <2>3, <4>1
    <3>2. pid' \in [Runs -> Pids \cup {NoPid}]
      BY <2>2
    <3>3. status' \in [Runs -> Status]
      BY <2>3 DEF Status, ActiveStatus
    <3> QED BY <2>3, <2>5, <3>1, <3>2, <3>3
  <2>7. HostShape'
    <3>1. \A s \in recorded' : s <= starts
      BY <2>3, <2>4, <2>5 DEF HostShape
    <3> QED BY <2>3, <3>1 DEF HostShape
  <2>8. RowShape'
    BY <2>1, <2>3, <2>4, <2>5 DEF RowShape, active, ActiveStatus
  <2>9. OneActive' /\ TaskShape'
    BY <2>1, <2>3 DEF OneActive, TaskShape, noActiveRun, active, ActiveStatus
  <2>10. ProbeShape'
    BY <2>1, <2>3, <2>5 DEF ProbeShape, active, ActiveStatus
  <2>11. OwnRecorded'
    <3>1. ASSUME NEW s \in Runs, NEW q \in Pids, host[q].run = s, host[q].start # 0,
                 host[q].start = own[s]
          PROVE  \/ own[s] \notin recorded'
                 \/ s \notin launching' /\ pid'[s] = q /\ token'[s] = own[s]
      <4>1. CASE s = r
        <5>1. q = p /\ own[s] \notin recorded
          BY <2>1, <2>2, <3>1, <4>1 DEF HostShape, OwnRecorded
        <5> QED BY <2>2, <2>3, <2>5, <4>1, <5>1
      <4>2. CASE s # r
        <5>1. CASE own[s] \in recorded
          BY <2>5, <3>1, <4>2, <5>1 DEF OwnRecorded
        <5>2. CASE own[s] \notin recorded
          <6>1. own[s] # own[r]
            BY <2>2, <3>1, <4>2 DEF HostShape
          <6> QED BY <2>2, <2>3, <2>5, <3>1, <5>2, <6>1
        <5> QED BY <5>1, <5>2
      <4> QED BY <4>1, <4>2
    <3> QED BY <2>3, <3>1 DEF OwnRecorded
  <2>12. AgentsHeld'
    <3>1. ASSUME NEW q \in Pids, isAgent(q)
          PROVE  letGo(host[q].start)' \/ owned(q)'
      <4>1. letGo(host[q].start) \/ owned(q)
        BY <3>1 DEF AgentsHeld
      <4>2. CASE owned(q)
        BY <2>1, <2>2, <2>3, <2>5, <3>1, <4>2 DEF owned, isAgent, active, ActiveStatus
      <4>3. CASE letGo(host[q].start) /\ ~owned(q)
        <5>1. host[q].start # own[r]
          BY <1>2, <2>2, <4>3 DEF owned, HostShape
        <5>2. host[q].start # 0
          BY <3>1 DEF isAgent
        <5> QED BY <2>3, <2>5, <4>3, <5>1, <5>2 DEF letGo
      <4> QED BY <4>1, <4>2, <4>3
    <3> QED BY <2>3, <3>1 DEF AgentsHeld, isAgent
  <2>13. AgentToken'
    <3>1. \A q \in Pids : host[q].start = own[r] => host[q].run = r
      BY <2>2 DEF HostShape
    <3> QED BY <2>3, <2>5, <3>1 DEF AgentToken
  <2>14. SeenAgent'
    <3>1. probe[r] # "stop"
      BY <2>1 DEF ProbeShape
    <3> QED BY <2>1, <2>3, <2>5, <3>1 DEF SeenAgent
  <2> QED BY <2>6, <2>7, <2>8, <2>9, <2>10, <2>11, <2>12, <2>13, <2>14
<1> QED BY <1>1, <1>2

LEMMA ExitKeeps ==
    ASSUME RecoveryInv, NEW p \in Pids, Exit(p)
    PROVE  RecoveryInv'
<1> USE RecoveryAssumption, HostFacts
    DEF RecoveryInv, RecoveryAssumption, TypeOK, rowVars, passVars, history, Gone, Unread
<1>1. TypeOK'
  <2>1. host' \in [Pids -> Process \cup {Gone}]
    BY DEF Exit
  <2>2. CASE UNCHANGED <<own, status, exitKnown, task>>
    BY <2>1, <2>2 DEF Exit
  <2>3. CASE host[p].run \in Runs
    <3>1. \/ UNCHANGED <<own, status, exitKnown, task>>
          \/ /\ own' = [own EXCEPT ![host[p].run] = 0]
             /\ status' = [status EXCEPT ![host[p].run] = "exited"]
             /\ exitKnown' = exitKnown \cup {host[p].run}
             /\ task' \in {"running", "settled"}
      BY DEF Exit
    <3>2. own' \in [Runs -> 0 .. MaxStarts]
      BY <3>1
    <3>3. status' \in [Runs -> Status]
      BY <3>1 DEF Status
    <3>4. exitKnown' \subseteq Runs /\ task' \in {"draft", "running", "blocked", "settled"}
      BY <2>3, <3>1
    <3> QED BY <2>1, <3>2, <3>3, <3>4 DEF Exit
  <2> QED BY <2>2, <2>3 DEF Exit
<1>2. HostShape'
  BY DEF Exit, HostShape
<1>3. RowShape'
  BY DEF Exit, RowShape, active, ActiveStatus
<1>4. OneActive'
  BY DEF Exit, OneActive, active, ActiveStatus
<1>5. ProbeShape'
  BY DEF Exit, ProbeShape, active, ActiveStatus
<1>6. OwnRecorded'
  <2>1. \A q \in Pids : host'[q] = IF q = p THEN Gone ELSE host[q]
    BY DEF Exit
  <2>2. \A s \in Runs : own'[s] = own[s] \/ own'[s] = 0
    BY DEF Exit
  <2>3. UNCHANGED <<recorded, launching, pid, token>>
    BY DEF Exit
  <2> QED BY <2>1, <2>2, <2>3 DEF OwnRecorded
<1>7. AgentsHeld'
  BY DEF Exit, AgentsHeld, isAgent, letGo, owned, active, ActiveStatus,
         RowShape, HostShape, OwnRecorded, ProbeShape
<1>8. AgentToken'
  BY DEF Exit, AgentToken
<1>9. SeenAgent'
  BY DEF Exit, SeenAgent
<1>10. TaskShape'
  BY DEF Exit, TaskShape, noActiveRun, ActiveStatus
<1> QED BY <1>1, <1>2, <1>3, <1>4, <1>5, <1>6, <1>7, <1>8, <1>9, <1>10

LEMMA StrangerStartsKeeps ==
    ASSUME RecoveryInv, NEW p \in Pids, StrangerStarts(p)
    PROVE  RecoveryInv'
<1> USE RecoveryAssumption, HostFacts
    DEF RecoveryInv, RecoveryAssumption, TypeOK, rowVars, passVars, history, Gone, Unread
<1>1. TypeOK'
  BY DEF StrangerStarts, newProcess, Process
<1>2. HostShape'
  BY NewProcess DEF StrangerStarts, history
<1>3. RowShape'
  BY DEF StrangerStarts, newProcess, RowShape, active, ActiveStatus
<1>4. OwnRecorded'
  BY DEF StrangerStarts, newProcess, OwnRecorded
<1>5. AgentsHeld'
  BY DEF StrangerStarts, newProcess, AgentsHeld, isAgent, letGo, owned, active,
         ActiveStatus
<1>6. AgentToken'
  BY DEF StrangerStarts, newProcess, AgentToken, RowShape, OwnRecorded
<1>7. SeenAgent'
  BY DEF StrangerStarts, newProcess, SeenAgent
<1>8. OneActive' /\ ProbeShape' /\ TaskShape'
  BY DEF StrangerStarts, newProcess, OneActive, ProbeShape, TaskShape, active,
         ActiveStatus, noActiveRun
<1> QED BY <1>1, <1>2, <1>3, <1>4, <1>5, <1>6, <1>7, <1>8

LEMMA CrashKeeps ==
    ASSUME RecoveryInv, Crash
    PROVE  RecoveryInv'
<1> USE RecoveryAssumption, HostFacts
    DEF RecoveryInv, RecoveryAssumption, TypeOK, rowVars, passVars, history, Gone, Unread
<1>1. TypeOK'
  BY DEF Crash
<1>2. RowShape'
  BY DEF Crash, RowShape, active, ActiveStatus
<1>3. ProbeShape'
  BY DEF Crash, ProbeShape, active, ActiveStatus
<1>4. OwnRecorded'
  BY DEF Crash, OwnRecorded
<1>5. AgentsHeld'
  <2>1. ASSUME NEW p \in Pids, isAgent(p)'
        PROVE  letGo(host[p].start)' \/ owned(p)'
    <3>1. isAgent(p) /\ host' = host /\ UNCHANGED <<signalled, recorded, unprobed, abandoned>>
      BY <2>1 DEF Crash, isAgent
    <3>2. letGo(host[p].start) \/ owned(p)
      BY <3>1 DEF AgentsHeld
    <3>3. CASE letGo(host[p].start)
      BY <3>1, <3>3 DEF letGo
    <3>4. CASE owned(p) /\ ~letGo(host[p].start)
      <4>1. host[p].run \in Runs /\ host[p].start # 0
        BY <3>1 DEF isAgent
      <4>2. active(host[p].run) /\ pid[host[p].run] = p /\ token[host[p].run] = host[p].start
        BY <3>4, <4>1 DEF owned, letGo, OwnRecorded
      <4>3. owned(p)'
        BY <3>1, <4>1, <4>2 DEF owned, active, Crash
      <4> QED BY <4>3
    <3> QED BY <3>2, <3>3, <3>4
  <2> QED BY <2>1 DEF AgentsHeld
<1>6. SeenAgent'
  BY DEF Crash, SeenAgent
<1>7. TaskShape'
  BY DEF Crash, TaskShape, noActiveRun, ActiveStatus
<1>8. HostShape' /\ OneActive' /\ AgentToken'
  BY DEF Crash, HostShape, OneActive, AgentToken, active, ActiveStatus
<1> QED BY <1>1, <1>2, <1>3, <1>4, <1>5, <1>6, <1>7, <1>8

LEMMA BootKeeps ==
    ASSUME RecoveryInv, Boot
    PROVE  RecoveryInv'
<1> USE RecoveryAssumption, HostFacts
    DEF RecoveryInv, RecoveryAssumption, TypeOK, rowVars, passVars, history, Gone, Unread
<1>1. TypeOK'
  BY DEF Boot
<1>2. RowShape'
  BY DEF Boot, RowShape, active, ActiveStatus
<1>3. ProbeShape'
  BY DEF Boot, ProbeShape, active, ActiveStatus
<1>4. TaskShape'
  BY DEF Boot, TaskShape, noActiveRun, ActiveStatus
<1>5. HostShape' /\ OneActive' /\ OwnRecorded' /\ AgentsHeld' /\ AgentToken'
      /\ SeenAgent'
  BY DEF Boot, HostShape, OneActive, OwnRecorded, AgentsHeld, AgentToken,
         SeenAgent, active, ActiveStatus, isAgent, letGo, owned
<1> QED BY <1>1, <1>2, <1>3, <1>4, <1>5

LEMMA InterruptUnprobedKeeps ==
    ASSUME RecoveryInv, NEW r \in Runs, InterruptUnprobed(r)
    PROVE  RecoveryInv'
<1> USE RecoveryAssumption, HostFacts
    DEF RecoveryInv, RecoveryAssumption, TypeOK, rowVars, passVars, history, Gone, Unread
<1>1. TypeOK'
  <2>1. token[r] \in 0 .. MaxStarts
    OBVIOUS
  <2>2. unprobed' \subseteq 0 .. MaxStarts
    BY <2>1 DEF InterruptUnprobed, passIdle, interrupt
  <2>3. QED
    BY <2>2 DEF InterruptUnprobed, passIdle, interrupt, Status, Terminal,
                ActiveStatus, Process, noActiveRun
<1>2. RowShape'
  BY DEF InterruptUnprobed, passIdle, interrupt, RowShape, active, ActiveStatus
<1>3. OneActive'
  BY DEF InterruptUnprobed, passIdle, interrupt, OneActive, active,
         ActiveStatus
<1>4. ProbeShape'
  BY DEF InterruptUnprobed, passIdle, interrupt, ProbeShape, active,
         ActiveStatus
<1>5. AgentsHeld'
  BY DEF InterruptUnprobed, passIdle, interrupt, AgentsHeld, isAgent, letGo,
         owned, active, ActiveStatus, RowShape, HostShape, OwnRecorded,
         ProbeShape
<1>6. TaskShape'
  BY DEF InterruptUnprobed, passIdle, interrupt, TaskShape, noActiveRun,
         ActiveStatus
<1>7. HostShape' /\ OwnRecorded' /\ AgentToken' /\ SeenAgent'
  BY DEF InterruptUnprobed, passIdle, interrupt, HostShape, OwnRecorded,
         AgentToken, SeenAgent
<1> QED BY <1>1, <1>2, <1>3, <1>4, <1>5, <1>6, <1>7

LEMMA InterruptDeadKeeps ==
    ASSUME RecoveryInv, NEW r \in Runs, InterruptDead(r)
    PROVE  RecoveryInv'
<1> USE RecoveryAssumption, HostFacts
    DEF RecoveryInv, RecoveryAssumption, TypeOK, rowVars, passVars, history, Gone, Unread
<1>1. TypeOK'
  BY DEF InterruptDead, probedByPass, passIdle, interrupt, readNone,
         nothingToProbe, identityOf, Status, Terminal, ActiveStatus
<1>2. RowShape'
  BY DEF InterruptDead, probedByPass, passIdle, interrupt, readNone,
         nothingToProbe, identityOf, RowShape, active, ActiveStatus
<1>3. OneActive'
  BY DEF InterruptDead, probedByPass, passIdle, interrupt, readNone,
         nothingToProbe, identityOf, OneActive, active, ActiveStatus
<1>4. ProbeShape'
  BY DEF InterruptDead, probedByPass, passIdle, interrupt, readNone,
         nothingToProbe, identityOf, ProbeShape, active, ActiveStatus
<1>5. AgentsHeld'
  BY DEF InterruptDead, probedByPass, passIdle, interrupt, readNone,
         nothingToProbe, identityOf, AgentsHeld, isAgent, letGo, owned, active,
         ActiveStatus, RowShape, HostShape, OwnRecorded, ProbeShape
<1>6. TaskShape'
  BY DEF InterruptDead, probedByPass, passIdle, interrupt, readNone,
         nothingToProbe, identityOf, TaskShape, noActiveRun, ActiveStatus
<1>7. HostShape' /\ OwnRecorded' /\ AgentToken' /\ SeenAgent'
  BY DEF InterruptDead, probedByPass, passIdle, interrupt, readNone,
         nothingToProbe, identityOf, HostShape, OwnRecorded, AgentToken,
         SeenAgent
<1> QED BY <1>1, <1>2, <1>3, <1>4, <1>5, <1>6, <1>7

LEMMA KeepUnreadKeeps ==
    ASSUME RecoveryInv, NEW r \in Runs, KeepUnread(r)
    PROVE  RecoveryInv'
<1> USE RecoveryAssumption, HostFacts
    DEF RecoveryInv, RecoveryAssumption, TypeOK, rowVars, passVars, history, Gone, Unread
<1>1. TypeOK'
  BY DEF KeepUnread
<1>2. ProbeShape'
  BY DEF KeepUnread, ProbeShape, active, ActiveStatus
<1>3. HostShape' /\ RowShape' /\ OneActive' /\ OwnRecorded' /\ AgentsHeld'
      /\ AgentToken' /\ SeenAgent' /\ TaskShape'
  BY DEF KeepUnread, HostShape, RowShape, OneActive, OwnRecorded, AgentsHeld,
         AgentToken, SeenAgent, TaskShape, active, ActiveStatus, isAgent,
         letGo, owned, noActiveRun
<1> QED BY <1>1, <1>2, <1>3

LEMMA FindSurvivorKeeps ==
    ASSUME RecoveryInv, NEW r \in Runs, FindSurvivor(r)
    PROVE  RecoveryInv'
<1> USE RecoveryAssumption, HostFacts
    DEF RecoveryInv, RecoveryAssumption, TypeOK, rowVars, passVars, history, Gone, Unread
<1>1. TypeOK'
  BY DEF FindSurvivor, probedByPass, passIdle, awaitKill, readKills,
         nothingToProbe, identityOf, Purposes
<1>2. ProbeShape'
  BY DEF FindSurvivor, probedByPass, passIdle, awaitKill, readKills,
         nothingToProbe, identityOf, ProbeShape, RowShape, active, ActiveStatus
<1>3. SeenAgent'
  BY DEF FindSurvivor, probedByPass, passIdle, awaitKill, readKills,
         nothingToProbe, identityOf, SeenAgent, AgentToken, RowShape, HostShape
<1>4. HostShape' /\ RowShape' /\ OneActive' /\ OwnRecorded' /\ AgentsHeld'
      /\ AgentToken' /\ TaskShape'
  BY DEF FindSurvivor, probedByPass, passIdle, awaitKill, readKills,
         nothingToProbe, identityOf, HostShape, RowShape, OneActive,
         OwnRecorded, AgentsHeld, AgentToken, TaskShape, active, ActiveStatus,
         isAgent, letGo, owned, noActiveRun
<1> QED BY <1>1, <1>2, <1>3, <1>4

LEMMA TerminateSurvivorKeeps ==
    ASSUME RecoveryInv, NEW r \in Runs, TerminateSurvivor(r)
    PROVE  RecoveryInv'
<1> USE RecoveryAssumption, HostFacts
    DEF RecoveryInv, RecoveryAssumption, TypeOK, rowVars, passVars, history, Gone, Unread
<1>1. TypeOK'
  <2>1. signalled' \subseteq 1 .. MaxStarts
    BY KillReaches DEF TerminateSurvivor
  <2>2. status' \in [Runs -> Status] /\ interrupted' \subseteq Runs /\ todo' \subseteq Runs
    BY DEF TerminateSurvivor, interrupt, Status, Terminal
  <2>3. UNCHANGED <<pid, token, exitKnown, reachable>>
    BY DEF TerminateSurvivor, interrupt
  <2>4. /\ probe' \in [Runs -> Purposes \cup {"none"}]
        /\ seen' \in [Runs -> [pid : Pids \cup {NoPid}, start : 0 .. MaxStarts]]
    BY DEF TerminateSurvivor, probeOver
  <2>5. UNCHANGED <<stage, task, host, starts, own, launching, broken, history>>
    BY DEF TerminateSurvivor
  <2> QED BY <2>1, <2>2, <2>3, <2>4, <2>5
<1>2. RowShape'
  BY DEF TerminateSurvivor, probeOver, killSucceeds, killFails, interrupt,
         RowShape, ProbeShape, active, ActiveStatus, Terminal
<1>3. OneActive'
  BY DEF TerminateSurvivor, probeOver, killSucceeds, killFails, interrupt,
         OneActive, active, ActiveStatus
<1>4. ProbeShape'
  BY DEF TerminateSurvivor, probeOver, killSucceeds, killFails, interrupt,
         ProbeShape, active, ActiveStatus
<1>5. AgentsHeld'
  BY DEF TerminateSurvivor, probeOver, killSucceeds, killFails, interrupt,
         AgentsHeld, isAgent, letGo, owned, active, ActiveStatus, RowShape,
         HostShape, OwnRecorded, ProbeShape
<1>6. SeenAgent'
  BY DEF TerminateSurvivor, probeOver, killSucceeds, killFails, interrupt,
         SeenAgent
<1>7. TaskShape'
  BY DEF TerminateSurvivor, probeOver, killSucceeds, killFails, interrupt,
         TaskShape, noActiveRun, active, ActiveStatus, ProbeShape
<1>8. HostShape' /\ OwnRecorded' /\ AgentToken'
  BY DEF TerminateSurvivor, probeOver, killSucceeds, killFails, interrupt,
         HostShape, OwnRecorded, AgentToken
<1> QED BY <1>1, <1>2, <1>3, <1>4, <1>5, <1>6, <1>7, <1>8

LEMMA PassEndsKeeps ==
    ASSUME RecoveryInv, PassEnds
    PROVE  RecoveryInv'
<1> USE RecoveryAssumption, HostFacts
    DEF RecoveryInv, RecoveryAssumption, TypeOK, rowVars, passVars, history, Gone, Unread
<1>1. TypeOK'
  BY DEF PassEnds, passIdle, noActiveRun
<1>2. RowShape'
  BY DEF PassEnds, passIdle, RowShape, active, ActiveStatus
<1>3. ProbeShape'
  BY DEF PassEnds, passIdle, ProbeShape, active, ActiveStatus
<1>4. TaskShape'
  BY DEF PassEnds, passIdle, TaskShape, noActiveRun, ActiveStatus
<1>5. HostShape' /\ OneActive' /\ OwnRecorded' /\ AgentsHeld' /\ AgentToken'
      /\ SeenAgent'
  BY DEF PassEnds, passIdle, HostShape, OneActive, OwnRecorded, AgentsHeld,
         AgentToken, SeenAgent, active, ActiveStatus, isAgent, letGo, owned
<1> QED BY <1>1, <1>2, <1>3, <1>4, <1>5

LEMMA CancelSettlesKeeps ==
    ASSUME RecoveryInv, NEW r \in Runs, CancelSettles(r)
    PROVE  RecoveryInv'
<1> USE RecoveryAssumption, HostFacts
    DEF RecoveryInv, RecoveryAssumption, TypeOK, rowVars, passVars, history, Gone, Unread
<1>1. TypeOK'
  <2>1. token[r] \in 0 .. MaxStarts
    OBVIOUS
  <2>2. abandoned' \subseteq 0 .. MaxStarts
    BY <2>1 DEF CancelSettles, adapterless, settle, cancelMatches, identityOf
  <2>3. QED
    BY <2>2 DEF CancelSettles, adapterless, settle, cancelMatches, identityOf,
                Status, Terminal, ActiveStatus, Process, noActiveRun
<1>2. RowShape'
  BY DEF CancelSettles, adapterless, settle, cancelMatches, identityOf,
         RowShape, active, ActiveStatus
<1>3. OneActive'
  BY DEF CancelSettles, adapterless, settle, cancelMatches, identityOf,
         OneActive, active, ActiveStatus
<1>4. ProbeShape'
  BY DEF CancelSettles, adapterless, settle, cancelMatches, identityOf,
         ProbeShape, active, ActiveStatus
<1>5. AgentsHeld'
  BY DEF CancelSettles, adapterless, settle, cancelMatches, identityOf,
         AgentsHeld, isAgent, letGo, owned, active, ActiveStatus
<1>6. TaskShape'
  BY DEF CancelSettles, adapterless, settle, cancelMatches, identityOf,
         TaskShape, noActiveRun, ActiveStatus
<1>7. HostShape' /\ OwnRecorded' /\ AgentToken' /\ SeenAgent'
  BY DEF CancelSettles, adapterless, settle, cancelMatches, identityOf,
         HostShape, OwnRecorded, AgentToken, SeenAgent
<1> QED BY <1>1, <1>2, <1>3, <1>4, <1>5, <1>6, <1>7

LEMMA CancelFindsSurvivorKeeps ==
    ASSUME RecoveryInv, NEW r \in Runs, CancelFindsSurvivor(r)
    PROVE  RecoveryInv'
<1> USE RecoveryAssumption, HostFacts
    DEF RecoveryInv, RecoveryAssumption, TypeOK, rowVars, passVars, history, Gone, Unread
<1>1. TypeOK'
  BY DEF CancelFindsSurvivor, adapterless, awaitKill, cancelMatches,
         identityOf, Purposes
<1>2. ProbeShape'
  BY DEF CancelFindsSurvivor, adapterless, awaitKill, cancelMatches,
         identityOf, ProbeShape, active, ActiveStatus
<1>3. SeenAgent'
  BY DEF CancelFindsSurvivor, adapterless, awaitKill, cancelMatches,
         identityOf, SeenAgent, AgentToken, RowShape, HostShape
<1>4. HostShape' /\ RowShape' /\ OneActive' /\ OwnRecorded' /\ AgentsHeld'
      /\ AgentToken' /\ TaskShape'
  BY DEF CancelFindsSurvivor, adapterless, awaitKill, cancelMatches,
         identityOf, HostShape, RowShape, OneActive, OwnRecorded, AgentsHeld,
         AgentToken, TaskShape, active, ActiveStatus, isAgent, letGo, owned,
         noActiveRun
<1> QED BY <1>1, <1>2, <1>3, <1>4

LEMMA CancelTerminatesKeeps ==
    ASSUME RecoveryInv, NEW r \in Runs, CancelTerminates(r)
    PROVE  RecoveryInv'
<1> USE RecoveryAssumption, HostFacts
    DEF RecoveryInv, RecoveryAssumption, TypeOK, rowVars, passVars, history, Gone, Unread
<1>1. TypeOK'
  <2>1. signalled' \subseteq 1 .. MaxStarts
    BY KillReaches DEF CancelTerminates, ProbeShape
  <2>2. token[r] \in 0 .. MaxStarts
    OBVIOUS
  <2>3. abandoned' \subseteq 0 .. MaxStarts
    BY <2>2 DEF CancelTerminates
  <2> QED
    BY <2>1, <2>3 DEF CancelTerminates, probeOver, settle, noActiveRun, Status, Terminal,
                      ActiveStatus
<1>2. RowShape'
  BY DEF CancelTerminates, probeOver, killSucceeds, killFails, settle,
         RowShape, ProbeShape, active, ActiveStatus, Terminal
<1>3. OneActive'
  BY DEF CancelTerminates, probeOver, killSucceeds, killFails, settle,
         OneActive, active, ActiveStatus
<1>4. ProbeShape'
  BY DEF CancelTerminates, probeOver, killSucceeds, killFails, settle,
         ProbeShape, active, ActiveStatus
<1>5. AgentsHeld'
  BY DEF CancelTerminates, probeOver, killSucceeds, killFails, settle,
         AgentsHeld, isAgent, letGo, owned, active, ActiveStatus, RowShape,
         HostShape, OwnRecorded, ProbeShape
<1>6. SeenAgent'
  BY DEF CancelTerminates, probeOver, killSucceeds, killFails, settle,
         SeenAgent
<1>7. TaskShape'
  BY DEF CancelTerminates, probeOver, killSucceeds, killFails, settle,
         TaskShape, noActiveRun, ActiveStatus
<1>8. HostShape' /\ OwnRecorded' /\ AgentToken'
  BY DEF CancelTerminates, probeOver, killSucceeds, killFails, settle,
         HostShape, OwnRecorded, AgentToken
<1> QED BY <1>1, <1>2, <1>3, <1>4, <1>5, <1>6, <1>7, <1>8

LEMMA StopFindsNoneKeeps ==
    ASSUME RecoveryInv, NEW r \in Runs, StopFindsNone(r)
    PROVE  RecoveryInv'
<1> USE RecoveryAssumption, HostFacts
    DEF RecoveryInv, RecoveryAssumption, TypeOK, rowVars, passVars, history, Gone, Unread
<1>1. TypeOK'
  BY DEF StopFindsNone, adapterless, settle, readNone, nothingToProbe,
         identityOf, Status, Terminal, ActiveStatus, noActiveRun
<1>2. RowShape'
  BY DEF StopFindsNone, adapterless, settle, readNone, nothingToProbe,
         identityOf, RowShape, active, ActiveStatus
<1>3. OneActive'
  BY DEF StopFindsNone, adapterless, settle, readNone, nothingToProbe,
         identityOf, OneActive, active, ActiveStatus
<1>4. ProbeShape'
  BY DEF StopFindsNone, adapterless, settle, readNone, nothingToProbe,
         identityOf, ProbeShape, active, ActiveStatus
<1>5. AgentsHeld'
  BY DEF StopFindsNone, adapterless, settle, readNone, nothingToProbe,
         identityOf, AgentsHeld, isAgent, letGo, owned, active, ActiveStatus
<1>6. TaskShape'
  BY DEF StopFindsNone, adapterless, settle, readNone, nothingToProbe,
         identityOf, TaskShape, noActiveRun, ActiveStatus
<1>7. HostShape' /\ OwnRecorded' /\ AgentToken' /\ SeenAgent'
  BY DEF StopFindsNone, adapterless, settle, readNone, nothingToProbe,
         identityOf, HostShape, OwnRecorded, AgentToken, SeenAgent
<1> QED BY <1>1, <1>2, <1>3, <1>4, <1>5, <1>6, <1>7

LEMMA StopFindsSurvivorKeeps ==
    ASSUME RecoveryInv, NEW r \in Runs, StopFindsSurvivor(r)
    PROVE  RecoveryInv'
<1> USE RecoveryAssumption, HostFacts
    DEF RecoveryInv, RecoveryAssumption, TypeOK, rowVars, passVars, history, Gone, Unread
<1>1. TypeOK'
  BY DEF StopFindsSurvivor, adapterless, awaitKill, readKills, nothingToProbe,
         identityOf, Purposes
<1>2. ProbeShape'
  BY DEF StopFindsSurvivor, adapterless, awaitKill, readKills, nothingToProbe,
         identityOf, ProbeShape, active, ActiveStatus
<1>3. SeenAgent'
  BY DEF StopFindsSurvivor, adapterless, awaitKill, readKills, nothingToProbe,
         identityOf, SeenAgent, AgentToken, RowShape, HostShape
<1>4. HostShape' /\ RowShape' /\ OneActive' /\ OwnRecorded' /\ AgentsHeld'
      /\ AgentToken' /\ TaskShape'
  BY DEF StopFindsSurvivor, adapterless, awaitKill, readKills, nothingToProbe,
         identityOf, HostShape, RowShape, OneActive, OwnRecorded, AgentsHeld,
         AgentToken, TaskShape, active, ActiveStatus, isAgent, letGo, owned,
         noActiveRun
<1> QED BY <1>1, <1>2, <1>3, <1>4

LEMMA StopTerminatesKeeps ==
    ASSUME RecoveryInv, NEW r \in Runs, StopTerminates(r)
    PROVE  RecoveryInv'
<1> USE RecoveryAssumption, HostFacts
    DEF RecoveryInv, RecoveryAssumption, TypeOK, rowVars, passVars, history, Gone, Unread
<1>1. TypeOK'
  <2>1. signalled' \subseteq 1 .. MaxStarts
    BY KillReaches DEF StopTerminates, ProbeShape
  <2> QED
    BY <2>1 DEF StopTerminates, probeOver, settle, noActiveRun, Status, Terminal, ActiveStatus
<1>2. RowShape'
  BY DEF StopTerminates, probeOver, killSucceeds, killFails, settle, RowShape,
         ProbeShape, active, ActiveStatus, Terminal
<1>3. OneActive'
  BY DEF StopTerminates, probeOver, killSucceeds, killFails, settle, OneActive,
         active, ActiveStatus
<1>4. ProbeShape'
  BY DEF StopTerminates, probeOver, killSucceeds, killFails, settle,
         ProbeShape, active, ActiveStatus
<1>5. AgentsHeld'
  BY DEF StopTerminates, probeOver, killSucceeds, killFails, settle,
         AgentsHeld, isAgent, letGo, owned, active, ActiveStatus, RowShape,
         HostShape, OwnRecorded, ProbeShape
<1>6. SeenAgent'
  BY DEF StopTerminates, probeOver, killSucceeds, killFails, settle, SeenAgent
<1>7. TaskShape'
  BY DEF StopTerminates, probeOver, killSucceeds, killFails, settle, TaskShape,
         noActiveRun, ActiveStatus
<1>8. HostShape' /\ OwnRecorded' /\ AgentToken'
  BY DEF StopTerminates, probeOver, killSucceeds, killFails, settle, HostShape,
         OwnRecorded, AgentToken
<1> QED BY <1>1, <1>2, <1>3, <1>4, <1>5, <1>6, <1>7, <1>8

LEMMA ContinueKeeps ==
    ASSUME RecoveryInv, NEW r \in Runs, NEW n \in Runs, Continue(r, n)
    PROVE  RecoveryInv'
<1> USE RecoveryAssumption, HostFacts
    DEF RecoveryInv, RecoveryAssumption, TypeOK, rowVars, passVars, history, Gone, Unread
<1>1. TypeOK'
  BY DEF Continue, continues, prepare, needsProbe, readNone, nothingToProbe,
         identityOf, Status, Terminal, ActiveStatus, noActiveRun
<1>2. RowShape'
  BY DEF Continue, continues, prepare, needsProbe, readNone, nothingToProbe,
         identityOf, RowShape, active, ActiveStatus
<1>3. OneActive'
  BY DEF Continue, continues, prepare, needsProbe, readNone, nothingToProbe,
         identityOf, OneActive, active, ActiveStatus, worktreeFree
<1>4. ProbeShape'
  BY DEF Continue, continues, prepare, needsProbe, readNone, nothingToProbe,
         identityOf, ProbeShape, active, ActiveStatus
<1>5. OwnRecorded'
  BY DEF Continue, continues, prepare, needsProbe, readNone, nothingToProbe,
         identityOf, OwnRecorded, RowShape, active, ActiveStatus
<1>6. AgentsHeld'
  BY DEF Continue, continues, prepare, needsProbe, readNone, nothingToProbe,
         identityOf, AgentsHeld, isAgent, letGo, owned, active, ActiveStatus
<1>7. AgentToken'
  BY DEF Continue, continues, prepare, needsProbe, readNone, nothingToProbe,
         identityOf, AgentToken
<1>8. SeenAgent'
  BY DEF Continue, continues, prepare, needsProbe, readNone, nothingToProbe,
         identityOf, SeenAgent
<1>9. TaskShape'
  BY DEF Continue, continues, prepare, needsProbe, readNone, nothingToProbe,
         identityOf, TaskShape, noActiveRun, ActiveStatus
<1>10. HostShape'
  BY DEF Continue, continues, prepare, needsProbe, readNone, nothingToProbe,
         identityOf, HostShape
<1> QED BY <1>1, <1>2, <1>3, <1>4, <1>5, <1>6, <1>7, <1>8, <1>9, <1>10

LEMMA ContinueFindsSurvivorKeeps ==
    ASSUME RecoveryInv, NEW r \in Runs, ContinueFindsSurvivor(r)
    PROVE  RecoveryInv'
<1> USE RecoveryAssumption, HostFacts
    DEF RecoveryInv, RecoveryAssumption, TypeOK, rowVars, passVars, history, Gone, Unread
<1>1. TypeOK'
  BY DEF ContinueFindsSurvivor, continues, needsProbe, awaitKill, readKills,
         nothingToProbe, identityOf, Purposes
<1>2. ProbeShape'
  BY DEF ContinueFindsSurvivor, continues, needsProbe, awaitKill, readKills,
         nothingToProbe, identityOf, ProbeShape, active, ActiveStatus
<1>3. SeenAgent'
  BY DEF ContinueFindsSurvivor, continues, needsProbe, awaitKill, readKills,
         nothingToProbe, identityOf, SeenAgent, AgentToken, RowShape, HostShape
<1>4. HostShape' /\ RowShape' /\ OneActive' /\ OwnRecorded' /\ AgentsHeld'
      /\ AgentToken' /\ TaskShape'
  BY DEF ContinueFindsSurvivor, continues, needsProbe, awaitKill, readKills,
         nothingToProbe, identityOf, HostShape, RowShape, OneActive,
         OwnRecorded, AgentsHeld, AgentToken, TaskShape, active, ActiveStatus,
         isAgent, letGo, owned, noActiveRun
<1> QED BY <1>1, <1>2, <1>3, <1>4

LEMMA ContinueTerminatesKeeps ==
    ASSUME RecoveryInv, NEW r \in Runs, ContinueTerminates(r)
    PROVE  RecoveryInv'
<1> USE RecoveryAssumption, HostFacts
    DEF RecoveryInv, RecoveryAssumption, TypeOK, rowVars, passVars, history, Gone, Unread
<1>1. TypeOK'
  <2>1. signalled' \subseteq 1 .. MaxStarts
    BY KillReaches DEF ContinueTerminates
  <2>2. CASE UNCHANGED <<rowVars, task>>
    BY <2>1, <2>2 DEF ContinueTerminates, probeOver
  <2>3. CASE \E n \in Runs : prepare(n)
    BY <2>1, <2>3 DEF ContinueTerminates, probeOver, prepare, Status, ActiveStatus
  <2> QED
    BY <2>2, <2>3 DEF ContinueTerminates
<1>2. RowShape'
  BY DEF ContinueTerminates, probeOver, killSucceeds, killFails, prepare,
         RowShape, active, ActiveStatus
<1>3. OneActive'
  BY DEF ContinueTerminates, probeOver, killSucceeds, killFails, prepare,
         OneActive, active, ActiveStatus, worktreeFree
<1>4. ProbeShape'
  BY DEF ContinueTerminates, probeOver, killSucceeds, killFails, prepare,
         ProbeShape, active, ActiveStatus
<1>5. OwnRecorded'
  BY DEF ContinueTerminates, probeOver, killSucceeds, killFails, prepare,
         OwnRecorded, RowShape, active, ActiveStatus
<1>6. AgentsHeld'
  BY DEF ContinueTerminates, probeOver, killSucceeds, killFails, prepare,
         AgentsHeld, isAgent, letGo, owned, active, ActiveStatus
<1>7. AgentToken'
  BY DEF ContinueTerminates, probeOver, killSucceeds, killFails, prepare,
         AgentToken
<1>8. SeenAgent'
  BY DEF ContinueTerminates, probeOver, killSucceeds, killFails, prepare,
         SeenAgent
<1>9. TaskShape'
  BY DEF ContinueTerminates, probeOver, killSucceeds, killFails, prepare,
         TaskShape, noActiveRun, ActiveStatus
<1>10. HostShape'
  BY DEF ContinueTerminates, probeOver, killSucceeds, killFails, prepare,
         HostShape
<1> QED BY <1>1, <1>2, <1>3, <1>4, <1>5, <1>6, <1>7, <1>8, <1>9, <1>10

LEMMA StutterKeeps == ASSUME RecoveryInv, UNCHANGED vars PROVE RecoveryInv'
BY DEF RecoveryInv, TypeOK, HostShape, RowShape, OneActive, ProbeShape, OwnRecorded,
       AgentsHeld, AgentToken, SeenAgent, TaskShape, isAgent, letGo, owned, active,
       noActiveRun, vars, rowVars, passVars, history

LEMMA InitHolds == Init => RecoveryInv
<1> USE RecoveryAssumption DEF Init, RecoveryAssumption, Gone, Unread
<1>1. Init => TypeOK
  <2>1. Init => /\ host \in [Pids -> Process \cup {Gone}]
                /\ seen \in [Runs -> [pid : Pids \cup {NoPid}, start : 0 .. MaxStarts]]
    OBVIOUS
  <2>2. Init => status \in [Runs -> Status] /\ probe \in [Runs -> Purposes \cup {"none"}]
    BY DEF Status
  <2>3. Init => /\ pid \in [Runs -> Pids \cup {NoPid}]
                /\ token \in [Runs -> 0 .. MaxStarts] /\ own \in [Runs -> 0 .. MaxStarts]
    OBVIOUS
  <2>4. Init => /\ stage \in {"down", "pass", "up"} /\ exitKnown \subseteq Runs
                /\ task \in {"draft", "running", "blocked", "settled"}
                /\ starts \in 0 .. MaxStarts /\ launching \subseteq Runs
                /\ todo \subseteq Runs /\ interrupted \subseteq Runs
    OBVIOUS
  <2>5. Init => /\ signalled \subseteq 1 .. MaxStarts /\ crashes \in Nat
                /\ recorded \subseteq 0 .. MaxStarts
                /\ unprobed \subseteq 0 .. MaxStarts /\ abandoned \subseteq 0 .. MaxStarts
    OBVIOUS
  <2>6. Init => torn \in BOOLEAN /\ reachable \in BOOLEAN
    OBVIOUS
  <2> QED BY <2>1, <2>2, <2>3, <2>4, <2>5, <2>6 DEF TypeOK
<1>2. Init => HostShape /\ RowShape /\ OneActive /\ ProbeShape
  BY DEF HostShape, RowShape, OneActive, ProbeShape, active, ActiveStatus
<1>3. Init => OwnRecorded /\ AgentsHeld /\ AgentToken /\ SeenAgent /\ TaskShape
  BY DEF OwnRecorded, AgentsHeld, AgentToken, SeenAgent, TaskShape, isAgent
<1> QED BY <1>1, <1>2, <1>3 DEF RecoveryInv

LEMMA RecoveryInvHolds == Spec => []RecoveryInv
<1>1. ASSUME RecoveryInv, [Next]_vars PROVE RecoveryInv'
  BY <1>1, StartKeeps, ResumeKeeps, SpawnKeeps, RecordProcessKeeps, ExitKeeps,
     StrangerStartsKeeps, CrashKeeps, BootKeeps, InterruptUnprobedKeeps,
     InterruptDeadKeeps, KeepUnreadKeeps, FindSurvivorKeeps, TerminateSurvivorKeeps,
     PassEndsKeeps, CancelSettlesKeeps, CancelFindsSurvivorKeeps, CancelTerminatesKeeps,
     StopFindsNoneKeeps, StopFindsSurvivorKeeps, StopTerminatesKeeps, ContinueKeeps,
     ContinueFindsSurvivorKeeps, ContinueTerminatesKeeps, StutterKeeps DEF Next
<1> QED BY <1>1, InitHolds, PTL DEF Spec

-----------------------------------------------------------------------------
(* The results.                                                             *)

\* Every variable of the recovery keeps its type (survivor.ts:46-96).
THEOREM RecoveryTypes == Spec => []TypeOK
<1>1. RecoveryInv => TypeOK
  BY DEF RecoveryInv
<1> QED BY <1>1, RecoveryInvHolds, PTL

\* Two live Agents write one worktree only if one of them was let go: a terminate
\* reached it, its identity was never recorded, the start-up pass skipped its
\* probe, or a cancel settled its row (reconciliation-service.ts:51-54).
THEOREM DoubleWritesHaveACause == Spec => []DoubleWriteHasCause
<1>1. ASSUME RecoveryInv, NEW p \in Pids, NEW q \in Pids, p # q, isAgent(p), isAgent(q),
             sameWorktree(p, q), ~letGo(host[p].start), ~letGo(host[q].start)
      PROVE  FALSE
  <2>1. owned(p) /\ owned(q)
    BY <1>1 DEF RecoveryInv, AgentsHeld
  <2>2. host[p].start # 0 /\ host[q].start # 0 /\ host[p].start # host[q].start
    BY <1>1, RecoveryAssumption, HostFacts
       DEF RecoveryInv, RecoveryAssumption, HostShape, isAgent, Gone
  <2>3. host[p].run # host[q].run
    BY <1>1, <2>1, <2>2 DEF owned
  <2> QED BY <1>1, <2>1, <2>3 DEF RecoveryInv, OneActive, owned, isAgent, sameWorktree
<1>2. RecoveryInv => DoubleWriteHasCause
  BY <1>1 DEF DoubleWriteHasCause
<1> QED BY <1>2, RecoveryInvHolds, PTL

\* With a recorded identity, a terminate that reaches a process which is no Agent
\* reaches one that was not there when the routine read the pid
\* (survivor.ts:11-22).
THEOREM StrangersAreSpared == Spec => StrangerSpared
<1>1. ASSUME RecoveryInv, NEW r \in Runs, NEW p \in Pids, probe[r] # "none",
             host[p].run = Stranger, token[r] # 0
      PROVE  seen[r].start # host[p].start
  BY <1>1 DEF RecoveryInv, SeenAgent
<1>2. RecoveryInv /\ [Next]_vars =>
        [\A r \in Runs : \A p \in Pids :
           /\ probe[r] # "none" /\ probe'[r] = "none" /\ stage' # "down"
           /\ seen[r].pid = p /\ host[p].start \in signalled' \ signalled
           /\ host[p].run = Stranger
           => token[r] = 0 \/ seen[r].start # host[p].start]_vars
  BY <1>1
<1> QED BY <1>2, RecoveryInvHolds, PTL DEF Spec, StrangerSpared

\* While the application is up a task is 'running' only with a run that is, unless
\* a crash cut a pass between its halves (reconciliation-service.ts:305-320).
THEOREM TasksFollowRuns == Spec => []TaskFollowsRuns
<1>1. RecoveryInv => TaskFollowsRuns
  BY DEF RecoveryInv, TaskShape, TaskFollowsRuns
<1> QED BY <1>1, RecoveryInvHolds, PTL
=============================================================================
