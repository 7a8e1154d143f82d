--------------------------- MODULE AgentRunsProofs ---------------------------
(***************************************************************************)
(* Proofs about AgentRuns for every set of runs and requests, every limit   *)
(* and every leftover of a previous instance.                               *)
(***************************************************************************)
EXTENDS AgentRuns, FiniteSetTheorems, TLAPS

-----------------------------------------------------------------------------
(* Type correctness *)

\* The initial rows, bindings and requests have their types.
LEMMA TypeInit == Init => TypeOK
<1> SUFFICES ASSUME Init PROVE TypeOK
  OBVIOUS
<1>1. Leftover \subseteq Runs
  BY LeftoverAssumption
<1>2. createdAt \in [Runs -> Nat]
  <2>1. IsFiniteSet(Leftover)
    BY <1>1, RunsAssumption, FS_Subset
  <2>2. Cardinality(Leftover) \in Nat
    BY <2>1, FS_CardinalityType
  <2> QED BY <2>2 DEF Init
<1>3. status \in [Runs -> Status]
  BY DEF Init, Status, TerminalStatus
<1> QED BY <1>1, <1>2, <1>3 DEF Init, TypeOK

\* Every step of a run keeps the types.
LEMMA TypeRunStep ==
  ASSUME TypeOK, NEW r \in Runs, RunStep(r)
  PROVE  TypeOK'
<1> USE DEF TypeOK, Status, TerminalStatus, rowVars, queueVars, callVars, quitVars
<1>1. Cardinality({s \in Runs : status[s] # "none"}) \in Nat
  <2>1. IsFiniteSet({s \in Runs : status[s] # "none"})
    BY RunsAssumption, FS_Subset
  <2> QED BY <2>1, FS_CardinalityType
<1>2. CASE startQueued(r)
  BY <1>1, <1>2 DEF startQueued, createRow, enqueue, scheduleQueueAdvance
<1>3. CASE startDirect(r)
  BY <1>1, <1>3 DEF startDirect, createRow, beginLaunch
<1>4. CASE finishFailed(r)
  BY <1>4 DEF finishFailed, launchReturns
<1>5. CASE launchSpawned(r)
  BY <1>5 DEF launchSpawned, launchReturns
<1>6. CASE launchIdentified(r)
  BY <1>6 DEF launchIdentified, launchReturns
<1>7. CASE advanceQueue(r)
  BY <1>7 DEF advanceQueue, beginLaunch
<1>8. ASSUME NEW exitCode \in {0, 1}, processExited(r, exitCode)
      PROVE  TypeOK'
  <2>1. exitStatus(r, exitCode) \in Status
    BY DEF exitStatus
  <2>2. status' \in [Runs -> Status]
    BY <1>8, <2>1 DEF processExited
  <2>3. callPc' \in [Callers -> {"idle", "resuming", "cancelling", "cancelled",
                                 "settling", "stopping", "stopped", "probing"}]
    BY <1>8 DEF processExited, stopsResolve
  <2>4. CASE r \in activeAdapters /\ quit # "detached"
    BY <1>8, <2>2, <2>3, <2>4 DEF processExited, stopsResolve, scheduleQueueAdvance
  <2>5. CASE ~(r \in activeAdapters /\ quit # "detached")
    BY <1>8, <2>2, <2>3, <2>5 DEF processExited, stopsResolve
  <2> QED BY <2>4, <2>5
<1>9. CASE cancelQueued(r)
  BY <1>9 DEF cancelQueued, scheduleQueueAdvance
<1>10. CASE failAndStopQueued(r)
  BY <1>10 DEF failAndStopQueued, settleFailedStop, scheduleQueueAdvance
<1>11. CASE disposeStopTimedOut(r)
  BY <1>11 DEF disposeStopTimedOut
<1> QED BY <1>2, <1>3, <1>4, <1>5, <1>6, <1>7, <1>8, <1>9, <1>10, <1>11 DEF RunStep

\* Every new request keeps the types.
LEMMA TypeRequest ==
  ASSUME TypeOK, NEW c \in Callers, NEW r \in Runs, Request(c, r)
  PROVE  TypeOK'
<1> USE DEF TypeOK, rowVars, queueVars, callVars, quitVars
<1>1. CASE resume(c, r)
  BY <1>1 DEF resume
<1>2. CASE cancel(c, r)
  BY <1>2 DEF cancel
<1>3. CASE cancelAdapterless(c, r)
  BY <1>3 DEF cancelAdapterless
<1>4. CASE failAndStop(c, r)
  BY <1>4 DEF failAndStop, launchInFlight
<1> QED BY <1>1, <1>2, <1>3, <1>4 DEF Request

\* Every continuation of a request, after its await, keeps the types.
LEMMA TypeCallStep ==
  ASSUME TypeOK, NEW c \in Callers, CallStep(c)
  PROVE  TypeOK'
<1> USE DEF TypeOK, Status, TerminalStatus, rowVars, queueVars, callVars, quitVars, returns
<1>1. ASSUME NEW r \in Runs, resumeQueued(c, r) PROVE TypeOK'
  BY <1>1 DEF resumeQueued, clearAttempt, enqueue, scheduleQueueAdvance
<1>2. ASSUME NEW r \in Runs, resumeDirect(c, r) PROVE TypeOK'
  BY <1>2 DEF resumeDirect, clearAttempt, beginLaunch
<1>3. CASE resumeRefused(c)
  BY <1>3 DEF resumeRefused
<1>4. CASE cancelTimedOut(c)
  BY <1>4 DEF cancelTimedOut
<1>5. CASE cancelReturns(c)
  BY <1>5 DEF cancelReturns
<1>6. CASE settleAdapterlessCancel(c)
  BY <1>6 DEF settleAdapterlessCancel, scheduleQueueAdvance
<1>7. CASE failAndStopAborts(c)
  BY <1>7 DEF failAndStopAborts
<1>8. CASE failAndStopReturns(c)
  BY <1>8 DEF failAndStopReturns, settleFailedStop, scheduleQueueAdvance
<1> QED BY <1>1, <1>2, <1>3, <1>4, <1>5, <1>6, <1>7, <1>8 DEF CallStep

\* The types are inductive.
LEMMA TypeNext == TypeOK /\ [Next]_vars => TypeOK'
<1> SUFFICES ASSUME TypeOK, [Next]_vars PROVE TypeOK'
  OBVIOUS
<1> USE DEF rowVars, queueVars, callVars, quitVars
<1>1. ASSUME NEW r \in Runs, RunStep(r) PROVE TypeOK'
  BY <1>1, TypeRunStep
<1>2. ASSUME NEW c \in Callers, NEW r \in Runs, Request(c, r) PROVE TypeOK'
  BY <1>2, TypeRequest
<1>3. ASSUME NEW c \in Callers, CallStep(c) PROVE TypeOK'
  BY <1>3, TypeCallStep
<1>4. CASE advanceQueueEnds
  BY <1>4 DEF advanceQueueEnds, TypeOK
<1>5. CASE dispose
  BY <1>5 DEF dispose, TypeOK
<1>6. CASE disposeDetaches
  BY <1>6 DEF disposeDetaches, TypeOK
<1>7. CASE UNCHANGED vars
  BY <1>7 DEF vars, TypeOK
<1> QED BY <1>1, <1>2, <1>3, <1>4, <1>5, <1>6, <1>7 DEF Next

\* The rows, the maps and sets of the manager, and the progress of its requests
\* always have their types.
THEOREM TypeCorrect == Spec => []TypeOK
BY TypeInit, TypeNext, PTL DEF Spec

-----------------------------------------------------------------------------
(* Rows, bindings, processes and requests agree *)

\* Every step of a run keeps rows, bindings, processes and requests in agreement.
LEMMA AgreementRunStep ==
  ASSUME TypeOK, Agreement, NEW r \in Runs, RunStep(r)
  PROVE  Agreement'
<1> USE DEF TypeOK, Status, TerminalStatus, rowVars, queueVars, callVars, quitVars,
            Agreement, NoOrphanProcess, RunningIsLive, StopFindsSettledRow, LaunchInv,
            CallInv, IntentInv, gone, Launched, isTerminal
<1>2. CASE startQueued(r)
  BY <1>2 DEF startQueued, startAdmitted, createRow, enqueue
<1>3. CASE startDirect(r)
  BY <1>3 DEF startDirect, startAdmitted, createRow, beginLaunch
<1>4. CASE finishFailed(r)
  BY <1>4 DEF finishFailed, launchReturns
<1>5. CASE launchSpawned(r)
  BY <1>5 DEF launchSpawned, launchReturns
<1>6. CASE launchIdentified(r)
  BY <1>6 DEF launchIdentified, launchReturns
<1>7. CASE advanceQueue(r)
  BY <1>7 DEF advanceQueue, beginLaunch, eligible, Queued
<1>8. ASSUME NEW exitCode \in {0, 1}, processExited(r, exitCode)
      PROVE  Agreement'
  BY <1>8 DEF processExited, stopsResolve, exitStatus
<1>9. CASE cancelQueued(r)
  BY <1>9 DEF cancelQueued
<1>10. CASE failAndStopQueued(r)
  BY <1>10 DEF failAndStopQueued, settleFailedStop
<1>11. CASE disposeStopTimedOut(r)
  BY <1>11 DEF disposeStopTimedOut
<1> QED BY <1>2, <1>3, <1>4, <1>5, <1>6, <1>7, <1>8, <1>9, <1>10, <1>11 DEF RunStep

\* Initially nothing runs, and nobody waits.
LEMMA AgreementInit == Init => Agreement
BY LeftoverAssumption
   DEF Init, Agreement, NoOrphanProcess, RunningIsLive, StopFindsSettledRow, LaunchInv,
       CallInv, IntentInv, gone, Launched, isTerminal, Leftover, TerminalStatus

\* Every new request keeps them in agreement.
LEMMA AgreementRequest ==
  ASSUME TypeOK, Agreement, NEW c \in Callers, NEW r \in Runs, Request(c, r)
  PROVE  Agreement'
<1> USE DEF TypeOK, Status, TerminalStatus, rowVars, queueVars, callVars, quitVars,
            Agreement, NoOrphanProcess, RunningIsLive, StopFindsSettledRow, LaunchInv,
            CallInv, IntentInv, gone, Launched, isTerminal
<1>1. CASE resume(c, r)
  BY <1>1 DEF resume
<1>2. CASE cancel(c, r)
  BY <1>2 DEF cancel
<1>3. CASE cancelAdapterless(c, r)
  BY <1>3 DEF cancelAdapterless
<1>4. CASE failAndStop(c, r)
  BY <1>4 DEF failAndStop, launchInFlight
<1> QED BY <1>1, <1>2, <1>3, <1>4 DEF Request

\* Every continuation of a request keeps them in agreement.
LEMMA AgreementCallStep ==
  ASSUME TypeOK, Agreement, NEW c \in Callers, CallStep(c)
  PROVE  Agreement'
<1> USE DEF TypeOK, Status, TerminalStatus, rowVars, queueVars, callVars, quitVars, returns,
            Agreement, NoOrphanProcess, RunningIsLive, StopFindsSettledRow, LaunchInv,
            CallInv, IntentInv, gone, Launched, isTerminal
<1>1. ASSUME NEW r \in Runs, resumeQueued(c, r) PROVE Agreement'
  BY <1>1 DEF resumeQueued, resumable, clearAttempt, enqueue
<1>2. ASSUME NEW r \in Runs, resumeDirect(c, r) PROVE Agreement'
  BY <1>2 DEF resumeDirect, resumable, clearAttempt, beginLaunch
<1>3. CASE resumeRefused(c)
  BY <1>3 DEF resumeRefused
<1>4. CASE cancelTimedOut(c)
  BY <1>4 DEF cancelTimedOut
<1>5. CASE cancelReturns(c)
  BY <1>5 DEF cancelReturns
<1>6. CASE settleAdapterlessCancel(c)
  BY <1>6 DEF settleAdapterlessCancel
<1>7. CASE failAndStopAborts(c)
  BY <1>7 DEF failAndStopAborts
<1>8. CASE failAndStopReturns(c)
  BY <1>8 DEF failAndStopReturns, settleFailedStop
<1> QED BY <1>1, <1>2, <1>3, <1>4, <1>5, <1>6, <1>7, <1>8 DEF CallStep

\* Together with the types the agreement is inductive.
LEMMA AgreementNext == TypeOK /\ Agreement /\ [Next]_vars => Agreement'
<1> SUFFICES ASSUME TypeOK, Agreement, [Next]_vars PROVE Agreement'
  OBVIOUS
<1> USE DEF rowVars, queueVars, callVars, quitVars
<1>a. ASSUME UNCHANGED <<rowVars, alive, activeAdapters, callVars>>,
             quit' = quit, phase' = phase, failStopIntents' = failStopIntents
      PROVE  Agreement'
  BY <1>a DEF Agreement, NoOrphanProcess, RunningIsLive, StopFindsSettledRow, LaunchInv,
              CallInv, IntentInv, gone, Launched, isTerminal
<1>1. ASSUME NEW r \in Runs, RunStep(r) PROVE Agreement'
  BY <1>1, AgreementRunStep
<1>2. ASSUME NEW c \in Callers, NEW r \in Runs, Request(c, r) PROVE Agreement'
  BY <1>2, AgreementRequest
<1>3. ASSUME NEW c \in Callers, CallStep(c) PROVE Agreement'
  BY <1>3, AgreementCallStep
<1>4. CASE advanceQueueEnds
  BY <1>4, <1>a DEF advanceQueueEnds
<1>5. CASE dispose
  BY <1>5 DEF dispose, TypeOK, Agreement, NoOrphanProcess, RunningIsLive,
              StopFindsSettledRow, LaunchInv, CallInv, IntentInv, gone, Launched, isTerminal
<1>6. CASE disposeDetaches
  BY <1>6 DEF disposeDetaches, TypeOK, Agreement, NoOrphanProcess, RunningIsLive,
              StopFindsSettledRow, LaunchInv, CallInv, IntentInv, gone, Launched, isTerminal
<1>7. CASE UNCHANGED vars
  BY <1>7, <1>a DEF vars
<1> QED BY <1>1, <1>2, <1>3, <1>4, <1>5, <1>6, <1>7 DEF Next

-----------------------------------------------------------------------------
(* Admission: how a step may change a row's status, that the rows which hold
   slots obey the rules, and that the manager implements RunSlots. *)


\* The ways a row's status may change.
Queues(r) ==
    /\ status[r] \in {"none", "interrupted"}
    /\ status' = [status EXCEPT ![r] = "queued"]

Admits(r) ==
    /\ status[r] \in {"none", "queued", "interrupted"}
    /\ status[r] = "queued" \/ Queued = {}
    /\ noConflict(r) /\ hasCapacity(r)
    /\ status' = [status EXCEPT ![r] = "preparing"]

Confirms(r) ==
    /\ status[r] = "preparing"
    /\ status' = [status EXCEPT ![r] = "running"]

Settles(r) ==
    /\ \/ status[r] \in {"queued", "preparing", "running"}
       \/ status[r] \in {"completed", "failed", "cancelled"} /\ r \in LeftActive
    /\ \E t \in {"completed", "failed", "cancelled"} : status' = [status EXCEPT ![r] = t]

StatusStep ==
    \/ status' = status
    \/ \E r \in Runs : Queues(r) \/ Admits(r) \/ Confirms(r) \/ Settles(r)

-----------------------------------------------------------------------------
\* A step of a run changes at most that run's status, in one of those ways.
LEMMA StatusRunStep ==
  ASSUME TypeOK, Agreement, NEW r \in Runs, RunStep(r)
  PROVE  StatusStep
<1> USE DEF StatusStep, rowVars, TypeOK, Status, TerminalStatus, isTerminal
<1>1. CASE startQueued(r)
  BY <1>1 DEF startQueued, startAdmitted, enqueue, Queues
<1>2. CASE startDirect(r)
  BY <1>2 DEF startDirect, startAdmitted, mustQueue, beginLaunch, Admits
<1>3. CASE finishFailed(r)
  BY <1>3 DEF finishFailed, Settles, Agreement, LaunchInv
<1>4. CASE launchSpawned(r)
  BY <1>4 DEF launchSpawned
<1>5. CASE launchIdentified(r)
  <2>1. status[r] = "preparing" \/ isTerminal(r)
    BY <1>5 DEF launchIdentified, Agreement, LaunchInv
  <2> QED BY <1>5, <2>1 DEF launchIdentified, Confirms
<1>6. CASE advanceQueue(r)
  BY <1>6 DEF advanceQueue, eligible, Queued, beginLaunch, Admits
<1>7. ASSUME NEW exitCode \in {0, 1}, processExited(r, exitCode)
      PROVE  StatusStep
  <2>1. exitStatus(r, exitCode) \in {"completed", "failed", "cancelled"}
    BY DEF exitStatus
  <2>2. r \in activeAdapters => status[r] \in {"preparing", "running"}
    BY DEF Agreement, Launched
  <2> QED BY <1>7, <2>1, <2>2 DEF processExited, Settles
<1>8. CASE cancelQueued(r)
  BY <1>8 DEF cancelQueued, Settles
<1>9. CASE failAndStopQueued(r)
  BY <1>9 DEF failAndStopQueued, settleFailedStop, Settles
<1>10. CASE disposeStopTimedOut(r)
  BY <1>10 DEF disposeStopTimedOut
<1> QED BY <1>1, <1>2, <1>3, <1>4, <1>5, <1>6, <1>7, <1>8, <1>9, <1>10 DEF RunStep

\* So does a continuation of a request.
LEMMA StatusCallStep ==
  ASSUME TypeOK, Agreement, NEW c \in Callers, CallStep(c)
  PROVE  StatusStep
<1> USE DEF StatusStep, rowVars, TypeOK, Status, TerminalStatus, isTerminal
<1>1. ASSUME NEW r \in Runs, resumeQueued(c, r) PROVE StatusStep
  BY <1>1 DEF resumeQueued, resumable, enqueue, Queues
<1>2. ASSUME NEW r \in Runs, resumeDirect(c, r) PROVE StatusStep
  BY <1>2 DEF resumeDirect, resumable, mustQueue, beginLaunch, Admits
<1>3. CASE resumeRefused(c)
  BY <1>3 DEF resumeRefused
<1>4. CASE cancelTimedOut(c)
  BY <1>4 DEF cancelTimedOut
<1>5. CASE cancelReturns(c)
  <2>1. callRun[c] \in Runs
    BY <1>5 DEF cancelReturns, TypeOK
  <2>2. gone(callRun[c])
    BY <1>5 DEF cancelReturns, Agreement, CallInv
  <2> QED BY <1>5, <2>1, <2>2 DEF cancelReturns, gone, Settles
<1>6. CASE settleAdapterlessCancel(c)
  <2>1. callRun[c] \in Runs
    BY <1>6 DEF settleAdapterlessCancel, TypeOK
  <2>2. gone(callRun[c]) /\ callRun[c] \in LeftActive
    BY <1>6 DEF settleAdapterlessCancel, Agreement, CallInv
  <2> QED BY <1>6, <2>1, <2>2 DEF settleAdapterlessCancel, gone, Settles
<1>7. CASE failAndStopAborts(c)
  BY <1>7 DEF failAndStopAborts
<1>8. CASE failAndStopReturns(c)
  <2>1. callRun[c] \in Runs
    BY <1>8 DEF failAndStopReturns, TypeOK
  <2>2. gone(callRun[c])
    BY <1>8 DEF failAndStopReturns, Agreement, CallInv
  <2> QED BY <1>8, <2>1, <2>2 DEF failAndStopReturns, settleFailedStop, gone, Settles
<1> QED BY <1>1, <1>2, <1>3, <1>4, <1>5, <1>6, <1>7, <1>8 DEF CallStep

\* And so does every step.
LEMMA StatusNext == TypeOK /\ Agreement /\ [Next]_vars => StatusStep
<1> SUFFICES ASSUME TypeOK, Agreement, [Next]_vars PROVE StatusStep
  OBVIOUS
<1>1. ASSUME NEW r \in Runs, RunStep(r) PROVE StatusStep
  BY <1>1, StatusRunStep
<1>2. ASSUME NEW c \in Callers, NEW r \in Runs, Request(c, r) PROVE StatusStep
  BY <1>2 DEF Request, resume, cancel, cancelAdapterless, failAndStop, StatusStep, rowVars
<1>3. ASSUME NEW c \in Callers, CallStep(c) PROVE StatusStep
  BY <1>3, StatusCallStep
<1>4. CASE advanceQueueEnds \/ dispose \/ disposeDetaches
  BY <1>4 DEF advanceQueueEnds, dispose, disposeDetaches, StatusStep, rowVars
<1>5. CASE UNCHANGED vars
  BY <1>5 DEF vars, StatusStep, rowVars
<1> QED BY <1>1, <1>2, <1>3, <1>4, <1>5 DEF Next

-----------------------------------------------------------------------------
(* The admission rules *)

\* Giving slots back never breaks a limit, nor an exclusion.
LEMMA Shrink ==
  ASSUME NEW held \in SUBSET Runs, NEW less \in SUBSET held,
         limitsRespected(held), exclusive(held)
  PROVE  limitsRespected(less) /\ exclusive(less)
<1>1. \A S, T : T \in SUBSET Runs /\ S \in SUBSET T =>
        /\ Cardinality(S) \in Nat /\ Cardinality(T) \in Nat
        /\ Cardinality(S) <= Cardinality(T)
  <2> SUFFICES ASSUME NEW T \in SUBSET Runs, NEW S \in SUBSET T
               PROVE  /\ Cardinality(S) \in Nat /\ Cardinality(T) \in Nat
                      /\ Cardinality(S) <= Cardinality(T)
    OBVIOUS
  <2>1. IsFiniteSet(T)
    BY RunsAssumption, FS_Subset
  <2>2. IsFiniteSet(S) /\ Cardinality(S) <= Cardinality(T)
    BY <2>1, FS_Subset
  <2> QED BY <2>1, <2>2, FS_CardinalityType
<1>2. ASSUME NEW A \in SUBSET Runs, NEW limit \in Nat, Cardinality(held \cap A) <= limit
      PROVE  Cardinality(less \cap A) <= limit
  <2>1. less \cap A \in SUBSET (held \cap A) /\ held \cap A \in SUBSET Runs
    OBVIOUS
  <2>2. /\ Cardinality(less \cap A) \in Nat /\ Cardinality(held \cap A) \in Nat
        /\ Cardinality(less \cap A) <= Cardinality(held \cap A)
    BY <2>1, <1>1
  <2> QED BY <1>2, <2>2
<1>3. Cardinality(less) <= maxGlobalRuns
  <2>1. Cardinality(less) \in Nat /\ Cardinality(held) \in Nat
        /\ Cardinality(less) <= Cardinality(held)
    BY <1>1
  <2> QED BY <2>1, LimitsAssumption DEF limitsRespected
<1>4. ASSUME NEW r \in Runs
      PROVE  /\ Cardinality(less \cap sameWorkspace(r)) <= maxRunsPerWorkspace
             /\ Cardinality(less \cap sameAgent(r)) <= maxRunsPerAgent
             /\ profileOf[r] \in DOMAIN maxConcurrentRuns =>
                  Cardinality(less \cap sameProfile(r)) <= maxConcurrentRuns[profileOf[r]]
  <2>1. /\ sameWorkspace(r) \in SUBSET Runs /\ sameAgent(r) \in SUBSET Runs
        /\ sameProfile(r) \in SUBSET Runs
    BY DEF sameWorkspace, sameAgent, sameProfile
  <2>2. Cardinality(less \cap sameWorkspace(r)) <= maxRunsPerWorkspace
    BY <1>2, <2>1, LimitsAssumption DEF limitsRespected
  <2>3. Cardinality(less \cap sameAgent(r)) <= maxRunsPerAgent
    BY <1>2, <2>1, LimitsAssumption DEF limitsRespected
  <2>4. ASSUME profileOf[r] \in DOMAIN maxConcurrentRuns
        PROVE  Cardinality(less \cap sameProfile(r)) <= maxConcurrentRuns[profileOf[r]]
    BY <1>2, <2>1, <2>4, LimitsAssumption DEF limitsRespected
  <2> QED BY <2>2, <2>3, <2>4
<1>5. exclusive(less)
  BY DEF exclusive
<1> QED BY <1>3, <1>4, <1>5 DEF limitsRespected

\* hasCapacity() counts before the run is added: one more slot then fits.
LEMMA AdmissionKeepsLimits ==
  ASSUME NEW r \in Runs, limitsRespected(Launched), hasCapacity(r)
  PROVE  limitsRespected(Launched \cup {r})
<1>1. ASSUME NEW A \in SUBSET Runs, NEW limit \in Nat, Cardinality(Launched \cap A) < limit
      PROVE  Cardinality((Launched \cup {r}) \cap A) <= limit
  <2>1. IsFiniteSet(Launched \cap A)
    BY RunsAssumption, FS_Subset
  <2>2. Cardinality(Launched \cap A) \in Nat
    BY <2>1, FS_CardinalityType
  <2>3. CASE r \in A
    <3> DEFINE before == Cardinality(Launched \cap A)
               after  == Cardinality((Launched \cup {r}) \cap A)
    <3>1. (Launched \cup {r}) \cap A = (Launched \cap A) \cup {r}
      BY <2>3
    <3>2. after = Cardinality((Launched \cap A) \cup {r})
      BY <3>1, Zenon
    <3>3. Cardinality((Launched \cap A) \cup {r}) \in {before, before + 1}
      BY <2>1, FS_AddElement
    <3>4. before \in Nat /\ before < limit
      BY <1>1, <2>2
    <3> HIDE DEF before, after
    <3>5. after \in {before, before + 1}
      BY <3>2, <3>3
    <3>6. after <= limit
      BY <3>4, <3>5
    <3> QED BY <3>6 DEF after
  <2>4. CASE r \notin A
    <3>1. (Launched \cup {r}) \cap A = Launched \cap A
      BY <2>4
    <3> QED BY <1>1, <2>2, <3>1
  <2> QED BY <2>3, <2>4
<1>2. ASSUME NEW A \in SUBSET Runs, NEW limit \in Nat, Cardinality(Launched \cap A) <= limit,
             r \notin A
      PROVE  Cardinality((Launched \cup {r}) \cap A) <= limit
  <2>1. (Launched \cup {r}) \cap A = Launched \cap A
    BY <1>2
  <2> QED BY <1>2, <2>1
<1>3. Cardinality(Launched \cup {r}) <= maxGlobalRuns
  <2>1. Launched \cap Runs = Launched /\ (Launched \cup {r}) \cap Runs = Launched \cup {r}
    BY DEF Launched
  <2> QED BY <1>1, <2>1, LimitsAssumption DEF hasCapacity
<1>4. ASSUME NEW s \in Runs
      PROVE  /\ Cardinality((Launched \cup {r}) \cap sameWorkspace(s)) <= maxRunsPerWorkspace
             /\ Cardinality((Launched \cup {r}) \cap sameAgent(s)) <= maxRunsPerAgent
             /\ profileOf[s] \in DOMAIN maxConcurrentRuns =>
                  Cardinality((Launched \cup {r}) \cap sameProfile(s))
                    <= maxConcurrentRuns[profileOf[s]]
  <2>1. /\ sameWorkspace(s) \in SUBSET Runs /\ sameAgent(s) \in SUBSET Runs
        /\ sameProfile(s) \in SUBSET Runs
    BY DEF sameWorkspace, sameAgent, sameProfile
  <2>2. Cardinality((Launched \cup {r}) \cap sameWorkspace(s)) <= maxRunsPerWorkspace
    <3>1. CASE r \in sameWorkspace(s)
      <4>1. sameWorkspace(r) = sameWorkspace(s)
        BY <3>1 DEF sameWorkspace
      <4> QED BY <1>1, <2>1, <4>1, LimitsAssumption DEF hasCapacity
    <3>2. CASE r \notin sameWorkspace(s)
      BY <1>2, <2>1, <3>2, LimitsAssumption DEF limitsRespected
    <3> QED BY <3>1, <3>2
  <2>3. Cardinality((Launched \cup {r}) \cap sameAgent(s)) <= maxRunsPerAgent
    <3>1. CASE r \in sameAgent(s)
      <4>1. sameAgent(r) = sameAgent(s)
        BY <3>1 DEF sameAgent
      <4> QED BY <1>1, <2>1, <4>1, LimitsAssumption DEF hasCapacity
    <3>2. CASE r \notin sameAgent(s)
      BY <1>2, <2>1, <3>2, LimitsAssumption DEF limitsRespected
    <3> QED BY <3>1, <3>2
  <2>4. ASSUME profileOf[s] \in DOMAIN maxConcurrentRuns
        PROVE  Cardinality((Launched \cup {r}) \cap sameProfile(s))
                 <= maxConcurrentRuns[profileOf[s]]
    <3>1. CASE r \in sameProfile(s)
      <4>1. sameProfile(r) = sameProfile(s) /\ profileOf[r] = profileOf[s]
        BY <3>1 DEF sameProfile
      <4> QED BY <1>1, <2>1, <2>4, <4>1, LimitsAssumption DEF hasCapacity
    <3>2. CASE r \notin sameProfile(s)
      BY <1>2, <2>1, <2>4, <3>2, LimitsAssumption DEF limitsRespected
    <3> QED BY <3>1, <3>2
  <2> QED BY <2>2, <2>3, <2>4
<1> QED BY <1>3, <1>4 DEF limitsRespected

\* The two conflict checks together keep the holders exclusive.
LEMMA AdmissionKeepsExclusion ==
  ASSUME NEW r \in Runs, exclusive(Launched), noConflict(r)
  PROVE  exclusive(Launched \cup {r})
<1>1. \A s \in Launched : s # r => ~conflicting(r, s) /\ ~conflicting(s, r)
  BY DEF noConflict, unisolatedWriteConflict, worktreeRunConflict, conflicting
<1> QED BY <1>1 DEF exclusive

\* Every change of a status keeps the admission rules.
LEMMA ReservedStep == TypeOK /\ Reserved /\ StatusStep => Reserved'
<1> SUFFICES ASSUME TypeOK, Reserved, StatusStep PROVE Reserved'
  OBVIOUS
<1> USE DEF Reserved, OneReservation, WithinLimits
<1>1. Launched \in SUBSET Runs
  BY DEF Launched
<1>2. ASSUME Launched' \subseteq Launched PROVE Reserved'
  <2>1. limitsRespected(Launched') /\ exclusive(Launched')
    BY <1>1, <1>2, Shrink
  <2> QED BY <2>1 DEF limitsRespected, exclusive, conflicting,
                      sameWorkspace, sameAgent, sameProfile
<1>3. CASE status' = status
  BY <1>2, <1>3 DEF Launched
<1>4. ASSUME NEW r \in Runs, Queues(r) \/ Confirms(r) \/ Settles(r) PROVE Reserved'
  BY <1>2, <1>4 DEF Launched, Queues, Confirms, Settles, TypeOK
<1>5. ASSUME NEW r \in Runs, Admits(r) PROVE Reserved'
  <2>1. limitsRespected(Launched \cup {r}) /\ exclusive(Launched \cup {r})
    BY <1>5, AdmissionKeepsLimits, AdmissionKeepsExclusion DEF Admits
  <2>2. Launched' = Launched \cup {r}
    BY <1>5 DEF Admits, Launched, TypeOK
  <2> QED BY <2>1, <2>2 DEF limitsRespected, exclusive, conflicting,
                            sameWorkspace, sameAgent, sameProfile
<1> QED BY <1>3, <1>4, <1>5 DEF StatusStep

\* The rows of the previous instance obey the rules.
LEMMA ReservedInit == Init => Reserved
<1> SUFFICES ASSUME Init PROVE Reserved
  OBVIOUS
<1>1. Launched = LeftActive
  BY LeftoverAssumption DEF Init, Launched, Leftover
<1> QED BY <1>1, LeftoverAssumption DEF Reserved, OneReservation, WithinLimits

-----------------------------------------------------------------------------
(* The theorems *)

\* The inductive invariant: for every set of runs, every number of concurrent
\* requests and all limits, rows, bindings, processes and requests agree, and the
\* rows that hold a slot obey the admission rules.
THEOREM ConsistentAlways == Spec => []Consistent
<1>1. Init => TypeOK /\ Consistent
  BY TypeInit, AgreementInit, ReservedInit DEF Consistent
<1>2. TypeOK /\ Consistent /\ [Next]_vars => (TypeOK /\ Consistent)'
  BY TypeNext, AgreementNext, StatusNext, ReservedStep DEF Consistent
<1>3. TypeOK /\ Consistent => Consistent
  OBVIOUS
<1> QED BY <1>1, <1>2, <1>3, PTL DEF Spec

\* No two live Agent processes write the same worktree, nor the same unisolated
\* workspace: a live process has a row that holds a slot.
THEOREM OneWriterAlways == Spec => []OneWriter
<1>1. Consistent => OneWriter
  BY DEF Consistent, Reserved, OneReservation, Agreement, NoOrphanProcess, OneWriter,
         exclusive
<1> QED BY <1>1, ConsistentAlways, PTL

\* Conflicting runs never hold slots together and no limit is passed, however the
\* runs came in: start(), resume(), the queue pass, or a previous instance.
THEOREM ReservedAlways == Spec => []Reserved
<1>1. Consistent => Reserved
  BY DEF Consistent
<1> QED BY <1>1, ConsistentAlways, PTL

\* No live process is without a non-terminal row, nor, before dispose() detaches
\* it, without its binding.
THEOREM NoOrphanProcessAlways == Spec => []NoOrphanProcess
<1>1. Consistent => NoOrphanProcess
  BY DEF Consistent, Agreement
<1> QED BY <1>1, ConsistentAlways, PTL

\* A row this instance launched says 'running' only while its process lives.
THEOREM RunningIsLiveAlways == Spec => []RunningIsLive
<1>1. Consistent => RunningIsLive
  BY DEF Consistent, Agreement
<1> QED BY <1>1, ConsistentAlways, PTL

\* When stop() returns, the exit handler has settled the row.
THEOREM StopFindsSettledRowAlways == Spec => []StopFindsSettledRow
<1>1. Consistent => StopFindsSettledRow
  BY DEF Consistent, Agreement
<1> QED BY <1>1, ConsistentAlways, PTL

-----------------------------------------------------------------------------
(* Refinement *)

\* The rows a previous instance left are an admissible set of holders.
LEMMA SlotsInit == Init => Slots!Init
<1> SUFFICES ASSUME Init PROVE Slots!Init
  OBVIOUS
<1>1. slotOf \in [Runs -> {"fresh", "holding"}]
  BY DEF Init, slotOf
<1>2. Slots!Holding = LeftActive
  BY LeftoverAssumption DEF Init, slotOf, Leftover, Slots!Holding
<1> QED BY <1>1, <1>2, LeftoverAssumption DEF Slots!Init, Leftover

\* Every change of a status is a step of RunSlots, or none.
LEMMA SlotsStep ==
  ASSUME TypeOK, Reserved, Reserved', StatusStep
  PROVE  [Slots!Next]_slotOf
<1> USE DEF TypeOK, Status, TerminalStatus
<1>1. CASE status' = status
  BY <1>1 DEF slotOf
<1>2. ASSUME NEW r \in Runs, Queues(r) PROVE [Slots!Next]_slotOf
  <2>1. CASE status[r] = "none" \/ status[r] = "interrupted"
    <3>1. slotOf[r] = "fresh" /\ slotOf' = [slotOf EXCEPT ![r] = "waiting"]
      BY <1>2, <2>1 DEF Queues, slotOf
    <3>2. Slots!Wait(r)
      BY <3>1 DEF Slots!Wait
    <3> QED BY <3>2 DEF Slots!Next
  <2> QED BY <1>2, <2>1 DEF Queues
<1>3. ASSUME NEW r \in Runs, Admits(r) PROVE [Slots!Next]_slotOf
  <2>1. slotOf' = [slotOf EXCEPT ![r] = "holding"]
    BY <1>3 DEF Admits, slotOf
  <2>2. slotOf[r] = "waiting" \/ (slotOf[r] = "fresh" /\ Slots!Waiting = {})
    BY <1>3 DEF Admits, slotOf, Slots!Waiting, Queued
  <2>3. Slots!Holding = Launched
    BY DEF slotOf, Slots!Holding, Launched
  <2>4. Launched' = Launched \cup {r}
    BY <1>3 DEF Admits, Launched
  <2>5. Launched' \in {held \in SUBSET Runs : exclusive(held) /\ limitsRespected(held)}
    <3>1. limitsRespected(Launched \cup {r}) /\ exclusive(Launched \cup {r})
      BY <1>3, AdmissionKeepsLimits, AdmissionKeepsExclusion
         DEF Admits, Reserved, OneReservation, WithinLimits
    <3> QED BY <2>4, <3>1 DEF Launched
  <2>6. Slots!Grant(r)
    BY <2>1, <2>2, <2>3, <2>4, <2>5 DEF Slots!Grant
  <2> QED BY <2>6 DEF Slots!Next
<1>4. ASSUME NEW r \in Runs, Confirms(r) PROVE [Slots!Next]_slotOf
  BY <1>4 DEF Confirms, slotOf
<1>5. ASSUME NEW r \in Runs, Settles(r) PROVE [Slots!Next]_slotOf
  <2>1. CASE status[r] \in {"queued", "preparing", "running"}
    <3>1. slotOf[r] \in {"waiting", "holding"} /\ slotOf' = [slotOf EXCEPT ![r] = "over"]
      BY <1>5, <2>1 DEF Settles, slotOf
    <3>2. Slots!Finish(r)
      BY <3>1 DEF Slots!Finish
    <3> QED BY <3>2 DEF Slots!Next
  <2>2. CASE status[r] \in {"completed", "failed", "cancelled"}
    BY <1>5, <2>2 DEF Settles, slotOf
  <2> QED BY <1>5, <2>1, <2>2 DEF Settles
<1> QED BY <1>1, <1>2, <1>3, <1>4, <1>5 DEF StatusStep

\* The manager implements RunSlots: slots are handed out within the admission
\* rules, newcomers do not overtake the queue, a run that is over stays over.
THEOREM ManagerImplementsSlots == Spec => ImplementsSlots
<1>1. Init => TypeOK /\ Consistent
  BY TypeInit, AgreementInit, ReservedInit DEF Consistent
<1>2. TypeOK /\ Consistent /\ [Next]_vars => (TypeOK /\ Consistent)'
  BY TypeNext, AgreementNext, StatusNext, ReservedStep DEF Consistent
<1>3. TypeOK /\ Consistent /\ (TypeOK /\ Consistent)' /\ [Next]_vars => [Slots!Next]_slotOf
  BY StatusNext, SlotsStep DEF Consistent
<1> QED BY <1>1, <1>2, <1>3, SlotsInit, PTL DEF Spec, ImplementsSlots, Slots!Spec

-----------------------------------------------------------------------------
(* Action properties *)

\* A launch begins only for a run without process and binding, however many
\* resume() calls, queue passes and exits interleave.
THEOREM LaunchedOnceAlways == Spec => LaunchedOnce
<1>1. Init => TypeOK /\ Consistent
  BY TypeInit, AgreementInit, ReservedInit DEF Consistent
<1>2. TypeOK /\ Consistent /\ [Next]_vars => (TypeOK /\ Consistent)'
  BY TypeNext, AgreementNext, StatusNext, ReservedStep DEF Consistent
<1>3. ASSUME TypeOK, Consistent, [Next]_vars, NEW r \in Runs,
             phase[r] # "starting", phase'[r] = "starting"
      PROVE  phase[r] = "idle" /\ r \notin alive /\ r \notin activeAdapters
  <2>1. status[r] \in {"none", "queued", "interrupted"}
    <3> USE DEF TypeOK
    <3>1. phase' # phase
      BY <1>3
    <3>2. ASSUME NEW q \in Runs, RunStep(q)
          PROVE  status[r] \in {"none", "queued", "interrupted"}
      BY <1>3, <3>1, <3>2
         DEF RunStep, startQueued, startDirect, startAdmitted, createRow, enqueue, beginLaunch,
             finishFailed, launchSpawned, launchIdentified, launchReturns, advanceQueue,
             eligible, Queued, processExited, cancelQueued, failAndStopQueued,
             settleFailedStop, disposeStopTimedOut
    <3>3. ASSUME NEW c \in Callers, NEW q \in Runs, Request(c, q) PROVE FALSE
      BY <3>1, <3>3 DEF Request, resume, cancel, cancelAdapterless, failAndStop
    <3>4. ASSUME NEW c \in Callers, CallStep(c)
          PROVE  status[r] \in {"none", "queued", "interrupted"}
      BY <1>3, <3>1, <3>4
         DEF CallStep, resumeQueued, resumeDirect, resumable, enqueue, beginLaunch,
             resumeRefused, cancelTimedOut, cancelReturns, settleAdapterlessCancel,
             failAndStopAborts, failAndStopReturns, settleFailedStop
    <3>5. ~(advanceQueueEnds \/ dispose \/ disposeDetaches \/ UNCHANGED vars)
      BY <3>1 DEF advanceQueueEnds, dispose, disposeDetaches, vars
    <3> QED BY <1>3, <3>2, <3>3, <3>4, <3>5 DEF Next
  <2>2. r \notin Launched
    BY <2>1 DEF Launched
  <2> QED BY <1>3, <2>1, <2>2
          DEF Consistent, Agreement, NoOrphanProcess, LaunchInv, TypeOK
<1>4. TypeOK /\ Consistent /\ [Next]_vars =>
        [\A r \in Runs : phase[r] # "starting" /\ phase'[r] = "starting" =>
           phase[r] = "idle" /\ r \notin alive /\ r \notin activeAdapters]_vars
  BY <1>3
<1> QED BY <1>1, <1>2, <1>4, PTL DEF Spec, LaunchedOnce

\* When the previous instance left no process that startup could not kill, every
\* run is settled once: the only way out of a terminal status is resume().
THEOREM SettledOnceWithoutSurvivors ==
  ASSUME LeftActive = {}
  PROVE  Spec => SettledOnce
<1>1. Init => TypeOK /\ Consistent
  BY TypeInit, AgreementInit, ReservedInit DEF Consistent
<1>2. TypeOK /\ Consistent /\ [Next]_vars => (TypeOK /\ Consistent)'
  BY TypeNext, AgreementNext, StatusNext, ReservedStep DEF Consistent
<1>3. ASSUME TypeOK, Consistent, [Next]_vars, NEW r \in Runs,
             isTerminal(r), status'[r] # status[r]
      PROVE  status[r] = "interrupted" /\ status'[r] \in {"queued", "preparing"}
  <2>1. StatusStep
    BY <1>3, StatusNext DEF Consistent
  <2>2. ASSUME NEW q \in Runs, Queues(q) \/ Admits(q) \/ Confirms(q) \/ Settles(q)
        PROVE  status[r] = "interrupted" /\ status'[r] \in {"queued", "preparing"}
    <3>1. q = r
      BY <1>3, <2>2 DEF TypeOK, Queues, Admits, Confirms, Settles
    <3> QED BY <1>3, <2>2, <3>1 DEF TypeOK, isTerminal, TerminalStatus,
                                    Queues, Admits, Confirms, Settles
  <2> QED BY <1>3, <2>1, <2>2 DEF StatusStep
<1>4. TypeOK /\ Consistent /\ [Next]_vars =>
        [\A r \in Runs : isTerminal(r) /\ status'[r] # status[r] =>
           status[r] = "interrupted" /\ status'[r] \in {"queued", "preparing"}]_vars
  BY <1>3
<1> QED BY <1>1, <1>2, <1>4, PTL DEF Spec, SettledOnce

\* The two ways out of a terminal status.
Resumed(r) == status[r] = "interrupted" /\ status'[r] \in {"queued", "preparing"}
SurvivorCancelled(r) ==
    r \in LeftActive /\ \E c \in Callers : callRun[c] = r /\ settleAdapterlessCancel(c)

\* With such a process too, one thing only settles a run a second time: the
\* cancel of the row it left, which does not look again after its awaits.
THEOREM OnlySurvivorsSettleTwice ==
  Spec => [][\A r \in Runs : isTerminal(r) /\ status'[r] # status[r] =>
               Resumed(r) \/ SurvivorCancelled(r)]_vars
<1>1. ASSUME TypeOK, Consistent, [Next]_vars, NEW r \in Runs,
             isTerminal(r), status'[r] # status[r]
      PROVE  Resumed(r) \/ SurvivorCancelled(r)
  <2> USE DEF rowVars
  <2>a. \A q \in Runs : \A s : status' = [status EXCEPT ![q] = s] => q = r
    BY <1>1 DEF TypeOK
  <2>b. status' # status
    BY <1>1
  <2>c. status[r] \in {"completed", "failed", "cancelled", "interrupted"}
    BY <1>1 DEF isTerminal, TerminalStatus
  <2>1. ASSUME NEW q \in Runs, RunStep(q) PROVE FALSE
    <3>1. ~(startQueued(q) \/ startDirect(q) \/ advanceQueue(q))
      BY <2>a, <2>c DEF startQueued, startDirect, startAdmitted, enqueue, beginLaunch,
         advanceQueue, eligible, Queued
    <3>2. ~finishFailed(q)
      BY <1>1, <2>a, <2>c DEF finishFailed, Consistent, Agreement, LaunchInv
    <3>3. ~launchSpawned(q)
      BY <2>b DEF launchSpawned
    <3>4. ~launchIdentified(q)
      BY <1>1, <2>a, <2>b DEF launchIdentified
    <3>5. q \in alive => status[q] \in {"preparing", "running"}
      BY <1>1 DEF Consistent, Agreement, NoOrphanProcess, Launched
    <3>6. ASSUME NEW exitCode \in {0, 1}, processExited(q, exitCode) PROVE FALSE
      BY <2>a, <2>b, <2>c, <3>5, <3>6 DEF processExited
    <3>7. ~(cancelQueued(q) \/ failAndStopQueued(q) \/ disposeStopTimedOut(q))
      BY <2>a, <2>b, <2>c DEF cancelQueued, failAndStopQueued, settleFailedStop,
         disposeStopTimedOut
    <3> QED BY <2>1, <3>1, <3>2, <3>3, <3>4, <3>6, <3>7 DEF RunStep
  <2>2. ASSUME NEW c \in Callers, NEW q \in Runs, Request(c, q) PROVE FALSE
    BY <2>b, <2>2 DEF Request, resume, cancel, cancelAdapterless, failAndStop
  <2>3. ASSUME NEW c \in Callers, CallStep(c) PROVE Resumed(r) \/ SurvivorCancelled(r)
    <3>1. ASSUME NEW q \in Runs, resumeQueued(c, q) \/ resumeDirect(c, q)
          PROVE  Resumed(r)
      BY <1>1, <2>a, <3>1 DEF TypeOK, Resumed, resumeQueued, resumeDirect, resumable, enqueue,
         beginLaunch
    <3>2. ~(resumeRefused(c) \/ cancelTimedOut(c) \/ failAndStopAborts(c))
      BY <2>b DEF resumeRefused, cancelTimedOut, failAndStopAborts
    <3>3. ~(cancelReturns(c) \/ failAndStopReturns(c))
      <4>1. CASE cancelReturns(c)
        <5>1. callRun[c] \in Runs
          BY <1>1, <4>1 DEF cancelReturns, TypeOK
        <5> QED BY <1>1, <2>a, <2>b, <4>1, <5>1 DEF cancelReturns
      <4>2. CASE failAndStopReturns(c)
        <5>1. callRun[c] \in Runs
          BY <1>1, <4>2 DEF failAndStopReturns, TypeOK
        <5> QED BY <1>1, <2>a, <2>b, <4>2, <5>1 DEF failAndStopReturns, settleFailedStop
      <4> QED BY <4>1, <4>2
    <3>4. CASE settleAdapterlessCancel(c)
      <4>1. callRun[c] \in LeftActive
        BY <1>1, <3>4 DEF settleAdapterlessCancel, Consistent, Agreement, CallInv
      <4>2. callRun[c] = r
        BY <1>1, <2>a, <3>4 DEF settleAdapterlessCancel, TypeOK
      <4> QED BY <3>4, <4>1, <4>2 DEF SurvivorCancelled
    <3> QED BY <2>3, <3>1, <3>2, <3>3, <3>4 DEF CallStep
  <2>4. ~(advanceQueueEnds \/ dispose \/ disposeDetaches \/ UNCHANGED vars)
    BY <2>b DEF advanceQueueEnds, dispose, disposeDetaches, vars
  <2> QED BY <1>1, <2>1, <2>2, <2>3, <2>4 DEF Next
<1>2. TypeOK /\ Consistent /\ [Next]_vars =>
        [\A r \in Runs : isTerminal(r) /\ status'[r] # status[r] =>
           Resumed(r) \/ SurvivorCancelled(r)]_vars
  BY <1>1
<1> QED BY <1>2, TypeCorrect, ConsistentAlways, PTL DEF Spec

\* A fail-and-stop intent on a run this instance launched decides how it ends,
\* against cancels, exits and shutdown in every order.
THEOREM FailStopWinsAlways == Spec => FailStopWins
<1>1. Init => TypeOK /\ Consistent
  BY TypeInit, AgreementInit, ReservedInit DEF Consistent
<1>2. TypeOK /\ Consistent /\ [Next]_vars => (TypeOK /\ Consistent)'
  BY TypeNext, AgreementNext, StatusNext, ReservedStep DEF Consistent
<1>3. ASSUME TypeOK, Consistent, [Next]_vars, NEW r \in failStopIntents \ LeftActive,
             ~isTerminal(r), isTerminal(r)'
      PROVE  status'[r] = "failed" /\ r \in registered'
  <2> USE <1>3 DEF TypeOK, Status, TerminalStatus, isTerminal, rowVars
  <2>1. /\ r \in Runs /\ quit # "detached" /\ phase[r] # "starting"
        /\ status[r] \notin {"none", "queued", "interrupted"}
    BY DEF Consistent, Agreement, IntentInv
  <2>2. ASSUME NEW q \in Runs, RunStep(q)
        PROVE  status'[r] = "failed" /\ r \in registered'
    <3>1. CASE \E exitCode \in {0, 1} : processExited(q, exitCode)
      BY <2>1, <3>1 DEF processExited, exitStatus
    <3>2. CASE failAndStopQueued(q)
      BY <2>1, <3>2 DEF failAndStopQueued, settleFailedStop
    <3>3. ~(startQueued(q) \/ startDirect(q) \/ advanceQueue(q))
      BY <2>1 DEF startQueued, startDirect, startAdmitted, enqueue, beginLaunch,
                  advanceQueue, eligible, Queued
    <3>4. ~(finishFailed(q) \/ launchSpawned(q) \/ launchIdentified(q))
      BY <2>1 DEF finishFailed, launchSpawned, launchIdentified
    <3>5. ~(cancelQueued(q) \/ disposeStopTimedOut(q))
      BY <2>1 DEF cancelQueued, disposeStopTimedOut
    <3> QED BY <2>2, <3>1, <3>2, <3>3, <3>4, <3>5 DEF RunStep
  <2>3. ASSUME NEW c \in Callers, NEW q \in Runs, Request(c, q) PROVE FALSE
    BY <2>3 DEF Request, resume, cancel, cancelAdapterless, failAndStop
  <2>4. ASSUME NEW c \in Callers, CallStep(c)
        PROVE  status'[r] = "failed" /\ r \in registered'
    <3>1. CASE failAndStopReturns(c)
      BY <2>1, <3>1 DEF failAndStopReturns, settleFailedStop
    <3>2. ~settleAdapterlessCancel(c)
      BY <2>1 DEF settleAdapterlessCancel, Consistent, Agreement, CallInv
    <3>3. ~cancelReturns(c)
      BY <2>1 DEF cancelReturns, Consistent, Agreement, StopFindsSettledRow
    <3>4. ~\E q \in Runs : resumeQueued(c, q) \/ resumeDirect(c, q)
      BY <2>1 DEF resumeQueued, resumeDirect, resumable, enqueue, beginLaunch
    <3>5. ~(resumeRefused(c) \/ cancelTimedOut(c) \/ failAndStopAborts(c))
      BY DEF resumeRefused, cancelTimedOut, failAndStopAborts
    <3> QED BY <2>4, <3>1, <3>2, <3>3, <3>4, <3>5 DEF CallStep
  <2>5. ~(advanceQueueEnds \/ dispose \/ disposeDetaches \/ UNCHANGED vars)
    BY DEF advanceQueueEnds, dispose, disposeDetaches, vars
  <2> QED BY <2>2, <2>3, <2>4, <2>5 DEF Next
<1>4. TypeOK /\ Consistent /\ [Next]_vars =>
        [\A r \in failStopIntents \ LeftActive : ~isTerminal(r) /\ isTerminal(r)' =>
           status'[r] = "failed" /\ r \in registered']_vars
  BY <1>3
<1> QED BY <1>1, <1>2, <1>4, PTL DEF Spec, FailStopWins

-----------------------------------------------------------------------------
(* The queue is woken *)

\* A pass that awaits a launch is not over: its wake-up is not served yet.
PassAwaits == queueLaunch # NoRun => wake

\* No pass is due and a queued run could be launched.
Forgotten == quit = "up" /\ ~wake /\ \E r \in Runs : eligible(r)

\* Nothing is given back and nobody joins the queue.
NothingFreed ==
    /\ wake' = wake
    /\ Launched \subseteq Launched' /\ Queued' \cap pendingRuns' \subseteq Queued \cap pendingRuns

\* A run that may be launched could be launched before, when more slots were
\* free: conflicts and limits only look at the rows that hold slots.
LEMMA EligibleBefore ==
  ASSUME NEW r \in Runs, Launched \subseteq Launched', r \in Queued \cap pendingRuns,
         eligible(r)'
  PROVE  eligible(r)
<1>1. noConflict(r)
  BY DEF eligible, noConflict, unisolatedWriteConflict, worktreeRunConflict
<1>2. ASSUME NEW S, NEW k \in Nat, Cardinality(Launched' \cap S) < k
      PROVE  Cardinality(Launched \cap S) < k
  <2>1. Launched' \cap S \subseteq Runs /\ Launched \cap S \subseteq Launched' \cap S
    BY DEF Launched
  <2>2. IsFiniteSet(Launched' \cap S)
    BY <2>1, RunsAssumption, FS_Subset
  <2>3. Cardinality(Launched \cap S) <= Cardinality(Launched' \cap S)
    BY <2>1, <2>2, FS_Subset
  <2>4. Cardinality(Launched \cap S) \in Nat /\ Cardinality(Launched' \cap S) \in Nat
    BY <2>1, <2>2, FS_Subset, FS_CardinalityType
  <2> QED BY <1>2, <2>3, <2>4
<1>3. hasCapacity(r)'
  BY DEF eligible
<1>4. Cardinality(Launched) < maxGlobalRuns
  <2>1. Launched \cap Runs = Launched /\ Launched' \cap Runs = Launched'
    BY DEF Launched
  <2>2. Cardinality(Launched' \cap Runs) < maxGlobalRuns
    BY <1>3, <2>1 DEF hasCapacity
  <2>3. Cardinality(Launched \cap Runs) < maxGlobalRuns
    BY <1>2, <2>2, LimitsAssumption
  <2> QED BY <2>1, <2>3
<1>5. Cardinality(Launched \cap sameWorkspace(r)) < maxRunsPerWorkspace
  BY <1>2, <1>3, LimitsAssumption DEF hasCapacity, sameWorkspace
<1>6. Cardinality(Launched \cap sameAgent(r)) < maxRunsPerAgent
  BY <1>2, <1>3, LimitsAssumption DEF hasCapacity, sameAgent
<1>7. profileOf[r] \in DOMAIN maxConcurrentRuns =>
        Cardinality(Launched \cap sameProfile(r)) < maxConcurrentRuns[profileOf[r]]
  BY <1>2, <1>3, LimitsAssumption DEF hasCapacity, sameProfile
<1>8. hasCapacity(r)
  BY <1>4, <1>5, <1>6, <1>7 DEF hasCapacity
<1> QED BY <1>1, <1>8 DEF eligible

\* A step of a run wakes the queue, or frees nothing, unless it is the failure
\* of a launch.
LEMMA WakeRunStep ==
  ASSUME TypeOK, Agreement, PassAwaits, NEW r \in Runs, RunStep(r), ~finishFailed(r)
  PROVE  PassAwaits' /\ (wake' \/ NothingFreed)
<1> USE DEF TypeOK, Status, TerminalStatus, isTerminal, PassAwaits, NothingFreed, Launched,
            Queued, rowVars, queueVars, scheduleQueueAdvance
<1>1. CASE startQueued(r)
  BY <1>1 DEF startQueued, enqueue
<1>2. CASE startDirect(r)
  BY <1>2 DEF startDirect, startAdmitted, beginLaunch
<1>3. CASE launchSpawned(r)
  BY <1>3 DEF launchSpawned, launchReturns
<1>4. CASE launchIdentified(r)
  BY <1>4 DEF launchIdentified, launchReturns, Agreement, LaunchInv
<1>5. CASE advanceQueue(r)
  BY <1>5 DEF advanceQueue
<1>6. ASSUME NEW exitCode \in {0, 1}, processExited(r, exitCode)
      PROVE  PassAwaits' /\ (wake' \/ NothingFreed)
  BY <1>6 DEF processExited
<1>7. CASE cancelQueued(r) \/ failAndStopQueued(r)
  BY <1>7 DEF cancelQueued, failAndStopQueued, settleFailedStop
<1>8. CASE disposeStopTimedOut(r)
  BY <1>8 DEF disposeStopTimedOut
<1> QED BY <1>1, <1>2, <1>3, <1>4, <1>5, <1>6, <1>7, <1>8 DEF RunStep

\* So does a continuation of a request: the settle after stop() that would not
\* wake the queue finds the row settled.
LEMMA WakeCallStep ==
  ASSUME TypeOK, Agreement, PassAwaits, NEW c \in Callers, CallStep(c)
  PROVE  PassAwaits' /\ (quit # "up" \/ wake' \/ NothingFreed)
<1> USE DEF TypeOK, Status, TerminalStatus, isTerminal, PassAwaits, NothingFreed, Launched,
            Queued, rowVars, queueVars, scheduleQueueAdvance
<1>1. ASSUME NEW r \in Runs, resumeQueued(c, r)
      PROVE  PassAwaits' /\ (wake' \/ NothingFreed)
  BY <1>1 DEF resumeQueued, enqueue
<1>2. ASSUME NEW r \in Runs, resumeDirect(c, r)
      PROVE  PassAwaits' /\ (wake' \/ NothingFreed)
  BY <1>2 DEF resumeDirect, resumable, beginLaunch
<1>3. CASE resumeRefused(c) \/ cancelTimedOut(c) \/ failAndStopAborts(c)
  BY <1>3 DEF resumeRefused, cancelTimedOut, failAndStopAborts
<1>4. CASE cancelReturns(c)
  BY <1>4 DEF cancelReturns, Agreement, StopFindsSettledRow
<1>5. CASE settleAdapterlessCancel(c)
  BY <1>5 DEF settleAdapterlessCancel
<1>6. CASE failAndStopReturns(c)
  BY <1>6 DEF failAndStopReturns, settleFailedStop
<1> QED BY <1>1, <1>2, <1>3, <1>4, <1>5, <1>6 DEF CallStep

\* Every step other than a failed launch leaves the queue as well served as it was.
LEMMA WakeNext ==
  ASSUME TypeOK, Agreement, PassAwaits, [Next]_vars
  PROVE  PassAwaits' /\ (~Forgotten /\ Forgotten' => \E r \in Runs : finishFailed(r))
<1> USE DEF rowVars, queueVars, callVars, quitVars
<1>a. ASSUME NothingFreed, quit' = "up" => quit = "up"
      PROVE  ~Forgotten => ~Forgotten'
  <2> SUFFICES ASSUME Forgotten' PROVE Forgotten
    OBVIOUS
  <2>1. PICK r \in Runs : eligible(r)'
    BY DEF Forgotten, eligible
  <2>2. r \in Queued \cap pendingRuns
    BY <1>a, <2>1 DEF eligible, NothingFreed
  <2>3. eligible(r)
    BY <1>a, <2>1, <2>2, EligibleBefore DEF NothingFreed
  <2> QED BY <1>a, <2>3 DEF Forgotten, NothingFreed
<1>b. ASSUME UNCHANGED <<rowVars, queueVars>>
      PROVE  PassAwaits' /\ NothingFreed
  BY <1>b DEF PassAwaits, NothingFreed, Launched, Queued
<1>c. quit' = "up" => quit = "up"
  BY DEF Next, RunStep, startQueued, startDirect, startAdmitted, createRow, finishFailed,
         launchSpawned, launchIdentified, advanceQueue, processExited, stopsResolve,
         cancelQueued, failAndStopQueued, settleFailedStop, disposeStopTimedOut, Request,
         resume, cancel, cancelAdapterless, failAndStop, CallStep, resumeQueued, resumeDirect,
         clearAttempt, resumeRefused, cancelTimedOut, cancelReturns, settleAdapterlessCancel,
         failAndStopAborts, failAndStopReturns, advanceQueueEnds, dispose, disposeDetaches, vars
<1>1. ASSUME NEW r \in Runs, RunStep(r)
      PROVE  PassAwaits' /\ (~Forgotten /\ Forgotten' => \E q \in Runs : finishFailed(q))
  <2>1. CASE finishFailed(r)
    BY <2>1 DEF finishFailed, launchReturns, PassAwaits
  <2>2. CASE ~finishFailed(r)
    BY <1>1, <1>a, <1>c, <2>2, WakeRunStep DEF Forgotten
  <2> QED BY <2>1, <2>2
<1>2. ASSUME NEW c \in Callers, NEW r \in Runs, Request(c, r)
      PROVE  PassAwaits' /\ (~Forgotten => ~Forgotten')
  BY <1>2, <1>a, <1>b, <1>c DEF Request, resume, cancel, cancelAdapterless, failAndStop
<1>3. ASSUME NEW c \in Callers, CallStep(c)
      PROVE  PassAwaits' /\ (~Forgotten => ~Forgotten')
  BY <1>3, <1>a, <1>c, WakeCallStep DEF Forgotten
<1>4. CASE advanceQueueEnds
  <2>1. \A r \in Runs : ~eligible(r)
    BY <1>4 DEF advanceQueueEnds
  <2>2. \A r \in Runs : ~eligible(r)'
    BY <1>4, <2>1 DEF advanceQueueEnds, eligible, noConflict, unisolatedWriteConflict,
       worktreeRunConflict, hasCapacity, Queued, Launched, sameWorkspace, sameAgent, sameProfile
  <2> QED BY <1>4, <2>2 DEF advanceQueueEnds, PassAwaits, Forgotten, eligible
<1>5. CASE dispose \/ UNCHANGED vars
  BY <1>5, <1>a, <1>b, <1>c DEF dispose, vars
<1>6. CASE disposeDetaches
  BY <1>6 DEF disposeDetaches, PassAwaits, Forgotten
<1> QED BY <1>1, <1>2, <1>3, <1>4, <1>5, <1>6 DEF Next

\* Nobody waits in the queue at first.
LEMMA WakeInit == Init => PassAwaits /\ ~Forgotten
BY DEF Init, PassAwaits, Forgotten, eligible, Queued

\* A pass that awaits a launch still has its wake-up to serve.
LEMMA PassAwaitsAlways == Spec => []PassAwaits
<1>1. TypeOK /\ Consistent /\ PassAwaits /\ [Next]_vars => PassAwaits'
  BY WakeNext DEF Consistent
<1> QED BY <1>1, WakeInit, TypeCorrect, ConsistentAlways, PTL DEF Spec

\* Only a launch that fails leaves a queued run behind for which there is room:
\* no exit, cancel, fail-and-stop, resume or end of a pass does, in any order.
THEOREM OnlyFailedLaunchForgets ==
  Spec => [][~Forgotten /\ Forgotten' => \E r \in Runs : finishFailed(r)]_vars
<1>1. TypeOK /\ Consistent /\ PassAwaits /\ [Next]_vars =>
        [~Forgotten /\ Forgotten' => \E r \in Runs : finishFailed(r)]_vars
  BY WakeNext DEF Consistent
<1> QED BY <1>1, TypeCorrect, ConsistentAlways, PassAwaitsAlways, PTL DEF Spec

\* Where launches do not fail, nobody is forgotten in the queue.
THEOREM NoMissedWakeupWithoutFailures ==
  ASSUME SpawnFailures = {}
  PROVE  Spec => []NoMissedWakeup
<1>1. TypeOK /\ Consistent /\ PassAwaits /\ ~Forgotten /\ [Next]_vars => ~Forgotten'
  <2> SUFFICES ASSUME TypeOK, Consistent, PassAwaits, [Next]_vars
               PROVE  \A r \in Runs : ~finishFailed(r)
    BY WakeNext DEF Consistent
  <2> QED BY DEF finishFailed, Consistent, Agreement, LaunchInv
<1>2. ~Forgotten => NoMissedWakeup
  BY DEF Forgotten, NoMissedWakeup
<1> QED BY <1>1, <1>2, WakeInit, TypeCorrect, ConsistentAlways, PassAwaitsAlways, PTL DEF Spec

-----------------------------------------------------------------------------
(* The queue is served: the safety half of QueueDrains *)

\* The launch a pass awaits has not returned, and a queued run has its launch
\* request in memory until dispose() drops them all.
PassServed == queueLaunch # NoRun => phase[queueLaunch] # "idle"
Requested  == quit # "detached" => Queued \subseteq pendingRuns

\* The holder of a slot is in its launch, or a live process whose exit will be
\* heard, or a row of a previous instance.
Frees(r) == phase[r] # "idle" \/ r \in alive \cap activeAdapters \/ r \in LeftActive

\* While runs are queued a pass is due or awaits a launch that is under way, or
\* there are runs in their way, each of which will give its slot back.
QueueMoves ==
    quit = "up" /\ Queued # {} =>
      IF wake THEN queueLaunch = NoRun \/ phase[queueLaunch] # "idle"
      ELSE Launched # {} /\ \A r \in Launched : Frees(r)

\* The limits are at least one, as the schemas of the configuration and of an
\* account profile demand.
AtLeastOne ==
    /\ maxGlobalRuns >= 1 /\ maxRunsPerWorkspace >= 1 /\ maxRunsPerAgent >= 1
    /\ \A p \in DOMAIN maxConcurrentRuns : maxConcurrentRuns[p] >= 1

LEMMA ServedRunStep ==
  ASSUME TypeOK, PassServed, Requested, NEW r \in Runs, RunStep(r)
  PROVE  PassServed' /\ Requested'
<1> USE DEF TypeOK, PassServed, Requested, Queued, rowVars, queueVars, callVars, quitVars,
            launchReturns
<1>1. CASE startQueued(r)
  BY <1>1 DEF startQueued, createRow, enqueue
<1>2. CASE startDirect(r)
  BY <1>2 DEF startDirect, createRow, beginLaunch
<1>3. CASE finishFailed(r)
  BY <1>3 DEF finishFailed
<1>4. CASE launchSpawned(r)
  BY <1>4 DEF launchSpawned
<1>5. CASE launchIdentified(r)
  BY <1>5 DEF launchIdentified
<1>6. CASE advanceQueue(r)
  BY <1>6 DEF advanceQueue, beginLaunch
<1>7. ASSUME NEW exitCode \in {0, 1}, processExited(r, exitCode)
      PROVE  PassServed' /\ Requested'
  <2>1. exitStatus(r, exitCode) # "queued"
    BY DEF exitStatus
  <2>2. UNCHANGED <<pendingRuns, queueLaunch, phase, quit>>
    BY <1>7 DEF processExited, stopsResolve
  <2>3. status' = status \/ status' = [status EXCEPT ![r] = exitStatus(r, exitCode)]
    BY <1>7 DEF processExited
  <2>4. Queued' \subseteq Queued
    BY <2>1, <2>3
  <2> QED BY <2>2, <2>4
<1>8. CASE cancelQueued(r)
  BY <1>8 DEF cancelQueued
<1>9. CASE failAndStopQueued(r)
  BY <1>9 DEF failAndStopQueued, settleFailedStop
<1>10. CASE disposeStopTimedOut(r)
  BY <1>10 DEF disposeStopTimedOut
<1> QED BY <1>1, <1>2, <1>3, <1>4, <1>5, <1>6, <1>7, <1>8, <1>9, <1>10 DEF RunStep

LEMMA ServedCallStep ==
  ASSUME TypeOK, PassServed, Requested, NEW c \in Callers, CallStep(c)
  PROVE  PassServed' /\ Requested'
<1> USE DEF TypeOK, PassServed, Requested, Queued, rowVars, queueVars, callVars, quitVars,
            returns
<1>1. ASSUME NEW r \in Runs, resumeQueued(c, r)
      PROVE  PassServed' /\ Requested'
  BY <1>1 DEF resumeQueued, clearAttempt, enqueue
<1>2. ASSUME NEW r \in Runs, resumeDirect(c, r)
      PROVE  PassServed' /\ Requested'
  BY <1>2 DEF resumeDirect, clearAttempt, beginLaunch
<1>3. CASE resumeRefused(c) \/ cancelTimedOut(c) \/ failAndStopAborts(c)
  BY <1>3 DEF resumeRefused, cancelTimedOut, failAndStopAborts
<1>4. CASE cancelReturns(c)
  BY <1>4 DEF cancelReturns
<1>5. CASE settleAdapterlessCancel(c)
  BY <1>5 DEF settleAdapterlessCancel
<1>6. CASE failAndStopReturns(c)
  BY <1>6 DEF failAndStopReturns, settleFailedStop
<1> QED BY <1>1, <1>2, <1>3, <1>4, <1>5, <1>6 DEF CallStep

LEMMA ServedNext ==
  ASSUME TypeOK, PassServed, Requested, [Next]_vars
  PROVE  PassServed' /\ Requested'
<1> USE DEF PassServed, Requested, Queued, rowVars, queueVars, callVars, quitVars
<1>1. ASSUME NEW c \in Callers, NEW r \in Runs, Request(c, r)
      PROVE  PassServed' /\ Requested'
  BY <1>1 DEF Request, resume, cancel, cancelAdapterless, failAndStop
<1>2. CASE advanceQueueEnds
  BY <1>2 DEF advanceQueueEnds
<1>3. CASE dispose \/ UNCHANGED vars
  BY <1>3 DEF dispose, vars
<1>4. CASE disposeDetaches
  BY <1>4 DEF disposeDetaches
<1> QED BY <1>1, <1>2, <1>3, <1>4, ServedRunStep, ServedCallStep DEF Next

\* An empty set of launched runs is in nobody's way.
LEMMA NothingLaunched ==
  ASSUME AtLeastOne, Launched = {}, NEW r \in Queued \cap pendingRuns
  PROVE  eligible(r)
<1>1. noConflict(r)
  BY DEF noConflict, unisolatedWriteConflict, worktreeRunConflict
<1>2. Cardinality({}) = 0
  BY FS_EmptySet
<1>3. Launched \cap sameWorkspace(r) = {} /\ Launched \cap sameAgent(r) = {}
      /\ Launched \cap sameProfile(r) = {}
  OBVIOUS
<1>4. hasCapacity(r)
  BY <1>2, <1>3, LimitsAssumption DEF hasCapacity, AtLeastOne
<1> QED BY <1>1, <1>4 DEF eligible

\* With limits of at least one, the queue stands still only when a launch that
\* failed has made it be forgotten: otherwise its pass is due, awaits a launch
\* under way, or is held up by runs that will all give their slots back.
THEOREM QueueIsServed ==
  ASSUME AtLeastOne
  PROVE  Spec => [](~Forgotten => QueueMoves)
<1>1. Init => PassServed /\ Requested
  BY DEF Init, PassServed, Requested, Queued
<1>2. TypeOK /\ PassServed /\ Requested /\ [Next]_vars => (PassServed /\ Requested)'
  BY ServedNext
<1>3. TypeOK /\ Consistent /\ PassServed /\ Requested => (~Forgotten => QueueMoves)
  <2> SUFFICES ASSUME TypeOK, Consistent, PassServed, Requested, ~Forgotten,
                      quit = "up", Queued # {}
               PROVE  IF wake THEN queueLaunch = NoRun \/ phase[queueLaunch] # "idle"
                      ELSE Launched # {} /\ \A r \in Launched : Frees(r)
    BY DEF QueueMoves
  <2>1. CASE wake
    BY <2>1 DEF PassServed
  <2>2. Queued \subseteq Runs /\ Queued \subseteq pendingRuns
    BY DEF Requested, Queued
  <2>3. ~wake => Launched # {}
    BY <2>2, NothingLaunched DEF Forgotten
  <2>4. ASSUME NEW r \in Launched PROVE Frees(r)
    BY DEF Frees, Launched, Consistent, Agreement, LaunchInv, RunningIsLive, NoOrphanProcess
  <2> QED BY <2>1, <2>3, <2>4
<1> QED BY <1>1, <1>2, <1>3, TypeCorrect, ConsistentAlways, PTL DEF Spec
=============================================================================
