------------------------- MODULE AccountLoginsProofs -------------------------
(* Proofs about AccountLogins for every number of views, logins and runs. *)
EXTENDS AccountLogins, FiniteSetTheorems, TLAPS

-----------------------------------------------------------------------------
(* Views and the session they show *)

\* The views of a login can be counted.
LEMMA Countable ==
  ASSUME NEW f, NEW s
  PROVE  LET h == {x \in Mounts : f[x] = s}
         IN  IsFiniteSet(h) /\ Cardinality(h) \in Nat
<1>1. IsFiniteSet({x \in Mounts : f[x] = s})
  BY AccountAssumption, FS_Subset
<1> QED BY <1>1, FS_CardinalityType

\* A view that showed no login and now shows s is one view of s more, and none of
\* any other login.
LEMMA ViewArrives ==
  ASSUME NEW f \in [Mounts -> {"closed", "preparing"} \cup Logins], NEW m \in Mounts,
         NEW s \in Logins, f[m] \in {"closed", "preparing"}
  PROVE  LET g == [f EXCEPT ![m] = s]
             n(k, t) == Cardinality({x \in Mounts : k[x] = t})
         IN  /\ n(g, s) = n(f, s) + 1
             /\ \A t \in Logins \ {s} : n(g, t) = n(f, t)
<1> DEFINE g == [f EXCEPT ![m] = s]
           h(k, t) == {x \in Mounts : k[x] = t}
<1>1. h(g, s) = h(f, s) \cup {m} /\ m \notin h(f, s)
  BY AccountAssumption
<1>2. \A t \in Logins \ {s} : h(g, t) = h(f, t)
  BY AccountAssumption
<1>3. IsFiniteSet(h(f, s))
  BY Countable
<1>4. Cardinality(h(f, s) \cup {m}) = Cardinality(h(f, s)) + 1
  BY <1>1, <1>3, FS_AddElement
<1> QED BY <1>1, <1>2, <1>4

\* A view that closes is one view less of the login it showed.
LEMMA ViewCloses ==
  ASSUME NEW f \in [Mounts -> {"closed", "preparing"} \cup Logins], NEW m \in Mounts
  PROVE  LET g == [f EXCEPT ![m] = "closed"]
             n(k, t) == Cardinality({x \in Mounts : k[x] = t})
         IN  \A t \in Logins : n(g, t) = IF f[m] = t THEN n(f, t) - 1 ELSE n(f, t)
<1> DEFINE g == [f EXCEPT ![m] = "closed"]
           h(k, t) == {x \in Mounts : k[x] = t}
<1> SUFFICES ASSUME NEW t \in Logins
             PROVE  Cardinality(h(g, t)) = IF f[m] = t THEN Cardinality(h(f, t)) - 1
                                           ELSE Cardinality(h(f, t))
  OBVIOUS
<1>1. h(g, t) = h(f, t) \ {m}
  BY AccountAssumption
<1>2. CASE f[m] = t
  <2>1. m \in h(f, t) /\ IsFiniteSet(h(f, t))
    BY <1>2, Countable
  <2>2. Cardinality(h(f, t) \ {m}) = Cardinality(h(f, t)) - 1
    BY <2>1, FS_RemoveElement
  <2> QED BY <1>1, <1>2, <2>2
<1>3. CASE f[m] # t
  BY <1>1, <1>3
<1> QED BY <1>2, <1>3

\* While a view shows a registered session, that session holds a lease; if it is
\* the last one, no other view shows it.
LEMMA LastLease ==
  ASSUME AccountTypeOK, Leased, NEW s \in registered, NEW m \in Mounts, mount[m] = s
  PROVE  /\ leases[s] \in Nat \ {0}
         /\ leases[s] <= 1 => \A x \in Mounts \ {m} : mount[x] # s
<1> DEFINE h == {x \in Mounts : mount[x] = s}
<1>1. s \in Logins /\ leases[s] \in Nat
  BY DEF AccountTypeOK
<1>2. Cardinality(h) <= leases[s]
  BY DEF Leased, holders
<1>3. IsFiniteSet(h) /\ Cardinality(h) \in Nat /\ m \in h
  BY Countable
<1>4. Cardinality(h) >= 1
  BY <1>3, FS_EmptySet
<1>5. ASSUME leases[s] <= 1, NEW x \in Mounts \ {m}, mount[x] = s PROVE FALSE
  <2>1. IsFiniteSet(h \ {m}) /\ Cardinality(h \ {m}) = Cardinality(h) - 1
    BY <1>3, FS_RemoveElement
  <2>2. h \ {m} # {}
    BY <1>5
  <2>3. Cardinality(h \ {m}) \in Nat \ {0}
    BY <2>1, <2>2, FS_EmptySet, FS_CardinalityType
  <2> QED BY <1>1, <1>2, <1>3, <1>5, <2>1, <2>3
<1> QED BY <1>1, <1>2, <1>3, <1>4, <1>5

-----------------------------------------------------------------------------
(* A step belongs to the sessions or to the home and its row *)

loginState == <<mount, sessionVars, processVars, quit>>
homeState == <<profileVars, removal, enabling, overtaken, halfDone, outdated>>

SessionStep ==
    \/ \E m \in Mounts : StartLogin(m) \/ BeginLogin(m) \/ StartFails(m) \/ Release(m) \/ Reload(m)
    \/ \E s \in Logins : TimerFires(s) \/ LoginExits(s) \/ StopFails(s)
    \/ DisposeLogins \/ DisposeProcesses \/ Quits

HomeStep ==
    \/ \E s \in Logins : SignsIn(s)
    \/ Detect \/ (\E d \in Probes : ProbeRuns(d) \/ VerdictWritten(d)) \/ LimitExpires
    \/ \E u \in Users : ResolveProfile(u) \/ RunCreated(u) \/ RunEndsWith(u)
    \/ (\E w \in BOOLEAN : Remove(w)) \/ HomeDeleted \/ DeleteFails
    \/ Enable \/ HomeChecked \/ HomeRebuilt \/ EnableFails \/ Enabled

\* Every step is one of the two.
LEMMA TwoKinds == [AccountNext]_accountVars => SessionStep \/ HomeStep \/ UNCHANGED accountVars
BY DEF AccountNext, SessionStep, HomeStep

\* No view, session or process changes the home, its row or what is under way
\* with them; what a login writes counts as a step of the home.
LEMMA SessionsKeepHome == SessionStep => UNCHANGED homeState
BY DEF SessionStep, StartLogin, BeginLogin, StartFails, Release, Reload, TimerFires, LoginExits,
       StopFails, DisposeLogins, DisposeProcesses, Quits, homeState, managerVars

\* Probes, runs, remove() and enable() touch no session: a profile can be removed
\* under a login.
LEMMA HomeKeepsSessions == HomeStep => UNCHANGED loginState
BY DEF HomeStep, SignsIn, Detect, ProbeRuns, VerdictWritten, LimitExpires, ResolveProfile,
       RunCreated, RunEndsWith, Remove, HomeDeleted, DeleteFails, Enable, HomeChecked,
       HomeRebuilt, EnableFails, Enabled, loginState

-----------------------------------------------------------------------------
(* Type correctness *)

\* The first state is well typed.
LEMMA TypeInit == AccountInit => AccountTypeOK
<1> SUFFICES ASSUME AccountInit PROVE AccountTypeOK
  OBVIOUS
<1>1. /\ mount \in [Mounts -> {"closed", "preparing"} \cup Logins]
      /\ leases \in [Logins -> Nat] /\ stops \in [Logins -> SUBSET Stoppers]
  BY DEF AccountInit
<1>2. /\ detecting \in [Probes -> {"idle", "probing", "ready", "login-required", "unknown"}]
      /\ user \in [Users -> {"none", "resolved", "active"}]
  BY DEF AccountInit
<1>3. /\ enabled \in BOOLEAN /\ removal \in BOOLEAN /\ overtaken \in BOOLEAN
      /\ halfDone \in BOOLEAN /\ outdated \in BOOLEAN
  BY DEF AccountInit
<1> QED BY <1>1, <1>2, <1>3 DEF AccountInit, AccountTypeOK, Statuses

\* A status that is written is one of the five.
LEMMA StatusWritten ==
  ASSUME NEW st \in Statuses, writesStatus(st)
  PROVE  profileStatus' \in Statuses /\ outdated' \in BOOLEAN
BY Zenon DEF writesStatus

\* So is what a step of the sessions leaves: a lease is given back only by a view
\* that has one.
LEMMA SessionTypes ==
  ASSUME AccountTypeOK, Leased, SessionStep
  PROVE  AccountTypeOK'
<1> USE DEF profileVars, sessionVars, processVars, managerVars
<1>1. ASSUME NEW m \in Mounts, StartLogin(m) PROVE AccountTypeOK'
  BY <1>1 DEF StartLogin, attach, AccountTypeOK
<1>2. ASSUME NEW m \in Mounts, BeginLogin(m) PROVE AccountTypeOK'
  BY <1>2 DEF BeginLogin, attach, spawn, AccountTypeOK
<1>3. ASSUME NEW m \in Mounts, StartFails(m) \/ Reload(m) PROVE AccountTypeOK'
  BY <1>3 DEF StartFails, Reload, AccountTypeOK
<1>4. ASSUME NEW m \in Mounts, Release(m) PROVE AccountTypeOK'
  <2> DEFINE s == mount[m]
  <2>1. CASE s \notin registered
    BY <1>4, <2>1 DEF Release, AccountTypeOK
  <2>2. CASE s \in registered
    <3>1. s \in Logins /\ leases[s] - 1 \in Nat
      BY <2>2, LastLease DEF AccountTypeOK
    <3>2. leases' = [leases EXCEPT ![s] = @ - 1]
      BY <1>4, <2>2 DEF Release
    <3>3. leases' \in [Logins -> Nat]
      BY <3>1, <3>2 DEF AccountTypeOK
    <3>4. settled' \subseteq Logins /\ stops' \in [Logins -> SUBSET Stoppers]
      BY <1>4, <2>2 DEF Release, stopsSession, AccountTypeOK, Stoppers
    <3> QED BY <1>4, <3>3, <3>4 DEF Release, AccountTypeOK
  <2> QED BY <2>1, <2>2
<1>5. ASSUME NEW s \in Logins, TimerFires(s) PROVE AccountTypeOK'
  BY <1>5 DEF TimerFires, stopsSession, AccountTypeOK, Stoppers
<1>6. ASSUME NEW s \in Logins, LoginExits(s) PROVE AccountTypeOK'
  BY <1>6 DEF LoginExits, forget, AccountTypeOK, Probes
<1>7. ASSUME NEW s \in Logins, StopFails(s) PROVE AccountTypeOK'
  BY <1>7 DEF StopFails, forget, AccountTypeOK
<1>8. CASE DisposeLogins
  BY <1>8 DEF DisposeLogins, AccountTypeOK, Stoppers
<1>9. CASE DisposeProcesses
  BY <1>9 DEF DisposeProcesses, forget, AccountTypeOK, Stoppers
<1>10. CASE Quits
  BY <1>10 DEF Quits, AccountTypeOK
<1> QED BY <1>1, <1>2, <1>3, <1>4, <1>5, <1>6, <1>7, <1>8, <1>9, <1>10 DEF SessionStep

\* Of the row and the home, only the words of their vocabulary are written.
LEMMA HomeTypes ==
  ASSUME AccountTypeOK, HomeStep
  PROVE  AccountTypeOK'
<1> USE DEF profileVars, sessionVars, processVars, managerVars
<1>1. ASSUME NEW s \in Logins, SignsIn(s) PROVE AccountTypeOK'
  BY <1>1 DEF SignsIn, AccountTypeOK
<1>2. ASSUME NEW d \in Probes, ProbeRuns(d) PROVE AccountTypeOK'
  BY <1>2 DEF ProbeRuns, verdicts, AccountTypeOK
<1>3. ASSUME NEW d \in Probes, VerdictWritten(d) PROVE AccountTypeOK'
  <2>1. profileStatus' \in Statuses /\ outdated' \in BOOLEAN
    BY <1>3, StatusWritten DEF VerdictWritten
  <2> QED BY <1>3, <2>1 DEF VerdictWritten, AccountTypeOK
<1>4. CASE Detect \/ LimitExpires
  <2>1. CASE Detect
    BY <2>1 DEF Detect, AccountTypeOK, Probes
  <2>2. CASE LimitExpires
    <3>1. profileStatus' \in Statuses /\ outdated' \in BOOLEAN
      BY <2>2, StatusWritten DEF LimitExpires, Statuses
    <3> QED BY <2>2, <3>1 DEF LimitExpires, AccountTypeOK
  <2> QED BY <1>4, <2>1, <2>2
<1>5. ASSUME NEW u \in Users, ResolveProfile(u) \/ RunCreated(u) PROVE AccountTypeOK'
  BY <1>5 DEF ResolveProfile, RunCreated, AccountTypeOK
<1>6. ASSUME NEW u \in Users, RunEndsWith(u) PROVE AccountTypeOK'
  <2>1. profileStatus' \in Statuses /\ outdated' \in BOOLEAN
    BY <1>6, StatusWritten DEF RunEndsWith, outcomes, Statuses, AccountTypeOK
  <2> QED BY <1>6, <2>1 DEF RunEndsWith, AccountTypeOK
<1>7. ASSUME NEW w \in BOOLEAN, Remove(w) PROVE AccountTypeOK'
  BY <1>7 DEF Remove, AccountTypeOK
<1>8. CASE HomeDeleted \/ DeleteFails
  BY <1>8 DEF HomeDeleted, DeleteFails, AccountTypeOK
<1>9. CASE Enable \/ HomeChecked \/ HomeRebuilt \/ EnableFails
  BY <1>9 DEF Enable, HomeChecked, HomeRebuilt, EnableFails, AccountTypeOK
<1>10. CASE Enabled
  BY <1>10 DEF Enabled, writesStatus, AccountTypeOK, Statuses
<1> QED BY <1>1, <1>2, <1>3, <1>4, <1>5, <1>6, <1>7, <1>8, <1>9, <1>10 DEF HomeStep

-----------------------------------------------------------------------------
(* One session, its leases and its bound *)

\* A new session comes only where there was none; one that is forgotten takes its
\* process along, or leaves it among those given up.
LEMMA OneSessionStep ==
  ASSUME AccountTypeOK, OneSession, SessionStep
  PROVE  OneSession'
<1> USE DEF OneSession, sessionVars, processVars
<1>1. ASSUME NEW m \in Mounts, StartLogin(m) PROVE OneSession'
  BY <1>1 DEF StartLogin, attach
<1>2. ASSUME NEW m \in Mounts, BeginLogin(m) PROVE OneSession'
  BY <1>2 DEF BeginLogin, attach, spawn
<1>3. ASSUME NEW m \in Mounts, StartFails(m) \/ Reload(m) \/ Release(m) PROVE OneSession'
  BY <1>3 DEF StartFails, Reload, Release
<1>4. ASSUME NEW s \in Logins, TimerFires(s) PROVE OneSession'
  BY <1>4 DEF TimerFires
<1>5. ASSUME NEW s \in Logins, LoginExits(s) \/ StopFails(s) PROVE OneSession'
  BY <1>5 DEF LoginExits, StopFails, forget
<1>6. CASE DisposeProcesses
  BY <1>6 DEF DisposeProcesses, forget
<1>7. CASE DisposeLogins \/ Quits
  BY <1>7 DEF DisposeLogins, Quits
<1> QED BY <1>1, <1>2, <1>3, <1>4, <1>5, <1>6, <1>7 DEF SessionStep

\* The timer starts with the process; whoever takes it, or the session, away has
\* asked for a stop or given the process up.
LEMMA BoundStep ==
  ASSUME AccountTypeOK, OneSession, LoginIsBounded, SessionStep
  PROVE  LoginIsBounded'
<1> USE DEF LoginIsBounded, sessionVars, processVars
<1>1. ASSUME NEW m \in Mounts, StartLogin(m) PROVE LoginIsBounded'
  BY <1>1 DEF StartLogin, attach
<1>2. ASSUME NEW m \in Mounts, BeginLogin(m) PROVE LoginIsBounded'
  BY <1>2 DEF BeginLogin, attach, spawn
<1>3. ASSUME NEW m \in Mounts, StartFails(m) \/ Reload(m) PROVE LoginIsBounded'
  BY <1>3 DEF StartFails, Reload
<1>4. ASSUME NEW m \in Mounts, Release(m) PROVE LoginIsBounded'
  <2>1. \A t \in Logins : stops[t] # {} => stops'[t] # {}
    BY <1>4 DEF Release, stopsSession, AccountTypeOK
  <2> QED BY <1>4, <2>1 DEF Release, AccountTypeOK
<1>5. ASSUME NEW s \in Logins, TimerFires(s) PROVE LoginIsBounded'
  BY <1>5 DEF TimerFires, stopsSession, AccountTypeOK
<1>6. ASSUME NEW s \in Logins, LoginExits(s) PROVE LoginIsBounded'
  BY <1>6 DEF LoginExits, forget, AccountTypeOK
<1>7. ASSUME NEW s \in Logins, StopFails(s) PROVE LoginIsBounded'
  BY <1>7 DEF StopFails, forget, AccountTypeOK
<1>8. CASE DisposeLogins
  BY <1>8 DEF DisposeLogins, serving, AccountTypeOK
<1>9. CASE DisposeProcesses
  BY <1>9 DEF DisposeProcesses, OneSession
<1>10. CASE Quits
  BY <1>10 DEF Quits
<1> QED BY <1>1, <1>2, <1>3, <1>4, <1>5, <1>6, <1>7, <1>8, <1>9, <1>10 DEF SessionStep

\* A view that comes to a session brings a lease.
LEMMA AttachLeased ==
  ASSUME AccountTypeOK, Leased, NEW m \in Mounts, mount[m] \in {"closed", "preparing"},
         NEW s \in registered, attach(m, s)
  PROVE  Leased'
<1> DEFINE new == [t \in Logins |-> Cardinality({x \in Mounts : mount'[x] = t})]
           old == [t \in Logins |-> Cardinality({x \in Mounts : mount[x] = t})]
<1>1. s \in Logins /\ mount' = [mount EXCEPT ![m] = s] /\ leases' = [leases EXCEPT ![s] = @ + 1]
      /\ registered' = registered /\ registered \subseteq Logins /\ leases \in [Logins -> Nat]
  BY DEF attach, AccountTypeOK
<1>2. new[s] = old[s] + 1 /\ \A t \in Logins \ {s} : new[t] = old[t]
  <2>1. mount \in [Mounts -> {"closed", "preparing"} \cup Logins]
    BY DEF AccountTypeOK
  <2>2. LET g == [mount EXCEPT ![m] = s]
            n(k, t) == Cardinality({x \in Mounts : k[x] = t})
        IN  /\ n(g, s) = n(mount, s) + 1
            /\ \A t \in Logins \ {s} : n(g, t) = n(mount, t)
    BY <1>1, <2>1, ViewArrives
  <2> QED BY <1>1, <2>2
<1>3. \A t \in Logins : old[t] \in Nat
  <2>1. \A t \in Logins : Cardinality({x \in Mounts : mount[x] = t}) \in Nat
    BY Countable
  <2> QED BY <2>1
<1>4. \A t \in registered : old[t] <= leases[t]
  BY <1>1 DEF Leased, holders
<1>5. \A t \in registered' : new[t] <= leases'[t]
  <2> HIDE DEF new, old
  <2> QED BY <1>1, <1>2, <1>3, <1>4
<1> QED BY <1>1, <1>5 DEF Leased, holders

\* A view that closes gives back what it brought, or leaves it behind.
LEMMA CloseLeased ==
  ASSUME AccountTypeOK, Leased, NEW m \in Mounts, mount' = [mount EXCEPT ![m] = "closed"],
         registered' = registered,
         \/ leases' = leases
         \/ mount[m] \in registered /\ leases' = [leases EXCEPT ![mount[m]] = @ - 1]
  PROVE  Leased'
<1> DEFINE new == [t \in Logins |-> Cardinality({x \in Mounts : mount'[x] = t})]
           old == [t \in Logins |-> Cardinality({x \in Mounts : mount[x] = t})]
<1>1. registered \subseteq Logins /\ leases \in [Logins -> Nat]
  BY DEF AccountTypeOK
<1>2. \A t \in Logins : new[t] = IF mount[m] = t THEN old[t] - 1 ELSE old[t]
  BY ViewCloses DEF AccountTypeOK
<1>3. \A t \in Logins : old[t] \in Nat
  <2>1. \A t \in Logins : Cardinality({x \in Mounts : mount[x] = t}) \in Nat
    BY Countable
  <2> QED BY <2>1
<1>4. \A t \in registered : old[t] <= leases[t]
  BY <1>1 DEF Leased, holders
<1>5. \A t \in registered' : new[t] <= leases'[t]
  <2> HIDE DEF new, old
  <2> QED BY <1>1, <1>2, <1>3, <1>4
<1> QED BY <1>1, <1>5 DEF Leased, holders

\* Only start(), cancel() and a reload change who shows a session.
LEMMA LeasedStep ==
  ASSUME AccountTypeOK, Leased, SessionStep
  PROVE  Leased'
<1> USE DEF sessionVars, processVars
<1>1. ASSUME NEW m \in Mounts, mount[m] \in {"closed", "preparing"},
             mount' = [mount EXCEPT ![m] = "closed"] \/ mount' = [mount EXCEPT ![m] = "preparing"],
             UNCHANGED <<registered, leases>>
      PROVE  Leased'
  <2>1. \A t \in registered : {x \in Mounts : mount'[x] = t} = {x \in Mounts : mount[x] = t}
    BY <1>1, AccountAssumption DEF AccountTypeOK
  <2> QED BY <1>1, <2>1 DEF Leased, holders
<1>2. ASSUME NEW m \in Mounts, StartLogin(m) PROVE Leased'
  <2>1. CASE \E s \in registered : attach(m, s)
    BY <1>2, <2>1, AttachLeased DEF StartLogin
  <2>2. CASE mount' = [mount EXCEPT ![m] = "preparing"] /\ UNCHANGED <<registered, leases>>
    BY <1>1, <1>2, <2>2 DEF StartLogin
  <2> QED BY <1>2, <2>1, <2>2 DEF StartLogin
<1>3. ASSUME NEW m \in Mounts, BeginLogin(m) PROVE Leased'
  <2>1. CASE \E s \in registered : attach(m, s)
    BY <1>3, <2>1, AttachLeased DEF BeginLogin
  <2>2. ASSUME NEW s \in Logins, registered = {}, spawn(m, s) PROVE Leased'
    <3>1. registered' = {s} /\ leases'[s] = 1
      BY <2>2 DEF spawn, AccountTypeOK
    <3>2. {x \in Mounts : mount'[x] = s} = {m}
      BY <2>2 DEF spawn, unused, AccountTypeOK
    <3>3. Cardinality({m}) = 1
      BY FS_Singleton
    <3> QED BY <3>1, <3>2, <3>3 DEF Leased, holders
  <2> QED BY <1>3, <2>1, <2>2 DEF BeginLogin
<1>4. ASSUME NEW m \in Mounts, StartFails(m) PROVE Leased'
  BY <1>1, <1>4 DEF StartFails
<1>5. ASSUME NEW m \in Mounts, Release(m) \/ Reload(m) PROVE Leased'
  BY <1>5, CloseLeased DEF Release, Reload
<1>6. ASSUME NEW s \in Logins, TimerFires(s) PROVE Leased'
  BY <1>6 DEF TimerFires, Leased, holders
<1>7. ASSUME NEW S, forget(S) \/ UNCHANGED sessionVars, UNCHANGED mount PROVE Leased'
  BY <1>7 DEF forget, AccountTypeOK, Leased, holders
<1>8. ASSUME NEW s \in Logins, LoginExits(s) \/ StopFails(s) PROVE Leased'
  BY <1>7, <1>8 DEF LoginExits, StopFails
<1>9. CASE DisposeProcesses \/ Quits
  BY <1>7, <1>9 DEF DisposeProcesses, Quits
<1>10. CASE DisposeLogins
  BY <1>10 DEF DisposeLogins, Leased, holders
<1> QED BY <1>2, <1>3, <1>4, <1>5, <1>6, <1>8, <1>9, <1>10 DEF SessionStep

-----------------------------------------------------------------------------
(* The home and its row *)

\* remove() takes the row before the home, enable() the home before the row; what
\* is left of their meetings is remembered as overtaken, halfDone or outdated.
LEMMA HomesStep ==
  ASSUME AccountTypeOK, HomesAgree, HomeStep
  PROVE  HomesAgree'
<1> USE DEF HomesAgree, profileVars, sessionVars, processVars, managerVars
<1>1. ASSUME NEW s \in Logins, SignsIn(s) PROVE HomesAgree'
  BY <1>1 DEF SignsIn
<1>2. ASSUME NEW st, writesStatus(st),
             UNCHANGED <<enabled, home, removal, enabling, overtaken, halfDone>>
      PROVE  HomesAgree'
  BY <1>2 DEF writesStatus
<1>3. ASSUME NEW u \in Users, RunEndsWith(u) PROVE HomesAgree'
  <2>1. CASE \E st \in outcomes : writesStatus(st)
    BY <1>2, <1>3, <2>1 DEF RunEndsWith
  <2>2. CASE UNCHANGED <<profileStatus, outdated>>
    BY <1>3, <2>2 DEF RunEndsWith
  <2> QED BY <1>3, <2>1, <2>2 DEF RunEndsWith
<1>4. ASSUME NEW d \in Probes, VerdictWritten(d) PROVE HomesAgree'
  BY <1>2, <1>4 DEF VerdictWritten
<1>5. CASE LimitExpires
  BY <1>2, <1>5 DEF LimitExpires
<1>6. CASE Detect \/ (\E d \in Probes : ProbeRuns(d))
           \/ (\E u \in Users : ResolveProfile(u) \/ RunCreated(u))
  BY <1>6 DEF Detect, ProbeRuns, ResolveProfile, RunCreated
<1>7. ASSUME NEW w \in BOOLEAN, Remove(w) PROVE HomesAgree'
  BY <1>7 DEF Remove
<1>8. CASE HomeDeleted \/ DeleteFails
  <2>1. CASE HomeDeleted
    <3>1. overtaken => overtaken'
      BY <2>1 DEF HomeDeleted
    <3>2. enabling # "idle" => overtaken'
      BY <2>1 DEF HomeDeleted
    <3>3. enabled => overtaken'
      BY <2>1, <3>1 DEF HomeDeleted
    <3> QED BY <2>1, <3>2, <3>3 DEF HomeDeleted
  <2>2. CASE DeleteFails
    BY <2>2 DEF DeleteFails
  <2> QED BY <1>8, <2>1, <2>2
<1>9. CASE Enable
  BY <1>9 DEF Enable
<1>10. CASE HomeChecked
  BY <1>10 DEF HomeChecked
<1>11. CASE HomeRebuilt
  BY <1>11 DEF HomeRebuilt
<1>12. CASE EnableFails
  BY <1>12 DEF EnableFails
<1>13. CASE Enabled
  BY <1>13 DEF Enabled, writesStatus
<1> QED BY <1>1, <1>3, <1>4, <1>5, <1>6, <1>7, <1>8, <1>9, <1>10, <1>11, <1>12, <1>13
        DEF HomeStep

-----------------------------------------------------------------------------
(* The invariant *)

\* A profile as create() leaves it satisfies the invariant.
LEMMA AccountInvInit == AccountInit => AccountInv
<1> SUFFICES ASSUME AccountInit PROVE AccountInv
  OBVIOUS
<1>1. AccountTypeOK
  BY TypeInit
<1>2. OneSession /\ Leased /\ LoginIsBounded /\ HomesAgree
  BY DEF AccountInit, OneSession, Leased, LoginIsBounded, HomesAgree
<1> QED BY <1>1, <1>2 DEF AccountInv

\* Each step of either kind keeps all of it.
LEMMA AccountInvStep == AccountInv /\ [AccountNext]_accountVars => AccountInv'
<1> SUFFICES ASSUME AccountInv, [AccountNext]_accountVars PROVE AccountInv'
  OBVIOUS
<1> USE DEF AccountInv
<1>1. CASE SessionStep
  <2>1. HomesAgree'
    BY <1>1, SessionsKeepHome DEF homeState, profileVars, HomesAgree
  <2> QED BY <1>1, <2>1, SessionTypes, OneSessionStep, BoundStep, LeasedStep
<1>2. CASE HomeStep
  <2>1. OneSession' /\ LoginIsBounded' /\ Leased'
    BY <1>2, HomeKeepsSessions DEF loginState, sessionVars, processVars, OneSession,
       LoginIsBounded, Leased, holders
  <2> QED BY <1>2, <2>1, HomeTypes, HomesStep
<1>3. CASE UNCHANGED accountVars
  BY <1>3 DEF accountVars, profileVars, sessionVars, processVars, managerVars, AccountTypeOK,
     OneSession, LoginIsBounded, Leased, holders, HomesAgree
<1> QED BY <1>1, <1>2, <1>3, TwoKinds

\* Sessions, leases, processes, the home and its row agree in every reachable
\* state, for any number of views, logins and runs.
THEOREM AccountsAgree == AccountSpec => []AccountInv
BY AccountInvInit, AccountInvStep, PTL DEF AccountSpec

\* The mutex of start() holds across its awaits, reloads, stops that give up and
\* the shutdown.
THEOREM OneLoginAlways == AccountSpec => []OneLogin
<1>1. AccountInv => OneLogin
  BY DEF AccountInv, OneSession, OneLogin
<1> QED BY <1>1, AccountsAgree, PTL

\* No login that a session stands for is left without a timer or a stop.
THEOREM LoginIsBoundedAlways == AccountSpec => []LoginIsBounded
<1>1. AccountInv => LoginIsBounded
  BY DEF AccountInv
<1> QED BY <1>1, AccountsAgree, PTL

\* An enabled profile is usable, but for the three meetings the history names.
THEOREM EnabledHomeIsUsableAlways == AccountSpec => []EnabledHomeIsUsable
<1>1. AccountInv => EnabledHomeIsUsable
  BY DEF AccountInv, AccountTypeOK, HomesAgree, EnabledHomeIsUsable
<1> QED BY <1>1, AccountsAgree, PTL

\* A view is never closed by the release of another one.
THEOREM LeasedLoginLivesAlways == AccountSpec => LeasedLoginLives
<1>1. ASSUME AccountInv, [AccountNext]_accountVars, NEW s \in Logins,
             "release" \in stops'[s] \ stops[s]
      PROVE  \A m \in Mounts : mount'[m] # s
  <2> USE <1>1 DEF AccountInv, sessionVars, processVars
  <2>1. CASE HomeStep \/ UNCHANGED accountVars
    BY <2>1, HomeKeepsSessions DEF loginState, accountVars
  <2>2. ASSUME NEW m \in Mounts, Release(m) PROVE \A x \in Mounts : mount'[x] # s
    <3>1. s = mount[m] /\ s \in registered /\ ~(leases[s] > 1)
      BY <2>2 DEF Release, stopsSession, AccountTypeOK
    <3>2. leases[s] <= 1
      BY <3>1, LastLease
    <3>3. \A x \in Mounts \ {m} : mount[x] # s
      BY <3>1, <3>2, LastLease
    <3>4. mount' = [mount EXCEPT ![m] = "closed"] /\ s # "closed"
      BY <2>2, AccountAssumption DEF Release
    <3> QED BY <3>3, <3>4 DEF AccountTypeOK
  <2>3. ASSUME NEW m \in Mounts, StartLogin(m) \/ BeginLogin(m) \/ StartFails(m) \/ Reload(m)
        PROVE  FALSE
    BY <2>3 DEF StartLogin, BeginLogin, StartFails, Reload, attach, spawn
  <2>4. ASSUME NEW t \in Logins, TimerFires(t) \/ LoginExits(t) \/ StopFails(t) PROVE FALSE
    BY <2>4 DEF TimerFires, LoginExits, StopFails, stopsSession, AccountTypeOK
  <2>5. ~(DisposeLogins \/ DisposeProcesses \/ Quits)
    BY DEF DisposeLogins, DisposeProcesses, Quits, AccountTypeOK
  <2> QED BY <2>1, <2>2, <2>3, <2>4, <2>5, TwoKinds DEF SessionStep
<1>2. AccountInv /\ [AccountNext]_accountVars =>
        [\A s \in Logins : "release" \in stops'[s] \ stops[s] =>
           \A m \in Mounts : mount'[m] # s]_accountVars
  BY <1>1
<1> QED BY <1>2, AccountsAgree, PTL DEF AccountSpec, LeasedLoginLives
=============================================================================
