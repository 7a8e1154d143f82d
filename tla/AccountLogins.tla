---------------------------- MODULE AccountLogins ----------------------------
(* One managed account profile of a WSL runtime: its row, its home directory,
   the interactive logins into it (account-login-service.ts), the status probes,
   the runs that use it, and its removal and re-activation
   (account-profile-manager.ts, account-profile-status-service.ts).

   What a handler does between two awaits of a command of the runtime is one
   step; an effect on the file system is a step of its own.  On a host-native
   runtime those awaits do not yield to another request, and fewer of these
   interleavings exist.  Profiles do not share sessions, so one is enough.

   Login ids are used again once nothing refers to them: no state is lost by
   that, and runs of every length are covered.                               *)
EXTENDS Naturals, FiniteSets

CONSTANTS
    Mounts,      \* login views of the interface
    Logins,      \* login sessions, and the processes they own
    Account,     \* the "detect" button, which probes like the end of a login
    Users        \* agent runs that may use the profile

ASSUME AccountAssumption ==
    /\ IsFiniteSet(Mounts)
    /\ Account \notin Logins /\ {"closed", "preparing"} \cap Logins = {}

Statuses == {"login-required", "unknown", "ready", "limited", "expired"}
Probes == Logins \cup {Account}
Stoppers == {"release", "timeout", "quit", "all"}

VARIABLES
    enabled, profileStatus,     \* the row
    home,        \* configHome: "absent", "empty", "signedIn" (auth file present)
    mount,       \* each view: "closed", "preparing" (its start() waits), or a login
    registered,  \* the three maps of the login service
    leases,      \* ActiveLogin.attachments
    timed,       \* sessions whose timer runs
    settled,     \* ActiveLogin.settled
    live,        \* login processes
    stops,       \* who waits in ProcessManager.stop() for each process
    detecting,  \* detectProfileStatus(): "idle", "probing", or its verdict
    removal,     \* remove() is about to delete the home
    enabling,    \* enable(): what it waits for or knows
    user,        \* runs: "none", "resolved" (profile chosen, no row yet), "active"
    quit,        \* "up", "stopping" the logins, "killing" the processes, "gone"
    dropped,     \* history: live processes that no session stands for any more
    overtaken,   \* history: a home was deleted while an enable() was under way
    halfDone,    \* history: an enable() failed after it had rebuilt the home
    outdated     \* history: the row was called ready after the sign-in had gone

profileVars == <<enabled, profileStatus, home>>
sessionVars == <<registered, leases, timed, settled>>
processVars == <<live, stops, dropped>>
managerVars == <<removal, enabling, user, overtaken, halfDone>>
accountVars == <<profileVars, mount, sessionVars, processVars, detecting, managerVars,
                 quit, outdated>>

AccountTypeOK ==
    /\ enabled \in BOOLEAN /\ profileStatus \in Statuses
    /\ home \in {"absent", "empty", "signedIn"}
    /\ mount \in [Mounts -> {"closed", "preparing"} \cup Logins]
    /\ registered \subseteq Logins /\ timed \subseteq Logins /\ settled \subseteq Logins
    /\ leases \in [Logins -> Nat]
    /\ live \subseteq Logins /\ dropped \subseteq Logins
    /\ stops \in [Logins -> SUBSET Stoppers]
    /\ detecting \in [Probes -> {"idle", "probing", "ready", "login-required", "unknown"}]
    /\ removal \in BOOLEAN
    /\ enabling \in {"idle", "checking", "found", "missing", "rebuilt"}
    /\ user \in [Users -> {"none", "resolved", "active"}]
    /\ quit \in {"up", "stopping", "killing", "gone"}
    /\ overtaken \in BOOLEAN /\ halfDone \in BOOLEAN /\ outdated \in BOOLEAN

\* A profile as create() leaves it.
AccountInit ==
    /\ enabled = TRUE /\ profileStatus = "login-required" /\ home = "empty"
    /\ mount = [m \in Mounts |-> "closed"]
    /\ registered = {} /\ timed = {} /\ settled = {}
    /\ leases = [s \in Logins |-> 0]
    /\ live = {} /\ dropped = {}
    /\ stops = [s \in Logins |-> {}]
    /\ detecting = [d \in Probes |-> "idle"]
    /\ removal = FALSE /\ enabling = "idle" /\ overtaken = FALSE /\ halfDone = FALSE
    /\ user = [u \in Users |-> "none"]
    /\ quit = "up" /\ outdated = FALSE

\* The router refuses requests once the application quits.
serving == quit = "up"

-----------------------------------------------------------------------------
(* Sessions *)

forget(S) ==
    /\ registered' = registered \ S
    /\ leases' = [s \in Logins |-> IF s \in S THEN 0 ELSE leases[s]]
    /\ timed' = timed \ S
    /\ settled' = settled \ S

attachUnleased(m, s) ==
    /\ mount' = [mount EXCEPT ![m] = s]
    /\ UNCHANGED <<sessionVars, processVars>>
attach(m, s) ==
    /\ mount' = [mount EXCEPT ![m] = s]
    /\ leases' = [leases EXCEPT ![s] = @ + 1]
    /\ UNCHANGED <<registered, timed, settled, processVars>>

unused(s) ==
    /\ s \notin registered \cup live /\ detecting[s] = "idle"
    /\ \A m \in Mounts : mount[m] # s

spawn(m, s) ==
    /\ unused(s)
    /\ mount' = [mount EXCEPT ![m] = s]
    /\ registered' = registered \cup {s}
    /\ leases' = [leases EXCEPT ![s] = 1]
    /\ timed' = timed \cup {s}
    /\ live' = live \cup {s}
    /\ UNCHANGED <<settled, stops, dropped>>

\* start(): attached at once, refused (a disabled profile), or on its way
\* through the detection of the executable and the working directory.
StartLogin(m) ==
    /\ serving /\ mount[m] = "closed"
    /\ \/ \E s \in registered : attach(m, s)
       \/ /\ registered = {} /\ enabled
          /\ mount' = [mount EXCEPT ![m] = "preparing"]
          /\ UNCHANGED <<sessionVars, processVars>>
    /\ UNCHANGED <<profileVars, detecting, managerVars, quit, outdated>>

\* start() without the second look.
BeginLoginBlindly(m) ==
    /\ quit # "gone" /\ mount[m] = "preparing"
    /\ \E s \in Logins : spawn(m, s)
    /\ UNCHANGED <<profileVars, detecting, managerVars, quit, outdated>>

\* The rest of start(): it looks for a session again, but not at the row.
BeginLogin(m) ==
    /\ quit # "gone" /\ mount[m] = "preparing"
    /\ \/ \E s \in registered : attach(m, s)
       \/ registered = {} /\ \E s \in Logins : spawn(m, s)
    /\ UNCHANGED <<profileVars, detecting, managerVars, quit, outdated>>

\* The working directory cannot be made, or the spawn fails.
StartFails(m) ==
    /\ mount[m] = "preparing"
    /\ mount' = [mount EXCEPT ![m] = "closed"]
    /\ UNCHANGED <<profileVars, sessionVars, processVars, detecting, managerVars, quit, outdated>>

\* stopSession(): the process is stopped and its end will not be probed.
stopsSession(s, who) ==
    /\ settled' = settled \cup {s}
    /\ stops' = [stops EXCEPT ![s] = @ \cup {who}]

\* cancel() of a view that closes; the last lease stops the session.
Release(m) ==
    /\ serving /\ mount[m] \in Logins
    /\ mount' = [mount EXCEPT ![m] = "closed"]
    /\ LET s == mount[m] IN
       \/ s \notin registered /\ UNCHANGED <<leases, settled, stops>>
       \/ /\ s \in registered
          /\ leases' = [leases EXCEPT ![s] = @ - 1]
          /\ IF leases[s] > 1 THEN UNCHANGED <<settled, stops>> ELSE stopsSession(s, "release")
    /\ UNCHANGED <<profileVars, registered, timed, live, dropped, detecting, managerVars,
                   quit, outdated>>

\* A reload of the window: the view is gone and its lease stays.  At most two
\* leases per view are counted.
Reload(m) ==
    /\ serving /\ mount[m] \in Logins
    /\ leases[mount[m]] <= Cardinality(Mounts)
    /\ mount' = [mount EXCEPT ![m] = "closed"]
    /\ UNCHANGED <<profileVars, sessionVars, processVars, detecting, managerVars, quit, outdated>>

\* A timeout that only gives one lease back.
TimerReleases(s) ==
    /\ quit # "gone" /\ s \in timed \cap live
    /\ timed' = timed \ {s}
    /\ leases' = [leases EXCEPT ![s] = @ - 1]
    /\ IF leases[s] > 1 THEN UNCHANGED <<settled, stops>> ELSE stopsSession(s, "timeout")
    /\ UNCHANGED <<profileVars, mount, registered, live, dropped, detecting, managerVars, quit,
                   outdated>>

\* The ten minutes of a session are over, whatever its leases.  (Once nobody
\* listens to exits a dead process may keep its timer, which then only forgets.)
TimerFires(s) ==
    /\ quit # "gone" /\ s \in timed \cap live
    /\ timed' = timed \ {s}
    /\ stopsSession(s, "timeout")
    /\ UNCHANGED <<profileVars, mount, registered, leases, live, dropped, detecting,
                   managerVars, quit, outdated>>

-----------------------------------------------------------------------------
(* Processes *)

\* The CLI signs in; it makes its directory again if that is missing, or fails.
SignsIn(s) ==
    /\ s \in live
    /\ home' = "signedIn"
    /\ UNCHANGED <<enabled, profileStatus, mount, sessionVars, processVars, detecting,
                   managerVars, quit, outdated>>

\* process.exited: the session is forgotten, and the end of one that nobody
\* stopped is probed, while the login service listens.
LoginExits(s) ==
    /\ s \in live /\ quit # "gone"
    /\ live' = live \ {s} /\ dropped' = dropped \ {s}
    /\ stops' = [stops EXCEPT ![s] = {}]
    /\ IF quit = "killing"
       THEN UNCHANGED <<sessionVars, detecting>>
       ELSE /\ forget({s})
            /\ detecting' = IF s \in registered \ settled
                             THEN [detecting EXCEPT ![s] = "probing"] ELSE detecting
    /\ UNCHANGED <<profileVars, mount, managerVars, quit, outdated>>

\* The stop ladder ends with the process alive.  Two stops of one process end
\* as one: the first to end forgets the session.
StopFails(s) ==
    /\ s \in live /\ stops[s] # {}
    /\ stops' = [stops EXCEPT ![s] = {}]
    /\ forget({s})
    /\ dropped' = dropped \cup {s}
    /\ UNCHANGED <<profileVars, mount, live, detecting, managerVars, quit, outdated>>

-----------------------------------------------------------------------------
(* Status *)

\* setStatus(); history notes a "ready" without a sign-in to show for it.
writesStatus(st) ==
    /\ profileStatus' = st
    /\ outdated' = (st = "ready" /\ home # "signedIn")

Detect ==
    /\ serving /\ detecting[Account] = "idle"
    /\ detecting' = [detecting EXCEPT ![Account] = "probing"]
    /\ UNCHANGED <<profileVars, mount, sessionVars, processVars, managerVars, quit, outdated>>

\* The runtime looks for the auth file.  A probe that cannot run is inconclusive,
\* one that fails is read as a missing file by two of the three adapters.
verdicts == {"login-required", "unknown"} \cup IF home = "signedIn" THEN {"ready"} ELSE {}
ProbeRuns(d) ==
    /\ detecting[d] = "probing"
    /\ \E verdict \in verdicts : detecting' = [detecting EXCEPT ![d] = verdict]
    /\ UNCHANGED <<profileVars, mount, sessionVars, processVars, managerVars, quit, outdated>>

\* The verdict is written over whatever the row says by now.
VerdictWritten(d) ==
    /\ quit # "gone" /\ detecting[d] \in Statuses
    /\ writesStatus(detecting[d])
    /\ detecting' = [detecting EXCEPT ![d] = "idle"]
    /\ UNCHANGED <<enabled, home, mount, sessionVars, processVars, managerVars, quit>>

\* A reader finds the limit expired.
LimitExpires ==
    /\ quit # "gone" /\ profileStatus = "limited"
    /\ writesStatus("unknown")
    /\ UNCHANGED <<enabled, home, mount, sessionVars, processVars, detecting, managerVars, quit>>

-----------------------------------------------------------------------------
(* Runs *)

\* resolve(): only an enabled profile that can authenticate.
selectable == enabled /\ profileStatus \notin {"login-required", "expired"}

ResolveProfile(u) ==
    /\ serving /\ user[u] = "none" /\ selectable
    /\ user' = [user EXCEPT ![u] = "resolved"]
    /\ UNCHANGED <<profileVars, mount, sessionVars, processVars, detecting, removal, enabling,
                   overtaken, halfDone, quit, outdated>>

\* start() goes on after the detection of the CLI; the profile is not read again.
RunCreated(u) ==
    /\ quit # "gone" /\ user[u] = "resolved"
    /\ \E next \in {"active", "none"} : user' = [user EXCEPT ![u] = next]
    /\ UNCHANGED <<profileVars, mount, sessionVars, processVars, detecting, removal, enabling,
                   overtaken, halfDone, quit, outdated>>

\* projectRunOutcome(): what the end of a run says of the account.  A cancelled
\* or interrupted run, and any other failure, say nothing.
outcomes == {"ready", "limited", "login-required", "expired"}
RunEndsWith(u) ==
    /\ quit # "gone" /\ user[u] = "active"
    /\ user' = [user EXCEPT ![u] = "none"]
    /\ \/ \E st \in outcomes : writesStatus(st)
       \/ UNCHANGED <<profileStatus, outdated>>
    /\ UNCHANGED <<enabled, home, mount, sessionVars, processVars, detecting, removal, enabling,
                   overtaken, halfDone, quit>>

-----------------------------------------------------------------------------
(* Removal and re-activation *)

\* remove(): refused while a run is active; the row first, the home last.  (It
\* also takes the profile from the agent's default.)  One removal at a time is
\* followed, and one enable().
Remove(deleteHome) ==
    /\ serving /\ ~removal
    /\ \A u \in Users : user[u] # "active"
    /\ enabled' = FALSE
    /\ removal' = deleteHome
    /\ UNCHANGED <<profileStatus, home, mount, sessionVars, processVars, detecting, enabling, user,
                   overtaken, halfDone, quit, outdated>>

\* rm -rf of the home; the delete is the last thing remove() waits for.
HomeDeleted ==
    /\ removal
    /\ home' = "absent"
    /\ removal' = FALSE
    /\ overtaken' = (overtaken \/ enabling # "idle")
    /\ UNCHANGED <<enabled, profileStatus, mount, sessionVars, processVars, detecting, enabling,
                   user, halfDone, quit, outdated>>

DeleteFails ==
    /\ removal
    /\ removal' = FALSE
    /\ UNCHANGED <<profileVars, mount, sessionVars, processVars, detecting, enabling, user,
                   overtaken, halfDone, quit, outdated>>

Enable ==
    /\ serving /\ ~enabled /\ enabling = "idle"
    /\ enabling' = "checking" /\ overtaken' = FALSE
    /\ UNCHANGED <<profileVars, mount, sessionVars, processVars, detecting, removal, user, halfDone,
                   quit, outdated>>

\* homeExists().
HomeChecked ==
    /\ enabling = "checking"
    /\ enabling' = IF home = "absent" THEN "missing" ELSE "found"
    /\ UNCHANGED <<profileVars, mount, sessionVars, processVars, detecting, removal, user,
                   overtaken, halfDone, quit, outdated>>

\* createManagedHome(): mkdir -p.
HomeRebuilt ==
    /\ enabling = "missing"
    /\ home' = IF home = "absent" THEN "empty" ELSE home
    /\ enabling' = "rebuilt"
    /\ UNCHANGED <<enabled, profileStatus, mount, sessionVars, processVars, detecting, removal,
                   user, overtaken, halfDone, quit, outdated>>

EnableFails ==
    /\ enabling # "idle"
    /\ enabling' = "idle"
    /\ halfDone' = (halfDone \/ enabling = "rebuilt")
    /\ UNCHANGED <<profileVars, mount, sessionVars, processVars, detecting, removal, user,
                   overtaken, quit, outdated>>

\* A rebuilt home leaves the row as it was.
EnabledAsItWas ==
    /\ quit # "gone" /\ enabling \in {"found", "rebuilt"}
    /\ enabled' = TRUE
    /\ enabling' = "idle"
    /\ overtaken' = (overtaken \/ removal)
    /\ UNCHANGED <<profileStatus, home, mount, sessionVars, processVars, detecting, removal, user,
                   halfDone, quit, outdated>>

\* A rebuilt home needs a login; then the row is enabled.
Enabled ==
    /\ quit # "gone" /\ enabling \in {"found", "rebuilt"}
    /\ enabled' = TRUE
    /\ enabling' = "idle"
    /\ overtaken' = (overtaken \/ removal)
    /\ IF enabling = "rebuilt"
       THEN writesStatus("login-required") /\ halfDone' = FALSE
       ELSE UNCHANGED <<profileStatus, outdated, halfDone>>
    /\ UNCHANGED <<home, mount, sessionVars, processVars, detecting, removal, user, quit>>

-----------------------------------------------------------------------------
(* Shutdown *)

\* dispose() of the login service: every session it knows is stopped.
DisposeLogins ==
    /\ serving
    /\ quit' = "stopping"
    /\ settled' = settled \cup registered
    /\ stops' = [s \in Logins |-> stops[s] \cup IF s \in registered THEN {"quit"} ELSE {}]
    /\ UNCHANGED <<profileVars, mount, registered, leases, timed, live, dropped, detecting,
                   managerVars, outdated>>

\* It returns when those have stopped, and clears its maps; the process manager
\* then stops every process that is left.
DisposeProcesses ==
    /\ quit = "stopping" /\ \A s \in Logins : "quit" \notin stops[s]
    /\ quit' = "killing"
    /\ forget(registered)
    /\ dropped' = dropped \cup registered
    /\ stops' = [s \in Logins |-> stops[s] \cup IF s \in live THEN {"all"} ELSE {}]
    /\ UNCHANGED <<profileVars, mount, live, detecting, managerVars, outdated>>

Quits ==
    /\ quit = "killing" /\ \A s \in Logins : "all" \notin stops[s]
    /\ quit' = "gone"
    /\ UNCHANGED <<profileVars, mount, sessionVars, processVars, detecting, managerVars, outdated>>

-----------------------------------------------------------------------------

AccountNext ==
    \/ \E m \in Mounts : StartLogin(m) \/ BeginLogin(m) \/ StartFails(m) \/ Release(m) \/ Reload(m)
    \/ \E s \in Logins : TimerFires(s) \/ SignsIn(s) \/ LoginExits(s) \/ StopFails(s)
    \/ Detect \/ (\E d \in Probes : ProbeRuns(d) \/ VerdictWritten(d)) \/ LimitExpires
    \/ \E u \in Users : ResolveProfile(u) \/ RunCreated(u) \/ RunEndsWith(u)
    \/ (\E w \in BOOLEAN : Remove(w)) \/ HomeDeleted \/ DeleteFails
    \/ Enable \/ HomeChecked \/ HomeRebuilt \/ EnableFails \/ Enabled
    \/ DisposeLogins \/ DisposeProcesses \/ Quits

AccountSpec == AccountInit /\ [][AccountNext]_accountVars

-----------------------------------------------------------------------------
(* Properties *)

\* The mutex of start(): of the login processes of a profile, one at most is
\* still stood for by a session.  A second one lives only after a stop gave up on
\* the first or the shutdown cleared the maps (account-login-service.ts:35-37).
OneLogin == \A s, t \in live \ dropped : s = t

\* A session is stopped for want of leases only when no view holds one: starts
\* that meet, reloads and late cancels never let one view close the session
\* another is bound to (account-login-service.ts:37-39).  A view may still attach
\* to a session that is being stopped.
LeasedLoginLives ==
    [][\A s \in Logins : "release" \in stops'[s] \ stops[s] =>
         \A m \in Mounts : mount'[m] # s]_accountVars

\* An enabled profile has its home, and one that is called ready is signed in,
\* unless a delete of the home overtook the enable(), an enable() failed between the
\* home and the row, or a run or detecting reported on the home that was deleted
\* (account-profile-manager.ts:1113-1115, 1166-1168).
EnabledHomeIsUsable ==
    enabled => \/ overtaken
               \/ home # "absent" /\ (profileStatus = "ready" => home = "signedIn" \/ outdated \/ halfDone)

\* Whatever views, leases and stops did, a login that a session stands for has its
\* timer ahead or a stop under way, until the application is gone
\* (account-login-service.ts:40-42).
LoginIsBounded ==
    quit # "gone" => \A s \in live \ dropped : s \in timed \/ stops[s] # {}

-----------------------------------------------------------------------------
(* The inductive invariant *)

\* One session at a time, and it stands for every process not given up.
OneSession == live \ dropped \subseteq registered /\ \A s, t \in registered : s = t

\* Every view bound to a session holds a lease of it.
holders(s) == {m \in Mounts : mount[m] = s}
Leased == \A s \in registered : Cardinality(holders(s)) <= leases[s]

\* What enable() and remove() know of each other and of the home.
HomesAgree ==
    /\ enabling # "idle" => ~enabled
    /\ removal /\ enabled => overtaken
    /\ (enabled \/ enabling \in {"found", "rebuilt"}) /\ home = "absent" => overtaken
    /\ home = "empty" /\ profileStatus = "ready" =>
         outdated \/ halfDone \/ enabling = "rebuilt"

AccountInv == AccountTypeOK /\ OneSession /\ Leased /\ LoginIsBounded /\ HomesAgree
=============================================================================
