------------------------------ MODULE Worktrees ------------------------------
(* The worktrees of one repository: their rows, their directories, the agent
   branches and the base branch, and everything that moves them - creation,
   validation, merge with its preflight, discard, clean-up, retention, the
   commit after a completed run, the Agents and the user.

   Every git command is awaited, so a request is a row it read and a phase: the
   command it waits for.  A step takes the effect of that command and what the
   handler does up to the next one; a row is written in a step of its own,
   because the answer of git and the write are two turns.

   A branch is the set of commits in its history, so "is an ancestor of" is
   inclusion and a merge is a union; merge commits are left out, since a base
   that is contained in a branch is always advanced to that branch.           *)
EXTENDS Naturals, FiniteSets

CONSTANTS
    Worktrees,
    Main,           \* the base branch; its commits are <<Main, n>>
    Requests,       \* concurrent requests of the interface
    MaxCommits,     \* bound: commits made in each worktree
    MaxBase         \* bound: commits the user makes on the base

Commits == (Worktrees \union {Main}) \X Nat
NoBranch == {}      \* the agent branch does not exist: a branch has commits

ASSUME WorktreesAssumption ==
    /\ Main \notin Worktrees
    /\ MaxCommits \in Nat /\ MaxBase \in Nat

RowStates == {"none", "creating", "ready", "dirty", "missing", "orphaned",
              "conflict", "merged", "discarded"}

VARIABLES
    row,       \* worktrees.state, "none" without a row
    tree,      \* the directory: "absent", "checkedOut", "broken" (no git metadata)
    edits,     \* worktrees whose directory holds uncommitted changes
    theirs,    \* what an unfinished merge merges in (MERGE_HEAD), or {}
    branch,    \* the agent branch
    base,      \* the base branch
    raw,       \* branches whose tip contains conflict markers
    agent,     \* the runs of a worktree: "none", "new" (none started yet),
               \* "first" or "later" (that run is active), "interrupted", "over"
    commit,    \* commitCompletedRun: "idle", "status", "committing"
    blocked,   \* worktrees with an open merge_blocked decision
    request,   \* what each request does
    made,      \* history: every commit ever made
    late       \* history: worktrees with work that no merge's check has seen

wtVars == <<row, tree, edits, theirs, branch, base, raw, agent, commit, blocked,
            request, made, late>>
gitVars == <<tree, edits, theirs, branch, base, raw, made, late>>
appVars == <<agent, commit, blocked>>

Idle == [does |-> "nothing"]
\* What a request remembers: the row it read and the one it will write, its
\* options, whether an overridable check failed, the branch as it was merged.
Request == [does : {"create", "validate", "merge", "discard", "collect", "cleanup"},
            on : Worktrees,
            at : {"adding", "excluding", "undoing", "inspecting", "status", "refs",
                  "scene", "merging", "advancing", "checking", "removing",
                  "deleting", "pruning", "erasing", "writing"},
            read : RowStates, as : RowStates,
            force : BOOLEAN, drop : BOOLEAN, soft : BOOLEAN, tip : SUBSET Commits]

WtTypeOK ==
    /\ row \in [Worktrees -> RowStates]
    /\ tree \in [Worktrees -> {"absent", "checkedOut", "broken"}]
    /\ edits \subseteq Worktrees
    /\ theirs \in [Worktrees -> SUBSET Commits]
    /\ branch \in [Worktrees -> SUBSET Commits]
    /\ base \subseteq Commits
    /\ raw \subseteq Worktrees \union {Main}
    /\ agent \in [Worktrees -> {"none", "new", "first", "later", "interrupted", "over"}]
    /\ commit \in [Worktrees -> {"idle", "status", "committing"}]
    /\ blocked \subseteq Worktrees
    /\ request \in [Requests -> Request \union {Idle}]
    /\ made \subseteq Commits
    /\ late \subseteq Worktrees

WtInit ==
    /\ row = [w \in Worktrees |-> "none"]
    /\ tree = [w \in Worktrees |-> "absent"]
    /\ edits = {}
    /\ theirs = [w \in Worktrees |-> {}]
    /\ branch = [w \in Worktrees |-> NoBranch]
    /\ base = {<<Main, 0>>}
    /\ raw = {}
    /\ agent = [w \in Worktrees |-> "none"]
    /\ commit = [w \in Worktrees |-> "idle"]
    /\ blocked = {}
    /\ request = [q \in Requests |-> Idle]
    /\ made = {<<Main, 0>>}
    /\ late = {}

-----------------------------------------------------------------------------
(* Requests *)

ask(does, w, at) ==
    [does |-> does, on |-> w, at |-> at,
     read |-> IF does = "merge" \/ (does = "discard" /\ row[w] # "discarded")
              THEN "none" ELSE row[w],
     as |-> "none", force |-> FALSE, drop |-> FALSE, soft |-> FALSE, tip |-> {}]

requestsOn(w) == {q \in Requests : request[q] # Idle /\ request[q].on = w}
\* The interface offers the worktrees of runs and those the recovery page
\* lists, none that is being created.  What it shows of one may be out of date.
listed(w) ==
    row[w] # "none" /\ \A q \in requestsOn(w) : request[q].does # "create"
opens(q, asked) == request[q] = Idle /\ request' = [request EXCEPT ![q] = asked]
waits(q, does, at) == request[q].does = does /\ request[q].at = at
goesOn(q, at) == request' = [request EXCEPT ![q].at = at]
\* What a request need not know any more is forgotten.
decides(q, at, st) ==
    request' = [request EXCEPT ![q] = [@ EXCEPT !.at = at, !.as = st, !.read = "none",
                                           !.force = FALSE, !.soft = FALSE, !.drop = FALSE]]
writes(q, st) == decides(q, "writing", st)
returns(q) == request' = [request EXCEPT ![q] = Idle]

\* updateState and update change a row that is still there, whatever it says now.
WriteRow(q) ==
    /\ request[q] # Idle /\ request[q].at = "writing"
    /\ LET w == request[q].on IN
       /\ row' = IF row[w] = "none" THEN row ELSE [row EXCEPT ![w] = request[q].as]
       /\ agent' = IF request[q].does = "create" /\ row[w] # "none"
                   THEN [agent EXCEPT ![w] = "new"] ELSE agent
    /\ returns(q)
    /\ UNCHANGED <<gitVars, commit, blocked>>

\* A git command fails or times out; all but create() then return the error.
GitFails(q) ==
    /\ request[q] # Idle /\ request[q].at \notin {"writing", "erasing"}
    /\ request[q].does # "create"
    /\ returns(q)
    /\ UNCHANGED <<row, gitVars, appVars>>

-----------------------------------------------------------------------------
(* create() *)

\* Run ids are fresh, and with them the branch and the path.
fresh(w) ==
    /\ row[w] = "none" /\ tree[w] = "absent" /\ branch[w] = NoBranch /\ agent[w] = "none"
    /\ requestsOn(w) = {}

Create(q, w) ==
    /\ fresh(w)
    /\ opens(q, ask("create", w, "adding"))
    /\ row' = [row EXCEPT ![w] = "creating"]
    /\ UNCHANGED <<gitVars, appVars>>

WorktreeAdded(q) ==
    /\ waits(q, "create", "adding")
    /\ LET w == request[q].on IN
       /\ tree' = [tree EXCEPT ![w] = "checkedOut"]
       /\ branch' = [branch EXCEPT ![w] = base]
       /\ raw' = IF Main \in raw THEN raw \union {w} ELSE raw
    /\ goesOn(q, "excluding")
    /\ UNCHANGED <<row, edits, theirs, base, made, late, appVars>>

Excluded(q) ==
    /\ waits(q, "create", "excluding")
    /\ writes(q, "ready")
    /\ UNCHANGED <<row, gitVars, appVars>>

\* The roll-back deletes a branch with -D only if this call created it.
CreateFails(q) ==
    /\ request[q].does = "create" /\ request[q].at \in {"adding", "excluding"}
    /\ request' = [request EXCEPT ![q].at = "undoing",
                                  ![q].drop = request[q].at = "excluding"]
    /\ UNCHANGED <<row, gitVars, appVars>>

\* Neither command of the roll-back is asked whether it succeeded.
CreateUndone(q) ==
    /\ waits(q, "create", "undoing")
    /\ LET w == request[q].on IN
       /\ \/ UNCHANGED <<tree, branch, raw>>
          \/ tree' = [tree EXCEPT ![w] = "absent"] /\ UNCHANGED <<branch, raw>>
          \/ /\ request[q].drop
             /\ tree' = [tree EXCEPT ![w] = "absent"]
             /\ branch' = [branch EXCEPT ![w] = NoBranch]
             /\ raw' = raw \ {w}
       /\ row' = [row EXCEPT ![w] = "none"]
       /\ blocked' = blocked \ {w}
    /\ returns(q)
    /\ UNCHANGED <<edits, theirs, base, made, late, agent, commit>>

-----------------------------------------------------------------------------
(* validate() *)

Validatable == {"creating", "ready", "dirty"}

Validate(q, w) ==
    /\ listed(w) /\ row[w] \in Validatable
    /\ IF tree[w] = "absent"
       THEN /\ row' = [row EXCEPT ![w] = "missing"]
            /\ UNCHANGED request
       ELSE /\ opens(q, ask("validate", w, "inspecting"))
            /\ UNCHANGED row
    /\ UNCHANGED <<gitVars, appVars>>

settles(q, st) == IF request[q].read = st THEN returns(q) ELSE writes(q, st)

Inspected(q) ==
    /\ waits(q, "validate", "inspecting")
    /\ LET w == request[q].on IN
       \/ tree[w] = "checkedOut" /\ goesOn(q, "status")
       \/ tree[w] = "broken" /\ settles(q, "orphaned")
       \/ tree[w] = "absent" /\ returns(q)
    /\ UNCHANGED <<row, gitVars, appVars>>

unclean(w) == w \in edits \/ theirs[w] # {}

StatusRead(q) ==
    /\ waits(q, "validate", "status")
    /\ LET w == request[q].on IN
       IF tree[w] = "checkedOut"
       THEN settles(q, IF unclean(w) THEN "dirty" ELSE "ready")
       ELSE returns(q)
    /\ UNCHANGED <<row, gitVars, appVars>>

-----------------------------------------------------------------------------
(* merge() with its preflight *)

Merge(q, w, force) ==
    /\ listed(w)
    /\ opens(q, [ask("merge", w, "status") EXCEPT !.force = force])
    /\ UNCHANGED <<row, gitVars, appVars>>

\* The checks only the code around git can fail (main checkout, criteria) are a
\* choice; all of them are overridable.
\* Mutant: the check of the worktree always passes.
checksCleanNever(w) == TRUE
checksClean(w) == ~unclean(w)

CheckClean(q) ==
    /\ waits(q, "merge", "status")
    /\ LET w == request[q].on IN
       IF tree[w] # "checkedOut" THEN returns(q) /\ UNCHANGED late
       ELSE /\ \E other \in BOOLEAN :
                  request' = [request EXCEPT ![q].at = "refs",
                                             ![q].soft = other \/ ~checksClean(w)]
            /\ late' = IF request[q].force /\ unclean(w) THEN late \union {w} ELSE late
    /\ UNCHANGED <<row, tree, edits, theirs, branch, base, raw, made, appVars>>

CheckRefs(q) ==
    /\ waits(q, "merge", "refs")
    /\ LET w == request[q].on IN
       IF branch[w] = NoBranch THEN returns(q)
       ELSE request' = [request EXCEPT ![q].at = "scene",
                                       ![q].soft = @ \/ ~(base \subseteq branch[w])]
    /\ UNCHANGED <<row, gitVars, appVars>>

\* An unfinished merge and an unusable worktree are hard; what is left blocks
\* the request unless it is forced, and opens the decision.
CheckScene(q) ==
    /\ waits(q, "merge", "scene")
    /\ LET w == request[q].on IN
       IF theirs[w] # {} \/ tree[w] # "checkedOut"
       THEN returns(q) /\ UNCHANGED blocked
       ELSE IF request[q].soft /\ ~request[q].force
       THEN returns(q) /\ blocked' = IF row[w] = "none" THEN blocked ELSE blocked \union {w}
       ELSE decides(q, "merging", "none") /\ UNCHANGED blocked
    /\ UNCHANGED <<row, gitVars, agent, commit>>

AnswerBlocked(q, w, force) ==
    /\ w \in blocked
    /\ blocked' = blocked \ {w}
    /\ IF force /\ row[w] # "none"
       THEN opens(q, [ask("merge", w, "status") EXCEPT !.force = TRUE])
       ELSE UNCHANGED request
    /\ UNCHANGED <<row, gitVars, agent, commit>>

\* A request of Q, or an earlier one, takes w for clean or merged, and will not
\* look for uncommitted changes again.
looksAway(q) ==
    \/ /\ request[q].does = "merge" /\ request[q].at # "status"
       /\ request[q].soft => request[q].force
       /\ request[q].as # "conflict"
    \/ request[q].read = "merged"
unwatched(w, Q) == row[w] = "merged" \/ \E q \in Q : looksAway(q)

\* `git merge <base>` in the worktree.  It refuses beside an unfinished merge,
\* and may refuse when it would overwrite uncommitted changes (GitFails).
BaseMerged(q) ==
    /\ waits(q, "merge", "merging")
    /\ LET w == request[q].on IN
       /\ tree[w] = "checkedOut" /\ theirs[w] = {}
       /\ branch' = [branch EXCEPT ![w] = @ \union base]
       /\ raw' = IF Main \in raw THEN raw \union {w} ELSE raw
       /\ request' = [request EXCEPT ![q].at = "advancing", ![q].tip = branch[w] \union base]
    /\ UNCHANGED <<row, tree, edits, theirs, base, made, late, appVars>>

\* Both sides have commits of their own: the merge may stop in conflicts.  The
\* row says so unless one of the commands that look at them fails.
BaseConflicts(q) ==
    /\ waits(q, "merge", "merging")
    /\ LET w == request[q].on IN
       /\ tree[w] = "checkedOut" /\ theirs[w] = {}
       /\ ~(base \subseteq branch[w]) /\ ~(branch[w] \subseteq base)
       /\ theirs' = [theirs EXCEPT ![w] = base]
       /\ late' = IF unwatched(w, requestsOn(w) \ {q}) THEN late \union {w} ELSE late
    /\ writes(q, "conflict") \/ returns(q)
    /\ UNCHANGED <<row, tree, edits, branch, base, raw, made, appVars>>

contained(w) == branch[w] # NoBranch /\ branch[w] \subseteq base

\* --ff-only, or fetch without +: git refuses anything but a fast-forward, and
\* --ff-only takes a branch the base already contains for one.
advances(w) == branch[w] # NoBranch /\ base \subseteq branch[w]
\* Mutant: the result of the fast-forward is not looked at.
advancedUnasked(q, ok) == writes(q, "merged")
advanced(q, ok) == IF ok THEN writes(q, "merged") ELSE returns(q)

BaseAdvanced(q) ==
    /\ waits(q, "merge", "advancing")
    /\ LET w == request[q].on IN
       /\ base' = IF advances(w) THEN branch[w] ELSE base
       /\ raw' = IF advances(w) /\ w \in raw THEN raw \union {Main} ELSE raw
       /\ advanced(q, advances(w) \/ contained(w))
    /\ UNCHANGED <<row, tree, edits, theirs, branch, made, late, appVars>>

-----------------------------------------------------------------------------
(* discard(), cleanup() and the retention run *)

Discard(q, w, drop) ==
    /\ listed(w)
    /\ opens(q, [ask("discard", w, IF drop THEN "checking" ELSE "removing")
                     EXCEPT !.drop = drop])
    /\ UNCHANGED <<row, gitVars, appVars>>

\* Retention reads the row again before it works on an item of its plan.
Collect(q, w) ==
    /\ \/ row[w] = "merged" /\ opens(q, [ask("collect", w, "checking") EXCEPT !.drop = TRUE])
       \/ row[w] = "discarded" /\ opens(q, ask("collect", w, "removing"))
    /\ UNCHANGED <<row, gitVars, appVars>>

\* cleanup() works on the states it listed before its awaits.
Cleanup(q, w) ==
    /\ \/ row[w] \in {"missing", "orphaned"} /\ opens(q, ask("cleanup", w, "pruning"))
       \/ row[w] \in {"merged", "discarded"} /\ opens(q, ask("cleanup", w, "removing"))
    /\ UNCHANGED <<row, gitVars, appVars>>

\* branch-exists and `merge-base --is-ancestor`.
CheckBranch(q) ==
    /\ request[q].does \in {"discard", "collect"} /\ request[q].at = "checking"
    /\ LET w == request[q].on IN
       \/ /\ branch[w] = NoBranch
          /\ request' = [request EXCEPT ![q].at = "removing", ![q].drop = FALSE]
       \/ contained(w) /\ goesOn(q, "removing")
       \/ branch[w] # NoBranch /\ ~contained(w) /\ returns(q)
    /\ UNCHANGED <<row, gitVars, appVars>>

\* What follows the removal of the directory, and of the branch.
finishes(q) ==
    CASE request[q].does = "discard" ->
            IF request[q].read = "discarded" THEN returns(q) ELSE writes(q, "discarded")
      [] request[q].does = "collect" -> goesOn(q, "erasing")
      [] OTHER -> returns(q)

\* `worktree remove --force`; nothing is left to remove of an absent directory,
\* and git refuses one that is no worktree.
RemoveTree(q) ==
    /\ request[q] # Idle /\ request[q].at = "removing"
    /\ LET w == request[q].on
           keeps == request[q].does = "discard" /\ request[q].read = "discarded"
       IN
       /\ keeps \/ tree[w] # "broken"
       /\ IF keeps THEN UNCHANGED <<tree, edits, theirs, late>>
          ELSE /\ tree' = [tree EXCEPT ![w] = "absent"]
               /\ edits' = edits \ {w}
               /\ theirs' = [theirs EXCEPT ![w] = {}]
               /\ late' = late \ {w}
    /\ IF request[q].drop THEN goesOn(q, "deleting") ELSE finishes(q)
    /\ UNCHANGED <<row, branch, base, raw, made, appVars>>

\* `branch -d`, in the main checkout: git deletes what HEAD contains, and
\* nothing that is checked out.
\* Mutant: branch -D.
deletableByForce(w) == tree[w] # "checkedOut"
deletable(w) == tree[w] # "checkedOut" /\ contained(w)

DeleteBranch(q) ==
    /\ request[q] # Idle /\ request[q].at = "deleting"
    /\ LET w == request[q].on IN
       /\ branch[w] # NoBranch /\ deletable(w)
       /\ branch' = [branch EXCEPT ![w] = NoBranch]
       /\ raw' = raw \ {w}
    /\ finishes(q)
    /\ UNCHANGED <<row, tree, edits, theirs, base, made, late, appVars>>

\* The row goes; the foreign keys of runs and decisions become NULL.
EraseRow(q) ==
    /\ request[q] # Idle /\ request[q].at \in {"pruning", "erasing"}
    /\ row' = [row EXCEPT ![request[q].on] = "none"]
    /\ blocked' = blocked \ {request[q].on}
    /\ returns(q)
    /\ UNCHANGED <<gitVars, agent, commit>>

-----------------------------------------------------------------------------
(* Agents, the commit after a run, the user *)

\* start() looks at no state of the row, a resume does.  (An interrupted run
\* that a later one has replaced is not resumed any more.)
Resumable == {"ready", "dirty", "conflict"}

StartRun(w) ==
    /\ row[w] # "none" /\ tree[w] # "absent"
    /\ \/ /\ agent[w] = "new" \/ (agent[w] = "interrupted" /\ row[w] \in Resumable)
          /\ agent' = [agent EXCEPT ![w] = "first"]
       \/ /\ agent[w] \in {"interrupted", "over"}
          /\ agent' = [agent EXCEPT ![w] = "later"]
    /\ UNCHANGED <<row, gitVars, commit, blocked, request>>

running(w) == agent[w] \in {"first", "later"}

WriteFiles(w) ==
    /\ running(w) /\ tree[w] # "absent" /\ w \notin edits
    /\ edits' = edits \union {w}
    /\ late' = IF unwatched(w, requestsOn(w)) THEN late \union {w} ELSE late
    /\ UNCHANGED <<row, tree, theirs, branch, base, raw, made, appVars, request>>

\* agent.completed; only the run the worktree was created for is committed.
RunCompletes(w) ==
    /\ running(w)
    /\ agent' = [agent EXCEPT ![w] = "over"]
    /\ commit' = IF agent[w] = "first" /\ row[w] # "none"
                 THEN [commit EXCEPT ![w] = "status"] ELSE commit
    /\ UNCHANGED <<row, gitVars, blocked, request>>

RunStops(w) ==
    /\ running(w)
    /\ agent' = [agent EXCEPT ![w] = "over"]
    /\ UNCHANGED <<row, gitVars, commit, blocked, request>>

CommitStatus(w) ==
    /\ commit[w] = "status"
    /\ commit' = [commit EXCEPT ![w] =
                     IF tree[w] = "checkedOut" /\ unclean(w) THEN "committing" ELSE "idle"]
    /\ UNCHANGED <<row, gitVars, agent, blocked, request>>

ofWorktree(w) == {c \in made : c[1] = w}
\* The commit that concludes a merge is a merge commit.
committed(w) ==
    LET new == IF theirs[w] # {} THEN {} ELSE {<<w, Cardinality(ofWorktree(w)) + 1>>} IN
    /\ theirs[w] = {} => Cardinality(ofWorktree(w)) < MaxCommits
    /\ tree[w] = "checkedOut" /\ unclean(w)
    /\ branch' = [branch EXCEPT ![w] = @ \union new \union theirs[w]]
    /\ made' = made \union new
    /\ edits' = edits \ {w}
    /\ theirs' = [theirs EXCEPT ![w] = {}]
    /\ late' = late \ {w}

\* `git add --all` and `git commit`: in an unfinished merge, that concludes it
\* with the files as they are.
CommitChanges(w) ==
    /\ commit[w] = "committing"
    /\ committed(w)
    /\ raw' = IF theirs[w] # {} THEN raw \union {w} ELSE raw
    /\ commit' = [commit EXCEPT ![w] = "idle"]
    /\ UNCHANGED <<row, tree, base, agent, blocked, request>>

CommitFails(w) ==
    /\ commit[w] = "committing"
    /\ commit' = [commit EXCEPT ![w] = "idle"]
    /\ UNCHANGED <<row, gitVars, agent, blocked, request>>

\* The user, or an Agent by itself, resolves what there is and commits.
CommitByHand(w) ==
    /\ agent[w] # "none"
    /\ committed(w)
    /\ raw' = raw \ {w}
    /\ UNCHANGED <<row, tree, base, appVars, request>>

UserCommits ==
    LET n == Cardinality(ofWorktree(Main)) IN
    /\ n <= MaxBase
    /\ base' = base \union {<<Main, n>>}
    /\ made' = made \union {<<Main, n>>}
    /\ UNCHANGED <<row, tree, edits, theirs, branch, raw, late, appVars, request>>

\* Somebody removes the directory, or the metadata git keeps of it.
TreeBreaks(w) ==
    /\ tree[w] = "checkedOut" /\ commit[w] = "idle"
    /\ \/ /\ tree' = [tree EXCEPT ![w] = "absent"]
          /\ edits' = edits \ {w}
       \/ /\ tree' = [tree EXCEPT ![w] = "broken"]
          /\ UNCHANGED edits
    /\ theirs' = [theirs EXCEPT ![w] = {}]
    /\ UNCHANGED <<row, branch, base, raw, made, late, appVars, request>>

\* The instance dies with everything it awaits; the next one looks at the
\* directories before it takes requests.  A probe that fails changes nothing.
Checkable == {"creating", "ready", "dirty", "conflict"}

Restart ==
    /\ request' = [q \in Requests |-> Idle]
    /\ commit' = [w \in Worktrees |-> "idle"]
    /\ agent' = [w \in Worktrees |->
                    IF running(w) THEN "interrupted" ELSE agent[w]]
    /\ \E probed \in SUBSET Worktrees :
          row' = [w \in Worktrees |->
                    IF row[w] \in Checkable /\ tree[w] = "absent" THEN "missing"
                    ELSE IF row[w] \in Checkable /\ tree[w] = "broken" /\ w \in probed
                    THEN "orphaned" ELSE row[w]]
    /\ UNCHANGED <<gitVars, blocked>>

WtNext ==
    \/ \E q \in Requests :
          \/ \E w \in Worktrees :
                \/ Create(q, w) \/ Validate(q, w)
                \/ Collect(q, w) \/ Cleanup(q, w)
                \/ \E yes \in BOOLEAN :
                      Merge(q, w, yes) \/ AnswerBlocked(q, w, yes) \/ Discard(q, w, yes)
          \/ WriteRow(q) \/ GitFails(q)
          \/ WorktreeAdded(q) \/ Excluded(q) \/ CreateFails(q) \/ CreateUndone(q)
          \/ Inspected(q) \/ StatusRead(q)
          \/ CheckClean(q) \/ CheckRefs(q) \/ CheckScene(q)
          \/ BaseMerged(q) \/ BaseConflicts(q) \/ BaseAdvanced(q)
          \/ CheckBranch(q) \/ RemoveTree(q) \/ DeleteBranch(q) \/ EraseRow(q)
    \/ \E w \in Worktrees :
          \/ StartRun(w) \/ WriteFiles(w) \/ RunCompletes(w) \/ RunStops(w)
          \/ CommitStatus(w) \/ CommitChanges(w) \/ CommitFails(w)
          \/ CommitByHand(w) \/ TreeBreaks(w)
    \/ UserCommits
    \/ Restart

WtSpec == WtInit /\ [][WtNext]_wtVars

-----------------------------------------------------------------------------
(* Properties *)

\* No request loses a commit: it stays in the base branch or in an agent branch.
\* A check that the branch is merged is followed by a wait and a removal before
\* the branch is deleted; in between the branch may grow.
CommitsSurvive ==
    \A c \in made : c \in base \/ \E w \in Worktrees : branch[w] # NoBranch /\ c \in branch[w]

\* Uncommitted changes and conflict scenes are destroyed by a confirmed discard
\* only.  "Merged" licenses clean-up and retention to remove a directory by
\* force, and they find in it only what no check of a merge could see: written
\* after that check, overridden by force, or left by a second merge.
WorkIsDiscardedByTheUser ==
    [][\A w \in Worktrees :
          (unclean(w) /\ tree'[w] = "absent" /\ request' # request)
             => \/ w \in late
                \/ \E q \in requestsOn(w) :
                      /\ request'[q] # request[q]
                      /\ request[q].does = "discard" \/ request[q].read = "discarded"]_wtVars

\* A row becomes merged only when the base contains the branch as it was merged,
\* although the base may move between the merge in the worktree and the
\* fast-forward, and the merge may have been asked for twice.
MergedIsInBase ==
    [][\A w \in Worktrees : (row[w] # "merged" /\ row'[w] = "merged") =>
          \E q \in requestsOn(w) : request[q].tip # {} /\ request[q].tip \subseteq base]_wtVars

\* A conflict scene is resolved by hand before a merge is run again: what the
\* base is advanced to has no conflict markers in it (merge-service.ts:41-48).
BaseIsResolved == Main \notin raw
=============================================================================
