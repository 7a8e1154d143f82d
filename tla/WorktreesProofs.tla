-------------------------- MODULE WorktreesProofs --------------------------
(* Worktrees for any number of worktrees, requests, commits and restarts: no
   request loses a commit, work that a merge's check could see is removed by a
   discard only, and a row says merged when the base has what was merged.

   A request is known by the row it read and by its phase, so the invariant
   says for each phase what the steps before it have established and what no
   other request, Agent or user can undo while git is at work.                *)
EXTENDS Worktrees, FiniteSetTheorems, TLAPS

\* What is checked out has its branch, and an absent directory holds no work.
TreeShape ==
    \A w \in Worktrees :
      /\ tree[w] = "checkedOut" => branch[w] # NoBranch
      /\ tree[w] = "absent" => ~unclean(w)

\* Decisions go with their row, and no commit is due before a run has started.
RowShape ==
    \A w \in Worktrees :
      /\ row[w] = "none" => w \notin blocked
      /\ agent[w] = "none" => commit[w] = "idle"

\* create() has its worktree to itself, and its branch holds nothing but base
\* commits as long as the roll-back may delete it.
CreateShape ==
    \A q \in Requests : request[q].does = "create" =>
      LET w == request[q].on IN
      /\ \A p \in Requests : request[p] # Idle /\ request[p].on = w => p = q
      /\ row[w] = "creating" /\ agent[w] = "none" /\ w \notin blocked /\ ~unclean(w)
      /\ request[q].at = "adding" => branch[w] = NoBranch /\ tree[w] = "absent"
      /\ request[q].at = "excluding" \/ (request[q].at = "undoing" /\ request[q].drop)
           => contained(w)

\* Only work of a discard, or on a row read as merged or discarded, removes a
\* directory; what a request will write is known when it is about to write.
RequestShape ==
    \A q \in Requests : request[q] # Idle =>
      /\ request[q].at \in {"checking", "removing"} =>
           request[q].does = "discard" \/ request[q].read \in {"merged", "discarded"}
      /\ request[q].at = "writing" <=> request[q].as # "none"
      /\ request[q].as = "merged" => request[q].does = "merge"
      /\ request[q].at \in {"merging", "advancing"} \/ request[q].as = "merged"
           => ~request[q].soft

\* The branch keeps what the merge made of it, and the base has it before the
\* row says so.
MergeShape ==
    \A q \in Requests : request[q].does = "merge" =>
      LET w == request[q].on IN
      /\ request[q].at = "advancing" =>
           /\ request[q].tip # {}
           /\ branch[w] = NoBranch \/ request[q].tip \subseteq branch[w]
      /\ request[q].as = "merged" => request[q].tip # {} /\ request[q].tip \subseteq base

\* Work in a worktree that a merge took for clean is late.
WorkIsSeen ==
    \A w \in Worktrees : unwatched(w, requestsOn(w)) /\ unclean(w) => w \in late

HistoryShape == IsFiniteSet(made) /\ base # {}

WtInv ==
    /\ WtTypeOK /\ TreeShape /\ RowShape /\ CreateShape /\ RequestShape
    /\ MergeShape /\ WorkIsSeen /\ HistoryShape /\ CommitsSurvive

-----------------------------------------------------------------------------
(* What a step leaves of the requests: q is new, goes on to a phase, has     *)
(* decided what it will write, or has returned; the others wait.             *)

Does == {"create", "validate", "merge", "discard", "collect", "cleanup"}
Phases == {"adding", "excluding", "undoing", "inspecting", "status", "refs",
           "scene", "merging", "advancing", "checking", "removing",
           "deleting", "pruning", "erasing", "writing"}

Others(q) ==
    /\ request' \in [Requests -> Request \union {Idle}]
    /\ \A p \in Requests : p # q => request'[p] = request[p]
Kept(q) ==
    /\ Others(q) /\ request'[q] # Idle
    /\ request'[q].does = request[q].does /\ request'[q].on = request[q].on
Closed(q) == Others(q) /\ request'[q] = Idle
Moved(q, at) ==
    /\ Kept(q) /\ request'[q].at = at /\ request'[q].tip = request[q].tip
    /\ request'[q].read = request[q].read /\ request'[q].as = request[q].as
    /\ request'[q].force = request[q].force /\ request'[q].soft = request[q].soft
    /\ request'[q].drop = request[q].drop
Decided(q, at, st) ==
    /\ Kept(q) /\ request'[q].at = at /\ request'[q].tip = request[q].tip
    /\ request'[q].read = "none" /\ request'[q].as = st
    /\ request'[q].soft = FALSE /\ request'[q].drop = FALSE
Opened(q, does, w, at) ==
    /\ Others(q) /\ request[q] = Idle /\ request'[q] # Idle
    /\ request'[q].does = does /\ request'[q].on = w /\ request'[q].at = at
    /\ request'[q].read =
          IF does = "merge" \/ (does = "discard" /\ row[w] # "discarded")
          THEN "none" ELSE row[w]
    /\ request'[q].as = "none" /\ request'[q].tip = {} /\ request'[q].soft = FALSE

\* What the types say of a request.
LEMMA RequestFacts ==
    ASSUME WtTypeOK
    PROVE  /\ Idle.does = "nothing"
           /\ \A q \in Requests : request[q] # Idle =>
                /\ request[q] \in Request
                /\ request[q].does \in Does /\ request[q].at \in Phases
                /\ request[q].does # "nothing"
                /\ request[q].on \in Worktrees
                /\ request[q].read \in RowStates /\ request[q].as \in RowStates
                /\ request[q].force \in BOOLEAN /\ request[q].soft \in BOOLEAN
                /\ request[q].drop \in BOOLEAN
                /\ request[q].tip \subseteq Commits
BY DEF WtTypeOK, Request, Idle, Does, Phases

\* Each way of updating the requests leaves one of these.
LEMMA OthersWhen ==
    ASSUME WtTypeOK, NEW q \in Requests, NEW r \in Request \union {Idle},
           request' = [request EXCEPT ![q] = r]
    PROVE  Others(q) /\ request'[q] = r
BY DEF WtTypeOK, Others

LEMMA ClosedWhen ==
    ASSUME WtTypeOK, NEW q \in Requests, returns(q)
    PROVE  Closed(q)
BY OthersWhen DEF returns, Closed

LEMMA MovedWhen ==
    ASSUME WtTypeOK, NEW q \in Requests, request[q] # Idle, NEW at \in Phases, goesOn(q, at)
    PROVE  Moved(q, at)
<1> DEFINE r == [request[q] EXCEPT !.at = at]
<1>1. request[q] \in Request
  BY DEF WtTypeOK
<1>2. /\ r \in Request /\ r.at = at
      /\ r.does = request[q].does /\ r.on = request[q].on /\ r.tip = request[q].tip
      /\ r.read = request[q].read /\ r.as = request[q].as
      /\ r.force = request[q].force /\ r.soft = request[q].soft /\ r.drop = request[q].drop
  BY <1>1 DEF Request, Phases
<1>3. r # Idle
  BY <1>2 DEF Request, Idle
<1>4. request' = [request EXCEPT ![q] = r]
  BY DEF WtTypeOK, goesOn
<1> HIDE DEF r
<1> QED BY <1>2, <1>3, <1>4, OthersWhen DEF Moved, Kept

LEMMA DecidedWhen ==
    ASSUME WtTypeOK, NEW q \in Requests, request[q] # Idle, NEW at \in Phases,
           NEW st \in RowStates, decides(q, at, st)
    PROVE  Decided(q, at, st)
<1> DEFINE r == [request[q] EXCEPT !.at = at, !.as = st, !.read = "none",
                                   !.force = FALSE, !.soft = FALSE, !.drop = FALSE]
<1>1. request[q] \in Request
  BY DEF WtTypeOK
<1>2. /\ r \in Request /\ r.at = at /\ r.as = st /\ r.read = "none"
      /\ r.does = request[q].does /\ r.on = request[q].on /\ r.tip = request[q].tip
      /\ r.soft = FALSE /\ r.drop = FALSE
  <2>1. "none" \in RowStates
    BY DEF RowStates
  <2> QED BY <1>1, <2>1 DEF Request, Phases
<1>3. r # Idle
  BY <1>2 DEF Request, Idle
<1>4. request' = [request EXCEPT ![q] = r]
  BY DEF WtTypeOK, decides
<1> HIDE DEF r
<1> QED BY <1>2, <1>3, <1>4, OthersWhen DEF Decided, Kept

LEMMA OpenedWhen ==
    ASSUME WtTypeOK, NEW q \in Requests, NEW w \in Worktrees, NEW does \in Does,
           NEW at \in Phases, request[q] = Idle,
           \/ opens(q, ask(does, w, at))
           \/ \E yes \in BOOLEAN : \/ opens(q, [ask(does, w, at) EXCEPT !.force = yes])
                                   \/ opens(q, [ask(does, w, at) EXCEPT !.drop = yes])
    PROVE  Opened(q, does, w, at)
<1>1. ask(does, w, at) \in Request
  BY DEF WtTypeOK, ask, Request, Does, Phases, RowStates
<1>2. PICK r : /\ r \in Request /\ request' = [request EXCEPT ![q] = r]
               /\ r.does = does /\ r.on = w /\ r.at = at /\ r.tip = {}
               /\ r.read = ask(does, w, at).read /\ r.as = "none" /\ r.soft = FALSE
  <2>1. CASE opens(q, ask(does, w, at))
    <3> WITNESS ask(does, w, at)
    <3> QED BY <1>1, <2>1 DEF opens, ask
  <2>2. ASSUME NEW yes \in BOOLEAN, opens(q, [ask(does, w, at) EXCEPT !.force = yes])
        PROVE  \E r : /\ r \in Request /\ request' = [request EXCEPT ![q] = r]
                      /\ r.does = does /\ r.on = w /\ r.at = at /\ r.tip = {}
                      /\ r.read = ask(does, w, at).read /\ r.as = "none" /\ r.soft = FALSE
    <3> WITNESS [ask(does, w, at) EXCEPT !.force = yes]
    <3> QED BY <1>1, <2>2 DEF opens, ask, Request
  <2>3. ASSUME NEW yes \in BOOLEAN, opens(q, [ask(does, w, at) EXCEPT !.drop = yes])
        PROVE  \E r : /\ r \in Request /\ request' = [request EXCEPT ![q] = r]
                      /\ r.does = does /\ r.on = w /\ r.at = at /\ r.tip = {}
                      /\ r.read = ask(does, w, at).read /\ r.as = "none" /\ r.soft = FALSE
    <3> WITNESS [ask(does, w, at) EXCEPT !.drop = yes]
    <3> QED BY <1>1, <2>3 DEF opens, ask, Request
  <2> QED BY <2>1, <2>2, <2>3
<1>3. r # Idle
  BY <1>2 DEF Request, Idle, Does
<1> QED BY <1>2, <1>3, OthersWhen DEF Opened, ask

\* The commits of a worktree can be counted, and the next one is a commit.
LEMMA OwnCommits ==
    ASSUME WtTypeOK, HistoryShape, NEW w \in Worktrees \union {Main}
    PROVE  /\ Cardinality(ofWorktree(w)) \in Nat
           /\ <<w, Cardinality(ofWorktree(w))>> \in Commits
           /\ <<w, Cardinality(ofWorktree(w)) + 1>> \in Commits
<1>1. IsFiniteSet(ofWorktree(w))
  BY FS_Subset DEF HistoryShape, ofWorktree
<1>2. Cardinality(ofWorktree(w)) \in Nat
  BY <1>1, FS_CardinalityType
<1> QED BY <1>2 DEF Commits

-----------------------------------------------------------------------------
(* Every step keeps the invariant.                                          *)

LEMMA WriteRowKeeps ==
    ASSUME WtInv, NEW q \in Requests, WriteRow(q)
    PROVE  WtInv'
<1> USE RequestFacts DEF WtInv, gitVars, appVars, NoBranch
<1>r. Closed(q)
  BY ClosedWhen DEF WriteRow
<1>1. WtTypeOK'
  BY <1>r DEF WriteRow, WtTypeOK, Others, Closed
<1>2. RowShape'
  BY <1>r DEF WriteRow, WtTypeOK, RowShape, RequestShape
<1>3. CreateShape'
  BY <1>r DEF WriteRow, WtTypeOK, CreateShape, unclean, contained, Others,
              Closed
<1>4. RequestShape'
  BY <1>r DEF WriteRow, WtTypeOK, RequestShape, Others, Closed
<1>5. MergeShape'
  BY <1>r DEF WriteRow, WtTypeOK, MergeShape, Others, Closed
<1>6. WorkIsSeen'
  BY <1>r DEF WriteRow, WtTypeOK, WorkIsSeen, unwatched, looksAway, requestsOn,
              unclean, Others, Closed, RequestShape
<1>7. TreeShape' /\ HistoryShape' /\ CommitsSurvive'
  BY DEF WriteRow, TreeShape, HistoryShape, CommitsSurvive, unclean
<1> QED BY <1>1, <1>2, <1>3, <1>4, <1>5, <1>6, <1>7

LEMMA GitFailsKeeps ==
    ASSUME WtInv, NEW q \in Requests, GitFails(q)
    PROVE  WtInv'
<1> USE RequestFacts DEF WtInv, gitVars, appVars, NoBranch
<1>r. Closed(q)
  BY ClosedWhen DEF GitFails
<1>1. WtTypeOK'
  BY <1>r DEF GitFails, WtTypeOK, Others, Closed
<1>2. CreateShape'
  BY <1>r DEF GitFails, WtTypeOK, CreateShape, unclean, contained, Others,
              Closed
<1>3. RequestShape'
  BY <1>r DEF GitFails, WtTypeOK, RequestShape, Others, Closed
<1>4. MergeShape'
  BY <1>r DEF GitFails, WtTypeOK, MergeShape, Others, Closed
<1>5. WorkIsSeen'
  BY <1>r DEF GitFails, WtTypeOK, WorkIsSeen, unwatched, looksAway, requestsOn,
              unclean, Others, Closed
<1>6. TreeShape' /\ RowShape' /\ HistoryShape' /\ CommitsSurvive'
  BY DEF GitFails, TreeShape, RowShape, HistoryShape, CommitsSurvive, unclean
<1> QED BY <1>1, <1>2, <1>3, <1>4, <1>5, <1>6

LEMMA CreateKeeps ==
    ASSUME WtInv, NEW q \in Requests, NEW w \in Worktrees, Create(q, w)
    PROVE  WtInv'
<1> USE RequestFacts DEF WtInv, gitVars, appVars, NoBranch
<1>r. Opened(q, "create", w, "adding")
  BY OpenedWhen DEF Create, Does, Phases, opens
<1>1. WtTypeOK'
  BY <1>r DEF Create, fresh, WtTypeOK, Others, Opened, RowStates
<1>2. RowShape'
  BY <1>r DEF Create, fresh, WtTypeOK, RowShape
<1>3. CreateShape'
  BY <1>r DEF Create, fresh, WtTypeOK, CreateShape, unclean, contained, Others,
              Opened, requestsOn, RowShape, TreeShape
<1>4. RequestShape'
  BY <1>r DEF Create, fresh, WtTypeOK, RequestShape, Others, Opened
<1>5. MergeShape'
  BY <1>r DEF Create, fresh, WtTypeOK, MergeShape, Others, Opened
<1>6. WorkIsSeen'
  BY <1>r DEF Create, fresh, WtTypeOK, WorkIsSeen, unwatched, looksAway,
              requestsOn, unclean, Others, Opened
<1>7. TreeShape' /\ HistoryShape' /\ CommitsSurvive'
  BY DEF Create, TreeShape, HistoryShape, CommitsSurvive, unclean
<1> QED BY <1>1, <1>2, <1>3, <1>4, <1>5, <1>6, <1>7

LEMMA WorktreeAddedKeeps ==
    ASSUME WtInv, NEW q \in Requests, WorktreeAdded(q)
    PROVE  WtInv'
<1> USE RequestFacts DEF WtInv, gitVars, appVars, NoBranch
<1>r. Moved(q, "excluding")
  BY MovedWhen DEF WorktreeAdded, waits, Phases
<1>1. WtTypeOK'
  BY <1>r DEF WorktreeAdded, waits, WtTypeOK, Others, Kept, Moved
<1>2. TreeShape'
  BY <1>r DEF WorktreeAdded, waits, WtTypeOK, TreeShape, unclean, HistoryShape
<1>3. CreateShape'
  BY <1>r DEF WorktreeAdded, waits, WtTypeOK, CreateShape, unclean, contained,
              Others, Kept, Moved, HistoryShape
<1>4. RequestShape'
  BY <1>r DEF WorktreeAdded, waits, WtTypeOK, RequestShape, Others, Kept, Moved
<1>5. MergeShape'
  BY <1>r DEF WorktreeAdded, waits, WtTypeOK, MergeShape, Others, Kept, Moved,
              CreateShape
<1>6. WorkIsSeen'
  BY <1>r DEF WorktreeAdded, waits, WtTypeOK, WorkIsSeen, unwatched, looksAway,
              requestsOn, unclean, Others, Kept, Moved
<1>7. CommitsSurvive'
  BY <1>r DEF WorktreeAdded, waits, WtTypeOK, CommitsSurvive, CreateShape,
              contained
<1>8. RowShape' /\ HistoryShape'
  BY DEF WorktreeAdded, RowShape, HistoryShape
<1> QED BY <1>1, <1>2, <1>3, <1>4, <1>5, <1>6, <1>7, <1>8

LEMMA ExcludedKeeps ==
    ASSUME WtInv, NEW q \in Requests, Excluded(q)
    PROVE  WtInv'
<1> USE RequestFacts DEF WtInv, gitVars, appVars, NoBranch
<1>r. Decided(q, "writing", "ready")
  BY DecidedWhen DEF Excluded, waits, writes, Phases, RowStates
<1>1. WtTypeOK'
  BY <1>r DEF Excluded, waits, WtTypeOK, Others, Kept, Decided
<1>2. CreateShape'
  BY <1>r DEF Excluded, waits, WtTypeOK, CreateShape, unclean, contained,
              Others, Kept, Decided
<1>3. RequestShape'
  BY <1>r DEF Excluded, waits, WtTypeOK, RequestShape, Others, Kept, Decided
<1>4. MergeShape'
  BY <1>r DEF Excluded, waits, WtTypeOK, MergeShape, Others, Kept, Decided
<1>5. WorkIsSeen'
  BY <1>r DEF Excluded, waits, WtTypeOK, WorkIsSeen, unwatched, looksAway,
              requestsOn, unclean, Others, Kept, Decided
<1>6. TreeShape' /\ RowShape' /\ HistoryShape' /\ CommitsSurvive'
  BY DEF Excluded, TreeShape, RowShape, HistoryShape, CommitsSurvive, unclean
<1> QED BY <1>1, <1>2, <1>3, <1>4, <1>5, <1>6

LEMMA CreateFailsKeeps ==
    ASSUME WtInv, NEW q \in Requests, CreateFails(q)
    PROVE  WtInv'
<1> USE RequestFacts DEF WtInv, gitVars, appVars, NoBranch
<1>r. Kept(q) /\ request'[q].at = "undoing"
      /\ (request'[q].drop => request[q].at = "excluding")
      /\ request'[q].read = request[q].read /\ request'[q].as = request[q].as
      /\ request'[q].soft = request[q].soft /\ request'[q].force = request[q].force /\ request'[q].tip = request[q].tip
  <2> DEFINE r == [request[q] EXCEPT !.at = "undoing", !.drop = request[q].at = "excluding"]
  <2>1. request[q] # Idle /\ request[q] \in Request
    BY RequestFacts DEF CreateFails, waits
  <2>2. r \in Request
    BY <2>1 DEF Request
  <2>3. r # Idle
    BY <2>2 DEF Request, Idle
  <2>4. request' = [request EXCEPT ![q] = r]
    BY DEF CreateFails
  <2>5. Others(q) /\ request'[q] = r
    BY <2>2, <2>4, OthersWhen
  <2> QED BY <2>1, <2>3, <2>5 DEF Kept, Request
<1>1. WtTypeOK'
  BY <1>r DEF CreateFails, WtTypeOK, Others, Kept
<1>2. CreateShape'
  BY <1>r DEF CreateFails, WtTypeOK, CreateShape, unclean, contained, Others,
              Kept
<1>3. RequestShape'
  BY <1>r DEF CreateFails, WtTypeOK, RequestShape, Others, Kept
<1>4. MergeShape'
  BY <1>r DEF CreateFails, WtTypeOK, MergeShape, Others, Kept
<1>5. WorkIsSeen'
  BY <1>r DEF CreateFails, WtTypeOK, WorkIsSeen, unwatched, looksAway,
              requestsOn, unclean, Others, Kept
<1>6. TreeShape' /\ RowShape' /\ HistoryShape' /\ CommitsSurvive'
  BY DEF CreateFails, TreeShape, RowShape, HistoryShape, CommitsSurvive,
         unclean
<1> QED BY <1>1, <1>2, <1>3, <1>4, <1>5, <1>6

LEMMA CreateUndoneKeeps ==
    ASSUME WtInv, NEW q \in Requests, CreateUndone(q)
    PROVE  WtInv'
<1> USE RequestFacts DEF WtInv, gitVars, appVars, NoBranch
<1>r. Closed(q)
  BY ClosedWhen DEF CreateUndone
<1>1. WtTypeOK'
  BY <1>r DEF CreateUndone, waits, WtTypeOK, Others, Closed, RowStates
<1>2. TreeShape'
  BY <1>r DEF CreateUndone, waits, WtTypeOK, TreeShape, unclean, CreateShape
<1>3. RowShape'
  BY <1>r DEF CreateUndone, waits, WtTypeOK, RowShape
<1>4. CreateShape'
  BY <1>r DEF CreateUndone, waits, WtTypeOK, CreateShape, unclean, contained,
              Others, Closed
<1>5. RequestShape'
  BY <1>r DEF CreateUndone, waits, WtTypeOK, RequestShape, Others, Closed
<1>6. MergeShape'
  BY <1>r DEF CreateUndone, waits, WtTypeOK, MergeShape, Others, Closed
<1>7. WorkIsSeen'
  BY <1>r DEF CreateUndone, waits, WtTypeOK, WorkIsSeen, unwatched, looksAway,
              requestsOn, unclean, Others, Closed
<1>8. CommitsSurvive'
  BY <1>r DEF CreateUndone, waits, WtTypeOK, CommitsSurvive, CreateShape,
              contained
<1>9. HistoryShape'
  BY DEF CreateUndone, HistoryShape
<1> QED BY <1>1, <1>2, <1>3, <1>4, <1>5, <1>6, <1>7, <1>8, <1>9

LEMMA ValidateKeeps ==
    ASSUME WtInv, NEW q \in Requests, NEW w \in Worktrees, Validate(q, w)
    PROVE  WtInv'
<1> USE RequestFacts DEF WtInv, gitVars, appVars, NoBranch
<1>r. request' = request \/ Opened(q, "validate", w, "inspecting")
  BY OpenedWhen DEF Validate, Does, Phases, opens
<1>1. WtTypeOK'
  BY <1>r DEF Validate, listed, Validatable, WtTypeOK, Others, Opened,
              RowStates
<1>2. RowShape'
  BY <1>r DEF Validate, listed, Validatable, WtTypeOK, RowShape
<1>3. CreateShape'
  BY <1>r DEF Validate, listed, Validatable, WtTypeOK, CreateShape, unclean,
              contained, Others, Opened, requestsOn
<1>4. RequestShape'
  BY <1>r DEF Validate, listed, Validatable, WtTypeOK, RequestShape, Others,
              Opened
<1>5. MergeShape'
  BY <1>r DEF Validate, listed, Validatable, WtTypeOK, MergeShape, Others,
              Opened
<1>6. WorkIsSeen'
  BY <1>r DEF Validate, listed, Validatable, WtTypeOK, WorkIsSeen, unwatched,
              looksAway, requestsOn, unclean, Others, Opened
<1>7. TreeShape' /\ HistoryShape' /\ CommitsSurvive'
  BY DEF Validate, TreeShape, HistoryShape, CommitsSurvive, unclean
<1> QED BY <1>1, <1>2, <1>3, <1>4, <1>5, <1>6, <1>7

LEMMA InspectedKeeps ==
    ASSUME WtInv, NEW q \in Requests, Inspected(q)
    PROVE  WtInv'
<1> USE RequestFacts DEF WtInv, gitVars, appVars, NoBranch
<1>r. Moved(q, "status") \/ Decided(q, "writing", "orphaned") \/ Closed(q)
  BY MovedWhen, DecidedWhen, ClosedWhen
  DEF Inspected, settles, waits, writes, Phases, RowStates
<1>1. WtTypeOK'
  BY <1>r DEF Inspected, waits, WtTypeOK, Others, Kept, Closed, Moved, Decided
<1>2. CreateShape'
  BY <1>r DEF Inspected, waits, WtTypeOK, CreateShape, unclean, contained,
              Others, Kept, Closed, Moved, Decided
<1>3. RequestShape'
  BY <1>r DEF Inspected, waits, WtTypeOK, RequestShape, Others, Kept, Closed,
              Moved, Decided
<1>4. MergeShape'
  BY <1>r DEF Inspected, waits, WtTypeOK, MergeShape, Others, Kept, Closed,
              Moved, Decided
<1>5. WorkIsSeen'
  BY <1>r DEF Inspected, waits, WtTypeOK, WorkIsSeen, unwatched, looksAway,
              requestsOn, unclean, Others, Kept, Closed, Moved, Decided
<1>6. TreeShape' /\ RowShape' /\ HistoryShape' /\ CommitsSurvive'
  BY DEF Inspected, TreeShape, RowShape, HistoryShape, CommitsSurvive, unclean
<1> QED BY <1>1, <1>2, <1>3, <1>4, <1>5, <1>6

LEMMA StatusReadKeeps ==
    ASSUME WtInv, NEW q \in Requests, StatusRead(q)
    PROVE  WtInv'
<1> USE RequestFacts DEF WtInv, gitVars, appVars, NoBranch
<1>r. Decided(q, "writing", "dirty") \/ Decided(q, "writing", "ready") \/ Closed(q)
  BY DecidedWhen, ClosedWhen
  DEF StatusRead, settles, waits, writes, Phases, RowStates
<1>1. WtTypeOK'
  BY <1>r DEF StatusRead, waits, WtTypeOK, Others, Kept, Closed, Decided
<1>2. CreateShape'
  BY <1>r DEF StatusRead, waits, WtTypeOK, CreateShape, unclean, contained,
              Others, Kept, Closed, Decided
<1>3. RequestShape'
  BY <1>r DEF StatusRead, waits, WtTypeOK, RequestShape, Others, Kept, Closed,
              Decided
<1>4. MergeShape'
  BY <1>r DEF StatusRead, waits, WtTypeOK, MergeShape, Others, Kept, Closed,
              Decided
<1>5. WorkIsSeen'
  BY <1>r DEF StatusRead, waits, WtTypeOK, WorkIsSeen, unwatched, looksAway,
              requestsOn, unclean, Others, Kept, Closed, Decided
<1>6. TreeShape' /\ RowShape' /\ HistoryShape' /\ CommitsSurvive'
  BY DEF StatusRead, TreeShape, RowShape, HistoryShape, CommitsSurvive, unclean
<1> QED BY <1>1, <1>2, <1>3, <1>4, <1>5, <1>6

LEMMA MergeKeeps ==
    ASSUME WtInv, NEW q \in Requests, NEW w \in Worktrees, NEW yes \in BOOLEAN, Merge(q, w, yes)
    PROVE  WtInv'
<1> USE RequestFacts DEF WtInv, gitVars, appVars, NoBranch
<1>r. Opened(q, "merge", w, "status")
  BY OpenedWhen DEF Merge, Does, Phases, opens
<1>1. WtTypeOK'
  BY <1>r DEF Merge, listed, WtTypeOK, Others, Opened
<1>2. CreateShape'
  BY <1>r DEF Merge, listed, WtTypeOK, CreateShape, unclean, contained, Others,
              Opened, requestsOn
<1>3. RequestShape'
  BY <1>r DEF Merge, listed, WtTypeOK, RequestShape, Others, Opened
<1>4. MergeShape'
  BY <1>r DEF Merge, listed, WtTypeOK, MergeShape, Others, Opened
<1>5. WorkIsSeen'
  BY <1>r DEF Merge, listed, WtTypeOK, WorkIsSeen, unwatched, looksAway,
              requestsOn, unclean, Others, Opened
<1>6. TreeShape' /\ RowShape' /\ HistoryShape' /\ CommitsSurvive'
  BY DEF Merge, TreeShape, RowShape, HistoryShape, CommitsSurvive, unclean
<1> QED BY <1>1, <1>2, <1>3, <1>4, <1>5, <1>6

LEMMA CheckCleanKeeps ==
    ASSUME WtInv, NEW q \in Requests, CheckClean(q)
    PROVE  WtInv'
<1> USE RequestFacts DEF WtInv, gitVars, appVars, NoBranch
<1>r. Closed(q)
      \/ /\ Kept(q) /\ request'[q].at = "refs" 
         /\ (unclean(request[q].on) => request'[q].soft)
         /\ request'[q].read = request[q].read /\ request'[q].as = request[q].as
         /\ request'[q].force = request[q].force /\ request'[q].tip = request[q].tip
  <2> DEFINE r(soft) == [request[q] EXCEPT !.at = "refs", !.soft = soft]
  <2>1. request[q] # Idle /\ request[q] \in Request
    BY RequestFacts DEF CheckClean, waits
  <2>2. CASE returns(q)
    BY <2>2, ClosedWhen
  <2>3. ASSUME NEW other \in BOOLEAN,
               request' = [request EXCEPT ![q] = r(other \/ ~checksClean(request[q].on))]
        PROVE  /\ Kept(q) /\ request'[q].at = "refs" 
               /\ (unclean(request[q].on) => request'[q].soft)
               /\ request'[q].read = request[q].read /\ request'[q].as = request[q].as
               /\ request'[q].force = request[q].force /\ request'[q].tip = request[q].tip
    <3> DEFINE s == other \/ ~checksClean(request[q].on)
    <3>1. r(s) \in Request /\ (unclean(request[q].on) => r(s).soft)
      BY <2>1 DEF Request, checksClean, unclean
    <3>2. r(s) # Idle
      BY <3>1 DEF Request, Idle
    <3>3. Others(q) /\ request'[q] = r(s)
      BY <2>3, <3>1, OthersWhen
    <3> QED BY <2>1, <3>1, <3>2, <3>3 DEF Kept, Request
  <2> QED BY <2>2, <2>3 DEF CheckClean
<1>1. WtTypeOK'
  BY <1>r DEF CheckClean, waits, WtTypeOK, Others, Kept, Closed
<1>2. CreateShape'
  BY <1>r DEF CheckClean, waits, WtTypeOK, CreateShape, unclean, contained,
              Others, Kept, Closed
<1>3. RequestShape'
  BY <1>r DEF CheckClean, waits, WtTypeOK, RequestShape, Others, Kept, Closed
<1>4. MergeShape'
  BY <1>r DEF CheckClean, waits, WtTypeOK, MergeShape, Others, Kept, Closed
<1>5. WorkIsSeen'
  <2> SUFFICES ASSUME NEW v \in Worktrees, unwatched(v, requestsOn(v))', unclean(v)'
               PROVE  v \in late'
    BY DEF WorkIsSeen
  <2>1. unclean(v) /\ row' = row
    BY DEF CheckClean, unclean
  <2>2. late \subseteq late'
    BY DEF CheckClean
  <2>3. CASE row'[v] = "merged"
    BY <2>1, <2>2, <2>3 DEF WorkIsSeen, unwatched
  <2>4. ASSUME NEW p \in Requests, request'[p] # Idle, request'[p].on = v, looksAway(p)'
        PROVE  v \in late'
    <3>1. CASE p # q \/ request[p].read = "merged"
      <4>1. request[p] # Idle /\ request[p].on = v /\ looksAway(p)
        BY <1>r, <2>4, <3>1 DEF looksAway, Closed, Kept, Others, CheckClean, waits
      <4> QED BY <2>1, <2>2, <4>1 DEF WorkIsSeen, unwatched, requestsOn
    <3>2. CASE p = q /\ request[p].read # "merged"
      <4>1. request[q].force /\ request[q].on = v
        BY <1>r, <2>1, <2>4, <3>2 DEF looksAway, Closed, Kept
      <4>2. request'[q] # Idle /\ Closed(q) => FALSE
        BY DEF Closed
      <4>3. tree[v] = "checkedOut" \/ Closed(q)
        BY ClosedWhen, <4>1 DEF CheckClean
      <4> QED BY <2>1, <2>4, <3>2, <4>1, <4>2, <4>3 DEF CheckClean, WtTypeOK
    <3> QED BY <3>1, <3>2
  <2> QED BY <2>3, <2>4 DEF unwatched, requestsOn
<1>6. TreeShape' /\ RowShape' /\ HistoryShape' /\ CommitsSurvive'
  BY DEF CheckClean, TreeShape, RowShape, HistoryShape, CommitsSurvive, unclean
<1> QED BY <1>1, <1>2, <1>3, <1>4, <1>5, <1>6

LEMMA CheckRefsKeeps ==
    ASSUME WtInv, NEW q \in Requests, CheckRefs(q)
    PROVE  WtInv'
<1> USE RequestFacts DEF WtInv, gitVars, appVars, NoBranch
<1>r. Closed(q)
      \/ /\ Kept(q) /\ request'[q].at = "scene" 
         /\ (request[q].soft => request'[q].soft)
         /\ request'[q].read = request[q].read /\ request'[q].as = request[q].as
         /\ request'[q].force = request[q].force /\ request'[q].tip = request[q].tip
  <2> DEFINE r(soft) == [request[q] EXCEPT !.at = "scene", !.soft = soft]
  <2>1. request[q] # Idle /\ request[q] \in Request
    BY RequestFacts DEF CheckRefs, waits
  <2>2. CASE returns(q)
    BY <2>2, ClosedWhen
  <2>3. ASSUME NEW soft \in BOOLEAN, request[q].soft => soft,
               request' = [request EXCEPT ![q] = r(soft)]
        PROVE  /\ Kept(q) /\ request'[q].at = "scene" /\ (request[q].soft => request'[q].soft)
               /\ request'[q].read = request[q].read /\ request'[q].as = request[q].as
               /\ request'[q].force = request[q].force /\ request'[q].tip = request[q].tip
    <3>1. r(soft) \in Request /\ (request[q].soft => r(soft).soft)
      BY <2>1, <2>3 DEF Request
    <3>2. r(soft) # Idle
      BY <3>1 DEF Request, Idle
    <3>3. Others(q) /\ request'[q] = r(soft)
      BY <2>3, <3>1 DEF WtTypeOK, Others
    <3> QED BY <2>1, <3>1, <3>2, <3>3 DEF Kept, Request
  <2>4. CASE ~returns(q)
    <3> DEFINE s == request[q].soft \/ ~(base \subseteq branch[request[q].on])
    <3>1. request' = [request EXCEPT ![q] = r(s)]
      BY <2>4 DEF CheckRefs
    <3> QED BY <2>1, <2>3, <3>1 DEF Request
  <2> QED BY <2>2, <2>4
<1>1. WtTypeOK'
  BY <1>r DEF CheckRefs, waits, WtTypeOK, Others, Kept, Closed
<1>2. CreateShape'
  BY <1>r DEF CheckRefs, waits, WtTypeOK, CreateShape, unclean, contained,
              Others, Kept, Closed
<1>3. RequestShape'
  BY <1>r DEF CheckRefs, waits, WtTypeOK, RequestShape, Others, Kept, Closed
<1>4. MergeShape'
  BY <1>r DEF CheckRefs, waits, WtTypeOK, MergeShape, Others, Kept, Closed
<1>5. WorkIsSeen'
  BY <1>r DEF CheckRefs, waits, WtTypeOK, WorkIsSeen, unwatched, looksAway,
              requestsOn, unclean, Others, Kept, Closed, RequestShape
<1>6. TreeShape' /\ RowShape' /\ HistoryShape' /\ CommitsSurvive'
  BY DEF CheckRefs, TreeShape, RowShape, HistoryShape, CommitsSurvive, unclean
<1> QED BY <1>1, <1>2, <1>3, <1>4, <1>5, <1>6

LEMMA CheckSceneKeeps ==
    ASSUME WtInv, NEW q \in Requests, CheckScene(q)
    PROVE  WtInv'
<1> USE RequestFacts DEF WtInv, gitVars, appVars, NoBranch
<1>r. \/ Closed(q)
      \/ Decided(q, "merging", "none") /\ (request[q].soft => request[q].force)
  BY DecidedWhen, ClosedWhen DEF CheckScene, waits, Phases, RowStates
<1>1. WtTypeOK'
  BY <1>r DEF CheckScene, waits, WtTypeOK, Others, Kept, Closed, Decided
<1>2. RowShape'
  BY <1>r DEF CheckScene, waits, WtTypeOK, RowShape
<1>3. CreateShape'
  BY <1>r DEF CheckScene, waits, WtTypeOK, CreateShape, unclean, contained,
              Others, Kept, Closed, Decided
<1>4. RequestShape'
  BY <1>r DEF CheckScene, waits, WtTypeOK, RequestShape, Others, Kept, Closed,
              Decided
<1>5. MergeShape'
  BY <1>r DEF CheckScene, waits, WtTypeOK, MergeShape, Others, Kept, Closed,
              Decided
<1>6. WorkIsSeen'
  BY <1>r DEF CheckScene, waits, WtTypeOK, WorkIsSeen, unwatched, looksAway,
              requestsOn, unclean, Others, Kept, Closed, Decided, RequestShape
<1>7. TreeShape' /\ HistoryShape' /\ CommitsSurvive'
  BY DEF CheckScene, TreeShape, HistoryShape, CommitsSurvive, unclean
<1> QED BY <1>1, <1>2, <1>3, <1>4, <1>5, <1>6, <1>7

LEMMA AnswerBlockedKeeps ==
    ASSUME WtInv, NEW q \in Requests, NEW w \in Worktrees, NEW yes \in BOOLEAN, AnswerBlocked(q, w, yes)
    PROVE  WtInv'
<1> USE RequestFacts DEF WtInv, gitVars, appVars, NoBranch
<1>r. request' = request \/ Opened(q, "merge", w, "status")
  BY OpenedWhen DEF AnswerBlocked, Does, Phases, opens
<1>1. WtTypeOK'
  BY <1>r DEF AnswerBlocked, WtTypeOK, Others, Opened
<1>2. RowShape'
  BY <1>r DEF AnswerBlocked, WtTypeOK, RowShape
<1>3. CreateShape'
  BY <1>r DEF AnswerBlocked, WtTypeOK, CreateShape, unclean, contained, Others,
              Opened
<1>4. RequestShape'
  BY <1>r DEF AnswerBlocked, WtTypeOK, RequestShape, Others, Opened
<1>5. MergeShape'
  BY <1>r DEF AnswerBlocked, WtTypeOK, MergeShape, Others, Opened
<1>6. WorkIsSeen'
  BY <1>r DEF AnswerBlocked, WtTypeOK, WorkIsSeen, unwatched, looksAway,
              requestsOn, unclean, Others, Opened
<1>7. TreeShape' /\ HistoryShape' /\ CommitsSurvive'
  BY DEF AnswerBlocked, TreeShape, HistoryShape, CommitsSurvive, unclean
<1> QED BY <1>1, <1>2, <1>3, <1>4, <1>5, <1>6, <1>7

LEMMA BaseMergedKeeps ==
    ASSUME WtInv, NEW q \in Requests, BaseMerged(q)
    PROVE  WtInv'
<1> USE RequestFacts DEF WtInv, gitVars, appVars, NoBranch
<1>r. Kept(q) /\ request'[q].at = "advancing"
      /\ request'[q].tip = branch[request[q].on] \union base
      /\ request'[q].read = request[q].read /\ request'[q].as = request[q].as
      /\ request'[q].soft = request[q].soft /\ request'[q].force = request[q].force
  <2> DEFINE r == [request[q] EXCEPT !.at = "advancing", !.tip = branch[request[q].on] \union base]
  <2>1. request[q] # Idle /\ request[q] \in Request
    BY RequestFacts DEF BaseMerged, waits
  <2>t. branch[request[q].on] \union base \subseteq Commits
    BY <2>1 DEF WtTypeOK
  <2>2. r \in Request
    BY <2>1, <2>t DEF Request
  <2>3. r # Idle
    BY <2>2 DEF Request, Idle
  <2>4. request' = [request EXCEPT ![q] = r]
    BY DEF BaseMerged
  <2>5. Others(q) /\ request'[q] = r
    BY <2>2, <2>4, OthersWhen
  <2> QED BY <2>1, <2>3, <2>5 DEF Kept, Request
<1>1. WtTypeOK'
  BY <1>r DEF BaseMerged, waits, WtTypeOK, Others, Kept
<1>2. TreeShape'
  BY <1>r DEF BaseMerged, waits, WtTypeOK, TreeShape, unclean
<1>3. CreateShape'
  BY <1>r DEF BaseMerged, waits, WtTypeOK, CreateShape, unclean, contained,
              Others, Kept
<1>4. RequestShape'
  BY <1>r DEF BaseMerged, waits, WtTypeOK, RequestShape, Others, Kept
<1>5. MergeShape'
  <2> SUFFICES ASSUME NEW p \in Requests, request'[p].does = "merge"
               PROVE  LET w == request'[p].on IN
                      /\ request'[p].at = "advancing" =>
                           /\ request'[p].tip # {}
                           /\ branch'[w] = NoBranch \/ request'[p].tip \subseteq branch'[w]
                      /\ request'[p].as = "merged" =>
                           request'[p].tip # {} /\ request'[p].tip \subseteq base'
    BY DEF MergeShape
  <2>1. CASE p = q
    <3>1. request[q].at = "merging" /\ request[q] # Idle
      BY DEF BaseMerged, waits
    <3>2. request'[q].as # "merged"
      BY <1>r, <3>1 DEF RequestShape
    <3> QED BY <1>r, <2>1, <3>1, <3>2 DEF BaseMerged, HistoryShape, Kept, WtTypeOK
  <2>2. CASE p # q
    <3>1. request'[p] = request[p] /\ request[p] # Idle
      BY <1>r, <2>2 DEF Kept, Others
    <3>2. request[p].on \in Worktrees /\ branch[request[p].on] \subseteq branch'[request[p].on]
      BY <3>1 DEF BaseMerged, WtTypeOK
    <3>3. branch[request[p].on] = NoBranch => branch'[request[p].on] = NoBranch
      BY <3>2 DEF BaseMerged, WtTypeOK, TreeShape
    <3> QED BY <2>2, <3>1, <3>2, <3>3 DEF MergeShape, BaseMerged
  <2> QED BY <2>1, <2>2
<1>6. WorkIsSeen'
  BY <1>r DEF BaseMerged, waits, WtTypeOK, WorkIsSeen, unwatched, looksAway,
              requestsOn, unclean, Others, Kept
<1>7. CommitsSurvive'
  BY <1>r DEF BaseMerged, waits, WtTypeOK, CommitsSurvive
<1>8. RowShape' /\ HistoryShape'
  BY DEF BaseMerged, RowShape, HistoryShape
<1> QED BY <1>1, <1>2, <1>3, <1>4, <1>5, <1>6, <1>7, <1>8

LEMMA BaseConflictsKeeps ==
    ASSUME WtInv, NEW q \in Requests, BaseConflicts(q)
    PROVE  WtInv'
<1> USE RequestFacts DEF WtInv, gitVars, appVars, NoBranch
<1>r. Decided(q, "writing", "conflict") \/ Closed(q)
  BY DecidedWhen, ClosedWhen DEF BaseConflicts, waits, writes, Phases, RowStates
<1>1. WtTypeOK'
  BY <1>r DEF BaseConflicts, waits, WtTypeOK, Others, Kept, Closed, Decided
<1>2. TreeShape'
  BY <1>r DEF BaseConflicts, waits, WtTypeOK, TreeShape, unclean
<1>3. CreateShape'
  BY <1>r DEF BaseConflicts, waits, WtTypeOK, CreateShape, unclean, contained,
              Others, Kept, Closed, Decided
<1>4. RequestShape'
  BY <1>r DEF BaseConflicts, waits, WtTypeOK, RequestShape, Others, Kept,
              Closed, Decided
<1>5. MergeShape'
  BY <1>r DEF BaseConflicts, waits, WtTypeOK, MergeShape, Others, Kept, Closed,
              Decided
<1>6. WorkIsSeen'
  BY <1>r DEF BaseConflicts, waits, WtTypeOK, WorkIsSeen, unwatched, looksAway,
              requestsOn, unclean, Others, Kept, Closed, Decided
<1>7. RowShape' /\ HistoryShape' /\ CommitsSurvive'
  BY DEF BaseConflicts, RowShape, HistoryShape, CommitsSurvive
<1> QED BY <1>1, <1>2, <1>3, <1>4, <1>5, <1>6, <1>7

LEMMA BaseAdvancedKeeps ==
    ASSUME WtInv, NEW q \in Requests, BaseAdvanced(q)
    PROVE  WtInv'
<1> USE RequestFacts DEF WtInv, gitVars, appVars, NoBranch
<1>r. \/ Decided(q, "writing", "merged") /\ (advances(request[q].on) \/ contained(request[q].on))
      \/ Closed(q)
  BY DecidedWhen, ClosedWhen DEF BaseAdvanced, waits, advanced, writes, Phases, RowStates
<1>1. WtTypeOK'
  BY <1>r DEF BaseAdvanced, waits, advances, contained, advanced, WtTypeOK,
              Others, Kept, Closed, Decided
<1>2. CreateShape'
  BY <1>r DEF BaseAdvanced, waits, advances, contained, advanced, WtTypeOK,
              CreateShape, unclean, Others, Kept, Closed, Decided
<1>3. RequestShape'
  BY <1>r DEF BaseAdvanced, waits, advances, contained, advanced, WtTypeOK,
              RequestShape, Others, Kept, Closed, Decided
<1>4. MergeShape'
  BY <1>r DEF BaseAdvanced, waits, advances, contained, advanced, WtTypeOK,
              MergeShape, Others, Kept, Closed, Decided, contained
<1>5. WorkIsSeen'
  BY <1>r DEF BaseAdvanced, waits, advances, contained, advanced, WtTypeOK,
              WorkIsSeen, unwatched, looksAway, requestsOn, unclean, Others,
              Kept, Closed, Decided, RequestShape
<1>6. HistoryShape'
  BY <1>r DEF BaseAdvanced, waits, advances, contained, advanced, WtTypeOK,
              HistoryShape
<1>7. CommitsSurvive'
  BY <1>r DEF BaseAdvanced, waits, advances, contained, advanced, WtTypeOK,
              CommitsSurvive
<1>8. TreeShape' /\ RowShape'
  BY DEF BaseAdvanced, TreeShape, RowShape, unclean
<1> QED BY <1>1, <1>2, <1>3, <1>4, <1>5, <1>6, <1>7, <1>8

LEMMA DiscardKeeps ==
    ASSUME WtInv, NEW q \in Requests, NEW w \in Worktrees, NEW yes \in BOOLEAN, Discard(q, w, yes)
    PROVE  WtInv'
<1> USE RequestFacts DEF WtInv, gitVars, appVars, NoBranch
<1>r. Opened(q, "discard", w, "checking") \/ Opened(q, "discard", w, "removing")
  BY OpenedWhen DEF Discard, Does, Phases, opens
<1>1. WtTypeOK'
  BY <1>r DEF Discard, listed, WtTypeOK, Others, Opened
<1>2. CreateShape'
  BY <1>r DEF Discard, listed, WtTypeOK, CreateShape, unclean, contained,
              Others, Opened, requestsOn
<1>3. RequestShape'
  BY <1>r DEF Discard, listed, WtTypeOK, RequestShape, Others, Opened
<1>4. MergeShape'
  BY <1>r DEF Discard, listed, WtTypeOK, MergeShape, Others, Opened
<1>5. WorkIsSeen'
  BY <1>r DEF Discard, listed, WtTypeOK, WorkIsSeen, unwatched, looksAway,
              requestsOn, unclean, Others, Opened
<1>6. TreeShape' /\ RowShape' /\ HistoryShape' /\ CommitsSurvive'
  BY DEF Discard, TreeShape, RowShape, HistoryShape, CommitsSurvive, unclean
<1> QED BY <1>1, <1>2, <1>3, <1>4, <1>5, <1>6

LEMMA CollectKeeps ==
    ASSUME WtInv, NEW q \in Requests, NEW w \in Worktrees, Collect(q, w)
    PROVE  WtInv'
<1> USE RequestFacts DEF WtInv, gitVars, appVars, NoBranch
<1>r. \/ row[w] = "merged" /\ Opened(q, "collect", w, "checking")
      \/ row[w] = "discarded" /\ Opened(q, "collect", w, "removing")
  BY OpenedWhen DEF Collect, Does, Phases, opens
<1>1. WtTypeOK'
  BY <1>r DEF Collect, WtTypeOK, Others, Opened
<1>2. CreateShape'
  BY <1>r DEF Collect, WtTypeOK, CreateShape, unclean, contained, Others,
              Opened
<1>3. RequestShape'
  BY <1>r DEF Collect, WtTypeOK, RequestShape, Others, Opened
<1>4. MergeShape'
  BY <1>r DEF Collect, WtTypeOK, MergeShape, Others, Opened
<1>5. WorkIsSeen'
  BY <1>r DEF Collect, WtTypeOK, WorkIsSeen, unwatched, looksAway, requestsOn,
              unclean, Others, Opened
<1>6. TreeShape' /\ RowShape' /\ HistoryShape' /\ CommitsSurvive'
  BY DEF Collect, TreeShape, RowShape, HistoryShape, CommitsSurvive, unclean
<1> QED BY <1>1, <1>2, <1>3, <1>4, <1>5, <1>6

LEMMA CleanupKeeps ==
    ASSUME WtInv, NEW q \in Requests, NEW w \in Worktrees, Cleanup(q, w)
    PROVE  WtInv'
<1> USE RequestFacts DEF WtInv, gitVars, appVars, NoBranch
<1>r. \/ row[w] \in {"missing", "orphaned"} /\ Opened(q, "cleanup", w, "pruning")
      \/ row[w] \in {"merged", "discarded"} /\ Opened(q, "cleanup", w, "removing")
  BY OpenedWhen DEF Cleanup, Does, Phases, opens
<1>1. WtTypeOK'
  BY <1>r DEF Cleanup, WtTypeOK, Others, Opened
<1>2. CreateShape'
  BY <1>r DEF Cleanup, WtTypeOK, CreateShape, unclean, contained, Others,
              Opened
<1>3. RequestShape'
  BY <1>r DEF Cleanup, WtTypeOK, RequestShape, Others, Opened
<1>4. MergeShape'
  BY <1>r DEF Cleanup, WtTypeOK, MergeShape, Others, Opened
<1>5. WorkIsSeen'
  BY <1>r DEF Cleanup, WtTypeOK, WorkIsSeen, unwatched, looksAway, requestsOn,
              unclean, Others, Opened
<1>6. TreeShape' /\ RowShape' /\ HistoryShape' /\ CommitsSurvive'
  BY DEF Cleanup, TreeShape, RowShape, HistoryShape, CommitsSurvive, unclean
<1> QED BY <1>1, <1>2, <1>3, <1>4, <1>5, <1>6

LEMMA CheckBranchKeeps ==
    ASSUME WtInv, NEW q \in Requests, CheckBranch(q)
    PROVE  WtInv'
<1> USE RequestFacts DEF WtInv, gitVars, appVars, NoBranch
<1>r. Closed(q)
      \/ /\ Kept(q) /\ request'[q].at = "removing"
         /\ request'[q].read = request[q].read /\ request'[q].as = request[q].as
         /\ request'[q].force = request[q].force /\ request'[q].soft = request[q].soft /\ request'[q].tip = request[q].tip
  <2> DEFINE r == [request[q] EXCEPT !.at = "removing", !.drop = FALSE]
  <2>1. request[q] # Idle /\ request[q] \in Request
    BY RequestFacts DEF CheckBranch
  <2>2. CASE returns(q)
    BY <2>2, ClosedWhen
  <2>3. CASE goesOn(q, "removing")
    BY <2>1, <2>3, MovedWhen DEF Moved, Phases
  <2>4. CASE request' = [request EXCEPT ![q] = r]
    <3>1. r \in Request
      BY <2>1 DEF Request
    <3>2. r # Idle
      BY <3>1 DEF Request, Idle
    <3>3. Others(q) /\ request'[q] = r
      BY <2>4, <3>1, OthersWhen
    <3> QED BY <2>1, <3>1, <3>2, <3>3 DEF Kept, Request
  <2> QED BY <2>2, <2>3, <2>4 DEF CheckBranch
<1>1. WtTypeOK'
  BY <1>r DEF CheckBranch, WtTypeOK, Others, Kept, Closed
<1>2. CreateShape'
  BY <1>r DEF CheckBranch, WtTypeOK, CreateShape, unclean, contained, Others,
              Kept, Closed
<1>3. RequestShape'
  BY <1>r DEF CheckBranch, WtTypeOK, RequestShape, Others, Kept, Closed
<1>4. MergeShape'
  BY <1>r DEF CheckBranch, WtTypeOK, MergeShape, Others, Kept, Closed
<1>5. WorkIsSeen'
  BY <1>r DEF CheckBranch, WtTypeOK, WorkIsSeen, unwatched, looksAway,
              requestsOn, unclean, Others, Kept, Closed
<1>6. TreeShape' /\ RowShape' /\ HistoryShape' /\ CommitsSurvive'
  BY DEF CheckBranch, TreeShape, RowShape, HistoryShape, CommitsSurvive,
         unclean
<1> QED BY <1>1, <1>2, <1>3, <1>4, <1>5, <1>6

LEMMA RemoveTreeKeeps ==
    ASSUME WtInv, NEW q \in Requests, RemoveTree(q)
    PROVE  WtInv'
<1> USE RequestFacts DEF WtInv, gitVars, appVars, NoBranch
<1>r. Moved(q, "deleting") \/ Moved(q, "erasing") \/ Decided(q, "writing", "discarded") \/ Closed(q)
  BY MovedWhen, DecidedWhen, ClosedWhen
  DEF RemoveTree, finishes, writes, Phases, RowStates
<1>1. WtTypeOK'
  BY <1>r DEF RemoveTree, WtTypeOK, Others, Kept, Closed, Moved, Decided
<1>2. TreeShape'
  BY <1>r DEF RemoveTree, WtTypeOK, TreeShape, unclean
<1>3. CreateShape'
  BY <1>r DEF RemoveTree, WtTypeOK, CreateShape, unclean, contained, Others,
              Kept, Closed, Moved, Decided
<1>4. RequestShape'
  BY <1>r DEF RemoveTree, WtTypeOK, RequestShape, Others, Kept, Closed, Moved,
              Decided
<1>5. MergeShape'
  BY <1>r DEF RemoveTree, WtTypeOK, MergeShape, Others, Kept, Closed, Moved,
              Decided
<1>6. WorkIsSeen'
  BY <1>r DEF RemoveTree, WtTypeOK, WorkIsSeen, unwatched, looksAway,
              requestsOn, unclean, Others, Kept, Closed, Moved, Decided
<1>7. RowShape' /\ HistoryShape' /\ CommitsSurvive'
  BY DEF RemoveTree, RowShape, HistoryShape, CommitsSurvive
<1> QED BY <1>1, <1>2, <1>3, <1>4, <1>5, <1>6, <1>7

LEMMA DeleteBranchKeeps ==
    ASSUME WtInv, NEW q \in Requests, DeleteBranch(q)
    PROVE  WtInv'
<1> USE RequestFacts DEF WtInv, gitVars, appVars, NoBranch
<1>r. \/ Moved(q, "erasing") \/ Closed(q)
      \/ request[q].does = "discard" /\ Decided(q, "writing", "discarded")
  BY MovedWhen, DecidedWhen, ClosedWhen
  DEF DeleteBranch, finishes, writes, Phases, RowStates
<1>1. WtTypeOK'
  BY <1>r DEF DeleteBranch, deletable, contained, WtTypeOK, Others, Kept,
              Closed, Moved, Decided
<1>2. TreeShape'
  BY <1>r DEF DeleteBranch, deletable, contained, WtTypeOK, TreeShape, unclean
<1>3. CreateShape'
  BY <1>r DEF DeleteBranch, deletable, contained, WtTypeOK, CreateShape,
              unclean, Others, Kept, Closed, Moved, Decided
<1>4. RequestShape'
  BY <1>r DEF DeleteBranch, deletable, contained, WtTypeOK, RequestShape,
              Others, Kept, Closed, Moved, Decided
<1>5. MergeShape'
  BY <1>r DEF DeleteBranch, deletable, contained, WtTypeOK, MergeShape, Others,
              Kept, Closed, Moved, Decided
<1>6. WorkIsSeen'
  BY <1>r DEF DeleteBranch, deletable, contained, WtTypeOK, WorkIsSeen,
              unwatched, looksAway, requestsOn, unclean, Others, Kept, Closed,
              Moved, Decided
<1>7. CommitsSurvive'
  BY <1>r DEF DeleteBranch, deletable, contained, WtTypeOK, CommitsSurvive
<1>8. RowShape' /\ HistoryShape'
  BY DEF DeleteBranch, RowShape, HistoryShape
<1> QED BY <1>1, <1>2, <1>3, <1>4, <1>5, <1>6, <1>7, <1>8

LEMMA EraseRowKeeps ==
    ASSUME WtInv, NEW q \in Requests, EraseRow(q)
    PROVE  WtInv'
<1> USE RequestFacts DEF WtInv, gitVars, appVars, NoBranch
<1>r. Closed(q)
  BY ClosedWhen DEF EraseRow
<1>1. WtTypeOK'
  BY <1>r DEF EraseRow, WtTypeOK, Others, Closed, RowStates
<1>2. RowShape'
  BY <1>r DEF EraseRow, WtTypeOK, RowShape
<1>3. CreateShape'
  BY <1>r DEF EraseRow, WtTypeOK, CreateShape, unclean, contained, Others,
              Closed
<1>4. RequestShape'
  BY <1>r DEF EraseRow, WtTypeOK, RequestShape, Others, Closed
<1>5. MergeShape'
  BY <1>r DEF EraseRow, WtTypeOK, MergeShape, Others, Closed
<1>6. WorkIsSeen'
  BY <1>r DEF EraseRow, WtTypeOK, WorkIsSeen, unwatched, looksAway, requestsOn,
              unclean, Others, Closed
<1>7. TreeShape' /\ HistoryShape' /\ CommitsSurvive'
  BY DEF EraseRow, TreeShape, HistoryShape, CommitsSurvive, unclean
<1> QED BY <1>1, <1>2, <1>3, <1>4, <1>5, <1>6, <1>7

LEMMA StartRunKeeps ==
    ASSUME WtInv, NEW w \in Worktrees, StartRun(w)
    PROVE  WtInv'
<1> USE RequestFacts DEF WtInv, gitVars, appVars, NoBranch
<1>1. WtTypeOK'
  BY DEF StartRun, WtTypeOK
<1>2. RowShape'
  BY DEF StartRun, WtTypeOK, RowShape
<1>3. CreateShape'
  BY DEF StartRun, WtTypeOK, CreateShape, unclean, contained
<1>4. TreeShape' /\ RequestShape' /\ MergeShape' /\ WorkIsSeen' /\ HistoryShape'
      /\ CommitsSurvive'
  BY DEF StartRun, TreeShape, RequestShape, MergeShape, WorkIsSeen,
         HistoryShape, CommitsSurvive, unclean, unwatched, looksAway,
         requestsOn
<1> QED BY <1>1, <1>2, <1>3, <1>4

LEMMA WriteFilesKeeps ==
    ASSUME WtInv, NEW w \in Worktrees, WriteFiles(w)
    PROVE  WtInv'
<1> USE RequestFacts DEF WtInv, gitVars, appVars, NoBranch
<1>1. WtTypeOK'
  BY DEF WriteFiles, running, WtTypeOK
<1>2. TreeShape'
  BY DEF WriteFiles, running, WtTypeOK, TreeShape, unclean
<1>3. CreateShape'
  BY DEF WriteFiles, running, WtTypeOK, CreateShape, unclean, contained
<1>4. WorkIsSeen'
  BY DEF WriteFiles, running, WtTypeOK, WorkIsSeen, unwatched, looksAway,
         requestsOn, unclean
<1>5. RowShape' /\ RequestShape' /\ MergeShape' /\ HistoryShape' /\ CommitsSurvive'
  BY DEF WriteFiles, RowShape, RequestShape, MergeShape, HistoryShape,
         CommitsSurvive
<1> QED BY <1>1, <1>2, <1>3, <1>4, <1>5

LEMMA RunCompletesKeeps ==
    ASSUME WtInv, NEW w \in Worktrees, RunCompletes(w)
    PROVE  WtInv'
<1> USE RequestFacts DEF WtInv, gitVars, appVars, NoBranch
<1>1. WtTypeOK'
  BY DEF RunCompletes, running, WtTypeOK
<1>2. RowShape'
  BY DEF RunCompletes, running, WtTypeOK, RowShape
<1>3. CreateShape'
  BY DEF RunCompletes, running, WtTypeOK, CreateShape, unclean, contained
<1>4. TreeShape' /\ RequestShape' /\ MergeShape' /\ WorkIsSeen' /\ HistoryShape'
      /\ CommitsSurvive'
  BY DEF RunCompletes, TreeShape, RequestShape, MergeShape, WorkIsSeen,
         HistoryShape, CommitsSurvive, unclean, unwatched, looksAway,
         requestsOn
<1> QED BY <1>1, <1>2, <1>3, <1>4

LEMMA RunStopsKeeps ==
    ASSUME WtInv, NEW w \in Worktrees, RunStops(w)
    PROVE  WtInv'
<1> USE RequestFacts DEF WtInv, gitVars, appVars, NoBranch
<1>1. WtTypeOK'
  BY DEF RunStops, running, WtTypeOK
<1>2. RowShape'
  BY DEF RunStops, running, WtTypeOK, RowShape
<1>3. CreateShape'
  BY DEF RunStops, running, WtTypeOK, CreateShape, unclean, contained
<1>4. TreeShape' /\ RequestShape' /\ MergeShape' /\ WorkIsSeen' /\ HistoryShape'
      /\ CommitsSurvive'
  BY DEF RunStops, TreeShape, RequestShape, MergeShape, WorkIsSeen,
         HistoryShape, CommitsSurvive, unclean, unwatched, looksAway,
         requestsOn
<1> QED BY <1>1, <1>2, <1>3, <1>4

LEMMA CommitStatusKeeps ==
    ASSUME WtInv, NEW w \in Worktrees, CommitStatus(w)
    PROVE  WtInv'
<1> USE RequestFacts DEF WtInv, gitVars, appVars, NoBranch
<1>1. WtTypeOK'
  BY DEF CommitStatus, WtTypeOK
<1>2. RowShape'
  BY DEF CommitStatus, WtTypeOK, RowShape
<1>3. TreeShape' /\ CreateShape' /\ RequestShape' /\ MergeShape' /\ WorkIsSeen'
      /\ HistoryShape' /\ CommitsSurvive'
  BY DEF CommitStatus, TreeShape, CreateShape, RequestShape, MergeShape,
         WorkIsSeen, HistoryShape, CommitsSurvive, unclean, contained,
         unwatched, looksAway, requestsOn
<1> QED BY <1>1, <1>2, <1>3

LEMMA CommitChangesKeeps ==
    ASSUME WtInv, NEW w \in Worktrees, CommitChanges(w)
    PROVE  WtInv'
<1> USE RequestFacts DEF WtInv, gitVars, appVars, NoBranch
<1>1. WtTypeOK'
  BY OwnCommits DEF CommitChanges, committed, ofWorktree, WtTypeOK
<1>2. TreeShape'
  BY DEF CommitChanges, committed, ofWorktree, WtTypeOK, TreeShape, unclean
<1>3. RowShape'
  BY DEF CommitChanges, committed, ofWorktree, WtTypeOK, RowShape
<1>4. CreateShape'
  BY DEF CommitChanges, committed, ofWorktree, WtTypeOK, CreateShape, unclean,
         contained, RowShape
<1>5. MergeShape'
  BY DEF CommitChanges, committed, ofWorktree, WtTypeOK, MergeShape, TreeShape
<1>6. WorkIsSeen'
  BY DEF CommitChanges, committed, ofWorktree, WtTypeOK, WorkIsSeen, unwatched,
         looksAway, requestsOn, unclean
<1>7. HistoryShape'
  <2>1. made' = made \/ made' = made \union {<<w, Cardinality(ofWorktree(w)) + 1>>}
    BY DEF CommitChanges, committed
  <2> QED BY <2>1, FS_AddElement DEF CommitChanges, HistoryShape
<1>8. CommitsSurvive'
  BY DEF CommitChanges, committed, ofWorktree, WtTypeOK, CommitsSurvive
<1>9. RequestShape'
  BY DEF CommitChanges, RequestShape, committed
<1> QED BY <1>1, <1>2, <1>3, <1>4, <1>5, <1>6, <1>7, <1>8, <1>9

LEMMA CommitFailsKeeps ==
    ASSUME WtInv, NEW w \in Worktrees, CommitFails(w)
    PROVE  WtInv'
<1> USE RequestFacts DEF WtInv, gitVars, appVars, NoBranch
<1>1. WtTypeOK'
  BY DEF CommitFails, WtTypeOK
<1>2. RowShape'
  BY DEF CommitFails, WtTypeOK, RowShape
<1>3. TreeShape' /\ CreateShape' /\ RequestShape' /\ MergeShape' /\ WorkIsSeen'
      /\ HistoryShape' /\ CommitsSurvive'
  BY DEF CommitFails, TreeShape, CreateShape, RequestShape, MergeShape,
         WorkIsSeen, HistoryShape, CommitsSurvive, unclean, contained,
         unwatched, looksAway, requestsOn
<1> QED BY <1>1, <1>2, <1>3

LEMMA CommitByHandKeeps ==
    ASSUME WtInv, NEW w \in Worktrees, CommitByHand(w)
    PROVE  WtInv'
<1> USE RequestFacts DEF WtInv, gitVars, appVars, NoBranch
<1>1. WtTypeOK'
  BY OwnCommits DEF CommitByHand, committed, ofWorktree, WtTypeOK
<1>2. TreeShape'
  BY DEF CommitByHand, committed, ofWorktree, WtTypeOK, TreeShape, unclean
<1>3. CreateShape'
  BY DEF CommitByHand, committed, ofWorktree, WtTypeOK, CreateShape, unclean,
         contained
<1>4. MergeShape'
  BY DEF CommitByHand, committed, ofWorktree, WtTypeOK, MergeShape, TreeShape
<1>5. WorkIsSeen'
  BY DEF CommitByHand, committed, ofWorktree, WtTypeOK, WorkIsSeen, unwatched,
         looksAway, requestsOn, unclean
<1>6. HistoryShape'
  <2>1. made' = made \/ made' = made \union {<<w, Cardinality(ofWorktree(w)) + 1>>}
    BY DEF CommitByHand, committed
  <2> QED BY <2>1, FS_AddElement DEF CommitByHand, HistoryShape
<1>7. CommitsSurvive'
  BY DEF CommitByHand, committed, ofWorktree, WtTypeOK, CommitsSurvive
<1>8. RowShape' /\ RequestShape'
  BY DEF CommitByHand, RowShape, RequestShape, committed
<1> QED BY <1>1, <1>2, <1>3, <1>4, <1>5, <1>6, <1>7, <1>8

LEMMA TreeBreaksKeeps ==
    ASSUME WtInv, NEW w \in Worktrees, TreeBreaks(w)
    PROVE  WtInv'
<1> USE RequestFacts DEF WtInv, gitVars, appVars, NoBranch
<1>1. WtTypeOK'
  BY DEF TreeBreaks, WtTypeOK
<1>2. TreeShape'
  BY DEF TreeBreaks, WtTypeOK, TreeShape, unclean
<1>3. CreateShape'
  BY DEF TreeBreaks, WtTypeOK, CreateShape, unclean, contained
<1>4. WorkIsSeen'
  BY DEF TreeBreaks, WtTypeOK, WorkIsSeen, unwatched, looksAway, requestsOn,
         unclean
<1>5. RowShape' /\ RequestShape' /\ MergeShape' /\ HistoryShape' /\ CommitsSurvive'
  BY DEF TreeBreaks, RowShape, RequestShape, MergeShape, HistoryShape,
         CommitsSurvive
<1> QED BY <1>1, <1>2, <1>3, <1>4, <1>5

LEMMA UserCommitsKeeps ==
    ASSUME WtInv, UserCommits
    PROVE  WtInv'
<1> USE RequestFacts DEF WtInv, gitVars, appVars, NoBranch
<1>1. WtTypeOK'
  BY OwnCommits DEF UserCommits, ofWorktree, WtTypeOK
<1>2. CreateShape'
  BY DEF UserCommits, ofWorktree, WtTypeOK, CreateShape, unclean, contained
<1>3. MergeShape'
  BY DEF UserCommits, ofWorktree, WtTypeOK, MergeShape
<1>4. HistoryShape'
  BY FS_AddElement DEF UserCommits, ofWorktree, WtTypeOK, HistoryShape
<1>5. CommitsSurvive'
  BY DEF UserCommits, ofWorktree, WtTypeOK, CommitsSurvive
<1>6. TreeShape' /\ RowShape' /\ RequestShape' /\ WorkIsSeen'
  BY DEF UserCommits, TreeShape, RowShape, RequestShape, WorkIsSeen, unclean,
         unwatched, looksAway, requestsOn
<1> QED BY <1>1, <1>2, <1>3, <1>4, <1>5, <1>6

LEMMA RestartKeeps ==
    ASSUME WtInv, Restart
    PROVE  WtInv'
<1> USE RequestFacts DEF WtInv, gitVars, appVars, NoBranch
<1>1. WtTypeOK'
  BY DEF Restart, Checkable, running, WtTypeOK, RowStates
<1>2. RowShape'
  BY DEF Restart, Checkable, running, WtTypeOK, RowShape
<1>3. CreateShape'
  BY DEF Restart, Checkable, running, WtTypeOK, CreateShape, unclean, contained
<1>4. RequestShape'
  BY DEF Restart, Checkable, running, WtTypeOK, RequestShape
<1>5. MergeShape'
  BY DEF Restart, Checkable, running, WtTypeOK, MergeShape
<1>6. WorkIsSeen'
  BY DEF Restart, Checkable, running, WtTypeOK, WorkIsSeen, unwatched,
         looksAway, requestsOn, unclean
<1>7. TreeShape' /\ HistoryShape' /\ CommitsSurvive'
  BY DEF Restart, TreeShape, HistoryShape, CommitsSurvive, unclean
<1> QED BY <1>1, <1>2, <1>3, <1>4, <1>5, <1>6, <1>7

-----------------------------------------------------------------------------
(* The invariant holds.                                                     *)

LEMMA WtInitially ==
    ASSUME WorktreesAssumption, WtInit
    PROVE  WtInv
<1>1. WtTypeOK
  BY DEF WtInit, WtTypeOK, RowStates, NoBranch, Commits
<1>2. HistoryShape
  BY FS_Singleton DEF WtInit, HistoryShape
<1>3. CreateShape /\ RequestShape /\ MergeShape
  BY DEF WtInit, CreateShape, RequestShape, MergeShape, Idle
<1>4. TreeShape /\ RowShape /\ WorkIsSeen /\ CommitsSurvive
  BY DEF WtInit, TreeShape, RowShape, WorkIsSeen, CommitsSurvive, unclean,
         unwatched, requestsOn
<1> QED BY <1>1, <1>2, <1>3, <1>4 DEF WtInv

LEMMA WtStep ==
    ASSUME WtInv, [WtNext]_wtVars
    PROVE  WtInv'
<1>1. ASSUME NEW q \in Requests, WriteRow(q)
      PROVE  WtInv'
  BY <1>1, WriteRowKeeps
<1>2. ASSUME NEW q \in Requests, GitFails(q)
      PROVE  WtInv'
  BY <1>2, GitFailsKeeps
<1>3. ASSUME NEW q \in Requests, NEW w \in Worktrees, Create(q, w)
      PROVE  WtInv'
  BY <1>3, CreateKeeps
<1>4. ASSUME NEW q \in Requests, WorktreeAdded(q)
      PROVE  WtInv'
  BY <1>4, WorktreeAddedKeeps
<1>5. ASSUME NEW q \in Requests, Excluded(q)
      PROVE  WtInv'
  BY <1>5, ExcludedKeeps
<1>6. ASSUME NEW q \in Requests, CreateFails(q)
      PROVE  WtInv'
  BY <1>6, CreateFailsKeeps
<1>7. ASSUME NEW q \in Requests, CreateUndone(q)
      PROVE  WtInv'
  BY <1>7, CreateUndoneKeeps
<1>8. ASSUME NEW q \in Requests, NEW w \in Worktrees, Validate(q, w)
      PROVE  WtInv'
  BY <1>8, ValidateKeeps
<1>9. ASSUME NEW q \in Requests, Inspected(q)
      PROVE  WtInv'
  BY <1>9, InspectedKeeps
<1>10. ASSUME NEW q \in Requests, StatusRead(q)
      PROVE  WtInv'
  BY <1>10, StatusReadKeeps
<1>11. ASSUME NEW q \in Requests, NEW w \in Worktrees, NEW yes \in BOOLEAN, Merge(q, w, yes)
      PROVE  WtInv'
  BY <1>11, MergeKeeps
<1>12. ASSUME NEW q \in Requests, CheckClean(q)
      PROVE  WtInv'
  BY <1>12, CheckCleanKeeps
<1>13. ASSUME NEW q \in Requests, CheckRefs(q)
      PROVE  WtInv'
  BY <1>13, CheckRefsKeeps
<1>14. ASSUME NEW q \in Requests, CheckScene(q)
      PROVE  WtInv'
  BY <1>14, CheckSceneKeeps
<1>15. ASSUME NEW q \in Requests, NEW w \in Worktrees, NEW yes \in BOOLEAN, AnswerBlocked(q, w, yes)
      PROVE  WtInv'
  BY <1>15, AnswerBlockedKeeps
<1>16. ASSUME NEW q \in Requests, BaseMerged(q)
      PROVE  WtInv'
  BY <1>16, BaseMergedKeeps
<1>17. ASSUME NEW q \in Requests, BaseConflicts(q)
      PROVE  WtInv'
  BY <1>17, BaseConflictsKeeps
<1>18. ASSUME NEW q \in Requests, BaseAdvanced(q)
      PROVE  WtInv'
  BY <1>18, BaseAdvancedKeeps
<1>19. ASSUME NEW q \in Requests, NEW w \in Worktrees, NEW yes \in BOOLEAN, Discard(q, w, yes)
      PROVE  WtInv'
  BY <1>19, DiscardKeeps
<1>20. ASSUME NEW q \in Requests, NEW w \in Worktrees, Collect(q, w)
      PROVE  WtInv'
  BY <1>20, CollectKeeps
<1>21. ASSUME NEW q \in Requests, NEW w \in Worktrees, Cleanup(q, w)
      PROVE  WtInv'
  BY <1>21, CleanupKeeps
<1>22. ASSUME NEW q \in Requests, CheckBranch(q)
      PROVE  WtInv'
  BY <1>22, CheckBranchKeeps
<1>23. ASSUME NEW q \in Requests, RemoveTree(q)
      PROVE  WtInv'
  BY <1>23, RemoveTreeKeeps
<1>24. ASSUME NEW q \in Requests, DeleteBranch(q)
      PROVE  WtInv'
  BY <1>24, DeleteBranchKeeps
<1>25. ASSUME NEW q \in Requests, EraseRow(q)
      PROVE  WtInv'
  BY <1>25, EraseRowKeeps
<1>26. ASSUME NEW w \in Worktrees, StartRun(w)
      PROVE  WtInv'
  BY <1>26, StartRunKeeps
<1>27. ASSUME NEW w \in Worktrees, WriteFiles(w)
      PROVE  WtInv'
  BY <1>27, WriteFilesKeeps
<1>28. ASSUME NEW w \in Worktrees, RunCompletes(w)
      PROVE  WtInv'
  BY <1>28, RunCompletesKeeps
<1>29. ASSUME NEW w \in Worktrees, RunStops(w)
      PROVE  WtInv'
  BY <1>29, RunStopsKeeps
<1>30. ASSUME NEW w \in Worktrees, CommitStatus(w)
      PROVE  WtInv'
  BY <1>30, CommitStatusKeeps
<1>31. ASSUME NEW w \in Worktrees, CommitChanges(w)
      PROVE  WtInv'
  BY <1>31, CommitChangesKeeps
<1>32. ASSUME NEW w \in Worktrees, CommitFails(w)
      PROVE  WtInv'
  BY <1>32, CommitFailsKeeps
<1>33. ASSUME NEW w \in Worktrees, CommitByHand(w)
      PROVE  WtInv'
  BY <1>33, CommitByHandKeeps
<1>34. ASSUME NEW w \in Worktrees, TreeBreaks(w)
      PROVE  WtInv'
  BY <1>34, TreeBreaksKeeps
<1>35. CASE UserCommits
  BY <1>35, UserCommitsKeeps
<1>36. CASE Restart
  BY <1>36, RestartKeeps
<1>37. CASE UNCHANGED wtVars
  BY <1>37 DEF wtVars, WtInv, WtTypeOK, TreeShape, RowShape, CreateShape, RequestShape,
         MergeShape, WorkIsSeen, HistoryShape, CommitsSurvive, unclean, unwatched,
         looksAway, requestsOn, contained
<1> QED BY <1>1, <1>2, <1>3, <1>4, <1>5, <1>6, <1>7, <1>8, <1>9, <1>10, <1>11,
           <1>12, <1>13, <1>14, <1>15, <1>16, <1>17, <1>18, <1>19, <1>20,
           <1>21, <1>22, <1>23, <1>24, <1>25, <1>26, <1>27, <1>28, <1>29,
           <1>30, <1>31, <1>32, <1>33, <1>34, <1>35, <1>36, <1>37
      DEF WtNext

-----------------------------------------------------------------------------
(* Theorems                                                                 *)

\* Every variable keeps its type, whatever the user, the Agents and git do.
THEOREM WtTypes == WtSpec => []WtTypeOK
<1>1. WtInit => WtInv
  BY WtInitially, WorktreesAssumption
<1>2. WtInv /\ [WtNext]_wtVars => WtInv'
  BY WtStep
<1>3. WtInv => WtTypeOK
  BY DEF WtInv
<1> QED BY <1>1, <1>2, <1>3, PTL DEF WtSpec

\* A branch is deleted only when the base has all of it, although the check, the
\* removal of the directory and the deletion are three awaited commands.
THEOREM NoCommitIsLost == WtSpec => []CommitsSurvive
<1>1. WtInit => WtInv
  BY WtInitially, WorktreesAssumption
<1>2. WtInv /\ [WtNext]_wtVars => WtInv'
  BY WtStep
<1>3. WtInv => CommitsSurvive
  BY DEF WtInv
<1> QED BY <1>1, <1>2, <1>3, PTL DEF WtSpec

\* The only actions that change a row, and those that change a directory.
LEMMA RowWriters ==
    ASSUME WtNext, row' # row
    PROVE  \/ \E q \in Requests : WriteRow(q) \/ CreateUndone(q) \/ EraseRow(q)
           \/ \E q \in Requests, w \in Worktrees : Create(q, w) \/ Validate(q, w)
           \/ Restart
<1>1. ASSUME NEW q \in Requests, \/ GitFails(q) \/ WorktreeAdded(q) \/ Excluded(q)
                                 \/ CreateFails(q) \/ Inspected(q) \/ StatusRead(q)
                                 \/ CheckClean(q) \/ CheckRefs(q) \/ CheckScene(q)
      PROVE  row' = row
  BY <1>1 DEF GitFails, WorktreeAdded, Excluded, CreateFails, Inspected,
              StatusRead, CheckClean, CheckRefs, CheckScene, gitVars, appVars
<1>2. ASSUME NEW q \in Requests, \/ BaseMerged(q) \/ BaseConflicts(q)
                                 \/ BaseAdvanced(q) \/ CheckBranch(q)
                                 \/ RemoveTree(q) \/ DeleteBranch(q)
      PROVE  row' = row
  BY <1>2 DEF BaseMerged, BaseConflicts, BaseAdvanced, CheckBranch, RemoveTree,
              DeleteBranch, gitVars, appVars
<1>3. ASSUME NEW q \in Requests, NEW w \in Worktrees, NEW yes \in BOOLEAN,
             \/ Merge(q, w, yes) \/ AnswerBlocked(q, w, yes) \/ Discard(q, w, yes)
      PROVE  row' = row
  BY <1>3 DEF Merge, AnswerBlocked, Discard, gitVars, appVars
<1>4. ASSUME NEW q \in Requests, NEW w \in Worktrees,
             \/ Collect(q, w) \/ Cleanup(q, w)
      PROVE  row' = row
  BY <1>4 DEF Collect, Cleanup, gitVars, appVars
<1>5. ASSUME NEW w \in Worktrees, \/ StartRun(w) \/ WriteFiles(w) \/ RunCompletes(w)
                                  \/ RunStops(w) \/ CommitStatus(w)
                                  \/ CommitChanges(w) \/ CommitFails(w)
                                  \/ CommitByHand(w) \/ TreeBreaks(w)
      PROVE  row' = row
  BY <1>5 DEF StartRun, WriteFiles, RunCompletes, RunStops, CommitStatus,
              CommitChanges, CommitFails, CommitByHand, TreeBreaks, gitVars,
              appVars, committed
<1>6. ASSUME \/ UserCommits
      PROVE  row' = row
  BY <1>6 DEF UserCommits, gitVars, appVars
<1> QED BY <1>1, <1>2, <1>3, <1>4, <1>5, <1>6 DEF WtNext

LEMMA TreeWriters ==
    ASSUME WtNext, tree' # tree
    PROVE  \/ \E q \in Requests : WorktreeAdded(q) \/ CreateUndone(q) \/ RemoveTree(q)
           \/ \E w \in Worktrees : TreeBreaks(w)
<1>1. ASSUME NEW q \in Requests, \/ WriteRow(q) \/ GitFails(q) \/ Excluded(q)
                                 \/ CreateFails(q) \/ Inspected(q) \/ StatusRead(q)
                                 \/ CheckClean(q) \/ CheckRefs(q) \/ CheckScene(q)
      PROVE  tree' = tree
  BY <1>1 DEF WriteRow, GitFails, Excluded, CreateFails, Inspected, StatusRead,
              CheckClean, CheckRefs, CheckScene, gitVars, appVars
<1>2. ASSUME NEW q \in Requests, \/ BaseMerged(q) \/ BaseConflicts(q)
                                 \/ BaseAdvanced(q) \/ CheckBranch(q)
                                 \/ DeleteBranch(q) \/ EraseRow(q)
      PROVE  tree' = tree
  BY <1>2 DEF BaseMerged, BaseConflicts, BaseAdvanced, CheckBranch,
              DeleteBranch, EraseRow, gitVars, appVars
<1>3. ASSUME NEW q \in Requests, NEW w \in Worktrees,
             \/ Create(q, w) \/ Validate(q, w) \/ Collect(q, w) \/ Cleanup(q, w)
      PROVE  tree' = tree
  BY <1>3 DEF Create, Validate, Collect, Cleanup, gitVars, appVars
<1>4. ASSUME NEW q \in Requests, NEW w \in Worktrees, NEW yes \in BOOLEAN,
             \/ Merge(q, w, yes) \/ AnswerBlocked(q, w, yes) \/ Discard(q, w, yes)
      PROVE  tree' = tree
  BY <1>4 DEF Merge, AnswerBlocked, Discard, gitVars, appVars
<1>5. ASSUME NEW w \in Worktrees, \/ StartRun(w) \/ WriteFiles(w) \/ RunCompletes(w)
                                  \/ RunStops(w) \/ CommitStatus(w)
                                  \/ CommitChanges(w) \/ CommitFails(w)
                                  \/ CommitByHand(w)
      PROVE  tree' = tree
  BY <1>5 DEF StartRun, WriteFiles, RunCompletes, RunStops, CommitStatus,
              CommitChanges, CommitFails, CommitByHand, gitVars, appVars,
              committed
<1>6. ASSUME \/ UserCommits \/ Restart
      PROVE  tree' = tree
  BY <1>6 DEF UserCommits, Restart, gitVars, appVars
<1> QED BY <1>1, <1>2, <1>3, <1>4, <1>5, <1>6 DEF WtNext

\* A row says merged only once the base has the branch as the merge made it: the
\* answer of the fast-forward is looked at before the row is written.
THEOREM MergesReachTheBase == WtSpec => MergedIsInBase
<1> DEFINE Right(w) == row[w] # "merged" /\ row'[w] = "merged" =>
              \E q \in requestsOn(w) : request[q].tip # {} /\ request[q].tip \subseteq base
<1>1. WtInit => WtInv
  BY WtInitially, WorktreesAssumption
<1>2. WtInv /\ [WtNext]_wtVars => WtInv'
  BY WtStep
<1>3. ASSUME WtInv, WtNext, NEW w \in Worktrees, row[w] # "merged", row'[w] = "merged"
      PROVE  \E q \in requestsOn(w) : request[q].tip # {} /\ request[q].tip \subseteq base
  <2> USE <1>3 DEF WtInv
  <2>1. ASSUME NEW q \in Requests, WriteRow(q)
        PROVE  \E p \in requestsOn(w) : request[p].tip # {} /\ request[p].tip \subseteq base
    <3>1. request[q] # Idle /\ request[q].on = w /\ request[q].as = "merged"
      BY <2>1 DEF WriteRow, WtTypeOK
    <3>2. q \in requestsOn(w) /\ request[q].tip # {} /\ request[q].tip \subseteq base
      BY <3>1 DEF RequestShape, MergeShape, requestsOn
    <3> QED BY <3>2
  <2>2. ASSUME NEW q \in Requests, CreateUndone(q) \/ EraseRow(q)
        PROVE  FALSE
    BY <2>2, RequestFacts DEF CreateUndone, EraseRow, WtTypeOK, waits
  <2>3. ASSUME NEW q \in Requests, NEW v \in Worktrees, Create(q, v) \/ Validate(q, v)
        PROVE  FALSE
    BY <2>3 DEF Create, Validate, WtTypeOK
  <2>4. CASE Restart
    BY <2>4 DEF Restart, WtTypeOK
  <2> QED BY <2>1, <2>2, <2>3, <2>4, RowWriters
<1>4. WtInv /\ [WtNext]_wtVars => [\A w \in Worktrees : Right(w)]_wtVars
  BY <1>3
<1> QED BY <1>1, <1>2, <1>4, PTL DEF WtSpec, MergedIsInBase

\* A directory with work in it is removed by a confirmed discard only, or the
\* work came after the merge's check of the worktree.
THEOREM OnlyADiscardDestroysWork == WtSpec => WorkIsDiscardedByTheUser
<1> DEFINE Right(w) ==
              unclean(w) /\ tree'[w] = "absent" /\ request' # request
                 => \/ w \in late
                    \/ \E q \in requestsOn(w) :
                          /\ request'[q] # request[q]
                          /\ request[q].does = "discard" \/ request[q].read = "discarded"
<1>1. WtInit => WtInv
  BY WtInitially, WorktreesAssumption
<1>2. WtInv /\ [WtNext]_wtVars => WtInv'
  BY WtStep
<1>3. ASSUME WtInv, WtNext, NEW w \in Worktrees,
             unclean(w), tree'[w] = "absent", request' # request
      PROVE  \/ w \in late
             \/ \E q \in requestsOn(w) :
                   /\ request'[q] # request[q]
                   /\ request[q].does = "discard" \/ request[q].read = "discarded"
  <2> USE <1>3 DEF WtInv
  <2>1. tree[w] # "absent"
    BY DEF TreeShape
  <2>2. ASSUME NEW q \in Requests, WorktreeAdded(q)
        PROVE  FALSE
    BY <2>1, <2>2, RequestFacts DEF WorktreeAdded, WtTypeOK, waits
  <2>3. ASSUME NEW q \in Requests, CreateUndone(q)
        PROVE  FALSE
    BY <2>1, <2>3, RequestFacts DEF CreateUndone, CreateShape, WtTypeOK, waits
  <2>4. ASSUME NEW q \in Requests, RemoveTree(q)
        PROVE  Right(w)
    <3>1. request[q] # Idle /\ request[q].on = w /\ request[q].at = "removing"
      BY <2>1, <2>4, RequestFacts DEF RemoveTree, WtTypeOK
    <3>2. q \in requestsOn(w)
      BY <3>1 DEF requestsOn
    <3>3. CASE request[q].read = "merged"
      BY <3>2, <3>3 DEF WorkIsSeen, unwatched, looksAway
    <3>4. request'[q] # request[q]
      <4>1. Moved(q, "deleting") \/ Moved(q, "erasing")
            \/ Decided(q, "writing", "discarded") \/ Closed(q)
        BY <2>4, <3>1, MovedWhen, DecidedWhen, ClosedWhen
           DEF RemoveTree, finishes, writes, Phases, RowStates
      <4> QED BY <3>1, <4>1 DEF Moved, Decided, Closed
    <3>5. request[q].does = "discard" \/ request[q].read \in {"merged", "discarded"}
      BY <3>1 DEF RequestShape
    <3> QED BY <3>2, <3>3, <3>4, <3>5
  <2>5. ASSUME NEW v \in Worktrees, TreeBreaks(v)
        PROVE  FALSE
    BY <2>5 DEF TreeBreaks, appVars
  <2> QED BY <2>1, <2>2, <2>3, <2>4, <2>5, TreeWriters
<1>4. WtInv /\ [WtNext]_wtVars => [\A w \in Worktrees : Right(w)]_wtVars
  BY <1>3
<1> QED BY <1>1, <1>2, <1>4, PTL DEF WtSpec, WorkIsDiscardedByTheUser
=============================================================================
