------------------------- MODULE DecisionInboxProofs -------------------------
(***************************************************************************)
(* The Decision Inbox for any number of steps, workflow runs, Agent runs,   *)
(* decisions, requests and crashes: it implements one-shot decisions, runs  *)
(* a command only on an approval of its own decision, leaves no parked step *)
(* without an open decision and no question without an active run, and the  *)
(* watchdog's first stop of a tick hits a late or silent run.               *)
(***************************************************************************)
EXTENDS DecisionInbox, TLAPS

\* A row that was written belongs to a step or to a run, by its kind.
RowShape ==
    \A d \in Ids :
      /\ rows[d].kind = "none" <=> rows[d].status = "none"
      /\ rows[d].kind = "shell_confirmation" => rows[d].key \in Steps
      /\ rows[d].kind = "stalled_run" => rows[d].key \in Runs

\* A source has one open decision at most: open() looks for it first.
OneOpen ==
    \A d, e \in Ids : open(d) /\ open(e) /\ rows[d].key = rows[e].key => d = e

\* The ticket parked for a step waits for the open decision of that step.
TicketShape ==
    \A s \in Steps : pending[s] # 0 =>
      /\ ticket[pending[s]].answer = "parked" /\ ticket[pending[s]].step = s
      /\ \A d \in Ids : open(d) /\ rows[d].key = s => ticket[pending[s]].row = d

\* What is parked, and the tick, die with their instance.
DownShape == ~up => ~tick.on /\ \A s \in Steps : pending[s] = 0

\* Until a tick awaits its first stop nothing else runs: what it has listed of
\* a run is what the run is.
TickShape ==
    tick.on /\ ~tick.awaited =>
      /\ tick.awaits = {}
      /\ \A x \in tick.left : (x.late => x.run \in late) /\ (x.silent => x.run \in silent)

InboxInv ==
    /\ TypeOK /\ RowShape /\ OneOpen /\ TicketShape /\ DownShape /\ TickShape
    /\ ApprovalRunsOnce /\ ParkedHasOpenRow /\ StalledRowHasRun

-----------------------------------------------------------------------------
(* The service: what opening and closing decisions does to the rows.        *)

Options == {"none", "approve", "reject", "stop", "keep_waiting"}
Closed == {"resolved", "expired", "cancelled"}
Answers == {"none", "parked", "yes", "no", "lost"}

\* Afterwards exactly the open rows of D are closed.
Closes(D, st, option) ==
    /\ rows' \in [Ids -> Row]
    /\ \A d \in Ids :
         /\ rows'[d].key = rows[d].key /\ rows'[d].kind = rows[d].kind
         /\ open(d)' <=> open(d) /\ d \notin D
         /\ d \in D /\ open(d) => rows'[d].status = st /\ rows'[d].option = option[d]
         /\ ~(d \in D /\ open(d)) => rows'[d] = rows[d]

\* The open decision of the key, or a new one.
Opened(kind, key, d) ==
    /\ rows' \in [Ids -> Row] /\ d \in Ids
    /\ \/ d \in openOf(key) /\ rows' = rows
       \/ /\ openOf(key) = {} /\ rows[d].status = "none"
          /\ rows'[d].kind = kind /\ rows'[d].key = key /\ rows'[d].status = "open"
          /\ \A e \in Ids : e # d => rows'[e] = rows[e]

\* What the type of the rows and the requests says of one of them.
LEMMA RowFacts ==
    ASSUME TypeOK
    PROVE  /\ \A d \in Ids : /\ rows[d] \in Row
                             /\ rows[d].kind \in {"none", "shell_confirmation", "stalled_run"}
                             /\ rows[d].key \in Steps \cup Runs \cup {NoKey}
                             /\ rows[d].status \in {"none", "open"} \cup Closed
           /\ \A t \in Tickets : /\ ticket[t] \in Ticket
                                 /\ ticket[t].step \in Steps \cup {NoKey}
                                 /\ ticket[t].row \in 0 .. MaxRows
                                 /\ ticket[t].answer \in Answers
           /\ NoTicket.answer = "none" /\ NoRow.status = "none" /\ NoRow.kind = "none"
           /\ NoTick.on = FALSE
BY DEF TypeOK, Row, Ticket, Closed, Answers, NoTicket, NoRow, NoTick

\* closedAs() closes exactly the open rows of its set.
LEMMA ClosesWhen ==
    ASSUME TypeOK, NEW D, NEW st \in Closed, NEW option \in [Ids -> Options],
           rows' = closedAs(D, st, option)
    PROVE  Closes(D, st, option)
<1>1. ASSUME NEW d \in Ids
      PROVE  /\ [rows[d] EXCEPT !.status = st, !.option = option[d]] \in Row
             /\ [rows[d] EXCEPT !.status = st, !.option = option[d]].key = rows[d].key
             /\ [rows[d] EXCEPT !.status = st, !.option = option[d]].kind = rows[d].kind
             /\ [rows[d] EXCEPT !.status = st, !.option = option[d]].status = st
             /\ [rows[d] EXCEPT !.status = st, !.option = option[d]].option = option[d]
  <2>1. rows[d] \in Row /\ option[d] \in Options
    BY DEF TypeOK
  <2> QED BY <2>1 DEF Row, Options, Closed
<1>2. \A d \in Ids : rows'[d] = IF d \in D /\ open(d)
                                THEN [rows[d] EXCEPT !.status = st, !.option = option[d]]
                                ELSE rows[d]
  BY DEF closedAs
<1>3. rows' \in [Ids -> Row]
  <2>1. \A d \in Ids : rows[d] \in Row
    BY DEF TypeOK
  <2> QED BY <1>1, <2>1 DEF closedAs
<1>4. st # "open"
  BY DEF Closed
<1> QED BY <1>1, <1>2, <1>3, <1>4 DEF Closes, open

\* opens() answers the open row of the key or writes a new one.
LEMMA OpenedWhen ==
    ASSUME TypeOK, InboxAssumption, NEW d \in Ids, NEW key, NEW kind,
           opens(kind, key, d),
           \/ kind = "shell_confirmation" /\ key \in Steps
           \/ kind = "stalled_run" /\ key \in Runs
    PROVE  Opened(kind, key, d)
<1>1. CASE d \in openOf(key) /\ rows' = rows
  BY <1>1 DEF Opened, TypeOK
<1>2. CASE openOf(key) = {} /\ nextFree(d)
           /\ rows' = [rows EXCEPT ![d] = [kind |-> kind, key |-> key, status |-> "open",
                                           option |-> "none", deadline |-> deadlineOf(kind)]]
  <2> DEFINE new == [kind |-> kind, key |-> key, status |-> "open",
                     option |-> "none", deadline |-> deadlineOf(kind)]
  <2>1. new \in Row /\ new.kind = kind /\ new.key = key /\ new.status = "open"
    BY DEF Row, deadlineOf
  <2> HIDE DEF new
  <2>2. rows' = [rows EXCEPT ![d] = new]
    BY <1>2 DEF new
  <2>3. rows[d].status = "none"
    BY <1>2 DEF nextFree, NoRow
  <2> QED BY <1>2, <2>1, <2>2, <2>3 DEF Opened, TypeOK
<1> QED BY <1>1, <1>2 DEF opens

\* Closing rows keeps their shape and one open row per source.
LEMMA ClosingKeepsRows ==
    ASSUME InboxInv, NEW D, NEW st \in Closed, NEW option, Closes(D, st, option)
    PROVE  RowShape' /\ OneOpen'
<1>1. RowShape'
  BY RowFacts DEF InboxInv, Closes, RowShape, open, Closed
<1>2. OneOpen'
  BY DEF InboxInv, Closes, OneOpen
<1> QED BY <1>1, <1>2

\* So does opening one.
LEMMA OpeningKeepsRows ==
    ASSUME InboxInv, NEW d \in Ids, NEW key, NEW kind, Opened(kind, key, d),
           \/ kind = "shell_confirmation" /\ key \in Steps
           \/ kind = "stalled_run" /\ key \in Runs
    PROVE  RowShape' /\ OneOpen'
<1>1. RowShape'
  BY DEF InboxInv, Opened, RowShape
<1>2. OneOpen'
  BY DEF InboxInv, Opened, OneOpen, openOf, open
<1> QED BY <1>1, <1>2

-----------------------------------------------------------------------------
(* The parked requests.                                                     *)

Answered(S, answer) ==
    /\ ticket' \in [Tickets -> Ticket]
    /\ \A t \in Tickets :
         /\ ticket'[t].step = ticket[t].step /\ ticket'[t].row = ticket[t].row
         /\ (\E s \in S : pending[s] = t) => ticket'[t].answer = answer
         /\ ~(\E s \in S : pending[s] = t) => ticket'[t] = ticket[t]

\* answered() touches the requests parked for its steps only.
LEMMA AnsweredWhen ==
    ASSUME TypeOK, NEW S, NEW answer \in Answers, ticket' = answered(S, answer)
    PROVE  Answered(S, answer)
<1>1. ASSUME NEW t \in Tickets
      PROVE  /\ [ticket[t] EXCEPT !.answer = answer] \in Ticket
             /\ [ticket[t] EXCEPT !.answer = answer].step = ticket[t].step
             /\ [ticket[t] EXCEPT !.answer = answer].row = ticket[t].row
             /\ [ticket[t] EXCEPT !.answer = answer].answer = answer
  <2>1. ticket[t] \in Ticket
    BY DEF TypeOK
  <2> QED BY <2>1 DEF Ticket, Answers
<1>2. \A t \in Tickets : ticket'[t] = IF \E s \in S : pending[s] = t
                                      THEN [ticket[t] EXCEPT !.answer = answer]
                                      ELSE ticket[t]
  BY DEF answered
<1>3. ticket' \in [Tickets -> Ticket]
  <2>1. \A t \in Tickets : ticket[t] \in Ticket
    BY DEF TypeOK
  <2> QED BY <1>1, <2>1 DEF answered
<1> QED BY <1>1, <1>2, <1>3 DEF Answered

\* unparked() takes exactly its steps off the map.
LEMMA Unparked ==
    ASSUME TypeOK, NEW S, pending' = unparked(S)
    PROVE  /\ pending' \in [Steps -> 0 .. MaxTickets]
           /\ \A s \in Steps : pending'[s] = IF s \in S THEN 0 ELSE pending[s]
BY InboxAssumption DEF TypeOK, unparked, InboxAssumption

\* Approvals stay with their decision, unless a step approves one.
LEMMA ApprovalsStay ==
    ASSUME InboxInv,
           \A t \in Tickets : ticket'[t].answer = "yes" => ticket'[t] = ticket[t],
           \A d \in Ids : rows[d].status = "resolved" => rows'[d] = rows[d]
    PROVE  ApprovalRunsOnce'
BY DEF InboxInv, ApprovalRunsOnce

\* A refusal or a loss is no approval.
LEMMA NobodyApproved ==
    ASSUME InboxInv, NEW S, NEW answer \in {"no", "lost"}, Answered(S, answer)
    PROVE  \A t \in Tickets : ticket'[t].answer = "yes" => ticket'[t] = ticket[t]
BY DEF Answered

\* A row once resolved is not written again.
LEMMA ResolvedStay ==
    ASSUME NEW D, NEW st, NEW option, Closes(D, st, option)
    PROVE  \A d \in Ids : rows[d].status = "resolved" => rows'[d] = rows[d]
BY DEF Closes, open

\* Who stays parked keeps the open decision.
LEMMA TicketsStay ==
    ASSUME InboxInv,
           \A s \in Steps : pending'[s] # 0 =>
              pending'[s] = pending[s] /\ ticket'[pending[s]] = ticket[pending[s]],
           \A d \in Ids : open(d)' => open(d) /\ rows'[d].key = rows[d].key
    PROVE  TicketShape'
BY DEF InboxInv, TicketShape

\* Settling some steps leaves the others parked.
LEMMA OthersStayParked ==
    ASSUME InboxInv, NEW S \in SUBSET Steps, NEW answer, Answered(S, answer),
           \A s \in Steps : pending'[s] = IF s \in S THEN 0 ELSE pending[s]
    PROVE  \A s \in Steps : pending'[s] # 0 =>
              pending'[s] = pending[s] /\ ticket'[pending[s]] = ticket[pending[s]]
<1> SUFFICES ASSUME NEW s \in Steps, pending'[s] # 0
             PROVE  pending'[s] = pending[s] /\ ticket'[pending[s]] = ticket[pending[s]]
  OBVIOUS
<1>1. s \notin S /\ pending'[s] = pending[s] /\ pending[s] # 0
  OBVIOUS
<1>2. pending[s] \in Tickets
  BY <1>1 DEF InboxInv, TypeOK, Tickets
<1>3. \A q \in S : pending[q] # pending[s]
  BY <1>1 DEF InboxInv, TicketShape
<1> QED BY <1>1, <1>2, <1>3 DEF Answered

\* A parked step keeps its open row, or its workflow run is on its way out.
LEMMA ParkedStay ==
    ASSUME InboxInv,
           \A s \in Steps : pending'[s] # 0 =>
              /\ pending[s] # 0
              /\ \/ workflow'[workflowOf[s]] \in {"cancelling", "rowClosed"}
                 \/ /\ workflow'[workflowOf[s]] = workflow[workflowOf[s]]
                    /\ \A e \in Ids : open(e) /\ rows[e].key = s =>
                                        open(e)' /\ rows'[e].key = s
    PROVE  ParkedHasOpenRow'
<1> SUFFICES ASSUME NEW s \in Steps, pending'[s] # 0,
                    workflow'[workflowOf[s]] \notin {"cancelling", "rowClosed"}
             PROVE  openOf(s)' # {}
  BY DEF ParkedHasOpenRow
<1>1. PICK e \in Ids : open(e) /\ rows[e].key = s
  BY DEF InboxInv, ParkedHasOpenRow, openOf
<1>2. open(e)' /\ rows'[e].key = s
  BY <1>1
<1> QED BY <1>2 DEF openOf

-----------------------------------------------------------------------------
(* The tick.                                                                *)

TickSet == [on : BOOLEAN, left : SUBSET Listed, seen : SUBSET Runs,
            awaits : SUBSET Runs, awaited : BOOLEAN]

\* The parts of a tick in flight.
LEMMA TickFacts ==
    ASSUME TypeOK
    PROVE  /\ NoTick \in TickSet /\ NoTick.on = FALSE /\ tick \in TickSet
           /\ tick.on \in BOOLEAN /\ tick.awaited \in BOOLEAN /\ tick.left \subseteq Listed
           /\ tick.seen \subseteq Runs /\ tick.awaits \subseteq Runs
BY DEF TypeOK, TickSet, NoTick

\* What taking a row off the list of a tick leaves of it.
LEMMA CheckedFacts ==
    ASSUME TypeOK, NEW x \in tick.left, NEW A \in SUBSET Runs, checked(x, A)
    PROVE  /\ tick' \in TickSet /\ tick'.on = tick.on /\ tick'.left = tick.left \ {x}
           /\ tick'.seen = tick.seen /\ tick'.awaits = A
           /\ tick'.awaited = (tick.awaited \/ A # {})
<1>1. tick \in TickSet
  BY DEF TypeOK, TickSet
<1>2. (tick.awaited \/ A # {}) \in BOOLEAN /\ tick.left \ {x} \in SUBSET Listed
  BY <1>1 DEF TickSet
<1> QED BY <1>1, <1>2 DEF checked, TickSet

-----------------------------------------------------------------------------
(* Every step keeps the invariant.                                          *)

\* Each action keeps the invariant: the request of a confirmation.
LEMMA RequestKeeps ==
    ASSUME InboxInv, NEW s \in Steps, NEW t \in Tickets, NEW d \in Ids, Request(s, t, d)
    PROVE  InboxInv'
<1> USE RowFacts, InboxAssumption DEF InboxInv, InboxAssumption, runVars, shellVars, bookVars
<1> DEFINE new == [step |-> s, row |-> d, answer |-> "parked"]
           old == answered({s}, "no")
<1>a. Opened("shell_confirmation", s, d)
  BY OpenedWhen DEF Request
<1>b. /\ new \in Ticket /\ new.step = s /\ new.row = d /\ new.answer = "parked"
      /\ t # 0 /\ ticket[t].answer = "none"
  BY DEF Request, Ticket, Ids, Tickets
<1>c. /\ ticket' \in [Tickets -> Ticket]
      /\ ticket'[t] = new
      /\ \A u \in Tickets \ {t} :
           /\ u = pending[s] => ticket'[u].answer = "no"
           /\ u # pending[s] => ticket'[u] = ticket[u]
  <2>1. \A u \in Tickets : ticket[u] \in Ticket /\ [ticket[u] EXCEPT !.answer = "no"] \in Ticket
                          /\ [ticket[u] EXCEPT !.answer = "no"].answer = "no"
    BY DEF TypeOK, Ticket
  <2>2. /\ old \in [Tickets -> Ticket]
        /\ \A u \in Tickets : /\ u = pending[s] => old[u].answer = "no"
                              /\ u # pending[s] => old[u] = ticket[u]
    BY <2>1 DEF answered
  <2> HIDE DEF new, old
  <2>3. ticket' = [old EXCEPT ![t] = new]
    BY DEF Request, new, old
  <2> QED BY <1>b, <2>2, <2>3
<1>d. pending' = [pending EXCEPT ![s] = t] /\ pending' \in [Steps -> 0 .. MaxTickets]
  BY DEF Request, TypeOK, Tickets
<1> HIDE DEF new, old
<1>1. TypeOK'
  BY <1>a, <1>c, <1>d DEF Request, TypeOK, Opened
<1>2. RowShape' /\ OneOpen'
  BY <1>a, OpeningKeepsRows
<1>3. TicketShape'
  <2> SUFFICES ASSUME NEW q \in Steps, pending'[q] # 0
               PROVE  /\ ticket'[pending'[q]].answer = "parked" /\ ticket'[pending'[q]].step = q
                      /\ \A e \in Ids : open(e)' /\ rows'[e].key = q =>
                                          ticket'[pending'[q]].row = e
    BY DEF TicketShape
  <2>1. CASE q = s
    <3>1. pending'[q] = t
      BY <1>d, <2>1 DEF TypeOK
    <3>2. open(d)' /\ rows'[d].key = s
      BY <1>a DEF Opened, openOf, open
    <3> QED BY <1>2, <1>b, <1>c, <2>1, <3>1, <3>2 DEF OneOpen
  <2>2. CASE q # s
    <3> DEFINE n == pending[q]
    <3>0. pending'[q] = n /\ n # 0 /\ n \in Tickets
      BY <1>d, <2>2 DEF TypeOK, Tickets
    <3>1. n # t /\ n # pending[s]
      BY <1>b, <2>2, <3>0 DEF TicketShape
    <3>2. ticket'[n] = ticket[n]
      BY <1>c, <3>0, <3>1
    <3>3. \A e \in Ids : open(e)' /\ rows'[e].key = q => open(e) /\ rows[e].key = q
      BY <1>a, <2>2 DEF Opened, openOf, open
    <3> QED BY <3>0, <3>2, <3>3 DEF TicketShape
  <2> QED BY <2>1, <2>2
<1>4. ApprovalRunsOnce'
  <2>1. \A u \in Tickets : ticket'[u].answer = "yes" => ticket'[u] = ticket[u]
    BY <1>b, <1>c
  <2>2. \A e \in Ids : rows[e].status = "resolved" => rows'[e] = rows[e]
    BY <1>a DEF Opened
  <2> QED BY <2>1, <2>2, ApprovalsStay
<1>5. ParkedHasOpenRow'
  <2>1. open(d)' /\ rows'[d].key = s
    BY <1>a DEF Opened, openOf, open
  <2>2. ASSUME NEW q \in Steps, q # s, pending'[q] # 0,
               workflow'[workflowOf[q]] \notin {"cancelling", "rowClosed"}
        PROVE  openOf(q)' # {}
    <3>1. pending[q] # 0 /\ workflow' = workflow
      BY <1>d, <2>2 DEF Request, TypeOK
    <3>2. PICK e \in Ids : open(e) /\ rows[e].key = q
      BY <2>2, <3>1 DEF ParkedHasOpenRow, openOf
    <3>3. open(e)' /\ rows'[e].key = q
      BY <1>a, <3>2 DEF Opened, openOf, open
    <3> QED BY <3>3 DEF openOf
  <2> QED BY <2>1, <2>2 DEF ParkedHasOpenRow, openOf
<1>6. StalledRowHasRun'
  BY <1>a DEF Request, StalledRowHasRun, Opened, open, openOf, isActive
<1>7. DownShape' /\ TickShape'
  BY DEF Request, DownShape, TickShape, quiet
<1> QED BY <1>1, <1>2, <1>3, <1>4, <1>5, <1>6, <1>7

\* Each action keeps the invariant: decisions and workflow runs.
LEMMA CancelWorkflowKeeps ==
    ASSUME InboxInv, NEW w \in Workflows, CancelWorkflow(w)
    PROVE  InboxInv'
<1> USE RowFacts, InboxAssumption DEF InboxInv, InboxAssumption, runVars, shellVars, bookVars
<1>1. TypeOK'
  BY DEF CancelWorkflow, TypeOK
<1>2. ParkedHasOpenRow'
  BY DEF CancelWorkflow, TypeOK, ParkedHasOpenRow, open, openOf
<1>3. RowShape' /\ OneOpen' /\ TicketShape' /\ DownShape' /\ TickShape'
      /\ ApprovalRunsOnce' /\ StalledRowHasRun'
  BY DEF CancelWorkflow, RowShape, OneOpen, TicketShape, DownShape, TickShape,
         ApprovalRunsOnce, StalledRowHasRun, open, isActive
<1> QED BY <1>1, <1>2, <1>3

LEMMA ResolveShellKeeps ==
    ASSUME InboxInv, NEW d \in Ids, NEW option, ResolveShell(d, option)
    PROVE  InboxInv'
<1> USE RowFacts, InboxAssumption DEF InboxInv, InboxAssumption, runVars, shellVars, bookVars
<1>a. Closes({d}, "resolved", [e \in Ids |-> option])
  BY ClosesWhen DEF ResolveShell, Closed, Options
<1>b. \E answer \in {"yes", "no"} : /\ answer = "yes" <=> option = "approve"
                                    /\ Answered(stepsOf({d}), answer)
  BY AnsweredWhen DEF ResolveShell, settle, Answers
<1>c. pending' \in [Steps -> 0 .. MaxTickets]
      /\ \A s \in Steps : pending'[s] = IF s \in stepsOf({d}) THEN 0 ELSE pending[s]
  BY Unparked DEF ResolveShell, settle
<1>1. TypeOK'
  <2>1. /\ rows' \in [Ids -> Row] /\ ticket' \in [Tickets -> Ticket]
        /\ pending' \in [Steps -> 0 .. MaxTickets]
    BY <1>a, <1>b, <1>c DEF Closes, Answered
  <2>2. acted' \subseteq Ids
    BY DEF ResolveShell, TypeOK
  <2> QED BY <2>1, <2>2 DEF ResolveShell, TypeOK
<1>2. RowShape' /\ OneOpen'
  BY <1>a, ClosingKeepsRows DEF Closed
<1>3. TicketShape'
  <2>1. stepsOf({d}) \in SUBSET Steps
    BY DEF stepsOf
  <2> QED BY <1>a, <1>b, <1>c, <2>1, OthersStayParked, TicketsStay DEF Closes
<1>4. DownShape'
  BY <1>a, <1>b, <1>c DEF ResolveShell, TypeOK, DownShape, Closes, Answered
<1>5. ApprovalRunsOnce'
  <2> DEFINE s == rows[d].key
             n == pending[s]
  <2>1. d \in Ids /\ s \in Steps /\ rows[d].status = "open"
    BY DEF ResolveShell, RowShape, open
  <2>2. CASE option = "reject" \/ pending[s] = 0
    <3>1. \A t \in Tickets : ticket'[t].answer = "yes" => ticket'[t] = ticket[t]
      BY <1>b, <2>1, <2>2 DEF Answered, stepsOf
    <3> QED BY <1>a, <3>1, ApprovalsStay, ResolvedStay
  <2>3. CASE option = "approve" /\ pending[s] # 0
    <3>1. /\ n \in Tickets /\ ticket[n].answer = "parked"
          /\ ticket[n].step = s /\ ticket[n].row = d
      BY <2>1, <2>3 DEF TypeOK, Tickets, TicketShape, open
    <3>2. stepsOf({d}) = {s}
      BY <2>1, <2>3 DEF stepsOf
    <3>3. \A t \in Tickets : ticket'[t].answer = "yes" => t = n \/ ticket'[t] = ticket[t]
      BY <1>b, <3>2 DEF Answered
    <3>4. ticket'[n].step = s /\ ticket'[n].row = d
      BY <1>b, <3>1 DEF Answered
    <3>5. /\ rows'[d].key = s /\ rows'[d].status = "resolved" /\ rows'[d].option = "approve"
          /\ \A e \in Ids : rows[e].status = "resolved" => rows'[e] = rows[e]
      BY <1>a, <2>1, <2>3, ResolvedStay DEF Closes, open
    <3>6. \A t \in Tickets : t # n /\ ticket'[t].answer = "yes" => ticket'[t].row # d
      BY <2>1, <3>3 DEF ApprovalRunsOnce
    <3> HIDE DEF n, s
    <3> QED BY <2>1, <3>1, <3>3, <3>4, <3>5, <3>6 DEF ApprovalRunsOnce
  <2> QED BY <2>2, <2>3 DEF ResolveShell
<1>6. ParkedHasOpenRow'
  <2>1. ASSUME NEW s \in Steps, pending'[s] # 0, NEW e \in Ids, open(e), rows[e].key = s
        PROVE  open(e)' /\ rows'[e].key = s
    BY <1>a, <1>c, <2>1 DEF Closes, stepsOf
  <2>2. \A s \in Steps : pending'[s] # 0 => pending[s] # 0
    BY <1>c
  <2> QED BY <2>1, <2>2, ParkedStay DEF ResolveShell
<1>7. StalledRowHasRun'
  BY <1>a, <1>b, <1>c DEF ResolveShell, TypeOK, StalledRowHasRun, open,
                          isActive, Closes, Answered
<1>8. TickShape'
  BY DEF ResolveShell, TickShape
<1> QED BY <1>1, <1>2, <1>3, <1>4, <1>5, <1>6, <1>7, <1>8

LEMMA CancelStepKeeps ==
    ASSUME InboxInv, NEW s \in Steps, CancelStep(s)
    PROVE  InboxInv'
<1> USE RowFacts, InboxAssumption DEF InboxInv, InboxAssumption, runVars, shellVars, bookVars
<1>a. Closes(ofWorkflow(workflowOf[s]), "cancelled", noOption)
  BY ClosesWhen DEF CancelStep, noOption, Closed, Options
<1>b. Answered({s}, "no")
  BY AnsweredWhen DEF CancelStep, settle, Answers
<1>c. pending' \in [Steps -> 0 .. MaxTickets]
      /\ \A q \in Steps : pending'[q] = IF q \in {s} THEN 0 ELSE pending[q]
  BY Unparked DEF CancelStep, settle
<1>1. TypeOK'
  BY <1>a, <1>b, <1>c DEF CancelStep, TypeOK, Closes, Answered
<1>2. RowShape' /\ OneOpen'
  BY <1>a, ClosingKeepsRows DEF Closed
<1>3. TicketShape'
  <2>1. {s} \in SUBSET Steps
    BY DEF stepsOf
  <2> QED BY <1>a, <1>b, <1>c, <2>1, OthersStayParked, TicketsStay DEF Closes
<1>4. DownShape'
  BY <1>a, <1>b, <1>c DEF CancelStep, TypeOK, DownShape, Closes, Answered
<1>5. ApprovalRunsOnce'
  BY <1>a, <1>b, ApprovalsStay, ResolvedStay, NobodyApproved
<1>6. ParkedHasOpenRow'
  BY <1>a, <1>b, <1>c DEF CancelStep, TypeOK, ParkedHasOpenRow, open, openOf,
                          Closes, Answered, stepsOf, ofWorkflow
<1>7. StalledRowHasRun'
  BY <1>a, <1>b, <1>c DEF CancelStep, TypeOK, StalledRowHasRun, open, isActive,
                          Closes, Answered
<1>8. TickShape'
  BY DEF CancelStep, TickShape
<1> QED BY <1>1, <1>2, <1>3, <1>4, <1>5, <1>6, <1>7, <1>8

LEMMA CloseWorkflowKeeps ==
    ASSUME InboxInv, NEW w \in Workflows, CloseWorkflow(w)
    PROVE  InboxInv'
<1> USE RowFacts, InboxAssumption DEF InboxInv, InboxAssumption, runVars, shellVars, bookVars
<1>a. Closes(ofWorkflow(w), "cancelled", noOption)
  BY ClosesWhen DEF CloseWorkflow, noOption, Closed, Options
<1>1. TypeOK'
  BY <1>a DEF CloseWorkflow, parkedIn, TypeOK, Closes
<1>2. RowShape' /\ OneOpen'
  BY <1>a, ClosingKeepsRows DEF Closed
<1>3. TicketShape'
  BY <1>a DEF CloseWorkflow, parkedIn, TypeOK, TicketShape, open, Closes
<1>4. ApprovalRunsOnce'
  BY <1>a, ApprovalsStay, ResolvedStay DEF CloseWorkflow
<1>5. ParkedHasOpenRow'
  <2> SUFFICES ASSUME NEW s \in Steps, pending'[s] # 0
               PROVE  /\ pending[s] # 0
                      /\ \/ workflow'[workflowOf[s]] \in {"cancelling", "rowClosed"}
                         \/ /\ workflow'[workflowOf[s]] = workflow[workflowOf[s]]
                            /\ \A e \in Ids : open(e) /\ rows[e].key = s =>
                                                open(e)' /\ rows'[e].key = s
    BY ParkedStay
  <2>1. pending[s] # 0
    BY DEF CloseWorkflow
  <2>2. CASE workflowOf[s] = w
    BY <2>1, <2>2 DEF CloseWorkflow, parkedIn, TypeOK
  <2>3. CASE workflowOf[s] # w
    BY <1>a, <2>1, <2>3 DEF CloseWorkflow, ofWorkflow, Closes, TypeOK
  <2> QED BY <2>2, <2>3
<1>6. StalledRowHasRun'
  BY <1>a DEF CloseWorkflow, parkedIn, TypeOK, StalledRowHasRun, open,
              isActive, Closes
<1>7. DownShape' /\ TickShape'
  BY DEF CloseWorkflow, parkedIn, DownShape, TickShape
<1> QED BY <1>1, <1>2, <1>3, <1>4, <1>5, <1>6, <1>7

\* Each action keeps the invariant: Agent runs.
LEMMA LaunchRunKeeps ==
    ASSUME InboxInv, NEW r \in Runs, LaunchRun(r)
    PROVE  InboxInv'
<1> USE RowFacts, InboxAssumption DEF InboxInv, InboxAssumption, runVars, shellVars, bookVars
<1>1. TypeOK'
  BY DEF LaunchRun, TypeOK
<1>2. TickShape'
  BY DEF LaunchRun, TypeOK, TickShape, quiet, DownShape
<1>3. StalledRowHasRun'
  BY DEF LaunchRun, TypeOK, StalledRowHasRun, open, isActive
<1>4. RowShape' /\ OneOpen' /\ TicketShape' /\ DownShape' /\ ApprovalRunsOnce'
      /\ ParkedHasOpenRow'
  BY DEF LaunchRun, RowShape, OneOpen, TicketShape, DownShape,
         ApprovalRunsOnce, ParkedHasOpenRow, open, openOf
<1> QED BY <1>1, <1>2, <1>3, <1>4

LEMMA LaunchedKeeps ==
    ASSUME InboxInv, NEW r \in Runs, Launched(r)
    PROVE  InboxInv'
<1> USE RowFacts, InboxAssumption DEF InboxInv, InboxAssumption, runVars, shellVars, bookVars
<1>1. TypeOK'
  BY DEF Launched, TypeOK
<1>2. TickShape'
  BY DEF Launched, TypeOK, TickShape, quiet, DownShape
<1>3. StalledRowHasRun'
  BY DEF Launched, TypeOK, StalledRowHasRun, open, isActive
<1>4. RowShape' /\ OneOpen' /\ TicketShape' /\ DownShape' /\ ApprovalRunsOnce'
      /\ ParkedHasOpenRow'
  BY DEF Launched, RowShape, OneOpen, TicketShape, DownShape, ApprovalRunsOnce,
         ParkedHasOpenRow, open, openOf
<1> QED BY <1>1, <1>2, <1>3, <1>4

LEMMA RunEndsKeeps ==
    ASSUME InboxInv, NEW r \in Runs, RunEnds(r)
    PROVE  InboxInv'
<1> USE RowFacts, InboxAssumption DEF InboxInv, InboxAssumption, runVars, shellVars, bookVars
<1>a. Closes(ofRun(r), "cancelled", noOption)
  BY ClosesWhen DEF RunEnds, runEnds, noOption, Closed, Options
<1>1. TypeOK'
  BY <1>a DEF RunEnds, runEnds, TypeOK, Closes
<1>2. RowShape' /\ OneOpen'
  BY <1>a, ClosingKeepsRows DEF Closed
<1>3. TicketShape'
  BY <1>a DEF RunEnds, runEnds, TypeOK, TicketShape, open, Closes
<1>4. TickShape'
  BY <1>a DEF RunEnds, runEnds, TypeOK, TickShape, Closes, quiet, DownShape
<1>5. ApprovalRunsOnce'
  BY <1>a, ApprovalsStay, ResolvedStay DEF RunEnds
<1>6. ParkedHasOpenRow'
  BY <1>a DEF RunEnds, runEnds, TypeOK, ParkedHasOpenRow, open, openOf, Closes,
              ofRun
<1>7. StalledRowHasRun'
  BY <1>a DEF RunEnds, runEnds, TypeOK, StalledRowHasRun, open, isActive,
              Closes, ofRun
<1>8. DownShape'
  BY DEF RunEnds, runEnds, DownShape
<1> QED BY <1>1, <1>2, <1>3, <1>4, <1>5, <1>6, <1>7, <1>8

LEMMA StopEndsKeeps ==
    ASSUME InboxInv, NEW r \in Runs, StopEnds(r)
    PROVE  InboxInv'
<1> USE RowFacts, InboxAssumption DEF InboxInv, InboxAssumption, runVars, shellVars, bookVars
<1>a. \/ rows' = rows /\ run' = run
      \/ runEnds(r) /\ Closes(ofRun(r), "cancelled", noOption)
  BY ClosesWhen DEF StopEnds, runEnds, noOption, Closed, Options
<1>1. TypeOK'
  BY <1>a DEF StopEnds, runEnds, TypeOK, Closes
<1>2. RowShape' /\ OneOpen'
  BY <1>a, ClosingKeepsRows DEF Closed, RowShape, OneOpen, open
<1>3. TicketShape'
  BY <1>a DEF StopEnds, runEnds, TypeOK, TicketShape, open, Closes
<1>4. TickShape'
  BY <1>a DEF StopEnds, runEnds, TypeOK, TickShape, Closes, quiet, DownShape
<1>5. ApprovalRunsOnce'
  BY <1>a, ApprovalsStay, ResolvedStay DEF StopEnds
<1>6. ParkedHasOpenRow'
  BY <1>a DEF StopEnds, runEnds, TypeOK, ParkedHasOpenRow, open, openOf,
              Closes, ofRun
<1>7. StalledRowHasRun'
  <2>1. CASE rows' = rows /\ run' = run
    BY <2>1 DEF StopEnds, StalledRowHasRun, open, isActive
  <2>2. CASE runEnds(r) /\ Closes(ofRun(r), "cancelled", noOption)
    <3>1. ASSUME NEW d \in Ids, open(d)', rows'[d].kind = "stalled_run", d \notin staleRows
          PROVE  isActive(rows[d].key)'
      <4>1. /\ open(d) /\ rows[d].kind = "stalled_run" /\ rows[d].key # r
            /\ rows'[d].key = rows[d].key /\ rows[d].key \in Runs
        BY <2>2, <3>1 DEF Closes, ofRun, RowShape
      <4>2. isActive(rows[d].key)
        BY <3>1, <4>1 DEF StalledRowHasRun
      <4> QED BY <2>2, <4>1, <4>2 DEF runEnds, isActive, TypeOK
    <3> QED BY <3>1 DEF StalledRowHasRun, StopEnds
  <2> QED BY <1>a, <2>1, <2>2
<1>8. DownShape'
  BY DEF StopEnds, runEnds, DownShape
<1> QED BY <1>1, <1>2, <1>3, <1>4, <1>5, <1>6, <1>7, <1>8

LEMMA GrowsLateKeeps ==
    ASSUME InboxInv, NEW r \in Runs, GrowsLate(r)
    PROVE  InboxInv'
<1> USE RowFacts, InboxAssumption DEF InboxInv, InboxAssumption, runVars, shellVars, bookVars
<1>1. TypeOK'
  BY DEF GrowsLate, TypeOK
<1>2. TickShape'
  BY DEF GrowsLate, TypeOK, TickShape, quiet, DownShape
<1>3. RowShape' /\ OneOpen' /\ TicketShape' /\ DownShape' /\ ApprovalRunsOnce'
      /\ ParkedHasOpenRow' /\ StalledRowHasRun'
  BY DEF GrowsLate, RowShape, OneOpen, TicketShape, DownShape,
         ApprovalRunsOnce, ParkedHasOpenRow, StalledRowHasRun, open, openOf,
         isActive
<1> QED BY <1>1, <1>2, <1>3

LEMMA FallsSilentKeeps ==
    ASSUME InboxInv, NEW r \in Runs, FallsSilent(r)
    PROVE  InboxInv'
<1> USE RowFacts, InboxAssumption DEF InboxInv, InboxAssumption, runVars, shellVars, bookVars
<1>1. TypeOK'
  BY DEF FallsSilent, TypeOK
<1>2. TickShape'
  BY DEF FallsSilent, TypeOK, TickShape, quiet, DownShape
<1>3. RowShape' /\ OneOpen' /\ TicketShape' /\ DownShape' /\ ApprovalRunsOnce'
      /\ ParkedHasOpenRow' /\ StalledRowHasRun'
  BY DEF FallsSilent, RowShape, OneOpen, TicketShape, DownShape,
         ApprovalRunsOnce, ParkedHasOpenRow, StalledRowHasRun, open, openOf,
         isActive
<1> QED BY <1>1, <1>2, <1>3

LEMMA OutputKeeps ==
    ASSUME InboxInv, NEW r \in Runs, Output(r)
    PROVE  InboxInv'
<1> USE RowFacts, InboxAssumption DEF InboxInv, InboxAssumption, runVars, shellVars, bookVars
<1>1. TypeOK'
  <2>1. {IF x.run = r THEN [x EXCEPT !.silent = FALSE] ELSE x : x \in tick.left}
          \in SUBSET Listed
    BY TickFacts DEF Listed
  <2>2. tick' \in TickSet
    BY <2>1, TickFacts DEF Output, TickSet
  <2> QED BY <2>2 DEF Output, TypeOK, TickSet
<1>2. DownShape'
  BY DEF Output, TypeOK, DownShape, NoTick
<1>3. TickShape'
  BY DEF Output, TypeOK, TickShape, NoTick, quiet, DownShape
<1>4. RowShape' /\ OneOpen' /\ TicketShape' /\ ApprovalRunsOnce'
      /\ ParkedHasOpenRow' /\ StalledRowHasRun'
  BY DEF Output, RowShape, OneOpen, TicketShape, ApprovalRunsOnce,
         ParkedHasOpenRow, StalledRowHasRun, open, openOf, isActive
<1> QED BY <1>1, <1>2, <1>3, <1>4

\* Each action keeps the invariant: answers and deadlines.
LEMMA ResolveStalledKeeps ==
    ASSUME InboxInv, NEW d \in Ids, NEW option, ResolveStalled(d, option)
    PROVE  InboxInv'
<1> USE RowFacts, InboxAssumption DEF InboxInv, InboxAssumption, runVars, shellVars, bookVars
<1>a. Closes({d}, "resolved", [e \in Ids |-> option])
  BY ClosesWhen DEF ResolveStalled, Closed, Options
<1>1. TypeOK'
  <2>1. rows' \in [Ids -> Row] /\ rows[d].key \in Runs
    BY <1>a DEF Closes, ResolveStalled, RowShape
  <2>2. stopping' \subseteq Runs /\ silent' \subseteq Runs /\ notified' \subseteq Runs
        /\ run' = run /\ launching' = launching /\ late' = late /\ silences' = silences
    BY <2>1 DEF ResolveStalled, stopAwaited, acknowledgeIdle, TypeOK
  <2>3. acted' \subseteq Ids
    BY DEF ResolveStalled, TypeOK
  <2> QED BY <2>1, <2>2, <2>3 DEF ResolveStalled, TypeOK
<1>2. RowShape' /\ OneOpen'
  BY <1>a, ClosingKeepsRows DEF Closed
<1>3. TicketShape'
  BY <1>a, TicketsStay DEF ResolveStalled, Closes
<1>4. TickShape'
  BY <1>a DEF ResolveStalled, acknowledgeIdle, stopAwaited, TypeOK, TickShape,
              Closes, quiet, DownShape
<1>5. ApprovalRunsOnce'
  BY <1>a, ApprovalsStay, ResolvedStay DEF ResolveStalled
<1>6. ParkedHasOpenRow'
  <2>1. \A e \in Ids : open(e) /\ rows[e].key \in Steps =>
                         open(e)' /\ rows'[e].key = rows[e].key
    BY <1>a DEF Closes, ResolveStalled, RowShape
  <2> QED BY <2>1, ParkedStay DEF ResolveStalled
<1>7. StalledRowHasRun'
  BY <1>a DEF ResolveStalled, acknowledgeIdle, stopAwaited, TypeOK,
              StalledRowHasRun, open, isActive, Closes
<1>8. DownShape'
  BY DEF ResolveStalled, acknowledgeIdle, stopAwaited, DownShape
<1> QED BY <1>1, <1>2, <1>3, <1>4, <1>5, <1>6, <1>7, <1>8

LEMMA DeadlinePassesKeeps ==
    ASSUME InboxInv, NEW d \in Ids, DeadlinePasses(d)
    PROVE  InboxInv'
<1> USE RowFacts, InboxAssumption DEF InboxInv, InboxAssumption, runVars, shellVars, bookVars
<1>a. /\ rows' \in [Ids -> Row]
      /\ \A e \in Ids : /\ rows'[e].key = rows[e].key /\ rows'[e].kind = rows[e].kind
                        /\ rows'[e].status = rows[e].status
                        /\ rows[e].status # "open" => rows'[e] = rows[e]
  BY DEF DeadlinePasses, TypeOK, Row, open
<1>1. TypeOK'
  BY <1>a DEF DeadlinePasses, TypeOK
<1>2. RowShape'
  BY <1>a DEF DeadlinePasses, TypeOK, RowShape
<1>3. OneOpen'
  BY <1>a DEF DeadlinePasses, TypeOK, OneOpen, open
<1>4. TicketShape'
  BY <1>a DEF DeadlinePasses, TypeOK, TicketShape, open
<1>5. ApprovalRunsOnce'
  BY <1>a DEF DeadlinePasses, TypeOK, ApprovalRunsOnce
<1>6. ParkedHasOpenRow'
  BY <1>a DEF DeadlinePasses, TypeOK, ParkedHasOpenRow, open, openOf
<1>7. StalledRowHasRun'
  BY <1>a DEF DeadlinePasses, TypeOK, StalledRowHasRun, open, isActive
<1>8. DownShape' /\ TickShape'
  BY DEF DeadlinePasses, DownShape, TickShape
<1> QED BY <1>1, <1>2, <1>3, <1>4, <1>5, <1>6, <1>7, <1>8

\* Each action keeps the invariant: the tick.
LEMMA TickStartsKeeps ==
    ASSUME InboxInv, TickStarts
    PROVE  InboxInv'
<1> USE RowFacts, InboxAssumption DEF InboxInv, InboxAssumption, runVars, shellVars, bookVars
<1>1. TypeOK'
  <2> DEFINE now(r) == [run |-> r, status |-> run[r], late |-> r \in late,
                        silent |-> r \in silent]
             listed == {r \in Runs : isActive(r)}
  <2>1. \A r \in listed : now(r) \in Listed
    BY DEF Listed, isActive, TypeOK
  <2>2. {now(r) : r \in listed} \in SUBSET Listed /\ listed \in SUBSET Runs
    BY <2>1
  <2> HIDE DEF now, listed
  <2>3. tick' = [NoTick EXCEPT !.on = TRUE, !.seen = listed, !.left = {now(r) : r \in listed}]
    BY DEF TickStarts, now, listed
  <2>4. tick' \in TickSet
    BY <2>2, <2>3, TickFacts DEF TickSet
  <2> QED BY <2>4 DEF TickStarts, TypeOK, TickSet
<1>2. DownShape'
  BY DEF TickStarts, TypeOK, DownShape, NoTick
<1>3. TickShape'
  BY DEF TickStarts, TypeOK, TickShape, NoTick
<1>4. RowShape' /\ OneOpen' /\ TicketShape' /\ ApprovalRunsOnce'
      /\ ParkedHasOpenRow' /\ StalledRowHasRun'
  BY DEF TickStarts, RowShape, OneOpen, TicketShape, ApprovalRunsOnce,
         ParkedHasOpenRow, StalledRowHasRun, open, openOf, isActive
<1> QED BY <1>1, <1>2, <1>3, <1>4

LEMMA CheckPreparingKeeps ==
    ASSUME InboxInv, NEW x \in tick.left, CheckPreparing(x)
    PROVE  InboxInv'
<1> USE RowFacts, InboxAssumption DEF InboxInv, InboxAssumption, runVars, shellVars, bookVars
<1>a. x.run \in Runs /\ x.late \in BOOLEAN /\ x.silent \in BOOLEAN
  BY DEF TypeOK, Listed
<1>b. /\ tick' \in TickSet /\ tick'.on = tick.on /\ tick'.left = tick.left \ {x}
      /\ tick'.awaited = (tick.awaited \/ tick'.awaits # {})
      /\ tick'.awaits # {} => tick'.awaits = {x.run} /\ stopping' = stopping \cup {x.run}
  BY <1>a, CheckedFacts DEF CheckPreparing, stopAwaited
<1>1. TypeOK'
  <2>1. stopping' \subseteq Runs /\ notified' \subseteq Runs /\ escalated' \subseteq Runs
        /\ run' = run /\ launching' = launching /\ late' = late /\ silent' = silent
        /\ silences' = silences
    BY <1>a DEF CheckPreparing, stopAwaited, TypeOK
  <2>2. conflicts' \in [Runs -> 0 .. WATCHDOG_MAX_PREPARING_CONFLICTS]
    BY <1>a DEF CheckPreparing, TypeOK, WATCHDOG_MAX_PREPARING_CONFLICTS
  <2> QED BY <1>b, <2>1, <2>2 DEF CheckPreparing, TypeOK, TickSet
<1>2. DownShape'
  BY <1>a, <1>b DEF CheckPreparing, stopAwaited, tickFree, TypeOK, DownShape
<1>3. TickShape'
  BY <1>a, <1>b DEF CheckPreparing, stopAwaited, tickFree, TypeOK, TickShape
<1>4. RowShape' /\ OneOpen' /\ TicketShape' /\ ApprovalRunsOnce'
      /\ ParkedHasOpenRow' /\ StalledRowHasRun'
  BY DEF CheckPreparing, stopAwaited, tickFree, RowShape, OneOpen, TicketShape,
         ApprovalRunsOnce, ParkedHasOpenRow, StalledRowHasRun, open, openOf,
         isActive
<1> QED BY <1>1, <1>2, <1>3, <1>4

LEMMA CheckIdleKeeps ==
    ASSUME InboxInv, NEW x \in tick.left, CheckIdle(x)
    PROVE  InboxInv'
<1> USE RowFacts, InboxAssumption DEF InboxInv, InboxAssumption, runVars, shellVars, bookVars
<1>a. x.run \in Runs /\ x.late \in BOOLEAN /\ x.silent \in BOOLEAN
  BY DEF TypeOK, Listed
<1>b. \/ rows' = rows /\ staleRows' = staleRows
      \/ \E d \in Ids : /\ Opened("stalled_run", x.run, d)
                       /\ staleRows' = IF isActive(x.run) THEN staleRows ELSE staleRows \cup {d}
  BY <1>a, OpenedWhen DEF CheckIdle
<1>c. /\ tick' \in TickSet /\ tick'.on = tick.on /\ tick'.left = tick.left \ {x}
      /\ tick'.awaited = (tick.awaited \/ tick'.awaits # {})
      /\ tick'.awaits # {} => tick'.awaits = {x.run} /\ stopping' = stopping \cup {x.run}
  BY <1>a, CheckedFacts DEF CheckIdle, stopAwaited
<1>1. TypeOK'
  BY <1>a, <1>b, <1>c DEF CheckIdle, stopAwaited, tickFree, TypeOK, Opened,
                          TickSet
<1>2. RowShape' /\ OneOpen'
  BY <1>a, <1>b, OpeningKeepsRows DEF RowShape, OneOpen, open
<1>3. TicketShape'
  BY <1>a, <1>b, <1>c DEF CheckIdle, stopAwaited, tickFree, TypeOK,
                          TicketShape, open, Opened
<1>4. DownShape'
  BY <1>a, <1>b, <1>c DEF CheckIdle, stopAwaited, tickFree, TypeOK, DownShape,
                          Opened
<1>5. TickShape'
  BY <1>a, <1>b, <1>c DEF CheckIdle, stopAwaited, tickFree, TypeOK, TickShape,
                          Opened
<1>6. ApprovalRunsOnce'
  BY <1>a, <1>b, <1>c DEF CheckIdle, stopAwaited, tickFree, TypeOK,
                          ApprovalRunsOnce, Opened
<1>7. ParkedHasOpenRow'
  BY <1>a, <1>b, <1>c DEF CheckIdle, stopAwaited, tickFree, TypeOK,
                          ParkedHasOpenRow, open, openOf, Opened
<1>8. StalledRowHasRun'
  BY <1>a, <1>b, <1>c DEF CheckIdle, stopAwaited, tickFree, TypeOK,
                          StalledRowHasRun, open, isActive, Opened
<1> QED BY <1>1, <1>2, <1>3, <1>4, <1>5, <1>6, <1>7, <1>8

LEMMA TickEndsKeeps ==
    ASSUME InboxInv, TickEnds
    PROVE  InboxInv'
<1> USE RowFacts, InboxAssumption DEF InboxInv, InboxAssumption, runVars, shellVars, bookVars
<1>a. Closes(due, "expired", timeoutDefault)
  BY ClosesWhen DEF TickEnds, timeoutDefault, Closed, Options
<1>b. Answered(stepsOf(due), "no")
  BY AnsweredWhen DEF TickEnds, settle, Answers
<1>c. pending' \in [Steps -> 0 .. MaxTickets]
      /\ \A s \in Steps : pending'[s] = IF s \in stepsOf(due) THEN 0 ELSE pending[s]
  BY Unparked DEF TickEnds, settle
<1>1. TypeOK'
  <2>1. silent' \subseteq Runs /\ notified' \subseteq Runs /\ escalated' \subseteq Runs
    BY DEF TickEnds, TypeOK
  <2>2. conflicts' \in [Runs -> 0 .. WATCHDOG_MAX_PREPARING_CONFLICTS]
    BY DEF TickEnds, TypeOK, WATCHDOG_MAX_PREPARING_CONFLICTS
  <2>3. acted' \subseteq Ids
    BY DEF TickEnds, TypeOK, due
  <2>4. tick' \in TickSet
    BY TickFacts DEF TickEnds
  <2>5. rows' \in [Ids -> Row] /\ ticket' \in [Tickets -> Ticket]
        /\ pending' \in [Steps -> 0 .. MaxTickets]
    BY <1>a, <1>b, <1>c DEF Closes, Answered
  <2> QED BY <2>1, <2>2, <2>3, <2>4, <2>5 DEF TickEnds, TypeOK, TickSet
<1>2. RowShape' /\ OneOpen'
  BY <1>a, ClosingKeepsRows DEF Closed
<1>3. TicketShape'
  <2>1. stepsOf(due) \in SUBSET Steps
    BY DEF stepsOf
  <2> QED BY <1>a, <1>b, <1>c, <2>1, OthersStayParked, TicketsStay DEF Closes
<1>4. DownShape'
  BY <1>a, <1>b, <1>c DEF TickEnds, tickFree, due, TypeOK, DownShape, Closes,
                          Answered, NoTick
<1>5. TickShape'
  BY <1>a, <1>b, <1>c DEF TickEnds, tickFree, due, TypeOK, TickShape, Closes,
                          Answered, NoTick
<1>6. ApprovalRunsOnce'
  BY <1>a, <1>b, ApprovalsStay, ResolvedStay, NobodyApproved
<1>7. ParkedHasOpenRow'
  <2>1. ASSUME NEW s \in Steps, pending'[s] # 0, NEW e \in Ids, open(e), rows[e].key = s
        PROVE  open(e)' /\ rows'[e].key = s
    BY <1>a, <1>c, <2>1 DEF Closes, stepsOf
  <2>2. \A s \in Steps : pending'[s] # 0 => pending[s] # 0
    BY <1>c
  <2> QED BY <2>1, <2>2, ParkedStay DEF TickEnds
<1>8. StalledRowHasRun'
  BY <1>a, <1>b, <1>c DEF TickEnds, tickFree, due, TypeOK, StalledRowHasRun,
                          open, isActive, Closes, Answered
<1> QED BY <1>1, <1>2, <1>3, <1>4, <1>5, <1>6, <1>7, <1>8

\* Each action keeps the invariant: the end and the start of an instance.
LEMMA CrashKeeps ==
    ASSUME InboxInv, Crash
    PROVE  InboxInv'
<1> USE RowFacts, InboxAssumption DEF InboxInv, InboxAssumption, runVars, shellVars, bookVars
<1>a. Answered(Steps, "lost")
  BY AnsweredWhen DEF Crash, settle, Answers
<1>1. TypeOK'
  <2>1. pending' \in [Steps -> 0 .. MaxTickets] /\ crashes' \in Nat
        /\ conflicts' \in [Runs -> 0 .. WATCHDOG_MAX_PREPARING_CONFLICTS]
    BY DEF Crash, forgets, TypeOK, WATCHDOG_MAX_PREPARING_CONFLICTS
  <2>2. tick' \in TickSet
    BY TickFacts DEF Crash, forgets
  <2>3. workflow' \in [Workflows -> {"open", "cancelling", "ended", "rowClosed"}]
    BY DEF Crash, TypeOK
  <2>4. ticket' \in [Tickets -> Ticket] /\ stuck' \subseteq Steps
    BY <1>a DEF Crash, Answered, TypeOK
  <2> QED BY <2>1, <2>2, <2>3, <2>4 DEF Crash, forgets, TypeOK, TickSet
<1>2. TicketShape'
  BY <1>a DEF Crash, forgets, TypeOK, TicketShape, open, Closes, Answered
<1>3. DownShape'
  BY <1>a DEF Crash, forgets, TypeOK, DownShape, Closes, Answered, NoTick
<1>4. TickShape'
  BY <1>a DEF Crash, forgets, TypeOK, TickShape, Closes, Answered, NoTick
<1>5. ApprovalRunsOnce'
  BY <1>a DEF Crash, forgets, TypeOK, ApprovalRunsOnce, Closes, Answered
<1>6. ParkedHasOpenRow'
  BY <1>a DEF Crash, forgets, TypeOK, ParkedHasOpenRow, open, openOf, Closes,
              Answered
<1>7. RowShape' /\ OneOpen' /\ StalledRowHasRun'
  BY DEF Crash, forgets, RowShape, OneOpen, StalledRowHasRun, open, isActive
<1> QED BY <1>1, <1>2, <1>3, <1>4, <1>5, <1>6, <1>7

LEMMA DisposeKeeps ==
    ASSUME InboxInv, Dispose
    PROVE  InboxInv'
<1> USE RowFacts, InboxAssumption DEF InboxInv, InboxAssumption, runVars, shellVars, bookVars
<1> DEFINE D == {d \in Ids : rows[d].key \in Steps
                            \/ (rows[d].key \in Runs /\ isActive(rows[d].key))}
<1>a. Closes(D, "cancelled", noOption)
  <2>1. rows' = closedAs(D, "cancelled", noOption)
    BY DEF Dispose
  <2>2. noOption \in [Ids -> Options]
    BY DEF noOption, Options
  <2> HIDE DEF D
  <2> QED BY <2>1, <2>2, ClosesWhen DEF Closed
<1>b. Answered(Steps, "no")
  BY AnsweredWhen DEF Dispose, settle, Answers
<1>1. TypeOK'
  <2>1. pending' \in [Steps -> 0 .. MaxTickets] /\ crashes' \in Nat
        /\ conflicts' \in [Runs -> 0 .. WATCHDOG_MAX_PREPARING_CONFLICTS]
    BY DEF Dispose, forgets, TypeOK, WATCHDOG_MAX_PREPARING_CONFLICTS
  <2>2. tick' \in TickSet
    BY TickFacts DEF Dispose, forgets
  <2>3. workflow' \in [Workflows -> {"open", "cancelling", "ended", "rowClosed"}]
    BY DEF Dispose, TypeOK
  <2>4. rows' \in [Ids -> Row] /\ ticket' \in [Tickets -> Ticket]
        /\ run' \in [Runs -> {"none", "preparing", "running", "over", "interrupted"}]
    BY <1>a, <1>b DEF Dispose, Closes, Answered, TypeOK
  <2> QED BY <2>1, <2>2, <2>3, <2>4 DEF Dispose, forgets, TypeOK, TickSet
<1>2. RowShape' /\ OneOpen'
  BY <1>a, ClosingKeepsRows DEF Closed
<1>3. TicketShape'
  BY <1>a, <1>b DEF Dispose, forgets, TypeOK, TicketShape, open, Closes,
                    Answered
<1>4. DownShape'
  BY <1>a, <1>b DEF Dispose, forgets, TypeOK, DownShape, Closes, Answered,
                    NoTick
<1>5. TickShape'
  BY <1>a, <1>b DEF Dispose, forgets, TypeOK, TickShape, Closes, Answered,
                    NoTick
<1>6. ApprovalRunsOnce'
  BY <1>a, <1>b, ApprovalsStay, ResolvedStay, NobodyApproved
<1>7. ParkedHasOpenRow'
  BY <1>a, <1>b DEF Dispose, forgets, TypeOK, ParkedHasOpenRow, open, openOf,
                    Closes, Answered
<1>8. StalledRowHasRun'
  <2>1. ASSUME NEW d \in Ids, open(d)', rows'[d].kind = "stalled_run"
        PROVE  d \in staleRows
    <3>1. open(d) /\ d \notin D /\ rows[d].kind = "stalled_run"
      BY <1>a, <2>1 DEF Closes
    <3>2. rows[d].key \in Runs /\ ~isActive(rows[d].key)
      BY <3>1 DEF RowShape
    <3> QED BY <3>1, <3>2 DEF StalledRowHasRun
  <2> QED BY <2>1 DEF Dispose, StalledRowHasRun
<1> QED BY <1>1, <1>2, <1>3, <1>4, <1>5, <1>6, <1>7, <1>8

LEMMA BootKeeps ==
    ASSUME InboxInv, Boot
    PROVE  InboxInv'
<1> USE RowFacts, InboxAssumption DEF InboxInv, InboxAssumption, runVars, shellVars, bookVars
<1> DEFINE D == {d \in Ids : rows[d].kind = "shell_confirmation"}
<1>a. Closes(D, "expired", timeoutDefault)
  BY ClosesWhen DEF Boot, timeoutDefault, Closed, Options
<1>1. TypeOK'
  <2>1. rows' \in [Ids -> Row]
    BY <1>a DEF Closes
  <2>2. run' \in [Runs -> {"none", "preparing", "running", "over", "interrupted"}]
    BY DEF Boot, TypeOK
  <2>3. staleRows' \subseteq Ids
    BY DEF Boot, TypeOK, ofRun
  <2> QED BY <2>1, <2>2, <2>3 DEF Boot, TypeOK
<1>2. RowShape' /\ OneOpen'
  BY <1>a, ClosingKeepsRows DEF Closed
<1>3. TicketShape'
  BY <1>a DEF Boot, TypeOK, TicketShape, open, Closes, DownShape
<1>4. DownShape'
  BY <1>a DEF Boot, TypeOK, DownShape, Closes
<1>5. ApprovalRunsOnce'
  BY <1>a, ApprovalsStay, ResolvedStay DEF Boot
<1>6. ParkedHasOpenRow'
  BY <1>a DEF Boot, TypeOK, ParkedHasOpenRow, open, openOf, Closes, DownShape
<1>7. StalledRowHasRun'
  <2>1. ASSUME NEW d \in Ids, open(d)', rows'[d].kind = "stalled_run"
        PROVE  d \in staleRows'
    <3>1. open(d) /\ rows[d].kind = "stalled_run" /\ rows[d].key \in Runs
      BY <1>a, <2>1 DEF Closes, RowShape
    <3>2. CASE isActive(rows[d].key)
      BY <3>1, <3>2 DEF Boot, ofRun
    <3>3. CASE ~isActive(rows[d].key)
      BY <3>1, <3>3 DEF Boot, StalledRowHasRun
    <3> QED BY <3>2, <3>3
  <2> QED BY <2>1 DEF StalledRowHasRun
<1>8. TickShape'
  BY DEF Boot, TickShape
<1> QED BY <1>1, <1>2, <1>3, <1>4, <1>5, <1>6, <1>7, <1>8

-----------------------------------------------------------------------------
(* The invariant holds.                                                     *)

\* The invariant holds at first.
LEMMA InboxInitially ==
    ASSUME Init
    PROVE  InboxInv
<1> USE InboxAssumption DEF InboxAssumption, Init
<1>1. TypeOK
  <2>1. NoRow \in Row /\ NoTicket \in Ticket
    BY DEF NoRow, Row, NoTicket, Ticket
  <2>2. tick \in [on : BOOLEAN, left : SUBSET Listed, seen : SUBSET Runs,
                  awaits : SUBSET Runs, awaited : BOOLEAN]
    BY DEF NoTick
  <2>3. conflicts \in [Runs -> 0 .. WATCHDOG_MAX_PREPARING_CONFLICTS]
    BY DEF WATCHDOG_MAX_PREPARING_CONFLICTS
  <2> QED BY <2>1, <2>2, <2>3 DEF TypeOK
<1>2. \A d \in Ids : rows[d] = NoRow
  OBVIOUS
<1>3. \A d \in Ids : ~open(d) /\ rows[d].kind = "none" /\ rows[d].status = "none"
  BY <1>2 DEF open, NoRow
<1>4. RowShape /\ OneOpen /\ StalledRowHasRun
  BY <1>3 DEF RowShape, OneOpen, StalledRowHasRun
<1>5. TicketShape /\ ParkedHasOpenRow /\ DownShape /\ TickShape
  BY DEF TicketShape, ParkedHasOpenRow, DownShape, TickShape, NoTick
<1>6. ApprovalRunsOnce
  BY DEF ApprovalRunsOnce, NoTicket
<1> QED BY <1>1, <1>4, <1>5, <1>6 DEF InboxInv

\* Every step keeps the invariant.
LEMMA InboxStep ==
    ASSUME InboxInv, [InboxNext]_vars
    PROVE  InboxInv'
<1>1. ASSUME NEW s \in Steps, NEW t \in Tickets, NEW d \in Ids, Request(s, t, d)
      PROVE  InboxInv'
  BY <1>1, RequestKeeps
<1>2. ASSUME NEW d \in Ids, \/ ResolveShell(d, "approve") \/ ResolveShell(d, "reject")
                            \/ ResolveStalled(d, "keep_waiting") \/ ResolveStalled(d, "stop")
                            \/ DeadlinePasses(d)
      PROVE  InboxInv'
  BY <1>2, ResolveShellKeeps, ResolveStalledKeeps, DeadlinePassesKeeps
<1>3. ASSUME NEW w \in Workflows, CancelWorkflow(w) \/ CloseWorkflow(w)
      PROVE  InboxInv'
  BY <1>3, CancelWorkflowKeeps, CloseWorkflowKeeps
<1>4. ASSUME NEW s \in Steps, CancelStep(s)
      PROVE  InboxInv'
  BY <1>4, CancelStepKeeps
<1>5. ASSUME NEW r \in Runs, \/ LaunchRun(r) \/ Launched(r) \/ RunEnds(r) \/ StopEnds(r)
                             \/ GrowsLate(r) \/ FallsSilent(r) \/ Output(r)
      PROVE  InboxInv'
  BY <1>5, LaunchRunKeeps, LaunchedKeeps, RunEndsKeeps, StopEndsKeeps, GrowsLateKeeps,
     FallsSilentKeeps, OutputKeeps
<1>6. CASE TickStarts \/ TickEnds \/ \E x \in tick.left : CheckPreparing(x) \/ CheckIdle(x)
  BY <1>6, TickStartsKeeps, TickEndsKeeps, CheckPreparingKeeps, CheckIdleKeeps
<1>7. CASE Crash \/ Dispose \/ Boot
  BY <1>7, CrashKeeps, DisposeKeeps, BootKeeps
<1>8. CASE UNCHANGED vars
  <2> USE <1>8 DEF vars, runVars, shellVars, bookVars, InboxInv
  <2>1. TypeOK' /\ RowShape' /\ OneOpen' /\ TicketShape'
    BY DEF TypeOK, RowShape, OneOpen, TicketShape, open
  <2>2. DownShape' /\ TickShape'
    BY DEF DownShape, TickShape
  <2>3. ApprovalRunsOnce' /\ ParkedHasOpenRow' /\ StalledRowHasRun'
    BY DEF ApprovalRunsOnce, ParkedHasOpenRow, StalledRowHasRun, open, openOf, isActive
  <2> QED BY <2>1, <2>2, <2>3
<1> QED BY <1>1, <1>2, <1>3, <1>4, <1>5, <1>6, <1>7, <1>8 DEF InboxNext

-----------------------------------------------------------------------------
(* Theorems.                                                                *)

\* Rows, parked requests, runs and the watchdog's books keep their types.
THEOREM InboxTypes == Spec => []TypeOK
<1>1. InboxInv => TypeOK
  BY DEF InboxInv
<1> QED BY <1>1, InboxInitially, InboxStep, PTL DEF Spec

\* A command runs on an approval of the decision its step was parked on, and no
\* approval runs two, over duplicate requests, cancels, expiry and restarts.
THEOREM ApprovalsRunOneCommand == Spec => []ApprovalRunsOnce
<1>1. InboxInv => ApprovalRunsOnce
  BY DEF InboxInv
<1> QED BY <1>1, InboxInitially, InboxStep, PTL DEF Spec

\* No step is parked on a decision nobody can take any more, except in a
\* workflow run that is being cancelled or whose row another engine closed.
THEOREM ParkedStepsCanBeAnswered == Spec => []ParkedHasOpenRow
<1>1. InboxInv => ParkedHasOpenRow
  BY DEF InboxInv
<1> QED BY <1>1, InboxInitially, InboxStep, PTL DEF Spec

\* An open question about a run means the run is active, but for those the tick
\* or a restart left behind.
THEOREM QuestionsHaveRuns == Spec => []StalledRowHasRun
<1>1. InboxInv => StalledRowHasRun
  BY DEF InboxInv
<1> QED BY <1>1, InboxInitially, InboxStep, PTL DEF Spec

\* The first stop of a tick hits a run that is late or silent now: nothing has
\* run since the tick listed it.
THEOREM FirstStopsAreDeserved == Spec => FirstStopIsDeserved
<1>1. ASSUME InboxInv, InboxNext, NEW r \in Runs,
             r \in stopping' \ stopping, tick' # tick, ~tick.awaited
      PROVE  r \in late \cup silent
  <2> USE <1>1, RowFacts, InboxAssumption
      DEF InboxInv, InboxAssumption, runVars, shellVars, bookVars
  <2>1. ASSUME NEW x \in tick.left, CheckPreparing(x)
        PROVE  r \in late
    BY <2>1 DEF CheckPreparing, TickShape, tickFree, stopAwaited
  <2>2. ASSUME NEW x \in tick.left, CheckIdle(x)
        PROVE  r \in silent
    BY <2>2 DEF CheckIdle, TickShape, tickFree, stopAwaited, pastThreshold
  <2>3. CASE TickStarts \/ TickEnds
    BY <2>3 DEF TickStarts, TickEnds
  <2>4. CASE Crash \/ Dispose \/ Boot
    BY <2>4 DEF Crash, Dispose, Boot, forgets
  <2>5. ASSUME NEW q \in Runs, \/ LaunchRun(q) \/ Launched(q) \/ RunEnds(q) \/ StopEnds(q)
                               \/ GrowsLate(q) \/ FallsSilent(q) \/ Output(q)
        PROVE  FALSE
    BY <2>5 DEF LaunchRun, Launched, RunEnds, StopEnds, GrowsLate, FallsSilent, Output,
                runEnds
  <2>6. ASSUME NEW d \in Ids, \/ ResolveShell(d, "approve") \/ ResolveShell(d, "reject")
                              \/ ResolveStalled(d, "keep_waiting")
                              \/ ResolveStalled(d, "stop") \/ DeadlinePasses(d)
        PROVE  FALSE
    BY <2>6 DEF ResolveShell, ResolveStalled, DeadlinePasses
  <2>7. ASSUME NEW w \in Workflows, CancelWorkflow(w) \/ CloseWorkflow(w)
        PROVE  FALSE
    BY <2>7 DEF CancelWorkflow, CloseWorkflow
  <2>8. ASSUME NEW s \in Steps, NEW t \in Tickets, NEW d \in Ids, Request(s, t, d)
        PROVE  FALSE
    BY <2>8 DEF Request
  <2>9. ASSUME NEW s \in Steps, CancelStep(s)
        PROVE  FALSE
    BY <2>9 DEF CancelStep
  <2> QED BY <2>1, <2>2, <2>3, <2>4, <2>5, <2>6, <2>7, <2>8, <2>9 DEF InboxNext
<1>2. InboxInv /\ [InboxNext]_vars =>
        [\A r \in Runs :
            r \in stopping' \ stopping /\ tick' # tick /\ ~tick.awaited =>
              r \in late \cup silent]_vars
  BY <1>1
<1> QED BY <1>2, InboxInitially, InboxStep, PTL DEF Spec, FirstStopIsDeserved

-----------------------------------------------------------------------------
(* Implementation of one-shot decisions.                                    *)

\* A source waits on a decision when that is open for it.
WaitingShape ==
    /\ waitingOn \in [Keys -> Ids \cup {0}]
    /\ \A k \in Keys, d \in Ids : waitingOn[k] = d <=> open(d) /\ rows[d].key = k

\* The mapping is well defined, and determined by the open rows.
LEMMA Waiting == InboxInv => WaitingShape
<1> SUFFICES ASSUME InboxInv
             PROVE  WaitingShape
  OBVIOUS
<1> USE DEF InboxInv
<1>1. ASSUME NEW k \in Keys
      PROVE  /\ waitingOn[k] \in Ids \cup {0}
             /\ \A d \in Ids : waitingOn[k] = d <=> open(d) /\ rows[d].key = k
  <2>1. CASE openOf(k) = {}
    <3>1. waitingOn[k] = 0
      BY <2>1 DEF waitingOn
    <3> QED BY <2>1, <3>1, InboxAssumption DEF openOf, Ids, InboxAssumption
  <2>2. CASE openOf(k) # {}
    <3>1. PICK d \in Ids : open(d) /\ rows[d].key = k
      BY <2>2 DEF openOf
    <3>2. openOf(k) = {d}
      BY <3>1 DEF openOf, OneOpen
    <3>3. waitingOn[k] = d
      BY <2>2, <3>2 DEF waitingOn
    <3> QED BY <3>1, <3>3 DEF OneOpen
  <2> QED BY <2>1, <2>2
<1>2. waitingOn = [k \in Keys |-> waitingOn[k]]
  BY DEF waitingOn
<1> QED BY <1>1, <1>2 DEF WaitingShape

\* The same after the step.
LEMMA WaitingNext == InboxInv' => WaitingShape'
BY Waiting, PTL

\* A step that changes no key and no status is a stutter.
LEMMA StandsStill ==
    ASSUME InboxInv, InboxInv',
           \A d \in Ids : rows'[d].key = rows[d].key /\ rows'[d].status = rows[d].status,
           acted' = acted
    PROVE  UNCHANGED <<waitingOn, closedRows, acted>>
<1> USE Waiting, WaitingNext DEF WaitingShape
<1>1. ASSUME NEW k \in Keys
      PROVE  waitingOn'[k] = waitingOn[k]
  <2>1. \A e \in Ids : waitingOn'[k] = e <=> waitingOn[k] = e
    BY DEF open
  <2> QED BY <2>1
<1>2. waitingOn' = waitingOn
  BY <1>1
<1> QED BY <1>2 DEF closedRows

\* Opening a row opens a decision, or answers the one that is open.
LEMMA OpeningImplements ==
    ASSUME InboxInv, InboxInv', NEW d \in Ids, NEW key \in Keys, NEW kind,
           Opened(kind, key, d), acted' = acted
    PROVE  [OneShot!Next]_<<waitingOn, closedRows, acted>>
<1>1. CASE rows' = rows
  BY <1>1, StandsStill
<1>2. CASE /\ openOf(key) = {} /\ rows[d].status = "none"
           /\ rows'[d].kind = kind /\ rows'[d].key = key /\ rows'[d].status = "open"
           /\ \A e \in Ids : e # d => rows'[e] = rows[e]
  <2> USE Waiting, WaitingNext DEF WaitingShape
  <2>1. /\ \A e \in Ids : open(e)' <=> open(e) \/ e = d
        /\ \A e \in Ids : open(e) => rows'[e].key = rows[e].key
        /\ ~open(d) /\ d \notin closedRows /\ closedRows' = closedRows
    BY <1>2 DEF open, closedRows
  <2>2. waitingOn[key] = 0
    BY <1>2 DEF openOf
  <2>3. \A q \in Keys : waitingOn[q] # d
    BY <2>1
  <2>4. waitingOn'[key] = d
    BY <1>2, <2>1
  <2>5. ASSUME NEW k \in Keys, k # key
        PROVE  waitingOn'[k] = waitingOn[k]
    <3>1. \A e \in Ids : waitingOn'[k] = e <=> waitingOn[k] = e
      BY <1>2, <2>1, <2>5
    <3> QED BY <3>1
  <2>6. waitingOn' = [waitingOn EXCEPT ![key] = d]
    BY <2>4, <2>5
  <2> QED BY <2>1, <2>2, <2>3, <2>6 DEF OneShot!Next, OneShot!Open
<1> QED BY <1>1, <1>2 DEF Opened

\* Closing rows closes their decisions and acts on those that are decided.
LEMMA ClosingImplements ==
    ASSUME InboxInv, InboxInv', NEW D, NEW st \in Closed, NEW option, Closes(D, st, option),
           NEW A \in SUBSET {d \in Ids : d \in D /\ open(d)}, acted' = acted \cup A
    PROVE  OneShot!Next
<1> USE Waiting, WaitingNext DEF WaitingShape
<1> DEFINE of(E) == {k \in Keys : \E d \in E : open(d) /\ rows[d].key = k}
           S == of(D \cap Ids)
           T == of(A)
<1>1. \A d \in Ids : open(d) => rows[d].key \in Keys
  BY RowFacts DEF InboxInv, RowShape, open, Keys
<1>2. S \in SUBSET Keys /\ T \in SUBSET S /\ \A k \in S : waitingOn[k] # 0
  <2>1. ASSUME NEW k \in Keys, NEW d \in Ids, open(d), rows[d].key = k
        PROVE  waitingOn[k] # 0
    <3>1. waitingOn[k] = d
      BY <2>1
    <3> QED BY <3>1, InboxAssumption DEF Ids, InboxAssumption
  <2>2. \A d \in A : d \in D \cap Ids
    OBVIOUS
  <2> QED BY <2>1, <2>2
<1>3. ASSUME NEW k \in Keys
      PROVE  waitingOn'[k] = IF k \in S THEN 0 ELSE waitingOn[k]
  <2>1. CASE k \in S
    <3>1. PICK d \in D \cap Ids : open(d) /\ rows[d].key = k
      BY <2>1
    <3>2. \A e \in Ids : waitingOn'[k] # e
      BY <3>1 DEF Closes, InboxInv, OneOpen
    <3> QED BY <2>1, <3>2
  <2>2. CASE k \notin S
    <3>1. \A e \in Ids : waitingOn'[k] = e <=> waitingOn[k] = e
      BY <2>2 DEF Closes
    <3> QED BY <2>2, <3>1
  <2> QED BY <2>1, <2>2
<1>4. waitingOn' = [k \in Keys |-> IF k \in S THEN 0 ELSE waitingOn[k]]
  BY <1>3
<1>5. \A E \in SUBSET Ids : {waitingOn[k] : k \in of(E)} = {d \in E : open(d)}
  <2> SUFFICES ASSUME NEW E \in SUBSET Ids
               PROVE  {waitingOn[k] : k \in of(E)} = {d \in E : open(d)}
    OBVIOUS
  <2>1. ASSUME NEW k \in of(E)
        PROVE  waitingOn[k] \in E /\ open(waitingOn[k])
    <3>1. PICK d \in E : open(d) /\ rows[d].key = k
      OBVIOUS
    <3>2. waitingOn[k] = d
      BY <3>1
    <3> QED BY <3>1, <3>2
  <2>2. ASSUME NEW d \in E, open(d)
        PROVE  \E k \in of(E) : waitingOn[k] = d
    <3>1. rows[d].key \in of(E) /\ waitingOn[rows[d].key] = d
      BY <1>1, <2>2
    <3> QED BY <3>1
  <2> QED BY <2>1, <2>2
<1>6. closedRows' = closedRows \cup {d \in D \cap Ids : open(d)}
  <2>1. \A d \in Ids : d \in closedRows' <=> d \in closedRows \/ (d \in D /\ open(d))
    BY RowFacts DEF closedRows, Closes, Closed, open, InboxInv
  <2>2. closedRows \subseteq Ids /\ closedRows' \subseteq Ids
    BY DEF closedRows, Ids
  <2> QED BY <2>1, <2>2
<1>7. closedRows' = closedRows \cup {waitingOn[k] : k \in S}
      /\ acted' = acted \cup {waitingOn[k] : k \in T}
  <2>1. {d \in A : open(d)} = A
    OBVIOUS
  <2> HIDE DEF of
  <2> QED BY <1>5, <1>6, <2>1
<1> HIDE DEF of, S, T
<1> QED BY <1>2, <1>4, <1>7 DEF OneShot!Next, OneShot!Close

\* Every step of the inbox is a step of one-shot decisions or a stutter.
LEMMA StepImplements ==
    ASSUME InboxInv, InboxInv', [InboxNext]_vars
    PROVE  [OneShot!Next]_<<waitingOn, closedRows, acted>>
<1> DEFINE Implemented == [OneShot!Next]_<<waitingOn, closedRows, acted>>
<1> SUFFICES Implemented
  OBVIOUS
<1> USE RowFacts, InboxAssumption DEF InboxInv
<1>1. ASSUME UNCHANGED <<rows, acted>>
      PROVE  Implemented
  BY <1>1, StandsStill
<1>2. ASSUME NEW D, NEW st \in Closed, NEW option, Closes(D, st, option), acted' = acted
      PROVE  Implemented
  <2>1. {} \in SUBSET {d \in Ids : d \in D /\ open(d)} /\ acted' = acted \cup {}
    BY <1>2
  <2> QED BY <1>2, <2>1, ClosingImplements
<1>3. ASSUME NEW s \in Steps, NEW t \in Tickets, NEW d \in Ids, Request(s, t, d)
      PROVE  Implemented
  <2>1. Opened("shell_confirmation", s, d) /\ s \in Keys /\ acted' = acted
    BY <1>3, OpenedWhen DEF Request, Keys
  <2> QED BY <2>1, OpeningImplements
<1>4. ASSUME NEW d \in Ids, NEW option \in {"approve", "reject"}, ResolveShell(d, option)
      PROVE  Implemented
  <2>1. Closes({d}, "resolved", [e \in Ids |-> option]) /\ "resolved" \in Closed
    BY <1>4, ClosesWhen DEF ResolveShell, Closed, Options
  <2>2. {d} \in SUBSET {e \in Ids : e \in {d} /\ open(e)} /\ acted' = acted \cup {d}
    BY <1>4 DEF ResolveShell
  <2> QED BY <2>1, <2>2, ClosingImplements
<1>5. ASSUME NEW d \in Ids, NEW option \in {"keep_waiting", "stop"},
             ResolveStalled(d, option)
      PROVE  Implemented
  <2>1. Closes({d}, "resolved", [e \in Ids |-> option]) /\ "resolved" \in Closed
    BY <1>5, ClosesWhen DEF ResolveStalled, Closed, Options
  <2>2. {d} \in SUBSET {e \in Ids : e \in {d} /\ open(e)} /\ acted' = acted \cup {d}
    BY <1>5 DEF ResolveStalled
  <2> QED BY <2>1, <2>2, ClosingImplements
<1>6. ASSUME NEW d \in Ids, DeadlinePasses(d)
      PROVE  Implemented
  <2>1. \A e \in Ids : rows'[e].key = rows[e].key /\ rows'[e].status = rows[e].status
    BY <1>6 DEF DeadlinePasses, TypeOK, Row, open
  <2> QED BY <1>6, <2>1, StandsStill DEF DeadlinePasses
<1>7. ASSUME NEW w \in Workflows, CancelWorkflow(w) \/ CloseWorkflow(w)
      PROVE  Implemented
  <2>1. CASE CancelWorkflow(w)
    BY <1>1, <2>1 DEF CancelWorkflow
  <2>2. CASE CloseWorkflow(w)
    <3>1. Closes(ofWorkflow(w), "cancelled", noOption)
      BY <2>2, ClosesWhen DEF CloseWorkflow, noOption, Closed, Options
    <3> QED BY <1>2, <2>2, <3>1 DEF CloseWorkflow, Closed
  <2> QED BY <1>7, <2>1, <2>2
<1>8. ASSUME NEW s \in Steps, CancelStep(s)
      PROVE  Implemented
  <2>1. Closes(ofWorkflow(workflowOf[s]), "cancelled", noOption)
    BY <1>8, ClosesWhen DEF CancelStep, noOption, Closed, Options
  <2> QED BY <1>2, <1>8, <2>1 DEF CancelStep, Closed
<1>9. ASSUME NEW r \in Runs, \/ LaunchRun(r) \/ Launched(r) \/ RunEnds(r) \/ StopEnds(r)
                             \/ GrowsLate(r) \/ FallsSilent(r) \/ Output(r)
      PROVE  Implemented
  <2>1. CASE LaunchRun(r) \/ Launched(r) \/ GrowsLate(r) \/ FallsSilent(r) \/ Output(r)
    BY <1>1, <2>1 DEF LaunchRun, Launched, GrowsLate, FallsSilent, Output
  <2>2. CASE runEnds(r) /\ acted' = acted
    <3>1. Closes(ofRun(r), "cancelled", noOption)
      BY <2>2, ClosesWhen DEF runEnds, noOption, Closed, Options
    <3> QED BY <1>2, <2>2, <3>1 DEF Closed
  <2>3. CASE RunEnds(r) \/ StopEnds(r)
    BY <1>1, <2>2, <2>3 DEF RunEnds, StopEnds
  <2> QED BY <1>9, <2>1, <2>3
<1>10. CASE TickEnds
  <2>1. Closes(due, "expired", timeoutDefault) /\ "expired" \in Closed
    BY <1>10, ClosesWhen DEF TickEnds, timeoutDefault, Closed, Options
  <2>2. due \in SUBSET {d \in Ids : d \in due /\ open(d)} /\ acted' = acted \cup due
    BY <1>10 DEF TickEnds, due
  <2> QED BY <2>1, <2>2, ClosingImplements
<1>11. ASSUME NEW x \in tick.left, CheckIdle(x)
       PROVE  Implemented
  <2>1. x.run \in Runs /\ x.run \in Keys
    BY DEF TypeOK, Listed, Keys
  <2>2. rows' = rows \/ \E d \in Ids : Opened("stalled_run", x.run, d)
    BY <1>11, <2>1, OpenedWhen DEF CheckIdle
  <2>3. acted' = acted
    BY <1>11 DEF CheckIdle
  <2> QED BY <1>1, <2>1, <2>2, <2>3, OpeningImplements
<1>12. CASE TickStarts \/ Crash \/ UNCHANGED vars
  BY <1>1, <1>12 DEF TickStarts, Crash, vars
<1>13. ASSUME NEW x \in tick.left, CheckPreparing(x)
       PROVE  Implemented
  BY <1>1, <1>13 DEF CheckPreparing
<1>14. CASE Dispose
  <2> DEFINE D == {d \in Ids : \/ rows[d].key \in Steps
                               \/ rows[d].key \in Runs /\ isActive(rows[d].key)}
  <2>1. rows' = closedAs(D, "cancelled", noOption) /\ acted' = acted
    BY <1>14 DEF Dispose
  <2>2. noOption \in [Ids -> Options] /\ "cancelled" \in Closed
    BY DEF noOption, Options, Closed
  <2> HIDE DEF D
  <2> QED BY <1>2, <2>1, <2>2, ClosesWhen
<1>15. CASE Boot
  <2> DEFINE D == {d \in Ids : rows[d].kind = "shell_confirmation"}
  <2>1. rows' = closedAs(D, "expired", timeoutDefault) /\ acted' = acted
    BY <1>15 DEF Boot
  <2>2. timeoutDefault \in [Ids -> Options] /\ "expired" \in Closed
    BY DEF timeoutDefault, Options, Closed
  <2> HIDE DEF D
  <2> QED BY <1>2, <2>1, <2>2, ClosesWhen
<1> HIDE RowFacts, InboxAssumption DEF Implemented, InboxInv
<1>16. ASSUME NEW d \in Ids, \/ ResolveShell(d, "approve") \/ ResolveShell(d, "reject")
                             \/ ResolveStalled(d, "keep_waiting")
                             \/ ResolveStalled(d, "stop") \/ DeadlinePasses(d)
       PROVE  Implemented
  BY <1>4, <1>5, <1>6, <1>16
<1> QED
  BY <1>3, <1>7, <1>8, <1>9, <1>10, <1>11, <1>12, <1>14, <1>15, <1>16,
     <1>13 DEF InboxNext

\* The rows, and the calls of the handlers, implement one-shot decisions: one
\* open decision of a source, one close and one action of a decision, whatever
\* the interleaving of requests, ticks, cancels and restarts.
THEOREM InboxImplementsOneShot == Spec => DecidedOnce
<1>1. Init => OneShot!Init
  <2> SUFFICES ASSUME Init
               PROVE  OneShot!Init
    OBVIOUS
  <2>1. \A d \in Ids : rows[d].status = "none"
    BY DEF Init, NoRow
  <2>2. \A k \in Keys : openOf(k) = {}
    BY <2>1 DEF openOf, open
  <2>3. closedRows = {} /\ acted = {}
    BY <2>1 DEF closedRows, Init
  <2> QED BY <2>2, <2>3 DEF OneShot!Init, waitingOn
<1> QED BY <1>1, InboxInitially, InboxStep, StepImplements, PTL
        DEF Spec, DecidedOnce, OneShot!Spec
=============================================================================
