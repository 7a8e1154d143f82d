------------------------------- MODULE RunLog -------------------------------
(***************************************************************************)
(* The durable log of one Agent run: events.jsonl, written by               *)
(* agents/run-log-store.ts before the row of agent_events, its caches, the  *)
(* throttled fsync, and those who write it, end it, take it over after a    *)
(* crash or delete it (agents/agent-manager.ts, recovery/reconciliation-    *)
(* service.ts, maintenance/retention-service.ts).                           *)
(*                                                                          *)
(* Every call is synchronous; the calls of one turn are separate steps here *)
(* because the process may be killed, or the power fail, between two of     *)
(* them.  A killed process loses nothing it has written; a power failure    *)
(* may lose what was written after the last fsync, and tear its last line.  *)
(* SQLite is taken to keep its commits, which is the worse case for a log   *)
(* that lags behind.  Left out: terminal.log (the same calls, unnumbered),  *)
(* the manifest, fsync or truncate errors, and redaction.                   *)
(***************************************************************************)
EXTENDS Integers, Sequences

CONSTANTS
    MaxEvents,    \* bound: events offered to the log
    MaxEnds       \* bound: ends of an instance

ASSUME RunLogAssumption == MaxEvents \in Nat /\ MaxEnds \in Nat

VARIABLES
    instance,     \* an instance of the application runs
    runRow,       \* agent_runs.status: "active", "interrupted", "over"
    turn,         \* what the turn in progress does next, or "idle"
    exists,       \* events.jsonl is in the run's directory
    lines,        \* its whole lines: their seq and the event they record
    tornLine,     \* its last line is incomplete
    synced,       \* lines the last fsync covered
    handle,       \* the store's append handle: "closed", "linked", "unlinked"
    dirty,        \* written since the last fsync through the handle
    nextSeq,      \* the store's nextSequences; 0: none
    validated,    \* the store's eventLogStates: lines of the validated prefix
    table,        \* agent_events
    offered,      \* events offered so far; the last one's identity
    ends,
    finish,       \* the event that went with the last terminal status; 0: none
    removed,      \* history: events deleted with the file, or written to it since
    lost,         \* history: events a power failure took
    refused,      \* history: events a healthy disk would have taken
    cut           \* history: an instance ended between terminal status and fsync

fileVars  == <<exists, lines, tornLine, synced>>
storeVars == <<handle, dirty, nextSeq, validated>>
logVars == <<instance, runRow, turn, fileVars, storeVars, table, offered, ends,
             finish, removed, lost, refused, cut>>

Line == [seq : Nat, event : Nat]

LogTypeOK ==
    /\ instance \in BOOLEAN
    /\ runRow \in {"active", "interrupted", "over"}
    /\ turn \in {"idle", "initialize", "event", "interrupt", "flush", "settle", "close"}
    /\ exists \in BOOLEAN /\ lines \in Seq(Line) /\ tornLine \in BOOLEAN
    /\ synced \in Nat
    /\ handle \in {"closed", "linked", "unlinked"} /\ dirty \in BOOLEAN
    /\ nextSeq \in Nat /\ validated \in Nat
    /\ table \subseteq Line
    /\ offered \in Nat /\ ends \in Nat /\ finish \in Nat
    /\ removed \subseteq Nat /\ lost \subseteq Nat /\ refused \subseteq Nat /\ cut \in BOOLEAN

\* start() has made the row and initialize() has touched the files.
LogInit ==
    /\ instance = TRUE /\ runRow = "active" /\ turn = "idle"
    /\ exists = TRUE /\ lines = <<>> /\ tornLine = FALSE /\ synced = 0
    /\ handle = "closed" /\ dirty = FALSE /\ nextSeq = 1 /\ validated = 0
    /\ table = {} /\ offered = 0 /\ ends = 0 /\ finish = 0
    /\ removed = {} /\ lost = {} /\ refused = {} /\ cut = FALSE

-----------------------------------------------------------------------------
(* The store.                                                               *)

\* countAndValidateEvents() succeeds; it parses what follows the prefix.
countable ==
    /\ exists /\ ~tornLine
    /\ \A i \in 1 .. Len(lines) :
         (validated > Len(lines) \/ i > validated) => lines[i].seq = i

canNumber == nextSeq # 0 \/ countable

\* Mutant: lines counted from zero.
numberOfFromZero == IF nextSeq # 0 THEN nextSeq ELSE Len(lines)

numberOf == IF nextSeq # 0 THEN nextSeq ELSE Len(lines) + 1
event == offered + 1

\* The throttle: an fsync now, or a dirty handle.
throttled(n) ==
    \/ synced' = (IF handle = "unlinked" THEN synced ELSE n) /\ dirty' = FALSE
    \/ synced' = synced /\ dirty' = TRUE

\* The row follows the line: refused when its seq is taken, or by an error.
inserted(n) ==
    \/ /\ \A row \in table : row.seq # n
       /\ table' = table \cup {[seq |-> n, event |-> event]}
    \/ table' = table

\* appendEvent() writes its line, through a handle it opens (which creates
\* the file), and then the row.
appendWritten ==
    /\ canNumber
    /\ handle' = IF handle = "closed" THEN "linked" ELSE handle
    /\ IF handle = "unlinked"
         THEN UNCHANGED <<exists, lines>> /\ removed' = removed \cup {event}
         ELSE /\ exists' = TRUE
              /\ lines' = Append(lines, [seq |-> numberOf, event |-> event])
              /\ UNCHANGED removed
    /\ throttled(Len(lines) + 1)
    /\ nextSeq' = numberOf + 1 /\ validated' = numberOf
    /\ inserted(numberOf)
    /\ UNCHANGED <<tornLine, refused>>

\* Mutant: the sequence advances before the write.
appendRolledBackNumbered ==
    /\ canNumber
    /\ handle' = IF handle = "closed" THEN "linked" ELSE handle
    /\ exists' = (exists \/ handle = "closed")
    /\ synced' = IF handle = "unlinked" THEN synced ELSE Len(lines)
    /\ dirty' = FALSE
    /\ nextSeq' = numberOf + 1 /\ validated' = Len(lines)
    /\ UNCHANGED <<lines, tornLine, table, removed, refused>>

\* Mutant: the row is inserted before the line.
appendRolledBackRowFirst ==
    /\ canNumber
    /\ handle' = IF handle = "closed" THEN "linked" ELSE handle
    /\ exists' = (exists \/ handle = "closed")
    /\ synced' = IF handle = "unlinked" THEN synced ELSE Len(lines)
    /\ dirty' = FALSE /\ inserted(numberOf)
    /\ validated' = IF nextSeq = 0 THEN Len(lines) ELSE validated
    /\ UNCHANGED <<lines, tornLine, nextSeq, removed, refused>>

\* A short or failed write is truncated away and synced; no number is used.
appendRolledBack ==
    /\ canNumber
    /\ handle' = IF handle = "closed" THEN "linked" ELSE handle
    /\ exists' = (exists \/ handle = "closed")
    /\ synced' = IF handle = "unlinked" THEN synced ELSE Len(lines)
    /\ dirty' = FALSE
    /\ validated' = IF nextSeq = 0 THEN Len(lines) ELSE validated
    /\ UNCHANGED <<lines, tornLine, nextSeq, table, removed, refused>>

\* The file is not there, or cannot be validated.
appendRefused ==
    /\ ~canNumber
    /\ refused' = refused \cup {event}
    /\ UNCHANGED <<fileVars, storeVars, table, removed>>

\* Callers log an error and go on.
append ==
    /\ offered < MaxEvents /\ offered' = offered + 1
    /\ appendWritten \/ appendRolledBack \/ appendRefused

written == \E i \in 1 .. Len(lines') : lines'[i].event = event

fsyncs == IF dirty /\ handle = "linked" THEN Len(lines) ELSE synced

\* Mutant: the handle is closed without its last fsync.
closedUnsynced ==
    /\ synced' = synced /\ dirty' = FALSE
    /\ handle' = "closed" /\ nextSeq' = 0 /\ validated' = 0

\* dispose() of the run.
closed ==
    /\ synced' = fsyncs /\ dirty' = FALSE
    /\ handle' = "closed" /\ nextSeq' = 0 /\ validated' = 0

-----------------------------------------------------------------------------
(* The run.                                                                 *)

idle == instance /\ turn = "idle"

\* Output, commands, observations, progress: also after the run has ended.
LogEvent ==
    /\ idle /\ append
    /\ UNCHANGED <<instance, runRow, turn, ends, finish, lost, cut>>

\* The end of the run: its event, its row, and closeRunLogs().
SettleEvent ==
    /\ idle /\ runRow = "active" /\ append
    /\ turn' = "settle"
    /\ finish' = IF written THEN event ELSE 0
    /\ UNCHANGED <<instance, runRow, ends, lost, cut>>

SettleRow ==
    /\ instance /\ turn = "settle"
    /\ runRow' = "over" /\ turn' = "close"
    /\ UNCHANGED <<instance, fileVars, storeVars, table, offered, ends, finish,
                   removed, lost, refused, cut>>

SettleClose ==
    /\ instance /\ turn = "close"
    /\ closed /\ turn' = "idle"
    /\ UNCHANGED <<instance, runRow, exists, lines, tornLine, table, offered, ends,
                   finish, removed, lost, refused, cut>>

\* resume(): nothing initialises the log again.
ResumeRun ==
    /\ idle /\ runRow = "interrupted"
    /\ runRow' = "active" /\ append
    /\ UNCHANGED <<instance, turn, ends, finish, lost, cut>>

\* Retention deletes the file of a terminal run; an open handle stays open.
CollectLog ==
    /\ idle /\ runRow \in {"interrupted", "over"} /\ exists
    /\ exists' = FALSE /\ lines' = <<>> /\ tornLine' = FALSE /\ synced' = 0
    /\ removed' = removed \cup {lines[i].event : i \in 1 .. Len(lines)}
    /\ handle' = IF handle = "linked" THEN "unlinked" ELSE handle
    /\ UNCHANGED <<instance, runRow, turn, dirty, nextSeq, validated, table,
                   offered, ends, finish, lost, refused, cut>>

-----------------------------------------------------------------------------
(* Ends of an instance, and the start-up pass over a run it left active.    *)

ended ==
    /\ ends < MaxEnds /\ ends' = ends + 1
    /\ instance' = FALSE /\ turn' = "idle"
    /\ handle' = "closed" /\ dirty' = FALSE /\ nextSeq' = 0 /\ validated' = 0
    /\ cut' = (cut \/ turn \in {"flush", "close"})

\* disposeAll()
QuitInstance ==
    /\ idle /\ ended
    /\ synced' = fsyncs
    /\ UNCHANGED <<runRow, exists, lines, tornLine, table, offered, finish, removed,
                   lost, refused>>

KillInstance ==
    /\ instance /\ ended
    /\ UNCHANGED <<runRow, fileVars, table, offered, finish, removed, lost, refused>>

PowerFails ==
    /\ ended
    /\ \E n \in synced .. Len(lines) :
         /\ lines' = SubSeq(lines, 1, n) /\ synced' = n
         /\ lost' = lost \cup {lines[i].event : i \in n + 1 .. Len(lines)}
         /\ tornLine' \in (IF n < Len(lines) THEN BOOLEAN ELSE {tornLine})
    /\ UNCHANGED <<runRow, exists, table, offered, finish, removed, refused>>

StartInstance ==
    /\ ~instance /\ instance' = TRUE
    /\ turn' = IF runRow = "active" THEN "initialize" ELSE "idle"
    /\ UNCHANGED <<runRow, fileVars, storeVars, table, offered, ends, finish,
                   removed, lost, refused, cut>>

\* initialize(): the file is touched, and numbered if it can be.
InitializeLog ==
    /\ instance /\ turn = "initialize" /\ turn' = "event"
    /\ exists' = TRUE
    /\ IF ~exists \/ countable
         THEN nextSeq' = Len(lines) + 1 /\ validated' = Len(lines)
         ELSE UNCHANGED <<nextSeq, validated>>
    /\ UNCHANGED <<instance, runRow, lines, tornLine, synced, handle, dirty, table,
                   offered, ends, finish, removed, lost, refused, cut>>

InterruptEvent ==
    /\ instance /\ turn = "event" /\ append
    /\ turn' = "interrupt"
    /\ finish' = IF written THEN event ELSE 0
    /\ UNCHANGED <<instance, runRow, ends, lost, cut>>

InterruptRow ==
    /\ instance /\ turn = "interrupt"
    /\ runRow' = "interrupted" /\ turn' = "flush"
    /\ UNCHANGED <<instance, fileVars, storeVars, table, offered, ends, finish,
                   removed, lost, refused, cut>>

\* flush(): the handle and the caches stay.
FlushLog ==
    /\ instance /\ turn = "flush" /\ turn' = "idle"
    /\ synced' = fsyncs /\ dirty' = FALSE
    /\ UNCHANGED <<instance, runRow, exists, lines, tornLine, handle, nextSeq, validated,
                   table, offered, ends, finish, removed, lost, refused, cut>>

-----------------------------------------------------------------------------
LogNext ==
    \/ LogEvent \/ SettleEvent \/ SettleRow \/ SettleClose
    \/ ResumeRun \/ CollectLog
    \/ QuitInstance \/ KillInstance \/ PowerFails \/ StartInstance
    \/ InitializeLog \/ InterruptEvent \/ InterruptRow \/ FlushLog

LogSpec == LogInit /\ [][LogNext]_logVars

(***************************************************************************)
(* Properties                                                               *)
(***************************************************************************)

\* The lines of a log are numbered from one without a gap, whatever was
\* rolled back, cached, torn, deleted, or written by several instances: the
\* numbers countAndValidateEvents() insists on (run-log-store.ts:193-198).
LinesAreNumbered == \A i \in 1 .. Len(lines) : lines[i].seq = i

\* The file is the authority: a row of agent_events repeats a line of the file,
\* unless retention took the line or a power failure did; no crash, rolled back
\* write or constraint error leaves a row of its own (run-log-store.ts:138-140).
RowsFollowLines ==
    \A row \in table :
      row.event \in removed \cup lost \/ \E i \in 1 .. Len(lines) : lines[i] = row

\* A terminal status and its event survive a power failure together: the event
\* is in a synced line (or retention took it), unless an instance ended in the
\* very turn that wrote the status (run-log-store.ts:151-154).
TerminalIsDurable ==
    runRow # "active" /\ turn = "idle" /\ finish # 0 =>
      \/ finish \in removed \/ cut
      \/ \E i \in 1 .. Len(lines) : i <= synced /\ lines[i].event = finish

\* A healthy disk refuses an event only while the last line is torn or the file
\* is gone: the caches never make the store disagree with its own file, not
\* after a roll-back, an end of the run, a retention or a new instance
\* (run-log-store.ts:171-201, 353-361).
RefusedOnlyAfterLoss == [][refused' # refused => tornLine \/ ~exists]_logVars
=============================================================================
