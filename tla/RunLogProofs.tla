---------------------------- MODULE RunLogProofs ----------------------------
(***************************************************************************)
(* The durable log of a run, for any number of events and of ends of an     *)
(* instance: its lines are numbered, the table follows it, a terminal       *)
(* status and its event survive together, and the store refuses an event    *)
(* only when the file is torn or gone.                                      *)
(***************************************************************************)
EXTENDS RunLog, SequenceTheorems, TLAPS

FileShape ==
    /\ synced <= Len(lines)
    /\ ~exists => lines = <<>>
    /\ \A i \in 1 .. Len(lines) : lines[i].event <= offered
    /\ LinesAreNumbered

\* What the store holds of the file: the number it would give next is the
\* number of the next line, and a handle to a deleted file means no file.
StoreShape ==
    /\ handle = "unlinked" => ~exists
    /\ handle = "linked" => exists
    /\ nextSeq # 0 /\ handle # "unlinked" => exists /\ nextSeq = Len(lines) + 1

\* When the store holds anything at all.
TurnShape ==
    /\ ~instance => handle = "closed" /\ nextSeq = 0 /\ turn = "idle"
    /\ turn = "initialize" => handle = "closed" /\ nextSeq = 0
    /\ nextSeq # 0 /\ handle = "closed" => runRow = "active" /\ turn \in {"idle", "event"}
    /\ turn \in {"initialize", "event", "settle", "interrupt"} => runRow = "active"
    /\ turn \in {"close", "flush"} => runRow # "active"

ending == turn \in {"settle", "close", "interrupt", "flush"}

\* The event of a terminal status is on its way to the disk from the moment it
\* is written, and there when the turn is over.
recordedLine(i) ==
    /\ lines[i].event = finish
    /\ i <= synced \/ (ending /\ dirty /\ handle = "linked")
FinishShape ==
    (finish # 0 /\ finish \notin removed /\ ~cut /\ (ending \/ runRow # "active"))
      => \E i \in 1 .. Len(lines) : recordedLine(i)

LogInv ==
    /\ LogTypeOK /\ FileShape /\ StoreShape /\ TurnShape
    /\ RowsFollowLines /\ FinishShape

-----------------------------------------------------------------------------
(* Adding a line, and cutting the file short.                               *)

LEMMA OneMoreLine ==
    ASSUME NEW s \in Seq(Line), NEW x \in Line
    PROVE  /\ Append(s, x) \in Seq(Line) /\ Len(Append(s, x)) = Len(s) + 1
           /\ Len(s) \in Nat
           /\ \A i \in 1 .. Len(s) : Append(s, x)[i] = s[i]
           /\ Append(s, x)[Len(s) + 1] = x
  OBVIOUS

LEMMA CutShort ==
    ASSUME NEW s \in Seq(Line), NEW n \in 0 .. Len(s)
    PROVE  /\ SubSeq(s, 1, n) \in Seq(Line) /\ Len(SubSeq(s, 1, n)) = n
           /\ \A i \in 1 .. n : SubSeq(s, 1, n)[i] = s[i]
<1>1. Len(s) \in Nat /\ \A i \in 1 .. Len(s) : s[i] \in Line
  OBVIOUS
<1>2. /\ SubSeq(s, 1, n) \in Seq(Line)
      /\ Len(SubSeq(s, 1, n)) = IF 1 <= n THEN n - 1 + 1 ELSE 0
      /\ \A i \in 1 .. n - 1 + 1 : SubSeq(s, 1, n)[i] = s[1 + i - 1]
  BY <1>1, SubSeqProperties
<1> QED BY <1>1, <1>2

-----------------------------------------------------------------------------
(* What an append does, whatever comes of it.                               *)

LEMMA LineTypes ==
    ASSUME LogTypeOK
    PROVE  /\ Len(lines) \in Nat /\ event \in Nat /\ numberOf \in Nat
           /\ \A i \in 1 .. Len(lines) :
                lines[i] \in Line /\ lines[i].seq \in Nat /\ lines[i].event \in Nat
<1>1. lines \in Seq(Line) /\ offered \in Nat /\ nextSeq \in Nat
  BY DEF LogTypeOK
<1>2. Len(lines) \in Nat /\ \A i \in 1 .. Len(lines) : lines[i] \in Line
  BY <1>1
<1>3. \A x \in Line : x.seq \in Nat /\ x.event \in Nat
  BY DEF Line
<1> QED BY <1>1, <1>2, <1>3 DEF event, numberOf

LEMMA NextLine ==
    ASSUME LogTypeOK, FileShape, StoreShape, canNumber, handle # "unlinked"
    PROVE  numberOf = Len(lines) + 1
BY LineTypes DEF StoreShape, canNumber, numberOf

LEMMA AppendTypes ==
    ASSUME LogTypeOK, append
    PROVE  /\ exists' \in BOOLEAN /\ lines' \in Seq(Line) /\ tornLine' \in BOOLEAN
           /\ synced' \in Nat /\ handle' \in {"closed", "linked", "unlinked"}
           /\ dirty' \in BOOLEAN /\ nextSeq' \in Nat /\ validated' \in Nat
           /\ table' \subseteq Line /\ offered' \in Nat
           /\ removed' \subseteq Nat /\ refused' \subseteq Nat
<1>1. CASE appendWritten
  <2>1. [seq |-> numberOf, event |-> event] \in Line
    BY LineTypes DEF Line
  <2>2. lines' \in Seq(Line)
    BY <1>1, <2>1, OneMoreLine DEF appendWritten, LogTypeOK
  <2>3. table' \subseteq Line
    BY <1>1, <2>1 DEF appendWritten, inserted, LogTypeOK
  <2>4. synced' \in Nat /\ dirty' \in BOOLEAN
    <3>1. \/ synced' = Len(lines) + 1 /\ dirty' = FALSE
          \/ synced' = synced /\ dirty' = FALSE
          \/ synced' = synced /\ dirty' = TRUE
      BY <1>1 DEF appendWritten, throttled
    <3>2. synced \in Nat /\ Len(lines) \in Nat
      BY LineTypes DEF LogTypeOK
    <3>3. synced' \in Nat
      BY <3>1, <3>2
    <3>4. dirty' \in BOOLEAN
      BY <3>1
    <3> QED BY <3>3, <3>4
  <2>5. exists' \in BOOLEAN /\ handle' \in {"closed", "linked", "unlinked"}
    BY <1>1 DEF appendWritten, LogTypeOK
  <2>6. removed' \subseteq Nat
    BY <1>1, LineTypes DEF appendWritten, LogTypeOK
  <2>7. nextSeq' \in Nat /\ validated' \in Nat
    BY <1>1, LineTypes DEF appendWritten
  <2>8. tornLine' \in BOOLEAN /\ refused' \subseteq Nat /\ offered' \in Nat
    BY <1>1 DEF appendWritten, append, LogTypeOK
  <2> QED BY <2>2, <2>3, <2>4, <2>5, <2>6, <2>7, <2>8
<1>2. CASE appendRolledBack
  BY <1>2, LineTypes DEF appendRolledBack, LogTypeOK, append, event
<1>3. CASE appendRefused
  BY <1>3, LineTypes DEF appendRefused, LogTypeOK, append, event, fileVars, storeVars
<1> QED BY <1>1, <1>2, <1>3 DEF append

\* Lines are only added, and what an fsync covered stays covered.
LEMMA AppendGrows ==
    ASSUME LogTypeOK, FileShape, append
    PROVE  /\ Len(lines') \in Nat /\ Len(lines) \in Nat /\ Len(lines) <= Len(lines')
           /\ \A i \in 1 .. Len(lines) : lines'[i] = lines[i]
           /\ synced <= synced' /\ removed \subseteq removed'
<1>1. Len(lines) \in Nat
  BY LineTypes
<1>2. CASE appendWritten
  <2>1. [seq |-> numberOf, event |-> event] \in Line
    BY LineTypes DEF Line
  <2>2. CASE handle = "unlinked"
    BY <1>1, <1>2, <2>2 DEF appendWritten, throttled, LogTypeOK
  <2>3. CASE handle # "unlinked"
    BY <1>1, <1>2, <2>1, <2>3, OneMoreLine
    DEF appendWritten, throttled, LogTypeOK, FileShape
  <2> QED BY <2>2, <2>3
<1>3. CASE appendRolledBack
  BY <1>1, <1>3 DEF appendRolledBack, FileShape, LogTypeOK
<1>4. CASE appendRefused
  BY <1>1, <1>4 DEF appendRefused, fileVars, LogTypeOK
<1> QED BY <1>2, <1>3, <1>4 DEF append

LEMMA AppendKeepsFile ==
    ASSUME LogTypeOK, FileShape, StoreShape, append
    PROVE  FileShape' /\ StoreShape' /\ (nextSeq' # 0 => handle' # "closed")
<1>1. /\ Len(lines) \in Nat /\ offered \in Nat /\ offered' = offered + 1
      /\ synced \in Nat
      /\ \A i \in 1 .. Len(lines) : lines[i].event \in Nat
  BY LineTypes DEF append, event, LogTypeOK
<1>2. CASE appendWritten
  <2>1. [seq |-> numberOf, event |-> event] \in Line
    BY LineTypes DEF Line
  <2>2. CASE handle = "unlinked"
    <3>1. /\ UNCHANGED <<exists, lines, handle>> /\ synced' = synced /\ ~exists
      BY <1>2, <2>2 DEF appendWritten, throttled, StoreShape
    <3> QED BY <1>1, <2>2, <3>1 DEF FileShape, StoreShape, LinesAreNumbered
  <2>3. CASE handle # "unlinked"
    <3>1. /\ exists' = TRUE /\ handle' = "linked"
          /\ lines' = Append(lines, [seq |-> numberOf, event |-> event])
          /\ synced' = Len(lines) + 1 \/ synced' = synced
          /\ nextSeq' = numberOf + 1
      BY <1>2, <2>3 DEF appendWritten, throttled, LogTypeOK
    <3>2. numberOf = Len(lines) + 1
      BY <1>2, <2>3, NextLine DEF appendWritten
    <3>3. /\ Len(lines') = Len(lines) + 1
          /\ \A i \in 1 .. Len(lines) : lines'[i] = lines[i]
          /\ lines'[Len(lines) + 1] = [seq |-> numberOf, event |-> event]
      BY <2>1, <3>1, OneMoreLine DEF LogTypeOK
    <3>4. \A i \in 1 .. Len(lines') : lines'[i].event <= offered' /\ lines'[i].seq = i
      <4> SUFFICES ASSUME NEW i \in 1 .. Len(lines')
                   PROVE  lines'[i].event <= offered' /\ lines'[i].seq = i
        OBVIOUS
      <4>1. CASE i = Len(lines) + 1
        BY <1>1, <3>2, <3>3, <4>1 DEF event
      <4>2. CASE i # Len(lines) + 1
        <5>1. i \in 1 .. Len(lines) /\ lines'[i] = lines[i]
          BY <1>1, <3>3, <4>2
        <5>2. lines[i].event <= offered /\ lines[i].event \in Nat /\ lines[i].seq = i
          BY <1>1, <5>1 DEF FileShape, LinesAreNumbered
        <5> QED BY <1>1, <5>1, <5>2
      <4> QED BY <4>1, <4>2
    <3>5. synced' <= Len(lines')
      BY <1>1, <3>1, <3>3 DEF FileShape
    <3> QED BY <1>1, <3>1, <3>2, <3>3, <3>4, <3>5 DEF FileShape, StoreShape, LinesAreNumbered
  <2> QED BY <2>2, <2>3
<1>3. CASE appendRolledBack
  <2>1. /\ lines' = lines /\ nextSeq' = nextSeq /\ synced' <= Len(lines)
        /\ handle' = IF handle = "closed" THEN "linked" ELSE handle
        /\ exists' = (exists \/ handle = "closed")
    BY <1>1, <1>3 DEF appendRolledBack, FileShape
  <2>2. FileShape'
    <3>1. ~exists' => ~exists
      BY <2>1
    <3>2. \A i \in 1 .. Len(lines) : lines[i].event <= offered'
      BY <1>1 DEF FileShape
    <3> QED BY <1>1, <2>1, <3>1, <3>2 DEF FileShape, LinesAreNumbered
  <2>3. StoreShape' /\ handle' # "closed"
    BY <2>1 DEF StoreShape, LogTypeOK
  <2> QED BY <2>2, <2>3
<1>4. CASE appendRefused
  BY <1>1, <1>4 DEF appendRefused, canNumber, fileVars, storeVars, FileShape, StoreShape,
                    LinesAreNumbered
<1> QED BY <1>2, <1>3, <1>4 DEF append

LEMMA AppendKeepsRows ==
    ASSUME LogTypeOK, FileShape, RowsFollowLines, append, lost' = lost
    PROVE  RowsFollowLines'
<1> SUFFICES ASSUME NEW row \in table'
             PROVE  \/ row.event \in removed' \cup lost'
                    \/ \E i \in 1 .. Len(lines') : lines'[i] = row
  BY DEF RowsFollowLines
<1>1. CASE row \in table
  BY <1>1, AppendGrows DEF RowsFollowLines
<1>2. CASE row \notin table
  <2>1. appendWritten /\ row = [seq |-> numberOf, event |-> event]
    BY <1>2 DEF append, appendWritten, appendRolledBack, appendRefused, inserted
  <2>2. CASE handle = "unlinked"
    BY <2>1, <2>2 DEF appendWritten
  <2>3. CASE handle # "unlinked"
    <3>1. [seq |-> numberOf, event |-> event] \in Line
      BY LineTypes DEF Line
    <3>2. lines' = Append(lines, row)
      BY <2>1, <2>3 DEF appendWritten
    <3> QED BY <2>1, <3>1, <3>2, OneMoreLine DEF LogTypeOK
  <2> QED BY <2>2, <2>3
<1> QED BY <1>1, <1>2

\* An event that was written is synced, or its handle is dirty.
LEMMA AppendRecords ==
    ASSUME LogTypeOK, FileShape, StoreShape, append, written
    PROVE  \E i \in 1 .. Len(lines') :
             lines'[i].event = event /\ (i <= synced' \/ (dirty' /\ handle' = "linked"))
<1>1. Len(lines) \in Nat /\ event = offered + 1 /\ offered \in Nat /\ synced \in Nat
  BY LineTypes DEF event, LogTypeOK
<1>2. PICK i \in 1 .. Len(lines') : lines'[i].event = event
  BY DEF written
<1>3. \A j \in 1 .. Len(lines) : lines[j].event # event
  BY <1>1, LineTypes DEF FileShape
<1>4. CASE appendWritten
  <2>1. handle # "unlinked"
    BY <1>2, <1>3, <1>4 DEF appendWritten
  <2>2. [seq |-> numberOf, event |-> event] \in Line
    BY LineTypes DEF Line
  <2>3. Len(lines') = Len(lines) + 1
    BY <1>4, <2>1, <2>2, OneMoreLine DEF appendWritten, LogTypeOK
  <2>4. synced' = Len(lines) + 1 \/ (dirty' = TRUE /\ handle' = "linked")
    BY <1>4, <2>1 DEF appendWritten, throttled, LogTypeOK
  <2> QED BY <1>1, <1>2, <2>3, <2>4
<1>5. CASE appendRolledBack \/ appendRefused
  BY <1>2, <1>3, <1>5 DEF appendRolledBack, appendRefused, fileVars
<1> QED BY <1>4, <1>5 DEF append

-----------------------------------------------------------------------------
(* The steps of the turns, each with what it may disturb.                   *)

LEMMA InitHolds == LogInit => LogInv
<1> SUFFICES ASSUME LogInit PROVE LogInv
  OBVIOUS
<1>1. lines \in Seq(Line) /\ Len(lines) = 0
  BY DEF LogInit
<1>2. LogTypeOK
  BY <1>1 DEF LogInit, LogTypeOK
<1>3. FileShape /\ StoreShape /\ TurnShape
  BY <1>1 DEF LogInit, FileShape, StoreShape, TurnShape, LinesAreNumbered
<1>4. RowsFollowLines /\ FinishShape
  BY DEF LogInit, RowsFollowLines, FinishShape
<1> QED BY <1>2, <1>3, <1>4 DEF LogInv

\* An append in a turn that goes on: everything but FinishShape.
LEMMA AppendStep ==
    ASSUME LogInv, append, instance, instance' = instance, lost' = lost,
           cut' = cut, ends' = ends, finish' \in Nat,
           turn \in {"idle", "event"}, runRow' \in {runRow, "active"},
           \/ turn' = turn /\ turn = "idle"
           \/ turn' \in {"settle", "interrupt"} /\ runRow' = "active"
    PROVE  /\ LogTypeOK' /\ FileShape' /\ StoreShape' /\ TurnShape'
           /\ RowsFollowLines'
<1>1. LogTypeOK'
  BY AppendTypes DEF LogInv, LogTypeOK
<1>2. FileShape' /\ StoreShape' /\ (nextSeq' # 0 => handle' # "closed")
  BY AppendKeepsFile DEF LogInv
<1>3. TurnShape'
  BY <1>2 DEF TurnShape, LogInv, LogTypeOK
<1>4. RowsFollowLines'
  BY AppendKeepsRows DEF LogInv
<1> QED BY <1>1, <1>2, <1>3, <1>4

\* An append outside the end of the run leaves the last terminal event alone.
LEMMA AppendAside ==
    ASSUME LogInv, append, turn = "idle", turn' = "idle", finish' = finish, cut' = cut,
           runRow' \in {runRow, "active"}
    PROVE  FinishShape'
<1> SUFFICES ASSUME finish # 0, finish \notin removed', ~cut, runRow' # "active"
             PROVE  \E i \in 1 .. Len(lines') : recordedLine(i)'
  BY DEF FinishShape, ending
<1>1. /\ Len(lines) <= Len(lines') /\ Len(lines) \in Nat /\ Len(lines') \in Nat
      /\ \A i \in 1 .. Len(lines) : lines'[i] = lines[i]
      /\ synced <= synced' /\ finish \notin removed
  BY AppendGrows DEF LogInv
<1>2. PICK i \in 1 .. Len(lines) : lines[i].event = finish /\ i <= synced
  BY <1>1 DEF LogInv, FinishShape, ending, recordedLine
<1>3. synced \in Nat /\ synced' \in Nat
  BY AppendTypes DEF LogInv, LogTypeOK
<1>4. i \in 1 .. Len(lines') /\ lines'[i].event = finish' /\ i <= synced'
  BY <1>1, <1>2, <1>3
<1> QED BY <1>4 DEF recordedLine

\* An append that ends the run names its event, or none.
LEMMA AppendEnds ==
    ASSUME LogInv, append, turn' \in {"settle", "interrupt"},
           finish' = IF written THEN event ELSE 0
    PROVE  finish' \in Nat /\ FinishShape'
<1>1. finish' \in Nat
  BY LineTypes DEF LogInv
<1>2. ASSUME finish' # 0 PROVE \E i \in 1 .. Len(lines') : recordedLine(i)'
  <2>1. written /\ finish' = event
    BY <1>2
  <2> QED BY <2>1, AppendRecords DEF recordedLine, ending, LogInv
<1> QED BY <1>1, <1>2 DEF FinishShape

LEMMA LogEventStep == ASSUME LogInv, LogEvent PROVE LogInv'
<1>1. FinishShape'
  BY AppendAside DEF LogEvent, idle
<1>2. /\ LogTypeOK' /\ FileShape' /\ StoreShape' /\ TurnShape' /\ RowsFollowLines'
  BY AppendStep DEF LogEvent, idle, LogInv, LogTypeOK
<1> QED BY <1>1, <1>2 DEF LogInv

LEMMA ResumeRunStep == ASSUME LogInv, ResumeRun PROVE LogInv'
<1>1. FinishShape'
  BY AppendAside DEF ResumeRun, idle
<1>2. /\ LogTypeOK' /\ FileShape' /\ StoreShape' /\ TurnShape' /\ RowsFollowLines'
  BY AppendStep DEF ResumeRun, idle, LogInv, LogTypeOK
<1> QED BY <1>1, <1>2 DEF LogInv

LEMMA SettleEventStep == ASSUME LogInv, SettleEvent PROVE LogInv'
<1>1. finish' \in Nat /\ FinishShape'
  BY AppendEnds DEF SettleEvent
<1>2. /\ LogTypeOK' /\ FileShape' /\ StoreShape' /\ TurnShape' /\ RowsFollowLines'
  BY <1>1, AppendStep DEF SettleEvent, idle
<1> QED BY <1>1, <1>2 DEF LogInv

LEMMA InterruptEventStep == ASSUME LogInv, InterruptEvent PROVE LogInv'
<1>1. finish' \in Nat /\ FinishShape'
  BY AppendEnds DEF InterruptEvent
<1>2. runRow = "active"
  BY DEF InterruptEvent, LogInv, TurnShape
<1>3. /\ LogTypeOK' /\ FileShape' /\ StoreShape' /\ TurnShape' /\ RowsFollowLines'
  BY <1>1, <1>2, AppendStep DEF InterruptEvent
<1> QED BY <1>1, <1>3 DEF LogInv

\* The steps that leave the log as it is.
LEMMA RowStep == ASSUME LogInv, SettleRow \/ InterruptRow PROVE LogInv'
<1> USE DEF SettleRow, InterruptRow, fileVars, storeVars
<1>1. LogTypeOK'
  BY DEF LogInv, LogTypeOK
<1>2. FileShape' /\ StoreShape' /\ RowsFollowLines'
  BY DEF LogInv, FileShape, StoreShape, RowsFollowLines, LinesAreNumbered
<1>3. TurnShape'
  BY DEF LogInv, TurnShape
<1>4. FinishShape'
  BY DEF LogInv, FinishShape, ending, recordedLine
<1> QED BY <1>1, <1>2, <1>3, <1>4 DEF LogInv

LEMMA StartStep == ASSUME LogInv, StartInstance PROVE LogInv'
<1> USE DEF StartInstance, fileVars, storeVars
<1>1. LogTypeOK'
  BY DEF LogInv, LogTypeOK
<1>2. FileShape' /\ StoreShape' /\ RowsFollowLines'
  BY DEF LogInv, FileShape, StoreShape, RowsFollowLines, LinesAreNumbered
<1>3. TurnShape'
  BY DEF LogInv, TurnShape
<1>4. FinishShape'
  BY DEF LogInv, FinishShape, ending, recordedLine, TurnShape
<1> QED BY <1>1, <1>2, <1>3, <1>4 DEF LogInv

\* An fsync of what is dirty covers the terminal event.
LEMMA FsyncCovers ==
    ASSUME LogInv
    PROVE  /\ fsyncs \in Nat /\ synced <= fsyncs /\ fsyncs <= Len(lines)
           /\ \A i \in 1 .. Len(lines) : recordedLine(i) => i <= fsyncs
<1>1. synced \in Nat /\ Len(lines) \in Nat /\ synced <= Len(lines)
  BY LineTypes DEF LogInv, LogTypeOK, FileShape
<1>2. CASE dirty /\ handle = "linked"
  BY <1>1, <1>2 DEF fsyncs, recordedLine
<1>3. CASE ~(dirty /\ handle = "linked")
  BY <1>1, <1>3 DEF fsyncs, recordedLine
<1> QED BY <1>2, <1>3

LEMMA FsyncStep ==
    ASSUME LogInv, SettleClose \/ FlushLog PROVE LogInv'
<1>1. /\ UNCHANGED <<exists, lines, tornLine, table, offered, finish, removed, lost,
                     refused, cut, runRow, instance, ends>>
      /\ synced' = fsyncs /\ dirty' = FALSE /\ turn' = "idle"
      /\ instance /\ turn \in {"close", "flush"}
  BY DEF SettleClose, FlushLog, closed
<1>2. \/ handle' = "closed" /\ nextSeq' = 0 /\ validated' = 0
      \/ UNCHANGED <<handle, nextSeq, validated>>
  BY DEF SettleClose, FlushLog, closed
<1>3. LogTypeOK'
  <2>1. synced' \in Nat
    BY <1>1, FsyncCovers
  <2>2. /\ dirty' \in BOOLEAN /\ turn' = "idle" /\ instance' \in BOOLEAN
        /\ UNCHANGED <<exists, lines, tornLine, table, offered, finish, removed,
                       lost, refused, cut, runRow, ends>>
    BY <1>1
  <2>3. handle' \in {"closed", "linked", "unlinked"}
    BY <1>2 DEF LogInv, LogTypeOK
  <2>4. nextSeq' \in Nat /\ validated' \in Nat
    BY <1>2 DEF LogInv, LogTypeOK
  <2> QED BY <2>1, <2>2, <2>3, <2>4 DEF LogInv, LogTypeOK
<1>4. FileShape' /\ StoreShape' /\ RowsFollowLines'
  BY <1>1, <1>2, FsyncCovers
  DEF LogInv, FileShape, StoreShape, RowsFollowLines, LinesAreNumbered
<1>5. TurnShape'
  BY <1>1, <1>2 DEF LogInv, TurnShape
<1>6. FinishShape'
  <2> SUFFICES ASSUME finish # 0, finish \notin removed, ~cut
               PROVE  \E i \in 1 .. Len(lines) : recordedLine(i)'
    BY <1>1 DEF FinishShape
  <2>1. PICK i \in 1 .. Len(lines) : recordedLine(i)
    BY <1>1 DEF LogInv, FinishShape, ending
  <2>2. i <= fsyncs /\ lines[i].event = finish
    BY <2>1, FsyncCovers DEF recordedLine
  <2> QED BY <1>1, <2>2 DEF recordedLine
<1> QED BY <1>3, <1>4, <1>5, <1>6 DEF LogInv

LEMMA CollectStep == ASSUME LogInv, CollectLog PROVE LogInv'
<1>1. /\ UNCHANGED <<instance, runRow, turn, dirty, nextSeq, validated, table,
                     offered, ends, finish, lost, refused, cut>>
      /\ exists' = FALSE /\ lines' = <<>> /\ tornLine' = FALSE /\ synced' = 0
      /\ removed' = removed \cup {lines[i].event : i \in 1 .. Len(lines)}
      /\ handle' = IF handle = "linked" THEN "unlinked" ELSE handle
      /\ instance /\ turn = "idle" /\ runRow # "active" /\ exists
  BY DEF CollectLog, idle
<1>2. lines' \in Seq(Line) /\ Len(lines') = 0
  BY <1>1
<1>3. removed' \subseteq Nat
  BY <1>1, LineTypes DEF LogInv, LogTypeOK
<1>0. handle' \in {"closed", "linked", "unlinked"}
  BY <1>1 DEF LogInv, LogTypeOK
<1>4. LogTypeOK'
  <2>1. exists' \in BOOLEAN /\ tornLine' \in BOOLEAN /\ synced' \in Nat
    BY <1>1
  <2>2. /\ dirty' \in BOOLEAN /\ instance' \in BOOLEAN /\ cut' \in BOOLEAN
        /\ UNCHANGED <<runRow, turn, nextSeq, validated, table, offered, ends,
                       finish, lost, refused>>
    BY <1>1 DEF LogInv, LogTypeOK
  <2> QED BY <1>0, <1>2, <1>3, <2>1, <2>2 DEF LogInv, LogTypeOK
<1>5. handle' # "linked" /\ (nextSeq # 0 => handle' = "unlinked")
  BY <1>1 DEF LogInv, LogTypeOK, TurnShape
<1>6. FileShape' /\ StoreShape'
  BY <1>1, <1>2, <1>5 DEF LogInv, FileShape, StoreShape, LinesAreNumbered
<1>7. TurnShape'
  BY <1>1, <1>5 DEF LogInv, TurnShape
<1>8. RowsFollowLines'
  BY <1>1 DEF LogInv, RowsFollowLines
<1>9. FinishShape'
  BY <1>1 DEF LogInv, FinishShape, ending, recordedLine
<1> QED BY <1>4, <1>6, <1>7, <1>8, <1>9 DEF LogInv

\* An instance ends, and the file keeps its first n lines, the synced ones
\* among them.
LEMMA EndStep ==
    ASSUME LogInv, ended, NEW n \in Nat, synced <= n, n <= Len(lines),
           UNCHANGED <<runRow, exists, table, offered, finish, removed, refused>>,
           lines' \in Seq(Line), Len(lines') = n,
           \A i \in 1 .. n : lines'[i] = lines[i],
           synced' \in Nat, synced <= synced', synced' <= n, tornLine' \in BOOLEAN,
           lost \subseteq lost', lost' \subseteq Nat,
           \A i \in n + 1 .. Len(lines) : lines[i].event \in lost'
    PROVE  LogInv'
<1>1. /\ handle' = "closed" /\ dirty' = FALSE /\ nextSeq' = 0 /\ validated' = 0
      /\ instance' = FALSE /\ turn' = "idle" /\ ends' = ends + 1
      /\ cut' = (cut \/ turn \in {"flush", "close"})
  BY DEF ended
<1>2. Len(lines) \in Nat /\ synced \in Nat
  BY LineTypes DEF LogInv, LogTypeOK
<1>3. LogTypeOK'
  <2>0. ends' \in Nat
    BY <1>1 DEF LogInv, LogTypeOK
  <2>1. cut' \in BOOLEAN /\ dirty' \in BOOLEAN /\ instance' \in BOOLEAN
    BY <1>1 DEF LogInv, LogTypeOK
  <2>2. nextSeq' \in Nat /\ validated' \in Nat
    BY <1>1
  <2>3. /\ UNCHANGED <<runRow, exists, table, offered, finish, removed, refused>>
        /\ lines' \in Seq(Line) /\ synced' \in Nat /\ tornLine' \in BOOLEAN
        /\ lost' \subseteq Nat
        /\ handle' = "closed" /\ turn' = "idle"
    BY <1>1
  <2> QED BY <2>0, <2>1, <2>2, <2>3 DEF LogInv, LogTypeOK
<1>4. FileShape'
  <2>1. ~exists => lines' = <<>>
    <3> SUFFICES ASSUME ~exists PROVE lines' = <<>>
      OBVIOUS
    <3>1. Len(lines) = 0
      BY DEF LogInv, FileShape
    <3> QED BY <1>2, <3>1
  <2>2. \A i \in 1 .. n : lines'[i].event <= offered /\ lines'[i].seq = i
    BY <1>2 DEF LogInv, FileShape, LinesAreNumbered
  <2> QED BY <2>1, <2>2 DEF FileShape, LinesAreNumbered
<1>5. StoreShape' /\ TurnShape'
  BY <1>1 DEF StoreShape, TurnShape
<1>6. RowsFollowLines'
  <2> SUFFICES ASSUME NEW row \in table, row.event \notin removed, row.event \notin lost'
               PROVE  \E i \in 1 .. n : lines'[i] = row
    BY DEF RowsFollowLines
  <2>1. PICK i \in 1 .. Len(lines) : lines[i] = row
    BY DEF LogInv, RowsFollowLines
  <2>2. i \in 1 .. n
    BY <1>2, <2>1
  <2> QED BY <2>1, <2>2
<1>7. FinishShape'
  <2> SUFFICES ASSUME finish # 0, finish \notin removed, ~cut,
                      turn \notin {"flush", "close"}, runRow # "active"
               PROVE  \E i \in 1 .. n : recordedLine(i)'
    BY <1>1 DEF FinishShape, ending
  <2>1. turn \notin {"settle", "interrupt"}
    BY DEF LogInv, TurnShape
  <2>2. PICK i \in 1 .. Len(lines) : lines[i].event = finish /\ i <= synced
    BY <2>1 DEF LogInv, FinishShape, ending, recordedLine
  <2>3. i \in 1 .. n /\ i <= synced' /\ lines'[i].event = finish'
    BY <1>2, <2>2
  <2> QED BY <2>3 DEF recordedLine
<1> QED BY <1>3, <1>4, <1>5, <1>6, <1>7 DEF LogInv

LEMMA EndsStep ==
    ASSUME LogInv, QuitInstance \/ KillInstance \/ PowerFails PROVE LogInv'
<1>1. /\ Len(lines) \in Nat /\ synced \in Nat /\ synced <= Len(lines)
      /\ lines \in Seq(Line) /\ lost \subseteq Nat /\ tornLine \in BOOLEAN
  BY LineTypes DEF LogInv, LogTypeOK, FileShape
<1>2. CASE QuitInstance
  BY <1>1, <1>2, EndStep, FsyncCovers DEF QuitInstance
<1>3. CASE KillInstance
  BY <1>1, <1>3, EndStep DEF KillInstance, fileVars
<1>4. CASE PowerFails
  <2>1. PICK n \in synced .. Len(lines) :
               /\ lines' = SubSeq(lines, 1, n) /\ synced' = n
               /\ lost' = lost \cup {lines[i].event : i \in n + 1 .. Len(lines)}
               /\ tornLine' \in (IF n < Len(lines) THEN BOOLEAN ELSE {tornLine})
    BY <1>4 DEF PowerFails
  <2>2. /\ lines' \in Seq(Line) /\ Len(lines') = n
        /\ \A i \in 1 .. n : lines'[i] = lines[i]
    BY <1>1, <2>1, CutShort
  <2>3. lost' \subseteq Nat
    <3>1. n \in Nat
      BY <1>1
    <3>2. ASSUME NEW i \in n + 1 .. Len(lines) PROVE lines[i].event \in Nat
      <4>1. i \in 1 .. Len(lines)
        BY <1>1, <3>1
      <4> QED BY <4>1, LineTypes DEF LogInv
    <3> QED BY <1>1, <2>1, <3>2
  <2>4. tornLine' \in BOOLEAN
    BY <1>1, <2>1
  <2> QED BY <1>1, <1>4, <2>1, <2>2, <2>3, <2>4, EndStep DEF PowerFails
<1> QED BY <1>2, <1>3, <1>4

LEMMA InitializeStep == ASSUME LogInv, InitializeLog PROVE LogInv'
<1>1. /\ UNCHANGED <<instance, runRow, lines, tornLine, synced, handle, dirty, table,
                     offered, ends, finish, removed, lost, refused, cut>>
      /\ exists' = TRUE /\ turn = "initialize" /\ turn' = "event" /\ instance
      /\ \/ nextSeq' = Len(lines) + 1 /\ validated' = Len(lines)
         \/ UNCHANGED <<nextSeq, validated>>
  BY DEF InitializeLog
<1>2. Len(lines) \in Nat
  BY LineTypes DEF LogInv
<1>3. LogTypeOK'
  BY <1>1, <1>2 DEF LogInv, LogTypeOK
<1>4. handle = "closed" /\ nextSeq = 0 /\ runRow = "active"
  BY <1>1 DEF LogInv, TurnShape
<1>5. FileShape' /\ StoreShape' /\ RowsFollowLines'
  BY <1>1, <1>4 DEF LogInv, FileShape, StoreShape, RowsFollowLines, LinesAreNumbered
<1>6. TurnShape'
  BY <1>1, <1>4 DEF LogInv, TurnShape
<1>7. FinishShape'
  BY <1>1, <1>4 DEF FinishShape, ending
<1> QED BY <1>3, <1>5, <1>6, <1>7 DEF LogInv

LEMMA StutterStep == ASSUME LogInv, UNCHANGED logVars PROVE LogInv'
BY DEF logVars, fileVars, storeVars, LogInv, LogTypeOK, FileShape, StoreShape, TurnShape,
       RowsFollowLines, FinishShape, recordedLine, ending, LinesAreNumbered

LEMMA LogInvHolds == LogSpec => []LogInv
<1>1. ASSUME LogInv, [LogNext]_logVars PROVE LogInv'
  BY <1>1, LogEventStep, SettleEventStep, RowStep, FsyncStep, ResumeRunStep, CollectStep,
     EndsStep, StartStep, InitializeStep, InterruptEventStep, StutterStep DEF LogNext
<1> QED BY <1>1, InitHolds, PTL DEF LogSpec

-----------------------------------------------------------------------------
(* The results.                                                             *)

\* Every variable of the log keeps its type (run-log-store.ts).
THEOREM LogTypes == LogSpec => []LogTypeOK
<1>1. LogInv => LogTypeOK
  BY DEF LogInv
<1> QED BY <1>1, LogInvHolds, PTL

\* The lines of a log are numbered from one without a gap, over every roll-back,
\* cache, tear, deletion and restart (run-log-store.ts:193-198).
THEOREM LogIsNumbered == LogSpec => []LinesAreNumbered
<1>1. LogInv => LinesAreNumbered
  BY DEF LogInv, FileShape
<1> QED BY <1>1, LogInvHolds, PTL

\* No row of agent_events stands without its line, but for lines that retention
\* or a power failure took (run-log-store.ts:138-140).
THEOREM TableFollowsLog == LogSpec => []RowsFollowLines
<1>1. LogInv => RowsFollowLines
  BY DEF LogInv
<1> QED BY <1>1, LogInvHolds, PTL

\* A terminal status and its event survive a power failure together, unless an
\* instance ended in the turn that wrote them (run-log-store.ts:151-154).
THEOREM TerminalEventIsDurable == LogSpec => []TerminalIsDurable
<1>1. LogInv => TerminalIsDurable
  BY DEF LogInv, FinishShape, TerminalIsDurable, recordedLine, ending
<1> QED BY <1>1, LogInvHolds, PTL

\* The store never disagrees with its own file: it refuses an event only while
\* the last line is torn or the file is gone (run-log-store.ts:171-201).
THEOREM RefusalsAreExcused == LogSpec => RefusedOnlyAfterLoss
<1>1. ASSUME LogInv, [LogNext]_logVars, refused' # refused PROVE tornLine \/ ~exists
  <2>1. append
    BY <1>1 DEF LogNext, LogEvent, SettleEvent, SettleRow, SettleClose, ResumeRun,
                CollectLog, QuitInstance, KillInstance, PowerFails, StartInstance,
                InitializeLog, InterruptEvent, InterruptRow, FlushLog, logVars
  <2>2. ~countable
    BY <1>1, <2>1 DEF append, appendWritten, appendRolledBack, appendRefused, canNumber
  <2> QED BY <1>1, <2>2 DEF countable, LogInv, FileShape, LinesAreNumbered
<1>2. [LogNext]_logVars /\ LogInv => [refused' # refused => tornLine \/ ~exists]_logVars
  BY <1>1
<1> QED BY <1>2, LogInvHolds, PTL DEF LogSpec, RefusedOnlyAfterLoss
=============================================================================
