------------------------------ MODULE Collector ------------------------------
(***************************************************************************)
(* Reporting one Session's Turns: the transcripts Claude Code writes, the   *)
(* hook processes that read them past a cursor and send what they find      *)
(* (packages/plugin/src/report.mjs, cursors.mjs), and POST /api/ingest,     *)
(* which files each Turn once (apps/web/app/api/ingest/route.ts).           *)
(*                                                                          *)
(* What is abstracted.  A byte offset is a number of lines.  A line is the  *)
(* Turn whose usage it carries, or NoTurn (bookkeeping, or a Turn that      *)
(* belongs to another file); the k-th line of a Turn states a running total *)
(* of k, so the maximum the parser takes is the number of the last line it  *)
(* saw.  A report is the Turns of one file that ran in one Project; slicing *)
(* a Project's Turns by TURNS_PER_REPORT only makes more reports of them.   *)
(* Hooks are concurrent processes without a lock between them, and each may *)
(* be killed between any two of its steps.                                  *)
(***************************************************************************)
EXTENDS Naturals, Sequences, FiniteSets

CONSTANTS
  NumFiles,            \* transcript 1 is the Session's own, the others its Agent Runs'
  Turns,               \* Turn identities (ADR 0006)
  NoTurn,              \* a line that carries no Turn of its file
  Owner,               \* Owner[t]: the transcript t is reported from
  ProjectOf,           \* ProjectOf[t]: the Project t ran in
  Hooks,               \* hook processes alive at once
  ReportsPerPayload,   \* REPORTS_PER_PAYLOAD
  ReadLimit,           \* READ_LIMIT, in lines
  Entries,             \* bound: lines a Turn is written as
  MaxNoise,            \* bound: NoTurn lines per file
  MaxFaults            \* bound: kills, expired deadlines, failed reads, writes and requests

Files == 1 .. NumFiles

ASSUME ConstantsAssumption ==
  /\ NumFiles \in Nat
  /\ NoTurn \notin Turns
  /\ Owner \in [Turns -> Files]
  /\ ReportsPerPayload \in Nat \ {0}
  /\ ReadLimit \in Nat \ {0}
  /\ Entries \in Nat
  /\ MaxNoise \in Nat
  /\ MaxFaults \in Nat

VARIABLES
  \* the transcripts, written by Claude Code
  lines,     \* lines[f]: what transcript f holds, its last line perhaps unfinished
  tail,      \* tail[f]: "ended" | "open" (whole, newline not landed) | "torn"
  open,      \* whether the Session is still running
  \* the Collector's state directory
  cursor,    \* cursor[f]: newline-ended lines acknowledged; 0 is no cursor
  \* the deployment
  stored,    \* stored[t]: the total in t's row, 0 for no row
  late,      \* requests whose client stopped waiting and that may still land
  marker,    \* the session_end marker: "none" | "queued" | "stored"
  \* the hook processes
  pc,        \* "idle" | "cursor" | "file" | "send" | "write" | "marker"
  ending,    \* ending[h]: h is a SessionEnd, which attaches the marker
  at,        \* at[h]: the transcript h is about to read
  from,      \* from[h]: the cursor h read for it
  seen,      \* seen[h][t]: the total h parsed for t, 0 for none
  reports,   \* reports[h]: the reports h built, in order
  advance,   \* advance[h][f]: where h read transcript f to, 0 for nowhere
  sent,      \* sent[h]: how many of the reports have had their answer
  acked,     \* acked[h]: transcripts a request carrying them was accepted for
  refused,   \* refused[h]: transcripts a request carrying them was refused for
  faults     \* how much of the fault budget is spent

writerVars == <<lines, tail, open>>
planVars == <<ending, at, from, seen, reports, advance>>
sendVars == <<sent, acked, refused>>
serverVars == <<stored, late, marker>>
vars == <<lines, tail, open, cursor, stored, late, marker, pc, ending, at, from,
          seen, reports, advance, sent, acked, refused, faults>>

-----------------------------------------------------------------------------
(* Reading a transcript *)

Lesser(a, b) == IF a < b THEN a ELSE b

\* How many lines of f end in a newline, and how many parse.
Whole(f) == IF tail[f] = "ended" THEN Len(lines[f]) ELSE Len(lines[f]) - 1
Parsed(f) == IF tail[f] = "torn" THEN Len(lines[f]) - 1 ELSE Len(lines[f])

\* The total t's lines state among the first n of f.
Total(f, t, n) == Cardinality({i \in 1 .. n : lines[f][i] = t})

\* Whether one of the first n lines of f is t's.
Passed(f, t, n) == \E i \in 1 .. n : lines[f][i] = t

\* A cursor is resumed from only inside the file and just past a newline.
Resume(f, c) == IF 0 < c /\ c <= Whole(f) THEN c ELSE 0

\* Where a read of f from lo gets to: past the last newline it saw.
ReadToLastByte(f, lo) == Lesser(Len(lines[f]), lo + ReadLimit)   \* mutated form
ReadTo(f, lo) == Lesser(Whole(f), lo + ReadLimit)

\* The Turns of f itself among lines lo + 1 .. hi: what parseTranscript groups
\* and the ownership filter of reportsFor keeps.
Own(f, lo, hi) ==
  {t \in Turns : Owner[t] = f /\ \E i \in lo + 1 .. hi : lines[f][i] = t}

ReportKey(t) == [file |-> Owner[t], project |-> ProjectOf[t]]

\* The first line of f past lo that belongs to report r.
OpensAt(f, lo, r, i) ==
  /\ lines[f][i] \in Turns /\ ReportKey(lines[f][i]) = r
  /\ \A j \in lo + 1 .. i - 1 :
       lines[f][j] \in Turns => ReportKey(lines[f][j]) # r

\* The reports of f's Turns among lines lo + 1 .. hi: one per Project, in the
\* order the Projects are first seen.
ReportSeqs(f, lo, hi) ==
  LET keys == {ReportKey(t) : t \in Own(f, lo, hi)} IN
  {s \in UNION {[1 .. n -> keys] : n \in 0 .. hi - lo} :
     /\ \A r \in keys : \E i \in DOMAIN s : s[i] = r
     /\ \A i, j \in DOMAIN s : i < j =>
          \E m, n \in lo + 1 .. hi :
            m < n /\ OpensAt(f, lo, s[i], m) /\ OpensAt(f, lo, s[j], n)}

-----------------------------------------------------------------------------
(* The requests of one flush *)

\* The reports of h's next request, and the Turns and transcripts they carry.
BatchOneShort(h) ==   \* mutated form
  {reports[h][i] : i \in sent[h] + 1
                         .. Lesser(sent[h] + ReportsPerPayload, Len(reports[h])) - 1}
Batch(h) ==
  {reports[h][i] : i \in sent[h] + 1
                         .. Lesser(sent[h] + ReportsPerPayload, Len(reports[h]))}
Carried(h) == {t \in Turns : seen[h][t] > 0 /\ ReportKey(t) \in Batch(h)}
CarriedFiles(h) == {r.file : r \in Batch(h)}

\* What that request asks ingest to file: a total per Turn, 0 for not carried.
Payload(h) == [t \in Turns |-> IF t \in Carried(h) THEN seen[h][t] ELSE 0]

InsertOverwriting(rows) ==   \* mutated form of Insert
  stored' = [t \in Turns |-> IF rows[t] > 0 THEN rows[t] ELSE stored[t]]

\* insert into turns ... on conflict do nothing
Insert(rows) ==
  stored' = [t \in Turns |-> IF stored[t] = 0 THEN rows[t] ELSE stored[t]]

Fault == faults < MaxFaults /\ faults' = faults + 1

-----------------------------------------------------------------------------

WriterTypeOK ==
  /\ lines \in [Files -> Seq(Turns \cup {NoTurn})]
  /\ tail \in [Files -> {"ended", "open", "torn"}]
  /\ \A f \in Files : tail[f] # "ended" => Len(lines[f]) > 0
  /\ open \in BOOLEAN

ServerTypeOK ==
  /\ stored \in [Turns -> Nat]
  /\ late \in SUBSET [Turns -> Nat]
  /\ marker \in {"none", "queued", "stored"}

StageTypeOK ==
  /\ pc \in [Hooks -> {"idle", "cursor", "file", "send", "write", "marker"}]
  /\ ending \in [Hooks -> BOOLEAN]
  /\ at \in [Hooks -> Nat]
  /\ \A h \in Hooks : pc[h] \in {"cursor", "file"} => at[h] \in Files

ReadTypeOK ==
  /\ from \in [Hooks -> Nat]
  /\ seen \in [Hooks -> [Turns -> Nat]]
  /\ advance \in [Hooks -> [Files -> Nat]]

ReportTypeOK ==
  /\ reports \in [Hooks -> Seq({ReportKey(t) : t \in Turns})]
  /\ sent \in [Hooks -> Nat]
  /\ \A h \in Hooks : sent[h] <= Len(reports[h])

AnswerTypeOK ==
  /\ acked \in [Hooks -> SUBSET Files]
  /\ refused \in [Hooks -> SUBSET Files]

TypeOK ==
  /\ WriterTypeOK /\ ServerTypeOK /\ StageTypeOK
  /\ ReadTypeOK /\ ReportTypeOK /\ AnswerTypeOK
  /\ cursor \in [Files -> Nat]
  /\ faults \in 0 .. MaxFaults

Init ==
  /\ lines = [f \in Files |-> <<>>]
  /\ tail = [f \in Files |-> "ended"]
  /\ open = TRUE
  /\ cursor = [f \in Files |-> 0]
  /\ stored = [t \in Turns |-> 0]
  /\ late = {}
  /\ marker = "none"
  /\ pc = [h \in Hooks |-> "idle"]
  /\ ending = [h \in Hooks |-> FALSE]
  /\ at = [h \in Hooks |-> 1]
  /\ from = [h \in Hooks |-> 0]
  /\ seen = [h \in Hooks |-> [t \in Turns |-> 0]]
  /\ reports = [h \in Hooks |-> <<>>]
  /\ advance = [h \in Hooks |-> [f \in Files |-> 0]]
  /\ sent = [h \in Hooks |-> 0]
  /\ acked = [h \in Hooks |-> {}]
  /\ refused = [h \in Hooks |-> {}]
  /\ faults = 0

-----------------------------------------------------------------------------
(* Claude Code, the writer.  The bounds Entries and MaxNoise are its. *)

\* Another line: of a Turn of this file, or one that carries none.  It lands
\* whole, without its newline yet, or torn.
AppendLine(f) ==
  /\ open /\ tail[f] = "ended"
  /\ \E x \in Turns \cup {NoTurn} :
       /\ IF x = NoTurn THEN Total(f, x, Len(lines[f])) < MaxNoise
                        ELSE Owner[x] = f /\ Total(f, x, Len(lines[f])) < Entries
       /\ lines' = [lines EXCEPT ![f] = Append(@, x)]
  /\ \E w \in {"ended", "open", "torn"} : tail' = [tail EXCEPT ![f] = w]
  /\ UNCHANGED <<open, cursor, stored, late, marker, pc, ending, at, from, seen,
                 reports, advance, sent, acked, refused, faults>>

\* The rest of the last line lands.  A killed session never does this.
FinishLine(f) ==
  /\ open /\ tail[f] # "ended"
  /\ tail' = [tail EXCEPT ![f] = "ended"]
  /\ UNCHANGED <<lines, open, cursor, stored, late, marker, pc, ending, at, from,
                 seen, reports, advance, sent, acked, refused, faults>>

EndSession ==
  /\ open
  /\ open' = FALSE
  /\ UNCHANGED <<lines, tail, cursor, stored, late, marker, pc, ending, at, from,
                 seen, reports, advance, sent, acked, refused, faults>>

-----------------------------------------------------------------------------
(* One flush, by hook process h *)

\* What a process holds before it has read anything, and after it is gone.
Forget(h) ==
  /\ from' = [from EXCEPT ![h] = 0]
  /\ seen' = [seen EXCEPT ![h] = [t \in Turns |-> 0]]
  /\ reports' = [reports EXCEPT ![h] = <<>>]
  /\ advance' = [advance EXCEPT ![h] = [f \in Files |-> 0]]
  /\ sent' = [sent EXCEPT ![h] = 0]
  /\ acked' = [acked EXCEPT ![h] = {}]
  /\ refused' = [refused EXCEPT ![h] = {}]
  /\ at' = [at EXCEPT ![h] = 1]

\* A Stop, or the SessionStart sweep reaching this Session, or its SessionEnd.
StartFlush(h, end) ==
  /\ pc[h] = "idle" /\ NumFiles > 0
  /\ end => ~open
  /\ pc' = [pc EXCEPT ![h] = "cursor"]
  /\ ending' = [ending EXCEPT ![h] = end]
  /\ Forget(h)
  /\ UNCHANGED <<writerVars, cursor, serverVars, faults>>

ReadCursor(h) ==
  /\ pc[h] = "cursor"
  /\ from' = [from EXCEPT ![h] = cursor[at[h]]]
  /\ pc' = [pc EXCEPT ![h] = "file"]
  /\ UNCHANGED <<writerVars, cursor, serverVars, ending, at, seen, reports,
                 advance, sendVars, faults>>

NextFileOneMore(h) ==   \* mutated form of NextFile
  IF at[h] <= NumFiles
    THEN /\ at' = [at EXCEPT ![h] = @ + 1]
         /\ pc' = [pc EXCEPT ![h] = "cursor"]
    ELSE /\ pc' = [pc EXCEPT ![h] = IF reports'[h] = <<>> THEN "write" ELSE "send"]
         /\ UNCHANGED at

\* On to the next transcript, or to the requests if there are any.
NextFile(h) ==
  IF at[h] < NumFiles
    THEN /\ at' = [at EXCEPT ![h] = @ + 1]
         /\ pc' = [pc EXCEPT ![h] = "cursor"]
    ELSE /\ pc' = [pc EXCEPT ![h] = IF reports'[h] = <<>> THEN "write" ELSE "send"]
         /\ UNCHANGED at

\* readFrom and reportsFor: at most ReadLimit lines past the cursor; no Turn
\* of the file's own among them makes no report and moves no cursor.
ReadTranscript(h) ==
  LET f == at[h]
      lo == Resume(f, from[h])
      hi == Lesser(Parsed(f), lo + ReadLimit)
      own == Own(f, lo, hi)
  IN /\ pc[h] = "file"
     /\ IF own = {}
          THEN UNCHANGED <<seen, reports, advance>>
          ELSE /\ seen' = [seen EXCEPT ![h] =
                    [t \in Turns |-> IF t \in own THEN Total(f, t, hi) ELSE @[t]]]
               /\ \E s \in ReportSeqs(f, lo, hi) :
                    reports' = [reports EXCEPT ![h] = @ \o s]
               /\ advance' = [advance EXCEPT ![h] =
                    [@ EXCEPT ![f] = ReadTo(f, lo)]]
     /\ NextFile(h)
     /\ UNCHANGED <<writerVars, cursor, serverVars, ending, from, sendVars, faults>>

\* The transcript is gone, locked or unreadable: skipped, and nothing says so.
ReadFails(h) ==
  /\ pc[h] = "file" /\ Fault
  /\ UNCHANGED <<writerVars, cursor, serverVars, ending, from, seen, reports,
                 advance, sendVars>>
  /\ NextFile(h)

AnsweredUnchecked(h, ok) ==   \* mutated form of Answered
  /\ pc[h] = "send"
  /\ sent' = [sent EXCEPT ![h] = Lesser(@ + ReportsPerPayload, Len(reports[h]))]
  /\ pc' = [pc EXCEPT ![h] = IF sent'[h] = Len(reports[h]) THEN "write" ELSE "send"]
  /\ acked' = [acked EXCEPT ![h] = @ \cup CarriedFiles(h)]
  /\ UNCHANGED refused

\* One request's answer: its transcripts join the accepted or the refused, and
\* after the last one the cursors are next.
Answered(h, ok) ==
  /\ pc[h] = "send"
  /\ sent' = [sent EXCEPT ![h] = Lesser(@ + ReportsPerPayload, Len(reports[h]))]
  /\ pc' = [pc EXCEPT ![h] = IF sent'[h] = Len(reports[h]) THEN "write" ELSE "send"]
  /\ IF ok THEN /\ acked' = [acked EXCEPT ![h] = @ \cup CarriedFiles(h)]
                /\ UNCHANGED refused
           ELSE /\ refused' = [refused EXCEPT ![h] = @ \cup CarriedFiles(h)]
                /\ UNCHANGED acked

\* Ingest files the batch and the 200 arrives.
SendAccepted(h) ==
  /\ Answered(h, TRUE) /\ Insert(Payload(h))
  /\ UNCHANGED <<writerVars, cursor, late, marker, planVars, faults>>

\* Ingest files the batch and the answer is lost.
SendAnswerLost(h) ==
  /\ Answered(h, FALSE) /\ Fault /\ Insert(Payload(h))
  /\ UNCHANGED <<writerVars, cursor, late, marker, planVars>>

\* A 4xx, a 5xx, an unreachable deployment, or a key refused at session start.
SendRefused(h) ==
  /\ Answered(h, FALSE) /\ Fault
  /\ UNCHANGED <<writerVars, cursor, serverVars, planVars>>

\* The client's timeout aborts a request the deployment is still working on.
SendTimedOut(h) ==
  /\ Answered(h, FALSE) /\ Fault
  /\ late' = late \cup {Payload(h)}
  /\ UNCHANGED <<writerVars, cursor, stored, marker, planVars>>

\* Such a request lands after all.
LandLate(rows) ==
  /\ rows \in late
  /\ Insert(rows) /\ late' = late \ {rows}
  /\ UNCHANGED <<writerVars, cursor, marker, pc, planVars, sendVars, faults>>

\* The deadline is checked before each request; what is left is not sent.
DeadlineExpired(h) ==
  /\ pc[h] = "send" /\ Fault
  /\ pc' = [pc EXCEPT ![h] = "write"]
  /\ UNCHANGED <<writerVars, cursor, serverVars, planVars, sendVars>>

\* The cursors still to be stored: accepted, and by no request refused.
ToAdvance(h) == acked[h] \ refused[h]

WriteCursor(h, f) ==
  /\ pc[h] = "write" /\ f \in ToAdvance(h)
  /\ cursor' = [cursor EXCEPT ![f] = advance[h][f]]
  /\ acked' = [acked EXCEPT ![h] = @ \ {f}]
  /\ UNCHANGED <<writerVars, serverVars, pc, planVars, sent, refused, faults>>

\* An unwritable state directory: the old cursor stays.
WriteCursorFails(h, f) ==
  /\ pc[h] = "write" /\ f \in ToAdvance(h) /\ Fault
  /\ acked' = [acked EXCEPT ![h] = @ \ {f}]
  /\ UNCHANGED <<writerVars, cursor, serverVars, pc, planVars, sent, refused>>

MayMarkRefused(h) == ending[h] /\ sent[h] = Len(reports[h])   \* mutated form

\* The marker only when nothing was refused and nothing left unsent.
MayMark(h) == ending[h] /\ refused[h] = {} /\ sent[h] = Len(reports[h])

FinishFlush(h) ==
  /\ pc[h] = "write" /\ ToAdvance(h) = {}
  /\ IF MayMark(h)
       THEN pc' = [pc EXCEPT ![h] = "marker"] /\ UNCHANGED <<planVars, sendVars>>
       ELSE /\ pc' = [pc EXCEPT ![h] = "idle"]
            /\ Forget(h) /\ ending' = [ending EXCEPT ![h] = FALSE]
  /\ UNCHANGED <<writerVars, cursor, serverVars, faults>>

\* deliver: the marker is filed; or queued on disk, because no answer came; or
\* refused for good.  RetryQueue models this in full.
DeliverMarker(h) ==
  /\ pc[h] = "marker"
  /\ \/ marker' = "stored" /\ UNCHANGED faults
     \/ /\ Fault
        /\ marker' \in {marker, IF marker = "none" THEN "queued" ELSE marker}
  /\ pc' = [pc EXCEPT ![h] = "idle"]
  /\ Forget(h) /\ ending' = [ending EXCEPT ![h] = FALSE]
  /\ UNCHANGED <<writerVars, cursor, stored, late>>

\* A later SessionStart drains the queue.
DrainMarker ==
  /\ marker = "queued"
  /\ marker' = "stored"
  /\ UNCHANGED <<writerVars, cursor, stored, late, pc, planVars, sendVars, faults>>

\* The hook's timeout, a SIGKILL, a container going away: memory is lost.
Kill(h) ==
  /\ pc[h] # "idle" /\ Fault
  /\ pc' = [pc EXCEPT ![h] = "idle"]
  /\ Forget(h) /\ ending' = [ending EXCEPT ![h] = FALSE]
  /\ UNCHANGED <<writerVars, cursor, serverVars>>

\* A cursor file is lost, unreadable, or swept after CURSOR_TTL_MS.
LoseCursor(f) ==
  /\ cursor[f] > 0 /\ Fault
  /\ cursor' = [cursor EXCEPT ![f] = 0]
  /\ UNCHANGED <<writerVars, serverVars, pc, planVars, sendVars>>

-----------------------------------------------------------------------------

Writer == EndSession \/ \E f \in Files : AppendLine(f) \/ FinishLine(f)

\* The steps a flush takes when nothing goes wrong.
Step(h) ==
  \/ ReadCursor(h) \/ ReadTranscript(h) \/ SendAccepted(h)
  \/ FinishFlush(h) \/ DeliverMarker(h)
  \/ \E f \in Files : WriteCursor(h, f)

Faulty(h) ==
  \/ ReadFails(h) \/ SendAnswerLost(h) \/ SendRefused(h) \/ SendTimedOut(h)
  \/ DeadlineExpired(h) \/ Kill(h)
  \/ \E f \in Files : WriteCursorFails(h, f)

Next ==
  \/ Writer
  \/ \E h \in Hooks : Step(h) \/ Faulty(h)
  \/ \E h \in Hooks, end \in BOOLEAN : StartFlush(h, end)
  \/ \E rows \in late : LandLate(rows)
  \/ DrainMarker
  \/ \E f \in Files : LoseCursor(f)

Spec == Init /\ [][Next]_vars

\* Sessions go on being started (each start sweeps every Session), and a hook
\* runs on.  What stops one (a kill, an expired deadline, a failed request) is
\* bounded by MaxFaults: the deployment is not down, nor every hook, forever.
Fairness ==
  \A h \in Hooks : WF_vars(StartFlush(h, FALSE)) /\ WF_vars(Step(h))

FairSpec == Spec /\ Fairness

-----------------------------------------------------------------------------
(* Properties *)

\* The total the transcripts state for t so far: what TurnLedger calls stated.
Stated(t) == Total(Owner[t], t, Parsed(Owner[t]))

Ledger == INSTANCE TurnLedger WITH stated <- [t \in Turns |-> Stated(t)],
                                   filed <- stored

\* Reporting implements the ledger: whatever overlaps, is killed, is lost or
\* lands late, a Turn's row is filed once, never rewritten, and never above
\* what its transcript stated (ingest's on conflict do nothing, ADR 0006).
ImplementsLedger == Ledger!Spec

\* The first n lines of f have all ended, and no Turn of f itself in them is
\* without a row.
Covered(f, n) ==
  /\ n <= Whole(f)
  /\ \A t \in Turns : Owner[t] = f /\ Passed(f, t, n) => stored[t] > 0

\* The one mistake here that loses data (report.mjs, above flush): a cursor past
\* a Turn the deployment never filed, or past a line still being written.
CursorSafe == \A f \in Files : Covered(f, cursor[f])

\* The same of usage: what a cursor has passed of a Turn is in the row's total,
\* so a row holds the maximum over the Turn's entries and not the first of them
\* (turns.ts, ADR 0006).
UsageSafe ==
  \A f \in Files, t \in Turns :
    Owner[t] = f => Total(f, t, cursor[f]) <= stored[t]

\* A SessionEnd that is about to mark its Session finished has had every Turn
\* it read filed, by its own requests or by another hook's.
MarkerAfterFlush ==
  \A h \in Hooks : pc[h] = "marker" =>
    \A t \in Turns : seen[h][t] > 0 => stored[t] > 0

\* Why MarkerAfterFlush holds.  A Turn that was read is in a report, a report
\* that was answered and not refused is filed, and nothing has been answered
\* while transcripts are still being read.
FlushInv ==
  /\ MarkerAfterFlush
  /\ \A h \in Hooks, t \in Turns : seen[h][t] > 0 =>
       /\ \E i \in 1 .. Len(reports[h]) : reports[h][i] = ReportKey(t)
       /\ \A i \in 1 .. sent[h] :
            reports[h][i] = ReportKey(t) /\ Owner[t] \notin refused[h]
              => stored[t] > 0
  /\ \A h \in Hooks : pc[h] \in {"cursor", "file"} =>
       sent[h] = 0 /\ acked[h] = {} /\ refused[h] = {}

\* Why CursorSafe holds, where a transcript's Turns are one report: the cursor
\* a hook resumes from is covered, where it read to is covered but for the Turns
\* it is reporting, and those are filed once their transcript is acknowledged.
CursorInv ==
  /\ CursorSafe
  /\ \A h \in Hooks : pc[h] = "file" => Covered(at[h], from[h])
  /\ \A h \in Hooks, f \in Files :
       /\ advance[h][f] <= Whole(f)
       /\ \A t \in Turns : Owner[t] = f /\ Passed(f, t, advance[h][f])
            => stored[t] > 0 \/ seen[h][t] > 0
  /\ \A h \in Hooks, t \in Turns :
       Owner[t] \in ToAdvance(h) /\ seen[h][t] > 0 => stored[t] > 0

\* What the marker is documented to mean: the ended Session finished, and no
\* Turn of it is left to be read again.
MarkerMeansFlushed ==
  marker # "none" => \A t \in Turns : Stated(t) > 0 => stored[t] > 0

\* No Turn is lost: one that a transcript states is filed in the end, as long
\* as Sessions go on being started (readFrom's "the rest is reported by the
\* next Stop").
EveryTurnFiled == \A t \in Turns : Stated(t) > 0 ~> stored[t] > 0

=============================================================================
