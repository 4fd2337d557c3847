--------------------------- MODULE CollectorProofs ---------------------------
(***************************************************************************)
(* Proofs about Collector, for every number of transcripts, Turns, hooks    *)
(* and every limit.  TLC checks the same invariants on small instances.     *)
(***************************************************************************)
EXTENDS Collector, FiniteSetTheorems, SequenceTheorems, TLAPS

-----------------------------------------------------------------------------
(* What a transcript's prefix holds *)

\* Total counts the lines that carry t, so it is positive when there is one.
LEMMA TotalPositive ==
  ASSUME NEW f, NEW t, NEW n \in Nat
  PROVE  Total(f, t, n) \in Nat /\ (Total(f, t, n) > 0 <=> Passed(f, t, n))
<1> DEFINE S == {i \in 1 .. n : lines[f][i] = t}
<1>1. IsFiniteSet(S) /\ Cardinality(S) \in Nat
  <2>1. IsFiniteSet(1 .. n)
    BY FS_Interval
  <2>2. S \subseteq 1 .. n
    OBVIOUS
  <2> QED
    BY <2>1, <2>2, FS_Subset, FS_CardinalityType
<1>2. Cardinality(S) = 0 <=> S = {}
  BY <1>1, FS_EmptySet
<1>3. Total(f, t, n) = Cardinality(S)
  BY DEF Total
<1> HIDE DEF S
<1>4. Cardinality(S) > 0 <=> S # {}
  BY <1>1, <1>2
<1>5. S # {} <=> Passed(f, t, n)
  BY DEF Passed, S
<1> QED
  BY <1>1, <1>3, <1>4, <1>5

\* A longer prefix states at least as much.
LEMMA TotalMonotone ==
  ASSUME NEW f, NEW t, NEW m \in Nat, NEW n \in Nat, m <= n
  PROVE  Total(f, t, m) <= Total(f, t, n)
<1> DEFINE S(k) == {i \in 1 .. k : lines[f][i] = t}
<1>1. IsFiniteSet(S(n))
  <2>1. IsFiniteSet(1 .. n)
    BY FS_Interval
  <2>2. S(n) \in SUBSET (1 .. n)
    OBVIOUS
  <2> QED
    BY <2>1, <2>2, FS_Subset
<1>2. S(m) \in SUBSET S(n)
  OBVIOUS
<1>3. Cardinality(S(m)) <= Cardinality(S(n))
  BY <1>1, <1>2, FS_Subset
<1> QED
  BY <1>3 DEF Total

-----------------------------------------------------------------------------
(* Types *)

\* What a first-seen ordering of reports is, for any bounds: reports there can
\* be, and one for every Turn read.
LEMMA ReportSeqsType ==
  ASSUME NEW f, NEW lo \in Nat, NEW hi \in Nat, NEW s \in ReportSeqs(f, lo, hi)
  PROVE  s \in Seq({ReportKey(t) : t \in Turns})
<1> DEFINE keys == {ReportKey(t) : t \in Own(f, lo, hi)}
<1>1. PICK n \in 0 .. hi - lo : s \in [1 .. n -> keys]
  BY DEF ReportSeqs
<1>2. keys \subseteq {ReportKey(t) : t \in Turns}
  BY DEF Own
<1>3. s \in Seq(keys)
  BY <1>1
<1> QED
  BY <1>2, <1>3, SeqMonotonic

LEMMA ReportSeqsCover ==
  ASSUME NEW f, NEW lo \in Nat, NEW hi \in Nat, NEW s \in ReportSeqs(f, lo, hi),
         NEW t \in Own(f, lo, hi)
  PROVE  \E i \in 1 .. Len(s) : s[i] = ReportKey(t)
<1> DEFINE keys == {ReportKey(u) : u \in Own(f, lo, hi)}
<1>1. PICK n \in 0 .. hi - lo : s \in [1 .. n -> keys]
  BY DEF ReportSeqs
<1>2. Len(s) = n /\ DOMAIN s = 1 .. n
  BY <1>1
<1>3. \A r \in keys : \E i \in DOMAIN s : s[i] = r
  BY DEF ReportSeqs
<1> QED
  BY <1>2, <1>3

LEMMA LesserType ==
  ASSUME NEW a \in Int, NEW b \in Int
  PROVE  /\ Lesser(a, b) \in {a, b}
         /\ Lesser(a, b) <= a /\ Lesser(a, b) <= b
BY DEF Lesser

\* How much of a transcript ends in a newline, parses, and may be resumed from.
LEMMA Prefixes ==
  ASSUME TypeOK, NEW f \in Files, NEW c \in Nat
  PROVE  /\ Len(lines[f]) \in Nat
         /\ Whole(f) \in Nat /\ Parsed(f) \in Nat
         /\ Whole(f) <= Parsed(f) /\ Parsed(f) <= Len(lines[f])
         /\ Resume(f, c) \in Nat /\ Resume(f, c) <= c /\ Resume(f, c) <= Whole(f)
<1>1. lines[f] \in Seq(Turns \cup {NoTurn}) /\ Len(lines[f]) \in Nat
  BY DEF TypeOK, WriterTypeOK
<1>2. tail[f] # "ended" => Len(lines[f]) > 0
  BY DEF TypeOK, WriterTypeOK
<1>3. Whole(f) \in Nat /\ Parsed(f) \in Nat
      /\ Whole(f) <= Parsed(f) /\ Parsed(f) <= Len(lines[f])
  BY <1>1, <1>2 DEF Whole, Parsed
<1> QED
  BY <1>1, <1>3 DEF Resume

\* A request carries reports the hook built, of transcripts there are.
LEMMA BatchReports ==
  ASSUME TypeOK, NEW h \in Hooks, NEW r \in Batch(h)
  PROVE  \E t \in Turns : r = ReportKey(t)
<1>1. reports[h] \in Seq({ReportKey(t) : t \in Turns}) /\ sent[h] \in Nat
  BY DEF TypeOK, ReportTypeOK
<1>2. \A i \in sent[h] + 1 .. Lesser(sent[h] + ReportsPerPayload, Len(reports[h])) :
        i \in 1 .. Len(reports[h])
  BY <1>1, ConstantsAssumption DEF Lesser
<1> QED
  BY <1>1, <1>2 DEF Batch

LEMMA CarriedInFiles ==
  ASSUME TypeOK, NEW h \in Hooks
  PROVE  CarriedFiles(h) \subseteq Files
<1>1. \A t \in Turns : ReportKey(t).file \in Files
  BY ConstantsAssumption DEF ReportKey
<1> QED
  BY <1>1, BatchReports DEF CarriedFiles

LEMMA TypeInit == Init => TypeOK
<1> SUFFICES ASSUME Init PROVE TypeOK
  OBVIOUS
<1> USE ConstantsAssumption DEF Init
<1>1. WriterTypeOK /\ ServerTypeOK
  BY DEF WriterTypeOK, ServerTypeOK
<1>2. StageTypeOK /\ ReadTypeOK
  BY DEF StageTypeOK, ReadTypeOK
<1>3. ReportTypeOK
  BY DEF ReportTypeOK
<1>4. AnswerTypeOK /\ cursor \in [Files -> Nat] /\ faults \in 0 .. MaxFaults
  BY DEF AnswerTypeOK
<1> QED
  BY <1>1, <1>2, <1>3, <1>4 DEF TypeOK

\* A process that starts or ends holds nothing.
LEMMA ForgetType ==
  ASSUME TypeOK, NEW h \in Hooks, Forget(h)
  PROVE  /\ ReadTypeOK' /\ ReportTypeOK' /\ AnswerTypeOK'
         /\ at' \in [Hooks -> Nat] /\ \A g \in Hooks : g # h => at'[g] = at[g]
         /\ at'[h] = 1
<1>1. ReadTypeOK' /\ AnswerTypeOK'
  BY DEF TypeOK, ReadTypeOK, AnswerTypeOK, Forget
<1>2. ReportTypeOK'
  BY DEF TypeOK, ReportTypeOK, Forget
<1> QED
  BY <1>1, <1>2 DEF TypeOK, StageTypeOK, Forget

\* The answer to a request moves only what it should.
LEMMA AnsweredType ==
  ASSUME TypeOK, NEW h \in Hooks, NEW ok \in BOOLEAN, Answered(h, ok),
         UNCHANGED planVars
  PROVE  StageTypeOK' /\ ReadTypeOK' /\ ReportTypeOK' /\ AnswerTypeOK'
<1>1. Len(reports[h]) \in Nat /\ sent[h] \in Nat
  BY DEF TypeOK, ReportTypeOK
<1>2. Lesser(sent[h] + ReportsPerPayload, Len(reports[h])) \in Nat
      /\ Lesser(sent[h] + ReportsPerPayload, Len(reports[h])) <= Len(reports[h])
  BY <1>1, ConstantsAssumption DEF Lesser
<1>3. sent' = [sent EXCEPT ![h] = Lesser(sent[h] + ReportsPerPayload, Len(reports[h]))]
  BY DEF Answered
<1>4. ReportTypeOK'
  BY <1>2, <1>3 DEF TypeOK, ReportTypeOK, planVars
<1>5. AnswerTypeOK'
  <2>1. CarriedFiles(h) \in SUBSET Files
    BY CarriedInFiles
  <2>2. CASE ok
    BY <2>1, <2>2 DEF TypeOK, AnswerTypeOK, Answered
  <2>3. CASE ~ok
    BY <2>1, <2>3 DEF TypeOK, AnswerTypeOK, Answered
  <2> QED
    BY <2>2, <2>3
<1>6. StageTypeOK'
  BY DEF TypeOK, StageTypeOK, Answered, planVars
<1> QED
  BY <1>4, <1>5, <1>6 DEF TypeOK, ReadTypeOK, planVars

LEMMA InsertType ==
  ASSUME TypeOK, NEW rows \in [Turns -> Nat], Insert(rows)
  PROVE  stored' \in [Turns -> Nat]
BY DEF TypeOK, ServerTypeOK, Insert

LEMMA PayloadType ==
  ASSUME TypeOK, NEW h \in Hooks
  PROVE  Payload(h) \in [Turns -> Nat]
BY DEF TypeOK, ReadTypeOK, Payload

LEMMA FaultType ==
  ASSUME TypeOK, Fault
  PROVE  faults' \in 0 .. MaxFaults
BY ConstantsAssumption DEF TypeOK, Fault

\* The next transcript is one there is.
LEMMA NextFileType ==
  ASSUME TypeOK, NEW h \in Hooks, NextFile(h), at[h] \in Files, UNCHANGED ending
  PROVE  StageTypeOK'
<1>1. NumFiles \in Nat /\ at[h] \in 1 .. NumFiles
  BY ConstantsAssumption DEF Files
<1>2. CASE at[h] < NumFiles
  <2>1. at[h] + 1 \in Files
    BY <1>1, <1>2 DEF Files
  <2>2. at' = [at EXCEPT ![h] = at[h] + 1] /\ pc' = [pc EXCEPT ![h] = "cursor"]
    BY <1>2 DEF NextFile
  <2>3. at' \in [Hooks -> Nat]
    BY <1>1, <2>2 DEF TypeOK, StageTypeOK
  <2> QED
    BY <2>1, <2>2, <2>3 DEF TypeOK, StageTypeOK
<1>3. CASE ~(at[h] < NumFiles)
  BY <1>1, <1>3 DEF TypeOK, StageTypeOK, NextFile, Files
<1> QED
  BY <1>2, <1>3

LEMMA ReadTranscriptType ==
  ASSUME TypeOK, NEW h \in Hooks, ReadTranscript(h)
  PROVE  TypeOK'
<1> DEFINE f == at[h]
           lo == Resume(f, from[h])
           hi == Lesser(Parsed(f), lo + ReadLimit)
           own == Own(f, lo, hi)
<1>1. f \in Files /\ from[h] \in Nat
  BY DEF ReadTranscript, TypeOK, StageTypeOK, ReadTypeOK
<1>2. lo \in Nat /\ Whole(f) \in Nat /\ Parsed(f) \in Nat
  BY <1>1, Prefixes
<1>3. hi \in Nat /\ ReadTo(f, lo) \in Nat
  BY <1>2, ConstantsAssumption DEF Lesser, ReadTo
<1>4. \A t \in Turns : Total(f, t, hi) \in Nat
  BY <1>3, TotalPositive
<1>5. UNCHANGED <<lines, tail, open, cursor, stored, late, marker, ending, from,
                  sent, acked, refused, faults>> /\ NextFile(h)
  BY DEF ReadTranscript, writerVars, serverVars, sendVars
<1>6. StageTypeOK'
  BY <1>1, <1>5, NextFileType
<1>7. ReadTypeOK' /\ ReportTypeOK'
  <2>1. CASE own = {}
    <3>1. UNCHANGED <<seen, reports, advance>>
      BY <2>1 DEF ReadTranscript
    <3> QED
      BY <3>1, <1>5 DEF TypeOK, ReadTypeOK, ReportTypeOK
  <2>2. CASE own # {}
    <3>1. /\ seen' = [seen EXCEPT ![h] =
                [t \in Turns |-> IF t \in own THEN Total(f, t, hi) ELSE seen[h][t]]]
          /\ \E s \in ReportSeqs(f, lo, hi) :
                reports' = [reports EXCEPT ![h] = reports[h] \o s]
          /\ advance' = [advance EXCEPT ![h] =
                [advance[h] EXCEPT ![f] = ReadTo(f, lo)]]
      BY <2>2 DEF ReadTranscript
    <3>2. PICK s \in ReportSeqs(f, lo, hi) :
            reports' = [reports EXCEPT ![h] = reports[h] \o s]
      BY <3>1
    <3>3. s \in Seq({ReportKey(t) : t \in Turns})
      BY <1>2, <1>3, ReportSeqsType
    <3> HIDE DEF own, hi, lo, f
    <3>4. ReadTypeOK'
      BY <1>1, <1>3, <1>4, <1>5, <3>1 DEF TypeOK, ReadTypeOK
    <3>5. reports \in [Hooks -> Seq({ReportKey(t) : t \in Turns})] /\ sent[h] \in Nat
          /\ Len(reports[h]) \in Nat /\ sent[h] <= Len(reports[h])
      BY LenProperties DEF TypeOK, ReportTypeOK
    <3>6. /\ reports[h] \o s \in Seq({ReportKey(t) : t \in Turns})
          /\ Len(reports[h] \o s) = Len(reports[h]) + Len(s) /\ Len(s) \in Nat
      BY <3>3, <3>5, ConcatProperties, LenProperties
    <3>7. reports' \in [Hooks -> Seq({ReportKey(t) : t \in Turns})]
      BY <3>2, <3>5, <3>6
    <3>8. \A g \in Hooks : sent[g] <= Len(reports'[g])
      BY <3>2, <3>5, <3>6 DEF TypeOK, ReportTypeOK
    <3>9. ReportTypeOK'
      BY <1>5, <3>7, <3>8 DEF TypeOK, ReportTypeOK
    <3> QED
      BY <3>4, <3>9
  <2> QED
    BY <2>1, <2>2
<1> QED
  BY <1>5, <1>6, <1>7 DEF TypeOK, WriterTypeOK, ServerTypeOK, AnswerTypeOK

LEMMA TypeNext == TypeOK /\ [Next]_vars => TypeOK'
<1> SUFFICES ASSUME TypeOK, [Next]_vars PROVE TypeOK'
  OBVIOUS
<1> USE DEF TypeOK, WriterTypeOK, ServerTypeOK, StageTypeOK, ReadTypeOK,
            ReportTypeOK, AnswerTypeOK,
            writerVars, planVars, sendVars, serverVars
<1>1. ASSUME NEW f \in Files, AppendLine(f) PROVE TypeOK'
  <2>1. WriterTypeOK'
    BY <1>1 DEF AppendLine
  <2> QED
    BY <1>1, <2>1 DEF AppendLine
<1>2. ASSUME NEW f \in Files, FinishLine(f) PROVE TypeOK'
  BY <1>2 DEF FinishLine
<1>3. CASE EndSession
  BY <1>3 DEF EndSession
<1>4. ASSUME NEW h \in Hooks, NEW end \in BOOLEAN, StartFlush(h, end) PROVE TypeOK'
  <2>1. ReadTypeOK' /\ ReportTypeOK' /\ AnswerTypeOK'
    BY <1>4, ForgetType DEF StartFlush
  <2>2. 1 \in Files
    BY <1>4, ConstantsAssumption DEF StartFlush, Files
  <2>3. /\ at' \in [Hooks -> Nat] /\ at'[h] = 1
        /\ \A g \in Hooks : g # h => at'[g] = at[g]
    BY <1>4, ForgetType DEF StartFlush
  <2>4. StageTypeOK'
    BY <1>4, <2>2, <2>3 DEF StartFlush
  <2> QED
    BY <1>4, <2>1, <2>4 DEF StartFlush
<1>5. ASSUME NEW h \in Hooks, ReadCursor(h) PROVE TypeOK'
  BY <1>5 DEF ReadCursor
<1>6. ASSUME NEW h \in Hooks, ReadTranscript(h) PROVE TypeOK'
  BY <1>6, ReadTranscriptType
<1>7. ASSUME NEW h \in Hooks, ReadFails(h) PROVE TypeOK'
  <2>1. StageTypeOK'
    BY <1>7, NextFileType DEF ReadFails
  <2> QED
    BY <1>7, <2>1, FaultType DEF ReadFails
<1>8. ASSUME NEW h \in Hooks, SendAccepted(h) PROVE TypeOK'
  <2>1. Answered(h, TRUE) /\ Insert(Payload(h))
        /\ UNCHANGED <<writerVars, cursor, late, marker, planVars, faults>>
    BY <1>8 DEF SendAccepted
  <2>2. StageTypeOK' /\ ReadTypeOK' /\ ReportTypeOK' /\ AnswerTypeOK'
    BY <2>1, AnsweredType
  <2>3. stored' \in [Turns -> Nat]
    BY <2>1, PayloadType, InsertType
  <2> QED
    BY <2>1, <2>2, <2>3
<1>9. ASSUME NEW h \in Hooks, SendAnswerLost(h) PROVE TypeOK'
  <2>1. Answered(h, FALSE) /\ Fault /\ Insert(Payload(h))
        /\ UNCHANGED <<writerVars, cursor, late, marker, planVars>>
    BY <1>9 DEF SendAnswerLost
  <2>2. StageTypeOK' /\ ReadTypeOK' /\ ReportTypeOK' /\ AnswerTypeOK'
    BY <2>1, AnsweredType
  <2>3. stored' \in [Turns -> Nat]
    BY <2>1, PayloadType, InsertType
  <2> QED
    BY <2>1, <2>2, <2>3, FaultType
<1>10. ASSUME NEW h \in Hooks, SendRefused(h) PROVE TypeOK'
  <2>1. StageTypeOK' /\ ReadTypeOK' /\ ReportTypeOK' /\ AnswerTypeOK'
    BY <1>10, AnsweredType DEF SendRefused
  <2> QED
    BY <1>10, <2>1, FaultType DEF SendRefused
<1>11. ASSUME NEW h \in Hooks, SendTimedOut(h) PROVE TypeOK'
  <2>1. StageTypeOK' /\ ReadTypeOK' /\ ReportTypeOK' /\ AnswerTypeOK'
    BY <1>11, AnsweredType DEF SendTimedOut
  <2>2. late' \in SUBSET [Turns -> Nat]
    BY <1>11, PayloadType DEF SendTimedOut
  <2> QED
    BY <1>11, <2>1, <2>2, FaultType DEF SendTimedOut
<1>12. ASSUME NEW rows \in late, LandLate(rows) PROVE TypeOK'
  <2>1. stored' \in [Turns -> Nat]
    BY <1>12, InsertType DEF LandLate
  <2> QED
    BY <1>12, <2>1 DEF LandLate
<1>13. ASSUME NEW h \in Hooks, DeadlineExpired(h) PROVE TypeOK'
  BY <1>13, FaultType DEF DeadlineExpired
<1>14. ASSUME NEW h \in Hooks, NEW f \in Files, WriteCursor(h, f) PROVE TypeOK'
  <2>1. cursor' \in [Files -> Nat]
    BY <1>14 DEF WriteCursor
  <2>2. AnswerTypeOK'
    BY <1>14 DEF WriteCursor
  <2> QED
    BY <1>14, <2>1, <2>2 DEF WriteCursor
<1>15. ASSUME NEW h \in Hooks, NEW f \in Files, WriteCursorFails(h, f) PROVE TypeOK'
  BY <1>15, FaultType DEF WriteCursorFails
<1>16. ASSUME NEW h \in Hooks, FinishFlush(h) PROVE TypeOK'
  <2>1. CASE MayMark(h)
    BY <1>16, <2>1 DEF FinishFlush
  <2>2. CASE ~MayMark(h)
    <3>1. ReadTypeOK' /\ ReportTypeOK' /\ AnswerTypeOK'
      BY <1>16, <2>2, ForgetType DEF FinishFlush
    <3>2. StageTypeOK'
      BY <1>16, <2>2, ForgetType, ZenonT(40) DEF FinishFlush
    <3> QED
      BY <1>16, <2>2, <3>1, <3>2 DEF FinishFlush
  <2> QED
    BY <2>1, <2>2
<1>17. ASSUME NEW h \in Hooks, DeliverMarker(h) PROVE TypeOK'
  <2>1. ReadTypeOK' /\ ReportTypeOK' /\ AnswerTypeOK' /\ StageTypeOK'
    BY <1>17, ForgetType DEF DeliverMarker
  <2>2. faults' \in 0 .. MaxFaults /\ marker' \in {"none", "queued", "stored"}
    BY <1>17, FaultType DEF DeliverMarker
  <2> QED
    BY <1>17, <2>1, <2>2 DEF DeliverMarker
<1>18. CASE DrainMarker
  BY <1>18 DEF DrainMarker
<1>19. ASSUME NEW h \in Hooks, Kill(h) PROVE TypeOK'
  <2>1. ReadTypeOK' /\ ReportTypeOK' /\ AnswerTypeOK' /\ StageTypeOK'
    BY <1>19, ForgetType DEF Kill
  <2> QED
    BY <1>19, <2>1, FaultType DEF Kill
<1>20. ASSUME NEW f \in Files, LoseCursor(f) PROVE TypeOK'
  BY <1>20, FaultType DEF LoseCursor
<1>21. CASE UNCHANGED vars
  BY <1>21 DEF vars
<1> QED
  BY <1>1, <1>2, <1>3, <1>4, <1>5, <1>6, <1>7, <1>8, <1>9, <1>10, <1>11, <1>12,
     <1>13, <1>14, <1>15, <1>16, <1>17, <1>18, <1>19, <1>20, <1>21
     DEF Next, Writer, Step, Faulty

\* Every variable of Collector keeps its type, whatever the constants.
THEOREM TypeCorrect == Spec => []TypeOK
<1>1. Init => TypeOK
  BY TypeInit
<1>2. TypeOK /\ [Next]_vars => TypeOK'
  BY TypeNext
<1> QED
  BY <1>1, <1>2, PTL DEF Spec

-----------------------------------------------------------------------------
(* The two safety invariants: a marker is sent only after what was read is  *)
(* filed, and, where a transcript's Turns travel in one report, a cursor    *)
(* never passes a Turn without a row.                                       *)

\* What CursorSafe depends on: the Turns of one transcript are one report, so
\* one request carries all of them.  (A session that moves between Projects
\* breaks it, and with it CursorSafe: see the run CursorPastUnsentProject.)
OneReportPerFile ==
  \A t, u \in Turns : Owner[t] = Owner[u] => ProjectOf[t] = ProjectOf[u]

-----------------------------------------------------------------------------
(* What no step undoes *)

LEMMA InsertKeeps ==
  ASSUME TypeOK, NEW rows \in [Turns -> Nat], Insert(rows)
  PROVE  \A t \in Turns : stored[t] > 0 => stored'[t] > 0
BY DEF TypeOK, ServerTypeOK, Insert

\* A row, once filed, stays.
LEMMA StoredStable ==
  ASSUME TypeOK, [Next]_vars
  PROVE  \A t \in Turns : stored[t] > 0 => stored'[t] > 0
<1> DEFINE Goal == \A t \in Turns : stored[t] > 0 => stored'[t] > 0
<1>1. ASSUME NEW h \in Hooks, SendAccepted(h) PROVE Goal
  BY <1>1, PayloadType, InsertKeeps DEF SendAccepted
<1>2. ASSUME NEW h \in Hooks, SendAnswerLost(h) PROVE Goal
  BY <1>2, PayloadType, InsertKeeps DEF SendAnswerLost
<1>3. ASSUME NEW rows \in late, LandLate(rows) PROVE Goal
  <2>1. rows \in [Turns -> Nat]
    BY <1>3 DEF TypeOK, ServerTypeOK
  <2> QED
    BY <1>3, <2>1, InsertKeeps DEF LandLate
<1>4. CASE UNCHANGED stored
  BY <1>4
<1> QED
  BY <1>1, <1>2, <1>3, <1>4
     DEF Next, Writer, Step, Faulty, vars, serverVars, AppendLine, FinishLine,
         EndSession, StartFlush, ReadCursor, ReadTranscript, ReadFails,
         SendRefused, SendTimedOut, DeadlineExpired, WriteCursor,
         WriteCursorFails, FinishFlush, DeliverMarker, DrainMarker, Kill,
         LoseCursor

\* A transcript only grows at its end: what has ended stays as it is.
LEMMA PrefixStable ==
  ASSUME TypeOK, [Next]_vars, NEW f \in Files, NEW n \in Nat, n <= Whole(f)
  PROVE  /\ n <= Whole(f)'
         /\ \A t : Passed(f, t, n)' => Passed(f, t, n)
<1>0. /\ lines[f] \in Seq(Turns \cup {NoTurn}) /\ Len(lines[f]) \in Nat
      /\ Whole(f) \in Nat /\ Whole(f) <= Len(lines[f])
  <2>1. lines[f] \in Seq(Turns \cup {NoTurn})
    BY DEF TypeOK, WriterTypeOK
  <2>2. /\ Len(lines[f]) \in Nat /\ Whole(f) \in Nat /\ Parsed(f) \in Nat
        /\ Whole(f) <= Parsed(f) /\ Parsed(f) <= Len(lines[f])
    BY Prefixes
  <2> QED
    BY <2>1, <2>2
<1>1. ASSUME NEW g \in Files, AppendLine(g)
      PROVE  n <= Whole(f)' /\ \A t : Passed(f, t, n)' => Passed(f, t, n)
  <2>1. PICK x \in Turns \cup {NoTurn} :
          lines' = [lines EXCEPT ![g] = Append(lines[g], x)]
    BY <1>1 DEF AppendLine
  <2>2. CASE g = f
    <3>1. lines'[f] = Append(lines[f], x)
      BY <2>1, <2>2 DEF TypeOK, WriterTypeOK
    <3>2. Len(lines'[f]) = Len(lines[f]) + 1
          /\ \A i \in 1 .. Len(lines[f]) : lines'[f][i] = lines[f][i]
      BY <3>1, <1>0, AppendProperties
    <3>3. tail[f] = "ended"
      BY <1>1, <2>2 DEF AppendLine
    <3> QED
      BY <3>2, <3>3, <1>0 DEF Whole, Passed
  <2>3. CASE g # f
    <3>1. lines'[f] = lines[f] /\ tail'[f] = tail[f]
      BY <1>1, <2>1, <2>3 DEF AppendLine, TypeOK, WriterTypeOK
    <3> QED
      BY <3>1 DEF Whole, Passed
  <2> QED
    BY <2>2, <2>3
<1>2. ASSUME NEW g \in Files, FinishLine(g)
      PROVE  n <= Whole(f)' /\ \A t : Passed(f, t, n)' => Passed(f, t, n)
  <2>1. lines' = lines /\ tail'[f] \in {tail[f], "ended"}
    BY <1>2 DEF FinishLine, TypeOK, WriterTypeOK
  <2> QED
    BY <2>1, <1>0 DEF Whole, Passed
<1>3. CASE UNCHANGED <<lines, tail>>
  BY <1>3 DEF Whole, Passed
<1> QED
  BY <1>1, <1>2, <1>3
     DEF Next, Writer, Step, Faulty, vars, writerVars, EndSession, StartFlush,
         ReadCursor, ReadTranscript, ReadFails, SendAccepted, SendAnswerLost,
         SendRefused, SendTimedOut, LandLate, DeadlineExpired, WriteCursor,
         WriteCursorFails, FinishFlush, DeliverMarker, DrainMarker, Kill,
         LoseCursor

\* Each step is of one hook, or of none.
Idle(g) ==
  /\ pc'[g] = pc[g] /\ at'[g] = at[g] /\ from'[g] = from[g] /\ seen'[g] = seen[g]
  /\ reports'[g] = reports[g] /\ advance'[g] = advance[g] /\ sent'[g] = sent[g]
  /\ acked'[g] = acked[g] /\ refused'[g] = refused[g]

LEMMA ForgetIdle ==
  ASSUME TypeOK, NEW h \in Hooks, Forget(h), NEW g \in Hooks, g # h,
         pc'[g] = pc[g]
  PROVE  Idle(g)
BY DEF TypeOK, StageTypeOK, ReadTypeOK, ReportTypeOK, AnswerTypeOK, Forget, Idle

\* What a hook that starts or ends has left.
LEMMA ForgetClears ==
  ASSUME TypeOK, NEW h \in Hooks, Forget(h)
  PROVE  /\ \A t \in Turns : seen'[h][t] = 0
         /\ \A f \in Files : advance'[h][f] = 0
         /\ reports'[h] = <<>> /\ sent'[h] = 0 /\ acked'[h] = {} /\ refused'[h] = {}
BY DEF TypeOK, ReadTypeOK, ReportTypeOK, AnswerTypeOK, Forget

\* What an answer does to the hook it answers, and to no other.
LEMMA AnsweredEffect ==
  ASSUME TypeOK, NEW h \in Hooks, NEW ok \in BOOLEAN, Answered(h, ok),
         UNCHANGED planVars
  PROVE  /\ \A g \in Hooks : g # h => Idle(g)
         /\ pc'[h] \in {"write", "send"} /\ seen' = seen /\ reports' = reports
         /\ advance' = advance
         /\ sent'[h] = Lesser(sent[h] + ReportsPerPayload, Len(reports[h]))
         /\ acked'[h] = acked[h] \cup (IF ok THEN CarriedFiles(h) ELSE {})
         /\ refused'[h] = refused[h] \cup (IF ok THEN {} ELSE CarriedFiles(h))
BY DEF TypeOK, StageTypeOK, ReportTypeOK, AnswerTypeOK, Answered, planVars, Idle

\* Reading one transcript: where the hook is after it, and what it now holds.
LEMMA ReadTranscriptEffect ==
  ASSUME TypeOK, NEW h \in Hooks, ReadTranscript(h)
  PROVE  LET f == at[h]
             lo == Resume(f, from[h])
             hi == Lesser(Parsed(f), lo + ReadLimit)
             own == Own(f, lo, hi)
         IN /\ \A g \in Hooks : g # h => Idle(g)
            /\ pc'[h] \in {"cursor", "send", "write"}
            /\ sent' = sent /\ acked' = acked /\ refused' = refused
            /\ \A t \in Turns : t \notin own => seen'[h][t] = seen[h][t]
            /\ \A t \in own : seen'[h][t] > 0
            /\ \A i \in 1 .. Len(reports[h]) :
                 i \in 1 .. Len(reports'[h]) /\ reports'[h][i] = reports[h][i]
            /\ \A t \in own : \E i \in 1 .. Len(reports'[h]) :
                 reports'[h][i] = ReportKey(t)
            /\ \A g \in Files : g # f => advance'[h][g] = advance[h][g]
            /\ \/ advance'[h][f] = advance[h][f]
               \/ advance'[h][f] = ReadTo(f, lo)
<1> DEFINE f == at[h]
           lo == Resume(f, from[h])
           hi == Lesser(Parsed(f), lo + ReadLimit)
           own == Own(f, lo, hi)
<1>1. f \in Files /\ from[h] \in Nat
  BY DEF ReadTranscript, TypeOK, StageTypeOK, ReadTypeOK
<1>2. lo \in Nat /\ Whole(f) \in Nat /\ Parsed(f) \in Nat
  BY <1>1, Prefixes
<1>3. hi \in Nat
  BY <1>2, ConstantsAssumption DEF Lesser
<1>4. UNCHANGED <<from, sent, acked, refused>>
  BY DEF ReadTranscript, sendVars
<1>5. /\ pc'[h] \in {"cursor", "send", "write"}
      /\ \A g \in Hooks : g # h => pc'[g] = pc[g] /\ at'[g] = at[g]
  BY DEF ReadTranscript, NextFile, TypeOK, StageTypeOK
<1>6. CASE own = {}
  <2>1. UNCHANGED <<seen, reports, advance>>
    BY <1>6 DEF ReadTranscript
  <2> QED
    BY <1>4, <1>5, <1>6, <2>1 DEF Idle
<1>7. CASE own # {}
  <2>1. /\ seen' = [seen EXCEPT ![h] =
              [t \in Turns |-> IF t \in own THEN Total(f, t, hi) ELSE seen[h][t]]]
        /\ \E s \in ReportSeqs(f, lo, hi) :
              reports' = [reports EXCEPT ![h] = reports[h] \o s]
        /\ advance' = [advance EXCEPT ![h] =
              [advance[h] EXCEPT ![f] = ReadTo(f, lo)]]
    BY <1>7 DEF ReadTranscript
  <2>2. PICK s \in ReportSeqs(f, lo, hi) :
          reports' = [reports EXCEPT ![h] = reports[h] \o s]
    BY <2>1
  <2>3. s \in Seq({ReportKey(t) : t \in Turns})
        /\ \A t \in own : \E i \in 1 .. Len(s) : s[i] = ReportKey(t)
    <3>1. s \in Seq({ReportKey(t) : t \in Turns})
      BY <1>2, <1>3, <2>2, ReportSeqsType
    <3>2. \A t \in Own(f, lo, hi) : \E i \in 1 .. Len(s) : s[i] = ReportKey(t)
      BY <1>2, <1>3, <2>2, ReportSeqsCover
    <3> QED
      BY <3>1, <3>2
  <2>4. \A t \in own : Total(f, t, hi) > 0
    <3>1. ASSUME NEW t \in own PROVE Passed(f, t, hi)
      BY <1>2, <1>3 DEF Own, Passed
    <3> QED
      BY <3>1, <1>3, TotalPositive
  <2>5. own \subseteq Turns
    BY DEF Own
  <2> HIDE DEF own, hi, lo, f
  <2>6. /\ \A t \in Turns : t \notin own => seen'[h][t] = seen[h][t]
        /\ \A t \in own : seen'[h][t] > 0
    BY <2>1, <2>4, <2>5 DEF TypeOK, ReadTypeOK
  <2>7. /\ \A g \in Files : g # f => advance'[h][g] = advance[h][g]
        /\ advance'[h][f] = ReadTo(f, lo)
    BY <1>1, <2>1 DEF TypeOK, ReadTypeOK
  <2>8. reports[h] \in Seq({ReportKey(t) : t \in Turns})
        /\ reports'[h] = reports[h] \o s
    BY <2>2 DEF TypeOK, ReportTypeOK
  <2>9. /\ Len(reports[h]) \in Nat /\ Len(s) \in Nat
        /\ Len(reports'[h]) = Len(reports[h]) + Len(s)
        /\ \A i \in 1 .. Len(reports[h]) + Len(s) : reports'[h][i] =
             IF i <= Len(reports[h]) THEN reports[h][i] ELSE s[i - Len(reports[h])]
    BY <2>3, <2>8, ConcatProperties, LenProperties
  <2>10. \A i \in 1 .. Len(reports[h]) :
           i \in 1 .. Len(reports'[h]) /\ reports'[h][i] = reports[h][i]
    BY <2>9
  <2>11. ASSUME NEW t \in own
         PROVE  \E i \in 1 .. Len(reports'[h]) : reports'[h][i] = ReportKey(t)
    <3>1. PICK i \in 1 .. Len(s) : s[i] = ReportKey(t)
      BY <2>3
    <3> DEFINE k == Len(reports[h]) + i
    <3>2. k \in 1 .. Len(reports[h]) + Len(s) /\ ~(k <= Len(reports[h]))
          /\ k - Len(reports[h]) = i
      BY <2>9, <3>1
    <3>3. reports'[h][k] = s[k - Len(reports[h])]
      BY <2>9, <3>2
    <3> QED
      BY <2>9, <3>1, <3>2, <3>3
  <2>12. \A g \in Hooks : g # h =>
           seen'[g] = seen[g] /\ reports'[g] = reports[g] /\ advance'[g] = advance[g]
    BY <2>1, <2>2 DEF TypeOK, ReadTypeOK, ReportTypeOK
  <2>13. \A g \in Hooks : g # h => Idle(g)
    BY <1>4, <1>5, <2>12 DEF Idle
  <2> QED
    BY <1>4, <1>5, <2>6, <2>7, <2>10, <2>11, <2>13 DEF own, hi, lo, f
<1> QED
  BY <1>6, <1>7

-----------------------------------------------------------------------------
(* The marker is sent only after what was read is filed *)

\* FlushInv of one hook.
FlushInvOf(h) ==
  /\ pc[h] = "marker" => \A t \in Turns : seen[h][t] > 0 => stored[t] > 0
  /\ \A t \in Turns : seen[h][t] > 0 =>
       /\ \E i \in 1 .. Len(reports[h]) : reports[h][i] = ReportKey(t)
       /\ \A i \in 1 .. sent[h] :
            reports[h][i] = ReportKey(t) /\ Owner[t] \notin refused[h]
              => stored[t] > 0
  /\ pc[h] \in {"cursor", "file"} =>
       sent[h] = 0 /\ acked[h] = {} /\ refused[h] = {}

LEMMA FlushInvIdle ==
  ASSUME TypeOK, [Next]_vars, NEW g \in Hooks, Idle(g), FlushInvOf(g)
  PROVE  FlushInvOf(g)'
BY StoredStable DEF FlushInvOf, Idle, ReportKey

LEMMA FlushInvForget ==
  ASSUME TypeOK, NEW h \in Hooks, Forget(h), pc'[h] # "marker"
  PROVE  FlushInvOf(h)'
BY ForgetClears DEF FlushInvOf

\* A report answered for is filed, or its transcript is refused.
LEMMA FlushInvAnswered ==
  ASSUME TypeOK, [Next]_vars, NEW h \in Hooks, NEW ok \in BOOLEAN,
         Answered(h, ok), UNCHANGED planVars, FlushInvOf(h),
         ok => \A t \in Carried(h) : stored'[t] > 0
  PROVE  FlushInvOf(h)'
<1>1. /\ pc'[h] \in {"write", "send"} /\ seen' = seen /\ reports' = reports
      /\ sent'[h] = Lesser(sent[h] + ReportsPerPayload, Len(reports[h]))
      /\ refused'[h] = refused[h] \cup (IF ok THEN {} ELSE CarriedFiles(h))
  BY AnsweredEffect
<1>2. sent[h] \in Nat
  BY DEF TypeOK, ReportTypeOK
<1>3. ASSUME NEW t \in Turns, seen[h][t] > 0, NEW i \in 1 .. sent'[h],
             reports[h][i] = ReportKey(t), Owner[t] \notin refused'[h]
      PROVE  stored'[t] > 0
  <2>1. CASE i \in 1 .. sent[h]
    BY <1>1, <1>3, <2>1, StoredStable DEF FlushInvOf
  <2>2. CASE i \notin 1 .. sent[h]
    <3>1. i \in sent[h] + 1 .. Lesser(sent[h] + ReportsPerPayload, Len(reports[h]))
      BY <1>1, <1>2, <2>2
    <3>2. ReportKey(t) \in Batch(h)
      BY <3>1, <1>3 DEF Batch
    <3>3. Owner[t] \in CarriedFiles(h)
      BY <3>2 DEF CarriedFiles, ReportKey
    <3>4. ok
      BY <1>1, <1>3, <3>3
    <3>5. t \in Carried(h)
      BY <1>3, <3>2 DEF Carried
    <3> QED
      BY <3>4, <3>5
  <2> QED
    BY <2>1, <2>2
<1> QED
  BY <1>1, <1>3 DEF FlushInvOf, ReportKey

LEMMA CarriedFiled ==
  ASSUME TypeOK, NEW h \in Hooks, Insert(Payload(h))
  PROVE  \A t \in Carried(h) : stored'[t] > 0
BY DEF TypeOK, ServerTypeOK, ReadTypeOK, Insert, Payload, Carried

LEMMA FlushInvInit == Init => FlushInv
BY DEF Init, FlushInv, MarkerAfterFlush

LEMMA FlushInvNext == TypeOK /\ FlushInv /\ [Next]_vars => FlushInv'
<1> SUFFICES ASSUME TypeOK, [Next]_vars, \A h \in Hooks : FlushInvOf(h)
             PROVE  \A h \in Hooks : FlushInvOf(h)'
  BY DEF FlushInv, FlushInvOf, MarkerAfterFlush
<1> DEFINE Goal == \A h \in Hooks : FlushInvOf(h)'
           OtherIdle(h) == \A g \in Hooks : g # h => Idle(g)
\* A step of h has only h's part to show.
<1>1. ASSUME NEW h \in Hooks, OtherIdle(h), FlushInvOf(h)' PROVE Goal
  BY <1>1, FlushInvIdle
<1>2. (\A h \in Hooks : Idle(h)) => Goal
  BY FlushInvIdle
<1> HIDE DEF Goal
<1>3. ASSUME UNCHANGED <<pc, at, from, seen, reports, advance, sent, acked, refused>>
      PROVE  Goal
  <2>1. \A h \in Hooks : Idle(h)
    BY <1>3 DEF Idle
  <2> QED
    BY <1>2, <2>1
<1>4. ASSUME NEW h \in Hooks, NEW end \in BOOLEAN, StartFlush(h, end) PROVE Goal
  <2>1. OtherIdle(h) /\ pc'[h] = "cursor"
    BY <1>4, ForgetIdle DEF StartFlush, TypeOK, StageTypeOK
  <2> QED
    BY <1>1, <1>4, <2>1, FlushInvForget DEF StartFlush
<1>5. ASSUME NEW h \in Hooks, ReadCursor(h) PROVE Goal
  <2>1. OtherIdle(h)
    BY <1>5 DEF ReadCursor, Idle, TypeOK, StageTypeOK, ReadTypeOK, sendVars
  <2>2. FlushInvOf(h)'
    BY <1>5 DEF ReadCursor, FlushInvOf, TypeOK, StageTypeOK, sendVars, serverVars,
                ReportKey
  <2> QED
    BY <1>1, <2>1, <2>2
<1>6. ASSUME NEW h \in Hooks, ReadTranscript(h) PROVE Goal
  <2> DEFINE own == Own(at[h], Resume(at[h], from[h]),
                        Lesser(Parsed(at[h]), Resume(at[h], from[h]) + ReadLimit))
  <2>1. /\ OtherIdle(h) /\ pc'[h] \in {"cursor", "send", "write"}
        /\ sent' = sent /\ acked' = acked /\ refused' = refused
        /\ \A t \in Turns : t \notin own => seen'[h][t] = seen[h][t]
        /\ \A i \in 1 .. Len(reports[h]) :
             i \in 1 .. Len(reports'[h]) /\ reports'[h][i] = reports[h][i]
        /\ \A t \in own : \E i \in 1 .. Len(reports'[h]) :
             reports'[h][i] = ReportKey(t)
    BY <1>6, ReadTranscriptEffect
  <2> HIDE DEF own
  <2>2. sent[h] = 0 /\ acked[h] = {} /\ refused[h] = {}
    BY <1>6 DEF ReadTranscript, FlushInvOf
  <2>3. ASSUME NEW t \in Turns, seen'[h][t] > 0
        PROVE  \E i \in 1 .. Len(reports'[h]) : reports'[h][i] = ReportKey(t)
    <3>1. CASE t \in own
      BY <2>1, <3>1
    <3>2. CASE t \notin own
      BY <2>1, <2>3, <3>2 DEF FlushInvOf
    <3> QED
      BY <3>1, <3>2
  <2>4. FlushInvOf(h)'
    BY <2>1, <2>2, <2>3 DEF FlushInvOf, ReportKey
  <2> QED
    BY <1>1, <2>1, <2>4
<1>7. ASSUME NEW h \in Hooks, ReadFails(h) PROVE Goal
  <2>1. OtherIdle(h) /\ pc'[h] \in {"cursor", "send", "write"}
    BY <1>7 DEF ReadFails, NextFile, Idle, TypeOK, StageTypeOK, sendVars
  <2>2. FlushInvOf(h)'
    BY <1>7, <2>1 DEF ReadFails, FlushInvOf, sendVars, serverVars, ReportKey
  <2> QED
    BY <1>1, <2>1, <2>2
<1>8. ASSUME NEW h \in Hooks, SendAccepted(h) PROVE Goal
  <2>1. Answered(h, TRUE) /\ UNCHANGED planVars /\ Insert(Payload(h))
    BY <1>8 DEF SendAccepted
  <2> QED
    BY <1>1, <2>1, AnsweredEffect, CarriedFiled, FlushInvAnswered
<1>9. ASSUME NEW h \in Hooks,
             SendAnswerLost(h) \/ SendRefused(h) \/ SendTimedOut(h)
      PROVE  Goal
  <2>1. Answered(h, FALSE) /\ UNCHANGED planVars
    BY <1>9 DEF SendAnswerLost, SendRefused, SendTimedOut
  <2> QED
    BY <1>1, <2>1, AnsweredEffect, FlushInvAnswered
<1>10. ASSUME NEW h \in Hooks, DeadlineExpired(h) PROVE Goal
  <2>1. OtherIdle(h) /\ pc'[h] = "write"
    BY <1>10 DEF DeadlineExpired, Idle, TypeOK, StageTypeOK, planVars, sendVars
  <2>2. FlushInvOf(h)'
    BY <1>10, <2>1 DEF DeadlineExpired, FlushInvOf, planVars, sendVars, serverVars,
                       ReportKey
  <2> QED
    BY <1>1, <2>1, <2>2
<1>11. ASSUME NEW h \in Hooks, NEW f \in Files,
              WriteCursor(h, f) \/ WriteCursorFails(h, f)
       PROVE  Goal
  <2>1. OtherIdle(h) /\ pc' = pc /\ pc[h] = "write"
    BY <1>11 DEF WriteCursor, WriteCursorFails, Idle, TypeOK, AnswerTypeOK, planVars
  <2>2. FlushInvOf(h)'
    BY <1>11, <2>1 DEF WriteCursor, WriteCursorFails, FlushInvOf, planVars,
                       serverVars, ReportKey
  <2> QED
    BY <1>1, <2>1, <2>2
<1>12. ASSUME NEW h \in Hooks, FinishFlush(h) PROVE Goal
  <2>1. CASE MayMark(h)
    <3>1. OtherIdle(h)
      BY <1>12, <2>1 DEF FinishFlush, Idle, TypeOK, StageTypeOK, planVars, sendVars
    <3>2. \A t \in Turns : seen[h][t] > 0 => stored[t] > 0
      BY <2>1 DEF MayMark, FlushInvOf
    <3>3. pc'[h] = "marker"
          /\ UNCHANGED <<seen, reports, sent, acked, refused, stored>>
      BY <1>12, <2>1
         DEF FinishFlush, TypeOK, StageTypeOK, planVars, sendVars, serverVars
    <3>4. FlushInvOf(h)'
      BY <3>2, <3>3 DEF FlushInvOf, ReportKey
    <3> QED
      BY <1>1, <3>1, <3>4
  <2>2. CASE ~MayMark(h)
    <3>1. Forget(h) /\ OtherIdle(h) /\ pc'[h] = "idle"
      BY <1>12, <2>2, ForgetIdle DEF FinishFlush, TypeOK, StageTypeOK
    <3> QED
      BY <1>1, <3>1, FlushInvForget
  <2> QED
    BY <2>1, <2>2
<1>13. ASSUME NEW h \in Hooks, DeliverMarker(h) \/ Kill(h) PROVE Goal
  <2>1. Forget(h) /\ OtherIdle(h) /\ pc'[h] = "idle"
    BY <1>13, ForgetIdle DEF DeliverMarker, Kill, TypeOK, StageTypeOK
  <2> QED
    BY <1>1, <2>1, FlushInvForget
<1>14. ASSUME \/ Writer \/ DrainMarker \/ UNCHANGED vars
              \/ \E rows \in late : LandLate(rows)
              \/ \E f \in Files : LoseCursor(f)
       PROVE  Goal
  <2>1. UNCHANGED <<pc, at, from, seen, reports, advance, sent, acked, refused>>
    BY <1>14 DEF Writer, vars, planVars, sendVars, AppendLine, FinishLine,
                 EndSession, LandLate, DrainMarker, LoseCursor
  <2> QED
    BY <1>3, <2>1
<1>15. ASSUME NEW h \in Hooks, Step(h) PROVE Goal
  BY <1>5, <1>6, <1>8, <1>11, <1>12, <1>13, <1>15 DEF Step
<1>16. ASSUME NEW h \in Hooks, Faulty(h) PROVE Goal
  BY <1>7, <1>9, <1>10, <1>11, <1>13, <1>16 DEF Faulty
<1>17. Goal
  BY <1>4, <1>14, <1>15, <1>16 DEF Next
<1> QED
  BY <1>17 DEF Goal

\* What a hook holds between two steps of its flush stays true of the store,
\* whatever other hooks do meanwhile (flush's loop over its transcripts).
THEOREM FlushInvariant == Spec => []FlushInv
<1>1. Init => FlushInv
  BY FlushInvInit
<1>2. TypeOK /\ FlushInv /\ [Next]_vars => FlushInv'
  BY FlushInvNext
<1> QED
  BY <1>1, <1>2, TypeCorrect, PTL DEF Spec

\* A SessionEnd about to mark its Session finished has had every Turn it read
\* filed, whatever other hooks did meanwhile (flush's attach condition).
THEOREM MarkerHonest == Spec => []MarkerAfterFlush
<1>1. FlushInv => MarkerAfterFlush
  BY DEF FlushInv
<1> QED
  BY <1>1, FlushInvariant, PTL

-----------------------------------------------------------------------------
(* A cursor never passes a Turn without a row *)

\* CursorInv of one hook.
ReadCovered(h) == pc[h] = "file" => Covered(at[h], from[h])

AdvanceCovered(h) ==
  \A f \in Files :
    /\ advance[h][f] <= Whole(f)
    /\ \A t \in Turns : Owner[t] = f /\ Passed(f, t, advance[h][f])
         => stored[t] > 0 \/ seen[h][t] > 0

AckedFiled(h) ==
  \A t \in Turns : Owner[t] \in ToAdvance(h) /\ seen[h][t] > 0 => stored[t] > 0

CursorInvOf(h) == ReadCovered(h) /\ AdvanceCovered(h) /\ AckedFiled(h)

\* Where a hook read to stays covered while its own memory of it stays.
LEMMA AdvanceCoveredStable ==
  ASSUME TypeOK, [Next]_vars, NEW h \in Hooks, NEW f \in Files, AdvanceCovered(h),
         advance'[h][f] = advance[h][f],
         \A t \in Turns : seen[h][t] > 0 => seen'[h][t] > 0
  PROVE  /\ advance'[h][f] <= Whole(f)'
         /\ \A t \in Turns : Owner[t] = f /\ Passed(f, t, advance[h][f])'
              => stored'[t] > 0 \/ seen'[h][t] > 0
<1> DEFINE n == advance[h][f]
<1>1. n \in Nat /\ n <= Whole(f)
  BY DEF TypeOK, ReadTypeOK, AdvanceCovered
<1>2. \A t \in Turns : Owner[t] = f /\ Passed(f, t, n) => stored[t] > 0 \/ seen[h][t] > 0
  BY DEF AdvanceCovered
<1>3. \A t : (\E i \in 1 .. n : lines'[f][i] = t) => Passed(f, t, n)
  BY <1>1, PrefixStable DEF Passed
<1>4. n <= Whole(f)'
  BY <1>1, PrefixStable
<1>5. \A t \in Turns : stored[t] > 0 => stored'[t] > 0
  BY StoredStable
<1> QED
  BY <1>2, <1>3, <1>4, <1>5 DEF Passed

LEMMA CoveredLater ==
  ASSUME TypeOK, [Next]_vars, NEW f \in Files, NEW n \in Nat, Covered(f, n)
  PROVE  /\ n <= Whole(f)'
         /\ \A t \in Turns : Owner[t] = f /\ (\E i \in 1 .. n : lines'[f][i] = t)
              => stored'[t] > 0
BY StoredStable, PrefixStable DEF Covered, Passed

LEMMA AckedFiledStable ==
  ASSUME TypeOK, [Next]_vars, NEW h \in Hooks, AckedFiled(h),
         seen'[h] = seen[h], ToAdvance(h)' \subseteq ToAdvance(h)
  PROVE  AckedFiled(h)'
BY StoredStable DEF AckedFiled

LEMMA ReadCoveredStable ==
  ASSUME TypeOK, [Next]_vars, NEW h \in Hooks, ReadCovered(h),
         pc'[h] = pc[h], at'[h] = at[h], from'[h] = from[h]
  PROVE  ReadCovered(h)'
<1> SUFFICES ASSUME pc[h] = "file" PROVE Covered(at[h], from[h])'
  BY DEF ReadCovered
<1>1. at[h] \in Files /\ from[h] \in Nat /\ Covered(at[h], from[h])
  BY DEF TypeOK, StageTypeOK, ReadTypeOK, ReadCovered
<1> QED
  BY <1>1, CoveredLater DEF Covered, Passed, Whole

LEMMA AdvanceCoveredSame ==
  ASSUME TypeOK, [Next]_vars, NEW h \in Hooks, AdvanceCovered(h),
         seen'[h] = seen[h], advance'[h] = advance[h]
  PROVE  AdvanceCovered(h)'
BY AdvanceCoveredStable DEF AdvanceCovered, Passed, Whole

LEMMA CursorInvIdle ==
  ASSUME TypeOK, [Next]_vars, NEW g \in Hooks, Idle(g), CursorInvOf(g)
  PROVE  CursorInvOf(g)'
<1>1. ReadCovered(g)'
  BY ReadCoveredStable DEF Idle, CursorInvOf
<1>2. AdvanceCovered(g)'
  BY AdvanceCoveredSame DEF Idle, CursorInvOf
<1>3. AckedFiled(g)'
  BY AckedFiledStable DEF Idle, CursorInvOf, ToAdvance
<1> QED
  BY <1>1, <1>2, <1>3 DEF CursorInvOf

LEMMA CursorInvForget ==
  ASSUME TypeOK, TypeOK', NEW h \in Hooks, Forget(h), pc'[h] # "file"
  PROVE  CursorInvOf(h)'
<1>1. \A f \in Files : Whole(f)' \in Nat
  BY DEF Whole, TypeOK, WriterTypeOK
<1>2. ReadCovered(h)' /\ AckedFiled(h)'
  BY ForgetClears DEF ReadCovered, AckedFiled, ToAdvance
<1>3. AdvanceCovered(h)'
  BY <1>1, ForgetClears DEF AdvanceCovered, Passed
<1> QED
  BY <1>2, <1>3 DEF CursorInvOf

\* An accepted request files every Turn of every transcript it acknowledges.
LEMMA AnsweredFiles ==
  ASSUME OneReportPerFile, TypeOK, [Next]_vars, NEW h \in Hooks, NEW ok \in BOOLEAN,
         Answered(h, ok), UNCHANGED planVars, CursorInvOf(h),
         ok => \A t \in Carried(h) : stored'[t] > 0
  PROVE  CursorInvOf(h)'
<1>1. /\ pc'[h] \in {"write", "send"} /\ seen' = seen /\ advance' = advance
      /\ acked'[h] = acked[h] \cup (IF ok THEN CarriedFiles(h) ELSE {})
      /\ refused'[h] = refused[h] \cup (IF ok THEN {} ELSE CarriedFiles(h))
  BY AnsweredEffect
<1>2. AdvanceCovered(h)'
  BY <1>1, AdvanceCoveredSame DEF CursorInvOf
<1>3. ReadCovered(h)'
  BY <1>1 DEF ReadCovered
<1>4. ASSUME NEW t \in Turns, Owner[t] \in ToAdvance(h)', seen[h][t] > 0
      PROVE  stored'[t] > 0
  <2>1. CASE Owner[t] \in ToAdvance(h)
    BY <1>4, <2>1, StoredStable DEF CursorInvOf, AckedFiled
  <2>2. CASE Owner[t] \notin ToAdvance(h)
    <3>1. ok /\ Owner[t] \in CarriedFiles(h)
      BY <1>1, <1>4, <2>2 DEF ToAdvance
    <3>2. PICK r \in Batch(h) : r.file = Owner[t]
      BY <3>1 DEF CarriedFiles
    <3>3. PICK u \in Turns : r = ReportKey(u)
      BY BatchReports
    <3>4. r = ReportKey(t)
      BY <3>2, <3>3 DEF OneReportPerFile, ReportKey
    <3>5. t \in Carried(h)
      BY <1>4, <3>4 DEF Carried
    <3> QED
      BY <3>1, <3>5
  <2> QED
    BY <2>1, <2>2
<1>5. AckedFiled(h)'
  BY <1>1, <1>4 DEF AckedFiled
<1> QED
  BY <1>2, <1>3, <1>5 DEF CursorInvOf

\* Reading past a covered cursor.
LEMMA ReadingCovers ==
  ASSUME TypeOK, FlushInv, [Next]_vars, NEW h \in Hooks, ReadTranscript(h),
         CursorInvOf(h)
  PROVE  CursorInvOf(h)'
<1>0. PICK f \in Files : f = at[h]
  BY DEF ReadTranscript, TypeOK, StageTypeOK
<1> DEFINE lo == Resume(f, from[h])
           hi == Lesser(Parsed(f), lo + ReadLimit)
           to == ReadTo(f, lo)
           own == Own(f, lo, hi)
<1>1. from[h] \in Nat /\ pc[h] = "file"
  BY DEF ReadTranscript, TypeOK, ReadTypeOK
<1>2. /\ lo \in Nat /\ Whole(f) \in Nat /\ Parsed(f) \in Nat
      /\ Whole(f) <= Parsed(f) /\ lo <= from[h]
  BY <1>1, Prefixes
<1>3. /\ pc'[h] \in {"cursor", "send", "write"}
      /\ sent' = sent /\ acked' = acked /\ refused' = refused
      /\ \A t \in Turns : t \notin own => seen'[h][t] = seen[h][t]
      /\ \A t \in own : seen'[h][t] > 0
      /\ \A g \in Files : g # f => advance'[h][g] = advance[h][g]
      /\ advance'[h][f] = advance[h][f] \/ advance'[h][f] = to
  BY <1>0, ReadTranscriptEffect
<1>4. UNCHANGED <<lines, tail, stored>>
  BY DEF ReadTranscript, writerVars, serverVars
<1>5. acked[h] = {}
  BY <1>1 DEF FlushInv
<1>6. ReadCovered(h)' /\ AckedFiled(h)'
  BY <1>3, <1>5 DEF ReadCovered, AckedFiled, ToAdvance
<1>7. \A t \in Turns : Owner[t] = f /\ Passed(f, t, to)
        => stored[t] > 0 \/ t \in own
  <2>1. SUFFICES ASSUME NEW t \in Turns, Owner[t] = f, NEW i \in 1 .. to,
                        lines[f][i] = t, t \notin own
                 PROVE  stored[t] > 0
    BY DEF Passed
  <2>2. to \in Nat /\ hi \in Nat /\ to <= hi
    BY <1>2, ConstantsAssumption DEF Lesser, ReadTo
  <2>3. i \notin lo + 1 .. hi
    BY <2>1 DEF Own
  <2>4. i \in 1 .. from[h]
    BY <1>1, <1>2, <2>2, <2>3
  <2> HIDE DEF own, to, hi, lo
  <2>5. Passed(f, t, from[h])
    BY <2>1, <2>4 DEF Passed
  <2>6. Covered(f, from[h])
    BY <1>0, <1>1 DEF CursorInvOf, ReadCovered
  <2> QED
    BY <2>1, <2>5, <2>6 DEF Covered
<1>8. to <= Whole(f)
  BY <1>2, ConstantsAssumption DEF Lesser, ReadTo
<1> HIDE DEF own, to, hi, lo
<1>9. own \subseteq Turns
  BY DEF own, Own
<1>10. \A t \in Turns : seen[h][t] > 0 => seen'[h][t] > 0
  BY <1>3
<1>11. ASSUME NEW g \in Files, advance'[h][g] = advance[h][g]
       PROVE  /\ advance'[h][g] <= Whole(g)'
              /\ \A t \in Turns : Owner[t] = g /\ Passed(g, t, advance[h][g])'
                   => stored'[t] > 0 \/ seen'[h][t] > 0
  BY <1>10, <1>11, AdvanceCoveredStable DEF CursorInvOf
<1>12. ASSUME advance'[h][f] = to
       PROVE  /\ advance'[h][f] <= Whole(f)'
              /\ \A t \in Turns : Owner[t] = f /\ Passed(f, t, advance[h][f])'
                   => stored'[t] > 0 \/ seen'[h][t] > 0
  <2>1. Whole(f)' = Whole(f)
    BY <1>4 DEF Whole
  <2>2. \A t : Passed(f, t, advance[h][f])' <=> Passed(f, t, to)
    BY <1>4, <1>12 DEF Passed
  <2> QED
    BY <1>3, <1>4, <1>7, <1>8, <1>12, <2>1, <2>2
<1>13. ASSUME NEW g \in Files
       PROVE  /\ advance'[h][g] <= Whole(g)'
              /\ \A t \in Turns : Owner[t] = g /\ Passed(g, t, advance[h][g])'
                   => stored'[t] > 0 \/ seen'[h][t] > 0
  BY <1>3, <1>11, <1>12
<1>14. AdvanceCovered(h)'
  BY <1>13 DEF AdvanceCovered
<1> QED
  BY <1>6, <1>14 DEF CursorInvOf

\* The cursor files themselves: kept, lost, or advanced to what is filed.
LEMMA CursorSafeNext ==
  ASSUME TypeOK, [Next]_vars, CursorSafe, \A h \in Hooks : CursorInvOf(h)
  PROVE  CursorSafe'
<1>1. \/ cursor' = cursor
      \/ \E h \in Hooks, f \in Files : WriteCursor(h, f)
      \/ \E f \in Files : LoseCursor(f)
  BY DEF Next, Writer, Step, Faulty, vars, AppendLine, FinishLine, EndSession,
         StartFlush, ReadCursor, ReadTranscript, ReadFails, SendAccepted,
         SendAnswerLost, SendRefused, SendTimedOut, LandLate, DeadlineExpired,
         WriteCursorFails, FinishFlush, DeliverMarker, DrainMarker, Kill
<1>2. ASSUME NEW f \in Files
      PROVE  \E n \in Nat : n = cursor'[f] /\ Covered(f, n)
  <2>1. CASE cursor' = cursor
    BY <2>1 DEF CursorSafe, TypeOK
  <2>2. ASSUME NEW h \in Hooks, NEW g \in Files, WriteCursor(h, g)
        PROVE  \E n \in Nat : n = cursor'[f] /\ Covered(f, n)
    <3>1. CASE f = g
      <4> DEFINE n == advance[h][g]
      <4>1. cursor'[f] = n /\ n \in Nat /\ n <= Whole(g) /\ g \in ToAdvance(h)
        BY <2>2, <3>1
           DEF WriteCursor, TypeOK, ReadTypeOK, CursorInvOf, AdvanceCovered
      <4>2. \A t \in Turns : Owner[t] = g /\ Passed(g, t, n) => stored[t] > 0
        BY <4>1 DEF CursorInvOf, AdvanceCovered, AckedFiled
      <4> QED
        BY <3>1, <4>1, <4>2 DEF Covered
    <3>2. CASE f # g
      BY <2>2, <3>2 DEF WriteCursor, CursorSafe, TypeOK
    <3> QED
      BY <3>1, <3>2
  <2>3. ASSUME NEW g \in Files, LoseCursor(g)
        PROVE  \E n \in Nat : n = cursor'[f] /\ Covered(f, n)
    <3>1. CASE f = g
      <4>1. cursor'[f] = 0 /\ Whole(f) \in Nat
        BY <2>3, <3>1, Prefixes DEF LoseCursor, TypeOK
      <4> QED
        BY <4>1 DEF Covered, Passed
    <3>2. CASE f # g
      BY <2>3, <3>2 DEF LoseCursor, CursorSafe, TypeOK
    <3> QED
      BY <3>1, <3>2
  <2> QED
    BY <1>1, <2>1, <2>2, <2>3
<1>3. ASSUME NEW f \in Files PROVE Covered(f, cursor[f])'
  <2>1. PICK n \in Nat : n = cursor'[f] /\ Covered(f, n)
    BY <1>2
  <2>2. /\ n <= Whole(f)'
        /\ \A t \in Turns : Owner[t] = f /\ (\E i \in 1 .. n : lines'[f][i] = t)
             => stored'[t] > 0
    BY <2>1, CoveredLater
  <2> QED
    BY <2>1, <2>2 DEF Covered, Passed
<1> QED
  BY <1>3 DEF CursorSafe

LEMMA CursorInvInit == Init => CursorInv
<1> SUFFICES ASSUME Init PROVE CursorInv
  OBVIOUS
<1>1. TypeOK
  BY TypeInit
<1>2. \A f \in Files : Whole(f) \in Nat
  BY <1>1 DEF Whole, TypeOK, WriterTypeOK
<1>3. \A f \in Files : Covered(f, 0)
  BY <1>2 DEF Covered, Passed
<1>4. \A f \in Files, t \in Turns : ~Passed(f, t, 0)
  BY DEF Passed
<1> QED
  BY <1>2, <1>3, <1>4 DEF Init, CursorInv, CursorSafe

LEMMA CursorInvNext ==
  ASSUME OneReportPerFile
  PROVE  TypeOK /\ TypeOK' /\ FlushInv /\ CursorInv /\ [Next]_vars => CursorInv'
<1> SUFFICES ASSUME TypeOK, TypeOK', FlushInv, [Next]_vars, CursorSafe,
                    \A h \in Hooks : CursorInvOf(h)
             PROVE  CursorSafe' /\ \A h \in Hooks : CursorInvOf(h)'
  BY DEF CursorInv, CursorInvOf, ReadCovered, AdvanceCovered, AckedFiled
<1> DEFINE Goal == \A h \in Hooks : CursorInvOf(h)'
           OtherIdle(h) == \A g \in Hooks : g # h => Idle(g)
<1>1. ASSUME NEW h \in Hooks, OtherIdle(h), CursorInvOf(h)' PROVE Goal
  BY <1>1, CursorInvIdle
<1>2. (\A h \in Hooks : Idle(h)) => Goal
  BY CursorInvIdle
<1> HIDE DEF Goal
<1>4. ASSUME NEW h \in Hooks, NEW end \in BOOLEAN, StartFlush(h, end) PROVE Goal
  <2>1. OtherIdle(h) /\ pc'[h] = "cursor"
    BY <1>4, ForgetIdle DEF StartFlush, TypeOK, StageTypeOK
  <2> QED
    BY <1>1, <1>4, <2>1, CursorInvForget DEF StartFlush
<1>5. ASSUME NEW h \in Hooks, ReadCursor(h) PROVE Goal
  <2>1. OtherIdle(h)
    BY <1>5 DEF ReadCursor, Idle, TypeOK, StageTypeOK, ReadTypeOK, sendVars
  <2>2. PICK f \in Files : f = at[h]
    BY <1>5 DEF ReadCursor, TypeOK, StageTypeOK
  <2>3. from'[h] = cursor[f] /\ at' = at /\ cursor[f] \in Nat
    BY <1>5, <2>2 DEF ReadCursor, TypeOK, ReadTypeOK
  <2>4. Covered(f, cursor[f])
    BY DEF CursorSafe
  <2>5. ReadCovered(h)'
    BY <2>2, <2>3, <2>4, CoveredLater DEF ReadCovered, Covered, Passed, Whole
  <2>6. AdvanceCovered(h)' /\ AckedFiled(h)'
    BY <1>5, AdvanceCoveredSame, AckedFiledStable
       DEF ReadCursor, CursorInvOf, ToAdvance, sendVars
  <2> QED
    BY <1>1, <2>1, <2>5, <2>6 DEF CursorInvOf
<1>6. ASSUME NEW h \in Hooks, ReadTranscript(h) PROVE Goal
  BY <1>1, <1>6, ReadTranscriptEffect, ReadingCovers
<1>7. ASSUME NEW h \in Hooks, ReadFails(h) PROVE Goal
  <2>1. OtherIdle(h) /\ pc'[h] \in {"cursor", "send", "write"}
    BY <1>7 DEF ReadFails, NextFile, Idle, TypeOK, StageTypeOK, sendVars
  <2>2. AdvanceCovered(h)' /\ AckedFiled(h)'
    BY <1>7, AdvanceCoveredSame, AckedFiledStable
       DEF ReadFails, CursorInvOf, ToAdvance, sendVars
  <2>3. CursorInvOf(h)'
    BY <2>1, <2>2 DEF CursorInvOf, ReadCovered
  <2> QED
    BY <1>1, <2>1, <2>3
<1>8. ASSUME NEW h \in Hooks, SendAccepted(h) PROVE Goal
  <2>1. Answered(h, TRUE) /\ UNCHANGED planVars /\ Insert(Payload(h))
    BY <1>8 DEF SendAccepted
  <2> QED
    BY <1>1, <2>1, AnsweredEffect, CarriedFiled, AnsweredFiles
<1>9. ASSUME NEW h \in Hooks,
             SendAnswerLost(h) \/ SendRefused(h) \/ SendTimedOut(h)
      PROVE  Goal
  <2>1. Answered(h, FALSE) /\ UNCHANGED planVars
    BY <1>9 DEF SendAnswerLost, SendRefused, SendTimedOut
  <2> QED
    BY <1>1, <2>1, AnsweredEffect, AnsweredFiles
\* Steps that read nothing, forget nothing and acknowledge nothing more.
<1>10. ASSUME NEW h \in Hooks, OtherIdle(h), pc'[h] \in {"write", "marker"},
              seen' = seen, advance' = advance,
              acked'[h] \subseteq acked[h], refused'[h] = refused[h]
       PROVE  Goal
  <2>1. AdvanceCovered(h)' /\ AckedFiled(h)'
    BY <1>10, AdvanceCoveredSame, AckedFiledStable DEF CursorInvOf, ToAdvance
  <2>2. CursorInvOf(h)'
    BY <1>10, <2>1 DEF CursorInvOf, ReadCovered
  <2> QED
    BY <1>1, <1>10, <2>2
\* Steps that end a flush.
<1>11. ASSUME NEW h \in Hooks, Forget(h), pc' = [pc EXCEPT ![h] = "idle"] PROVE Goal
  <2>1. OtherIdle(h) /\ pc'[h] = "idle"
    BY <1>11, ForgetIdle DEF TypeOK, StageTypeOK
  <2> QED
    BY <1>1, <1>11, <2>1, CursorInvForget
<1>12. ASSUME \/ Writer \/ DrainMarker \/ UNCHANGED vars
              \/ \E rows \in late : LandLate(rows)
              \/ \E f \in Files : LoseCursor(f)
       PROVE  Goal
  <2>1. UNCHANGED <<pc, at, from, seen, reports, advance, sent, acked, refused>>
    BY <1>12 DEF Writer, vars, planVars, sendVars, AppendLine, FinishLine,
                 EndSession, LandLate, DrainMarker, LoseCursor
  <2>2. \A h \in Hooks : Idle(h)
    BY <2>1 DEF Idle
  <2> QED
    BY <1>2, <2>2
<1>13. ASSUME NEW h \in Hooks, Step(h) PROVE Goal
  <2>1. ASSUME FinishFlush(h) PROVE Goal
    <3>1. CASE MayMark(h)
      <4>1. /\ OtherIdle(h) /\ pc'[h] = "marker"
            /\ seen' = seen /\ advance' = advance /\ acked' = acked
            /\ refused' = refused
        BY <2>1, <3>1
           DEF FinishFlush, Idle, TypeOK, StageTypeOK, planVars, sendVars
      <4> QED
        BY <1>10, <4>1
    <3>2. CASE ~MayMark(h)
      BY <1>11, <2>1, <3>2 DEF FinishFlush
    <3> QED
      BY <3>1, <3>2
  <2>2. ASSUME DeliverMarker(h) PROVE Goal
    BY <1>11, <2>2 DEF DeliverMarker
  <2>3. ASSUME NEW f \in Files, WriteCursor(h, f) PROVE Goal
    <3>1. /\ OtherIdle(h) /\ pc'[h] = "write" /\ seen' = seen /\ advance' = advance
          /\ acked'[h] \subseteq acked[h] /\ refused' = refused
      BY <2>3 DEF WriteCursor, Idle, TypeOK, AnswerTypeOK, planVars
    <3> QED
      BY <1>10, <3>1
  <2> QED
    BY <1>5, <1>6, <1>8, <1>13, <2>1, <2>2, <2>3 DEF Step
<1>14. ASSUME NEW h \in Hooks, Faulty(h) PROVE Goal
  <2>1. ASSUME DeadlineExpired(h) PROVE Goal
    <3>1. /\ OtherIdle(h) /\ pc'[h] = "write" /\ seen' = seen /\ advance' = advance
          /\ acked' = acked /\ refused' = refused
      BY <2>1 DEF DeadlineExpired, Idle, TypeOK, StageTypeOK, planVars, sendVars
    <3> QED
      BY <1>10, <3>1
  <2>2. ASSUME Kill(h) PROVE Goal
    BY <1>11, <2>2 DEF Kill
  <2>3. ASSUME NEW f \in Files, WriteCursorFails(h, f) PROVE Goal
    <3>1. /\ OtherIdle(h) /\ pc'[h] = "write" /\ seen' = seen /\ advance' = advance
          /\ acked'[h] \subseteq acked[h] /\ refused' = refused
      BY <2>3 DEF WriteCursorFails, Idle, TypeOK, AnswerTypeOK, planVars
    <3> QED
      BY <1>10, <3>1
  <2> QED
    BY <1>7, <1>9, <1>14, <2>1, <2>2, <2>3 DEF Faulty
<1>15. Goal
  BY <1>4, <1>12, <1>13, <1>14 DEF Next
<1>16. CursorSafe'
  BY CursorSafeNext
<1> QED
  BY <1>15, <1>16 DEF Goal

\* Where the Turns of a transcript are one report, no hook resumes from a cursor
\* past a Turn that is not filed, and none writes one: what it read is filed
\* once its transcript is acknowledged (flush's advance).
THEOREM CursorInvariant ==
  ASSUME OneReportPerFile
  PROVE  Spec => []CursorInv
<1>1. Init => CursorInv
  BY CursorInvInit
<1>2. TypeOK /\ TypeOK' /\ FlushInv /\ CursorInv /\ [Next]_vars => CursorInv'
  BY CursorInvNext
<1> QED
  BY <1>1, <1>2, TypeCorrect, FlushInvariant, PTL DEF Spec

\* Where the Turns of a transcript are one report, no cursor passes a Turn the
\* deployment never filed or a line still being written, whatever is killed,
\* lost, refused, late or overlapping.
THEOREM CursorSafety ==
  ASSUME OneReportPerFile
  PROVE  Spec => []CursorSafe
<1>1. CursorInv => CursorSafe
  BY DEF CursorInv
<1> QED
  BY <1>1, CursorInvariant, PTL

=============================================================================
