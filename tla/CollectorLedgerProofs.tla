------------------------ MODULE CollectorLedgerProofs ------------------------
(***************************************************************************)
(* Collector implements TurnLedger: what the transcripts state only grows,  *)
(* one entry at a time, nothing a hook or a late request carries is above   *)
(* it, and ingest adds rows without touching one.                           *)
(***************************************************************************)
EXTENDS CollectorProofs

-----------------------------------------------------------------------------
(* What a transcript states *)

\* One more line adds one to its own Turn's total and nothing to another's.
CountIn(s, t, n) == Cardinality({i \in 1 .. n : s[i] = t})

LEMMA CountNext ==
  ASSUME NEW s, NEW t, NEW n \in Nat
  PROVE  CountIn(s, t, n + 1) = CountIn(s, t, n) + (IF s[n + 1] = t THEN 1 ELSE 0)
<1> DEFINE S(k) == {i \in 1 .. k : s[i] = t}
<1>1. IsFiniteSet(S(n)) /\ Cardinality(S(n)) \in Nat
  <2>1. IsFiniteSet(1 .. n)
    BY FS_Interval
  <2>2. S(n) \in SUBSET (1 .. n)
    OBVIOUS
  <2> QED
    BY <2>1, <2>2, FS_Subset, FS_CardinalityType
<1>2. CASE s[n + 1] = t
  <2>1. S(n + 1) = S(n) \cup {n + 1} /\ n + 1 \notin S(n)
    BY <1>2
  <2>2. Cardinality(S(n) \cup {n + 1}) = Cardinality(S(n)) + 1
    BY <1>1, <2>1, FS_AddElement
  <2> QED
    BY <1>1, <1>2, <2>1, <2>2 DEF CountIn
<1>3. CASE s[n + 1] # t
  <2>1. S(n + 1) = S(n)
    BY <1>3
  <2> QED
    BY <1>1, <1>3, <2>1 DEF CountIn
<1> QED
  BY <1>2, <1>3

\* Lines that stay state what they did.
LEMMA TotalSame ==
  ASSUME NEW f, NEW t, NEW n \in Nat,
         \A i \in 1 .. n : lines'[f][i] = lines[f][i]
  PROVE  Cardinality({i \in 1 .. n : lines'[f][i] = t}) = Total(f, t, n)
<1>1. {i \in 1 .. n : lines'[f][i] = t} = {i \in 1 .. n : lines[f][i] = t}
  OBVIOUS
<1> QED
  BY <1>1 DEF Total

\* A step leaves what f states, or adds one entry of x to it.
StatesIn(f, t) == Total(f, t, Parsed(f))
Keeps(f) == \A t \in Turns : StatesIn(f, t)' = StatesIn(f, t)
Grows(f, x) ==
  \A t \in Turns : StatesIn(f, t)' = StatesIn(f, t) + (IF t = x THEN 1 ELSE 0)

LEMMA UntouchedKeeps ==
  ASSUME TypeOK, NEW f \in Files, lines'[f] = lines[f], tail'[f] = tail[f]
  PROVE  Keeps(f)
BY DEF Keeps, StatesIn, Total, Parsed

\* The parsed lines stay and there is at most one more of them.
LEMMA AppendParsed ==
  ASSUME TypeOK, NEW f \in Files, AppendLine(f)
  PROVE  /\ \A i \in 1 .. Parsed(f) : lines'[f][i] = lines[f][i]
         /\ Parsed(f)' \in {Parsed(f), Parsed(f) + 1}
<1>1. lines[f] \in Seq(Turns \cup {NoTurn}) /\ tail[f] = "ended"
  BY DEF TypeOK, WriterTypeOK, AppendLine
<1>2. PICK x \in Turns \cup {NoTurn} : lines'[f] = Append(lines[f], x)
  BY DEF AppendLine, TypeOK, WriterTypeOK
<1>3. Len(lines'[f]) = Len(lines[f]) + 1 /\ Len(lines[f]) \in Nat
      /\ \A i \in 1 .. Len(lines[f]) : lines'[f][i] = lines[f][i]
  BY <1>1, <1>2, AppendProperties
<1> QED
  BY <1>1, <1>3 DEF Parsed

LEMMA FinishParsed ==
  ASSUME TypeOK, NEW f \in Files, FinishLine(f)
  PROVE  /\ \A i \in 1 .. Parsed(f) : lines'[f][i] = lines[f][i]
         /\ Parsed(f)' \in {Parsed(f), Parsed(f) + 1}
<1>1. lines' = lines /\ tail'[f] = "ended" /\ Len(lines[f]) \in Nat
  BY DEF TypeOK, WriterTypeOK, FinishLine
<1> QED
  BY <1>1 DEF Parsed

LEMMA WrittenStates ==
  ASSUME TypeOK, NEW f \in Files, AppendLine(f) \/ FinishLine(f)
  PROVE  \E x : Grows(f, x) \/ Keeps(f)
<1>1. PICK n \in Nat : n = Parsed(f)
  <2>1. Parsed(f) \in Nat
    BY Prefixes
  <2> QED
    BY <2>1
<1>2. /\ \A i \in 1 .. n : lines'[f][i] = lines[f][i]
      /\ Parsed(f)' \in {n, n + 1}
  BY <1>1, AppendParsed, FinishParsed
<1>3. \A t \in Turns : Total(f, t, n)' = Total(f, t, n)
  BY <1>2, TotalSame DEF Total
<1>4. CASE Parsed(f)' = n
  BY <1>1, <1>3, <1>4 DEF Keeps, StatesIn, Total
<1>5. CASE Parsed(f)' = n + 1
  <2>1. PICK s : s = lines'[f]
    OBVIOUS
  <2>2. ASSUME NEW t \in Turns
        PROVE  Total(f, t, n + 1)' = Total(f, t, n) + (IF s[n + 1] = t THEN 1 ELSE 0)
    <3>1. CountIn(s, t, n + 1) = CountIn(s, t, n) + (IF s[n + 1] = t THEN 1 ELSE 0)
      BY CountNext
    <3>2. CountIn(s, t, n) = Total(f, t, n)
      BY <1>3, <2>1 DEF CountIn, Total
    <3>3. Total(f, t, n + 1)' = CountIn(s, t, n + 1)
      BY <2>1 DEF CountIn, Total
    <3> QED
      BY <3>1, <3>2, <3>3
  <2>3. \A t \in Turns : StatesIn(f, t)' = Total(f, t, n + 1)'
    BY <1>5 DEF StatesIn, Total
  <2>4. Grows(f, s[n + 1])
    BY <1>1, <2>2, <2>3 DEF Grows, StatesIn
  <2> QED
    BY <2>4
<1> QED
  BY <1>2, <1>4, <1>5

\* A step leaves every Turn's stated total, or, being the writer's, adds one
\* entry of one Turn and does nothing else the ledger or a hook can see.
LEMMA StatedStep ==
  ASSUME TypeOK, [Next]_vars
  PROVE  \/ \A t \in Turns : Stated(t)' = Stated(t)
         \/ /\ UNCHANGED <<stored, late, seen>>
            /\ \E x \in Turns : \A t \in Turns :
                 Stated(t)' = Stated(t) + (IF t = x THEN 1 ELSE 0)
<1> DEFINE Same == \A t \in Turns : Stated(t)' = Stated(t)
           More(x) == \A t \in Turns :
                        Stated(t)' = Stated(t) + (IF t = x THEN 1 ELSE 0)
<1>1. \A t \in Turns : Owner[t] \in Files /\ Stated(t) = StatesIn(Owner[t], t)
                       /\ Stated(t)' = StatesIn(Owner[t], t)'
                       /\ Stated(t) \in Nat
  <2>1. ASSUME NEW t \in Turns PROVE Owner[t] \in Files /\ Stated(t) \in Nat
    <3>1. Owner[t] \in Files
      BY ConstantsAssumption
    <3>2. Parsed(Owner[t]) \in Nat
      BY <3>1, Prefixes
    <3> QED
      BY <3>1, <3>2, TotalPositive DEF Stated
  <2> QED
    BY <2>1 DEF Stated, StatesIn
<1>2. ASSUME \A f \in Files : Keeps(f) PROVE Same
  BY <1>1, <1>2 DEF Keeps
<1>3. ASSUME NEW f \in Files, AppendLine(f) \/ FinishLine(f)
      PROVE  Same \/ (UNCHANGED <<stored, late, seen>> /\ \E x \in Turns : More(x))
  <2>1. \A g \in Files : g # f => lines'[g] = lines[g] /\ tail'[g] = tail[g]
    BY <1>3 DEF AppendLine, FinishLine, TypeOK, WriterTypeOK
  <2>2. \A g \in Files : g # f => Keeps(g)
    BY <2>1, UntouchedKeeps
  <2>3. UNCHANGED <<stored, late, seen>>
    BY <1>3 DEF AppendLine, FinishLine
  <2>4. PICK x : Grows(f, x) \/ Keeps(f)
    BY <1>3, WrittenStates
  <2>5. CASE Keeps(f)
    BY <1>2, <2>2, <2>5
  <2>6. CASE Grows(f, x) /\ x \in Turns /\ Owner[x] = f
    <3>1. ASSUME NEW t \in Turns
          PROVE  Stated(t)' = Stated(t) + (IF t = x THEN 1 ELSE 0)
      <4>1. CASE Owner[t] = f
        BY <1>1, <2>6, <4>1 DEF Grows
      <4>2. CASE Owner[t] # f
        BY <1>1, <2>2, <2>6, <4>2 DEF Keeps
      <4> QED
        BY <4>1, <4>2
    <3> QED
      BY <2>3, <2>6, <3>1
  <2>7. CASE Grows(f, x) /\ ~(x \in Turns /\ Owner[x] = f)
    <3>1. ASSUME NEW t \in Turns PROVE Stated(t)' = Stated(t)
      <4>1. CASE Owner[t] = f
        BY <1>1, <2>7, <4>1 DEF Grows
      <4>2. CASE Owner[t] # f
        BY <1>1, <2>2, <4>2 DEF Keeps
      <4> QED
        BY <4>1, <4>2
    <3> QED
      BY <3>1
  <2> QED
    BY <2>4, <2>5, <2>6, <2>7
<1>4. ASSUME UNCHANGED <<lines, tail>> PROVE Same
  BY <1>2, <1>4, UntouchedKeeps
<1>5. UNCHANGED <<lines, tail>> \/ \E f \in Files : AppendLine(f) \/ FinishLine(f)
  BY DEF Next, Writer, Step, Faulty, vars, writerVars, EndSession, StartFlush,
         ReadCursor, ReadTranscript, ReadFails, SendAccepted, SendAnswerLost,
         SendRefused, SendTimedOut, LandLate, DeadlineExpired, WriteCursor,
         WriteCursorFails, FinishFlush, DeliverMarker, DrainMarker, Kill,
         LoseCursor
<1> QED
  BY <1>3, <1>4, <1>5

LEMMA StatedGrows ==
  ASSUME TypeOK, [Next]_vars
  PROVE  \A t \in Turns : /\ Stated(t) \in Nat /\ Stated(t)' \in Nat
                          /\ Stated(t) <= Stated(t)'
<1>1. ASSUME NEW t \in Turns PROVE Stated(t) \in Nat
  <2>1. Owner[t] \in Files
    BY ConstantsAssumption
  <2>2. Parsed(Owner[t]) \in Nat
    BY <2>1, Prefixes
  <2> QED
    BY <2>2, TotalPositive DEF Stated
<1> QED
  BY <1>1, StatedStep

-----------------------------------------------------------------------------
(* Nothing carried is above what is stated *)

LedgerInv ==
  /\ \A h \in Hooks, t \in Turns : seen[h][t] <= Stated(t)
  /\ \A rows \in late, t \in Turns : rows[t] <= Stated(t)

LEMMA SeenStep ==
  ASSUME TypeOK, LedgerInv, [Next]_vars
  PROVE  \A h \in Hooks, t \in Turns : seen'[h][t] <= Stated(t)'
<1>1. \A t \in Turns : Stated(t) \in Nat /\ Stated(t)' \in Nat /\ Stated(t) <= Stated(t)'
  BY StatedGrows
<1>2. SUFFICES ASSUME NEW h \in Hooks, NEW t \in Turns PROVE seen'[h][t] <= Stated(t)
  <2>1. ASSUME NEW h \in Hooks, NEW t \in Turns, seen'[h][t] <= Stated(t),
               seen'[h][t] \in Nat
        PROVE  seen'[h][t] <= Stated(t)'
    BY <1>1, <2>1
  <2>2. \A h \in Hooks, t \in Turns : seen'[h][t] \in Nat
    BY TypeNext DEF TypeOK, ReadTypeOK
  <2> QED
    BY <1>2, <2>1, <2>2
<1>3. seen[h][t] <= Stated(t) /\ 0 <= Stated(t)
  BY <1>1 DEF LedgerInv
<1>4. ASSUME NEW g \in Hooks, Forget(g) PROVE seen'[h][t] <= Stated(t)
  BY <1>3, <1>4 DEF Forget, TypeOK, ReadTypeOK
<1>5. ASSUME NEW g \in Hooks, ReadTranscript(g) PROVE seen'[h][t] <= Stated(t)
  <2> DEFINE f == at[g]
             lo == Resume(f, from[g])
             hi == Lesser(Parsed(f), lo + ReadLimit)
             own == Own(f, lo, hi)
  <2>1. f \in Files /\ from[g] \in Nat
    BY <1>5 DEF ReadTranscript, TypeOK, StageTypeOK, ReadTypeOK
  <2>2. lo \in Nat /\ Parsed(f) \in Nat
    BY <2>1, Prefixes
  <2>3. hi \in Nat /\ hi <= Parsed(f)
    BY <2>2, ConstantsAssumption DEF Lesser
  <2>4. CASE own = {}
    BY <1>3, <1>5, <2>4 DEF ReadTranscript
  <2>5. CASE own # {}
    <3>1. seen' = [seen EXCEPT ![g] =
            [u \in Turns |-> IF u \in own THEN Total(f, u, hi) ELSE seen[g][u]]]
      BY <1>5, <2>5 DEF ReadTranscript
    <3>2. CASE h = g /\ t \in own
      <4>1. Owner[t] = f
        BY <3>2 DEF Own
      <4>2. Total(f, t, hi) <= Total(f, t, Parsed(f))
        BY <2>2, <2>3, TotalMonotone
      <4> HIDE DEF own, hi, lo
      <4>3. seen'[h][t] = Total(f, t, hi)
        BY <3>1, <3>2 DEF TypeOK, ReadTypeOK
      <4> QED
        BY <4>1, <4>2, <4>3 DEF Stated
    <3>3. CASE ~(h = g /\ t \in own)
      <4> HIDE DEF own, hi, lo
      <4>1. seen'[h][t] = seen[h][t]
        BY <3>1, <3>3 DEF TypeOK, ReadTypeOK
      <4> QED
        BY <1>3, <4>1
    <3> QED
      BY <3>2, <3>3
  <2> QED
    BY <2>4, <2>5
<1>6. CASE UNCHANGED seen
  BY <1>3, <1>6
<1>7. \/ UNCHANGED seen
      \/ \E g \in Hooks : Forget(g) \/ ReadTranscript(g)
  BY DEF Next, Writer, Step, Faulty, vars, planVars, AppendLine, FinishLine,
         EndSession, StartFlush, ReadCursor, ReadFails, SendAccepted,
         SendAnswerLost, SendRefused, SendTimedOut, LandLate, DeadlineExpired,
         WriteCursor, WriteCursorFails, FinishFlush, DeliverMarker, DrainMarker,
         Kill, LoseCursor
<1> QED
  BY <1>4, <1>5, <1>6, <1>7

LEMMA PayloadStated ==
  ASSUME TypeOK, LedgerInv, NEW h \in Hooks, NEW t \in Turns, Stated(t) \in Nat
  PROVE  Payload(h)[t] <= Stated(t)
BY DEF LedgerInv, Payload

LEMMA LateStep ==
  ASSUME TypeOK, LedgerInv, [Next]_vars
  PROVE  \A rows \in late', t \in Turns : rows[t] <= Stated(t)'
<1>1. \A t \in Turns : Stated(t) \in Nat /\ Stated(t)' \in Nat /\ Stated(t) <= Stated(t)'
  BY StatedGrows
<1>2. \/ late' \subseteq late
      \/ \E h \in Hooks : late' = late \cup {Payload(h)}
  BY DEF Next, Writer, Step, Faulty, vars, serverVars, AppendLine, FinishLine,
         EndSession, StartFlush, ReadCursor, ReadTranscript, ReadFails,
         SendAccepted, SendAnswerLost, SendRefused, SendTimedOut, LandLate,
         DeadlineExpired, WriteCursor, WriteCursorFails, FinishFlush,
         DeliverMarker, DrainMarker, Kill, LoseCursor
<1>3. SUFFICES ASSUME NEW rows \in late', NEW t \in Turns PROVE rows[t] <= Stated(t)'
  OBVIOUS
<1>4. rows[t] <= Stated(t)
  BY <1>1, <1>2, <1>3, PayloadStated DEF LedgerInv
<1>5. rows[t] \in Nat
  <2>1. rows \in [Turns -> Nat]
    BY <1>2, <1>3, PayloadType DEF TypeOK, ServerTypeOK
  <2> QED
    BY <2>1
<1> QED
  BY <1>1, <1>4, <1>5

-----------------------------------------------------------------------------
(* The refinement *)

LEMMA LedgerStart == Init => Ledger!Init /\ LedgerInv
<1> SUFFICES ASSUME Init PROVE Ledger!Init /\ LedgerInv
  OBVIOUS
<1>1. ASSUME NEW t \in Turns PROVE Stated(t) = 0
  <2>1. Owner[t] \in Files
    BY ConstantsAssumption
  <2>2. Parsed(Owner[t]) = 0
    BY <2>1 DEF Init, Parsed
  <2>3. ~Passed(Owner[t], t, 0)
    BY DEF Passed
  <2> QED
    BY <2>2, <2>3, TotalPositive DEF Stated
<1> QED
  BY <1>1 DEF Init, Ledger!Init, LedgerInv

\* An Insert of rows no reader of a transcript would call too large is a File.
LEMMA InsertFiles ==
  ASSUME TypeOK, NEW rows \in [Turns -> Nat], Insert(rows),
         \A t \in Turns : rows[t] <= Stated(t)
  PROVE  /\ stored' \in [Turns -> Nat]
         /\ \A t \in Turns : stored'[t] # stored[t]
              => stored[t] = 0 /\ stored'[t] <= Stated(t)
BY DEF TypeOK, ServerTypeOK, Insert

LEMMA LedgerStep ==
  ASSUME TypeOK, LedgerInv, [Next]_vars
  PROVE  [Ledger!Next]_(Ledger!ledgerVars)
<1>1. \A t \in Turns : Stated(t) \in Nat
  BY StatedGrows
<1>2. \/ stored' = stored
      \/ /\ \E rows \in [Turns -> Nat] :
              Insert(rows) /\ \A t \in Turns : rows[t] <= Stated(t)
         /\ UNCHANGED <<lines, tail>>
  <2>1. \/ stored' = stored
        \/ /\ UNCHANGED <<lines, tail>>
           /\ \/ \E h \in Hooks : Insert(Payload(h))
              \/ \E rows \in late : Insert(rows)
    BY ZenonT(40) DEF Next, Writer, Step, Faulty, vars, serverVars, writerVars, AppendLine,
           FinishLine, EndSession, StartFlush, ReadCursor, ReadTranscript,
           ReadFails, SendAccepted, SendAnswerLost, SendRefused, SendTimedOut,
           LandLate, DeadlineExpired, WriteCursor, WriteCursorFails, FinishFlush,
           DeliverMarker, DrainMarker, Kill, LoseCursor
  <2>2. \A h \in Hooks : /\ Payload(h) \in [Turns -> Nat]
                         /\ \A t \in Turns : Payload(h)[t] <= Stated(t)
    BY <1>1, PayloadType, PayloadStated
  <2>3. \A rows \in late : /\ rows \in [Turns -> Nat]
                           /\ \A t \in Turns : rows[t] <= Stated(t)
    BY DEF LedgerInv, TypeOK, ServerTypeOK
  <2> QED
    BY <2>1, <2>2, <2>3
<1>3. CASE /\ UNCHANGED <<lines, tail>>
           /\ \E rows \in [Turns -> Nat] :
                Insert(rows) /\ \A t \in Turns : rows[t] <= Stated(t)
  <2>1. /\ stored' \in [Turns -> Nat]
        /\ \A t \in Turns : stored'[t] # stored[t]
             => stored[t] = 0 /\ stored'[t] <= Stated(t)
    BY <1>3, InsertFiles
  <2>2. \A t \in Turns : Stated(t)' = Stated(t)
    BY <1>3 DEF Stated, Total, Parsed
  <2> QED
    BY <2>1, <2>2 DEF Ledger!Next, Ledger!File
<1>4. CASE stored' = stored
  <2>1. CASE \A t \in Turns : Stated(t)' = Stated(t)
    BY <1>4, <2>1 DEF Ledger!ledgerVars
  <2>2. CASE \E x \in Turns : \A t \in Turns :
               Stated(t)' = Stated(t) + (IF t = x THEN 1 ELSE 0)
    <3>1. PICK x \in Turns : \A t \in Turns :
            Stated(t)' = Stated(t) + (IF t = x THEN 1 ELSE 0)
      BY <2>2
    <3> DEFINE old == [t \in Turns |-> Stated(t)]
    <3>2. [t \in Turns |-> Stated(t)'] = [old EXCEPT ![x] = old[x] + 1]
      <4>1. \A t \in Turns : Stated(t)' = [old EXCEPT ![x] = old[x] + 1][t]
        <5>1. \A t \in Turns : [old EXCEPT ![x] = old[x] + 1][t]
                                = IF t = x THEN Stated(x) + 1 ELSE Stated(t)
          OBVIOUS
        <5> QED
          BY <1>1, <3>1, <5>1
      <4> QED
        BY <4>1
    <3>3. Ledger!State(x)
      BY <1>4, <3>2 DEF Ledger!State
    <3> QED
      BY <3>3 DEF Ledger!Next
  <2> QED
    BY <2>1, <2>2, StatedStep
<1> QED
  BY <1>2, <1>3, <1>4

\* Reporting implements the ledger: a Turn's row is filed once, never
\* rewritten, and never above what its transcript states, whatever overlaps, is
\* killed, is lost or lands late.
THEOREM Implementation == Spec => ImplementsLedger
<1>1. Init => Ledger!Init /\ LedgerInv
  BY LedgerStart
<1>2. TypeOK /\ LedgerInv /\ [Next]_vars => LedgerInv'
  BY SeenStep, LateStep DEF LedgerInv
<1>3. TypeOK /\ LedgerInv /\ [Next]_vars => [Ledger!Next]_(Ledger!ledgerVars)
  BY LedgerStep
<1> QED
  BY <1>1, <1>2, <1>3, TypeCorrect, PTL DEF Spec, ImplementsLedger, Ledger!Spec

=============================================================================
