---------------------------- MODULE ArchiveProofs ----------------------------
(***************************************************************************)
(* Proofs about Archive, for any number of passes, Projects and lines, any  *)
(* chunk size, and any number of faults.                                    *)
(***************************************************************************)
EXTENDS Archive, FiniteSetTheorems, SequenceTheorems, TLAPS

-----------------------------------------------------------------------------
(* Types *)

LEMMA WholeKeyType == \A j \in Projects : WholeKey(j) \in Key
BY DEF WholeKey, Key

LEMMA TailKeyType ==
  \A j \in Projects, n \in Nat, p \in Passes, a \in Nat : TailKey(j, n, <<p, a>>) \in Key
BY DEF WholeKey, TailKey, Key

LEMMA ChunkKeyType ==
  \A j \in Projects, n \in Nat, text \in Seq(Nat) : ChunkKey(j, n, text) \in Key
BY DEF ChunkKey, Key

LEMMA SealedType == ASSUME TypeOK PROVE Sealed \in Sealing
<1>1. Cardinality(chunks) \in Nat
  BY FS_CardinalityType DEF TypeOK
<1>2. CASE Holds(row, project)
  BY <1>1, <1>2 DEF Sealed, Sealing, Holds, TypeOK, Row
<1>3. CASE ~Holds(row, project)
  BY <1>3 DEF Sealed, Sealing, Nothing
<1> QED
  BY <1>2, <1>3

\* How many lines i chunks have.
Lines(i) == i * ChunkLines

LEMMA LinesAdd ==
  ASSUME NEW i \in Nat, NEW m \in Nat
  PROVE  /\ Lines(i) \in Nat /\ Lines(i + m) = Lines(i) + Lines(m)
         /\ Lines(0) = 0 /\ Lines(1) = ChunkLines /\ i <= Lines(i)
         /\ i <= m => Lines(i) <= Lines(m)
BY ConstantsAssumption DEF Lines

LEMMA LinesStep ==
  ASSUME NEW i \in Nat \ {0}
  PROVE  i - 1 \in Nat /\ Lines(i - 1) \in Nat /\ Lines(i) = Lines(i - 1) + ChunkLines
<1>1. i - 1 \in Nat /\ (i - 1) + 1 = i
  OBVIOUS
<1> QED
  BY <1>1, LinesAdd, 1 \in Nat, Lines((i - 1) + 1) = Lines(i - 1) + Lines(1)

LEMMA Cuts ==
  ASSUME NEW len \in Nat
  PROVE  /\ len \div ChunkLines \in Nat
         /\ Lines(len \div ChunkLines) <= len
         /\ len < Lines(len \div ChunkLines) + ChunkLines
         /\ len % ChunkLines = 0 => Lines(len \div ChunkLines) = len
BY ConstantsAssumption DEF Lines

\* A piece of a text has as many lines as it is long.
LEMMA Piece ==
  ASSUME NEW text \in Seq(Nat), NEW o \in Nat, NEW n \in Nat, o + n <= Len(text)
  PROVE  /\ SubSeq(text, o + 1, o + n) \in Seq(Nat)
         /\ Len(SubSeq(text, o + 1, o + n)) = n
<1>1. \A x \in o + 1 .. o + n : text[x] \in Nat
  OBVIOUS
<1>2. /\ SubSeq(text, o + 1, o + n) \in Seq(Nat)
      /\ Len(SubSeq(text, o + 1, o + n)) = IF o + 1 <= o + n THEN (o + n) - (o + 1) + 1 ELSE 0
  BY <1>1, SubSeqProperties
<1> QED
  BY <1>2

\* Where the i-th part of a plan begins that follows b lines.
Offset(b, i) == b + Lines(i - 1)

\* What a plan is: the next chunks of the text, from where the sealed ones end.
IsPlan(text, sealed, plan) ==
  /\ plan \in Seq(PlanParts)
  /\ \A i \in 1 .. Len(plan) :
       /\ Offset(sealed.bytes, i) + ChunkLines <= Len(text)
       /\ plan[i].seq = sealed.chunks + i
       /\ plan[i].off = Offset(sealed.bytes, i)
       /\ plan[i].text = SubSeq(text, plan[i].off + 1, plan[i].off + ChunkLines)
       /\ Len(plan[i].text) = ChunkLines

\* Chunks that follow on what is sealed now are the plan made before.
LEMMA SamePlan ==
  ASSUME NEW text \in Seq(Nat), NEW s \in Sealing, NEW t \in Sealing, NEW plan, plan # <<>>,
         IsPlan(text, s, plan), FollowsOn(t, plan)
  PROVE  s.bytes = t.bytes /\ s.chunks = t.chunks /\ IsPlan(text, t, plan)
<1>1. plan \in Seq(PlanParts) /\ 1 \in DOMAIN plan /\ 1 \in 1 .. Len(plan)
  BY DEF IsPlan
<1>2. plan[1].seq = t.chunks + 1 /\ plan[1].off = EndOf(t, SubSeq(plan, 1, 0))
  BY <1>1 DEF FollowsOn
<1>3. SubSeq(plan, 1, 0) = <<>>
  BY SubSeqEmpty
<1>4. plan[1].off = t.bytes
  BY <1>2, <1>3 DEF EndOf
<1>5. plan[1].seq = s.chunks + 1 /\ plan[1].off = s.bytes + Lines(0)
  <2>1. \A i \in 1 .. Len(plan) : plan[i].seq = s.chunks + i /\ plan[i].off = Offset(s.bytes, i)
    BY DEF IsPlan
  <2>2. 1 - 1 = 0
    OBVIOUS
  <2> QED
    BY <1>1, <2>1, <2>2 DEF Offset
<1>6. Lines(0) = 0
  BY LinesAdd, 0 \in Nat
<1>7. s.bytes = t.bytes /\ s.chunks = t.chunks
  BY <1>2, <1>4, <1>5, <1>6 DEF Sealing
<1> QED
  BY <1>7 DEF IsPlan

\* What planFrom plans is one, after a sealed prefix of the text.
LEMMA PlanFromIs ==
  ASSUME NEW text \in Seq(Nat), NEW sealed \in Sealing, PlanFrom(text, sealed).fit = "seal"
  PROVE  /\ sealed.bytes <= Len(text) /\ SubSeq(text, 1, sealed.bytes) = sealed.sha
         /\ IsPlan(text, sealed, PlanFrom(text, sealed).chunks)
<1> DEFINE base == sealed.bytes
           from == base \div ChunkLines
           cuts == Len(text) \div ChunkLines
           n == IF cuts - from > MaxSeal THEN MaxSeal ELSE cuts - from
           Part(i) == [seq |-> sealed.chunks + i, off |-> base + (i - 1) * ChunkLines,
                       text |-> SubSeq(text, base + (i - 1) * ChunkLines + 1,
                                       base + i * ChunkLines)]
           plan == [i \in 1 .. n |-> Part(i)]
<1>1. /\ ChunkLines \in Nat /\ ChunkLines \in Nat \ {0} /\ MaxSeal \in Nat \ {0} /\ base \in Nat
      /\ Len(text) \in Nat /\ sealed.chunks \in Nat
  BY ConstantsAssumption DEF Sealing
<1>2. /\ base <= Len(text) /\ base % ChunkLines = 0 /\ SubSeq(text, 1, base) = sealed.sha
      /\ PlanFrom(text, sealed).chunks = plan
  BY <1>1 DEF PlanFrom
<1> HIDE DEF plan, base
<1>3. /\ from \in Nat /\ cuts \in Nat /\ Lines(from) = base
      /\ Lines(cuts) <= Len(text) /\ Len(text) < Lines(cuts) + ChunkLines
      /\ Lines(cuts) \in Nat
  BY <1>1, <1>2, Cuts, LinesAdd
<1> HIDE DEF from, cuts
<1>4. from <= cuts
  <2> SUFFICES ASSUME cuts + 1 <= from PROVE FALSE
    BY <1>3
  <2>1. Lines(cuts + 1) = Lines(cuts) + ChunkLines
    BY <1>3, LinesAdd, 1 \in Nat
  <2>2. Lines(cuts + 1) <= Lines(from)
    BY <1>3, LinesAdd, cuts + 1 \in Nat
  <2> QED
    BY <1>1, <1>2, <1>3, <2>1, <2>2
<1>5. n \in Nat /\ n <= cuts - from
  BY <1>1, <1>3, <1>4
<1> HIDE DEF n
<1>6. ASSUME NEW i \in 1 .. n
      PROVE  /\ Offset(base, i) \in Nat /\ Offset(base, i) + ChunkLines <= Len(text)
             /\ base + Lines(i - 1) = Offset(base, i)
             /\ base + Lines(i) = Offset(base, i) + ChunkLines
  <2>1. i \in Nat \ {0} /\ from + i <= cuts
    BY <1>3, <1>5
  <2>2. Lines(i - 1) \in Nat /\ Lines(i) = Lines(i - 1) + ChunkLines
    BY <2>1, LinesStep
  <2>3. Lines(from + i) = base + Lines(i) /\ Lines(from + i) <= Lines(cuts)
    BY <1>3, <2>1, LinesAdd, from + i \in Nat
  <2>4. Offset(base, i) = base + Lines(i - 1)
    BY DEF Offset
  <2>5. base + Lines(i) <= Len(text)
    BY <1>1, <1>3, <2>2, <2>3
  <2>6. base + Lines(i) = (base + Lines(i - 1)) + ChunkLines
    BY <1>1, <2>2
  <2> QED
    BY <1>1, <2>2, <2>4, <2>5, <2>6
<1>7. ASSUME NEW i \in 1 .. n
      PROVE  /\ Part(i) = [seq |-> sealed.chunks + i, off |-> Offset(base, i),
                           text |-> SubSeq(text, Offset(base, i) + 1, Offset(base, i) + ChunkLines)]
             /\ Len(Part(i).text) = ChunkLines
             /\ Part(i) \in PlanParts
  <2>1. /\ SubSeq(text, Offset(base, i) + 1, Offset(base, i) + ChunkLines) \in Seq(Nat)
        /\ Len(SubSeq(text, Offset(base, i) + 1, Offset(base, i) + ChunkLines)) = ChunkLines
    <3> DEFINE o == Offset(base, i)
    <3>1. o \in Nat /\ o + ChunkLines <= Len(text) /\ ChunkLines \in Nat
      BY <1>1, <1>6
    <3> HIDE DEF o
    <3>2. SubSeq(text, o + 1, o + ChunkLines) \in Seq(Nat)
          /\ Len(SubSeq(text, o + 1, o + ChunkLines)) = ChunkLines
      BY <3>1, Piece, SMTT(30)
    <3> QED
      BY <3>2 DEF o
  <2>2. SubSeq(text, Offset(base, i) + 1, Offset(base, i) + ChunkLines) \in Texts
    BY <1>1, <2>1 DEF Texts
  <2>3. Part(i) = [seq |-> sealed.chunks + i, off |-> Offset(base, i),
                   text |-> SubSeq(text, Offset(base, i) + 1, Offset(base, i) + ChunkLines)]
    BY <1>6 DEF Lines
  <2>4. sealed.chunks + i \in Nat \ {0}
    BY <1>1, <1>5
  <2> QED
    BY <1>6, <2>1, <2>2, <2>3, <2>4 DEF PlanParts
<1> HIDE DEF Part
<1>8. plan \in Seq(PlanParts) /\ Len(plan) = n /\ \A i \in 1 .. n : plan[i] = Part(i)
  BY <1>5, <1>7 DEF plan
<1> QED
  <2>1. base = sealed.bytes
    BY DEF base
  <2>2. ASSUME NEW i \in 1 .. Len(plan)
        PROVE  /\ Offset(base, i) + ChunkLines <= Len(text)
               /\ plan[i].seq = sealed.chunks + i
               /\ plan[i].off = Offset(base, i)
               /\ plan[i].text = SubSeq(text, plan[i].off + 1, plan[i].off + ChunkLines)
               /\ Len(plan[i].text) = ChunkLines
    <3>1. /\ i \in 1 .. n /\ plan[i] = Part(i) /\ Offset(base, i) + ChunkLines <= Len(text)
          /\ Len(Part(i).text) = ChunkLines
          /\ Part(i) = [seq |-> sealed.chunks + i, off |-> Offset(base, i),
                        text |-> SubSeq(text, Offset(base, i) + 1, Offset(base, i) + ChunkLines)]
      BY <1>6, <1>7, <1>8
    <3> DEFINE seq == sealed.chunks + i
               off == Offset(base, i)
               piece == SubSeq(text, off + 1, off + ChunkLines)
    <3>2. plan[i] = [seq |-> seq, off |-> off, text |-> piece]
      BY <3>1
    <3>3. off + ChunkLines <= Len(text) /\ Len(plan[i].text) = ChunkLines
      BY <3>1
    <3> HIDE DEF seq, off, piece
    <3>4. plan[i].seq = seq /\ plan[i].off = off /\ plan[i].text = piece
      BY <3>2
    <3> QED
      BY <3>3, <3>4 DEF seq, off, piece
  <2> QED
    BY <1>2, <1>8, <2>1, <2>2 DEF IsPlan

\* What a pass has planned, from its presign to its confirm.
Planned(me) ==
  /\ me.pc = "idle" => me.want = "chunked"
  /\ me.pc = "put" <=> me.puts # <<>>
  /\ me.sealed.bytes = 0 <=> me.sealed.sha = <<>>
  /\ me.want = "seal" => me.plan # <<>> /\ IsPlan(me.scan, me.sealed, me.plan)
  /\ me.want # "seal" /\ me.pc \in {"put", "confirm", "heads", "lock", "write"} => me.plan = <<>>

Types == TypeOK /\ \A p \in Passes : Planned(at[p])

\* One pass moves.
LEMMA OneMoves ==
  ASSUME Types, NEW p \in Passes, NEW me \in Locals, Planned(me), at' = [at EXCEPT ![p] = me]
  PROVE  at' \in [Passes -> Locals] /\ \A q \in Passes : Planned(at'[q])
<1>1. at' \in [Passes -> Locals]
  BY DEF Types, TypeOK
<1>2. at'[p] = me /\ \A q \in Passes : q # p => at'[q] = at[q]
  BY DEF Types, TypeOK
<1> QED
  BY <1>1, <1>2 DEF Types

LEMMA OverType == ASSUME TypeOK PROVE Empty \in Locals /\ Over \in Locals /\ Planned(Over)
<1>1. WholeKey(project) \in Key
  BY DEF TypeOK, WholeKey, Key
<1>2. <<>> \in Seq(Nat) /\ <<>> \in Seq(PlanParts)
      /\ <<>> \in Seq(Uploads)
  OBVIOUS
<1>3. Empty \in Locals /\ Over \in Locals
  BY <1>1, <1>2 DEF Over, Empty, Locals, Nothing, Sealing
<1> QED
  BY <1>3 DEF Over, Empty, Nothing, Planned

LEMMA EndsType ==
  ASSUME Types, NEW p \in Passes, Ends(p)
  PROVE  at' \in [Passes -> Locals] /\ \A q \in Passes : Planned(at'[q])
BY OverType, OneMoves DEF Types, Ends

LEMMA AgainType ==
  ASSUME Types, NEW p \in Passes, Again(p), at[p].pc # "put"
  PROVE  at' \in [Passes -> Locals] /\ \A q \in Passes : Planned(at'[q])
<1>1. CASE Ends(p)
  BY <1>1, EndsType
<1>2. CASE at' = [at EXCEPT ![p].pc = "ask", ![p].want = "chunked", ![p].tries = 2]
  <2> DEFINE me == [at[p] EXCEPT !.pc = "ask", !.want = "chunked", !.tries = 2]
  <2>1. at[p] \in Locals /\ Planned(at[p])
    BY DEF Types, TypeOK
  <2>2. me \in Locals
    BY <2>1 DEF Locals
  <2>3. Planned(me)
    BY <2>1 DEF Locals, Planned
  <2>4. at' = [at EXCEPT ![p] = me]
    BY <1>2 DEF Types, TypeOK
  <2> QED
    BY <2>2, <2>3, <2>4, OneMoves
<1> QED
  BY <1>1, <1>2 DEF Again

\* A pass that goes on with its upload keeps its plan.
LEMMA GoesOnType ==
  ASSUME Types, NEW p \in Passes, NEW me \in Locals, at' = [at EXCEPT ![p] = me],
         at[p].pc \in {"put", "confirm", "heads", "lock", "write"},
         me.pc # "idle", me.pc = "put" <=> me.puts # <<>>, me.plan = at[p].plan, me.want = at[p].want, me.scan = at[p].scan,
         me.sealed = at[p].sealed
  PROVE  at' \in [Passes -> Locals] /\ \A q \in Passes : Planned(at'[q])
<1>1. Planned(me)
  BY DEF Types, Planned
<1> QED
  BY <1>1, OneMoves

LEMMA RangeIn == ASSUME NEW S, NEW s \in Seq(S) PROVE Range(s) \subseteq S
BY DEF Range

LEMMA OneUpload ==
  ASSUME NEW u \in Uploads
  PROVE  <<u>> \in Seq(Uploads) /\ <<u>> # <<>> /\ {v.key : v \in Range(<<u>>)} = {u.key}
BY DEF Range

LEMMA OneMore ==
  ASSUME NEW s \in Seq(Uploads), NEW u \in Uploads
  PROVE  /\ s \o <<u>> \in Seq(Uploads) /\ s \o <<u>> # <<>>
         /\ Range(s \o <<u>>) \subseteq Range(s) \cup {u}
<1>1. /\ s \o <<u>> \in Seq(Uploads) /\ Len(s \o <<u>>) = Len(s) + 1 /\ Len(s) \in Nat
      /\ \A i \in 1 .. Len(s) + 1 : (s \o <<u>>)[i] = IF i <= Len(s) THEN s[i] ELSE u
  OBVIOUS
<1> HIDE DEF Range
<1>2. ASSUME NEW i \in DOMAIN (s \o <<u>>) PROVE (s \o <<u>>)[i] \in Range(s) \cup {u}
  BY <1>1 DEF Range
<1> QED
  BY <1>1, <1>2 DEF Range

LEMMA ConfirmedKeys ==
  ASSUME TypeOK, NEW p \in Passes
  PROVE  /\ Keys(p) \subseteq Key
         /\ ChunkKeysBeside(at[p].key, at[p].plan) \subseteq Key
<1>1. at[p].key \in Key /\ at[p].plan \in Seq(PlanParts)
  BY DEF TypeOK, Locals
<1>2. at[p].key.project \in Projects
  BY <1>1 DEF Key
<1>3. \A c \in Range(at[p].plan) : c.seq \in Nat /\ c.text \in Seq(Nat)
  BY <1>1, RangeIn DEF PlanParts, Texts
<1>4. \A c \in Range(at[p].plan) : ChunkKey(at[p].key.project, c.seq, c.text) \in Key
  BY <1>2, <1>3 DEF ChunkKey, Key
<1> QED
  BY <1>1, <1>4 DEF Keys, ChunkKeysBeside

LEMMA QueueType ==
  ASSUME TypeOK, NEW entries \in SUBSET pending
  PROVE  /\ Queue(orphans, entries) \in [DOMAIN Queue(orphans, entries) -> SUBSET Passes]
         /\ DOMAIN Queue(orphans, entries) = DOMAIN orphans \cup {e.key : e \in entries}
         /\ DOMAIN Queue(orphans, entries) \subseteq Key
         /\ \A k \in DOMAIN Queue(orphans, entries) :
              Queue(orphans, entries)[k] =
                (IF k \in DOMAIN orphans THEN orphans[k] ELSE {})
                  \cup {e.pass : e \in {e \in entries : e.key = k}}
<1>1. \A e \in entries : e.key \in Key /\ e.pass \in Passes
  BY DEF TypeOK, Entry
<1>2. \A k \in DOMAIN orphans : orphans[k] \subseteq Passes
  BY DEF TypeOK
<1> QED
  BY <1>1, <1>2 DEF TypeOK, Queue

LEMMA GiveUpType ==
  ASSUME TypeOK, NEW p \in Passes, GiveUp(p)
  PROVE  /\ pending' \subseteq Entry
         /\ orphans' \in [DOMAIN orphans' -> SUBSET Passes] /\ DOMAIN orphans' \subseteq Key
BY QueueType DEF GiveUp, OfPass, TypeOK

LEMMA SignType ==
  ASSUME TypeOK, NEW p \in Passes, NEW keys \in SUBSET Key, Sign(p, keys)
  PROVE  /\ pending' \subseteq Entry
         /\ orphans' \in [DOMAIN orphans' -> SUBSET Passes] /\ DOMAIN orphans' \subseteq Key
         /\ DOMAIN orphans' = DOMAIN orphans \ keys
         /\ \A k \in DOMAIN orphans' : orphans'[k] = orphans[k]
BY DEF Sign, TypeOK, Entry, Restrict

\* What a piece of the file is, as one upload reads it.
LEMMA BytesType ==
  ASSUME TypeOK, NEW u \in Uploads
  PROVE  Bytes(u) \in Seq(Nat)
<1> DEFINE hi == IF u.to > Len(file) THEN Len(file) ELSE u.to
<1>1. u.from + 1 \in Int /\ hi \in Int /\ \A x \in u.from + 1 .. hi : file[x] \in Nat
  BY DEF Uploads, TypeOK
<1> QED
  BY <1>1, SubSeqProperties DEF Bytes

LEMMA LandsType ==
  ASSUME TypeOK, NEW k \in Key, NEW text \in Seq(Nat), NEW same, Lands(k, text, same)
  PROVE  /\ bucket' \in [DOMAIN bucket' -> Seq(Nat)] /\ DOMAIN bucket' \subseteq Key
         /\ DOMAIN bucket' = DOMAIN bucket \cup {k}
         /\ bucket'[k] = text /\ \A j \in DOMAIN bucket \ {k} : bucket'[j] = bucket[j]
BY DEF Lands, Stored, TypeOK

-----------------------------------------------------------------------------

LEMMA ScanType == ASSUME Types, NEW p \in Passes, Scan(p) PROVE Types'
<1>1. CASE Ends(p)
  BY <1>1, EndsType DEF Types, TypeOK, Scan, machine, facts, recorded, ledger, history
<1>2. CASE at' = [at EXCEPT ![p].pc = "ask", ![p].scan = file] /\ at[p].pc = "idle"
  <2> DEFINE me == [at[p] EXCEPT !.pc = "ask", !.scan = file]
  <2>1. at[p] \in Locals /\ Planned(at[p]) /\ at' = [at EXCEPT ![p] = me]
    BY <1>2 DEF Types, TypeOK
  <2>2. me \in Locals
    BY <2>1 DEF Locals, Types, TypeOK
  <2> QED
    <3>1. Planned(me)
      BY <1>2, <2>1 DEF Planned, Locals
    <3> QED
      BY <2>1, <2>2, <3>1, OneMoves DEF Scan, Types, TypeOK, machine, facts, recorded, ledger, history
<1> QED
  BY <1>1, <1>2 DEF Scan

LEMMA SealedIff == ASSUME TypeOK PROVE Sealed.bytes = 0 <=> Sealed.sha = <<>>
BY DEF Sealed, Nothing, Holds, TypeOK

\* The keys a presign signs.
SignedKeys(p) ==
  CASE at[p].want = "chunked" -> {TailKey(project, Sealed.chunks, <<p, at[p].asked>>)}
    [] at[p].want = "seal" ->
         {TailKey(project, Sealed.chunks + Len(at[p].plan), <<p, at[p].asked>>)}
           \cup {ChunkKey(project, Sealed.chunks + i, at[p].plan[i].text) : i \in DOMAIN at[p].plan}
    [] OTHER -> {WholeKey(project)}

LEMMA SignedKeysType ==
  ASSUME TypeOK, NEW p \in Passes
  PROVE  SignedKeys(p) \subseteq Key
<1>1. /\ Sealed.chunks \in Nat /\ project \in Projects /\ at[p].asked \in Nat
      /\ at[p].plan \in Seq(PlanParts)
      /\ at[p].want \in {"chunked", "seal", "whole"}
  BY SealedType DEF Sealing, TypeOK, Locals
<1>2. \A i \in DOMAIN at[p].plan : at[p].plan[i].text \in Seq(Nat) /\ i \in Nat
  <2>1. \A i \in DOMAIN at[p].plan : at[p].plan[i] \in PlanParts /\ i \in Nat
    BY <1>1
  <2> QED
    BY <2>1 DEF PlanParts, Texts
<1>3. Len(at[p].plan) \in Nat
  BY <1>1
<1>4. CASE at[p].want = "chunked"
  BY <1>1, <1>4, TailKeyType DEF SignedKeys
<1>5. CASE at[p].want = "seal"
  <2>1. TailKey(project, Sealed.chunks + Len(at[p].plan), <<p, at[p].asked>>) \in Key
    BY <1>1, <1>3, TailKeyType, Sealed.chunks + Len(at[p].plan) \in Nat
  <2>2. \A i \in DOMAIN at[p].plan : ChunkKey(project, Sealed.chunks + i, at[p].plan[i].text) \in Key
    BY <1>1, <1>2, ChunkKeyType
  <2> QED
    BY <1>5, <2>1, <2>2 DEF SignedKeys
<1>6. CASE at[p].want = "whole"
  BY <1>1, <1>6, WholeKeyType DEF SignedKeys
<1> QED
  BY <1>1, <1>4, <1>5, <1>6

\* What a presign does to its pass: it asks again, ends, or goes on to its PUTs
\* with keys it was signed.
PresignKinds(p) ==
  \/ Ends(p)
  \/ Again(p) /\ at[p].want = "seal"
  \/ \E me \in Locals :
       /\ at' = [at EXCEPT ![p] = me]
       /\ me.scan = at[p].scan /\ me.cur = at[p].cur /\ me.asked \in {at[p].asked, at[p].asked + 1}
       /\ Planned(me)
       /\ \/ me.pc = "ask" /\ me.puts = at[p].puts
          \/ /\ me.pc = "put" /\ me.puts # <<>> /\ me.want = at[p].want
             /\ {u.key : u \in Range(me.puts)} \subseteq SignedKeys(p)
             /\ me.key \in SignedKeys(p)

LEMMA PresignIs ==
  ASSUME Types, NEW p \in Passes, Presign(p)
  PROVE  /\ at[p].pc = "ask" /\ p \notin lapsed
         /\ \/ Ends(p) /\ UNCHANGED <<ledger, cut>>
            \/ Sign(p, SignedKeys(p)) /\ PresignKinds(p) /\ UNCHANGED settled
<1> DEFINE nonce == <<p, at[p].asked>>
           before == at[p]
<1>0. /\ before \in Locals /\ Planned(before) /\ before.pc = "ask" /\ before.asked \in Nat
      /\ at \in [Passes -> Locals] /\ before.scan \in Seq(Nat) /\ Len(before.scan) \in Nat
      /\ before.sealed \in Sealing /\ before.plan \in Seq(PlanParts) /\ before.puts = <<>>
  BY DEF Presign, Types, TypeOK, Locals, Planned
<1>00. /\ Sealed \in Sealing /\ project \in Projects /\ SignedKeys(p) \subseteq Key
       /\ Sealed.bytes = 0 <=> Sealed.sha = <<>>
  BY SealedType, SealedIff, SignedKeysType DEF Types, TypeOK
<1>1. CASE AskChunked(p, nonce)
  <2> DEFINE plan == PlanFrom(before.scan, Sealed)
             key == TailKey(project, Sealed.chunks, nonce)
             me == [before EXCEPT !.asked = @ + 1, !.sealed = Sealed]
  <2>1. before.want = "chunked" /\ SignedKeys(p) = {key} /\ key \in Key /\ Sign(p, SignedKeys(p))
    BY <1>1, <1>00 DEF AskChunked, SignedKeys
  <2>2. me \in Locals /\ me.pc = "ask" /\ me.sealed = Sealed /\ me.scan = before.scan
    <3>1. before.asked + 1 \in Nat
      BY <1>0
    <3>2. me = [before EXCEPT !.asked = before.asked + 1, !.sealed = Sealed]
      BY <1>0 DEF Locals
    <3> QED
      BY <1>0, <1>00, <3>1, <3>2 DEF Locals
  <2>3. CASE Ends(p)
    BY <2>1, <2>3, <1>0 DEF PresignKinds, Presign
  <2>4. CASE at' = [at EXCEPT ![p] = [me EXCEPT !.want = "whole"]]
    <3>1. [me EXCEPT !.want = "whole"] \in Locals /\ Planned([me EXCEPT !.want = "whole"])
      BY <1>0, <2>2, <1>00 DEF Locals, Planned
    <3> QED
      BY <1>0, <2>1, <2>4, <3>1 DEF PresignKinds, Presign, Locals
  <2>5. CASE plan.fit = "seal" /\ plan.chunks # <<>>
             /\ at' = [at EXCEPT ![p] = [me EXCEPT !.want = "seal", !.plan = plan.chunks]]
    <3> DEFINE now == [me EXCEPT !.want = "seal", !.plan = plan.chunks]
    <3>1. IsPlan(before.scan, Sealed, plan.chunks)
      BY <1>0, <1>00, <2>5, PlanFromIs
    <3>2. now \in Locals /\ now.plan = plan.chunks
      BY <2>2, <3>1 DEF Locals, IsPlan, PlanParts
    <3>3. Planned(now)
      BY <1>0, <2>2, <2>5, <3>1, <1>00 DEF Locals, Planned
    <3> QED
      BY <1>0, <2>1, <2>5, <3>2, <3>3 DEF PresignKinds, Presign, Locals
  <2>6. CASE at' = [at EXCEPT ![p] = [me EXCEPT !.pc = "put", !.key = key, !.plan = <<>>,
                                        !.puts = <<Upload(key, Sealed.bytes, Len(before.scan))>>]]
    <3> DEFINE puts == <<Upload(key, Sealed.bytes, Len(before.scan))>>
               now == [me EXCEPT !.pc = "put", !.key = key, !.plan = <<>>, !.puts = puts]
    <3>1. puts \in Seq(Uploads) /\ puts # <<>> /\ {u.key : u \in Range(puts)} = {key}
      <4>1. Upload(key, Sealed.bytes, Len(before.scan)) \in Uploads
        BY <1>0, <1>00, <2>1 DEF Upload, Uploads, Sealing
      <4>2. Upload(key, Sealed.bytes, Len(before.scan)).key = key
        BY DEF Upload
      <4> QED
        BY <4>1, <4>2, OneUpload
    <3> HIDE DEF puts
    <3>2. now \in Locals
      <4>1. <<>> \in Seq(PlanParts)
        OBVIOUS
      <4> QED
        BY <2>1, <2>2, <3>1, <4>1 DEF Locals
    <3>3. Planned(now) /\ now.want = before.want /\ now.key = key /\ now.puts = puts /\ now.pc = "put"
          /\ now.scan = before.scan /\ now.cur = before.cur /\ now.asked = before.asked + 1
      BY <1>0, <2>1, <2>2, <3>1, <1>00 DEF Locals, Planned
    <3>4. at' = [at EXCEPT ![p] = now]
      BY <2>6 DEF puts
    <3>5. {u.key : u \in Range(now.puts)} = {key}
      BY <3>1, <3>3
    <3> HIDE DEF now, key
    <3> QED
      BY <1>0, <2>1, <3>1, <3>2, <3>3, <3>4, <3>5 DEF PresignKinds, Presign
  <2> QED
    BY <1>1, <2>3, <2>4, <2>5, <2>6 DEF AskChunked
<1>2. CASE AskSeal(p, nonce)
  <2> DEFINE plan == before.plan
             key == TailKey(project, Sealed.chunks + Len(plan), nonce)
             Keyed(i) == ChunkKey(project, Sealed.chunks + i, plan[i].text)
             end == EndOf(before.sealed, plan)
             To(i) == Upload(Keyed(i), plan[i].off, plan[i].off + Len(plan[i].text))
             parts == [i \in DOMAIN plan |-> To(i)]
             puts == parts \o <<Upload(key, end, Len(before.scan))>>
  <2>1. /\ before.want = "seal" /\ SignedKeys(p) = {key} \cup {Keyed(i) : i \in DOMAIN plan}
        /\ Sign(p, SignedKeys(p))
    BY <1>2 DEF AskSeal, SignedKeys
  <2>2. CASE Again(p)
    BY <2>1, <2>2, <1>0 DEF PresignKinds, Presign
  <2>3. CASE /\ Sealed = before.sealed
             /\ at' = [at EXCEPT ![p].pc = "put", ![p].asked = @ + 1, ![p].key = key,
                                 ![p].puts = puts]
    <3>1. \A i \in DOMAIN plan : /\ plan[i].off \in Nat /\ Len(plan[i].text) \in Nat
                                /\ To(i) \in Uploads /\ To(i).key = Keyed(i)
      <4> TAKE i \in DOMAIN plan
      <4>1. plan[i] \in PlanParts
        BY <1>0
      <4>2. plan[i].off \in Nat /\ plan[i].text \in Seq(Nat)
        BY <4>1 DEF PlanParts, Texts
      <4>3. plan[i].off + Len(plan[i].text) \in Nat
        BY <4>2
      <4>4. Keyed(i) \in Key
        BY <1>00, <2>1
      <4> QED
        BY <4>2, <4>3, <4>4 DEF Upload, Uploads
    <3>2. end \in Nat
      <4>1. CASE plan = <<>>
        BY <4>1, <1>0 DEF EndOf, Sealing
      <4>2. CASE plan # <<>>
        <5>1. Len(plan) \in DOMAIN plan
          BY <1>0, <4>2
        <5> QED
          BY <5>1, <4>2, <3>1 DEF EndOf
      <4> QED
        BY <4>1, <4>2
    <3>3. Upload(key, end, Len(before.scan)) \in Uploads /\ Upload(key, end, Len(before.scan)).key = key
      BY <1>0, <1>00, <2>1, <3>2 DEF Upload, Uploads
    <3>4. parts \in Seq(Uploads) /\ {u.key : u \in Range(parts)} \subseteq {Keyed(i) : i \in DOMAIN plan}
      BY <1>0, <3>1 DEF Range
    <3>5. /\ puts \in Seq(Uploads) /\ puts # <<>>
          /\ Range(puts) \subseteq Range(parts) \cup {Upload(key, end, Len(before.scan))}
      <4> DEFINE whole == Upload(key, end, Len(before.scan))
      <4>1. parts \in Seq(Uploads) /\ whole \in Uploads
        BY <3>3, <3>4
      <4> HIDE DEF parts, whole
      <4>2. parts \o <<whole>> \in Seq(Uploads) /\ parts \o <<whole>> # <<>>
            /\ Range(parts \o <<whole>>) \subseteq Range(parts) \cup {whole}
        BY <4>1, OneMore
      <4>3. puts = parts \o <<whole>>
        BY DEF whole
      <4> QED
        BY <4>2, <4>3 DEF whole
    <3> HIDE DEF parts, end, To
    <3> DEFINE now == [before EXCEPT !.pc = "put", !.asked = before.asked + 1, !.key = key, !.puts = puts]
    <3>6. {u.key : u \in Range(puts)} \subseteq SignedKeys(p)
      BY <2>1, <3>3, <3>4, <3>5
    <3> HIDE DEF puts, Keyed
    <3>7. before.asked + 1 \in Nat /\ key \in Key
      <4>1. before.asked + 1 \in Nat
        BY <1>0
      <4>2. key \in Key
        BY <1>00, <2>1
      <4> QED
        BY <4>1, <4>2
    <3>8. now \in Locals
      BY <1>0, <3>5, <3>7 DEF Locals
    <3>9. at' = [at EXCEPT ![p] = now]
      BY <1>0, <2>3
    <3>10. Planned(now) /\ now.want = before.want /\ now.key = key /\ now.puts = puts /\ now.pc = "put"
          /\ now.scan = before.scan /\ now.cur = before.cur /\ now.asked = before.asked + 1
      BY <1>0, <2>1, <3>5 DEF Locals, Planned
    <3> HIDE DEF now, key
    <3> QED
      BY <1>0, <2>1, <3>5, <3>6, <3>8, <3>9, <3>10 DEF PresignKinds, Presign
  <2> QED
    BY <1>2, <2>2, <2>3 DEF AskSeal
<1>3. CASE AskWhole(p)
  <2> DEFINE key == WholeKey(project)
             puts == <<Upload(key, 0, Len(before.scan))>>
             now == [before EXCEPT !.pc = "put", !.key = key, !.plan = <<>>, !.puts = puts]
  <2>1. before.want = "whole" /\ SignedKeys(p) = {key} /\ key \in Key /\ Sign(p, SignedKeys(p))
    BY <1>3, <1>00 DEF AskWhole, SignedKeys
  <2>2. puts \in Seq(Uploads) /\ puts # <<>> /\ {u.key : u \in Range(puts)} = {key}
    <3>1. Upload(key, 0, Len(before.scan)) \in Uploads /\ Upload(key, 0, Len(before.scan)).key = key
      BY <1>0, <2>1 DEF Upload, Uploads
    <3> QED
      BY <3>1, OneUpload
  <2>3. at' = [at EXCEPT ![p] = now]
    BY <1>0, <1>3 DEF AskWhole
  <2> HIDE DEF puts
  <2>4. now \in Locals
    <3>1. <<>> \in Seq(PlanParts)
      OBVIOUS
    <3> QED
      BY <1>0, <2>1, <2>2, <3>1 DEF Locals
  <2>5. Planned(now) /\ now.want = before.want /\ now.key = key /\ now.puts = puts /\ now.pc = "put"
        /\ now.scan = before.scan /\ now.cur = before.cur /\ now.asked = before.asked
    BY <1>0, <2>1, <2>2 DEF Locals, Planned
  <2> HIDE DEF now, key
  <2> QED
    BY <1>0, <2>1, <2>2, <2>3, <2>4, <2>5 DEF PresignKinds, Presign
<1>4. CASE Decision(before.scan) # "allowed" /\ Ends(p) /\ UNCHANGED <<ledger, cut>>
  BY <1>0, <1>4 DEF Presign
<1>5. UNCHANGED settled \/ Decision(before.scan) # "allowed"
  BY DEF Presign
<1> QED
  BY <1>1, <1>2, <1>3, <1>4, <1>5 DEF Presign

LEMMA PresignType == ASSUME Types, NEW p \in Passes, Presign(p) PROVE Types'
<1>1. at' \in [Passes -> Locals] /\ \A q \in Passes : Planned(at'[q])
  <2>1. CASE Ends(p)
    BY <2>1, EndsType
  <2>2. CASE Again(p)
    BY <2>2, PresignIs, AgainType
  <2> QED
    BY <2>1, <2>2, PresignIs, OneMoves DEF PresignKinds
<1>2. /\ pending' \subseteq Entry
      /\ orphans' \in [DOMAIN orphans' -> SUBSET Passes] /\ DOMAIN orphans' \subseteq Key
  BY PresignIs, SignType, SignedKeysType DEF Types, TypeOK, ledger
<1>3. settled' \in Seq(Nat)
  BY DEF Presign, Types, TypeOK, Locals, AskChunked, AskSeal, AskWhole
<1> QED
  BY <1>1, <1>2, <1>3 DEF Presign, Types, TypeOK, facts, recorded

LEMMA PutType == ASSUME Types, NEW p \in Passes, Put(p) PROVE Types'
<1> DEFINE u == Head(at[p].puts)
           pc == IF Tail(at[p].puts) = <<>> THEN "confirm" ELSE "put"
           me == [at[p] EXCEPT !.puts = Tail(at[p].puts), !.pc = pc]
<1>1. at[p] \in Locals /\ at[p].puts \in Seq(Uploads) /\ at[p].puts # <<>> /\ at[p].pc = "put"
  BY DEF Types, TypeOK, Locals, Put, Planned
<1>2. u \in Uploads /\ Tail(at[p].puts) \in Seq(Uploads)
  BY <1>1, HeadTailProperties
<1>3. me \in Locals
  BY <1>1, <1>2 DEF Locals
<1>4. at' = [at EXCEPT ![p] = me]
  BY DEF Put, Types, TypeOK
<1>5. at' \in [Passes -> Locals] /\ \A q \in Passes : Planned(at'[q])
  <2>1. /\ me.pc = pc /\ me.puts = Tail(at[p].puts) /\ me.plan = at[p].plan /\ me.want = at[p].want
        /\ me.scan = at[p].scan /\ me.sealed = at[p].sealed
    BY <1>1 DEF Locals
  <2> HIDE DEF me
  <2> QED
    BY <1>1, <1>3, <1>4, <2>1, GoesOnType
<1>6. u.key \in Key /\ Bytes(u) \in Seq(Nat)
  BY <1>2, BytesType DEF Uploads, Types
<1>7. bucket' \in [DOMAIN bucket' -> Seq(Nat)] /\ DOMAIN bucket' \subseteq Key
  BY <1>6, LandsType DEF Put, Types
<1> QED
  BY <1>5, <1>7 DEF Put, Types, TypeOK, machine, facts, recorded, ledger

LEMMA PutFailsType == ASSUME Types, NEW p \in Passes, PutFails(p) PROVE Types'
<1> DEFINE u == Head(at[p].puts)
<1>1. at[p].puts \in Seq(Uploads) /\ at[p].puts # <<>>
  BY DEF Types, TypeOK, Locals, PutFails, Planned
<1>2. u \in Uploads
  BY <1>1, HeadTailProperties
<1>3. u.key \in Key /\ Bytes(u) \in Seq(Nat)
  BY <1>2, BytesType DEF Uploads, Types
<1>4. [key |-> u.key, pass |-> p, text |-> Bytes(u), same |-> Same(p, u)] \in LatePuts
  <2>1. Same(p, u) \in BOOLEAN
    BY DEF Same
  <2> QED
    BY <1>3, <2>1 DEF LatePuts
<1>5. late' \subseteq LatePuts /\ events' \in Nat
  BY <1>4 DEF PutFails, Types, TypeOK, Counted
<1> QED
  BY <1>5, EndsType DEF PutFails, Types, TypeOK, machine, facts, recorded, ledger

LEMMA PutLateType == ASSUME Types, NEW u \in late, PutLate(u) PROVE Types'
<1>1. u.key \in Key /\ u.text \in Seq(Nat)
  BY DEF Types, TypeOK, LatePuts
<1>2. bucket' \in [DOMAIN bucket' -> Seq(Nat)] /\ DOMAIN bucket' \subseteq Key
  BY <1>1, LandsType DEF PutLate, Types
<1> QED
  BY <1>2 DEF PutLate, Types, TypeOK, machine, facts, recorded, ledger

LEMMA KillType == ASSUME Types, NEW p \in Passes, Kill(p) PROVE Types'
<1>1. events' \in Nat
  BY DEF Kill, Counted, Types, TypeOK
<1> QED
  BY <1>1, EndsType DEF Kill, Types, TypeOK, machine, facts, recorded, ledger

LEMMA DecideType == ASSUME Types, NEW p \in Passes, Decide(p) PROVE Types'
<1>1. CASE GiveUp(p) /\ settled' \in {settled, at[p].scan} /\ (Ends(p) \/ Again(p))
  <2>1. at' \in [Passes -> Locals] /\ \A q \in Passes : Planned(at'[q])
    BY <1>1, EndsType, AgainType DEF Decide
  <2>2. settled' \in Seq(Nat)
    BY <1>1 DEF Types, TypeOK, Locals
  <2> QED
    BY <1>1, <2>1, <2>2, GiveUpType DEF Decide, Types, TypeOK, facts, recorded
<1>2. CASE /\ InPlace(p) /\ FollowsOn(Sealed, at[p].plan) /\ UNCHANGED <<settled, ledger>>
           /\ at' = [at EXCEPT ![p].pc = "heads", ![p].sealed = Sealed]
  <2> DEFINE me == [at[p] EXCEPT !.pc = "heads", !.sealed = Sealed]
  <2>1. at[p] \in Locals /\ Planned(at[p]) /\ at[p].pc = "confirm" /\ at[p].puts = <<>>
        /\ at[p].scan \in Seq(Nat) /\ at[p].sealed \in Sealing
    BY DEF Types, TypeOK, Decide, Planned, Locals
  <2>2. Sealed \in Sealing /\ (Sealed.bytes = 0 <=> Sealed.sha = <<>>)
    BY SealedType, SealedIff DEF Types
  <2>3. me \in Locals
    BY <2>1, <2>2 DEF Locals
  <2>4. ASSUME at[p].want = "seal" PROVE IsPlan(at[p].scan, Sealed, at[p].plan)
    <3>1. IsPlan(at[p].scan, at[p].sealed, at[p].plan) /\ at[p].plan # <<>>
      BY <2>1, <2>4 DEF Planned
    <3> QED
      BY <1>2, <2>1, <2>2, <3>1, SamePlan
  <2>5. /\ me.pc = "heads" /\ me.sealed = Sealed /\ me.want = at[p].want /\ me.plan = at[p].plan
        /\ me.scan = at[p].scan /\ me.puts = at[p].puts
    BY <2>1 DEF Locals
  <2>6. at' = [at EXCEPT ![p] = me]
    BY <1>2 DEF Types, TypeOK
  <2> HIDE DEF me
  <2>7. Planned(me)
    BY <2>1, <2>2, <2>4, <2>5 DEF Planned
  <2> QED
    BY <1>2, <2>3, <2>7, <2>6, OneMoves DEF Decide, Types, TypeOK, facts, recorded, ledger
<1> QED
  BY <1>1, <1>2 DEF Decide

LEMMA HeadsType == ASSUME Types, NEW p \in Passes, Heads(p) PROVE Types'
<1>1. CASE GiveUp(p) /\ Ends(p)
  BY <1>1, EndsType, GiveUpType DEF Heads, Types, TypeOK, machine, facts, recorded
<1>2. CASE /\ Keys(p) \subseteq DOMAIN bucket /\ UNCHANGED ledger
           /\ at' = [at EXCEPT ![p].pc = "lock", ![p].tail = Len(bucket[at[p].key])]
  <2> DEFINE me == [at[p] EXCEPT !.pc = "lock", !.tail = Len(bucket[at[p].key])]
  <2>1. at[p] \in Locals /\ Planned(at[p]) /\ at[p].pc = "heads" /\ at[p].puts = <<>>
    BY DEF Types, TypeOK, Heads, Planned, Locals
  <2>2. Len(bucket[at[p].key]) \in Nat
    <3>1. bucket[at[p].key] \in Seq(Nat)
      BY <1>2 DEF Keys, Types, TypeOK
    <3> QED
      BY <3>1
  <2>3. me \in Locals
    BY <2>1, <2>2 DEF Locals
  <2>4. /\ me.pc = "lock" /\ me.puts = at[p].puts /\ me.plan = at[p].plan /\ me.want = at[p].want
        /\ me.scan = at[p].scan /\ me.sealed = at[p].sealed
    BY <2>1 DEF Locals
  <2>5. at' = [at EXCEPT ![p] = me]
    BY <1>2 DEF Types, TypeOK
  <2> HIDE DEF me
  <2>6. at' \in [Passes -> Locals] /\ \A q \in Passes : Planned(at'[q])
    BY <2>1, <2>3, <2>4, <2>5, GoesOnType
  <2> QED
    BY <1>2, <2>6 DEF Heads, Types, TypeOK, machine, facts, recorded, ledger
<1> QED
  BY <1>1, <1>2 DEF Heads

LEMMA LockType == ASSUME Types, NEW p \in Passes, Lock(p) PROVE Types'
<1>1. CASE GiveUp(p) /\ Again(p)
  BY <1>1, AgainType, GiveUpType DEF Lock, Types, TypeOK, machine, facts, recorded
<1>2. CASE at' = [at EXCEPT ![p].pc = "write", ![p].cur = row] /\ UNCHANGED ledger
  <2> DEFINE me == [at[p] EXCEPT !.pc = "write", !.cur = row]
  <2>1. at[p] \in Locals /\ Planned(at[p]) /\ at[p].pc = "lock" /\ at[p].puts = <<>>
        /\ row \in Row \cup {NoRow}
    BY DEF Types, TypeOK, Lock, Planned, Locals
  <2>3. me \in Locals
    BY <2>1 DEF Locals
  <2>4. /\ me.pc = "write" /\ me.puts = at[p].puts /\ me.plan = at[p].plan /\ me.want = at[p].want
        /\ me.scan = at[p].scan /\ me.sealed = at[p].sealed
    BY <2>1 DEF Locals
  <2>5. at' = [at EXCEPT ![p] = me]
    BY <1>2 DEF Types, TypeOK
  <2> HIDE DEF me
  <2>6. at' \in [Passes -> Locals] /\ \A q \in Passes : Planned(at'[q])
    BY <2>1, <2>3, <2>4, <2>5, GoesOnType
  <2> QED
    BY <1>2, <2>6 DEF Lock, Types, TypeOK, machine, facts, recorded, ledger
<1> QED
  BY <1>1, <1>2 DEF Lock

\* Where the chunks of a plan end.
LEMMA PlanEnds ==
  ASSUME NEW text \in Seq(Nat), NEW s \in Sealing, NEW plan \in Seq(PlanParts), plan # <<>>,
         IsPlan(text, s, plan)
  PROVE  /\ EndOf(s, plan) = s.bytes + Lines(Len(plan))
         /\ EndOf(s, plan) \in Nat \ {0}
         /\ EndOf(s, plan) <= Len(text)
<1> DEFINE n == Len(plan)
<1>1. n \in Nat \ {0} /\ n \in 1 .. Len(plan)
  OBVIOUS
<1>2. \A i \in 1 .. Len(plan) : /\ Offset(s.bytes, i) + ChunkLines <= Len(text)
                                /\ plan[i].off = Offset(s.bytes, i)
                                /\ Len(plan[i].text) = ChunkLines
  BY DEF IsPlan
<1>3. EndOf(s, plan) = Offset(s.bytes, n) + ChunkLines /\ EndOf(s, plan) <= Len(text)
  BY <1>1, <1>2 DEF EndOf
<1>4. Offset(s.bytes, n) = s.bytes + Lines(n - 1) /\ Lines(n - 1) \in Nat /\ Lines(n) = Lines(n - 1) + ChunkLines
  BY <1>1, LinesStep DEF Offset
<1>5. s.bytes \in Nat /\ ChunkLines \in Nat \ {0}
  BY ConstantsAssumption DEF Sealing
<1> HIDE DEF n
<1>6. EndOf(s, plan) = s.bytes + Lines(n) /\ EndOf(s, plan) \in Nat \ {0}
  BY <1>3, <1>4, <1>5
<1> QED
  BY <1>3, <1>6 DEF n

\* What a confirm adds to the rows, and takes out.
Replaced(p) == ((IF Keeps(p) THEN {} ELSE ChunkKeys)
                  \cup (IF at[p].cur = NoRow THEN {} ELSE {at[p].cur.key})) \ Keys(p)
Mine(p) == {e \in pending : e.pass = p}
Unused(p) == {e \in Mine(p) : e.key \notin Keys(p)}
NewChunks(p) == {[seq |-> c.seq, off |-> c.off, text |-> c.text,
                  key |-> ChunkKey(at[p].key.project, c.seq, c.text)] : c \in Range(at[p].plan)}

Recorded(p) ==
  LET queued == Queue(orphans, Unused(p))
      left == DOMAIN queued \ Keys(p) IN
  /\ {e.key : e \in OfPass(p, Keys(p))} = Keys(p)
  /\ row' = NewRow(p)
  /\ chunks' = (IF Keeps(p) THEN chunks ELSE {}) \cup NewChunks(p)
  /\ pending' = pending \ Mine(p)
  /\ orphans' = [k \in left \cup Replaced(p) |-> IF k \in left THEN queued[k] ELSE {}]
  /\ settled' = at[p].scan
  /\ cut' = cut \cup Unwaited(Keys(p))
  /\ Ends(p)

LEMMA WriteIs ==
  ASSUME NEW p, Write(p)
  PROVE  /\ at[p].pc = "write"
         /\ ~(del.row /\ row # NoRow)
         /\ Mine(p) \cap del.pend = {}
         /\ Keys(p) \cap del.orph \cap DOMAIN orphans = {}
         /\ (Replaced(p) \cup {e.key : e \in Unused(p)}) \cap Held = {}
         /\ \/ Recorded(p)
            \/ GiveUp(p) /\ Ends(p) /\ UNCHANGED <<settled, recorded, cut>>
         /\ UNCHANGED <<file, facts, bucket, lapsed, late, del, lost, mixed, events>>
BY DEF Write, Recorded, Replaced, Mine, Unused, NewChunks

\* Where the chunks of the row that p writes end.
NewSealed(p) == IF Chunked(p) THEN EndOf(at[p].sealed, at[p].plan) ELSE 0

LEMMA NewRowType ==
  ASSUME Types, NEW p \in Passes, at[p].pc = "write"
  PROVE  /\ NewRow(p) \in Row /\ NewRow(p).project = NewRow(p).key.project
         /\ NewRow(p).sealed = 0 <=> NewRow(p).sealedSha = <<>>
         /\ NewSealed(p) \in Nat /\ NewRow(p).sealed = NewSealed(p) /\ NewRow(p).key = at[p].key
         /\ NewRow(p).size = NewSealed(p) + at[p].tail
<1> DEFINE me == at[p]
           sealed == NewSealed(p)
           sha == IF me.plan = <<>> /\ Chunked(p) THEN me.sealed.sha ELSE SubSeq(me.scan, 1, sealed)
           old == row # NoRow /\ row.old
           since == IF row = NoRow THEN {q \in Passes : at[q].pc # "idle"} ELSE row.since
           size == sealed + me.tail
           j == me.key.project
           spliced == Splices(p)
<1>1. /\ me \in Locals /\ me.scan \in Seq(Nat) /\ me.sealed \in Sealing /\ me.plan \in Seq(PlanParts)
      /\ me.tail \in Nat /\ me.key \in Key /\ Planned(me) /\ me.want \in {"chunked", "seal", "whole"}
  BY DEF Types, TypeOK, Locals
<1>2. me.sealed.sha \in Seq(Nat) /\ me.sealed.bytes \in Nat /\ me.key.project \in Projects
  BY <1>1 DEF Sealing, Key
<1>3. sealed \in Nat /\ sha \in Seq(Nat) /\ (sealed = 0 <=> sha = <<>>)
  <2>1. CASE ~Chunked(p)
    <3>1. sealed = 0 /\ sha = SubSeq(me.scan, 1, 0)
      BY <2>1 DEF NewSealed
    <3>2. sha = <<>>
      BY <3>1, SubSeqEmpty, SubSeq(me.scan, 1, 0) = <<>>
    <3> QED
      BY <3>1, <3>2
  <2>2. CASE Chunked(p) /\ me.plan = <<>>
    <3>1. sealed = me.sealed.bytes /\ sha = me.sealed.sha
      BY <2>2 DEF NewSealed, EndOf
    <3> QED
      BY <1>1, <1>2, <3>1 DEF Planned
  <2>3. CASE Chunked(p) /\ me.plan # <<>>
    <3>1. IsPlan(me.scan, me.sealed, me.plan)
      BY <1>1, <2>3 DEF Planned, Chunked
    <3>2. sealed \in Nat \ {0} /\ sealed <= Len(me.scan) /\ sha = SubSeq(me.scan, 0 + 1, 0 + sealed)
      BY <1>1, <2>3, <3>1, PlanEnds DEF NewSealed
    <3>3. sha \in Seq(Nat) /\ Len(sha) = sealed
      <4> HIDE DEF sealed, sha
      <4>1. 0 + sealed = sealed /\ sealed \in Nat /\ 0 \in Nat /\ 0 + sealed <= Len(me.scan)
        BY <3>2
      <4> QED
        BY <1>1, <3>2, <4>1, Piece
    <3> QED
      BY <3>2, <3>3
  <2> QED
    BY <2>1, <2>2, <2>3
<1>4. old \in BOOLEAN /\ since \in SUBSET Passes /\ spliced \in BOOLEAN /\ size \in Nat
  <2>1. row # NoRow => row.since \in SUBSET Passes
    BY DEF Types, TypeOK, Row
  <2>2. spliced \in BOOLEAN
    BY DEF Splices
  <2> QED
    BY <1>1, <1>3, <2>1, <2>2
<1>5. NewRow(p) = [project |-> j, key |-> me.key, sha |-> me.scan, size |-> size, sealed |-> sealed,
                   sealedSha |-> sha, old |-> old, since |-> since, spliced |-> spliced]
  BY DEF NewRow, NewSealed
<1> HIDE DEF sealed, sha, old, since, spliced, size, j
<1>6. NewRow(p) \in Row
  <2>1. j \in Projects
    BY <1>2 DEF j
  <2> QED
    BY <1>1, <1>3, <1>4, <1>5, <2>1 DEF Row
<1>7. NewRow(p).sealed = sealed /\ NewRow(p).sealedSha = sha /\ NewRow(p).key = me.key
      /\ NewRow(p).project = j /\ NewRow(p).size = size
  BY <1>5
<1> QED
  BY <1>3, <1>6, <1>7 DEF sealed, size, j

LEMMA NewChunksType ==
  ASSUME Types, NEW p \in Passes
  PROVE  NewChunks(p) \subseteq ChunkRows /\ IsFiniteSet(NewChunks(p))
<1> DEFINE plan == at[p].plan
           New(c) == [seq |-> c.seq, off |-> c.off, text |-> c.text,
                      key |-> ChunkKey(at[p].key.project, c.seq, c.text)]
<1>1. plan \in Seq(PlanParts) /\ at[p].key.project \in Projects
  BY DEF Types, TypeOK, Locals, Key
<1>2. ASSUME NEW c \in Range(plan) PROVE New(c) \in ChunkRows
  <2>1. c \in PlanParts
    BY <1>1, RangeIn
  <2>2. ChunkKey(at[p].key.project, c.seq, c.text) \in Key
    BY <1>1, <2>1, ChunkKeyType DEF PlanParts, Texts
  <2> QED
    BY <2>1, <2>2 DEF PlanParts, ChunkRows
<1>3. IsFiniteSet(DOMAIN plan)
  <2>1. DOMAIN plan = 1 .. Len(plan) /\ Len(plan) \in Nat
    BY <1>1
  <2> QED
    BY <2>1, FS_Interval
<1>4. NewChunks(p) = {New(plan[i]) : i \in DOMAIN plan}
  BY DEF NewChunks, Range
<1>5. IsFiniteSet(NewChunks(p))
  <2> DEFINE f == [i \in DOMAIN plan |-> New(plan[i])]
  <2>1. f \in Surjection(DOMAIN plan, NewChunks(p))
    BY <1>4 DEF Surjection
  <2> QED
    BY <1>3, <2>1, FS_Surjection
<1> QED
  BY <1>2, <1>5 DEF NewChunks

LEMMA WriteType == ASSUME Types, NEW p \in Passes, Write(p) PROVE Types'
<1>1. at[p].pc = "write"
  BY WriteIs
<1>2. CASE Recorded(p)
  <2>1. row' \in Row /\ row' # NoRow /\ row'.project = row'.key.project
        /\ (row'.sealed = 0 <=> row'.sealedSha = <<>>)
    BY <1>1, <1>2, NewRowType, NoRowAssumption DEF Recorded
  <2>2. chunks' \subseteq ChunkRows /\ IsFiniteSet(chunks')
    <3>1. chunks \subseteq ChunkRows /\ IsFiniteSet(chunks)
      BY DEF Types, TypeOK
    <3>2. IsFiniteSet({})
      BY FS_EmptySet
    <3> QED
      BY <1>2, <3>1, <3>2, NewChunksType, FS_Union DEF Recorded
  <2>3. at' \in [Passes -> Locals] /\ \A q \in Passes : Planned(at'[q])
    BY <1>2, EndsType DEF Recorded
  <2>4. orphans' \in [DOMAIN orphans' -> SUBSET Passes] /\ DOMAIN orphans' \subseteq Key
    <3>1. Unused(p) \in SUBSET pending
      BY DEF Unused, Mine
    <3>2. Replaced(p) \subseteq Key
      BY DEF Replaced, ChunkKeys, Types, TypeOK, ChunkRows, Locals, Row
    <3> QED
      BY <1>2, <3>1, <3>2, QueueType DEF Recorded, Types
  <2>5. settled' \in Seq(Nat)
    BY <1>2 DEF Recorded, Types, TypeOK, Locals
  <2>6. pending' \subseteq Entry
    BY <1>2 DEF Recorded, Types, TypeOK
  <2>7. UNCHANGED <<file, facts, bucket, lapsed, late, del, lost, mixed, events>>
    BY WriteIs
  <2> QED
    BY <2>1, <2>2, <2>3, <2>4, <2>5, <2>6, <2>7 DEF Types, TypeOK, facts
<1>3. CASE GiveUp(p) /\ Ends(p) /\ UNCHANGED <<settled, recorded, cut>>
  <2>1. UNCHANGED <<file, facts, bucket, lapsed, late, del, lost, mixed, events>>
    BY WriteIs
  <2> QED
    BY <1>3, <2>1, EndsType, GiveUpType DEF Types, TypeOK, facts, recorded
<1> QED
  BY <1>2, <1>3, WriteIs

LEMMA NamedType == ASSUME TypeOK PROVE Named \subseteq Key
BY DEF Named, ChunkKeys, TypeOK, ChunkRows, Row

\* What the deletions have taken is of the ledger and of the rows.
LEMMA DeletingType ==
  ASSUME Types, SweepTake \/ DeleteTake \/ EmptyBucket \/ DeleteCommits \/ DeleteFails
  PROVE  del' \in Deleting
<1>0. /\ Named \subseteq Key /\ RowKeys \subseteq Key /\ pending \subseteq Entry
      /\ DOMAIN orphans \subseteq Key /\ lapsed \subseteq Passes /\ del \in Deleting
      /\ \A e \in pending : e.key \in Key
  BY NamedType DEF RowKeys, Types, TypeOK, Entry
<1>1. CASE SweepTake
  <2> DEFINE expired == row # NoRow /\ row.old
             named == IF expired THEN {} ELSE Named
             gone == {e \in pending : \E o \in pending : o.key = e.key /\ o.pass \in lapsed}
             queue == [k \in DOMAIN orphans \cup {e.key : e \in gone} |->
                         IF k \in DOMAIN orphans THEN orphans[k] ELSE {}]
             dead == {k \in DOMAIN queue : /\ k \notin named
                                           /\ k \notin {e.key : e \in pending \ gone}
                                           /\ queue[k] \subseteq lapsed}
             keys == dead \cup (IF expired THEN RowKeys ELSE {})
             cuts == {e.key : e \in {e \in gone : e.pass \notin lapsed}}
  <2>1. expired \in BOOLEAN
    BY DEF Types, TypeOK, Row
  <2>2. gone \in SUBSET Entry /\ dead \in SUBSET Key /\ keys \in SUBSET Key /\ cuts \in SUBSET Key
    BY <1>0
  <2>3. del' = [phase |-> "taken", row |-> expired, pend |-> gone, orph |-> dead, keys |-> keys,
                cut |-> cuts, known |-> dead \cap DOMAIN orphans, waits |-> FALSE]
    BY <1>1 DEF SweepTake
  <2> HIDE DEF expired, gone, dead, keys, cuts
  <2> QED
    BY <2>1, <2>2, <2>3 DEF Deleting
<1>2. CASE DeleteTake
  BY <1>0, <1>2 DEF DeleteTake, Deleting
<1>3. CASE EmptyBucket
  BY <1>0, <1>3 DEF EmptyBucket, Deleting
<1>4. CASE DeleteCommits \/ DeleteFails
  <2>1. Quiet \in Deleting
    BY DEF Quiet, Deleting
  <2>2. del' = Quiet
    BY <1>4 DEF DeleteCommits, DeleteFails
  <2> QED
    BY <2>1, <2>2
<1> QED
  BY <1>1, <1>2, <1>3, <1>4

LEMMA DeletionType == ASSUME Types, Deletion PROVE Types'
<1>0. del' \in Deleting
  BY DeletingType DEF Deletion
<1>1. CASE SweepTake \/ DeleteTake
  BY <1>0, <1>1 DEF SweepTake, DeleteTake, Counted, Types, TypeOK, machine, facts, recorded, ledger
<1>2. CASE EmptyBucket \/ DeleteFails
  <2>1. bucket' \in [DOMAIN bucket' -> Seq(Nat)] /\ DOMAIN bucket' \subseteq Key
    BY <1>2 DEF EmptyBucket, DeleteFails, Restrict, Types, TypeOK
  <2>2. events' \in Nat
    BY <1>2 DEF EmptyBucket, DeleteFails, Counted, Types, TypeOK
  <2> QED
    BY <1>0, <1>2, <2>1, <2>2 DEF EmptyBucket, DeleteFails, Types, TypeOK, machine, facts, recorded, ledger
<1>3. CASE DeleteCommits
  <2>1. orphans' \in [DOMAIN orphans' -> SUBSET Passes] /\ DOMAIN orphans' \subseteq Key
    <3>1. pending \cap del.pend \in SUBSET pending
      OBVIOUS
    <3> DEFINE entries == pending \cap del.pend
               queue == Queue(orphans, entries)
    <3> HIDE DEF entries
    <3>2. queue \in [DOMAIN queue -> SUBSET Passes] /\ DOMAIN queue \subseteq Key
      BY <3>1, QueueType DEF Types, entries
    <3> HIDE DEF queue
    <3>3. orphans' = [k \in DOMAIN queue \ del.orph |->
                        IF del.waits \/ k \in DOMAIN orphans THEN queue[k] ELSE {}]
      BY <1>3 DEF DeleteCommits, queue, entries
    <3> QED
      BY <3>2, <3>3
  <2>2. \/ row' = NoRow /\ chunks' = {}
        \/ UNCHANGED recorded
    BY <1>3 DEF DeleteCommits, recorded
  <2>3. (chunks' \subseteq ChunkRows) /\ IsFiniteSet(chunks')
    BY <2>2, FS_EmptySet DEF recorded, Types, TypeOK
  <2>4. pending' \subseteq Entry
    BY <1>3 DEF DeleteCommits, Types, TypeOK
  <2> QED
    BY <1>0, <1>3, <2>1, <2>2, <2>3, <2>4 DEF DeleteCommits, Types, TypeOK, machine, facts, recorded
<1> QED
  BY <1>1, <1>2, <1>3 DEF Deletion

LEMMA AroundType == ASSUME Types, Around PROVE Types'
<1>1. CASE AppendLine
  <2>1. file' \in Seq(Nat)
    BY <1>1 DEF AppendLine, Types, TypeOK
  <2> QED
    BY <1>1, <2>1 DEF AppendLine, Types, TypeOK, facts, recorded, ledger
<1>2. CASE Rewrite
  <2>1. file' \in Seq(Nat) /\ events' \in Nat
    <3>1. PICK n \in 0 .. Len(file) - 1 : file' = SubSeq(file, 1, n)
      BY <1>2 DEF Rewrite
    <3>2. file \in Seq(Nat) /\ n \in Nat /\ n <= Len(file)
      BY DEF Types, TypeOK
    <3>3. SubSeq(file, 0 + 1, 0 + n) \in Seq(Nat)
      BY <3>2, Piece, 0 + n = n
    <3> QED
      BY <1>2, <3>1, <3>2, <3>3 DEF Rewrite, Counted, Types, TypeOK
  <2> QED
    BY <1>2, <2>1 DEF Rewrite, Types, TypeOK, facts, recorded, ledger
<1>3. CASE MoveProject
  BY <1>3 DEF MoveProject, Counted, Types, TypeOK, machine, recorded, ledger
<1>7. CASE Switch
  <2>1. open' \in BOOLEAN
    BY <1>7 DEF Switch
  <2> QED
    BY <1>7, <2>1 DEF Switch, Counted, Types, TypeOK, machine, recorded, ledger
<1>4. CASE RowAges
  <2>1. row' \in Row /\ row' # NoRow /\ row'.project = row'.key.project
        /\ (row'.sealed = 0 <=> row'.sealedSha = <<>>)
    BY <1>4, NoRowAssumption DEF RowAges, Types, TypeOK, Row
  <2> QED
    BY <1>4, <2>1 DEF RowAges, Types, TypeOK, machine, facts, ledger
<1>5. CASE \E p \in Passes : Lapse(p)
  BY <1>5 DEF Lapse, Types, TypeOK, machine, facts, recorded, ledger
<1>6. CASE \E u \in late : PutLate(u)
  BY <1>6, PutLateType
<1> QED
  BY <1>1, <1>2, <1>3, <1>4, <1>5, <1>6, <1>7 DEF Around

LEMMA StepTypes == ASSUME Types, [Next]_vars PROVE Types'
<1>1. ASSUME NEW p \in Passes, PassStep(p) PROVE Types'
  BY <1>1, ScanType, PresignType, PutType, PutFailsType, KillType, DecideType, HeadsType,
     LockType, WriteType DEF PassStep
<1>2. CASE UNCHANGED vars
  BY <1>2 DEF Types, TypeOK, vars
<1> QED
  BY <1>1, <1>2, DeletionType, AroundType DEF Next

-----------------------------------------------------------------------------
(* The initial states *)

\* The chunks a transcript of n lines was archived in, and their keys.
OldPart == [i \in 1 .. ChunkLines |-> 0]
OldChunks(j, c) == {[seq |-> i, off |-> (i - 1) * ChunkLines, text |-> OldPart,
                     key |-> ChunkKey(j, i, OldPart)] : i \in 1 .. c}

LEMMA OldType ==
  ASSUME NEW j \in Projects, NEW c \in Nat
  PROVE  /\ OldPart \in Texts /\ Len(OldPart) = ChunkLines
         /\ OldChunks(j, c) \subseteq ChunkRows /\ IsFiniteSet(OldChunks(j, c))
         /\ Cardinality(OldChunks(j, c)) = c
<1>1. OldPart \in Texts /\ OldPart \in Seq(Nat) /\ Len(OldPart) = ChunkLines
  BY ConstantsAssumption DEF OldPart, Texts
<1>2. ASSUME NEW i \in 1 .. c
      PROVE  (i - 1) * ChunkLines \in Nat /\ ChunkKey(j, i, OldPart) \in Key
  <2>1. (i - 1) * ChunkLines \in Nat
    BY LinesStep DEF Lines
  <2> QED
    BY <1>1, <2>1, ChunkKeyType
<1> DEFINE Old(i) == [seq |-> i, off |-> (i - 1) * ChunkLines, text |-> OldPart,
                      key |-> ChunkKey(j, i, OldPart)]
<1>3. \A i \in 1 .. c : Old(i) \in ChunkRows /\ Old(i).seq = i
  BY <1>1, <1>2 DEF ChunkRows
<1>4. OldChunks(j, c) = {Old(i) : i \in 1 .. c}
  BY DEF OldChunks
<1> HIDE DEF Old
<1> DEFINE f == [i \in 1 .. c |-> Old(i)]
<1>5. f \in Bijection(1 .. c, OldChunks(j, c))
  <2>1. f \in Surjection(1 .. c, OldChunks(j, c))
    BY <1>4 DEF Surjection
  <2>2. f \in Injection(1 .. c, OldChunks(j, c))
    BY <1>3, <1>4 DEF Injection, IsInjective
  <2> QED
    BY <2>1, <2>2 DEF Bijection
<1>6. IsFiniteSet(1 .. c) /\ Cardinality(1 .. c) = c
  BY FS_Interval
<1>7. IsFiniteSet(OldChunks(j, c)) /\ Cardinality(OldChunks(j, c)) = c
  BY <1>5, <1>6, FS_Bijection DEF ExistsBijection
<1> QED
  BY <1>1, <1>3, <1>4, <1>7

LEMMA ArchivedType ==
  ASSUME NEW j \in Projects, NEW n \in Nat \ {0}, Archived(j, n)
  PROVE  /\ row \in Row /\ row.project = row.key.project
         /\ row.sealed = 0 <=> row.sealedSha = <<>>
         /\ chunks = OldChunks(j, n \div ChunkLines) /\ n \div ChunkLines \in Nat
         /\ settled \in Seq(Nat)
         /\ bucket \in [DOMAIN bucket -> Seq(Nat)] /\ DOMAIN bucket \subseteq Key
<1> DEFINE c == n \div ChunkLines
           text == [i \in 1 .. n |-> 0]
           key == TailKey(j, c, <<NoPass, 0>>)
           sha == SubSeq(text, 1, c * ChunkLines)
<1>1. c \in Nat /\ Lines(c) <= n /\ Lines(c) = c * ChunkLines /\ Lines(c) \in Nat /\ c <= Lines(c)
  BY Cuts, LinesAdd DEF Lines
<1>2. text \in Seq(Nat) /\ Len(text) = n
  OBVIOUS
<1>3. key \in Key
  BY <1>1 DEF TailKey, WholeKey, Key
<1>4. sha \in Seq(Nat) /\ Len(sha) = Lines(c)
  <2>1. 0 + Lines(c) = Lines(c) /\ 0 + Lines(c) <= Len(text) /\ 0 \in Nat /\ 0 + 1 = 1
    BY <1>1, <1>2
  <2>2. SubSeq(text, 0 + 1, 0 + Lines(c)) \in Seq(Nat) /\ Len(SubSeq(text, 0 + 1, 0 + Lines(c))) = Lines(c)
    BY <1>1, <1>2, <2>1, Piece
  <2> QED
    BY <1>1, <2>1, <2>2
<1>5. row = [project |-> j, key |-> key, sha |-> text, size |-> n, sealed |-> Lines(c),
             sealedSha |-> sha, old |-> FALSE, since |-> {}, spliced |-> FALSE]
  BY <1>1 DEF Archived, Lines
<1>6. key.project = j
  BY DEF TailKey, WholeKey
<1>7. chunks = OldChunks(j, c)
  BY DEF Archived, OldChunks, OldPart
<1>8. settled = text
  BY DEF Archived
<1>9. \A i \in 1 .. c : ChunkKey(j, i, OldPart) \in Key /\ ChunkKey(j, i, OldPart).id \in Seq(Nat)
  BY <1>1, OldType, ChunkKeyType DEF Texts, ChunkKey
<1>10. bucket = [k \in {key} \cup {ChunkKey(j, i, OldPart) : i \in 1 .. c} |->
                   IF k = key THEN SubSeq(text, c * ChunkLines + 1, n) ELSE k.id]
  BY DEF Archived, OldPart
<1>11. SubSeq(text, c * ChunkLines + 1, n) \in Seq(Nat)
  <2>1. Lines(c) + (n - Lines(c)) = n /\ n - Lines(c) \in Nat
    BY <1>1
  <2>2. SubSeq(text, Lines(c) + 1, Lines(c) + (n - Lines(c))) \in Seq(Nat)
    BY <1>1, <1>2, <2>1, Piece
  <2> QED
    BY <1>1, <2>1, <2>2
<1> HIDE DEF c, text, key, sha
<1>12. row \in Row
  BY <1>1, <1>2, <1>3, <1>4, <1>5 DEF Row
<1>13. row.sealed = 0 <=> row.sealedSha = <<>>
  BY <1>1, <1>4, <1>5
<1>14. bucket \in [DOMAIN bucket -> Seq(Nat)] /\ DOMAIN bucket \subseteq Key
  BY <1>3, <1>9, <1>10, <1>11
<1> QED
  BY <1>1, <1>2, <1>5, <1>6, <1>7, <1>8, <1>12, <1>13, <1>14 DEF c

\* Nothing is archived, or what an earlier pass archived is.
LEMMA InitCases ==
  ASSUME Init
  PROVE  /\ project \in Projects /\ file \in Seq(Nat)
         /\ \/ row = NoRow /\ chunks = {} /\ bucket = <<>> /\ settled = <<>>
            \/ \E n \in Nat \ {0} : Archived(project, n)
<1>1. PICK m \in 1 .. MaxLines : file = [i \in 1 .. m |-> 0]
  BY DEF Init
<1>2. m \in Nat
  BY ConstantsAssumption
<1>3. file \in Seq(Nat) /\ Len(file) = m
  BY <1>1, <1>2
<1>4. \A n \in 1 .. Len(file) : n \in Nat \ {0}
  BY <1>2, <1>3
<1> QED
  BY <1>3, <1>4 DEF Init

LEMMA InitTypes == Init => Types
<1> SUFFICES ASSUME Init PROVE Types
  OBVIOUS
<1>1. project \in Projects /\ file \in Seq(Nat)
  BY InitCases
<1>2. /\ settled \in Seq(Nat)
      /\ bucket \in [DOMAIN bucket -> Seq(Nat)] /\ DOMAIN bucket \subseteq Key
      /\ \/ row = NoRow /\ chunks = {}
         \/ /\ row \in Row /\ row.project = row.key.project
            /\ row.sealed = 0 <=> row.sealedSha = <<>>
      /\ chunks \subseteq ChunkRows /\ IsFiniteSet(chunks)
  <2>1. CASE row = NoRow /\ chunks = {} /\ bucket = <<>> /\ settled = <<>>
    BY <2>1, FS_EmptySet
  <2>2. CASE \E n \in Nat \ {0} : Archived(project, n)
    BY <1>1, <2>2, ArchivedType, OldType
  <2> QED
    BY <2>1, <2>2, InitCases
<1>3. at \in [Passes -> Locals] /\ \A p \in Passes : Planned(at[p])
  <2>1. WholeKey(project) \in Key
    BY <1>1, WholeKeyType
  <2>2. <<>> \in Seq(Nat) /\ <<>> \in Seq(PlanParts) /\ <<>> \in Seq(Uploads)
    OBVIOUS
  <2>3. Empty \in Locals /\ Planned(Empty)
    BY <2>1, <2>2 DEF Empty, Locals, Nothing, Sealing, Planned
  <2> QED
    BY <2>3 DEF Init
<1>4. orphans \in [DOMAIN orphans -> SUBSET Passes] /\ DOMAIN orphans \subseteq Key
  BY DEF Init
<1>5. del \in Deleting
  BY DEF Init, Quiet, Deleting
<1>6. settled \in Seq(Nat) /\ events \in Nat /\ open \in BOOLEAN
  BY <1>2 DEF Init
<1> QED
  BY <1>1, <1>2, <1>3, <1>4, <1>5, <1>6 DEF Init, Types, TypeOK

LEMMA TypesHold == Spec => []Types
<1>1. Types /\ [Next]_vars => Types'
  BY StepTypes
<1> QED
  BY InitTypes, <1>1, PTL DEF Spec

\* Every reachable state is well typed; a row's hash is of nothing exactly when
\* nothing is sealed, the constraint log_artifacts has in the database.
THEOREM TypeCorrect == Spec => []TypeOK
<1>1. Types => TypeOK
  BY DEF Types
<1> QED
  BY TypesHold, <1>1, PTL

-----------------------------------------------------------------------------
(* The ledger *)

Ent(k, p) == [key |-> k, pass |-> p]

\* What a deletion under way has taken stays as it found it: its row, its
\* pending entries, and the orphans nothing can be signed under meanwhile.
DelInv ==
  /\ del.phase = "idle" => del = Quiet
  /\ del.row => row # NoRow /\ Named \subseteq del.keys
  /\ del.pend \subseteq pending
  /\ del.orph \subseteq del.keys
  /\ \A e \in del.pend : \/ e.pass \in lapsed \/ e.key \in del.cut
                         \/ del.waits /\ del.orph = {}
  /\ \A k \in del.orph \cap DOMAIN orphans : orphans[k] \subseteq lapsed
  /\ \A k \in del.known : /\ k \in DOMAIN orphans \cap del.orph
                          /\ \A e \in pending : e.key = k => e \in del.pend
                          /\ ~del.row => k \notin Named

\* Emptied is what a deletion has taken out of the bucket and still names.
Emptied == IF del.phase = "emptied" THEN del.keys ELSE {}

\* A row's objects are there, or lost, or going with the row.
NamedInv == \A k \in Named : k \in DOMAIN bucket \/ k \in lost \/ (del.row /\ k \in Emptied)

\* What a confirm has looked for is there until it is recorded, or lost, or the
\* confirm will find its entry gone.
FoundInv ==
  \A p \in Passes : at[p].pc \in {"lock", "write"} =>
    \A k \in Keys(p) : Ent(k, p) \in pending =>
      k \in DOMAIN bucket \/ k \in lost \/ (Ent(k, p) \in del.pend /\ k \in Emptied)

\* The keys that p may still PUT to.
Signed(p) == {u.key : u \in Range(at[p].puts)} \cup {u.key : u \in {u \in late : u.pass = p}}

\* A PUT is only given up on with its pass.
LateInv == \A u \in late : at[u.pass].pc = "over"

\* A live URL has its entry, or its key outwaits it.
SignedInv ==
  \A p \in Passes \ lapsed : \A k \in Signed(p) :
    \/ Ent(k, p) \in pending
    \/ k \in cut
    \/ k \in DOMAIN orphans /\ p \in orphans[k]

\* A confirm that writes replaces the row it read.
CurInv ==
  \A p \in Passes : at[p].pc = "write" =>
    /\ \A q \in Passes : at[q].pc = "write" => q = p
    /\ row # NoRow => at[p].cur # NoRow /\ at[p].cur.key = row.key

\* What is in the bucket once a deletion has emptied it will have a way to be
\* deleted after its commit.
Survives(k) ==
  \/ k \in Named /\ ~del.row
  \/ k \in cut \cup del.cut
  \/ \E e \in pending \ del.pend : e.key = k
  \/ k \in (DOMAIN orphans \cup {e.key : e \in del.pend}) \ del.orph

SurvivesInv == del.phase = "emptied" => \A k \in DOMAIN bucket : Survives(k)

LedgerInv ==
  /\ Types
  /\ DelInv
  /\ NamedInv
  /\ FoundInv
  /\ LateInv
  /\ SignedInv
  /\ CurInv
  /\ Tracked
  /\ SurvivesInv

-----------------------------------------------------------------------------

LEMMA Entries ==
  ASSUME TypeOK
  PROVE  /\ \A k, p : Ent(k, p).key = k /\ Ent(k, p).pass = p
         /\ \A e \in pending : e = Ent(e.key, e.pass) /\ e.key \in Key /\ e.pass \in Passes
         /\ \A e \in del.pend : e = Ent(e.key, e.pass)
BY DEF TypeOK, Entry, Ent, Deleting

\* Nothing of the ledger moves, and one pass goes nowhere near a confirm's write.
LEMMA QuietMove ==
  ASSUME LedgerInv, Types', NEW p \in Passes, NEW me, at' = [at EXCEPT ![p] = me],
         UNCHANGED <<bucket, row, chunks, pending, orphans, lapsed, del, lost, cut>>,
         me.pc \notin {"lock", "write"},
         \/ late' = late /\ me.puts = <<>> /\ at[p].pc # "over"
         \/ late' = late /\ me.puts = <<>> /\ me.pc = "over"
         \/ /\ at[p].puts # <<>> /\ me.puts = <<>> /\ me.pc = "over"
            /\ \E u : late' = late \cup {u} /\ u.pass = p /\ u.key = Head(at[p].puts).key
  PROVE  LedgerInv'
<1>1. at'[p] = me /\ \A q \in Passes : q # p => at'[q] = at[q]
  BY DEF LedgerInv, Types, TypeOK
<1>2. DelInv' /\ NamedInv' /\ Tracked' /\ SurvivesInv'
  BY DEF LedgerInv, DelInv, NamedInv, Tracked, SurvivesInv, Survives, Emptied, Named, ChunkKeys
<1>3. FoundInv' /\ CurInv'
  BY <1>1 DEF LedgerInv, FoundInv, CurInv, Emptied, Keys
<1>4. LateInv'
  BY <1>1 DEF LedgerInv, LateInv, Types, TypeOK, LatePuts
<1>5. SignedInv'
  <2>1. ASSUME NEW q \in Passes, NEW k \in Signed(q)' PROVE k \in Signed(q)
    <3>1. CASE k \in {u.key : u \in Range(at'[q].puts)}
      <4>1. q # p
        BY <1>1, <3>1 DEF Range
      <4> QED
        BY <1>1, <3>1, <4>1 DEF Signed
    <3>2. CASE k \in {u.key : u \in {u \in late' : u.pass = q}}
      <4>1. PICK u \in late' : u.pass = q /\ u.key = k
        BY <3>2
      <4>2. CASE u \in late
        BY <4>1, <4>2 DEF Signed
      <4>3. CASE u \notin late
        <5>1. at[p].puts # <<>> /\ q = p /\ k = Head(at[p].puts).key
          BY <4>1, <4>3
        <5>2. at[p].puts \in Seq(Uploads)
          BY DEF LedgerInv, Types, TypeOK, Locals
        <5>3. Head(at[p].puts) \in Range(at[p].puts)
          BY <5>1, <5>2 DEF Range
        <5> QED
          BY <5>1, <5>3 DEF Signed
      <4> QED
        BY <4>2, <4>3
    <3> QED
      BY <3>1, <3>2 DEF Signed
  <2> QED
    BY <2>1 DEF LedgerInv, SignedInv
<1> QED
  BY <1>2, <1>3, <1>4, <1>5 DEF LedgerInv

\* The entries in E leave the ledger for the orphans.
Outwaits(E) ==
  /\ E \subseteq pending
  /\ {e.key : e \in E} \cap Held = {}
  /\ pending' = pending \ E
  /\ DOMAIN orphans' = DOMAIN orphans \cup {e.key : e \in E}
  /\ \A k \in DOMAIN orphans :
       /\ orphans[k] \subseteq orphans'[k]
       /\ k \notin {e.key : e \in E} => orphans'[k] = orphans[k]

LEMMA GiveUpIs ==
  ASSUME TypeOK, NEW p, GiveUp(p)
  PROVE  \E E : Outwaits(E) /\ \A e \in E : e.pass = p
<1> DEFINE E == OfPass(p, {at[p].key} \cup ChunkKeysBeside(at[p].key, at[p].plan))
<1>1. E \in SUBSET pending /\ \A e \in E : e.pass = p
  BY DEF OfPass
<1>2. {e.key : e \in E} \cap Held = {} /\ pending' = pending \ E /\ orphans' = Queue(orphans, E)
  BY DEF GiveUp
<1> HIDE DEF E
<1>3. ASSUME NEW k \in DOMAIN orphans
      PROVE  /\ orphans[k] \subseteq orphans'[k]
             /\ k \notin {e.key : e \in E} => orphans'[k] = orphans[k]
  <2>1. orphans'[k] = orphans[k] \cup {e.pass : e \in {e \in E : e.key = k}}
    <3>1. k \in DOMAIN Queue(orphans, E)
      BY <1>1, QueueType
    <3> QED
      BY <1>1, <1>2, <3>1, QueueType
  <2> QED
    BY <2>1
<1> QED
  BY <1>1, <1>2, <1>3, QueueType DEF Outwaits

LEMMA GivesUp ==
  ASSUME LedgerInv, Types', NEW p \in Passes, NEW me, at' = [at EXCEPT ![p] = me], GiveUp(p),
         UNCHANGED <<bucket, row, chunks, lapsed, late, del, lost, cut>>,
         me.pc \notin {"lock", "write"}, me.puts = <<>>, at[p].pc \notin {"put", "over"}
  PROVE  LedgerInv'
<1>0. TypeOK /\ at'[p] = me /\ \A q \in Passes : q # p => at'[q] = at[q]
  BY DEF LedgerInv, Types, TypeOK
<1>1. PICK E : Outwaits(E) /\ \A e \in E : e.pass = p
  BY <1>0, GiveUpIs
<1>2. Named' = Named /\ Emptied' = Emptied
  BY DEF Named, ChunkKeys, Emptied
<1>3. \A e \in del.pend : e \notin E /\ e \in pending'
  BY <1>1 DEF Outwaits, Held, LedgerInv, DelInv
<1>4. \A k \in del.orph \cap DOMAIN orphans' : k \in DOMAIN orphans /\ orphans'[k] = orphans[k]
  BY <1>1 DEF Outwaits, Held
<1>5. DelInv'
  BY <1>1, <1>2, <1>3, <1>4 DEF LedgerInv, DelInv, Outwaits, Quiet
<1>6. NamedInv'
  BY <1>2 DEF LedgerInv, NamedInv
<1>7. FoundInv'
  BY <1>0, <1>1, <1>2 DEF LedgerInv, FoundInv, Keys, Outwaits
<1>8. LateInv' /\ CurInv'
  BY <1>0 DEF LedgerInv, LateInv, CurInv, Types, TypeOK, LatePuts
<1>9. SignedInv'
  <2> SUFFICES ASSUME NEW q \in Passes \ lapsed, NEW k \in Signed(q)'
               PROVE  \/ Ent(k, q) \in pending' \/ k \in cut
                      \/ k \in DOMAIN orphans' /\ q \in orphans'[k]
    BY DEF SignedInv
  <2>1. q # p
    <3>1. ASSUME q = p PROVE FALSE
      <4>1. k \notin {u.key : u \in Range(at'[q].puts)}
        BY <1>0, <3>1 DEF Range
      <4>2. PICK u \in late : u.pass = p
        BY <3>1, <4>1 DEF Signed
      <4> QED
        BY <4>2 DEF LedgerInv, LateInv
    <3> QED
      BY <3>1
  <2>2. k \in Signed(q)
    BY <1>0, <2>1 DEF Signed
  <2>3. Ent(k, q) \in pending \/ k \in cut \/ (k \in DOMAIN orphans /\ q \in orphans[k])
    BY <2>2 DEF LedgerInv, SignedInv
  <2>4. Ent(k, q) \notin E
    BY <1>0, <1>1, <2>1, Entries
  <2> QED
    BY <1>1, <2>3, <2>4 DEF Outwaits
<1>10. Tracked'
  BY <1>1, <1>2 DEF LedgerInv, Tracked, Outwaits
<1>11. SurvivesInv'
  <2> SUFFICES ASSUME del.phase = "emptied", NEW k \in DOMAIN bucket PROVE Survives(k)'
    BY DEF SurvivesInv
  <2>1. Survives(k)
    BY DEF LedgerInv, SurvivesInv
  <2>2. ASSUME NEW e \in pending \ del.pend, e.key = k, e \in E PROVE Survives(k)'
    BY <1>1, <2>2 DEF Survives, Outwaits, Held
  <2>3. ASSUME NEW e \in pending \ del.pend, e.key = k, e \notin E PROVE Survives(k)'
    BY <1>1, <2>3 DEF Survives, Outwaits
  <2> QED
    BY <1>1, <1>2, <2>1, <2>2, <2>3 DEF Survives, Outwaits
<1> QED
  BY <1>5, <1>6, <1>7, <1>8, <1>9, <1>10, <1>11 DEF LedgerInv

\* A presign signs its keys, and its pass uploads to no other.
LEMMA Signs ==
  ASSUME LedgerInv, Types', NEW p \in Passes, NEW keys \in SUBSET Key, Sign(p, keys),
         NEW me, at' = [at EXCEPT ![p] = me], me.pc \notin {"lock", "write"},
         {u.key : u \in Range(me.puts)} \subseteq keys, at[p].pc # "over",
         UNCHANGED <<bucket, row, chunks, lapsed, late, del, lost>>
  PROVE  LedgerInv'
<1>0. TypeOK /\ at'[p] = me /\ \A q \in Passes : q # p => at'[q] = at[q]
  BY DEF LedgerInv, Types, TypeOK
<1>1. /\ pending' = pending \cup {Ent(k, p) : k \in keys}
      /\ DOMAIN orphans' = DOMAIN orphans \ keys
      /\ \A k \in DOMAIN orphans' : orphans'[k] = orphans[k]
      /\ cut' = cut \cup Unwaited(keys)
  BY <1>0, SignType DEF Sign, Ent
<1>2. Named' = Named /\ Emptied' = Emptied
  BY DEF Named, ChunkKeys, Emptied
<1>3. del.orph \cap DOMAIN orphans \subseteq DOMAIN orphans'
  BY <1>1 DEF Sign, Waits, LedgerInv, DelInv, Quiet
<1>4. \A k \in keys : Ent(k, p) \notin del.pend
  <2> SUFFICES ASSUME NEW k \in keys, Ent(k, p) \in del.pend PROVE FALSE
    OBVIOUS
  <2>1. del.phase # "idle"
    BY DEF LedgerInv, DelInv, Quiet
  <2>2. Ent(k, p).key = k /\ Ent(k, p).pass = p
    BY <1>0, Entries
  <2> QED
    BY <2>1, <2>2 DEF Sign, Waits
<1>5. DelInv'
  <2>1. \A k \in del.known : k \in DOMAIN orphans' \cap del.orph /\ k \notin keys
    BY <1>1, <1>3 DEF LedgerInv, DelInv
  <2>2. \A k \in del.known : \A e \in pending' : e.key = k => e \in del.pend
    BY <1>0, <1>1, <2>1, Entries DEF LedgerInv, DelInv
  <2> QED
    BY <1>1, <1>2, <1>3, <2>1, <2>2 DEF LedgerInv, DelInv, Quiet
<1>6. NamedInv'
  BY <1>2 DEF LedgerInv, NamedInv
<1>7. FoundInv'
  <2> SUFFICES ASSUME NEW q \in Passes, at'[q].pc \in {"lock", "write"}, NEW k \in Keys(q)', Ent(k, q) \in pending'
               PROVE  k \in DOMAIN bucket \/ k \in lost \/ (Ent(k, q) \in del.pend /\ k \in Emptied)
    BY <1>2 DEF FoundInv
  <2>1. q # p /\ at'[q] = at[q] /\ k \in Keys(q)
    BY <1>0 DEF Keys
  <2>2. Ent(k, q) \in pending
    BY <1>0, <1>1, <2>1, Entries
  <2> QED
    BY <2>1, <2>2 DEF LedgerInv, FoundInv
<1>8. LateInv' /\ CurInv'
  BY <1>0 DEF LedgerInv, LateInv, CurInv, Types, TypeOK, LatePuts
<1>9. SignedInv'
  <2> SUFFICES ASSUME NEW q \in Passes \ lapsed, NEW k \in Signed(q)'
               PROVE  \/ Ent(k, q) \in pending' \/ k \in cut'
                      \/ k \in DOMAIN orphans' /\ q \in orphans'[k]
    BY DEF SignedInv
  <2>1. CASE q = p
    <3>1. k \notin {u.key : u \in {u \in late' : u.pass = p}}
      BY DEF LedgerInv, LateInv
    <3>2. k \in keys
      BY <1>0, <2>1, <3>1 DEF Signed
    <3> QED
      BY <1>1, <2>1, <3>2
  <2>2. CASE q # p
    <3>1. k \in Signed(q)
      BY <1>0, <2>2 DEF Signed
    <3>2. Ent(k, q) \in pending \/ k \in cut \/ (k \in DOMAIN orphans /\ q \in orphans[k])
      BY <3>1 DEF LedgerInv, SignedInv
    <3> QED
      BY <1>1, <3>2 DEF Unwaited
  <2> QED
    BY <2>1, <2>2
<1>10. Tracked'
  <2>1. \A k \in keys : \E e \in pending' : e.key = k
    BY <1>0, <1>1, Entries
  <2> QED
    BY <1>1, <1>2, <2>1 DEF LedgerInv, Tracked
<1>11. SurvivesInv'
  <2> SUFFICES ASSUME del.phase = "emptied", NEW k \in DOMAIN bucket PROVE Survives(k)'
    BY DEF SurvivesInv
  <2>1. Survives(k)
    BY DEF LedgerInv, SurvivesInv
  <2>2. CASE k \in keys
    <3>1. Ent(k, p) \in pending' \ del'.pend /\ Ent(k, p).key = k
      BY <1>0, <1>1, <1>4, <2>2, Entries
    <3> QED
      BY <3>1 DEF Survives
  <2>3. CASE k \notin keys
    BY <1>1, <1>2, <2>1, <2>3 DEF Survives
  <2> QED
    BY <2>2, <2>3
<1> QED
  BY <1>5, <1>6, <1>7, <1>8, <1>9, <1>10, <1>11 DEF LedgerInv

LEMMA PresignLedger == ASSUME LedgerInv, Types', NEW p \in Passes, Presign(p) PROVE LedgerInv'
<1>1. Types /\ at[p].pc = "ask" /\ at[p].puts = <<>>
  BY PresignIs DEF LedgerInv, Types, Planned
<1>2. UNCHANGED <<bucket, row, chunks, lapsed, late, del, lost>>
  BY DEF Presign, recorded
<1>3. CASE Ends(p) /\ UNCHANGED <<ledger, cut>>
  <2>1. Over.pc = "over" /\ Over.puts = <<>>
    BY DEF Over, Empty
  <2> QED
    BY <1>1, <1>2, <1>3, <2>1, QuietMove DEF Ends, ledger
<1>4. CASE Sign(p, SignedKeys(p)) /\ PresignKinds(p)
  <2> DEFINE keys == SignedKeys(p)
  <2>1. keys \in SUBSET Key
    BY <1>1, SignedKeysType DEF Types
  <2>2. \E me : /\ at' = [at EXCEPT ![p] = me] /\ me.pc \notin {"lock", "write"}
                /\ {u.key : u \in Range(me.puts)} \subseteq keys
    <3>1. {u.key : u \in Range(<<>>)} = {}
      BY DEF Range
    <3>2. CASE Ends(p)
      <4>1. Over.pc = "over" /\ Over.puts = <<>>
        BY DEF Over, Empty
      <4> QED
        BY <3>1, <3>2, <4>1 DEF Ends
    <3>3. CASE Again(p)
      <4> DEFINE me == [at[p] EXCEPT !.pc = "ask", !.want = "chunked", !.tries = 2]
      <4>1. CASE Ends(p)
        BY <3>2, <4>1
      <4>2. CASE at' = [at EXCEPT ![p].pc = "ask", ![p].want = "chunked", ![p].tries = 2]
        <5>1. at[p] \in Locals /\ at \in [Passes -> Locals]
          BY <1>1 DEF Types, TypeOK
        <5>2. at' = [at EXCEPT ![p] = me] /\ me.pc = "ask" /\ me.puts = <<>>
          BY <1>1, <4>2, <5>1 DEF Locals
        <5> QED
          BY <3>1, <5>2
      <4> QED
        BY <3>3, <4>1, <4>2 DEF Again
    <3>4. CASE ~Ends(p) /\ ~Again(p)
      <4>1. PICK me \in Locals : /\ at' = [at EXCEPT ![p] = me]
                  /\ \/ me.pc = "ask" /\ me.puts = at[p].puts
                     \/ me.pc = "put" /\ {u.key : u \in Range(me.puts)} \subseteq keys
        BY <1>4, <3>4 DEF PresignKinds
      <4> QED
        BY <1>1, <3>1, <4>1
    <3> QED
      BY <3>2, <3>3, <3>4
  <2> HIDE DEF keys
  <2> QED
    BY <1>1, <1>2, <1>4, <2>1, <2>2, Signs DEF keys
<1> QED
  BY <1>1, <1>3, <1>4, PresignIs

\* An object lands under a URL that lives.
LEMMA LandsLedger ==
  ASSUME LedgerInv, Types', NEW p \in Passes \ lapsed, NEW k \in Signed(p), NEW text, NEW same,
         Lands(k, text, same), UNCHANGED <<row, chunks, pending, orphans, lapsed, del, cut>>,
         \A q \in Passes : /\ Signed(q)' \subseteq Signed(q)
                           /\ \/ at'[q] = at[q]
                              \/ at[q].pc # "over" /\ at'[q].pc \notin {"lock", "write"},
         late' \subseteq late
  PROVE  LedgerInv'
<1>1. DOMAIN bucket' = DOMAIN bucket \cup {k} /\ lost' = lost \ {k}
  BY DEF Lands, Stored
<1>2. Named' = Named /\ Emptied' = Emptied
  BY DEF Named, ChunkKeys, Emptied
<1>3. DelInv'
  BY <1>2 DEF LedgerInv, DelInv
<1>4. NamedInv'
  BY <1>1, <1>2 DEF LedgerInv, NamedInv
<1>5. FoundInv'
  <2> SUFFICES ASSUME NEW q \in Passes, at'[q].pc \in {"lock", "write"}, NEW j \in Keys(q)', Ent(j, q) \in pending
               PROVE  j \in DOMAIN bucket' \/ j \in lost' \/ (Ent(j, q) \in del.pend /\ j \in Emptied)
    BY <1>2 DEF FoundInv
  <2>1. at'[q] = at[q] /\ j \in Keys(q)
    BY DEF Keys
  <2> QED
    BY <1>1, <2>1 DEF LedgerInv, FoundInv
<1>6. CurInv'
  BY DEF LedgerInv, CurInv
<1>7. LateInv'
  BY DEF LedgerInv, LateInv, Types, TypeOK, LatePuts
<1>8. SignedInv'
  BY DEF LedgerInv, SignedInv
<1>9. Ent(k, p) \in pending \/ k \in cut \/ (k \in DOMAIN orphans /\ p \in orphans[k])
  BY DEF LedgerInv, SignedInv
<1>10. TypeOK
  BY DEF LedgerInv, Types
<1>11. Tracked'
  BY <1>1, <1>2, <1>9, <1>10, Entries DEF LedgerInv, Tracked
<1>12. SurvivesInv'
  <2> SUFFICES ASSUME del.phase = "emptied", NEW j \in DOMAIN bucket' PROVE Survives(j)'
    BY DEF SurvivesInv
  <2>1. CASE j # k
    BY <1>1, <1>2, <2>1 DEF LedgerInv, SurvivesInv, Survives
  <2>2. CASE j = k
    <3>1. CASE k \in cut
      BY <2>2, <3>1 DEF Survives
    <3>2. CASE Ent(k, p) \in pending \ del.pend
      BY <1>10, <2>2, <3>2, Entries DEF Survives
    <3>3. CASE Ent(k, p) \in del.pend
      <4>1. Ent(k, p).key = k /\ Ent(k, p).pass = p
        BY <1>10, Entries
      <4>2. k \in del.cut \/ del.orph = {}
        BY <3>3, <4>1 DEF LedgerInv, DelInv
      <4> QED
        BY <2>2, <3>3, <4>1, <4>2 DEF Survives
    <3>4. CASE k \in DOMAIN orphans /\ p \in orphans[k]
      <4>1. k \notin del.orph
        BY <3>4 DEF LedgerInv, DelInv
      <4> QED
        BY <2>2, <3>4, <4>1 DEF Survives
    <3> QED
      BY <1>9, <3>1, <3>2, <3>3, <3>4
  <2> QED
    BY <2>1, <2>2
<1> QED
  BY <1>3, <1>4, <1>5, <1>6, <1>7, <1>8, <1>11, <1>12 DEF LedgerInv

LEMMA PutLedger == ASSUME LedgerInv, Types', NEW p \in Passes, Put(p) PROVE LedgerInv'
<1> DEFINE u == Head(at[p].puts)
<1>1. at[p].puts \in Seq(Uploads) /\ at[p].puts # <<>> /\ at[p].pc = "put" /\ p \notin lapsed
      /\ at \in [Passes -> Locals]
  BY DEF LedgerInv, Types, TypeOK, Locals, Put, Planned
<1>2. u \in Range(at[p].puts) /\ Range(Tail(at[p].puts)) \subseteq Range(at[p].puts)
  <2>1. Len(at[p].puts) \in Nat \ {0} /\ Len(Tail(at[p].puts)) = Len(at[p].puts) - 1
        /\ DOMAIN Tail(at[p].puts) = 1 .. Len(at[p].puts) - 1
    BY <1>1, HeadTailProperties
  <2>2. \A i \in 1 .. Len(at[p].puts) - 1 : /\ i + 1 \in DOMAIN at[p].puts
                                            /\ Tail(at[p].puts)[i] = at[p].puts[i + 1]
    BY <1>1, <2>1, HeadTailProperties
  <2>3. 1 \in DOMAIN at[p].puts /\ u = at[p].puts[1]
    BY <1>1, <2>1
  <2> QED
    BY <2>1, <2>2, <2>3 DEF Range
<1>3. u.key \in Signed(p)
  BY <1>2 DEF Signed
<1>4. /\ at'[p].puts = Tail(at[p].puts) /\ at'[p].pc \in {"confirm", "put"}
      /\ \A q \in Passes : q # p => at'[q] = at[q]
  BY <1>1 DEF Put, Locals
<1>5. \A q \in Passes : Signed(q)' \subseteq Signed(q)
  BY <1>2, <1>4 DEF Put, Signed
<1>6. Lands(u.key, Bytes(u), Same(p, u))
      /\ UNCHANGED <<row, chunks, pending, orphans, lapsed, del, cut, late>>
  BY DEF Put, recorded, ledger
<1> QED
  BY <1>1, <1>3, <1>4, <1>5, <1>6, LandsLedger

LEMMA PutLateLedger == ASSUME LedgerInv, Types', NEW u \in late, PutLate(u) PROVE LedgerInv'
<1>1. u.pass \in Passes \ lapsed /\ u.key \in Signed(u.pass)
  BY DEF LedgerInv, Types, TypeOK, LatePuts, PutLate, Signed
<1>2. Lands(u.key, u.text, u.same) /\ late' \subseteq late
      /\ UNCHANGED <<row, chunks, pending, orphans, lapsed, del, cut, at>>
  BY DEF PutLate, recorded, ledger
<1>3. \A q \in Passes : Signed(q)' \subseteq Signed(q)
  BY <1>2 DEF Signed
<1> QED
  BY <1>1, <1>2, <1>3, LandsLedger

LEMMA EndsIs == ASSUME NEW p, Ends(p) PROVE at' = [at EXCEPT ![p] = Over] /\ Over.pc = "over" /\ Over.puts = <<>>
BY DEF Ends, Over, Empty

LEMMA AgainIs ==
  ASSUME TypeOK, NEW p \in Passes, at[p].puts = <<>>, Again(p)
  PROVE  \E me : at' = [at EXCEPT ![p] = me] /\ me.pc \in {"over", "ask"} /\ me.puts = <<>>
<1> DEFINE me == [at[p] EXCEPT !.pc = "ask", !.want = "chunked", !.tries = 2]
<1>1. CASE Ends(p)
  BY <1>1, EndsIs
<1>2. CASE at' = [at EXCEPT ![p].pc = "ask", ![p].want = "chunked", ![p].tries = 2]
  <2>1. at[p] \in Locals /\ at \in [Passes -> Locals]
    BY DEF TypeOK
  <2>2. at' = [at EXCEPT ![p] = me] /\ me.pc = "ask" /\ me.puts = <<>>
    BY <1>2, <2>1 DEF Locals
  <2> QED
    BY <2>2
<1> QED
  BY <1>1, <1>2 DEF Again

LEMMA ScanLedger == ASSUME LedgerInv, Types', NEW p \in Passes, Scan(p) PROVE LedgerInv'
<1>0. at[p] \in Locals /\ at \in [Passes -> Locals] /\ at[p].puts = <<>> /\ at[p].pc = "idle"
  BY DEF LedgerInv, Types, TypeOK, Scan, Planned
<1>1. UNCHANGED <<bucket, row, chunks, pending, orphans, lapsed, late, del, lost, cut>>
  BY DEF Scan, recorded, ledger, history
<1>2. CASE Ends(p)
  BY <1>0, <1>1, <1>2, EndsIs, QuietMove
<1>3. CASE at' = [at EXCEPT ![p].pc = "ask", ![p].scan = file]
  <2> DEFINE me == [at[p] EXCEPT !.pc = "ask", !.scan = file]
  <2>1. at' = [at EXCEPT ![p] = me] /\ me.pc = "ask" /\ me.puts = <<>>
    BY <1>0, <1>3 DEF Locals
  <2> HIDE DEF me
  <2> QED
    BY <1>0, <1>1, <2>1, QuietMove
<1> QED
  BY <1>2, <1>3 DEF Scan

LEMMA KillLedger == ASSUME LedgerInv, Types', NEW p \in Passes, Kill(p) PROVE LedgerInv'
<1>1. UNCHANGED <<bucket, row, chunks, pending, orphans, lapsed, late, del, lost, cut>> /\ Ends(p)
  BY DEF Kill, recorded, ledger, history
<1> QED
  BY <1>1, EndsIs, QuietMove

LEMMA PutFailsLedger == ASSUME LedgerInv, Types', NEW p \in Passes, PutFails(p) PROVE LedgerInv'
<1>1. UNCHANGED <<bucket, row, chunks, pending, orphans, lapsed, del, lost, cut>> /\ Ends(p)
  BY DEF PutFails, recorded, ledger, history
<1>2. at[p].puts # <<>> /\ at[p].pc = "put"
  BY DEF LedgerInv, Types, PutFails, Planned
<1>3. \/ late' = late
      \/ \E u : late' = late \cup {u} /\ u.pass = p /\ u.key = Head(at[p].puts).key
  BY DEF PutFails
<1> QED
  BY <1>1, <1>2, <1>3, EndsIs, QuietMove

LEMMA DecideLedger == ASSUME LedgerInv, Types', NEW p \in Passes, Decide(p) PROVE LedgerInv'
<1>0. TypeOK /\ at[p] \in Locals /\ at \in [Passes -> Locals] /\ at[p].puts = <<>> /\ at[p].pc = "confirm"
  BY DEF LedgerInv, Types, TypeOK, Decide, Planned
<1>1. UNCHANGED <<bucket, row, chunks, lapsed, late, del, lost, cut>>
  BY DEF Decide, recorded, history
<1>2. CASE GiveUp(p) /\ (Ends(p) \/ Again(p))
  <2>1. PICK me : at' = [at EXCEPT ![p] = me] /\ me.pc \in {"over", "ask"} /\ me.puts = <<>>
    BY <1>0, <1>2, EndsIs, AgainIs
  <2> QED
    BY <1>0, <1>1, <1>2, <2>1, GivesUp
<1>3. CASE at' = [at EXCEPT ![p].pc = "heads", ![p].sealed = Sealed] /\ UNCHANGED ledger
  <2> DEFINE me == [at[p] EXCEPT !.pc = "heads", !.sealed = Sealed]
  <2>1. at' = [at EXCEPT ![p] = me] /\ me.pc = "heads" /\ me.puts = <<>>
    BY <1>0, <1>3 DEF Locals
  <2> HIDE DEF me
  <2> QED
    BY <1>0, <1>1, <1>3, <2>1, QuietMove DEF ledger
<1> QED
  BY <1>2, <1>3 DEF Decide

\* A confirm that goes on towards its write has seen its objects, and holds the lock.
LEMMA GoesOn ==
  ASSUME LedgerInv, Types', NEW p \in Passes, NEW me, at' = [at EXCEPT ![p] = me],
         UNCHANGED <<bucket, row, chunks, pending, orphans, lapsed, late, del, lost, cut>>,
         at[p].pc # "over", me.puts = <<>>, me.key = at[p].key, me.plan = at[p].plan,
         \/ me.pc = "lock" /\ Keys(p) \subseteq DOMAIN bucket
         \/ /\ me.pc = "write" /\ at[p].pc = "lock" /\ me.cur = row
            /\ \A q \in Passes : at[q].pc # "write"
  PROVE  LedgerInv'
<1>1. at'[p] = me /\ \A q \in Passes : q # p => at'[q] = at[q]
  BY DEF LedgerInv, Types, TypeOK
<1>2. DelInv' /\ NamedInv' /\ Tracked' /\ SurvivesInv'
  BY DEF LedgerInv, DelInv, NamedInv, Tracked, SurvivesInv, Survives, Emptied, Named, ChunkKeys
<1>3. \A q \in Passes : Keys(q)' = Keys(q)
  BY <1>1 DEF Keys
<1>4. FoundInv'
  BY <1>1, <1>3 DEF LedgerInv, FoundInv, Emptied
<1>5. CurInv' /\ LateInv'
  BY <1>1 DEF LedgerInv, CurInv, LateInv, Types, TypeOK, LatePuts
<1>6. SignedInv'
  <2>1. ASSUME NEW q \in Passes PROVE Signed(q)' \subseteq Signed(q)
    <3>1. {u.key : u \in Range(<<>>)} = {}
      BY DEF Range
    <3> QED
      BY <1>1, <3>1 DEF Signed
  <2> QED
    BY <2>1 DEF LedgerInv, SignedInv
<1> QED
  BY <1>2, <1>4, <1>5, <1>6 DEF LedgerInv

LEMMA HeadsLedger == ASSUME LedgerInv, Types', NEW p \in Passes, Heads(p) PROVE LedgerInv'
<1>0. TypeOK /\ at[p] \in Locals /\ at \in [Passes -> Locals] /\ at[p].puts = <<>> /\ at[p].pc = "heads"
  BY DEF LedgerInv, Types, TypeOK, Heads, Planned
<1>1. UNCHANGED <<bucket, row, chunks, lapsed, late, del, lost, cut>>
  BY DEF Heads, recorded, history
<1>2. CASE GiveUp(p) /\ Ends(p)
  BY <1>0, <1>1, <1>2, EndsIs, GivesUp
<1>3. CASE /\ Keys(p) \subseteq DOMAIN bucket /\ UNCHANGED ledger
           /\ at' = [at EXCEPT ![p].pc = "lock", ![p].tail = Len(bucket[at[p].key])]
  <2> DEFINE me == [at[p] EXCEPT !.pc = "lock", !.tail = Len(bucket[at[p].key])]
  <2>1. at' = [at EXCEPT ![p] = me] /\ me.pc = "lock" /\ me.puts = <<>> /\ me.key = at[p].key
        /\ me.plan = at[p].plan
    BY <1>0, <1>3 DEF Locals
  <2> HIDE DEF me
  <2> QED
    BY <1>0, <1>1, <1>3, <2>1, GoesOn DEF ledger
<1> QED
  BY <1>2, <1>3 DEF Heads

LEMMA LockLedger == ASSUME LedgerInv, Types', NEW p \in Passes, Lock(p) PROVE LedgerInv'
<1>0. TypeOK /\ at[p] \in Locals /\ at \in [Passes -> Locals] /\ at[p].puts = <<>> /\ at[p].pc = "lock"
  BY DEF LedgerInv, Types, TypeOK, Lock, Planned
<1>1. UNCHANGED <<bucket, row, chunks, lapsed, late, del, lost, cut>> /\ \A q \in Passes : at[q].pc # "write"
  BY DEF Lock, recorded, history
<1>2. CASE GiveUp(p) /\ Again(p)
  <2>1. PICK me : at' = [at EXCEPT ![p] = me] /\ me.pc \in {"over", "ask"} /\ me.puts = <<>>
    BY <1>0, <1>2, AgainIs
  <2> QED
    BY <1>0, <1>1, <1>2, <2>1, GivesUp
<1>3. CASE at' = [at EXCEPT ![p].pc = "write", ![p].cur = row] /\ UNCHANGED ledger
  <2> DEFINE me == [at[p] EXCEPT !.pc = "write", !.cur = row]
  <2>1. at' = [at EXCEPT ![p] = me] /\ me.pc = "write" /\ me.puts = <<>> /\ me.key = at[p].key
        /\ me.plan = at[p].plan /\ me.cur = row
    BY <1>0, <1>3 DEF Locals
  <2> HIDE DEF me
  <2> QED
    BY <1>0, <1>1, <1>3, <2>1, GoesOn DEF ledger
<1> QED
  BY <1>2, <1>3 DEF Lock

\* What recording an upload does to the rows and the ledger.
LEMMA RecordedIs ==
  ASSUME LedgerInv, NEW p \in Passes, Write(p), Recorded(p)
  PROVE  /\ ~del.row
         /\ \A k \in Keys(p) : Ent(k, p) \in pending
         /\ row' # NoRow /\ row'.key = at[p].key
         /\ Keys(p) \subseteq Named' /\ Named' \subseteq Named \cup Keys(p)
         /\ Named \subseteq Named' \cup Replaced(p)
         /\ DOMAIN orphans' =
              ((DOMAIN orphans \cup {e.key : e \in Unused(p)}) \ Keys(p)) \cup Replaced(p)
         /\ \A k \in DOMAIN orphans \ Keys(p) :
              /\ orphans[k] \subseteq orphans'[k]
              /\ k \notin {e.key : e \in Unused(p)} => orphans'[k] = orphans[k]
<1>0. TypeOK /\ Types /\ at[p].pc = "write"
  BY WriteIs DEF LedgerInv, Types
<1>1. ~del.row
  BY WriteIs DEF LedgerInv, DelInv
<1>2. \A k \in Keys(p) : Ent(k, p) \in pending
  <2> TAKE k \in Keys(p)
  <2>1. PICK e \in OfPass(p, Keys(p)) : e.key = k
    BY DEF Recorded
  <2> QED
    BY <1>0, <2>1, Entries DEF OfPass
<1>3. row' # NoRow /\ row'.key = at[p].key
  BY <1>0, NewRowType, NoRowAssumption DEF Recorded
<1>4. {c.key : c \in NewChunks(p)} \cup {at[p].key} = Keys(p)
  <2> DEFINE K(c) == ChunkKey(at[p].key.project, c.seq, c.text)
             New(c) == [seq |-> c.seq, off |-> c.off, text |-> c.text, key |-> K(c)]
  <2>1. NewChunks(p) = {New(c) : c \in Range(at[p].plan)}
    BY DEF NewChunks
  <2>2. Keys(p) = {at[p].key} \cup {K(c) : c \in Range(at[p].plan)}
    BY DEF Keys
  <2>3. \A c : New(c).key = K(c)
    OBVIOUS
  <2> HIDE DEF K, New
  <2> QED
    BY <2>1, <2>2, <2>3
<1>5. ChunkKeys' = (IF Keeps(p) THEN ChunkKeys ELSE {}) \cup {c.key : c \in NewChunks(p)}
  BY DEF ChunkKeys, Recorded
<1>6. Named' = ChunkKeys' \cup {at[p].key}
  BY <1>3 DEF Named
<1>7. Keys(p) \subseteq Named' /\ Named' \subseteq Named \cup Keys(p)
  BY <1>4, <1>5, <1>6 DEF Named
<1>8. Named \subseteq Named' \cup Replaced(p)
  <2>1. row # NoRow => at[p].cur # NoRow /\ at[p].cur.key = row.key
    BY <1>0 DEF LedgerInv, CurInv
  <2> QED
    BY <1>4, <1>5, <1>6, <2>1 DEF Named, Replaced
<1>9. Unused(p) \in SUBSET pending
  BY DEF Unused, Mine
<1> DEFINE queued == Queue(orphans, Unused(p))
           left == DOMAIN queued \ Keys(p)
<1>10. /\ DOMAIN queued = DOMAIN orphans \cup {e.key : e \in Unused(p)}
       /\ \A k \in DOMAIN orphans :
            queued[k] = orphans[k] \cup {e.pass : e \in {e \in Unused(p) : e.key = k}}
  BY <1>0, <1>9, QueueType
<1>11. orphans' = [k \in left \cup Replaced(p) |-> IF k \in left THEN queued[k] ELSE {}]
  BY DEF Recorded
<1> HIDE DEF queued
<1>12. DOMAIN orphans' = left \cup Replaced(p) /\ \A k \in left : orphans'[k] = queued[k]
  BY <1>11
<1>13. ASSUME NEW k \in DOMAIN orphans \ Keys(p)
       PROVE  /\ orphans[k] \subseteq orphans'[k]
              /\ k \notin {e.key : e \in Unused(p)} => orphans'[k] = orphans[k]
  <2>1. orphans'[k] = orphans[k] \cup {e.pass : e \in {e \in Unused(p) : e.key = k}}
    BY <1>10, <1>12
  <2> QED
    BY <2>1
<1> QED
  BY <1>1, <1>2, <1>3, <1>7, <1>8, <1>10, <1>12, <1>13

LEMMA RecordsLedger ==
  ASSUME LedgerInv, Types', NEW p \in Passes, Write(p), Recorded(p) PROVE LedgerInv'
<1> DEFINE keys == Keys(p)
           unused == {e.key : e \in Unused(p)}
<1>0. TypeOK /\ at \in [Passes -> Locals] /\ at[p].pc = "write" /\ at[p].puts = <<>>
  BY WriteIs DEF LedgerInv, Types, TypeOK, Planned
<1>1. /\ Mine(p) \cap del.pend = {}
      /\ keys \cap del.orph \cap DOMAIN orphans = {}
      /\ Replaced(p) \cap Held = {} /\ unused \cap Held = {}
      /\ UNCHANGED <<bucket, lapsed, late, del, lost>>
  BY WriteIs
<1>2. /\ pending' = pending \ Mine(p) /\ cut' = cut \cup Unwaited(keys) /\ Ends(p)
  BY DEF Recorded
<1>3. at'[p] = Over /\ Over.pc = "over" /\ Over.puts = <<>> /\ \A q \in Passes : q # p => at'[q] = at[q]
  BY <1>0, <1>2, EndsIs
<1>4. /\ ~del.row
      /\ \A k \in keys : Ent(k, p) \in pending
      /\ keys \subseteq Named' /\ Named' \subseteq Named \cup keys
      /\ Named \subseteq Named' \cup Replaced(p)
      /\ DOMAIN orphans' = ((DOMAIN orphans \cup unused) \ keys) \cup Replaced(p)
      /\ \A k \in DOMAIN orphans \ keys :
           /\ orphans[k] \subseteq orphans'[k]
           /\ k \notin unused => orphans'[k] = orphans[k]
  BY RecordedIs
<1>5. \A e \in Mine(p) : e = Ent(e.key, p) /\ (e.key \in keys \/ e.key \in unused)
  BY <1>0, Entries DEF Mine, Unused
<1>6. del.orph \subseteq Held /\ {e.key : e \in del.pend} \subseteq Held
  BY DEF Held
<1>7. Emptied' = Emptied /\ \A q \in Passes : q # p => Keys(q)' = Keys(q)
  BY <1>1, <1>3 DEF Emptied, Keys
<1> HIDE DEF keys, unused
<1>8. DelInv'
  <2>1. \A k \in del.orph \cap DOMAIN orphans' : k \in DOMAIN orphans \ keys /\ orphans'[k] = orphans[k]
    BY <1>1, <1>4, <1>6
  <2>2. \A k \in del.known : k \in DOMAIN orphans \cap del.orph /\ k \notin keys /\ k \notin Named
    BY <1>1, <1>4 DEF LedgerInv, DelInv
  <2>3. \A k \in del.known : k \in DOMAIN orphans' \cap del.orph /\ k \notin Named'
    BY <1>4, <2>2
  <2> QED
    BY <1>1, <1>2, <1>4, <2>1, <2>3 DEF LedgerInv, DelInv, Quiet
<1>9. NamedInv'
  <2> SUFFICES ASSUME NEW k \in Named' PROVE k \in DOMAIN bucket \/ k \in lost
    BY <1>1 DEF NamedInv
  <2>1. CASE k \in keys
    <3>1. Ent(k, p) \in Mine(p)
      BY <1>0, <1>4, <2>1, Entries DEF Mine
    <3> QED
      BY <1>0, <1>1, <1>4, <2>1, <3>1 DEF LedgerInv, FoundInv, keys
  <2>2. CASE k \notin keys
    BY <1>4, <2>2 DEF LedgerInv, NamedInv
  <2> QED
    BY <2>1, <2>2
<1>10. FoundInv'
  <2> SUFFICES ASSUME NEW q \in Passes, at'[q].pc \in {"lock", "write"}, NEW k \in Keys(q)', Ent(k, q) \in pending'
               PROVE  k \in DOMAIN bucket \/ k \in lost \/ (Ent(k, q) \in del.pend /\ k \in Emptied)
    BY <1>1, <1>7 DEF FoundInv
  <2>1. q # p
    BY <1>3
  <2> QED
    BY <1>2, <1>3, <1>7, <2>1 DEF LedgerInv, FoundInv
<1>11. LateInv' /\ CurInv'
  BY <1>0, <1>1, <1>3 DEF LedgerInv, LateInv, CurInv, Types, TypeOK, LatePuts
<1>12. SignedInv'
  <2> SUFFICES ASSUME NEW q \in Passes \ lapsed, NEW k \in Signed(q)'
               PROVE  \/ Ent(k, q) \in pending' \/ k \in cut'
                      \/ k \in DOMAIN orphans' /\ q \in orphans'[k]
    BY <1>1 DEF SignedInv
  <2>1. q # p
    <3>1. ASSUME q = p PROVE FALSE
      <4>1. k \notin {u.key : u \in Range(at'[q].puts)}
        BY <1>3, <3>1 DEF Range
      <4>2. PICK u \in late : u.pass = p
        BY <1>1, <3>1, <4>1 DEF Signed
      <4> QED
        BY <1>0, <4>2 DEF LedgerInv, LateInv
    <3> QED
      BY <3>1
  <2>2. k \in Signed(q)
    BY <1>1, <1>3, <2>1 DEF Signed
  <2>3. Ent(k, q) \in pending \/ k \in cut \/ (k \in DOMAIN orphans /\ q \in orphans[k])
    BY <2>2 DEF LedgerInv, SignedInv
  <2>4. Ent(k, q) \notin Mine(p)
    BY <1>0, <2>1, Entries DEF Mine
  <2>5. CASE k \in DOMAIN orphans /\ q \in orphans[k] /\ k \in keys
    BY <1>2, <2>5 DEF Unwaited
  <2> QED
    BY <1>2, <1>4, <2>3, <2>4, <2>5
<1>13. Tracked'
  <2> SUFFICES ASSUME NEW k \in DOMAIN bucket, ~(k \in Named'), k \notin DOMAIN orphans', k \notin cut'
               PROVE  \E e \in pending' : e.key = k
    BY <1>1 DEF Tracked
  <2>1. k \notin Named /\ k \notin keys /\ k \notin DOMAIN orphans /\ k \notin unused /\ k \notin cut
    BY <1>2, <1>4
  <2>2. PICK e \in pending : e.key = k
    BY <2>1 DEF LedgerInv, Tracked
  <2> QED
    BY <1>2, <1>5, <2>1, <2>2
<1>14. SurvivesInv'
  <2> SUFFICES ASSUME del.phase = "emptied", NEW k \in DOMAIN bucket PROVE Survives(k)'
    BY <1>1 DEF SurvivesInv
  <2>1. Survives(k)
    BY DEF LedgerInv, SurvivesInv
  <2>2. CASE k \in Named'
    BY <1>1, <1>4, <2>2 DEF Survives
  <2>3. CASE k \notin Named' /\ k \in Replaced(p) \cup unused
    BY <1>1, <1>4, <1>6, <2>3 DEF Survives
  <2>4. CASE k \notin Named' /\ k \notin Replaced(p) /\ k \notin unused
    <3>1. k \notin Named /\ k \notin keys
      BY <1>4, <2>4
    <3>2. \A e \in pending \ del.pend : e.key = k => e \in pending'
      BY <1>2, <1>5, <2>4, <3>1
    <3> QED
      BY <1>1, <1>2, <1>4, <2>1, <3>1, <3>2 DEF Survives
  <2> QED
    BY <2>2, <2>3, <2>4
<1> QED
  BY <1>8, <1>9, <1>10, <1>11, <1>12, <1>13, <1>14 DEF LedgerInv

LEMMA WriteLedger == ASSUME LedgerInv, Types', NEW p \in Passes, Write(p) PROVE LedgerInv'
<1>1. CASE Recorded(p)
  BY <1>1, RecordsLedger
<1>2. CASE GiveUp(p) /\ Ends(p) /\ UNCHANGED <<settled, recorded, cut>>
  <2>1. at[p].pc = "write" /\ UNCHANGED <<bucket, row, chunks, lapsed, late, del, lost, cut>>
    BY <1>2, WriteIs DEF recorded
  <2> QED
    BY <1>2, <2>1, EndsIs, GivesUp
<1> QED
  BY <1>1, <1>2, WriteIs

\* A deletion only says what it will take.
LEMMA Takes ==
  ASSUME LedgerInv, Types', DelInv', del.phase = "idle", del'.phase = "taken",
         UNCHANGED <<bucket, row, chunks, pending, orphans, lapsed, late, at, lost, cut>>
  PROVE  LedgerInv'
<1>1. Emptied = {} /\ Emptied' = {}
  BY DEF Emptied
<1>2. NamedInv' /\ FoundInv' /\ Tracked' /\ SurvivesInv'
  BY <1>1 DEF LedgerInv, NamedInv, FoundInv, Tracked, SurvivesInv, Named, ChunkKeys, Keys
<1>3. LateInv' /\ SignedInv' /\ CurInv'
  BY DEF LedgerInv, LateInv, SignedInv, CurInv, Signed
<1> QED
  BY <1>2, <1>3 DEF LedgerInv

LEMMA SweepTakeLedger == ASSUME LedgerInv, Types', SweepTake PROVE LedgerInv'
<1> DEFINE expired == row # NoRow /\ row.old
           named == IF expired THEN {} ELSE Named
           gone == {e \in pending : \E o \in pending : o.key = e.key /\ o.pass \in lapsed}
           queue == [k \in DOMAIN orphans \cup {e.key : e \in gone} |->
                       IF k \in DOMAIN orphans THEN orphans[k] ELSE {}]
           dead == {k \in DOMAIN queue : /\ k \notin named
                                         /\ k \notin {e.key : e \in pending \ gone}
                                         /\ queue[k] \subseteq lapsed}
           keys == dead \cup (IF expired THEN RowKeys ELSE {})
           cuts == {e.key : e \in {e \in gone : e.pass \notin lapsed}}
           known == dead \cap DOMAIN orphans
<1>1. /\ del.phase = "idle"
      /\ del' = [phase |-> "taken", row |-> expired, pend |-> gone, orph |-> dead, keys |-> keys,
                 cut |-> cuts, known |-> known, waits |-> FALSE]
      /\ UNCHANGED <<bucket, row, chunks, pending, orphans, lapsed, late, at, lost, cut>>
  BY DEF SweepTake, recorded, ledger, history
<1>2. expired => row # NoRow /\ Named \subseteq keys
  BY DEF RowKeys
<1>3. gone \subseteq pending /\ dead \subseteq keys
  OBVIOUS
<1>4. \A e \in gone : e.pass \in lapsed \/ e.key \in cuts
  OBVIOUS
<1>5. \A k \in dead \cap DOMAIN orphans : orphans[k] \subseteq lapsed
  OBVIOUS
<1>6. \A k \in known : /\ k \in DOMAIN orphans \cap dead
                       /\ \A e \in pending : e.key = k => e \in gone
                       /\ ~expired => k \notin Named
  OBVIOUS
<1>7. Named' = Named
  BY <1>1 DEF Named, ChunkKeys
<1> HIDE DEF expired, gone, dead, keys, cuts, known
<1>8. DelInv'
  BY <1>1, <1>2, <1>3, <1>4, <1>5, <1>6, <1>7 DEF DelInv
<1> QED
  BY <1>1, <1>8, Takes

LEMMA DeleteTakeLedger == ASSUME LedgerInv, Types', DeleteTake PROVE LedgerInv'
<1> DEFINE keys == RowKeys \cup {e.key : e \in pending}
<1>1. /\ del.phase = "idle" /\ row # NoRow
      /\ del' = [phase |-> "taken", row |-> TRUE, pend |-> pending, orph |-> {}, cut |-> {},
                 known |-> {}, keys |-> keys, waits |-> TRUE]
      /\ UNCHANGED <<bucket, row, chunks, pending, orphans, lapsed, late, at, lost, cut>>
  BY DEF DeleteTake, recorded, ledger, history
<1>2. Named \subseteq keys
  BY <1>1 DEF RowKeys
<1>3. Named' = Named
  BY <1>1 DEF Named, ChunkKeys
<1> HIDE DEF keys
<1>4. DelInv'
  BY <1>1, <1>2, <1>3 DEF DelInv
<1> QED
  BY <1>1, <1>4, Takes

LEMMA EmptyBucketLedger == ASSUME LedgerInv, Types', EmptyBucket PROVE LedgerInv'
<1>1. /\ del.phase = "taken" /\ lost' = lost \cup Reused
      /\ UNCHANGED <<row, chunks, pending, orphans, lapsed, late, at, cut>>
  BY DEF EmptyBucket, recorded, ledger
<1>2. DOMAIN bucket' = DOMAIN bucket \ del.keys
  BY DEF EmptyBucket, Restrict
<1>3. /\ del'.phase = "emptied" /\ del'.row = del.row /\ del'.keys = del.keys /\ del'.pend = del.pend
      /\ del'.orph = del.orph /\ del'.cut = del.cut /\ del'.known = del.known /\ del'.waits = del.waits
  BY DEF EmptyBucket, LedgerInv, Types, TypeOK, Deleting
<1>4. Named' = Named /\ Emptied' = del.keys /\ Emptied = {} /\ \A p : Keys(p)' = Keys(p)
  BY <1>1, <1>3 DEF Named, ChunkKeys, Emptied, Keys
<1>5. DelInv'
  <2>1. del'.phase # "idle"
    BY <1>3
  <2> QED
    BY <1>1, <1>3, <1>4, <2>1 DEF LedgerInv, DelInv
<1>6. NamedInv'
  BY <1>1, <1>2, <1>3, <1>4 DEF LedgerInv, NamedInv, DelInv, Reused
<1>7. FoundInv'
  <2> SUFFICES ASSUME NEW p \in Passes, at[p].pc \in {"lock", "write"}, NEW k \in Keys(p),
                      Ent(k, p) \in pending
               PROVE  k \in DOMAIN bucket' \/ k \in lost' \/ (Ent(k, p) \in del.pend /\ k \in del.keys)
    BY <1>1, <1>3, <1>4 DEF FoundInv
  <2>1. k \in DOMAIN bucket \/ k \in lost
    BY <1>4 DEF LedgerInv, FoundInv
  <2>2. CASE k \in DOMAIN bucket /\ k \in del.keys /\ Ent(k, p) \notin del.pend
    <3>1. Ent(k, p).key = k
      BY DEF Ent
    <3>2. k \notin del.known
      BY <2>2, <3>1 DEF LedgerInv, DelInv
    <3> QED
      BY <1>1, <2>2, <3>1, <3>2 DEF Reused
  <2> QED
    BY <1>1, <1>2, <2>1, <2>2
<1>8. LateInv' /\ SignedInv' /\ CurInv'
  BY <1>1 DEF LedgerInv, LateInv, SignedInv, CurInv, Signed
<1>9. Tracked'
  BY <1>1, <1>2, <1>4 DEF LedgerInv, Tracked
<1>10. SurvivesInv'
  <2> SUFFICES ASSUME NEW k \in DOMAIN bucket, k \notin del.keys PROVE Survives(k)'
    BY <1>2 DEF SurvivesInv
  <2>1. k \in Named \/ k \in DOMAIN orphans \/ k \in cut \/ \E e \in pending : e.key = k
    BY DEF LedgerInv, Tracked
  <2>2. k \notin del.orph /\ (k \in Named => ~del.row)
    BY DEF LedgerInv, DelInv
  <2> QED
    BY <1>1, <1>3, <1>4, <2>1, <2>2 DEF Survives
<1> QED
  BY <1>5, <1>6, <1>7, <1>8, <1>9, <1>10 DEF LedgerInv

LEMMA DeleteCommitsLedger == ASSUME LedgerInv, Types', DeleteCommits PROVE LedgerInv'
<1> DEFINE entries == pending \cap del.pend
           queue == Queue(orphans, entries)
           kept == DOMAIN queue \ del.orph
<1>0. TypeOK /\ entries = del.pend /\ entries \in SUBSET pending
  BY DEF LedgerInv, DelInv, Types
<1>1. /\ del.phase = "emptied" /\ del' = Quiet /\ pending' = pending \ del.pend
      /\ orphans' = [k \in kept |-> IF del.waits \/ k \in DOMAIN orphans THEN queue[k] ELSE {}]
      /\ row' = (IF del.row THEN NoRow ELSE row) /\ chunks' = (IF del.row THEN {} ELSE chunks)
      /\ cut' = cut \cup del.cut
      /\ UNCHANGED <<bucket, lapsed, late, at, lost>>
  BY <1>0 DEF DeleteCommits
<1>2. DOMAIN queue = DOMAIN orphans \cup {e.key : e \in del.pend}
  BY <1>0, QueueType
<1>3. \A k \in DOMAIN queue :
        /\ k \in DOMAIN orphans => orphans[k] \subseteq queue[k]
        /\ \A e \in del.pend : e.key = k => e.pass \in queue[k]
  <2> TAKE k \in DOMAIN queue
  <2>1. queue[k] = (IF k \in DOMAIN orphans THEN orphans[k] ELSE {})
                     \cup {e.pass : e \in {e \in del.pend : e.key = k}}
    BY <1>0 DEF Queue
  <2> QED
    BY <2>1
<1> HIDE DEF queue
<1>4. /\ DOMAIN orphans' = (DOMAIN orphans \cup {e.key : e \in del.pend}) \ del.orph
      /\ \A k \in DOMAIN orphans' :
           /\ k \in DOMAIN orphans => orphans[k] \subseteq orphans'[k]
           /\ del.waits => \A e \in del.pend : e.key = k => e.pass \in orphans'[k]
  BY <1>1, <1>2, <1>3
<1>5. Named' = IF del.row THEN {} ELSE Named
  BY <1>1 DEF Named, ChunkKeys
<1>6. Emptied' = {} /\ \A p : Keys(p)' = Keys(p)
  BY <1>1 DEF Emptied, Keys, Quiet
<1>7. DelInv'
  <2>1. /\ Quiet.row = FALSE /\ Quiet.pend = {} /\ Quiet.orph = {} /\ Quiet.known = {} /\ Quiet.keys = {}
    BY DEF Quiet
  <2> QED
    BY <1>1, <2>1 DEF DelInv
<1>8. NamedInv'
  BY <1>1, <1>5 DEF LedgerInv, NamedInv
<1>9. FoundInv'
  BY <1>1, <1>6 DEF LedgerInv, FoundInv
<1>10. LateInv' /\ CurInv'
  BY <1>1 DEF LedgerInv, LateInv, CurInv
<1>11. SignedInv'
  <2> SUFFICES ASSUME NEW p \in Passes \ lapsed, NEW k \in Signed(p)
               PROVE  \/ Ent(k, p) \in pending' \/ k \in cut'
                      \/ k \in DOMAIN orphans' /\ p \in orphans'[k]
    BY <1>1 DEF SignedInv, Signed
  <2>1. CASE Ent(k, p) \in del.pend
    <3>1. Ent(k, p).key = k /\ Ent(k, p).pass = p
      BY DEF Ent
    <3>2. k \in del.cut \/ (del.waits /\ del.orph = {})
      BY <2>1, <3>1 DEF LedgerInv, DelInv
    <3>3. ASSUME del.waits, del.orph = {} PROVE k \in DOMAIN orphans' /\ p \in orphans'[k]
      <4>1. k \in {e.key : e \in del.pend}
        BY <2>1, <3>1
      <4>2. k \in DOMAIN orphans'
        BY <1>4, <3>3, <4>1
      <4> QED
        BY <1>4, <2>1, <3>1, <3>3, <4>2
    <3> QED
      BY <1>1, <3>2, <3>3
  <2>2. CASE k \in DOMAIN orphans /\ p \in orphans[k]
    <3>1. k \notin del.orph
      BY <2>2 DEF LedgerInv, DelInv
    <3> QED
      BY <1>4, <2>2, <3>1
  <2> QED
    BY <1>1, <2>1, <2>2 DEF LedgerInv, SignedInv
<1>12. Tracked'
  <2> SUFFICES ASSUME NEW k \in DOMAIN bucket
               PROVE  k \in Named' \/ k \in DOMAIN orphans' \/ k \in cut' \/ \E e \in pending' : e.key = k
    BY <1>1 DEF Tracked
  <2>1. Survives(k)
    BY <1>1 DEF LedgerInv, SurvivesInv
  <2> QED
    BY <1>1, <1>4, <1>5, <2>1 DEF Survives
<1>13. SurvivesInv'
  BY <1>1 DEF SurvivesInv, Quiet
<1> QED
  BY <1>7, <1>8, <1>9, <1>10, <1>11, <1>12, <1>13 DEF LedgerInv

LEMMA DeleteFailsLedger == ASSUME LedgerInv, Types', DeleteFails PROVE LedgerInv'
<1>1. PICK gone \in IF del.phase = "taken" THEN SUBSET del.keys ELSE {del.keys} :
        /\ bucket' = Restrict(bucket, DOMAIN bucket \ gone)
        /\ lost' = lost \cup gone
  BY DEF DeleteFails
<1>2. /\ del' = Quiet /\ DOMAIN bucket' = DOMAIN bucket \ gone
      /\ Emptied \subseteq gone
      /\ UNCHANGED <<row, chunks, pending, orphans, lapsed, late, at, cut>>
  BY <1>1 DEF DeleteFails, recorded, ledger, Restrict, Emptied
<1>3. Named' = Named /\ Emptied' = {} /\ \A p : Keys(p)' = Keys(p)
  BY <1>2 DEF Named, ChunkKeys, Emptied, Keys, Quiet
<1>4. DelInv'
  <2>1. Quiet.row = FALSE /\ Quiet.pend = {} /\ Quiet.orph = {} /\ Quiet.known = {} /\ Quiet.keys = {}
    BY DEF Quiet
  <2> QED
    BY <1>2, <2>1 DEF DelInv
<1>5. NamedInv' /\ FoundInv' /\ Tracked'
  BY <1>1, <1>2, <1>3 DEF LedgerInv, NamedInv, FoundInv, Tracked
<1>6. LateInv' /\ SignedInv' /\ CurInv'
  BY <1>2 DEF LedgerInv, LateInv, SignedInv, CurInv, Signed
<1>7. SurvivesInv'
  BY <1>2 DEF SurvivesInv, Quiet
<1> QED
  BY <1>4, <1>5, <1>6, <1>7 DEF LedgerInv

LEMMA DeletionLedger == ASSUME LedgerInv, Types', Deletion PROVE LedgerInv'
BY SweepTakeLedger, DeleteTakeLedger, EmptyBucketLedger, DeleteCommitsLedger, DeleteFailsLedger
   DEF Deletion

\* The ledger is of the rows' keys, and time only ends what it waits for.
LEMMA TimePasses ==
  ASSUME LedgerInv, Types', Named' = Named, row = NoRow <=> row' = NoRow, row # NoRow => row'.key = row.key,
         lapsed \subseteq lapsed',
         UNCHANGED <<bucket, pending, orphans, late, at, del, lost, cut>>
  PROVE  LedgerInv'
<1>1. Emptied' = Emptied /\ \A p : Keys(p)' = Keys(p) /\ Signed(p)' = Signed(p)
  BY DEF Emptied, Keys, Signed
<1>2. DelInv'
  BY DEF LedgerInv, DelInv, Quiet
<1>3. NamedInv' /\ FoundInv' /\ Tracked' /\ SurvivesInv'
  BY <1>1 DEF LedgerInv, NamedInv, FoundInv, Tracked, SurvivesInv, Survives
<1>4. LateInv' /\ SignedInv' /\ CurInv'
  BY <1>1 DEF LedgerInv, LateInv, SignedInv, CurInv
<1> QED
  BY <1>2, <1>3, <1>4 DEF LedgerInv

LEMMA AroundLedger == ASSUME LedgerInv, Types', Around PROVE LedgerInv'
<1>1. CASE AppendLine \/ Rewrite \/ MoveProject \/ Switch
  <2>1. UNCHANGED <<bucket, row, chunks, pending, orphans, lapsed, late, at, del, lost, cut>>
    BY <1>1 DEF AppendLine, Rewrite, MoveProject, Switch, recorded, ledger, history
  <2>2. Named' = Named
    BY <2>1 DEF Named, ChunkKeys
  <2> QED
    BY <2>1, <2>2, TimePasses
<1>2. CASE RowAges
  <2>1. /\ row # NoRow /\ row' = [row EXCEPT !.old = TRUE]
        /\ UNCHANGED <<bucket, chunks, pending, orphans, lapsed, late, at, del, lost, cut>>
    BY <1>2 DEF RowAges, ledger, history
  <2>2. row \in Row
    BY <2>1 DEF LedgerInv, Types, TypeOK
  <2>3. row' \in Row /\ row'.key = row.key
    BY <2>1, <2>2 DEF Row
  <2>4. row' # NoRow
    BY <2>3, NoRowAssumption
  <2>5. Named' = Named
    BY <2>1, <2>3, <2>4 DEF Named, ChunkKeys
  <2> QED
    BY <2>1, <2>3, <2>4, <2>5, TimePasses
<1>3. ASSUME NEW p \in Passes, Lapse(p) PROVE LedgerInv'
  <2>1. lapsed \subseteq lapsed' /\ UNCHANGED <<bucket, row, chunks, pending, orphans, late, at, del, lost, cut>>
    BY <1>3 DEF Lapse, recorded, ledger, history
  <2>2. Named' = Named
    BY <2>1 DEF Named, ChunkKeys
  <2> QED
    BY <2>1, <2>2, TimePasses
<1>4. ASSUME NEW u \in late, PutLate(u) PROVE LedgerInv'
  BY <1>4, PutLateLedger
<1> QED
  BY <1>1, <1>2, <1>3, <1>4 DEF Around

LEMMA InitLedger == Init => LedgerInv
<1> SUFFICES ASSUME Init PROVE LedgerInv
  OBVIOUS
<1>1. /\ pending = {} /\ orphans = <<>> /\ lapsed = {} /\ late = {} /\ lost = {} /\ cut = {}
      /\ at = [p \in Passes |-> Empty] /\ del = Quiet
  BY DEF Init
<1>2. Types
  BY InitTypes
<1>3. Quiet.phase = "idle" /\ Quiet.row = FALSE /\ Quiet.pend = {} /\ Quiet.orph = {} /\ Quiet.known = {}
  BY DEF Quiet
<1>4. DelInv
  BY <1>1, <1>3 DEF DelInv
<1>5. Named = DOMAIN bucket
  <2>1. CASE row = NoRow /\ chunks = {} /\ bucket = <<>>
    BY <2>1 DEF Named, ChunkKeys
  <2>2. ASSUME NEW n \in Nat \ {0}, Archived(project, n) PROVE Named = DOMAIN bucket
    <3> DEFINE c == n \div ChunkLines
               key == TailKey(project, c, <<NoPass, 0>>)
               K(i) == ChunkKey(project, i, OldPart)
               Old(i) == [seq |-> i, off |-> (i - 1) * ChunkLines, text |-> OldPart, key |-> K(i)]
    <3>1. DOMAIN bucket = {key} \cup {K(i) : i \in 1 .. c}
      BY <2>2 DEF Archived, OldPart
    <3>2. chunks = {Old(i) : i \in 1 .. c} /\ row.key = key
      BY <2>2 DEF Archived, OldPart
    <3>3. row # NoRow
      BY <2>2, ArchivedType, NoRowAssumption, InitCases
    <3>4. \A i : Old(i).key = K(i)
      OBVIOUS
    <3> HIDE DEF Old, K, key, c
    <3> QED
      BY <3>1, <3>2, <3>3, <3>4 DEF Named, ChunkKeys
  <2> QED
    BY <2>1, <2>2, InitCases
<1>6. NamedInv /\ Tracked
  BY <1>5 DEF NamedInv, Tracked
<1>7. FoundInv /\ CurInv
  BY <1>1 DEF FoundInv, CurInv, Empty
<1>8. LateInv /\ SurvivesInv
  BY <1>1, <1>3 DEF LateInv, SurvivesInv
<1>9. SignedInv
  BY <1>1 DEF SignedInv, Signed, Empty, Range
<1> QED
  BY <1>2, <1>4, <1>6, <1>7, <1>8, <1>9 DEF LedgerInv

LEMMA StepLedger == ASSUME LedgerInv, [Next]_vars PROVE LedgerInv'
<1>0. Types'
  BY StepTypes DEF LedgerInv
<1>1. ASSUME NEW p \in Passes, PassStep(p) PROVE LedgerInv'
  BY <1>0, <1>1, ScanLedger, PresignLedger, PutLedger, PutFailsLedger, KillLedger, DecideLedger,
     HeadsLedger, LockLedger, WriteLedger DEF PassStep
<1>2. CASE Deletion
  BY <1>0, <1>2, DeletionLedger
<1>3. CASE Around
  BY <1>0, <1>3, AroundLedger
<1>4. CASE UNCHANGED vars
  <2>1. UNCHANGED <<bucket, row, chunks, pending, orphans, lapsed, late, at, del, lost, cut>>
    BY <1>4 DEF vars
  <2>2. Named' = Named
    BY <2>1 DEF Named, ChunkKeys
  <2> QED
    BY <1>0, <2>1, <2>2, TimePasses
<1> QED
  BY <1>1, <1>2, <1>3, <1>4 DEF Next

LEMMA LedgerHolds == Spec => []LedgerInv
<1>1. LedgerInv /\ [Next]_vars => LedgerInv'
  BY StepLedger
<1> QED
  BY InitLedger, <1>1, PTL DEF Spec

\* Whatever the order of the passes, the sweep and the Member's deletes, a key in
\* the bucket is named by a row, pending, or queued: none is forgotten.
THEOREM TrackedHolds == Spec => []Tracked
<1>1. LedgerInv => Tracked
  BY DEF LedgerInv
<1> QED
  BY LedgerHolds, <1>1, PTL

\* What a row names is in the bucket, except what was emptied under a live upload,
\* by a delete rolled back, or by the deletion that takes the row.
THEOREM NamedExistHolds == Spec => []NamedExist
<1>1. LedgerInv => NamedExist
  BY DEF LedgerInv, NamedInv, NamedExist, Emptied
<1> QED
  BY LedgerHolds, <1>1, PTL
-----------------------------------------------------------------------------
(* Rows and what they are made of *)

\* What of a text comes after n chunks.
Rest(t, n) == SubSeq(t, Lines(n) + 1, Len(t))

\* The i-th chunk of a text.
ChunkOf(t, i) == SubSeq(t, Lines(i - 1) + 1, Lines(i))

\* A row's chunks are numbered, keyed by what they hold, and, unless it is spliced,
\* pieces of the text whose hash it carries.
Pieces(r) ==
  /\ Lines(Cardinality(chunks)) <= Len(r.sha)
  /\ r.sealedSha = SubSeq(r.sha, 1, Lines(Cardinality(chunks)))
  /\ \A c \in chunks : c.text = ChunkOf(r.sha, c.seq)

Numbered(r) ==
  /\ r.sealed = Lines(Cardinality(chunks))
  /\ {c.seq : c \in chunks} = 1 .. Cardinality(chunks)
  /\ \A c \in chunks : c.key = ChunkKey(r.project, c.seq, c.text)
  /\ \A c, d \in chunks : c.seq = d.seq => c = d

RowInv ==
  row # NoRow => /\ row.size >= row.sealed
                 /\ Holds(row, row.project) => Numbered(row) /\ (~row.spliced => Pieces(row))

\* From its URLs to its row, a pass has a key of its own, after the chunks it has
\* planned, and uploads the rest of the text under it.
Sending == {"put", "confirm", "heads", "lock", "write"}

Aims(me, u) ==
  IF u.key.kind = "chunk" THEN SubSeq(me.scan, u.from + 1, u.to) = u.key.id
                          ELSE u.key = me.key /\ u.from = Lines(me.key.n) /\ u.to = Len(me.scan)

Sends(p, me) ==
  /\ me.key.kind # "chunk" /\ Lines(me.key.n) <= Len(me.scan)
  /\ me.key.n > 0 => me.asked > 0 /\ me.key.id = <<p, me.asked - 1>>
  /\ me.want # "whole" => me.key.n = me.sealed.chunks + Len(me.plan)
  /\ me.want = "whole" => me.key.n = 0
  /\ \A u \in Range(me.puts) : Aims(me, u)

Placed(p, me) == me.sealed.bytes = Lines(me.sealed.chunks) /\ (me.pc \in Sending => Sends(p, me))

PlacedInv == \A p \in Passes : Placed(p, at[p])

\* What a confirm compared under the lock is so until it writes, or there is no row.
StillInv == \A p \in Passes : at[p].pc = "write" /\ row # NoRow => Still(p)

ShapeInv == RowInv /\ PlacedInv /\ StillInv

\* A row's chunks count for the Session where the row is.
LEMMA HoldsHere ==
  ASSUME TypeOK, NEW j, Holds(row, j)
  PROVE  row # NoRow /\ row \in Row /\ row.project = j /\ row.key.project = j /\ Holds(row, row.project)
         /\ row.key.n = Cardinality(chunks) /\ chunks # {}
BY DEF TypeOK, Holds, TailOf

LEMMA SealedLines ==
  ASSUME TypeOK, RowInv
  PROVE  Sealed.bytes = Lines(Sealed.chunks)
<1>1. CASE Holds(row, project)
  BY <1>1, HoldsHere DEF RowInv, Numbered, Sealed
<1>2. CASE ~Holds(row, project)
  BY <1>2, LinesAdd, 0 \in Nat DEF Sealed, Nothing
<1> QED
  BY <1>1, <1>2

LEMMA OverPlaced == ASSUME NEW p PROVE Placed(p, Over) /\ Placed(p, Empty)
BY LinesAdd, 0 \in Nat DEF Placed, Over, Empty, Nothing, Sending

\* Where the plan of what is sealed ends, in lines.
LEMMA PlanLines ==
  ASSUME NEW text \in Seq(Nat), NEW s \in Sealing, NEW plan \in Seq(PlanParts), plan # <<>>,
         IsPlan(text, s, plan), s.bytes = Lines(s.chunks)
  PROVE  /\ s.chunks + Len(plan) \in Nat
         /\ EndOf(s, plan) = Lines(s.chunks + Len(plan)) /\ EndOf(s, plan) <= Len(text)
<1>1. s.chunks \in Nat /\ Len(plan) \in Nat
  BY DEF Sealing
<1>2. Lines(s.chunks + Len(plan)) = Lines(s.chunks) + Lines(Len(plan))
  BY <1>1, LinesAdd
<1>3. EndOf(s, plan) = s.bytes + Lines(Len(plan)) /\ EndOf(s, plan) <= Len(text)
  BY PlanEnds
<1> QED
  BY <1>1, <1>2, <1>3

\* A pass that moves, and touches no row.
LEMMA Moves ==
  ASSUME Types, ShapeInv, NEW p \in Passes, NEW me, at' = [at EXCEPT ![p] = me],
         Placed(p, me), me.pc # "write", UNCHANGED recorded
  PROVE  ShapeInv'
<1>1. at'[p] = me /\ \A q \in Passes : q # p => at'[q] = at[q]
  BY DEF Types, TypeOK
<1>2. PlacedInv'
  BY <1>1 DEF ShapeInv, PlacedInv
<1>3. RowInv'
  BY DEF ShapeInv, RowInv, Holds, Numbered, Pieces, recorded
<1>4. StillInv'
  <2> SUFFICES ASSUME NEW q \in Passes, at'[q].pc = "write", row' # NoRow PROVE Still(q)'
    BY DEF StillInv
  <2>1. at'[q] = at[q]
    BY <1>1
  <2>2. Still(q)
    BY <2>1 DEF ShapeInv, StillInv, recorded
  <2> QED
    BY <2>1, <2>2 DEF Still, Chunked, Holds, recorded
<1> QED
  BY <1>2, <1>3, <1>4 DEF ShapeInv

\* Where a presign takes its pass.
PresignTakes(p, me) ==
  /\ at' = [at EXCEPT ![p] = me]
  /\ Placed(p, me)
  /\ me.pc \in {"over", "ask", "put"}
  /\ me.pc # "over" => me.asked \in {at[p].asked, at[p].asked + 1}
  /\ me.pc = "put" /\ me.key.n > 0 => me.asked = at[p].asked + 1

LEMMA AgainPlaces ==
  ASSUME TypeOK, NEW p \in Passes, Again(p), Placed(p, at[p])
  PROVE  \E me : /\ at' = [at EXCEPT ![p] = me] /\ Placed(p, me) /\ me.pc \in {"over", "ask"}
                 /\ me.pc = "ask" => me.asked = at[p].asked
<1> DEFINE me == [at[p] EXCEPT !.pc = "ask", !.want = "chunked", !.tries = 2]
<1>1. CASE Ends(p)
  BY <1>1, EndsIs, OverPlaced
<1>2. CASE at' = [at EXCEPT ![p].pc = "ask", ![p].want = "chunked", ![p].tries = 2]
  <2>1. at[p] \in Locals /\ at \in [Passes -> Locals]
    BY DEF TypeOK
  <2>2. at' = [at EXCEPT ![p] = me] /\ me.pc = "ask" /\ me.sealed = at[p].sealed /\ me.asked = at[p].asked
    BY <1>2, <2>1 DEF Locals
  <2>3. Placed(p, me)
    BY <2>2 DEF Placed, Sending
  <2> QED
    BY <2>2, <2>3
<1> QED
  BY <1>1, <1>2 DEF Again

\* The rest of a text, asked for by a key of its own.
LEMMA TailAims ==
  ASSUME NEW me, NEW key, NEW from, NEW to, key.kind # "chunk", me.key = key,
         from = Lines(key.n), to = Len(me.scan)
  PROVE  Aims(me, Upload(key, from, to))
BY DEF Aims, Upload

LEMMA TailKeyIs ==
  ASSUME NEW j, NEW n \in Nat, NEW nonce
  PROVE  /\ TailKey(j, n, nonce).kind # "chunk" /\ TailKey(j, n, nonce).n = n
         /\ TailKey(j, n, nonce).project = j
         /\ n > 0 => TailKey(j, n, nonce).id = nonce
BY DEF TailKey, WholeKey

LEMMA PresignPlaces ==
  ASSUME Types, ShapeInv, NEW p \in Passes, Presign(p)
  PROVE  \E me : PresignTakes(p, me)
<1> DEFINE nonce == <<p, at[p].asked>>
           before == at[p]
<1>0. /\ before \in Locals /\ Planned(before) /\ before.pc = "ask" /\ before.asked \in Nat
      /\ at \in [Passes -> Locals] /\ before.scan \in Seq(Nat) /\ Len(before.scan) \in Nat
      /\ before.sealed \in Sealing /\ before.plan \in Seq(PlanParts) /\ before.puts = <<>>
      /\ before.sealed.bytes = Lines(before.sealed.chunks)
  BY SMTT(30) DEF Presign, Types, TypeOK, Locals, Planned, ShapeInv, PlacedInv, Placed
<1>00. /\ Sealed \in Sealing /\ Sealed.chunks \in Nat /\ Sealed.bytes = Lines(Sealed.chunks)
  BY SealedType, SealedLines DEF Types, ShapeInv, Sealing
<1>1. CASE AskChunked(p, nonce)
  <2> DEFINE plan == PlanFrom(before.scan, Sealed)
             key == TailKey(project, Sealed.chunks, nonce)
             me == [before EXCEPT !.asked = @ + 1, !.sealed = Sealed]
  <2>1. before.want = "chunked" /\ key.kind # "chunk" /\ key.n = Sealed.chunks /\ (key.n > 0 => key.id = nonce)
    BY <1>1, <1>00, TailKeyIs DEF AskChunked
  <2>2. /\ me.pc = "ask" /\ me.sealed = Sealed /\ me.scan = before.scan /\ me.asked = before.asked + 1
        /\ me \in Locals
    <3>1. me = [before EXCEPT !.asked = before.asked + 1, !.sealed = Sealed]
      BY <1>0 DEF Locals
    <3>2. before.asked + 1 \in Nat
      BY <1>0
    <3> QED
      BY <1>0, <1>00, <3>1, <3>2 DEF Locals
  <2> HIDE DEF me, key
  <2>3. CASE Ends(p)
    BY <2>3, OverPlaced, EndsIs DEF PresignTakes
  <2>4. CASE at' = [at EXCEPT ![p] = [me EXCEPT !.want = "whole"]]
    <3> DEFINE now == [me EXCEPT !.want = "whole"]
    <3>1. now.pc = "ask" /\ now.sealed = Sealed /\ now.asked = before.asked + 1
      BY <2>2 DEF Locals
    <3> HIDE DEF now
    <3> QED
      BY <2>4, <3>1, <1>00 DEF PresignTakes, Placed, Sending, now
  <2>5. CASE at' = [at EXCEPT ![p] = [me EXCEPT !.want = "seal", !.plan = plan.chunks]]
    <3> DEFINE now == [me EXCEPT !.want = "seal", !.plan = plan.chunks]
    <3>1. now.pc = "ask" /\ now.sealed = Sealed /\ now.asked = before.asked + 1
      BY <2>2 DEF Locals
    <3> HIDE DEF now
    <3> QED
      BY <2>5, <3>1, <1>00 DEF PresignTakes, Placed, Sending, now
  <2>6. CASE plan.fit = "seal" /\ at' = [at EXCEPT ![p] =
               [me EXCEPT !.pc = "put", !.key = key, !.plan = <<>>,
                          !.puts = <<Upload(key, Sealed.bytes, Len(before.scan))>>]]
    <3> DEFINE up == Upload(key, Sealed.bytes, Len(before.scan))
               now == [me EXCEPT !.pc = "put", !.key = key, !.plan = <<>>, !.puts = <<up>>]
    <3>1. Sealed.bytes <= Len(before.scan)
      BY <1>0, <1>00, <2>6, PlanFromIs
    <3>2. /\ now.pc = "put" /\ now.sealed = Sealed /\ now.asked = before.asked + 1 /\ now.key = key
          /\ now.plan = <<>> /\ now.puts = <<up>> /\ now.scan = before.scan /\ now.want = "chunked"
      BY <2>1, <2>2 DEF Locals, me
    <3>3. at' = [at EXCEPT ![p] = now]
      BY <2>6
    <3> HIDE DEF now
    <3>4. Aims(now, up)
      BY <1>00, <2>1, <3>2, TailAims
    <3>5. \A u \in Range(now.puts) : Aims(now, u)
      <4> HIDE DEF up
      <4> QED
        BY <3>2, <3>4 DEF Range
    <3>6. now.asked > 0 /\ now.asked - 1 = before.asked
      BY <1>0, <3>2
    <3>7. Sends(p, now)
      <4>1. Len(now.plan) = 0 /\ Sealed.chunks + 0 = Sealed.chunks
        BY <1>00, <3>2
      <4> QED
        BY <1>00, <2>1, <3>1, <3>2, <3>5, <3>6, <4>1 DEF Sends
    <3> QED
      BY <1>00, <3>2, <3>3, <3>7 DEF PresignTakes, Placed
  <2> QED
    BY <1>1, <2>3, <2>4, <2>5, <2>6 DEF AskChunked, me, key
<1>2. CASE AskSeal(p, nonce)
  <2> DEFINE plan == before.plan
             n == Sealed.chunks + Len(plan)
             key == TailKey(project, n, nonce)
             Keyed(i) == ChunkKey(project, Sealed.chunks + i, plan[i].text)
             end == EndOf(before.sealed, plan)
             To(i) == Upload(Keyed(i), plan[i].off, plan[i].off + Len(plan[i].text))
             parts == [i \in DOMAIN plan |-> To(i)]
             last == Upload(key, end, Len(before.scan))
             puts == parts \o <<last>>
  <2>1. before.want = "seal" /\ plan # <<>> /\ IsPlan(before.scan, before.sealed, plan)
    BY <1>0, <1>2 DEF AskSeal, Planned
  <2>2. CASE Again(p)
    <3>1. PICK me : /\ at' = [at EXCEPT ![p] = me] /\ Placed(p, me) /\ me.pc \in {"over", "ask"}
                    /\ me.pc = "ask" => me.asked = at[p].asked
      BY <2>2, AgainPlaces DEF Types, ShapeInv, PlacedInv
    <3> QED
      BY <3>1 DEF PresignTakes
  <2>3. CASE /\ Sealed = before.sealed
             /\ at' = [at EXCEPT ![p].pc = "put", ![p].asked = @ + 1, ![p].key = key,
                                 ![p].puts = puts]
    <3>1. n \in Nat /\ end = Lines(n) /\ end <= Len(before.scan)
      BY <1>0, <2>1, <2>3, PlanLines
    <3>2. key.kind # "chunk" /\ key.n = n /\ (key.n > 0 => key.id = nonce)
      BY <3>1, TailKeyIs
    <3> DEFINE now == [before EXCEPT !.pc = "put", !.asked = before.asked + 1, !.key = key, !.puts = puts]
    <3>3. at' = [at EXCEPT ![p] = now]
      BY <1>0, <2>3
    <3> HIDE DEF puts
    <3>4. /\ now.pc = "put" /\ now.sealed = Sealed /\ now.asked = before.asked + 1 /\ now.key = key
          /\ now.plan = plan /\ now.puts = puts /\ now.scan = before.scan /\ now.want = "seal"
      BY <1>0, <2>1, <2>3 DEF Locals
    <3> HIDE DEF now
    <3>5. \A i \in DOMAIN plan : To(i) \in Uploads /\ Aims(now, To(i))
      <4> TAKE i \in DOMAIN plan
      <4>1. i \in 1 .. Len(plan) /\ plan[i] \in PlanParts
        BY <1>0
      <4>2. plan[i].text = SubSeq(before.scan, plan[i].off + 1, plan[i].off + ChunkLines)
            /\ Len(plan[i].text) = ChunkLines
        BY <2>1, <4>1 DEF IsPlan
      <4>3. plan[i].off \in Nat /\ plan[i].text \in Seq(Nat) /\ plan[i].off + Len(plan[i].text) \in Nat
        <5>1. plan[i].off \in Nat /\ plan[i].text \in Seq(Nat)
          BY <4>1 DEF PlanParts, Texts
        <5> QED
          BY <5>1
      <4>4. Keyed(i) \in Key
        <5>1. project \in Projects /\ Sealed.chunks + i \in Nat
          BY <1>00, <4>1 DEF Types, TypeOK
        <5> QED
          BY <4>3, <5>1, ChunkKeyType
      <4>5. To(i) \in Uploads
        BY <4>3, <4>4 DEF Upload, Uploads
      <4>6. To(i).key = Keyed(i) /\ To(i).from = plan[i].off /\ To(i).to = plan[i].off + ChunkLines
        BY <4>2 DEF Upload
      <4>7. Keyed(i).kind = "chunk" /\ Keyed(i).id = plan[i].text
        BY DEF ChunkKey
      <4> QED
        BY <3>4, <4>2, <4>5, <4>6, <4>7 DEF Aims
    <3>6. last \in Uploads /\ Aims(now, last)
      <4>1. key \in Key
        BY <1>0, <3>1, TailKeyType DEF Types, TypeOK
      <4>2. last \in Uploads
        BY <1>0, <3>1, <4>1, LinesAdd DEF Upload, Uploads
      <4> QED
        BY <3>1, <3>2, <3>4, <4>2, TailAims
    <3> HIDE DEF last, To
    <3>7. parts \in Seq(Uploads) /\ \A u \in Range(parts) : Aims(now, u)
      BY <1>0, <3>5 DEF Range
    <3> HIDE DEF parts
    <3>8. \A u \in Range(now.puts) : Aims(now, u)
      BY <3>4, <3>6, <3>7, OneMore DEF puts
    <3> HIDE DEF n, key, end
    <3>9. now.asked > 0 /\ now.asked - 1 = before.asked
      BY <1>0, <3>4
    <3>10. Sends(p, now)
      BY <3>1, <3>2, <3>4, <3>8, <3>9 DEF Sends, n
    <3> QED
      BY <1>00, <3>3, <3>4, <3>10 DEF PresignTakes, Placed
  <2> QED
    BY <1>2, <2>2, <2>3 DEF AskSeal
<1>3. CASE AskWhole(p)
  <2> DEFINE key == WholeKey(project)
             up == Upload(key, 0, Len(before.scan))
             now == [before EXCEPT !.pc = "put", !.key = key, !.plan = <<>>, !.puts = <<up>>]
  <2>1. before.want = "whole" /\ at' = [at EXCEPT ![p] = now]
    BY <1>0, <1>3 DEF AskWhole
  <2>2. key.kind # "chunk" /\ key.n = 0 /\ Lines(0) = 0
    BY LinesAdd, 0 \in Nat DEF WholeKey
  <2>3. /\ now.pc = "put" /\ now.sealed = before.sealed /\ now.key = key
        /\ now.puts = <<up>> /\ now.scan = before.scan /\ now.want = "whole" /\ now.asked = before.asked
    BY <1>0, <2>1 DEF Locals
  <2> HIDE DEF now, key
  <2>4. Aims(now, up)
    BY <2>2, <2>3, TailAims
  <2>5. \A u \in Range(now.puts) : Aims(now, u)
    <3> HIDE DEF up
    <3> QED
      BY <2>3, <2>4 DEF Range
  <2>6. Sends(p, now)
    BY <1>0, <2>2, <2>3, <2>5 DEF Sends
  <2>7. Placed(p, now)
    BY <1>0, <2>3, <2>6 DEF Placed
  <2>8. ~(now.key.n > 0)
    BY <2>2, <2>3
  <2> HIDE DEF up
  <2> QED
    BY <2>1, <2>3, <2>7, <2>8 DEF PresignTakes
<1>4. CASE Ends(p)
  BY <1>4, OverPlaced, EndsIs DEF PresignTakes
<1> QED
  BY <1>1, <1>2, <1>3, <1>4 DEF Presign

\* Where its other steps take a pass: on with the same upload, or to its end, or
\* back to ask again.
Onward(p, me) ==
  /\ {at[p].pc, me.pc} \subseteq Sending
  /\ me.key = at[p].key /\ me.scan = at[p].scan /\ me.asked = at[p].asked

PassTakes(p, me) ==
  /\ at' = [at EXCEPT ![p] = me]
  /\ Placed(p, me)
  /\ \/ me.pc = "over"
     \/ at[p].pc # "over" /\ me.pc = "ask" /\ me.asked = at[p].asked
     \/ Onward(p, me)

LEMMA ScanPlaces ==
  ASSUME Types, ShapeInv, NEW p \in Passes, Scan(p)
  PROVE  \E me : PassTakes(p, me) /\ me.pc # "write"
<1>1. CASE Ends(p)
  BY <1>1, EndsIs, OverPlaced DEF PassTakes
<1>2. CASE at' = [at EXCEPT ![p].pc = "ask", ![p].scan = file]
  <2> DEFINE me == [at[p] EXCEPT !.pc = "ask", !.scan = file]
  <2>1. at[p] \in Locals /\ at \in [Passes -> Locals] /\ at[p].pc = "idle"
    BY DEF Types, TypeOK, Scan
  <2>2. at' = [at EXCEPT ![p] = me] /\ me.pc = "ask" /\ me.sealed = at[p].sealed /\ me.asked = at[p].asked
    BY <1>2, <2>1 DEF Locals
  <2> HIDE DEF me
  <2>3. Placed(p, me)
    BY <2>2 DEF ShapeInv, PlacedInv, Placed, Sending
  <2> QED
    BY <2>1, <2>2, <2>3 DEF PassTakes
<1> QED
  BY <1>1, <1>2 DEF Scan

LEMMA PutPlaces ==
  ASSUME Types, ShapeInv, NEW p \in Passes, Put(p)
  PROVE  /\ \E me : PassTakes(p, me) /\ me.pc # "write"
         /\ at[p].pc = "put" /\ Sends(p, at[p]) /\ Head(at[p].puts) \in Uploads
         /\ Aims(at[p], Head(at[p].puts))
<1> DEFINE pc == IF Tail(at[p].puts) = <<>> THEN "confirm" ELSE "put"
           me == [at[p] EXCEPT !.puts = Tail(at[p].puts), !.pc = pc]
<1>1. /\ at[p] \in Locals /\ at \in [Passes -> Locals] /\ at[p].puts \in Seq(Uploads)
      /\ at[p].puts # <<>> /\ at[p].pc = "put"
  BY DEF Types, TypeOK, Locals, Put, Planned
<1>2. Placed(p, at[p]) /\ Sends(p, at[p])
  BY <1>1 DEF ShapeInv, PlacedInv, Placed, Sending
<1>3. Head(at[p].puts) \in Range(at[p].puts) /\ Head(at[p].puts) \in Uploads
  BY <1>1 DEF Range
<1>4. Range(Tail(at[p].puts)) \subseteq Range(at[p].puts)
  <2>1. ASSUME NEW i \in DOMAIN Tail(at[p].puts) PROVE Tail(at[p].puts)[i] \in Range(at[p].puts)
    BY <1>1, HeadTailProperties DEF Range
  <2> QED
    BY <2>1 DEF Range
<1>5. at' = [at EXCEPT ![p] = me]
  BY <1>1 DEF Put
<1>6. /\ me.pc \in {"put", "confirm"} /\ me.puts = Tail(at[p].puts) /\ me.plan = at[p].plan
      /\ me.want = at[p].want /\ me.scan = at[p].scan /\ me.sealed = at[p].sealed
      /\ me.key = at[p].key /\ me.asked = at[p].asked
  BY <1>1 DEF Locals
<1> HIDE DEF me
<1>7. Placed(p, me)
  BY <1>2, <1>4, <1>6 DEF Placed, Sends, Aims
<1>8. PassTakes(p, me)
  BY <1>1, <1>5, <1>6, <1>7 DEF PassTakes, Onward, Sending
<1> QED
  BY <1>1, <1>2, <1>3, <1>6, <1>8 DEF Sends

\* A confirm that goes on keeps what it was placed by.
LEMMA OnwardPlaced ==
  ASSUME NEW p, Placed(p, at[p]), NEW me, at[p].pc \in {"confirm", "heads", "lock"}, at[p].puts = <<>>,
         me.pc \in Sending, me.puts = <<>>, me.plan = at[p].plan, me.want = at[p].want,
         me.key = at[p].key, me.scan = at[p].scan, me.asked = at[p].asked,
         me.sealed.bytes = Lines(me.sealed.chunks),
         me.want # "whole" => me.key.n = me.sealed.chunks + Len(me.plan)
  PROVE  Placed(p, me) /\ Onward(p, me)
<1>1. Sends(p, at[p]) /\ at[p].pc \in Sending
  BY DEF Placed, Sending
<1>2. Range(me.puts) = {}
  BY DEF Range
<1> QED
  BY <1>1, <1>2 DEF Placed, Sends, Onward

LEMMA DecidePlaces ==
  ASSUME Types, ShapeInv, NEW p \in Passes, Decide(p)
  PROVE  \E me : PassTakes(p, me) /\ me.pc # "write"
<1>0. /\ at[p] \in Locals /\ at \in [Passes -> Locals] /\ at[p].puts = <<>> /\ at[p].pc = "confirm"
      /\ Placed(p, at[p])
  BY DEF Types, TypeOK, Decide, Planned, ShapeInv, PlacedInv
<1>1. CASE Ends(p) \/ Again(p)
  <2>1. CASE Ends(p)
    BY <2>1, EndsIs, OverPlaced DEF PassTakes
  <2>2. CASE Again(p)
    <3>1. PICK me : /\ at' = [at EXCEPT ![p] = me] /\ Placed(p, me) /\ me.pc \in {"over", "ask"}
                    /\ me.pc = "ask" => me.asked = at[p].asked
      BY <1>0, <2>2, AgainPlaces DEF Types
    <3> QED
      BY <1>0, <3>1 DEF PassTakes
  <2> QED
    BY <1>1, <2>1, <2>2
<1>2. CASE at' = [at EXCEPT ![p].pc = "heads", ![p].sealed = Sealed] /\ InPlace(p)
  <2> DEFINE me == [at[p] EXCEPT !.pc = "heads", !.sealed = Sealed]
  <2>1. /\ at' = [at EXCEPT ![p] = me]
        /\ me.pc = "heads" /\ me.sealed = Sealed /\ me.want = at[p].want /\ me.plan = at[p].plan
        /\ me.scan = at[p].scan /\ me.puts = at[p].puts /\ me.key = at[p].key /\ me.asked = at[p].asked
    BY <1>0, <1>2 DEF Locals
  <2> HIDE DEF me
  <2>2. Sealed.bytes = Lines(Sealed.chunks)
    BY SealedLines DEF Types, ShapeInv
  <2>3. me.want # "whole" => me.key.n = Sealed.chunks + Len(me.plan)
    BY <1>2, <2>1 DEF InPlace, Chunked
  <2>4. me.pc \in Sending
    BY <2>1 DEF Sending
  <2>5. Placed(p, me) /\ Onward(p, me)
    BY <1>0, <2>1, <2>2, <2>3, <2>4, OnwardPlaced
  <2> QED
    BY <2>1, <2>5 DEF PassTakes
<1> QED
  BY <1>1, <1>2 DEF Decide

LEMMA HeadsPlaces ==
  ASSUME Types, ShapeInv, NEW p \in Passes, Heads(p)
  PROVE  \E me : PassTakes(p, me) /\ me.pc # "write"
<1>0. /\ at[p] \in Locals /\ at \in [Passes -> Locals] /\ at[p].puts = <<>> /\ at[p].pc = "heads"
      /\ Placed(p, at[p])
  BY DEF Types, TypeOK, Heads, Planned, ShapeInv, PlacedInv
<1>1. CASE Ends(p)
  BY <1>1, EndsIs, OverPlaced DEF PassTakes
<1>2. CASE at' = [at EXCEPT ![p].pc = "lock", ![p].tail = Len(bucket[at[p].key])]
  <2> DEFINE me == [at[p] EXCEPT !.pc = "lock", !.tail = Len(bucket[at[p].key])]
  <2>1. /\ at' = [at EXCEPT ![p] = me]
        /\ me.pc = "lock" /\ me.sealed = at[p].sealed /\ me.want = at[p].want /\ me.plan = at[p].plan
        /\ me.scan = at[p].scan /\ me.puts = at[p].puts /\ me.key = at[p].key /\ me.asked = at[p].asked
    BY <1>0, <1>2 DEF Locals
  <2> HIDE DEF me
  <2>2. me.pc \in Sending /\ at[p].pc \in Sending
    BY <1>0, <2>1 DEF Sending
  <2>3. Placed(p, me) /\ Onward(p, me)
    BY <1>0, <2>1, <2>2, OnwardPlaced DEF Placed, Sends
  <2> QED
    BY <2>1, <2>3 DEF PassTakes
<1> QED
  BY <1>1, <1>2 DEF Heads

\* Under the lock a confirm goes on to write if what it compared still stands.
LEMMA LockPlaces ==
  ASSUME Types, ShapeInv, NEW p \in Passes, Lock(p)
  PROVE  \E me : /\ PassTakes(p, me)
                 /\ me.pc = "write" => /\ Still(p) /\ me.want = at[p].want /\ me.key = at[p].key
                                       /\ me.sealed = at[p].sealed /\ me.tail = at[p].tail
<1>0. /\ at[p] \in Locals /\ at \in [Passes -> Locals] /\ at[p].puts = <<>> /\ at[p].pc = "lock"
      /\ Placed(p, at[p])
  BY DEF Types, TypeOK, Lock, Planned, ShapeInv, PlacedInv
<1>1. CASE Again(p)
  <2>1. PICK me : /\ at' = [at EXCEPT ![p] = me] /\ Placed(p, me) /\ me.pc \in {"over", "ask"}
                  /\ me.pc = "ask" => me.asked = at[p].asked
    BY <1>0, <1>1, AgainPlaces DEF Types
  <2> QED
    BY <1>0, <2>1 DEF PassTakes
<1>2. CASE Still(p) /\ at' = [at EXCEPT ![p].pc = "write", ![p].cur = row]
  <2> DEFINE me == [at[p] EXCEPT !.pc = "write", !.cur = row]
  <2>1. /\ at' = [at EXCEPT ![p] = me]
        /\ me.pc = "write" /\ me.sealed = at[p].sealed /\ me.want = at[p].want /\ me.plan = at[p].plan
        /\ me.scan = at[p].scan /\ me.puts = at[p].puts /\ me.key = at[p].key /\ me.asked = at[p].asked
        /\ me.tail = at[p].tail
    BY <1>0, <1>2 DEF Locals
  <2> HIDE DEF me
  <2>2. me.pc \in Sending /\ at[p].pc \in Sending
    BY <1>0, <2>1 DEF Sending
  <2>3. Placed(p, me) /\ Onward(p, me)
    BY <1>0, <2>1, <2>2, OnwardPlaced DEF Placed, Sends
  <2> QED
    BY <1>2, <2>1, <2>3 DEF PassTakes
<1> QED
  BY <1>1, <1>2 DEF Lock

\* Two texts that begin with the same m chunks have the same chunks up to there.
LEMMA SameParts ==
  ASSUME NEW t \in Seq(Nat), NEW u \in Seq(Nat), NEW m \in Nat, Lines(m) <= Len(t), Lines(m) <= Len(u),
         SubSeq(t, 1, Lines(m)) = SubSeq(u, 1, Lines(m)), NEW i \in 1 .. m
  PROVE  ChunkOf(t, i) = ChunkOf(u, i)
<1> DEFINE a == Lines(i - 1)
           b == Lines(i)
           l == Lines(m)
<1>1. a \in Nat /\ b \in Nat /\ l \in Nat /\ a + ChunkLines = b /\ b <= l /\ ChunkLines \in Nat \ {0}
  <2>1. i \in Nat \ {0} /\ i \in Nat /\ i <= m /\ i - 1 \in Nat
    OBVIOUS
  <2>2. Lines(i - 1) \in Nat /\ Lines(i) = Lines(i - 1) + ChunkLines
    BY <2>1, LinesStep
  <2>3. Lines(i) \in Nat /\ Lines(m) \in Nat /\ Lines(i) <= Lines(m)
    BY <2>1, LinesAdd
  <2> QED
    BY <2>2, <2>3, ConstantsAssumption
<1> HIDE DEF a, b, l
<1>2. \A x \in 1 .. l : t[x] = u[x]
  <2>1. l <= Len(t) /\ l <= Len(u)
    BY DEF l
  <2>2. SubSeq(t, 1, l) = SubSeq(u, 1, l)
    BY DEF l
  <2>3. \A x \in 1 .. l : SubSeq(t, 1, l)[x] = t[x] /\ SubSeq(u, 1, l)[x] = u[x]
    BY <1>1, <2>1
  <2> QED
    BY <2>2, <2>3
<1>3. \A x \in a + 1 .. b : t[x] = u[x]
  BY <1>1, <1>2
<1>4. SubSeq(t, a + 1, b) = SubSeq(u, a + 1, b)
  <2>1. b <= Len(t) /\ b <= Len(u)
    BY <1>1 DEF l
  <2>2. /\ SubSeq(t, a + 1, b) \in Seq(Nat) /\ SubSeq(u, a + 1, b) \in Seq(Nat)
        /\ Len(SubSeq(t, a + 1, b)) = b - a /\ Len(SubSeq(u, a + 1, b)) = b - a
    BY <1>1, <2>1, SMTT(30)
  <2>3. \A x \in 1 .. b - a : SubSeq(t, a + 1, b)[x] = t[a + x] /\ SubSeq(u, a + 1, b)[x] = u[a + x]
    BY <1>1, <2>1
  <2>4. \A x \in 1 .. b - a : a + x \in a + 1 .. b
    BY <1>1
  <2> QED
    BY <1>3, <2>2, <2>3, <2>4, SeqEqual, SMTT(30)
<1> QED
  BY <1>4 DEF ChunkOf, a, b

\* Chunks numbered without a gap, and each number once, are as many as their numbers.
LEMMA NumberedAre ==
  ASSUME NEW S, NEW m \in Nat, NEW n \in Nat, {c.seq : c \in S} = m + 1 .. m + n,
         \A c, d \in S : c.seq = d.seq => c = d
  PROVE  IsFiniteSet(S) /\ Cardinality(S) = n
<1> DEFINE T == m + 1 .. m + n
           f == [i \in T |-> CHOOSE c \in S : c.seq = i]
<1>1. IsFiniteSet(T) /\ Cardinality(T) = n
  <2>1. Cardinality(T) = IF m + 1 > m + n THEN 0 ELSE (m + n) - (m + 1) + 1
    BY FS_Interval
  <2> QED
    BY <2>1, FS_Interval
<1> HIDE DEF T
<1>2. \A i \in T : f[i] \in S /\ f[i].seq = i
  BY DEF T
<1>3. \A c \in S : c.seq \in T
  BY DEF T
<1> HIDE DEF f
<1>4. f \in [T -> S]
  BY <1>2 DEF f
<1>5. ASSUME NEW c \in S PROVE c.seq \in T /\ f[c.seq] = c
  BY <1>2, <1>3
<1>6. f \in Bijection(T, S)
  <2>1. f \in Surjection(T, S)
    BY <1>4, <1>5 DEF Surjection
  <2>2. f \in Injection(T, S)
    BY <1>2, <1>4 DEF Injection, IsInjective
  <2> QED
    BY <2>1, <2>2 DEF Bijection
<1> QED
  BY <1>1, <1>6, FS_Bijection DEF ExistsBijection

\* What a confirm adds are the next chunks of the text it has scanned.
LEMMA NewChunksAre ==
  ASSUME Types, ShapeInv, NEW p \in Passes, at[p].pc = "write"
  PROVE  LET m == at[p].sealed.chunks
             n == Len(at[p].plan)
         IN /\ m \in Nat /\ n \in Nat /\ (at[p].plan = <<>> <=> n = 0)
            /\ {c.seq : c \in NewChunks(p)} = m + 1 .. m + n
            /\ \A c, d \in NewChunks(p) : c.seq = d.seq => c = d
            /\ \A c \in NewChunks(p) : /\ c.key = ChunkKey(at[p].key.project, c.seq, c.text)
                                       /\ c.text = ChunkOf(at[p].scan, c.seq)
<1> DEFINE plan == at[p].plan
           m == at[p].sealed.chunks
           n == Len(plan)
           New(c) == [seq |-> c.seq, off |-> c.off, text |-> c.text,
                      key |-> ChunkKey(at[p].key.project, c.seq, c.text)]
<1>1. /\ plan \in Seq(PlanParts) /\ at[p].scan \in Seq(Nat) /\ at[p].sealed \in Sealing
      /\ at[p].sealed.bytes = Lines(m) /\ m \in Nat /\ n \in Nat /\ DOMAIN plan = 1 .. n
      /\ (plan # <<>> => IsPlan(at[p].scan, at[p].sealed, plan))
      /\ (plan = <<>> <=> n = 0)
  BY DEF Types, TypeOK, Locals, Sealing, Planned, ShapeInv, PlacedInv, Placed
<1>2. ASSUME NEW i \in 1 .. n PROVE plan[i].seq = m + i /\ plan[i].text = ChunkOf(at[p].scan, m + i)
  <2>1. IsPlan(at[p].scan, at[p].sealed, plan)
    BY <1>1
  <2>2. /\ plan[i].seq = m + i /\ plan[i].off = Offset(Lines(m), i)
        /\ plan[i].text = SubSeq(at[p].scan, plan[i].off + 1, plan[i].off + ChunkLines)
    BY <1>1, <2>1 DEF IsPlan
  <2>3. i - 1 \in Nat /\ m + i \in Nat \ {0} /\ m + (i - 1) = (m + i) - 1
    BY <1>1
  <2>4. Offset(Lines(m), i) = Lines((m + i) - 1)
    <3>1. Lines(m + (i - 1)) = Lines(m) + Lines(i - 1)
      BY <1>1, <2>3, LinesAdd
    <3> QED
      BY <2>3, <3>1 DEF Offset
  <2>5. Lines(m + i) = Lines((m + i) - 1) + ChunkLines
    BY <2>3, LinesStep
  <2> QED
    BY <2>2, <2>4, <2>5 DEF ChunkOf
<1>3. NewChunks(p) = {New(plan[i]) : i \in 1 .. n}
  BY <1>1 DEF NewChunks, Range
<1>4. \A c : New(c).seq = c.seq /\ New(c).text = c.text
             /\ New(c).key = ChunkKey(at[p].key.project, c.seq, c.text)
  OBVIOUS
<1> HIDE DEF New
<1>5. \A c \in NewChunks(p) : \E i \in 1 .. n : c = New(plan[i]) /\ c.seq = m + i
  BY <1>2, <1>3, <1>4
<1>6. {c.seq : c \in NewChunks(p)} = m + 1 .. m + n
  <2>1. ASSUME NEW x \in m + 1 .. m + n PROVE x \in {c.seq : c \in NewChunks(p)}
    <3>1. x - m \in 1 .. n /\ m + (x - m) = x
      BY <1>1, SMTT(30)
    <3>2. New(plan[x - m]) \in NewChunks(p) /\ New(plan[x - m]).seq = x
      BY <1>2, <1>3, <1>4, <3>1
    <3> QED
      BY <3>2
  <2>2. ASSUME NEW c \in NewChunks(p) PROVE c.seq \in m + 1 .. m + n
    BY <1>1, <1>5
  <2> QED
    BY <2>1, <2>2
<1>7. \A c, d \in NewChunks(p) : c.seq = d.seq => c = d
  <2> SUFFICES ASSUME NEW c \in NewChunks(p), NEW d \in NewChunks(p), c.seq = d.seq PROVE c = d
    OBVIOUS
  <2>1. PICK i \in 1 .. n : c = New(plan[i]) /\ c.seq = m + i
    BY <1>5
  <2>2. PICK j \in 1 .. n : d = New(plan[j]) /\ d.seq = m + j
    BY <1>5
  <2>3. i = j
    BY <1>1, <2>1, <2>2
  <2> QED
    BY <2>1, <2>2, <2>3
<1>8. \A c \in NewChunks(p) : /\ c.key = ChunkKey(at[p].key.project, c.seq, c.text)
                              /\ c.text = ChunkOf(at[p].scan, c.seq)
  <2> TAKE c \in NewChunks(p)
  <2>1. PICK i \in 1 .. n : c = New(plan[i]) /\ c.seq = m + i
    BY <1>5
  <2> QED
    BY <1>2, <1>4, <2>1
<1> QED
  BY <1>1, <1>6, <1>7, <1>8

\* The chunks a confirm leaves where they are.
Kept(p) == IF Keeps(p) THEN chunks ELSE {}

\* They are the first of the text it has scanned, unless it splices: what it compared
\* under the lock is the row's.
LEMMA KeptAre ==
  ASSUME Types, ShapeInv, NEW p \in Passes, at[p].pc = "write", Chunked(p), Keeps(p) => row # NoRow
  PROVE  LET m == at[p].sealed.chunks
         IN /\ {c.seq : c \in Kept(p)} = 1 .. m
            /\ \A c, d \in Kept(p) : c.seq = d.seq => c = d
            /\ \A c \in Kept(p) : c.key = ChunkKey(at[p].key.project, c.seq, c.text)
            /\ ~Splices(p) => \A c \in Kept(p) : c.text = ChunkOf(at[p].scan, c.seq)
            /\ ~Splices(p) /\ Keeps(p) => at[p].sealed.sha = SubSeq(at[p].scan, 1, Lines(m))
<1> DEFINE m == at[p].sealed.chunks
<1>1. /\ at[p] \in Locals /\ at[p].sealed.bytes = Lines(m) /\ at[p].sealed \in Sealing /\ m \in Nat
      /\ Sends(p, at[p]) /\ at[p].scan \in Seq(Nat)
  BY DEF Types, TypeOK, Locals, Sealing, ShapeInv, PlacedInv, Placed, Sending
<1>2. CASE ~Keeps(p)
  <2>1. m = 0 /\ Kept(p) = {}
    BY <1>1, <1>2 DEF Keeps, Kept
  <2> QED
    BY <1>2, <2>1
<1>3. CASE Keeps(p)
  <2>1. row # NoRow /\ Still(p) /\ m > 0
    BY <1>3 DEF ShapeInv, StillInv, Keeps
  <2>2. Holds(row, at[p].key.project) /\ Cardinality(chunks) = m
    BY <1>1, <2>1 DEF Still
  <2>3. row \in Row /\ row.project = at[p].key.project /\ Holds(row, row.project)
    BY <2>2, HoldsHere DEF Types
  <2>4. Numbered(row) /\ (~row.spliced => Pieces(row))
    BY <2>3, <2>1 DEF ShapeInv, RowInv
  <2>5. Kept(p) = chunks
    BY <1>3 DEF Kept
  <2>6. ASSUME ~Splices(p)
        PROVE  /\ at[p].sealed.sha = SubSeq(at[p].scan, 1, Lines(m))
               /\ \A c \in chunks : c.text = ChunkOf(at[p].scan, c.seq)
    <3>1. /\ ~row.spliced /\ row.sealedSha = SubSeq(at[p].scan, 1, Lines(m))
          /\ at[p].sealed.sha = SubSeq(at[p].scan, 1, Lines(m))
      BY <1>1, <1>3, <2>1, <2>6 DEF Splices
    <3>2. /\ Lines(m) <= Len(row.sha) /\ row.sealedSha = SubSeq(row.sha, 1, Lines(m))
          /\ \A c \in chunks : c.text = ChunkOf(row.sha, c.seq)
      BY <2>2, <2>4, <3>1 DEF Pieces
    <3>3. row.sha \in Seq(Nat)
      BY <2>3 DEF Row
    <3>4. Lines(m) <= Len(at[p].scan)
      <4>1. at[p].key.n = m + Len(at[p].plan) /\ Len(at[p].plan) \in Nat
        BY <1>1 DEF Sends, Chunked, Locals
      <4>2. Lines(at[p].key.n) = Lines(m) + Lines(Len(at[p].plan))
            /\ Lines(m) \in Nat /\ Lines(Len(at[p].plan)) \in Nat
        BY <1>1, <4>1, LinesAdd
      <4> QED
        BY <1>1, <4>2 DEF Sends
    <3>5. \A c \in chunks : c.seq \in 1 .. m
      BY <2>2, <2>4 DEF Numbered
    <3>6. \A i \in 1 .. m : ChunkOf(row.sha, i) = ChunkOf(at[p].scan, i)
      <4>1. SubSeq(row.sha, 1, Lines(m)) = SubSeq(at[p].scan, 1, Lines(m))
        BY <3>1, <3>2
      <4> QED
        BY <1>1, <3>2, <3>3, <3>4, <4>1, SameParts
    <3> QED
      BY <3>1, <3>2, <3>5, <3>6
  <2> QED
    BY <2>2, <2>3, <2>4, <2>5, <2>6 DEF Numbered
<1> QED
  BY <1>2, <1>3

\* A row deleted since it was read is inserted without the chunks it had: they do
\* not count.
LEMMA RecordsRow ==
  ASSUME Types, ShapeInv, NEW p \in Passes, Write(p), Recorded(p)
  PROVE  RowInv'
<1> DEFINE me == at[p]
           m == me.sealed.chunks
           n == Len(me.plan)
<1>0. /\ at[p].pc = "write" /\ me \in Locals /\ me.sealed.bytes = Lines(m) /\ me.sealed \in Sealing
      /\ Sends(p, me) /\ me.scan \in Seq(Nat) /\ me.plan \in Seq(PlanParts) /\ me.tail \in Nat
      /\ me.plan # <<>> => IsPlan(me.scan, me.sealed, me.plan)
      /\ ~Chunked(p) => me.plan = <<>>
  BY WriteIs DEF Types, TypeOK, Locals, Sealing, ShapeInv, PlacedInv, Placed, Sending, Planned, Chunked
<1>1. /\ row' = NewRow(p) /\ chunks' = Kept(p) \cup NewChunks(p)
      /\ row'.size = NewSealed(p) + me.tail /\ row'.sealed = NewSealed(p) /\ NewSealed(p) \in Nat
      /\ row'.key = me.key /\ row'.project = me.key.project /\ row'.sha = me.scan
      /\ row'.spliced = Splices(p)
      /\ row'.sealedSha = (IF me.plan = <<>> /\ Chunked(p) THEN me.sealed.sha
                                                          ELSE SubSeq(me.scan, 1, NewSealed(p)))
  BY <1>0, NewRowType DEF Recorded, Kept, NewRow, NewSealed
<1>2. row'.size >= row'.sealed
  BY <1>0, <1>1
<1>3. /\ m \in Nat /\ n \in Nat /\ (me.plan = <<>> <=> n = 0)
      /\ {c.seq : c \in NewChunks(p)} = m + 1 .. m + n
      /\ \A c, d \in NewChunks(p) : c.seq = d.seq => c = d
      /\ \A c \in NewChunks(p) : /\ c.key = ChunkKey(me.key.project, c.seq, c.text)
                                 /\ c.text = ChunkOf(me.scan, c.seq)
  BY <1>0, NewChunksAre
<1>4. ASSUME Holds(row, row.project)' PROVE Numbered(row)' /\ (~row.spliced => Pieces(row))'
  <2>1. chunks' # {} /\ me.key.n = Cardinality(chunks')
    BY <1>1, <1>4 DEF Holds
  <2>2. Chunked(p)
    <3> SUFFICES ASSUME ~Chunked(p) PROVE FALSE
      OBVIOUS
    <3>1. NewChunks(p) = {} /\ Kept(p) = {}
      BY <1>0 DEF NewChunks, Range, Kept, Keeps
    <3> QED
      BY <1>1, <2>1, <3>1
  <2>3. me.key.n = m + n /\ NewSealed(p) = Lines(m + n) /\ Lines(m + n) <= Len(me.scan)
    <3>1. me.key.n = m + n /\ Lines(m + n) <= Len(me.scan)
      BY <1>0, <2>2 DEF Sends, Chunked
    <3>2. CASE me.plan = <<>>
      <4>1. NewSealed(p) = Lines(m) /\ m + n = m
        BY <1>0, <1>3, <2>2, <3>2 DEF NewSealed, EndOf
      <4> QED
        BY <3>1, <4>1
    <3>3. CASE me.plan # <<>>
      <4>1. NewSealed(p) = EndOf(me.sealed, me.plan)
        BY <2>2 DEF NewSealed
      <4> QED
        BY <1>0, <3>1, <3>3, <4>1, PlanLines
    <3> QED
      BY <3>2, <3>3
  <2>4. Keeps(p) => row # NoRow
    <3> SUFFICES ASSUME Keeps(p), row = NoRow PROVE FALSE
      OBVIOUS
    <3>1. chunks' = NewChunks(p)
      BY <1>1, NoRowAssumption DEF Kept, Types, TypeOK
    <3>2. Cardinality(chunks') = n
      BY <1>3, <3>1, NumberedAre
    <3>3. m > 0
      BY DEF Keeps
    <3>4. m + n = n /\ m \in Nat /\ n \in Nat
      BY <1>3, <2>1, <2>3, <3>2
    <3> QED
      BY <3>3, <3>4
  <2>5. /\ {c.seq : c \in Kept(p)} = 1 .. m
        /\ \A c, d \in Kept(p) : c.seq = d.seq => c = d
        /\ \A c \in Kept(p) : c.key = ChunkKey(me.key.project, c.seq, c.text)
        /\ ~Splices(p) => \A c \in Kept(p) : c.text = ChunkOf(me.scan, c.seq)
        /\ ~Splices(p) /\ Keeps(p) => me.sealed.sha = SubSeq(me.scan, 1, Lines(m))
    BY <1>0, <2>2, <2>4, KeptAre
  <2>6. {c.seq : c \in chunks'} = 1 .. m + n
    <3>1. 1 .. m + n = (1 .. m) \cup (m + 1 .. m + n)
      BY <1>3
    <3> QED
      BY <1>1, <1>3, <2>5, <3>1
  <2>7. Cardinality(chunks') = m + n
    BY <2>1, <2>3
  <2>8. \A c, d \in chunks' : c.seq = d.seq => c = d
    <3>1. \A c \in Kept(p), d \in NewChunks(p) : c.seq # d.seq
      <4> TAKE c \in Kept(p), d \in NewChunks(p)
      <4>1. c.seq \in 1 .. m /\ d.seq \in m + 1 .. m + n
        BY <1>3, <2>5
      <4> QED
        BY <1>3, <4>1
    <3> QED
      BY <1>1, <1>3, <2>5, <3>1
  <2>9. Numbered(row)'
    BY <1>1, <1>3, <2>3, <2>5, <2>6, <2>7, <2>8 DEF Numbered
  <2>10. ASSUME ~Splices(p) PROVE Pieces(row)'
    <3>1. row'.sealedSha = SubSeq(me.scan, 1, Lines(m + n))
      <4>1. CASE me.plan # <<>>
        BY <1>1, <2>3, <4>1
      <4>2. CASE me.plan = <<>>
        <5>1. n = 0 /\ m + n = m /\ NewChunks(p) = {}
          BY <1>3, <4>2 DEF NewChunks, Range
        <5>2. Keeps(p)
          BY <1>1, <2>1, <5>1 DEF Kept
        <5> QED
          BY <1>1, <2>2, <2>5, <2>10, <4>2, <5>1, <5>2
      <4> QED
        BY <4>1, <4>2
    <3>2. \A c \in chunks' : c.text = ChunkOf(me.scan, c.seq)
      BY <1>1, <1>3, <2>5, <2>10
    <3> QED
      BY <1>1, <2>3, <2>7, <3>1, <3>2 DEF Pieces
  <2> QED
    BY <1>1, <2>9, <2>10
<1> QED
  BY <1>2, <1>4 DEF RowInv

LEMMA LockShape == ASSUME Types, ShapeInv, NEW p \in Passes, Lock(p) PROVE ShapeInv'
<1>1. PICK me : /\ PassTakes(p, me)
                /\ me.pc = "write" => /\ Still(p) /\ me.want = at[p].want /\ me.key = at[p].key
                                      /\ me.sealed = at[p].sealed /\ me.tail = at[p].tail
  BY LockPlaces
<1>2. UNCHANGED recorded
  BY DEF Lock
<1>3. CASE me.pc # "write"
  BY <1>1, <1>2, <1>3, Moves DEF PassTakes
<1>4. CASE me.pc = "write"
  <2>1. at'[p] = me /\ \A q \in Passes : q # p => at'[q] = at[q]
    BY <1>1 DEF Types, TypeOK, PassTakes
  <2>2. PlacedInv'
    BY <1>1, <2>1 DEF ShapeInv, PlacedInv, PassTakes
  <2>3. RowInv'
    BY <1>2 DEF ShapeInv, RowInv, Holds, Numbered, Pieces, recorded
  <2>4. StillInv'
    <3> SUFFICES ASSUME NEW q \in Passes, at'[q].pc = "write", row' # NoRow PROVE Still(q)'
      BY DEF StillInv
    <3>1. CASE q = p
      BY <1>1, <1>2, <1>4, <2>1, <3>1 DEF Still, Chunked, Holds, recorded
    <3>2. CASE q # p
      <4>1. at'[q] = at[q]
        BY <2>1, <3>2
      <4>2. Still(q)
        BY <1>2, <4>1 DEF ShapeInv, StillInv, recorded
      <4> QED
        BY <1>2, <4>1, <4>2 DEF Still, Chunked, Holds, recorded
    <3> QED
      BY <3>1, <3>2
  <2> QED
    BY <2>2, <2>3, <2>4 DEF ShapeInv
<1> QED
  BY <1>3, <1>4

LEMMA WriteShape == ASSUME Types, CurInv, ShapeInv, NEW p \in Passes, Write(p) PROVE ShapeInv'
<1>1. at[p].pc = "write" /\ Ends(p) /\ Over.pc = "over" /\ (Recorded(p) \/ UNCHANGED recorded)
  BY WriteIs, EndsIs DEF Recorded
<1>2. CASE UNCHANGED recorded
  BY <1>1, <1>2, EndsIs, OverPlaced, Moves
<1>3. CASE Recorded(p)
  <2>1. at'[p] = Over /\ \A q \in Passes : q # p => at'[q] = at[q]
    BY <1>1, EndsIs DEF Types, TypeOK
  <2>2. PlacedInv'
    BY <2>1, OverPlaced DEF ShapeInv, PlacedInv
  <2>3. StillInv'
    BY <1>1, <2>1 DEF CurInv, StillInv
  <2> QED
    BY <1>3, <2>2, <2>3, RecordsRow DEF ShapeInv
<1> QED
  BY <1>1, <1>2, <1>3

LEMMA PassShape == ASSUME Types, CurInv, ShapeInv, NEW p \in Passes, PassStep(p) PROVE ShapeInv'
<1>1. CASE Scan(p) \/ Put(p) \/ Decide(p) \/ Heads(p)
  <2>1. \E me : PassTakes(p, me) /\ me.pc # "write"
    BY <1>1, ScanPlaces, PutPlaces, DecidePlaces, HeadsPlaces
  <2>2. UNCHANGED recorded
    BY <1>1 DEF Scan, Put, Decide, Heads
  <2> QED
    BY <2>1, <2>2, Moves DEF PassTakes
<1>2. CASE Presign(p)
  <2>1. \E me : PresignTakes(p, me)
    BY <1>2, PresignPlaces
  <2>2. UNCHANGED recorded
    BY <1>2 DEF Presign
  <2> QED
    BY <2>1, <2>2, Moves DEF PresignTakes
<1>3. CASE Kill(p) \/ PutFails(p)
  <2>1. UNCHANGED recorded /\ Ends(p)
    BY <1>3 DEF Kill, PutFails
  <2> QED
    BY <2>1, EndsIs, OverPlaced, Moves
<1> QED
  BY <1>1, <1>2, <1>3, LockShape, WriteShape DEF PassStep

\* The row goes with its chunks, or ages.
LEMMA RowGoes ==
  ASSUME Types, ShapeInv, at' = at, row' = NoRow
  PROVE  ShapeInv'
BY DEF ShapeInv, RowInv, PlacedInv, StillInv

LEMMA RowStays ==
  ASSUME Types, ShapeInv, at' = at, chunks' = chunks, row = NoRow <=> row' = NoRow,
         row # NoRow => /\ row'.key = row.key /\ row'.project = row.project /\ row'.sha = row.sha
                        /\ row'.size = row.size /\ row'.sealed = row.sealed
                        /\ row'.sealedSha = row.sealedSha /\ row'.spliced = row.spliced
  PROVE  ShapeInv'
<1>1. \A j : row # NoRow => (Holds(row, j)' <=> Holds(row, j))
  BY DEF Holds
<1>2. RowInv'
  BY <1>1 DEF ShapeInv, RowInv, Numbered, Pieces, Holds
<1>3. StillInv'
  <2> SUFFICES ASSUME NEW q \in Passes, at[q].pc = "write", row # NoRow PROVE Still(q)'
    BY DEF StillInv
  <2>1. Still(q)
    BY DEF ShapeInv, StillInv
  <2> QED
    BY <2>1 DEF Still, Chunked, Holds
<1> QED
  BY <1>2, <1>3 DEF ShapeInv, PlacedInv

LEMMA RowAgesIs ==
  ASSUME TypeOK, RowAges
  PROVE  /\ row # NoRow /\ row' # NoRow /\ chunks' = chunks /\ at' = at
         /\ row'.key = row.key /\ row'.project = row.project /\ row'.sha = row.sha
         /\ row'.size = row.size /\ row'.sealed = row.sealed
         /\ row'.sealedSha = row.sealedSha /\ row'.spliced = row.spliced
<1>1. row # NoRow /\ row \in Row /\ row' = [row EXCEPT !.old = TRUE]
  BY DEF RowAges, TypeOK
<1>2. row' \in Row
  BY <1>1 DEF Row
<1>3. row' # NoRow
  BY <1>2, NoRowAssumption
<1> QED
  BY <1>1, <1>3 DEF RowAges, Row

LEMMA StepShape == ASSUME Types, CurInv, ShapeInv, [Next]_vars PROVE ShapeInv'
<1>1. CASE DeleteCommits
  <2>1. at' = at /\ (row' = NoRow \/ (row' = row /\ chunks' = chunks))
    BY <1>1 DEF DeleteCommits
  <2> QED
    BY <2>1, RowGoes, RowStays
<1>2. CASE RowAges
  BY <1>2, RowAgesIs, RowStays DEF Types
<1>3. CASE UNCHANGED <<row, chunks, at>>
  BY <1>3, RowStays
<1>4. ASSUME Deletion \/ Around \/ UNCHANGED vars
      PROVE  DeleteCommits \/ RowAges \/ UNCHANGED <<row, chunks, at>>
  BY <1>4 DEF Deletion, Around, vars, SweepTake, DeleteTake, EmptyBucket, DeleteFails, AppendLine,
     Rewrite, MoveProject, Switch, Lapse, PutLate, recorded
<1> QED
  BY <1>1, <1>2, <1>3, <1>4, PassShape DEF Next

LEMMA InitShape == Init => ShapeInv
<1> SUFFICES ASSUME Init PROVE ShapeInv
  OBVIOUS
<1>1. at = [p \in Passes |-> Empty]
  BY DEF Init
<1>2. PlacedInv
  BY <1>1, OverPlaced DEF PlacedInv
<1>3. StillInv
  BY <1>1 DEF StillInv, Empty
<1>4. RowInv
  <2>1. CASE row = NoRow
    BY <2>1 DEF RowInv
  <2>2. ASSUME NEW n \in Nat \ {0}, Archived(project, n) PROVE RowInv
    <3> DEFINE c == n \div ChunkLines
               text == [i \in 1 .. n |-> 0]
               Old(i) == [seq |-> i, off |-> (i - 1) * ChunkLines, text |-> OldPart,
                          key |-> ChunkKey(project, i, OldPart)]
    <3>1. c \in Nat /\ Lines(c) <= n /\ Lines(c) = c * ChunkLines /\ Lines(c) \in Nat
      BY Cuts, LinesAdd DEF Lines
    <3>2. /\ row.sha = text /\ row.size = n /\ row.sealed = Lines(c) /\ row.project = project
          /\ row.sealedSha = SubSeq(text, 1, Lines(c))
      BY <2>2, <3>1 DEF Archived
    <3>3. chunks = OldChunks(project, c) /\ chunks = {Old(i) : i \in 1 .. c}
      BY <2>2, ArchivedType, InitCases DEF OldChunks
    <3>4. \A i : Old(i).seq = i /\ Old(i).text = OldPart /\ Old(i).key = ChunkKey(project, i, OldPart)
      OBVIOUS
    <3>5. Cardinality(chunks) = c
      BY <3>1, <3>3, OldType, InitCases
    <3>6. text \in Seq(Nat) /\ Len(text) = n
      OBVIOUS
    <3> HIDE DEF c, Old
    <3>7. {d.seq : d \in chunks} = 1 .. c
      BY <3>3, <3>4
    <3>8. \A d, e \in chunks : d.seq = e.seq => d = e
      BY <3>3, <3>4
    <3>9. \A d \in chunks : d.text = OldPart /\ d.key = ChunkKey(project, d.seq, d.text)
      BY <3>3, <3>4
    <3>10. ASSUME NEW i \in 1 .. c PROVE ChunkOf(text, i) = OldPart
      <4> DEFINE a == Lines(i - 1)
      <4>1. a \in Nat /\ Lines(i) = a + ChunkLines /\ Lines(i) <= n /\ ChunkLines \in Nat \ {0}
        <5>1. i \in Nat \ {0} /\ i \in Nat /\ i <= c
          BY <3>1
        <5>2. Lines(i) <= Lines(c) /\ Lines(i) \in Nat
          BY <3>1, <5>1, LinesAdd
        <5>3. Lines(i - 1) \in Nat /\ Lines(i) = Lines(i - 1) + ChunkLines
          BY <5>1, LinesStep
        <5> QED
          BY <3>1, <5>2, <5>3, ConstantsAssumption
      <4> HIDE DEF a
      <4>2. ChunkOf(text, i) = SubSeq(text, a + 1, a + ChunkLines)
        BY <4>1 DEF ChunkOf, a
      <4>3. SubSeq(text, a + 1, a + ChunkLines) \in Seq(Nat)
            /\ Len(SubSeq(text, a + 1, a + ChunkLines)) = ChunkLines
        BY <3>6, <4>1, Piece
      <4>4. \A x \in 1 .. ChunkLines : SubSeq(text, a + 1, a + ChunkLines)[x] = 0
        BY <3>6, <4>1
      <4>5. OldPart \in Seq(Nat) /\ Len(OldPart) = ChunkLines /\ \A x \in 1 .. ChunkLines : OldPart[x] = 0
        BY <4>1 DEF OldPart
      <4> QED
        BY <4>2, <4>3, <4>4, <4>5, SeqEqual
    <3>11. Numbered(row)
      BY <3>2, <3>5, <3>7, <3>8, <3>9 DEF Numbered
    <3> HIDE DEF text
    <3>12. Pieces(row)
      BY <3>1, <3>2, <3>5, <3>6, <3>7, <3>9, <3>10 DEF Pieces
    <3> QED
      BY <3>1, <3>2, <3>11, <3>12 DEF RowInv
  <2> QED
    BY <2>1, <2>2, InitCases
<1> QED
  BY <1>2, <1>3, <1>4 DEF ShapeInv

LEMMA ShapeHolds == Spec => [](LedgerInv /\ ShapeInv)
<1>1. Init => LedgerInv /\ ShapeInv
  BY InitLedger, InitShape
<1>2. LedgerInv /\ ShapeInv /\ [Next]_vars => (LedgerInv /\ ShapeInv)'
  BY StepLedger, StepShape DEF LedgerInv
<1> QED
  BY <1>1, <1>2, PTL DEF Spec

LEMMA WriteKeepsSealed ==
  ASSUME Types, ShapeInv, NEW p \in Passes, Write(p), Recorded(p), row # NoRow,
         row'.project = row.project, Holds(row, row.project)
  PROVE  row'.size >= row.sealed
<1> DEFINE me == at[p]
<1>1. /\ me.pc = "write" /\ me \in Locals /\ me.sealed \in Sealing /\ me.tail \in Nat
      /\ me.scan \in Seq(Nat) /\ me.plan \in Seq(PlanParts)
      /\ me.plan # <<>> => IsPlan(me.scan, me.sealed, me.plan)
  BY WriteIs DEF Types, TypeOK, Locals, Planned
<1>2. Still(p)
  BY <1>1 DEF ShapeInv, StillInv
<1>3. row'.size = NewSealed(p) + me.tail /\ NewSealed(p) \in Nat /\ row'.project = me.key.project
  BY <1>1, NewRowType DEF Recorded
<1>4. row \in Row /\ row.sealed \in Nat
  BY HoldsHere DEF Types, Row
<1>5. CASE ~Chunked(p)
  BY <1>1, <1>2, <1>3, <1>4, <1>5 DEF Still
<1>6. CASE Chunked(p)
  <2>1. row.sealed = me.sealed.bytes
    BY <1>2, <1>3, <1>6 DEF Still
  <2>2. NewSealed(p) >= me.sealed.bytes
    <3>1. CASE me.plan = <<>>
      BY <1>1, <1>6, <3>1 DEF NewSealed, EndOf, Sealing
    <3>2. CASE me.plan # <<>>
      <4>1. NewSealed(p) = me.sealed.bytes + Lines(Len(me.plan)) /\ Len(me.plan) \in Nat
        BY <1>1, <1>6, <3>2, PlanEnds DEF NewSealed
      <4>2. Lines(Len(me.plan)) \in Nat /\ me.sealed.bytes \in Nat
        BY <1>1, <4>1, LinesAdd DEF Sealing
      <4> QED
        BY <4>1, <4>2
    <3> QED
      BY <3>1, <3>2
  <2> QED
    BY <1>1, <1>3, <1>4, <2>1, <2>2 DEF Sealing
<1> QED
  BY <1>5, <1>6

\* Whatever passes overlap and however old the file a confirm's pass had read, the
\* row never loses bytes that had been sealed.
THEOREM NeverBelowSealedHolds == Spec => NeverBelowSealed
<1> DEFINE Never == row # NoRow /\ row' # NoRow /\ row'.project = row.project /\ Holds(row, row.project)
                      => row'.size >= row.sealed
<1>1. ASSUME LedgerInv, ShapeInv, [Next]_vars PROVE Never
  <2> SUFFICES ASSUME row # NoRow, row' # NoRow, row'.project = row.project, Holds(row, row.project)
               PROVE  row'.size >= row.sealed
    OBVIOUS
  <2>1. CASE row'.size = row.size
    BY <1>1, <2>1 DEF ShapeInv, RowInv
  <2>2. ASSUME NEW p \in Passes, Write(p), Recorded(p) PROVE row'.size >= row.sealed
    BY <1>1, <2>2, WriteKeepsSealed DEF LedgerInv
  <2>3. CASE RowAges
    BY <1>1, <2>1, <2>3, RowAgesIs DEF LedgerInv, Types
  <2>4. ASSUME NEW p \in Passes, PassStep(p)
        PROVE  row' = row \/ (Write(p) /\ Recorded(p))
    BY <2>4, WriteIs DEF PassStep, Scan, Presign, Put, PutFails, Kill, Decide, Heads, Lock, recorded
  <2>5. ASSUME Deletion \/ Around \/ UNCHANGED vars
        PROVE  row' \in {row, NoRow} \/ RowAges
    BY <2>5 DEF Deletion, Around, vars, SweepTake, DeleteTake, EmptyBucket, DeleteCommits, DeleteFails,
       AppendLine, Rewrite, MoveProject, Switch, Lapse, PutLate, recorded
  <2> QED
    BY <1>1, <2>1, <2>2, <2>3, <2>4, <2>5 DEF Next
<1> QED
  BY <1>1, ShapeHolds, PTL DEF Spec, NeverBelowSealed

-----------------------------------------------------------------------------
(* The objects *)

\* The texts that key k has, should have, or may still be given.
RowClaims(k) == IF row # NoRow /\ row.key = k THEN {Rest(row.sha, k.n)} ELSE {}
PassClaims(k) == {Rest(at[p].scan, k.n) : p \in {p \in Passes : at[p].pc \in Sending /\ at[p].key = k}}
LateClaims(k) == {u.text : u \in {u \in late : u.key = k /\ u.same}}
Holding(k) == IF k \in DOMAIN bucket /\ k \notin mixed THEN {bucket[k]} ELSE {}

Claims(k) == RowClaims(k) \cup PassClaims(k) \cup LateClaims(k) \cup Holding(k)

\* A tail after some chunks is keyed by a pass and the number of its presign.
OwnKey(k) == k.kind # "chunk" /\ k.n > 0

Spent(p, a) == at[p].pc = "over" \/ a < at[p].asked

\* No two of them differ, and a key that is claimed is not drawn again.
AgreeInv == \A k : OwnKey(k) => \A x, y \in Claims(k) : x = y
FreshInv ==
  \A k : OwnKey(k) /\ Claims(k) # {} =>
    \A p \in Passes, a \in Nat : k.id = <<p, a>> => Spent(p, a)

\* A chunk is keyed by what it holds.
ChunkInv ==
  /\ \A k \in DOMAIN bucket : k.kind = "chunk" /\ k \notin mixed => bucket[k] = k.id
  /\ \A u \in late : u.key.kind = "chunk" /\ u.same => u.text = u.key.id

ObjectInv == AgreeInv /\ FreshInv /\ ChunkInv

\* A step after which every key's claims are among those before it.
LEMMA FewerClaims ==
  ASSUME ObjectInv, \A k : OwnKey(k) => Claims(k)' \subseteq Claims(k),
         \A p \in Passes, a \in Nat : Spent(p, a) => Spent(p, a)', ChunkInv'
  PROVE  ObjectInv'
<1>1. AgreeInv'
  BY DEF ObjectInv, AgreeInv, OwnKey
<1>2. FreshInv'
  <2> SUFFICES ASSUME NEW k, NEW p \in Passes, NEW a \in Nat, OwnKey(k), Claims(k)' # {}, k.id = <<p, a>>
               PROVE  Spent(p, a)'
    BY DEF FreshInv, OwnKey
  <2>1. Claims(k) # {}
    OBVIOUS
  <2> QED
    BY <2>1 DEF ObjectInv, FreshInv
<1> QED
  BY <1>1, <1>2 DEF ObjectInv

LEMMA SpentStays ==
  ASSUME TypeOK, NEW p \in Passes, NEW me, at' = [at EXCEPT ![p] = me],
         \/ me.pc = "over"
         \/ at[p].pc # "over" /\ me.asked \in {at[p].asked, at[p].asked + 1}
  PROVE  \A q \in Passes, a \in Nat : Spent(q, a) => Spent(q, a)'
<1>1. at'[p] = me /\ (\A q \in Passes : q # p => at'[q] = at[q]) /\ at[p].asked \in Nat
  BY DEF TypeOK, Locals
<1> SUFFICES ASSUME NEW q \in Passes, NEW a \in Nat, Spent(q, a) PROVE Spent(q, a)'
  OBVIOUS
<1>2. CASE q # p
  BY <1>1, <1>2 DEF Spent
<1>3. CASE q = p
  BY <1>1, <1>3 DEF Spent
<1> QED
  BY <1>2, <1>3

\* A pass that stays on its upload claims what it claimed, and one that ends nothing.
LEMMA PassClaimsIn ==
  ASSUME TypeOK, NEW p \in Passes, NEW me, at' = [at EXCEPT ![p] = me], me.pc \notin Sending \/ Onward(p, me)
  PROVE  \A k : PassClaims(k)' \subseteq PassClaims(k)
<1>1. at'[p] = me /\ (\A q \in Passes : q # p => at'[q] = at[q])
  BY DEF TypeOK
<1> QED
  BY <1>1 DEF PassClaims, Onward

\* Nothing lands, and the rows are kept or go: a pass moves on, or ends.
LEMMA ObjectsStay ==
  ASSUME TypeOK, ObjectInv, NEW p \in Passes, NEW me, PassTakes(p, me),
         UNCHANGED <<bucket, row, late, mixed>>
  PROVE  ObjectInv'
<1>1. \A k : PassClaims(k)' \subseteq PassClaims(k)
  BY PassClaimsIn DEF PassTakes, Sending
<1>2. \A k : Claims(k)' \subseteq Claims(k)
  <2>1. \A k : RowClaims(k)' = RowClaims(k) /\ LateClaims(k)' = LateClaims(k) /\ Holding(k)' = Holding(k)
    BY DEF RowClaims, LateClaims, Holding
  <2> QED
    BY <1>1, <2>1 DEF Claims
<1>3. \A q \in Passes, a \in Nat : Spent(q, a) => Spent(q, a)'
  BY SpentStays DEF PassTakes, Onward, Sending
<1>4. ChunkInv'
  BY DEF ObjectInv, ChunkInv
<1> QED
  BY <1>2, <1>3, <1>4, FewerClaims

\* What lands is mixed, or the key's own text.
LEMMA LandsObjects ==
  ASSUME TypeOK, NEW k, NEW text, NEW same, Lands(k, text, same),
         same /\ OwnKey(k) => text \in Claims(k)
  PROVE  \A j : OwnKey(j) => Holding(j)' \subseteq Claims(j)
<1> SUFFICES ASSUME NEW j, OwnKey(j) PROVE Holding(j)' \subseteq Claims(j)
  OBVIOUS
<1>1. /\ DOMAIN bucket' = DOMAIN bucket \cup {k} /\ bucket'[k] = text
      /\ \A i \in DOMAIN bucket : i # k => bucket'[i] = bucket[i]
  BY DEF Lands, Stored
<1>2. CASE j = k
  <2>1. Holding(j)' \subseteq IF same THEN {text} ELSE {}
    BY <1>1, <1>2 DEF Holding, Lands
  <2> QED
    BY <1>2, <2>1
<1>3. CASE j # k
  <2>1. Holding(j)' \subseteq Holding(j)
    BY <1>1, <1>3 DEF Holding, Lands
  <2> QED
    BY <2>1 DEF Claims
<1> QED
  BY <1>2, <1>3

LEMMA LandsChunks ==
  ASSUME ChunkInv, NEW k, NEW text, NEW same, Lands(k, text, same),
         same /\ k.kind = "chunk" => text = k.id
  PROVE  \A j \in DOMAIN bucket' : j.kind = "chunk" /\ j \notin mixed' => bucket'[j] = j.id
<1>1. /\ DOMAIN bucket' = DOMAIN bucket \cup {k} /\ bucket'[k] = text
      /\ \A i \in DOMAIN bucket : i # k => bucket'[i] = bucket[i]
  BY DEF Lands, Stored
<1>2. mixed' = IF same THEN mixed \ {k} ELSE mixed \cup {k}
  BY DEF Lands
<1> SUFFICES ASSUME NEW j \in DOMAIN bucket', j.kind = "chunk", j \notin mixed' PROVE bucket'[j] = j.id
  OBVIOUS
<1>3. CASE j = k
  BY <1>1, <1>2, <1>3
<1>4. CASE j # k
  BY <1>1, <1>2, <1>4 DEF ChunkInv
<1> QED
  BY <1>3, <1>4

\* What a pass sends, if it is what was hashed, is what it claims for its tail, and
\* what a chunk's key says.
LEMMA SendsClaimed ==
  ASSUME NEW p \in Passes, Sends(p, at[p]), at[p].pc = "put", NEW u, Aims(at[p], u), Same(p, u)
  PROVE  /\ u.key.kind = "chunk" => Bytes(u) = u.key.id
         /\ u.key.kind # "chunk" => Bytes(u) \in PassClaims(u.key)
BY DEF Same, Aims, PassClaims, Rest, Sending

LEMMA PutObjects == ASSUME Types, ShapeInv, ObjectInv, NEW p \in Passes, Put(p) PROVE ObjectInv'
<1> DEFINE u == Head(at[p].puts)
<1>1. /\ \E me : PassTakes(p, me)
      /\ at[p].pc = "put" /\ Sends(p, at[p]) /\ u \in Uploads /\ Aims(at[p], u)
  BY PutPlaces
<1>2. Lands(u.key, Bytes(u), Same(p, u)) /\ UNCHANGED <<row, late>>
  BY DEF Put, recorded
<1> HIDE DEF u
<1>3. Same(p, u) => /\ u.key.kind = "chunk" => Bytes(u) = u.key.id
                    /\ u.key.kind # "chunk" => Bytes(u) \in Claims(u.key)
  BY <1>1, SendsClaimed DEF Claims
<1>4. \A k : OwnKey(k) => Holding(k)' \subseteq Claims(k)
  BY <1>2, <1>3, LandsObjects DEF OwnKey, Types
<1>5. \A k : PassClaims(k)' \subseteq PassClaims(k)
  BY <1>1, PassClaimsIn DEF PassTakes, Sending, Types
<1>6. \A k : RowClaims(k)' = RowClaims(k) /\ LateClaims(k)' = LateClaims(k)
  BY <1>2 DEF RowClaims, LateClaims
<1>7. \A k : OwnKey(k) => Claims(k)' \subseteq Claims(k)
  BY <1>4, <1>5, <1>6 DEF Claims
<1>8. \A q \in Passes, a \in Nat : Spent(q, a) => Spent(q, a)'
  BY <1>1, SpentStays DEF PassTakes, Onward, Sending, Types
<1>9. ChunkInv'
  BY <1>2, <1>3, LandsChunks DEF ObjectInv, ChunkInv
<1> QED
  BY <1>7, <1>8, <1>9, FewerClaims

LEMMA EndsTakes == ASSUME NEW p, Ends(p) PROVE \E me : PassTakes(p, me)
BY EndsIs, OverPlaced DEF PassTakes

LEMMA PutFailsObjects == ASSUME Types, ShapeInv, ObjectInv, NEW p \in Passes, PutFails(p) PROVE ObjectInv'
<1> DEFINE u == Head(at[p].puts)
           l == [key |-> u.key, pass |-> p, text |-> Bytes(u), same |-> Same(p, u)]
<1>0. UNCHANGED <<bucket, row, mixed>> /\ Ends(p) /\ at[p].pc = "put"
  BY DEF PutFails, recorded, history
<1>1. PICK me : PassTakes(p, me)
  BY <1>0, EndsTakes
<1>2. CASE late' = late
  BY <1>0, <1>1, <1>2, ObjectsStay DEF Types
<1>3. CASE late' = late \cup {l}
  <2>1. at[p].puts # <<>> /\ at[p].puts \in Seq(Uploads)
    BY <1>0 DEF Types, TypeOK, Locals, Planned
  <2>2. u \in Range(at[p].puts)
    BY <2>1 DEF Range
  <2>3. Sends(p, at[p]) /\ Aims(at[p], u)
    BY <1>0, <2>2 DEF ShapeInv, PlacedInv, Placed, Sends, Sending
  <2> HIDE DEF u
  <2>4. l.key = u.key /\ l.text = Bytes(u) /\ l.same = Same(p, u)
    OBVIOUS
  <2> HIDE DEF l
  <2>5. Same(p, u) => /\ u.key.kind = "chunk" => Bytes(u) = u.key.id
                      /\ u.key.kind # "chunk" => Bytes(u) \in Claims(u.key)
    BY <1>0, <2>3, SendsClaimed DEF Claims
  <2>6. \A k : OwnKey(k) => LateClaims(k)' \subseteq Claims(k)
    BY <1>3, <2>4, <2>5 DEF OwnKey, LateClaims, Claims
  <2>7. \A k : PassClaims(k)' \subseteq PassClaims(k)
    BY <1>1, PassClaimsIn DEF PassTakes, Sending, Types
  <2>8. \A k : RowClaims(k)' = RowClaims(k) /\ Holding(k)' = Holding(k)
    BY <1>0 DEF RowClaims, Holding
  <2>9. \A k : OwnKey(k) => Claims(k)' \subseteq Claims(k)
    BY <2>6, <2>7, <2>8 DEF Claims
  <2>10. \A q \in Passes, a \in Nat : Spent(q, a) => Spent(q, a)'
    BY <1>1, SpentStays DEF PassTakes, Onward, Sending, Types
  <2>11. ChunkInv'
    BY <1>0, <1>3, <2>4, <2>5 DEF ObjectInv, ChunkInv
  <2> QED
    BY <2>9, <2>10, <2>11, FewerClaims
<1> QED
  BY <1>2, <1>3 DEF PutFails

LEMMA PutLateObjects == ASSUME Types, ObjectInv, NEW u \in late, PutLate(u) PROVE ObjectInv'
<1>1. Lands(u.key, u.text, u.same) /\ late' = late \ {u} /\ UNCHANGED <<row, at>>
  BY DEF PutLate, recorded
<1>2. u.same => /\ u.key.kind = "chunk" => u.text = u.key.id
                /\ u.text \in Claims(u.key)
  BY DEF ObjectInv, ChunkInv, Claims, LateClaims
<1>3. \A k : OwnKey(k) => Holding(k)' \subseteq Claims(k)
  BY <1>1, <1>2, LandsObjects DEF Types
<1>4. \A k : PassClaims(k)' = PassClaims(k) /\ RowClaims(k)' = RowClaims(k) /\ LateClaims(k)' \subseteq LateClaims(k)
  BY <1>1 DEF PassClaims, RowClaims, LateClaims
<1>5. \A k : OwnKey(k) => Claims(k)' \subseteq Claims(k)
  BY <1>3, <1>4 DEF Claims
<1>6. \A q \in Passes, a \in Nat : Spent(q, a) => Spent(q, a)'
  BY <1>1 DEF Spent
<1>7. ChunkInv'
  BY <1>1, <1>2, LandsChunks DEF ObjectInv, ChunkInv
<1> QED
  BY <1>5, <1>6, <1>7, FewerClaims

\* The key of a presign that leads to PUTs is new: nothing claims it.
LEMMA PresignObjects == ASSUME Types, ShapeInv, ObjectInv, NEW p \in Passes, Presign(p) PROVE ObjectInv'
<1>1. PICK me : PresignTakes(p, me)
  BY PresignPlaces
<1>2. UNCHANGED <<bucket, row, late, mixed>> /\ at[p].pc = "ask" /\ at[p].asked \in Nat
  BY DEF Presign, recorded, Types, TypeOK, Locals
<1>3. \A k : RowClaims(k)' = RowClaims(k) /\ LateClaims(k)' = LateClaims(k) /\ Holding(k)' = Holding(k)
  BY <1>2 DEF RowClaims, LateClaims, Holding
<1>4. at'[p] = me /\ \A q \in Passes : q # p => at'[q] = at[q]
  BY <1>1 DEF PresignTakes, Types, TypeOK
<1>5. \A q \in Passes, a \in Nat : Spent(q, a) => Spent(q, a)'
  BY <1>1, <1>2, SpentStays DEF PresignTakes, Types
<1>6. ChunkInv'
  BY <1>2 DEF ObjectInv, ChunkInv
<1>7. CASE ~(me.pc = "put" /\ me.key.n > 0)
  <2>1. \A k : OwnKey(k) => PassClaims(k)' \subseteq PassClaims(k)
    <3>1. me.pc = "put" \/ me.pc \notin Sending
      BY <1>1 DEF PresignTakes, Sending
    <3> QED
      BY <1>4, <1>7, <3>1 DEF PassClaims, OwnKey
  <2>2. \A k : OwnKey(k) => Claims(k)' \subseteq Claims(k)
    BY <1>3, <2>1 DEF Claims
  <2> QED
    BY <1>5, <1>6, <2>2, FewerClaims
<1>8. CASE me.pc = "put" /\ me.key.n > 0
  <2>1. me.asked = at[p].asked + 1 /\ me.key.id = <<p, me.asked - 1>> /\ me.key.kind # "chunk"
    BY <1>1, <1>8 DEF PresignTakes, Placed, Sends, Sending
  <2>2. me.asked - 1 = at[p].asked /\ me.key.id = <<p, at[p].asked>> /\ OwnKey(me.key)
    BY <1>2, <1>8, <2>1 DEF OwnKey
  <2>0. PICK n \in Nat : n = at[p].asked
    BY <1>2
  <2>3. ~Spent(p, n) /\ Spent(p, n)' /\ me.key.id = <<p, n>>
    BY <1>2, <1>4, <2>0, <2>1, <2>2 DEF Spent
  <2>4. Claims(me.key) = {}
    BY <1>2, <2>2, <2>3 DEF ObjectInv, FreshInv
  <2>5. \A k : PassClaims(k)' \subseteq PassClaims(k) \cup IF k = me.key THEN {Rest(me.scan, k.n)} ELSE {}
    BY <1>2, <1>4 DEF PassClaims, Sending
  <2>6. \A k : k # me.key => Claims(k)' \subseteq Claims(k)
    BY <1>3, <2>5 DEF Claims
  <2>7. Claims(me.key)' \subseteq {Rest(me.scan, me.key.n)}
    BY <1>3, <2>4, <2>5 DEF Claims
  <2>8. AgreeInv'
    <3> SUFFICES ASSUME NEW k, OwnKey(k), NEW x \in Claims(k)', NEW y \in Claims(k)' PROVE x = y
      BY DEF AgreeInv, OwnKey
    <3>1. CASE k = me.key
      BY <2>7, <3>1
    <3>2. CASE k # me.key
      BY <2>6, <3>2 DEF ObjectInv, AgreeInv
    <3> QED
      BY <3>1, <3>2
  <2>9. FreshInv'
    <3> SUFFICES ASSUME NEW k, OwnKey(k), Claims(k)' # {}, NEW q \in Passes, NEW a \in Nat, k.id = <<q, a>>
                 PROVE  Spent(q, a)'
      BY DEF FreshInv, OwnKey
    <3>1. CASE k = me.key
      <4>1. q = p /\ a = n
        BY <2>3, <3>1
      <4> QED
        BY <2>3, <4>1
    <3>2. CASE k # me.key
      <4>1. Claims(k) # {}
        BY <2>6, <3>2
      <4> QED
        BY <1>5, <4>1 DEF ObjectInv, FreshInv
    <3> QED
      BY <3>1, <3>2
  <2> QED
    BY <1>6, <2>8, <2>9 DEF ObjectInv
<1> QED
  BY <1>7, <1>8

\* A confirm claims for its row what its pass claimed.
LEMMA WriteObjects == ASSUME Types, ObjectInv, NEW p \in Passes, Write(p) PROVE ObjectInv'
<1>0. at[p].pc = "write" /\ Ends(p) /\ UNCHANGED <<bucket, late, mixed>> /\ (Recorded(p) \/ row' = row)
  BY WriteIs DEF Recorded, recorded
<1>1. PICK me : PassTakes(p, me) /\ me = Over
  BY <1>0, EndsIs, OverPlaced DEF PassTakes
<1>2. CASE row' = row
  BY <1>0, <1>1, <1>2, ObjectsStay DEF Types
<1>3. CASE Recorded(p)
  <2>1. row'.key = at[p].key /\ row'.sha = at[p].scan
    BY <1>3 DEF Recorded, NewRow
  <2>2. \A k : RowClaims(k)' \subseteq PassClaims(k)
    BY <1>0, <2>1 DEF RowClaims, PassClaims, Sending
  <2>3. \A k : PassClaims(k)' \subseteq PassClaims(k)
    BY <1>1, EndsIs, <1>0, PassClaimsIn DEF PassTakes, Sending, Types
  <2>4. \A k : LateClaims(k)' = LateClaims(k) /\ Holding(k)' = Holding(k)
    BY <1>0 DEF LateClaims, Holding
  <2>5. \A k : Claims(k)' \subseteq Claims(k)
    BY <2>2, <2>3, <2>4 DEF Claims
  <2>6. \A q \in Passes, a \in Nat : Spent(q, a) => Spent(q, a)'
    BY <1>0, EndsIs, SpentStays DEF Types
  <2>7. ChunkInv'
    BY <1>0 DEF ObjectInv, ChunkInv
  <2> QED
    BY <2>5, <2>6, <2>7, FewerClaims
<1> QED
  BY <1>0, <1>2, <1>3

\* The bucket loses objects, and the row goes or ages.
LEMMA ObjectsGo ==
  ASSUME ObjectInv, at' = at, late' = late, mixed' = mixed,
         row' = NoRow \/ row' = row \/ (row # NoRow /\ row'.key = row.key /\ row'.sha = row.sha),
         DOMAIN bucket' \subseteq DOMAIN bucket, \A k \in DOMAIN bucket' : bucket'[k] = bucket[k]
  PROVE  ObjectInv'
<1>1. \A k : RowClaims(k)' \subseteq RowClaims(k)
  BY DEF RowClaims
<1>2. \A k : Holding(k)' \subseteq Holding(k)
  BY DEF Holding
<1>3. \A k : PassClaims(k)' = PassClaims(k) /\ LateClaims(k)' = LateClaims(k)
  BY DEF PassClaims, LateClaims
<1>4. \A k : Claims(k)' \subseteq Claims(k)
  BY <1>1, <1>2, <1>3 DEF Claims
<1>5. \A q \in Passes, a \in Nat : Spent(q, a) => Spent(q, a)'
  BY DEF Spent
<1>6. ChunkInv'
  BY DEF ObjectInv, ChunkInv
<1> QED
  BY <1>4, <1>5, <1>6, FewerClaims

LEMMA StepObjects == ASSUME Types, ShapeInv, ObjectInv, [Next]_vars PROVE ObjectInv'
<1>1. ASSUME NEW p \in Passes, PassStep(p) PROVE ObjectInv'
  <2>1. CASE Scan(p) \/ Decide(p) \/ Heads(p) \/ Lock(p)
    <3>1. \E me : PassTakes(p, me)
      BY <2>1, ScanPlaces, DecidePlaces, HeadsPlaces, LockPlaces
    <3>2. UNCHANGED <<bucket, row, late, mixed>>
      BY <2>1 DEF Scan, Decide, Heads, Lock, recorded, history
    <3> QED
      BY <3>1, <3>2, ObjectsStay DEF Types
  <2>2. CASE Kill(p)
    <3>1. UNCHANGED <<bucket, row, late, mixed>> /\ Ends(p)
      BY <2>2 DEF Kill, recorded, history
    <3> QED
      BY <3>1, EndsTakes, ObjectsStay DEF Types
  <2> QED
    BY <1>1, <2>1, <2>2, PresignObjects, PutObjects, PutFailsObjects, WriteObjects DEF PassStep
<1>2. CASE RowAges
  BY <1>2, RowAgesIs, ObjectsGo DEF RowAges, history, Types
<1>3. ASSUME NEW u \in late, PutLate(u) PROVE ObjectInv'
  BY <1>3, PutLateObjects
<1>4. CASE \/ AppendLine \/ Rewrite \/ MoveProject \/ Switch \/ (\E p \in Passes : Lapse(p))
           \/ SweepTake \/ DeleteTake \/ UNCHANGED vars
  <2>1. UNCHANGED <<bucket, row, late, mixed, at>>
    BY <1>4 DEF AppendLine, Rewrite, MoveProject, Switch, Lapse, SweepTake, DeleteTake, vars, recorded, history
  <2> QED
    BY <2>1, ObjectsGo
<1>5. CASE EmptyBucket \/ DeleteCommits \/ DeleteFails
  <2>1. UNCHANGED <<late, mixed, at>> /\ (row' = NoRow \/ row' = row)
    BY <1>5 DEF EmptyBucket, DeleteCommits, DeleteFails, recorded
  <2>2. DOMAIN bucket' \subseteq DOMAIN bucket /\ \A k \in DOMAIN bucket' : bucket'[k] = bucket[k]
    BY <1>5 DEF EmptyBucket, DeleteCommits, DeleteFails, Restrict
  <2> QED
    BY <2>1, <2>2, ObjectsGo
<1> QED
  BY <1>1, <1>2, <1>3, <1>4, <1>5 DEF Next, Deletion, Around

LEMMA InitObjects == Init => ObjectInv
<1> SUFFICES ASSUME Init PROVE ObjectInv
  OBVIOUS
<1>1. at = [p \in Passes |-> Empty] /\ late = {} /\ mixed = {}
  BY DEF Init
<1>2. \A k : PassClaims(k) = {} /\ LateClaims(k) = {}
  BY <1>1 DEF PassClaims, LateClaims, Sending, Empty
<1>3. CASE row = NoRow /\ bucket = <<>>
  <2>1. \A k : Claims(k) = {}
    BY <1>2, <1>3 DEF Claims, RowClaims, Holding
  <2> QED
    BY <1>1, <1>3, <2>1 DEF ObjectInv, AgreeInv, FreshInv, ChunkInv
<1>4. ASSUME NEW n \in Nat \ {0}, Archived(project, n) PROVE ObjectInv
  <2> DEFINE c == n \div ChunkLines
             text == [i \in 1 .. n |-> 0]
             key == TailKey(project, c, <<NoPass, 0>>)
             K(i) == ChunkKey(project, i, OldPart)
  <2>1. c \in Nat /\ Lines(c) = c * ChunkLines /\ Len(text) = n
    BY Cuts, LinesAdd DEF Lines
  <2>2. key.kind # "chunk" /\ key.n = c /\ (c > 0 => key.id = <<NoPass, 0>>)
    BY <2>1, TailKeyIs
  <2>3. row.key = key /\ row.sha = text
    BY <1>4 DEF Archived
  <2>4. bucket = [k \in {key} \cup {K(i) : i \in 1 .. c} |->
                    IF k = key THEN SubSeq(text, Lines(c) + 1, n) ELSE k.id]
    BY <1>4, <2>1 DEF Archived, OldPart
  <2>5. \A i : K(i).kind = "chunk"
    BY DEF ChunkKey
  <2> HIDE DEF key, text, c, K
  <2>6. \A k : OwnKey(k) => Claims(k) \subseteq IF k = key THEN {Rest(text, c)} ELSE {}
    <3> SUFFICES ASSUME NEW k, OwnKey(k) PROVE Claims(k) \subseteq IF k = key THEN {Rest(text, c)} ELSE {}
      OBVIOUS
    <3>1. RowClaims(k) \subseteq IF k = key THEN {Rest(text, c)} ELSE {}
      BY <2>2, <2>3 DEF RowClaims
    <3>2. Holding(k) \subseteq IF k = key THEN {Rest(text, c)} ELSE {}
      BY <2>1, <2>4, <2>5 DEF Holding, Rest, OwnKey
    <3> QED
      BY <1>2, <3>1, <3>2 DEF Claims
  <2>7. AgreeInv
    BY <2>6 DEF AgreeInv
  <2>8. FreshInv
    <3> SUFFICES ASSUME NEW k, OwnKey(k), Claims(k) # {}, NEW p \in Passes, NEW a \in Nat, k.id = <<p, a>>
                 PROVE  FALSE
      BY DEF FreshInv
    <3>1. k = key /\ c > 0
      BY <2>2, <2>6 DEF OwnKey
    <3> QED
      BY <2>2, <3>1, ConstantsAssumption
  <2>9. ChunkInv
    BY <1>1, <2>2, <2>4 DEF ChunkInv
  <2> QED
    BY <2>7, <2>8, <2>9 DEF ObjectInv
<1> QED
  BY <1>3, <1>4, InitCases

LEMMA ExactHolds == Spec => [](LedgerInv /\ ShapeInv /\ ObjectInv)
<1>1. Init => LedgerInv /\ ShapeInv /\ ObjectInv
  BY InitLedger, InitShape, InitObjects
<1>2. LedgerInv /\ ShapeInv /\ ObjectInv /\ [Next]_vars => (LedgerInv /\ ShapeInv /\ ObjectInv)'
  BY StepLedger, StepShape, StepObjects DEF LedgerInv
<1> QED
  BY <1>1, <1>2, PTL DEF Spec

-----------------------------------------------------------------------------
(* The whole of a row *)

\* A set of numbers up to n has a least one.
LEMMA Least ==
  ASSUME NEW n \in Nat, NEW S \in SUBSET (0 .. n), S # {}
  PROVE  \E x \in S : \A y \in S : x <= y
<1> DEFINE T == {0 .. k : k \in S}
           R == StrictSubsetOrdering(0 .. n)
<1>1. IsWellFoundedOn(R, FiniteSubsetsOf(0 .. n))
  BY FS_StrictSubsetOrderingWellFounded
<1>2. T \subseteq FiniteSubsetsOf(0 .. n) /\ T # {}
  <2>1. ASSUME NEW k \in S PROVE (0 .. k) \in FiniteSubsetsOf(0 .. n)
    <3>1. IsFiniteSet(0 .. k)
      BY FS_Interval
    <3>2. 0 .. k \in SUBSET (0 .. n)
      OBVIOUS
    <3> QED
      BY <3>1, <3>2 DEF FiniteSubsetsOf
  <2> QED
    BY <2>1
<1>3. PICK X \in T : \A Y \in T : ~(<<Y, X>> \in R)
  <2> HIDE DEF T, R
  <2> QED
    BY <1>1, <1>2, WFMin
<1>4. PICK x \in S : X = 0 .. x
  OBVIOUS
<1>5. ASSUME NEW y \in S, y < x PROVE FALSE
  <2>1. (0 .. y) \in T /\ (0 .. y) \subseteq 0 .. x /\ x \in 0 .. x /\ x \notin 0 .. y
    BY <1>5
  <2>2. 0 .. y # 0 .. x
    BY <2>1
  <2>3. (0 .. y) \in SUBSET (0 .. n) /\ 0 .. x \in SUBSET (0 .. n)
    OBVIOUS
  <2>4. <<0 .. y, 0 .. x>> \in R
    BY <2>1, <2>2, <2>3 DEF StrictSubsetOrdering
  <2> QED
    BY <1>3, <1>4, <2>1, <2>4
<1> QED
  BY <1>5

\* Two pieces of a text that meet are one.
LEMMA Joined ==
  ASSUME NEW s \in Seq(Nat), NEW a \in Nat, NEW b \in Nat, a <= b, b <= Len(s)
  PROVE  SubSeq(s, 1, a) \o SubSeq(s, a + 1, b) = SubSeq(s, 1, b)
<1>1. /\ SubSeq(s, 1, a) \in Seq(Nat) /\ Len(SubSeq(s, 1, a)) = a
      /\ \A i \in 1 .. a : SubSeq(s, 1, a)[i] = s[i]
  OBVIOUS
<1>2. /\ SubSeq(s, a + 1, b) \in Seq(Nat) /\ Len(SubSeq(s, a + 1, b)) = b - a
      /\ \A i \in 1 .. b - a : SubSeq(s, a + 1, b)[i] = s[a + i]
  OBVIOUS
<1>3. /\ SubSeq(s, 1, b) \in Seq(Nat) /\ Len(SubSeq(s, 1, b)) = b
      /\ \A i \in 1 .. b : SubSeq(s, 1, b)[i] = s[i]
  OBVIOUS
<1> DEFINE front == SubSeq(s, 1, a)
           back == SubSeq(s, a + 1, b)
<1> HIDE DEF front, back
<1>4. /\ front \o back \in Seq(Nat) /\ Len(front \o back) = b
      /\ \A i \in 1 .. b : (front \o back)[i] = IF i <= a THEN front[i] ELSE back[i - a]
  <2>1. front \in Seq(Nat) /\ back \in Seq(Nat) /\ Len(front) = a /\ Len(back) = b - a /\ a + (b - a) = b
    BY <1>1, <1>2 DEF front, back
  <2>2. front \o back \in Seq(Nat)
    BY <2>1, ConcatProperties
  <2>5. Len(front \o back) = Len(front) + Len(back)
    BY <2>1, ConcatProperties
  <2>6. \A i \in 1 .. Len(front) + Len(back) : (front \o back)[i] =
                     IF i <= Len(front) THEN front[i] ELSE back[i - Len(front)]
    BY <2>1, ConcatProperties
  <2>3. Len(front \o back) = a + (b - a)
    BY <2>1, <2>5
  <2>4. \A i \in 1 .. a + (b - a) : (front \o back)[i] = IF i <= a THEN front[i] ELSE back[i - a]
    BY <2>1, <2>6
  <2> QED
    BY <2>1, <2>2, <2>3, <2>4
<1>5. \A i \in 1 .. b : (front \o back)[i] = s[i]
  <2> TAKE i \in 1 .. b
  <2>1. CASE i <= a
    BY <1>1, <1>4, <2>1 DEF front
  <2>2. CASE ~(i <= a)
    <3>1. i - a \in 1 .. b - a /\ a + (i - a) = i
      BY <2>2
    <3> QED
      BY <1>2, <1>4, <2>2, <3>1 DEF back
  <2> QED
    BY <2>1, <2>2
<1>6. front \o back = SubSeq(s, 1, b)
  BY <1>3, <1>4, <1>5, SeqEqual
<1> QED
  BY <1>6 DEF front, back

\* The first n chunks of a text, one after the other, are its first lines.
LEMMA Flattened ==
  ASSUME NEW s \in Seq(Nat), NEW n \in Nat \ {0}, Lines(n) <= Len(s), NEW parts,
         parts = [i \in 1 .. n |-> ChunkOf(s, i)]
  PROVE  FlattenSeq(parts) = SubSeq(s, 1, Lines(n))
<1> DEFINE Is(g) == g = [i \in 1 .. n |-> IF i = 1 THEN parts[i] ELSE g[i - 1] \o parts[i]]
           f == CHOOSE g : Is(g)
           h == [i \in 1 .. n |-> SubSeq(s, 1, Lines(i))]
<1>1. ASSUME NEW i \in 1 .. n
      PROVE  /\ parts[i] = ChunkOf(s, i) /\ Lines(i - 1) \in Nat /\ Lines(i) \in Nat
             /\ Lines(i - 1) <= Lines(i) /\ Lines(i) <= Len(s)
             /\ SubSeq(s, 1, Lines(i - 1)) \o parts[i] = SubSeq(s, 1, Lines(i))
  <2>1. i \in Nat \ {0} /\ i \in Nat /\ i <= n
    OBVIOUS
  <2>2. Lines(i) <= Lines(n) /\ Lines(i) \in Nat /\ Lines(n) \in Nat /\ Len(s) \in Nat
    <3>1. Lines(i) \in Nat /\ Lines(i) <= Lines(n)
      BY <2>1, n \in Nat, LinesAdd
    <3>2. Lines(n) \in Nat
      BY n \in Nat, LinesAdd
    <3>3. Len(s) \in Nat
      OBVIOUS
    <3> QED
      BY <3>1, <3>2, <3>3
  <2>3. Lines(i - 1) \in Nat /\ Lines(i) = Lines(i - 1) + ChunkLines
    BY <2>1, LinesStep
  <2>4. Lines(i - 1) <= Lines(i) /\ Lines(i) <= Len(s)
    BY <2>2, <2>3, ConstantsAssumption
  <2>5. parts[i] = SubSeq(s, Lines(i - 1) + 1, Lines(i))
    BY DEF ChunkOf
  <2> QED
    BY <2>2, <2>3, <2>4, <2>5, Joined DEF ChunkOf
<1>2. SubSeq(s, 1, Lines(0)) \o parts[1] = parts[1]
  <2>1. Lines(0) = 0 /\ 1 \in 1 .. n /\ 1 - 1 = 0
    BY LinesAdd, 0 \in Nat
  <2>2. parts[1] = ChunkOf(s, 1)
    BY <2>1, <1>1
  <2>3. Lines(1 - 1) + 1 = 1
    BY <2>1
  <2>4. parts[1] = SubSeq(s, 1, Lines(1))
    BY <2>2, <2>3 DEF ChunkOf
  <2>5. SubSeq(s, 1, Lines(1 - 1)) \o parts[1] = SubSeq(s, 1, Lines(1))
    BY <2>1, <1>1
  <2> QED
    BY <2>1, <2>4, <2>5
<1> HIDE DEF h
<1>3. \A i \in 1 .. n : h[i] = IF i = 1 THEN parts[i] ELSE h[i - 1] \o parts[i]
  <2> TAKE i \in 1 .. n
  <2>1. h[i] = SubSeq(s, 1, Lines(i - 1)) \o parts[i]
    BY <1>1 DEF h
  <2>2. CASE i = 1
    <3>1. i - 1 = 0 /\ 1 \in 1 .. n
      BY <2>2
    <3>2. h[i] = SubSeq(s, 1, Lines(0)) \o parts[1]
      BY <2>1, <2>2, <3>1
    <3> QED
      BY <1>2, <2>2, <3>2
  <2>3. CASE i # 1
    <3>1. i - 1 \in 1 .. n
      BY <2>3
    <3>2. h[i - 1] = SubSeq(s, 1, Lines(i - 1))
      BY <3>1 DEF h
    <3> QED
      BY <2>1, <2>3, <3>2
  <2> QED
    BY <2>2, <2>3
<1>4. Is(h)
  <2>1. h = [i \in 1 .. n |-> h[i]]
    BY DEF h
  <2> QED
    BY <1>3, <2>1
<1>5. Is(f)
  <2> HIDE DEF Is
  <2> QED
    BY <1>4
<1> HIDE DEF f
<1>6. \A i \in 1 .. n : f[i] = h[i]
  <2> DEFINE S == {i \in 1 .. n : f[i] # h[i]}
  <2> SUFFICES ASSUME S # {} PROVE FALSE
    OBVIOUS
  <2>1. S \in SUBSET (0 .. n)
    OBVIOUS
  <2>2. PICK i \in S : \A j \in S : i <= j
    <3> HIDE DEF S
    <3> QED
      BY <2>1, Least
  <2>3. i \in 1 .. n /\ f[i] # h[i]
    OBVIOUS
  <2>4. f[i] = IF i = 1 THEN parts[i] ELSE f[i - 1] \o parts[i]
    BY <1>5, <2>3
  <2>5. i # 1 => f[i - 1] = h[i - 1]
    <3> SUFFICES ASSUME i # 1 PROVE f[i - 1] = h[i - 1]
      OBVIOUS
    <3>1. i - 1 \in 1 .. n /\ ~(i <= i - 1)
      BY <2>3
    <3> QED
      BY <2>2, <3>1
  <2> QED
    BY <1>3, <2>3, <2>4, <2>5
<1>7. Len(parts) = n
  OBVIOUS
<1>8. FlattenSeq(parts) = f[n]
  BY <1>7 DEF FlattenSeq, f
<1>9. f[n] = SubSeq(s, 1, Lines(n))
  BY <1>6 DEF h
<1> QED
  BY <1>8, <1>9

\* No row that counts as chunked, and that is not spliced, names bytes other than those
\* its hash was taken of: every chunk and the tail are there, in order, and no other
\* pass's upload has replaced one (the one splicing confirm is Splices).
THEOREM ChunkedIsExactHolds == Spec => []ChunkedIsExact
<1>1. LedgerInv /\ ShapeInv /\ ObjectInv => ChunkedIsExact
  <2> SUFFICES ASSUME LedgerInv, ShapeInv, ObjectInv, row # NoRow, Holds(row, row.project),
                      ~row.spliced, Named \cap (lost \cup mixed \cup del.keys) = {}
               PROVE  Whole(row)
    BY DEF ChunkedIsExact
  <2> DEFINE n == Cardinality(chunks)
             Part(i) == CHOOSE c \in chunks : c.seq = i
             parts == [i \in 1 .. n |-> bucket[Part(i).key]]
             sha == row.sha
  <2>1. /\ row \in Row /\ sha \in Seq(Nat) /\ row.key.n = n /\ n \in Nat /\ chunks # {}
        /\ row.key.kind # "chunk"
    BY DEF LedgerInv, Types, TypeOK, Row, Key, Holds, TailOf
  <2>2. Numbered(row) /\ Pieces(row)
    BY DEF ShapeInv, RowInv
  <2>3. n > 0 /\ n \in Nat \ {0} /\ Lines(n) <= Len(sha) /\ Lines(n) \in Nat
    <3>1. 1 .. n # {}
      BY <2>1, <2>2, SMTT(30) DEF Numbered
    <3>2. n > 0
      BY <2>1, <3>1
    <3> QED
      BY <2>1, <2>2, <3>2, LinesAdd DEF Pieces
  <2>4. \A k \in Named : k \in DOMAIN bucket /\ k \notin mixed
    BY DEF LedgerInv, NamedInv, Emptied
  <2>5. ASSUME NEW i \in 1 .. n PROVE bucket[Part(i).key] = ChunkOf(sha, i)
    <3>1. Part(i) \in chunks /\ Part(i).seq = i
      BY <2>2 DEF Numbered
    <3> HIDE DEF Part
    <3>2. Part(i).key = ChunkKey(row.project, i, ChunkOf(sha, i))
      BY <2>2, <3>1 DEF Numbered, Pieces
    <3>3. Part(i).key \in Named
      BY <3>1 DEF Named, ChunkKeys
    <3> QED
      BY <2>4, <3>2, <3>3 DEF ObjectInv, ChunkInv, ChunkKey
  <2>6. bucket[row.key] = Rest(sha, n)
    <3>1. row.key \in Named
      BY DEF Named
    <3>2. bucket[row.key] \in Claims(row.key)
      BY <2>4, <3>1 DEF Claims, Holding
    <3>3. Rest(sha, n) \in Claims(row.key)
      BY <2>1 DEF Claims, RowClaims
    <3>4. OwnKey(row.key)
      BY <2>1, <2>3 DEF OwnKey
    <3> QED
      BY <3>2, <3>3, <3>4 DEF ObjectInv, AgreeInv
  <2>7. FlattenSeq(parts) = SubSeq(sha, 1, Lines(n))
    <3>1. parts = [i \in 1 .. n |-> ChunkOf(sha, i)]
      BY <2>5
    <3> HIDE DEF parts, n, sha
    <3> QED
      BY <2>1, <2>3, <3>1, Flattened
  <2>8. SubSeq(sha, 1, Lines(n)) \o Rest(sha, n) = sha
    <3> HIDE DEF n, sha
    <3>1. Len(sha) \in Nat /\ Len(sha) <= Len(sha)
      BY <2>1
    <3>2. SubSeq(sha, 1, Lines(n)) \o Rest(sha, n) = SubSeq(sha, 1, Len(sha))
      BY <2>1, <2>3, <3>1, Joined DEF Rest
    <3>3. SubSeq(sha, 1, Len(sha)) = sha
      BY <2>1
    <3> QED
      BY <3>2, <3>3
  <2>9. {c.seq : c \in chunks} = 1 .. n
    BY <2>2 DEF Numbered
  <2> QED
    BY <2>6, <2>7, <2>8, <2>9 DEF Whole
<1> QED
  BY <1>1, ExactHolds, PTL
=============================================================================
