--------------------------- MODULE RollupsProofs ---------------------------
(***************************************************************************)
(* That the rollups stay exact, whatever transactions overlap.             *)
(*                                                                         *)
(* Inv is inductive.  A transaction that holds the advisory lock sees rows *)
(* that count exactly the Turns it sees, but for those it has yet to add   *)
(* (View); the lock and the row locks keep what others commit meanwhile    *)
(* from changing that; and a transaction that commits has none left to add.*)
(* From there, by the sums of the last part, that a rollup row costs what  *)
(* its Turns do under any prices.                                          *)
(***************************************************************************)
EXTENDS Rollups, FiniteSetTheorems, TLAPS

Counts(m, d, z, g) == IF d # Absent /\ Group(m, d, z) = g THEN 1 ELSE 0

(* What is committed agrees, group by group and Turn by Turn.               *)
Agrees == \A g \in Groups, m \in Messages : rollups[g][m] = Counts(m, turns[m], zone, g)

(* Two transactions never write the same row, and the exclusive lock is     *)
(* held alone.                                                             *)
Apart ==
  \A t, u \in Txs : t # u =>
    /\ lock[t] = "exclusive" => lock[u] = "none"
    /\ \A m \in Messages : mine[t][m] # Unwritten => mine[u][m] = Unwritten
    /\ \A g \in Groups : rows[t][g] # Unwritten => rows[u][g] = Unwritten

(* Where a transaction is, and what it holds there.                        *)
Place(t) ==
  /\ pc[t] = "idle" => kind[t] = "none" /\ last[t] = Absent /\ left[t] = <<>>
  /\ pc[t] \in {"idle", "exclusive"} => lock[t] = "none"
  /\ pc[t] \in {"clear", "read"} => lock[t] = "exclusive"
  /\ pc[t] = "add" => lock[t] # "none"
  /\ pc[t] \notin {"lock", "add"} => fresh[t] = {}
  /\ pc[t] \in {"exclusive", "clear"} => last[t] = Absent /\ kind[t] \in {"change", "refresh", "zone"}
  /\ pc[t] = "read" => kind[t] \in {"change", "refresh", "zone"}
  /\ pc[t] = "insert" => left[t] # <<>>
  /\ kind[t] \in {"change", "refresh"} /\ pc[t] = "read" => last[t] = Absent
  /\ kind[t] = "zone" =>
       /\ left[t] = <<>>
       /\ pc[t] # "exclusive" => lock[t] = "exclusive"
       /\ \A m \in Messages : mine[t][m] = Unwritten
       /\ pc[t] \in {"lock", "add"} =>
            last[t] \in Messages /\ \A m \in fresh[t] : ~ Before(last[t], m)
  /\ kind[t] # "zone" => moved[t] = Unwritten

(* What it has written, there.                                             *)
Written(t) ==
  /\ lock[t] = "none" \/ pc[t] = "clear" => \A g \in Groups : rows[t][g] = Unwritten
  /\ pc[t] \in {"exclusive", "clear"} =>
       \A m \in Messages : mine[t][m] # Unwritten => Rebuilt(t, Reported[m].session)
  /\ lock[t] # "exclusive" /\ pc[t] # "exclusive" =>
       /\ moved[t] = Unwritten
       /\ \A m \in Messages :
            mine[t][m] # Unwritten => turns[m] = Absent /\ mine[t][m] # Absent
       /\ \A m \in fresh[t] : mine[t][m] # Unwritten
  /\ lock[t] = "none" /\ pc[t] # "exclusive" =>
       \A m \in Messages : mine[t][m] # Unwritten => m \in fresh[t]
  /\ \A m \in fresh[t] : Seen(t)[m] # Absent

Rebuilding(t) == pc[t] = "read" \/ (kind[t] = "zone" /\ pc[t] \in {"lock", "add"})
Pending(t, m) == m \in fresh[t] \/ (Rebuilding(t) /\ m \in Unread(t))

(* The rows a lock holder sees count the Turns it sees, but for the pending. *)
View(t) ==
  lock[t] # "none" /\ pc[t] # "clear" =>
    \A g \in Groups, m \in Messages :
      SeenRow(t, g)[m] = IF Pending(t, m) THEN 0 ELSE Counts(m, Seen(t)[m], SeenZone(t), g)

Inv ==
  /\ TypeOK
  /\ Agrees
  /\ Apart
  /\ \A t \in Txs : Place(t) /\ Written(t) /\ View(t)

----------------------------------------------------------------------------
(* Types. *)

(* A group is one of those a message can be in.                            *)
LEMMA GroupIsOne ==
  ASSUME NEW m \in Messages, NEW d \in Devices \cup {NoDevice}, NEW z \in Zones
  PROVE  Group(m, d, z) \in Groups
BY DEF Groups

LEMMA SeenTypes ==
  ASSUME TypeOK, NEW t \in Txs
  PROVE  /\ Seen(t) \in [Messages -> Stored]
         /\ SeenZone(t) \in Zones
         /\ \A g \in Groups : SeenRow(t, g) \in Bags
BY RollupsAssumption DEF TypeOK, Seen, SeenZone, SeenRow

(* A report's statements are sequences of sets of messages.                *)
LEMMA ChunkingsType == Chunkings \subseteq Seq(SUBSET Messages)
<1> SUFFICES ASSUME NEW c \in Chunkings PROVE c \in Seq(SUBSET Messages)
  OBVIOUS
<1>1. \A S \in SUBSET Messages : <<S>> \in Seq(SUBSET Messages)
  OBVIOUS
<1>2. \A S \in SUBSET Messages : <<S, Messages \ S>> \in Seq(SUBSET Messages)
  OBVIOUS
<1> QED
  BY <1>1, <1>2 DEF Chunkings

LEMMA InitType == Init => TypeOK
<1> SUFFICES ASSUME Init PROVE TypeOK
  OBVIOUS
<1>1. NoRow \in Bags
  BY DEF NoRow, Bags
<1>2. NothingWritten \in [Messages -> Stored \cup {Unwritten}]
  BY DEF NothingWritten
<1> QED
  BY <1>1, <1>2, RollupsAssumption DEF Init, TypeOK, Stored

(* A step of a transaction that is not its end keeps the types.            *)
LEMMA BeginType ==
  ASSUME TypeOK, NEW t \in Txs, NEW what \in {"ingest", "change", "refresh", "zone"},
         NEW step \in {"insert", "exclusive", "done"}, Begin(t, what, step)
  PROVE  /\ kind' \in [Txs -> {"none", "ingest", "change", "refresh", "zone"}]
         /\ pc' \in [Txs -> {"idle", "insert", "lock", "add", "exclusive", "clear", "read", "done"}]
         /\ writes' \in 0..MaxWrites
BY RollupsAssumption DEF TypeOK, Begin

LEMMA IngestType ==
  ASSUME TypeOK, NEW t \in Txs, NEW d \in Devices, NEW chunks \in Chunkings, Ingest(t, d, chunks)
  PROVE  TypeOK'
<1>1. chunks \in Seq(SUBSET Messages)
  BY ChunkingsType
<1>2. Begin(t, "ingest", "insert")
  BY DEF Ingest
<1> QED
  BY <1>1, <1>2, BeginType DEF Ingest, TypeOK, db

LEMMA InsertType ==
  ASSUME TypeOK, NEW t \in Txs, Place(t), InsertTurns(t)
  PROVE  TypeOK'
<1>1. left[t] \in Seq(SUBSET Messages) /\ left[t] # <<>>
  BY DEF TypeOK, Place, InsertTurns
<1>2. Tail(left[t]) \in Seq(SUBSET Messages) /\ Head(left[t]) \in SUBSET Messages
  BY <1>1
<1> DEFINE added == {m \in Head(left[t]) : Seen(t)[m] = Absent}
<1>3. added \in SUBSET Messages
  BY <1>2
<1>4. mine' = [mine EXCEPT ![t] = [m \in Messages |-> IF m \in added THEN device[t] ELSE @[m]]]
      /\ fresh' = [fresh EXCEPT ![t] = added]
      /\ left' = [left EXCEPT ![t] = Tail(@)]
      /\ pc' = [pc EXCEPT ![t] = IF added # {} THEN "lock"
                                ELSE IF Tail(left[t]) = <<>> THEN "done" ELSE "insert"]
  BY DEF InsertTurns
<1> HIDE DEF added
<1>5. mine' \in [Txs -> [Messages -> Stored \cup {Unwritten}]]
  BY <1>3, <1>4 DEF TypeOK, Stored
<1>6. left' \in [Txs -> Seq(SUBSET Messages)]
  BY <1>2, <1>4 DEF TypeOK
<1>7. fresh' \in [Txs -> SUBSET Messages]
  BY <1>3, <1>4 DEF TypeOK
<1>8. pc' \in [Txs -> {"idle", "insert", "lock", "add", "exclusive", "clear", "read", "done"}]
  BY <1>4 DEF TypeOK
<1> QED
  BY <1>5, <1>6, <1>7, <1>8 DEF TypeOK, InsertTurns, db

LEMMA AddType ==
  ASSUME TypeOK, NEW t \in Txs, Add(t)
  PROVE  TypeOK'
<1> DEFINE more(g) == [m \in Messages |-> SeenRow(t, g)[m]
             + (IF m \in fresh[t] /\ Group(m, Seen(t)[m], SeenZone(t)) = g THEN 1 ELSE 0)]
           added == {Group(m, Seen(t)[m], SeenZone(t)) : m \in fresh[t]}
<1>1. \A g \in Groups : more(g) \in Bags
  BY SeenTypes DEF Bags
<1>2. rows' = [rows EXCEPT ![t] = [g \in Groups |-> IF g \in added THEN more(g) ELSE @[g]]]
  BY DEF Add
<1> HIDE DEF more, added
<1>3. rows' \in [Txs -> [Groups -> Bags \cup {Unwritten}]]
  BY <1>1, <1>2 DEF TypeOK
<1> QED
  BY <1>3 DEF TypeOK, Add, db, NextStep

LEMMA ChangeType ==
  ASSUME TypeOK, NEW t \in Txs, NEW S \in SUBSET Messages, NEW to \in {NoDevice, Absent},
         Change(t, S, to)
  PROVE  /\ mine' \in [Txs -> [Messages -> Stored \cup {Unwritten}]]
         /\ touched' \in [Txs -> SUBSET {Reported[m].session : m \in Messages}]
BY DEF TypeOK, Change, Stored

LEMMA DetachType ==
  ASSUME TypeOK, NEW t \in Txs, NEW d \in Devices, Detach(t, d)
  PROVE  TypeOK'
<1> DEFINE S == {m \in Messages : turns[m] = d}
<1>1. Begin(t, "change", IF S = {} THEN "done" ELSE "exclusive") /\ Change(t, S, NoDevice)
  BY DEF Detach
<1> HIDE DEF S
<1>2. S \in SUBSET Messages
  BY DEF S
<1> QED
  BY <1>1, <1>2, BeginType, ChangeType DEF Detach, TypeOK, db

LEMMA PruneType ==
  ASSUME TypeOK, NEW t \in Txs, NEW d \in Devices, NEW cutoff, NEW seeds \in SUBSET Messages,
         Prune(t, d, cutoff, seeds)
  PROVE  TypeOK'
<1> DEFINE S == {m \in Messages : Reported[m].at < cutoff}
           step == IF \E m \in S : turns[m] # Absent THEN "exclusive" ELSE "insert"
<1>1. Begin(t, "refresh", step) /\ Change(t, S, Absent)
  BY DEF Prune
<1>2. S \in SUBSET Messages /\ step \in {"insert", "exclusive", "done"}
  OBVIOUS
<1>3. <<seeds>> \in Seq(SUBSET Messages)
  OBVIOUS
<1> HIDE DEF S, step
<1> QED
  BY <1>1, <1>2, <1>3, BeginType, ChangeType DEF Prune, TypeOK, db

LEMMA ClearType ==
  ASSUME TypeOK, NEW t \in Txs, Clear(t)
  PROVE  TypeOK'
<1>1. NoRow \in Bags
  BY DEF NoRow, Bags
<1> DEFINE gone == {g \in Groups : Rebuilt(t, g.session) /\ SeenRow(t, g) # NoRow}
<1>2. rows' = [rows EXCEPT ![t] = [g \in Groups |-> IF g \in gone THEN NoRow ELSE @[g]]]
  BY DEF Clear
<1> HIDE DEF gone
<1>3. rows' \in [Txs -> [Groups -> Bags \cup {Unwritten}]]
  BY <1>1, <1>2 DEF TypeOK
<1> QED
  BY <1>3 DEF TypeOK, Clear, db

LEMMA ReadType ==
  ASSUME TypeOK, NEW t \in Txs, Read(t)
  PROVE  TypeOK'
<1>1. Unread(t) \subseteq Messages
  BY DEF Unread
<1>2. CASE Unread(t) = {}
  BY <1>2 DEF TypeOK, Read, db, NextStep
<1>3. CASE Unread(t) # {}
  <2>1. PICK m \in Unread(t) :
          /\ fresh' = [fresh EXCEPT ![t] = {n \in Unread(t) : ~ Before(m, n)}]
          /\ last' = [last EXCEPT ![t] = m]
          /\ pc' = [pc EXCEPT ![t] = "lock"]
    BY <1>3 DEF Read
  <2>2. {n \in Unread(t) : ~ Before(m, n)} \in SUBSET Messages
    BY <1>1
  <2>3. fresh' \in [Txs -> SUBSET Messages]
    BY <2>1, <2>2 DEF TypeOK
  <2> QED
    BY <1>1, <2>1, <2>3 DEF TypeOK, Read, db
<1> QED
  BY <1>2, <1>3

(* Forgotten leaves a transaction as Init has it.                          *)
LEMMA ForgottenType ==
  ASSUME TypeOK, NEW t \in Txs, Forgotten(t)
  PROVE  /\ pc' \in [Txs -> {"idle", "insert", "lock", "add", "exclusive", "clear", "read", "done"}]
         /\ kind' \in [Txs -> {"none", "ingest", "change", "refresh", "zone"}]
         /\ device' \in [Txs -> Devices \cup {NoDevice}]
         /\ left' \in [Txs -> Seq(SUBSET Messages)]
         /\ touched' \in [Txs -> SUBSET {Reported[m].session : m \in Messages}]
         /\ fresh' \in [Txs -> SUBSET Messages]
         /\ last' \in [Txs -> Messages \cup {Absent}]
         /\ lock' \in [Txs -> {"none", "shared", "exclusive"}]
         /\ mine' \in [Txs -> [Messages -> Stored \cup {Unwritten}]]
         /\ rows' \in [Txs -> [Groups -> Bags \cup {Unwritten}]]
         /\ moved' \in [Txs -> Zones \cup {Unwritten}]
         /\ writes' \in 0..MaxWrites
<1>1. NothingWritten \in [Messages -> Stored \cup {Unwritten}]
  BY DEF NothingWritten
<1> QED
  BY <1>1 DEF TypeOK, Forgotten

LEMMA CommitType ==
  ASSUME TypeOK, NEW t \in Txs, Commit(t)
  PROVE  TypeOK'
<1>1. turns' \in [Messages -> Stored] /\ zone' \in Zones /\ rollups' \in [Groups -> Bags]
  BY SeenTypes DEF Commit
<1>2. Forgotten(t)
  BY DEF Commit
<1> QED
  BY <1>1, <1>2, ForgottenType DEF TypeOK

LEMMA RollBackType ==
  ASSUME TypeOK, NEW t \in Txs, RollBack(t)
  PROVE  TypeOK'
<1>1. Forgotten(t) /\ UNCHANGED <<turns, zone, rollups>>
  BY DEF RollBack, db
<1> QED
  BY <1>1, ForgottenType DEF TypeOK

(* Every step keeps the types, whoever takes it and wherever it is.         *)
LEMMA StepType ==
  ASSUME TypeOK, \A t \in Txs : Place(t), [Next]_vars
  PROVE  TypeOK'
<1>1. CASE UNCHANGED vars
  BY <1>1 DEF TypeOK, vars, db, own
<1>2. ASSUME NEW t \in Txs, NEW d \in Devices, NEW chunks \in Chunkings, Ingest(t, d, chunks)
      PROVE  TypeOK'
  BY <1>2, IngestType
<1>3. ASSUME NEW t \in Txs, InsertTurns(t) PROVE TypeOK'
  BY <1>3, InsertType
<1>4. ASSUME NEW t \in Txs, AddLock(t) PROVE TypeOK'
  BY <1>4 DEF TypeOK, AddLock, db
<1>5. ASSUME NEW t \in Txs, Add(t) PROVE TypeOK'
  BY <1>5, AddType
<1>6. ASSUME NEW t \in Txs, NEW d \in Devices, Detach(t, d) PROVE TypeOK'
  BY <1>6, DetachType
<1>7. ASSUME NEW t \in Txs, NEW d \in Devices, NEW m \in Messages, NEW seeds \in SUBSET Messages,
             Prune(t, d, Reported[m].at, seeds)
      PROVE  TypeOK'
  BY <1>7, PruneType
<1>8. ASSUME NEW t \in Txs, NEW z \in Zones, SetZone(t, z) PROVE TypeOK'
  <2>1. Begin(t, "zone", "exclusive")
    BY <1>8 DEF SetZone
  <2> QED
    BY <1>8, <2>1, BeginType DEF TypeOK, SetZone, db
<1>9. ASSUME NEW t \in Txs, ExclusiveLock(t) PROVE TypeOK'
  BY <1>9 DEF TypeOK, ExclusiveLock, db
<1>10. ASSUME NEW t \in Txs, Clear(t) PROVE TypeOK'
  BY <1>10, ClearType
<1>11. ASSUME NEW t \in Txs, Read(t) PROVE TypeOK'
  BY <1>11, ReadType
<1>12. ASSUME NEW t \in Txs, Commit(t) PROVE TypeOK'
  BY <1>12, CommitType
<1>13. ASSUME NEW t \in Txs, RollBack(t) PROVE TypeOK'
  BY <1>13, RollBackType
<1> QED
  BY <1>1, <1>2, <1>3, <1>4, <1>5, <1>6, <1>7, <1>8, <1>9, <1>10, <1>11, <1>12, <1>13 DEF Next

----------------------------------------------------------------------------
(* The steps, one by one: what each transaction's own facts become, and that *)
(* the others' are left as they were.                                      *)

Kept(u) ==
  /\ pc'[u] = pc[u] /\ kind'[u] = kind[u] /\ left'[u] = left[u]
  /\ touched'[u] = touched[u] /\ fresh'[u] = fresh[u] /\ last'[u] = last[u]
  /\ lock'[u] = lock[u] /\ mine'[u] = mine[u] /\ rows'[u] = rows[u] /\ moved'[u] = moved[u]

Mine(t) == Place(t) /\ Written(t) /\ View(t)

LEMMA OthersKept ==
  ASSUME NEW u \in Txs, Mine(u), Kept(u), UNCHANGED db
  PROVE  Mine(u)'
<1>1. turns' = turns /\ zone' = zone /\ rollups' = rollups
  BY DEF db
<1>2. Place(u)'
  BY DEF Mine, Place, Kept, Before
<1>3. Written(u)'
  BY <1>1 DEF Mine, Written, Kept, Seen, Rebuilt
<1>4. Unread(u)' = Unread(u)
  BY <1>1 DEF Unread, Seen, Rebuilt, Kept, Before
<1>5. View(u)'
  BY <1>1, <1>4 DEF Mine, View, Kept, Seen, SeenRow, SeenZone, Pending, Rebuilding
<1> QED
  BY <1>2, <1>3, <1>5 DEF Mine

LEMMA IngestStep ==
  ASSUME Inv, TypeOK', NEW t \in Txs, NEW d \in Devices, NEW chunks \in Chunkings, Ingest(t, d, chunks)
  PROVE  Agrees' /\ Apart' /\ Mine(t)' /\ UNCHANGED db /\ \A u \in Txs \ {t} : Kept(u)
<1>1. /\ pc[t] = "idle" /\ pc'[t] = "insert" /\ kind'[t] = "ingest" /\ left'[t] = chunks
      /\ UNCHANGED <<turns, zone, rollups, touched, fresh, last, lock, mine, rows, moved>>
      /\ \A u \in Txs \ {t} : Kept(u)
  BY DEF Ingest, Begin, Inv, TypeOK, Kept, db
<1>2. chunks # <<>>
  BY DEF Chunkings
<1>3. Place(t) /\ Written(t)
  BY DEF Inv
<1>4. Place(t)'
  BY <1>1, <1>2, <1>3 DEF Place
<1>5. Written(t)'
  BY <1>1, <1>3 DEF Place, Written, Seen
<1>6. View(t)'
  BY <1>1, <1>3 DEF Place, View
<1>7. Agrees' /\ Apart'
  BY <1>1 DEF Inv, Agrees, Apart
<1> QED
  BY <1>1, <1>4, <1>5, <1>6, <1>7 DEF Mine, db

LEMMA InsertStep ==
  ASSUME Inv, TypeOK', NEW t \in Txs, InsertTurns(t)
  PROVE  Agrees' /\ Apart' /\ Mine(t)' /\ UNCHANGED db /\ \A u \in Txs \ {t} : Kept(u)
<1> DEFINE added == {m \in Head(left[t]) : Seen(t)[m] = Absent}
<1>0. Place(t) /\ Written(t) /\ View(t)
  BY DEF Inv
<1>a. left[t] \in Seq(SUBSET Messages) /\ left[t] # <<>>
  BY <1>0 DEF Inv, TypeOK, Place, InsertTurns
<1>b. Head(left[t]) \in SUBSET Messages
  BY <1>a
<1>1. /\ pc[t] = "insert"
      /\ pc'[t] = (IF added # {} THEN "lock" ELSE IF Tail(left[t]) = <<>> THEN "done" ELSE "insert")
      /\ left'[t] = Tail(left[t]) /\ fresh'[t] = added
      /\ \A m \in Messages : mine'[t][m] = IF m \in added THEN device[t] ELSE mine[t][m]
      /\ kind'[t] = kind[t] /\ lock'[t] = lock[t] /\ last'[t] = last[t] /\ touched'[t] = touched[t]
      /\ rows'[t] = rows[t] /\ moved'[t] = moved[t]
      /\ UNCHANGED <<turns, zone, rollups, rows, lock>>
      /\ \A u \in Txs \ {t} : Kept(u)
      /\ \A u \in Txs \ {t}, m \in added : mine[u][m] = Unwritten
  BY DEF InsertTurns, Inv, TypeOK, Kept, db, TurnsFree, Others
<1>2. added \subseteq Messages /\ \A m \in added : Seen(t)[m] = Absent
  BY <1>b
<1>3. /\ device[t] \in Devices \cup {NoDevice} /\ device[t] # Absent /\ device[t] # Unwritten
  BY RollupsAssumption DEF Inv, TypeOK, Stored
<1> HIDE DEF added
<1>4. \A m \in Messages : Seen(t)'[m] = IF m \in added THEN device[t] ELSE Seen(t)[m]
  BY <1>1, <1>3 DEF Seen
<1>5. Place(t)'
  BY <1>0, <1>1 DEF Place
<1>6. Written(t)'
  BY <1>0, <1>1, <1>2, <1>3, <1>4, ZenonT(40) DEF Place, Written, Rebuilt, Seen
<1>7. View(t)'
  BY <1>0, <1>1, <1>2, <1>4 DEF Place, View, Pending, Rebuilding, SeenRow, SeenZone, Counts
<1>8. Agrees' /\ Apart'
  BY <1>1, <1>2 DEF Inv, Agrees, Apart, Kept
<1> QED
  BY <1>1, <1>5, <1>6, <1>7, <1>8 DEF Mine, db

LEMMA AddLockStep ==
  ASSUME Inv, TypeOK', NEW t \in Txs, AddLock(t)
  PROVE  Agrees' /\ Apart' /\ Mine(t)' /\ UNCHANGED db /\ \A u \in Txs \ {t} : Kept(u)
<1>0. Place(t) /\ Written(t) /\ View(t) /\ Agrees /\ Apart /\ TypeOK
  BY DEF Inv
<1>1. /\ pc[t] = "lock" /\ pc'[t] = "add"
      /\ lock'[t] = (IF lock[t] = "exclusive" THEN "exclusive" ELSE "shared")
      /\ \A u \in Txs \ {t} : Kept(u) /\ lock[u] # "exclusive"
      /\ UNCHANGED <<turns, zone, rollups, kind, left, touched, fresh, last, mine, rows, moved>>
  BY DEF AddLock, Inv, TypeOK, Kept, db, Others
<1>2. Place(t)'
  BY <1>0, <1>1 DEF Place
<1>3. Written(t)'
  BY <1>0, <1>1 DEF Place, Written, Rebuilt, Seen
<1>4. View(t)'
  <2>1. CASE lock[t] # "none"
    <3>1. Unread(t)' = Unread(t)
      BY <1>1 DEF Unread, Seen, Rebuilt
    <3> QED
      BY <2>1, <3>1, <1>0, <1>1 DEF View, Pending, Rebuilding, SeenRow, SeenZone, Seen
  <2>2. CASE lock[t] = "none"
    <3>1. kind[t] # "zone" /\ moved[t] = Unwritten
      BY <2>2, <1>0, <1>1 DEF Place, Written
    <3>2. \A m \in Messages : m \notin fresh[t] => Seen(t)[m] = turns[m]
      BY <2>2, <1>0, <1>1 DEF Written, Seen
    <3>3. \A m \in fresh[t] : m \in Messages /\ turns[m] = Absent
      BY <2>2, <1>0, <1>1 DEF Written, TypeOK
    <3>4. \A g \in Groups : SeenRow(t, g) = rollups[g]
      BY <2>2, <1>0 DEF Written, SeenRow
    <3> QED
      BY <3>1, <3>2, <3>3, <3>4, <1>0, <1>1
         DEF View, Pending, Rebuilding, SeenRow, SeenZone, Seen, Agrees, Counts
  <2> QED
    BY <2>1, <2>2
<1>5. Agrees'
  BY <1>0, <1>1 DEF Agrees
<1>6. \A u \in Txs \ {t} : lock'[u] = lock[u]
  BY <1>1 DEF Kept
<1>7. Apart'
  BY <1>0, <1>1, <1>6 DEF Apart
<1> QED
  BY <1>1, <1>2, <1>3, <1>4, <1>5, <1>7 DEF Mine, db

LEMMA AddStep ==
  ASSUME Inv, TypeOK', NEW t \in Txs, Add(t)
  PROVE  Agrees' /\ Apart' /\ Mine(t)' /\ UNCHANGED db /\ \A u \in Txs \ {t} : Kept(u)
<1> DEFINE added == {Group(m, Seen(t)[m], SeenZone(t)) : m \in fresh[t]}
           more(g) == [m \in Messages |-> SeenRow(t, g)[m]
             + (IF m \in fresh[t] /\ Group(m, Seen(t)[m], SeenZone(t)) = g THEN 1 ELSE 0)]
<1>0. Place(t) /\ Written(t) /\ View(t) /\ Agrees /\ Apart /\ TypeOK
  BY DEF Inv
<1>1. /\ pc[t] = "add" /\ fresh'[t] = {}
      /\ pc'[t] = (IF kind[t] = "zone" THEN "read" ELSE IF left[t] = <<>> THEN "done" ELSE "insert")
      /\ \A g \in Groups : rows'[t][g] = IF g \in added THEN more(g) ELSE rows[t][g]
      /\ \A u \in Txs \ {t} : Kept(u) /\ \A g \in added : rows[u][g] = Unwritten
      /\ UNCHANGED <<turns, zone, rollups, kind, left, touched, last, lock, mine, moved>>
  BY DEF Add, Inv, TypeOK, Kept, db, Others, RowsFree, NextStep
<1>2. \A g \in Groups : more(g) \in Bags /\ more(g) # Unwritten
  BY SeenTypes, RollupsAssumption DEF Inv, Bags
<1>3. \A g \in Groups : SeenRow(t, g)' = IF g \in added THEN more(g) ELSE SeenRow(t, g)
  BY <1>1, <1>2 DEF SeenRow
<1>4. \A g \in Groups, m \in Messages :
        SeenRow(t, g)'[m] = SeenRow(t, g)[m]
          + (IF m \in fresh[t] /\ Group(m, Seen(t)[m], SeenZone(t)) = g THEN 1 ELSE 0)
  <2> SUFFICES ASSUME NEW g \in Groups, NEW m \in Messages
               PROVE  SeenRow(t, g)'[m] = SeenRow(t, g)[m]
                        + (IF m \in fresh[t] /\ Group(m, Seen(t)[m], SeenZone(t)) = g THEN 1 ELSE 0)
    OBVIOUS
  <2>1. SeenRow(t, g)[m] \in Nat
    BY SeenTypes DEF Inv, Bags
  <2>2. CASE g \in added
    BY <2>2, <1>3
  <2>3. CASE g \notin added
    BY <2>1, <2>3, <1>3
  <2> QED
    BY <2>2, <2>3
<1> HIDE DEF added, more
<1>5. Place(t)'
  BY <1>0, <1>1 DEF Place
<1>6. Written(t)'
  BY <1>0, <1>1 DEF Place, Written, Rebuilt, Seen
<1>7. View(t)'
  <2>1. Seen(t)' = Seen(t) /\ SeenZone(t)' = SeenZone(t) /\ Unread(t)' = Unread(t)
    BY <1>1 DEF Seen, SeenZone, Unread, Rebuilt
  <2>2. \A m \in fresh[t] : m \in Messages /\ Seen(t)[m] # Absent
    BY <1>0 DEF Written, TypeOK
  <2>3. kind[t] = "zone" => \A m \in fresh[t] : m \notin Unread(t)
    BY <1>0, <1>1, RollupsAssumption DEF Place, Unread
  <2>4. \A m \in Messages : Pending(t, m) <=>
           (m \in fresh[t] \/ (kind[t] = "zone" /\ m \in Unread(t)))
    BY <1>1 DEF Pending, Rebuilding
  <2>5. \A m \in Messages : Pending(t, m)' <=> (kind[t] = "zone" /\ m \in Unread(t))
    BY <1>1, <2>1 DEF Pending, Rebuilding
  <2>6. lock[t] # "none"
    BY <1>0, <1>1 DEF Place
  <2> SUFFICES ASSUME NEW g \in Groups, NEW m \in Messages
               PROVE  SeenRow(t, g)'[m] =
                        IF Pending(t, m)' THEN 0 ELSE Counts(m, Seen(t)[m], SeenZone(t), g)
    BY <2>1 DEF View, Counts, Group, DayOf, Shape, Classes
  <2>7. SeenRow(t, g)[m] = IF Pending(t, m) THEN 0 ELSE Counts(m, Seen(t)[m], SeenZone(t), g)
    BY <1>0, <1>1, <2>6 DEF View
  <2>8. CASE m \in fresh[t]
    BY <2>2, <2>3, <2>4, <2>5, <2>7, <2>8, <1>4 DEF Counts
  <2>9. CASE m \notin fresh[t]
    <3>1. SeenRow(t, g)[m] \in Nat
      BY SeenTypes DEF Inv, Bags
    <3> QED
      BY <2>4, <2>5, <2>7, <2>9, <1>4, <3>1
  <2> QED
    BY <2>8, <2>9
<1>8. Agrees'
  BY <1>0, <1>1 DEF Agrees
<1>9. Apart'
  <2>1. \A u \in Txs \ {t} : rows'[u] = rows[u]
    BY <1>1 DEF Kept
  <2>2. \A u \in Txs \ {t}, g \in Groups : rows'[t][g] # Unwritten => rows'[u][g] = Unwritten
    BY <1>0, <1>1, <2>1 DEF Apart
  <2>3. \A u \in Txs \ {t}, g \in Groups : rows'[u][g] # Unwritten => rows'[t][g] = Unwritten
    BY <2>2
  <2> QED
    BY <1>0, <1>1, <2>1, <2>2, <2>3 DEF Apart
<1> QED
  BY <1>1, <1>5, <1>6, <1>7, <1>8, <1>9 DEF Mine, db

(* An update or delete, up to its trigger's lock; or one that hit nothing.   *)
LEMMA ChangeStep ==
  ASSUME Inv, TypeOK', NEW t \in Txs, NEW S \in SUBSET Messages, NEW to \in {NoDevice, Absent},
         Change(t, S, to),
         pc[t] = "idle", kind'[t] \in {"change", "refresh"},
         IF \E m \in S : turns[m] # Absent
         THEN pc'[t] = "exclusive"
         ELSE pc'[t] = "done" \/ (pc'[t] = "insert" /\ left'[t] # <<>>),
         UNCHANGED <<turns, zone, rollups, fresh, last, lock, rows, moved>>,
         \A u \in Txs \ {t} : pc'[u] = pc[u] /\ kind'[u] = kind[u] /\ left'[u] = left[u]
  PROVE  Agrees' /\ Apart' /\ Mine(t)' /\ UNCHANGED db /\ \A u \in Txs \ {t} : Kept(u)
<1> DEFINE hit == {m \in S : turns[m] # Absent}
<1>0. Place(t) /\ Written(t) /\ Agrees /\ Apart /\ TypeOK
  BY DEF Inv
<1>1. /\ \A m \in Messages : mine'[t][m] = IF m \in hit THEN to ELSE Unwritten
      /\ touched'[t] = {Reported[m].session : m \in hit}
      /\ \A u \in Txs \ {t} : Kept(u) /\ \A m \in hit : mine[u][m] = Unwritten
  BY DEF Change, Inv, TypeOK, Kept, Others, TurnsFree
<1>2. hit = {} <=> ~ \E m \in S : turns[m] # Absent
  OBVIOUS
<1> HIDE DEF hit
<1>3. Place(t)'
  BY <1>0, <1>1, <1>2 DEF Place
<1>4. Written(t)'
  <2>1. \A m \in Messages : mine'[t][m] # Unwritten => Reported[m].session \in touched'[t]
    BY <1>1
  <2>2. pc'[t] # "exclusive" => \A m \in Messages : mine'[t][m] = Unwritten
    BY <1>1, <1>2
  <2>3. fresh'[t] = {} /\ lock'[t] = "none" /\ moved'[t] = Unwritten
    BY <1>0 DEF Place, Written
  <2> QED
    BY <1>0, <2>1, <2>2, <2>3 DEF Place, Written, Rebuilt
<1>5. View(t)'
  BY <1>0 DEF Place, View
<1>6. Agrees'
  BY <1>0 DEF Agrees
<1>7. Apart'
  <2>1. \A u \in Txs \ {t} : mine'[u] = mine[u]
    BY <1>1 DEF Kept
  <2>2. \A u \in Txs \ {t}, m \in Messages :
          ~ (mine'[t][m] # Unwritten /\ mine'[u][m] # Unwritten)
    BY <1>1, <2>1
  <2> QED
    BY <1>0, <2>1, <2>2 DEF Apart
<1> QED
  BY <1>1, <1>3, <1>4, <1>5, <1>6, <1>7 DEF Mine, db

LEMMA DetachStep ==
  ASSUME Inv, TypeOK', NEW t \in Txs, NEW d \in Devices, Detach(t, d)
  PROVE  Agrees' /\ Apart' /\ Mine(t)' /\ UNCHANGED db /\ \A u \in Txs \ {t} : Kept(u)
<1> DEFINE S == {m \in Messages : turns[m] = d}
<1>1. d # Absent
  BY RollupsAssumption
<1>2. S = {} <=> ~ \E m \in S : turns[m] # Absent
  BY <1>1
<1>3. /\ pc[t] = "idle" /\ kind'[t] = "change" /\ pc'[t] = (IF S = {} THEN "done" ELSE "exclusive")
      /\ \A u \in Txs \ {t} : pc'[u] = pc[u] /\ kind'[u] = kind[u] /\ left'[u] = left[u]
      /\ UNCHANGED <<turns, zone, rollups, fresh, last, lock, rows, moved>>
      /\ Change(t, S, NoDevice)
  BY DEF Detach, Begin, Inv, TypeOK, db
<1>4. S \in SUBSET Messages
  OBVIOUS
<1> HIDE DEF S
<1> QED
  BY <1>2, <1>3, <1>4, ChangeStep

LEMMA PruneStep ==
  ASSUME Inv, TypeOK', NEW t \in Txs, NEW d \in Devices, NEW cutoff, NEW seeds \in SUBSET Messages,
         Prune(t, d, cutoff, seeds)
  PROVE  Agrees' /\ Apart' /\ Mine(t)' /\ UNCHANGED db /\ \A u \in Txs \ {t} : Kept(u)
<1> DEFINE S == {m \in Messages : Reported[m].at < cutoff}
<1>1. /\ pc[t] = "idle" /\ kind'[t] = "refresh" /\ left'[t] = <<seeds>>
      /\ pc'[t] = (IF \E m \in S : turns[m] # Absent THEN "exclusive" ELSE "insert")
      /\ \A u \in Txs \ {t} : pc'[u] = pc[u] /\ kind'[u] = kind[u] /\ left'[u] = left[u]
      /\ UNCHANGED <<turns, zone, rollups, fresh, last, lock, rows, moved>>
      /\ Change(t, S, Absent)
  BY DEF Prune, Begin, Inv, TypeOK, db
<1>2. S \in SUBSET Messages
  OBVIOUS
<1>3. <<seeds>> # <<>>
  OBVIOUS
<1> HIDE DEF S
<1> QED
  BY <1>1, <1>2, <1>3, ChangeStep

LEMMA SetZoneStep ==
  ASSUME Inv, TypeOK', NEW t \in Txs, NEW z \in Zones, SetZone(t, z)
  PROVE  Agrees' /\ Apart' /\ Mine(t)' /\ UNCHANGED db /\ \A u \in Txs \ {t} : Kept(u)
<1>0. Place(t) /\ Written(t) /\ Agrees /\ Apart
  BY DEF Inv
<1>1. /\ pc[t] = "idle" /\ kind'[t] = "zone" /\ pc'[t] = "exclusive"
      /\ \A u \in Txs \ {t} : Kept(u)
      /\ UNCHANGED <<turns, zone, rollups, left, touched, fresh, last, lock, mine, rows>>
  BY DEF SetZone, Begin, Inv, TypeOK, Kept, db
<1>2. Place(t)'
  BY <1>0, <1>1 DEF Place, Written
<1>3. Written(t)'
  BY <1>0, <1>1 DEF Place, Written, Rebuilt
<1>4. View(t)'
  BY <1>0, <1>1 DEF Place, View
<1>5. Agrees' /\ Apart'
  BY <1>0, <1>1 DEF Agrees, Apart
<1> QED
  BY <1>1, <1>2, <1>3, <1>4, <1>5 DEF Mine, db

LEMMA ExclusiveLockStep ==
  ASSUME Inv, TypeOK', NEW t \in Txs, ExclusiveLock(t)
  PROVE  Agrees' /\ Apart' /\ Mine(t)' /\ UNCHANGED db /\ \A u \in Txs \ {t} : Kept(u)
<1>0. Place(t) /\ Written(t) /\ Agrees /\ Apart
  BY DEF Inv
<1>1. /\ pc[t] = "exclusive" /\ pc'[t] = "clear" /\ lock'[t] = "exclusive"
      /\ \A u \in Txs \ {t} : Kept(u) /\ lock[u] = "none"
      /\ UNCHANGED <<turns, zone, rollups, kind, left, touched, fresh, last, mine, rows, moved>>
  BY DEF ExclusiveLock, Inv, TypeOK, Kept, db, Others
<1>2. Place(t)'
  BY <1>0, <1>1 DEF Place
<1>3. Written(t)'
  BY <1>0, <1>1 DEF Place, Written, Rebuilt, Seen
<1>4. View(t)'
  BY <1>1 DEF View
<1>5. Agrees'
  BY <1>0, <1>1 DEF Agrees
<1>6. \A u \in Txs \ {t} : lock'[u] = "none"
  BY <1>1 DEF Kept
<1>7. Apart'
  BY <1>0, <1>1, <1>6 DEF Apart
<1> QED
  BY <1>1, <1>2, <1>3, <1>4, <1>5, <1>7 DEF Mine, db

LEMMA ClearStep ==
  ASSUME Inv, TypeOK', NEW t \in Txs, Clear(t)
  PROVE  Agrees' /\ Apart' /\ Mine(t)' /\ UNCHANGED db /\ \A u \in Txs \ {t} : Kept(u)
<1> DEFINE gone == {g \in Groups : Rebuilt(t, g.session) /\ SeenRow(t, g) # NoRow}
<1>0. Place(t) /\ Written(t) /\ Agrees /\ Apart /\ TypeOK
  BY DEF Inv
<1>1. /\ pc[t] = "clear" /\ pc'[t] = "read"
      /\ \A g \in Groups : rows'[t][g] = IF g \in gone THEN NoRow ELSE rows[t][g]
      /\ \A u \in Txs \ {t} : Kept(u) /\ \A g \in gone : rows[u][g] = Unwritten
      /\ UNCHANGED <<turns, zone, rollups, kind, left, touched, fresh, last, lock, mine, moved>>
  BY DEF Clear, Inv, TypeOK, Kept, db, Others, RowsFree
<1>2. NoRow # Unwritten
  BY RollupsAssumption DEF NoRow, Bags
<1>3. \A g \in Groups : SeenRow(t, g) = rollups[g]
  BY <1>0, <1>1 DEF Written, SeenRow
<1>4. \A g \in Groups : SeenRow(t, g)' = IF Rebuilt(t, g.session) THEN NoRow ELSE rollups[g]
  BY <1>0, <1>1, <1>2, <1>3 DEF Written, SeenRow
<1> HIDE DEF gone
<1>5. Place(t)'
  BY <1>0, <1>1 DEF Place
<1>6. Written(t)'
  BY <1>0, <1>1 DEF Place, Written, Seen, Rebuilt
<1>7. View(t)'
  <2> SUFFICES ASSUME NEW g \in Groups, NEW m \in Messages
               PROVE  SeenRow(t, g)'[m] =
                        IF Pending(t, m)' THEN 0 ELSE Counts(m, Seen(t)'[m], SeenZone(t)', g)
    BY DEF View, Counts, Group, DayOf, Shape, Classes
  <2>1. fresh'[t] = {} /\ last'[t] = Absent
    BY <1>0, <1>1 DEF Place
  <2>2. Pending(t, m)' <=> Seen(t)'[m] # Absent /\ Rebuilt(t, Reported[m].session)
    BY <1>1, <2>1 DEF Pending, Rebuilding, Unread, Rebuilt, Seen
  <2>3. \A d, z : Group(m, d, z) = g => g.session = Reported[m].session
    BY DEF Group
  <2>4. CASE Rebuilt(t, g.session)
    BY <2>2, <2>3, <2>4, <1>4 DEF NoRow, Counts
  <2>5. CASE ~ Rebuilt(t, g.session)
    <3>1. SeenZone(t)' = zone /\ SeenZone(t) = zone
      BY <2>5, <1>0, <1>1 DEF Rebuilt, Place, SeenZone
    <3>2. rollups[g][m] = Counts(m, turns[m], zone, g)
      BY <1>0 DEF Agrees
    <3>3. SeenRow(t, g)' = rollups[g]
      BY <2>5, <1>4
    <3>4. CASE Rebuilt(t, Reported[m].session)
      <4>1. Reported[m].session # g.session
        BY <2>5, <3>4
      <4> QED
        BY <4>1, <2>3, <3>1, <3>2, <3>3 DEF Counts
    <3>5. CASE ~ Rebuilt(t, Reported[m].session)
      <4>1. mine[t][m] = Unwritten
        BY <3>5, <1>0, <1>1 DEF Written
      <4>2. Seen(t)'[m] = turns[m]
        BY <4>1, <1>1 DEF Seen
      <4> QED
        BY <4>2, <2>2, <3>1, <3>2, <3>3, <3>5
    <3> QED
      BY <3>4, <3>5
  <2> QED
    BY <2>4, <2>5
<1>8. Agrees'
  BY <1>0, <1>1 DEF Agrees
<1>9. Apart'
  <2>1. \A u \in Txs \ {t} : rows'[u] = rows[u]
    BY <1>1 DEF Kept
  <2>2. \A u \in Txs \ {t}, g \in Groups :
          ~ (rows'[t][g] # Unwritten /\ rows'[u][g] # Unwritten)
    BY <1>0, <1>1, <2>1 DEF Apart
  <2> QED
    BY <1>0, <1>1, <2>1, <2>2 DEF Apart
<1> QED
  BY <1>1, <1>5, <1>6, <1>7, <1>8, <1>9 DEF Mine, db

(* The keyset's order: what is past a Turn past the keyset is past it too.   *)
LEMMA BeforeTransitive ==
  ASSUME NEW k \in Messages, NEW m \in Messages, NEW n \in Messages, Before(k, m), Before(m, n)
  PROVE  Before(k, n)
BY RollupsAssumption DEF Before

LEMMA ReadStep ==
  ASSUME Inv, TypeOK', NEW t \in Txs, Read(t)
  PROVE  Agrees' /\ Apart' /\ Mine(t)' /\ UNCHANGED db /\ \A u \in Txs \ {t} : Kept(u)
<1>0. Place(t) /\ Written(t) /\ View(t) /\ Agrees /\ Apart /\ TypeOK
  BY DEF Inv
<1>1. /\ pc[t] = "read"
      /\ \A u \in Txs \ {t} : Kept(u)
      /\ UNCHANGED <<turns, zone, rollups, kind, left, touched, lock, mine, rows, moved>>
  BY DEF Read, Inv, TypeOK, Kept, db
<1>2. Agrees' /\ Apart'
  BY <1>0, <1>1 DEF Agrees, Apart
<1>3. lock[t] = "exclusive" /\ fresh[t] = {} /\ kind[t] \in {"change", "refresh", "zone"}
  BY <1>0, <1>1 DEF Place
<1>4. Seen(t)' = Seen(t) /\ SeenZone(t)' = SeenZone(t) /\ \A g \in Groups : SeenRow(t, g)' = SeenRow(t, g)
  BY <1>1 DEF Seen, SeenZone, SeenRow
<1>5. \A g \in Groups, m \in Messages :
        SeenRow(t, g)[m] = IF m \in Unread(t) THEN 0 ELSE Counts(m, Seen(t)[m], SeenZone(t), g)
  BY <1>0, <1>1, <1>3 DEF View, Pending, Rebuilding
<1>6. \A m \in Messages, g \in Groups :
        Counts(m, Seen(t)'[m], SeenZone(t)', g) = Counts(m, Seen(t)[m], SeenZone(t), g)
  BY <1>4
<1>7. CASE Unread(t) = {}
  <2>1. /\ fresh'[t] = {} /\ pc'[t] = (IF left[t] = <<>> THEN "done" ELSE "insert")
    BY <1>0, <1>3, <1>7 DEF Read, NextStep, TypeOK
  <2>2. Place(t)'
    BY <2>1, <1>0, <1>1, <1>3 DEF Place
  <2>3. Written(t)'
    BY <2>1, <1>0, <1>1, <1>3 DEF Written
  <2>4. View(t)'
    <3>1. \A m \in Messages : ~ Pending(t, m)'
      BY <2>1, <1>1 DEF Pending, Rebuilding
    <3> QED
      BY <3>1, <1>4, <1>5, <1>6, <1>7 DEF View
  <2> QED
    BY <1>1, <1>2, <2>2, <2>3, <2>4 DEF Mine, db
<1>8. CASE Unread(t) # {}
  <2>1. PICK k \in Unread(t) :
          /\ kind[t] # "zone" => \A n \in Unread(t) : ~ Before(k, n)
          /\ fresh' = [fresh EXCEPT ![t] = {n \in Unread(t) : ~ Before(k, n)}]
          /\ last' = [last EXCEPT ![t] = k]
          /\ pc' = [pc EXCEPT ![t] = "lock"]
    BY <1>8 DEF Read
  <2>2. /\ fresh'[t] = {n \in Unread(t) : ~ Before(k, n)}
        /\ last'[t] = k /\ k \in Messages /\ pc'[t] = "lock"
    BY <2>1, <1>0 DEF TypeOK, Unread
  <2>3. Place(t)'
    <3>1. \A m \in fresh'[t] : ~ Before(last'[t], m)
      BY <2>2
    <3> QED
      BY <2>2, <3>1, <1>0, <1>1, <1>3 DEF Place, Before
  <2>4. Written(t)'
    BY <2>2, <1>0, <1>1, <1>3, <1>4 DEF Written, Unread
  <2>5. k # Absent
    BY <2>2, RollupsAssumption
  <2>6. \A m \in Messages : Pending(t, m)' <=> m \in Unread(t)
    <3> SUFFICES ASSUME NEW m \in Messages PROVE Pending(t, m)' <=> m \in Unread(t)
      OBVIOUS
    <3>1. m \in Unread(t)' <=> /\ Seen(t)[m] # Absent
                               /\ Rebuilt(t, Reported[m].session)
                               /\ Before(k, m)
      BY <2>2, <2>5, <1>1, <1>4 DEF Unread, Rebuilt, Before
    <3>2. Before(k, m) /\ last[t] # Absent => Before(last[t], m)
      <4>1. last[t] # Absent => last[t] \in Messages /\ Before(last[t], k)
        BY <2>1, <1>0 DEF Unread, TypeOK
      <4> QED
        BY <2>2, <4>1, BeforeTransitive
    <3>3. m \in Unread(t)' => m \in Unread(t)
      BY <3>1, <3>2 DEF Unread
    <3>4. CASE kind[t] = "zone"
      <4>1. Pending(t, m)' <=> m \in fresh'[t] \/ m \in Unread(t)'
        BY <3>4, <2>2, <1>1 DEF Pending, Rebuilding
      <4>2. m \in Unread(t) /\ Before(k, m) => m \in Unread(t)'
        BY <3>1 DEF Unread
      <4> QED
        BY <4>1, <4>2, <3>3, <2>2
    <3>5. CASE kind[t] # "zone"
      <4>1. Pending(t, m)' <=> m \in fresh'[t]
        BY <3>5, <2>2, <1>1 DEF Pending, Rebuilding
      <4> QED
        BY <4>1, <3>5, <2>1, <2>2
    <3> QED
      BY <3>4, <3>5
  <2>7. View(t)'
    BY <2>6, <1>4, <1>5, <1>6 DEF View
  <2> QED
    BY <1>1, <1>2, <2>3, <2>4, <2>7 DEF Mine, db
<1> QED
  BY <1>7, <1>8

----------------------------------------------------------------------------
(* The end of a transaction. *)

LEMMA ForgottenStep ==
  ASSUME Inv, TypeOK', NEW t \in Txs, Forgotten(t)
  PROVE  Apart' /\ Mine(t)' /\ \A u \in Txs \ {t} : Kept(u)
<1>0. Apart /\ TypeOK
  BY DEF Inv
<1>1. /\ pc'[t] = "idle" /\ kind'[t] = "none" /\ left'[t] = <<>> /\ fresh'[t] = {}
      /\ last'[t] = Absent /\ lock'[t] = "none" /\ moved'[t] = Unwritten
      /\ \A m \in Messages : mine'[t][m] = Unwritten
      /\ \A g \in Groups : rows'[t][g] = Unwritten
  BY <1>0 DEF Forgotten, TypeOK, NothingWritten
<1>2. \A u \in Txs \ {t} : Kept(u)
  BY <1>0 DEF Forgotten, TypeOK, Kept
<1>3. Mine(t)'
  BY <1>1 DEF Mine, Place, Written, View
<1>4. Apart'
  BY <1>0, <1>1, <1>2 DEF Apart, Kept
<1> QED
  BY <1>2, <1>3, <1>4

(* A transaction that commits sees rows that agree with the Turns it sees.   *)
LEMMA CommitAgrees ==
  ASSUME Inv, NEW t \in Txs, Commit(t)
  PROVE  Agrees'
<1>0. Place(t) /\ Written(t) /\ View(t) /\ Agrees
  BY DEF Inv
<1>1. /\ pc[t] = "done" /\ turns' = Seen(t) /\ zone' = SeenZone(t)
      /\ \A g \in Groups : rollups'[g] = SeenRow(t, g)
  BY DEF Commit
<1>2. fresh[t] = {} /\ ~ Rebuilding(t)
  BY <1>0, <1>1 DEF Place, Rebuilding
<1>3. CASE lock[t] # "none"
  BY <1>0, <1>1, <1>2, <1>3 DEF View, Pending, Agrees
<1>4. CASE lock[t] = "none"
  <2>1. \A m \in Messages : Seen(t)[m] = turns[m]
    BY <1>0, <1>1, <1>2, <1>4 DEF Written, Seen
  <2>2. SeenZone(t) = zone /\ \A g \in Groups : SeenRow(t, g) = rollups[g]
    BY <1>0, <1>1, <1>4 DEF Written, SeenZone, SeenRow
  <2> QED
    BY <2>1, <2>2, <1>0, <1>1 DEF Agrees
<1> QED
  BY <1>3, <1>4

(* What another commits leaves a transaction's own facts as they were: with  *)
(* the exclusive lock nobody else has anything to commit, and of two shared  *)
(* ones neither has written a row of the other's.                          *)
LEMMA CommitOthers ==
  ASSUME Inv, TypeOK', NEW t \in Txs, Commit(t), NEW u \in Txs \ {t}, Kept(u)
  PROVE  Mine(u)'
<1>0. /\ Place(t) /\ Written(t) /\ View(t) /\ Place(u) /\ Written(u) /\ View(u)
      /\ Agrees /\ Apart /\ TypeOK
  BY DEF Inv
<1>1. /\ pc[t] = "done" /\ turns' = Seen(t) /\ zone' = SeenZone(t)
      /\ rollups' = [g \in Groups |-> SeenRow(t, g)]
  BY DEF Commit
<1>2. fresh[t] = {}
  BY <1>0, <1>1 DEF Place
<1>3. CASE lock[t] = "none"
  <2>1. \A m \in Messages : turns'[m] = turns[m]
    BY <1>0, <1>1, <1>2, <1>3 DEF Written, Seen
  <2>2. \A g \in Groups : rollups'[g] = rollups[g]
    BY <1>0, <1>1, <1>3 DEF Written, SeenRow
  <2>3. turns' = turns /\ zone' = zone /\ rollups' = rollups
    BY <2>1, <2>2, <1>0, <1>1, <1>3 DEF TypeOK, Written, SeenZone, Seen
  <2> QED
    BY <2>3, <1>0, OthersKept DEF Mine, db
<1>4. CASE lock[t] = "exclusive"
  <2>1. lock[u] = "none"
    BY <1>0, <1>4 DEF Apart
  <2>2. Place(u)'
    BY <1>0 DEF Place, Kept, Before
  <2>3. \A m \in Messages : mine[u][m] # Unwritten => turns'[m] = turns[m]
    BY <1>0, <1>1 DEF Apart, Seen
  <2>4. \A m \in fresh[u] : m \in Messages
    BY <1>0 DEF TypeOK
  <2>5. Written(u)'
    <3>1. \A m \in fresh[u] : Seen(u)'[m] # Absent
      <4>1. CASE pc[u] = "exclusive"
        BY <4>1, <1>0 DEF Place
      <4>2. CASE pc[u] # "exclusive"
        BY <4>2, <2>1, <2>4, <1>0 DEF Written, Seen, Kept
      <4> QED
        BY <4>1, <4>2
    <3> QED
      BY <3>1, <2>1, <2>3, <1>0 DEF Written, Kept, Rebuilt
  <2>6. View(u)'
    BY <2>1 DEF View, Kept
  <2> QED
    BY <2>2, <2>5, <2>6 DEF Mine
<1>5. CASE lock[t] = "shared"
  <2>1. lock[u] # "exclusive"
    BY <1>0, <1>5 DEF Apart
  <2>2. zone' = zone /\ \A m \in Messages :
           mine[t][m] # Unwritten => turns[m] = Absent /\ mine[t][m] # Absent
    BY <1>0, <1>1, <1>5 DEF Written, SeenZone
  <2>3. \A m \in Messages : mine[u][m] # Unwritten => turns'[m] = turns[m]
    BY <1>0, <1>1 DEF Apart, Seen
  <2>4. Place(u)'
    BY <1>0 DEF Place, Kept, Before
  <2>5. Written(u)'
    <3>1. \A m \in fresh[u] : m \in Messages
      BY <1>0 DEF TypeOK
    <3>2. \A m \in fresh[u] : Seen(u)'[m] # Absent
      <4>1. CASE pc[u] = "exclusive"
        BY <4>1, <1>0 DEF Place
      <4>2. CASE pc[u] # "exclusive"
        BY <4>2, <2>1, <3>1, <1>0 DEF Written, Seen, Kept
      <4> QED
        BY <4>1, <4>2
    <3> QED
      BY <3>2, <2>1, <2>3, <1>0 DEF Written, Kept, Rebuilt
  <2>6. View(u)'
    <3> SUFFICES ASSUME lock[u] # "none", pc[u] # "clear", NEW g \in Groups, NEW m \in Messages
                 PROVE  SeenRow(u, g)'[m] =
                          IF Pending(u, m)' THEN 0 ELSE Counts(m, Seen(u)'[m], SeenZone(u)', g)
      BY DEF View, Kept, Counts, Group, DayOf, Shape, Classes
    <3>1. lock[u] = "shared" /\ pc[u] # "exclusive" /\ pc[u] # "read" /\ kind[u] # "zone"
      BY <1>0, <2>1 DEF Place, TypeOK
    <3>2. Pending(u, m) <=> m \in fresh[u]
      BY <3>1, <1>0 DEF Pending, Rebuilding
    <3>3. Pending(u, m)' <=> m \in fresh[u]
      BY <3>1, <1>0 DEF Pending, Rebuilding, Kept
    <3>4. SeenZone(u)' = zone /\ SeenZone(u) = zone
      BY <3>1, <2>2, <1>0 DEF Place, SeenZone, Kept
    <3>5. SeenRow(u, g)[m] = IF m \in fresh[u] THEN 0 ELSE Counts(m, Seen(u)[m], zone, g)
      BY <3>2, <3>4, <1>0 DEF View
    <3>6. SeenRow(t, g)[m] = Counts(m, Seen(t)[m], zone, g)
      <4>1. ~ Pending(t, m)
        BY <1>0, <1>1, <1>2 DEF Place, Pending, Rebuilding
      <4> QED
        BY <4>1, <1>0, <1>1, <1>5, <2>2 DEF View
    <3>7. rollups[g][m] = Counts(m, turns[m], zone, g)
      BY <1>0 DEF Agrees
    <3>8. SeenRow(u, g)' = IF rows[u][g] = Unwritten THEN SeenRow(t, g) ELSE rows[u][g]
      BY <1>1 DEF SeenRow, Kept
    <3>9. CASE mine[u][m] # Unwritten
      <4>1. mine[t][m] = Unwritten /\ turns'[m] = turns[m]
        BY <3>9, <2>3, <1>0 DEF Apart
      <4>2. Seen(u)'[m] = Seen(u)[m] /\ Seen(t)[m] = turns[m] /\ turns[m] = Absent
        BY <4>1, <3>1, <3>9, <1>0 DEF Seen, Kept, Written
      <4>3. CASE rows[u][g] = Unwritten
        BY <3>3, <3>4, <3>5, <3>6, <3>7, <3>8, <4>2, <4>3 DEF SeenRow, Counts
      <4>4. CASE rows[u][g] # Unwritten
        BY <3>3, <3>4, <3>5, <3>8, <4>2, <4>4 DEF SeenRow
      <4> QED
        BY <4>3, <4>4
    <3>10. CASE mine[u][m] = Unwritten
      <4>1. m \notin fresh[u]
        BY <3>1, <3>10, <1>0 DEF Written
      <4>2. Seen(u)'[m] = Seen(t)[m] /\ Seen(u)[m] = turns[m]
        BY <3>10, <1>1 DEF Seen, Kept
      <4>3. CASE rows[u][g] = Unwritten
        BY <3>3, <3>4, <3>6, <3>8, <4>1, <4>2, <4>3
      <4>4. CASE rows[u][g] # Unwritten
        <5>1. SeenRow(t, g) = rollups[g]
          BY <4>4, <1>0 DEF Apart, SeenRow
        <5>2. Counts(m, Seen(t)[m], zone, g) = Counts(m, turns[m], zone, g)
          BY <5>1, <3>6, <3>7
        <5>3. SeenRow(u, g)' = SeenRow(u, g)
          BY <4>4, <3>8 DEF SeenRow
        <5> QED
          BY <5>2, <5>3, <3>3, <3>4, <3>5, <4>1, <4>2
      <4> QED
        BY <4>3, <4>4
    <3> QED
      BY <3>9, <3>10
  <2> QED
    BY <2>4, <2>5, <2>6 DEF Mine
<1> QED
  BY <1>0, <1>3, <1>4, <1>5 DEF TypeOK

----------------------------------------------------------------------------
(* The theorems. *)

LEMMA InitInv == Init => Inv
<1> SUFFICES ASSUME Init PROVE Inv
  OBVIOUS
<1>1. TypeOK
  BY InitType
<1>2. Agrees
  BY DEF Init, Agrees, Counts, NoRow
<1>3. Apart
  BY DEF Init, Apart, NothingWritten
<1>4. ASSUME NEW t \in Txs PROVE Place(t) /\ Written(t) /\ View(t)
  BY DEF Init, Place, Written, View, NothingWritten
<1> QED
  BY <1>1, <1>2, <1>3, <1>4 DEF Inv

(* A step that leaves what is committed alone, of one transaction.          *)
LEMMA StepInv ==
  ASSUME Inv, TypeOK', NEW t \in Txs,
         Agrees' /\ Apart' /\ Mine(t)' /\ UNCHANGED db /\ \A u \in Txs \ {t} : Kept(u)
  PROVE  Inv'
<1>1. ASSUME NEW u \in Txs \ {t} PROVE Mine(u)'
  BY OthersKept DEF Inv, Mine
<1> QED
  BY <1>1 DEF Inv, Mine

LEMMA NextInv == Inv /\ [Next]_vars => Inv'
<1> SUFFICES ASSUME Inv, [Next]_vars PROVE Inv'
  OBVIOUS
<1>0. TypeOK'
  BY StepType DEF Inv
<1>1. CASE UNCHANGED vars
  <2>1. ASSUME NEW u \in Txs PROVE Mine(u)'
    BY <1>1, OthersKept DEF Inv, Mine, Kept, vars, own
  <2>2. Agrees' /\ Apart'
    BY <1>1 DEF Inv, Agrees, Apart, vars, db, own
  <2> QED
    BY <1>0, <2>1, <2>2 DEF Inv, Mine
<1>2. ASSUME NEW t \in Txs, NEW d \in Devices, NEW chunks \in Chunkings, Ingest(t, d, chunks)
      PROVE  Inv'
  BY <1>0, <1>2, IngestStep, StepInv
<1>3. ASSUME NEW t \in Txs, InsertTurns(t) PROVE Inv'
  BY <1>0, <1>3, InsertStep, StepInv
<1>4. ASSUME NEW t \in Txs, AddLock(t) PROVE Inv'
  BY <1>0, <1>4, AddLockStep, StepInv
<1>5. ASSUME NEW t \in Txs, Add(t) PROVE Inv'
  BY <1>0, <1>5, AddStep, StepInv
<1>6. ASSUME NEW t \in Txs, NEW d \in Devices, Detach(t, d) PROVE Inv'
  BY <1>0, <1>6, DetachStep, StepInv
<1>7. ASSUME NEW t \in Txs, NEW d \in Devices, NEW m \in Messages, NEW seeds \in SUBSET Messages,
             Prune(t, d, Reported[m].at, seeds)
      PROVE  Inv'
  BY <1>0, <1>7, PruneStep, StepInv
<1>8. ASSUME NEW t \in Txs, NEW z \in Zones, SetZone(t, z) PROVE Inv'
  BY <1>0, <1>8, SetZoneStep, StepInv
<1>9. ASSUME NEW t \in Txs, ExclusiveLock(t) PROVE Inv'
  BY <1>0, <1>9, ExclusiveLockStep, StepInv
<1>10. ASSUME NEW t \in Txs, Clear(t) PROVE Inv'
  BY <1>0, <1>10, ClearStep, StepInv
<1>11. ASSUME NEW t \in Txs, Read(t) PROVE Inv'
  BY <1>0, <1>11, ReadStep, StepInv
<1>12. ASSUME NEW t \in Txs, Commit(t) PROVE Inv'
  <2>1. Forgotten(t)
    BY <1>12 DEF Commit
  <2>2. Apart' /\ Mine(t)' /\ \A u \in Txs \ {t} : Kept(u)
    BY <1>0, <2>1, ForgottenStep
  <2>3. Agrees'
    BY <1>12, CommitAgrees
  <2>4. ASSUME NEW u \in Txs \ {t} PROVE Mine(u)'
    BY <1>0, <1>12, <2>2, CommitOthers
  <2> QED
    BY <1>0, <2>2, <2>3, <2>4 DEF Inv, Mine
<1>13. ASSUME NEW t \in Txs, RollBack(t) PROVE Inv'
  <2>1. Forgotten(t) /\ UNCHANGED db
    BY <1>13 DEF RollBack
  <2>2. Apart' /\ Mine(t)' /\ \A u \in Txs \ {t} : Kept(u)
    BY <1>0, <2>1, ForgottenStep
  <2>3. Agrees'
    BY <2>1 DEF Inv, Agrees, db
  <2> QED
    BY <1>0, <2>1, <2>2, <2>3, StepInv
<1> QED
  BY <1>1, <1>2, <1>3, <1>4, <1>5, <1>6, <1>7, <1>8, <1>9, <1>10, <1>11, <1>12, <1>13 DEF Next

(* Every value stays in its type.                                          *)
THEOREM TypesHold == Spec => []TypeOK
<1>1. Inv => TypeOK
  BY DEF Inv
<1> QED
  BY <1>1, InitInv, NextInv, PTL DEF Spec

(* The rollups are exact, for any Turns, any number of transactions at once  *)
(* and any of their interleavings, rebuilds in batches of any size.         *)
THEOREM RollupsExact == Spec => []Exact
<1>1. Inv => Exact
  <2> SUFFICES ASSUME Inv PROVE rollups = Grouped(turns, zone)
    BY DEF Exact
  <2>1. \A g \in Groups : rollups[g] \in Bags
    BY DEF Inv, TypeOK
  <2> DEFINE row(g) == [m \in Messages |-> IF turns[m] # Absent /\ Group(m, turns[m], zone) = g
                                          THEN 1 ELSE 0]
  <2>2. \A g \in Groups, m \in Messages : rollups[g][m] = row(g)[m]
    BY DEF Inv, Agrees, Counts
  <2>3. \A g \in Groups : rollups[g] = row(g)
    BY <2>1, <2>2 DEF Bags
  <2>4. rollups = [g \in Groups |-> row(g)]
    BY <2>3 DEF Inv, TypeOK
  <2> QED
    BY <2>4 DEF Grouped
<1> QED
  BY <1>1, InitInv, NextInv, PTL DEF Spec

----------------------------------------------------------------------------
(* Finite sums. *)

(* Among some subsets of a finite set there is one no smaller of them is in. *)
LEMMA Smallest ==
  ASSUME NEW S, IsFiniteSet(S), NEW B \in SUBSET (SUBSET S), B # {}
  PROVE  \E X \in B : \A Y \in B : Y \subseteq X => Y = X
<1> DEFINE R == StrictSubsetOrdering(S)
<1>1. IsWellFoundedOn(R, FiniteSubsetsOf(S))
  BY FS_StrictSubsetOrderingWellFounded
<1>2. B \subseteq FiniteSubsetsOf(S)
  BY FS_Subset DEF FiniteSubsetsOf
<1>3. PICK X \in B : \A Y \in B : ~(<<Y, X>> \in R)
  <2> HIDE DEF R
  <2> QED
    BY <1>1, <1>2, WFMin
<1>4. ASSUME NEW Y \in B, Y \subseteq X, Y # X PROVE FALSE
  <2>1. <<Y, X>> \in R
    BY <1>4 DEF StrictSubsetOrdering
  <2> QED
    BY <1>3, <2>1
<1> QED
  BY <1>4

First(s) == CHOOSE x \in s : TRUE

(* g gives every subset of S the sum of f over it, as the library adds it up. *)
Adds(g, f, S) ==
  g = [s \in SUBSET S |-> IF s = {} THEN 0 ELSE f[First(s)] + g[s \ {First(s)}]]

Sum(f, S) == (CHOOSE g : Adds(g, f, S))[S]

LEMMA AddsOne ==
  ASSUME NEW f, NEW S, IsFiniteSet(S), NEW T, T \subseteq S, NEW g, NEW h,
         Adds(g, f, S), Adds(h, f, T)
  PROVE  \A s \in SUBSET T : g[s] = h[s]
<1> DEFINE B == {s \in SUBSET T : g[s] # h[s]}
<1> SUFFICES ASSUME B # {} PROVE FALSE
  OBVIOUS
<1>1. IsFiniteSet(T) /\ B \in SUBSET (SUBSET T)
  BY FS_Subset
<1>2. PICK s \in B : \A u \in B : u \subseteq s => u = s
  <2> HIDE DEF B
  <2> QED
    BY <1>1, Smallest
<1>3. s \in SUBSET T /\ s \in SUBSET S /\ g[s] # h[s]
  OBVIOUS
<1>4. /\ g[s] = IF s = {} THEN 0 ELSE f[First(s)] + g[s \ {First(s)}]
      /\ h[s] = IF s = {} THEN 0 ELSE f[First(s)] + h[s \ {First(s)}]
  BY <1>3 DEF Adds
<1>5. s # {}
  BY <1>3, <1>4
<1>6. First(s) \in s
  BY <1>5 DEF First
<1>7. s \ {First(s)} \in SUBSET T /\ s \ {First(s)} \subseteq s /\ s \ {First(s)} # s
  BY <1>3, <1>6
<1>8. g[s \ {First(s)}] = h[s \ {First(s)}]
  BY <1>2, <1>7
<1> QED
  BY <1>3, <1>4, <1>8

LEMMA AddsExists ==
  ASSUME NEW f, NEW S, IsFiniteSet(S)
  PROVE  \E g : Adds(g, f, S)
<1> DEFINE B == {T \in SUBSET S : ~\E g : Adds(g, f, T)}
<1> SUFFICES ASSUME B # {} PROVE FALSE
  OBVIOUS
<1>1. PICK T \in B : \A u \in B : u \subseteq T => u = T
  <2>1. B \in SUBSET (SUBSET S)
    OBVIOUS
  <2> HIDE DEF B
  <2> QED
    BY <2>1, Smallest
<1>2. T \in SUBSET S /\ ~\E g : Adds(g, f, T)
  OBVIOUS
<1> DEFINE G(s) == CHOOSE g : Adds(g, f, s)
           h == [s \in SUBSET T |-> IF s = {} THEN 0
                   ELSE f[First(s)] + G(s \ {First(s)})[s \ {First(s)}]]
<1>3. ASSUME NEW s \in SUBSET T, s # T PROVE Adds(G(s), f, s)
  <2>1. s \in SUBSET S /\ s \notin B
    BY <1>1, <1>2, <1>3
  <2>2. \E g : Adds(g, f, s)
    BY <2>1
  <2> QED
    BY <2>2
<1> HIDE DEF G, B
<1>4. ASSUME NEW s \in SUBSET T, s # T PROVE h[s] = G(s)[s]
  <2>1. Adds(G(s), f, s) /\ s \in SUBSET s
    BY <1>3, <1>4
  <2>2. G(s)[s] = IF s = {} THEN 0 ELSE f[First(s)] + G(s)[s \ {First(s)}]
    BY <2>1 DEF Adds
  <2>3. CASE s = {}
    BY <2>2, <2>3
  <2>4. CASE s # {}
    <3> DEFINE u == s \ {First(s)}
    <3>1. First(s) \in s
      BY <2>4 DEF First
    <3>2. u \in SUBSET T /\ u # T /\ u \subseteq s /\ u \in SUBSET u /\ IsFiniteSet(s)
      BY <1>2, <3>1, FS_Subset
    <3>3. Adds(G(u), f, u)
      BY <1>3, <3>2
    <3> HIDE DEF u
    <3>4. G(s)[u] = G(u)[u]
      BY <2>1, <3>2, <3>3, AddsOne
    <3> QED
      BY <2>2, <2>4, <3>4 DEF u
  <2> QED
    BY <2>3, <2>4
<1>5. ASSUME NEW s \in SUBSET T, s # {}
      PROVE  h[s] = f[First(s)] + h[s \ {First(s)}]
  <2>1. First(s) \in s
    BY <1>5 DEF First
  <2>2. s \ {First(s)} \in SUBSET T /\ s \ {First(s)} # T
    BY <2>1
  <2>3. h[s \ {First(s)}] = G(s \ {First(s)})[s \ {First(s)}]
    BY <1>4, <2>2
  <2> QED
    BY <1>5, <2>3
<1>6. h[{}] = 0
  OBVIOUS
<1>7. h = [s \in SUBSET T |-> h[s]]
  OBVIOUS
<1> HIDE DEF h
<1>8. Adds(h, f, T)
  <2>1. \A s \in SUBSET T : h[s] = IF s = {} THEN 0 ELSE f[First(s)] + h[s \ {First(s)}]
    BY <1>5, <1>6
  <2> QED
    BY <1>7, <2>1 DEF Adds
<1> QED
  BY <1>2, <1>8

(* Whatever adds f up gives the sum. *)
LEMMA SumIs ==
  ASSUME NEW f, NEW S, IsFiniteSet(S), NEW g, Adds(g, f, S)
  PROVE  g[S] = Sum(f, S)
<1> DEFINE h == CHOOSE h : Adds(h, f, S)
<1>1. Adds(h, f, S)
  OBVIOUS
<1> HIDE DEF h
<1>2. g[S] = h[S]
  BY <1>1, AddsOne
<1> QED
  BY <1>2 DEF Sum, h

LEMMA SumFirst ==
  ASSUME NEW f, NEW S, IsFiniteSet(S)
  PROVE  /\ S = {} => Sum(f, S) = 0
         /\ S # {} => First(S) \in S /\ Sum(f, S) = f[First(S)] + Sum(f, S \ {First(S)})
<1>1. PICK g : Adds(g, f, S)
  BY AddsExists
<1>2. Sum(f, S) = g[S]
  BY <1>1, SumIs
<1>3. g[S] = IF S = {} THEN 0 ELSE f[First(S)] + g[S \ {First(S)}]
  BY <1>1 DEF Adds
<1>4. ASSUME S # {} PROVE First(S) \in S
  BY <1>4 DEF First
<1>5. ASSUME S # {} PROVE g[S \ {First(S)}] = Sum(f, S \ {First(S)})
  <2> DEFINE u == S \ {First(S)}
  <2>1. u \subseteq S /\ IsFiniteSet(u) /\ u \in SUBSET u
    BY FS_Subset
  <2> HIDE DEF u
  <2>2. PICK h : Adds(h, f, u)
    BY <2>1, AddsExists
  <2>3. g[u] = h[u]
    BY <1>1, <2>1, <2>2, AddsOne
  <2>4. h[u] = Sum(f, u)
    BY <2>1, <2>2, SumIs
  <2> QED
    BY <2>3, <2>4 DEF u
<1> QED
  BY <1>2, <1>3, <1>4, <1>5

LEMMA SumInt ==
  ASSUME NEW f, NEW S, IsFiniteSet(S), \A x \in S : f[x] \in Int
  PROVE  Sum(f, S) \in Int
<1> DEFINE B == {T \in SUBSET S : Sum(f, T) \notin Int}
<1> SUFFICES ASSUME B # {} PROVE FALSE
  OBVIOUS
<1>1. PICK T \in B : \A u \in B : u \subseteq T => u = T
  <2>1. B \in SUBSET (SUBSET S)
    OBVIOUS
  <2> HIDE DEF B
  <2> QED
    BY <2>1, Smallest
<1>2. T \in SUBSET S /\ Sum(f, T) \notin Int /\ IsFiniteSet(T)
  BY FS_Subset
<1>3. T # {} /\ First(T) \in T /\ Sum(f, T) = f[First(T)] + Sum(f, T \ {First(T)})
  BY <1>2, SumFirst
<1>4. Sum(f, T \ {First(T)}) \in Int
  BY <1>1, <1>2, <1>3
<1> QED
  BY <1>2, <1>3, <1>4

(* Any element may be taken out first. *)
LEMMA SumElement ==
  ASSUME NEW f, NEW S, IsFiniteSet(S), \A x \in S : f[x] \in Int, NEW x \in S
  PROVE  Sum(f, S) = f[x] + Sum(f, S \ {x})
<1> DEFINE B == {T \in SUBSET S : \E y \in T : Sum(f, T) # f[y] + Sum(f, T \ {y})}
<1>1. ASSUME B # {} PROVE FALSE
  <2>1. PICK T \in B : \A u \in B : u \subseteq T => u = T
    <3>1. B \in SUBSET (SUBSET S)
      OBVIOUS
    <3> HIDE DEF B
    <3> QED
      BY <1>1, <3>1, Smallest
  <2>2. PICK y \in T : Sum(f, T) # f[y] + Sum(f, T \ {y})
    OBVIOUS
  <2> DEFINE a == First(T)  U == T \ {a}  V == T \ {y}  W == (T \ {a}) \ {y}
  <2>3. /\ T \in SUBSET S /\ IsFiniteSet(T) /\ a \in T /\ Sum(f, T) = f[a] + Sum(f, U)
    BY <2>2, FS_Subset, SumFirst
  <2>4. y # a
    BY <2>2, <2>3
  <2>5. /\ U \in SUBSET S /\ V \in SUBSET S /\ U # T /\ V # T /\ y \in U /\ a \in V
        /\ V \ {a} = W /\ IsFiniteSet(W) /\ W \subseteq S
    BY <2>2, <2>3, <2>4, FS_Subset
  <2>6. Sum(f, U) = f[y] + Sum(f, W)
    BY <2>1, <2>5
  <2>7. Sum(f, V) = f[a] + Sum(f, W)
    BY <2>1, <2>5
  <2>8. Sum(f, W) \in Int /\ f[a] \in Int /\ f[y] \in Int
    BY <2>2, <2>3, <2>5, SumInt
  <2> HIDE DEF a, U, V, W, B
  <2>9. Sum(f, T) = f[y] + Sum(f, V)
    BY <2>3, <2>6, <2>7, <2>8
  <2> QED
    BY <2>2, <2>9 DEF V
<1>2. S \notin B
  BY <1>1
<1> QED
  BY <1>2

(* Functions that agree on a set have one sum over it. *)
LEMMA SumSame ==
  ASSUME NEW f, NEW g, NEW S, IsFiniteSet(S), \A x \in S : f[x] = g[x]
  PROVE  Sum(f, S) = Sum(g, S)
<1>1. PICK h : Adds(h, f, S)
  BY AddsExists
<1>2. Adds(h, g, S)
  <2>1. \A s \in SUBSET S : s # {} => f[First(s)] = g[First(s)]
    BY DEF First
  <2> QED
    BY <1>1, <2>1 DEF Adds
<1> QED
  BY <1>1, <1>2, SumIs

(* What is zero can be left out. *)
LEMMA SumNonzero ==
  ASSUME NEW f, NEW S, IsFiniteSet(S), \A x \in S : f[x] \in Int, NEW T \in SUBSET S,
         \A x \in S \ T : f[x] = 0
  PROVE  Sum(f, S) = Sum(f, T)
<1> DEFINE B == {U \in SUBSET S : Sum(f, U) # Sum(f, U \cap T)}
<1>1. ASSUME B # {} PROVE FALSE
  <2>1. PICK U \in B : \A u \in B : u \subseteq U => u = U
    <3>1. B \in SUBSET (SUBSET S)
      OBVIOUS
    <3> HIDE DEF B
    <3> QED
      BY <1>1, <3>1, Smallest
  <2>2. U \in SUBSET S /\ Sum(f, U) # Sum(f, U \cap T) /\ IsFiniteSet(U) /\ IsFiniteSet(U \cap T)
    BY FS_Subset
  <2>3. PICK x \in U : TRUE
    BY <2>2
  <2> DEFINE V == U \ {x}
  <2>4. V \in SUBSET S /\ V # U /\ V \subseteq U /\ IsFiniteSet(V) /\ f[x] \in Int
    BY <2>2, <2>3, FS_Subset
  <2>5. Sum(f, V) = Sum(f, V \cap T) /\ Sum(f, V) \in Int
    BY <2>1, <2>4, SumInt
  <2>6. Sum(f, U) = f[x] + Sum(f, V)
    BY <2>2, <2>3, SumElement
  <2>7. CASE x \in T
    <3>1. x \in U \cap T /\ (U \cap T) \ {x} = V \cap T /\ \A y \in U \cap T : f[y] \in Int
      BY <2>2, <2>3, <2>7
    <3>2. Sum(f, U \cap T) = f[x] + Sum(f, (U \cap T) \ {x})
      BY <2>2, <3>1, SumElement
    <3> QED
      BY <2>2, <2>5, <2>6, <3>1, <3>2
  <2>8. CASE x \notin T
    <3>1. U \cap T = V \cap T /\ f[x] = 0
      BY <2>2, <2>3, <2>8
    <3>2. Sum(f, U) = Sum(f, V)
      <4> HIDE DEF V
      <4> QED
        BY <2>5, <2>6, <3>1
    <3>3. Sum(f, U \cap T) = Sum(f, V \cap T)
      BY <3>1
    <3> QED
      BY <2>2, <2>5, <3>2, <3>3
  <2> QED
    BY <2>7, <2>8
<1>2. S \notin B /\ S \cap T = T
  BY <1>1
<1> QED
  BY <1>2

(* Adding up part by part. *)
LEMMA SumParts ==
  ASSUME NEW f, NEW S, IsFiniteSet(S), \A x \in S : f[x] \in Int,
         NEW O, IsFiniteSet(O), NEW part, \A x \in S : part[x] \in O
  PROVE  Sum([g \in O |-> Sum(f, {x \in S : part[x] = g})], O) = Sum(f, S)
<1> DEFINE of(U) == [g \in O |-> Sum(f, {x \in U : part[x] = g})]
           B == {U \in SUBSET S : Sum(of(U), O) # Sum(f, U)}
<1>1. ASSUME NEW U \in SUBSET S, NEW g \in O
      PROVE  of(U)[g] = Sum(f, {x \in U : part[x] = g}) /\ of(U)[g] \in Int
             /\ IsFiniteSet({x \in U : part[x] = g})
  <2>1. IsFiniteSet({x \in U : part[x] = g}) /\ {x \in U : part[x] = g} \subseteq S
    BY FS_Subset
  <2> QED
    BY <2>1, SumInt
<1>2. ASSUME B # {} PROVE FALSE
  <2>1. PICK U \in B : \A u \in B : u \subseteq U => u = U
    <3>1. B \in SUBSET (SUBSET S)
      OBVIOUS
    <3> HIDE DEF B
    <3> QED
      BY <1>2, <3>1, Smallest
  <2>2. U \in SUBSET S /\ Sum(of(U), O) # Sum(f, U) /\ IsFiniteSet(U)
    BY FS_Subset
  <2>3. CASE U = {}
    <3>1. \A g \in O : of(U)[g] = 0
      <4> TAKE g \in O
      <4>1. {x \in U : part[x] = g} = {}
        BY <2>3
      <4> QED
        BY <2>2, <1>1, <4>1, SumFirst
    <3>2. Sum(f, U) = 0
      BY <2>2, <2>3, SumFirst
    <3>3. \A g \in O : of(U)[g] \in Int /\ (g \in O \ {} => of(U)[g] = 0)
      BY <3>1
    <3> HIDE DEF of
    <3>4. Sum(of(U), O) = Sum(of(U), {})
      BY <3>1, <3>3, SumNonzero
    <3>5. Sum(of(U), {}) = 0
      BY SumFirst, FS_EmptySet
    <3> QED
      BY <2>2, <3>2, <3>4, <3>5
  <2>4. CASE U # {}
    <3>1. PICK x \in U : TRUE
      BY <2>4
    <3> DEFINE V == U \ {x}  p == part[x]
    <3>2. V \in SUBSET S /\ V # U /\ V \subseteq U /\ p \in O /\ f[x] \in Int /\ IsFiniteSet(V)
      BY <2>2, <3>1, FS_Subset
    <3>3. Sum(of(V), O) = Sum(f, V) /\ Sum(f, V) \in Int
      BY <2>1, <3>2, SumInt
    <3>4. Sum(f, U) = f[x] + Sum(f, V)
      BY <2>2, <3>1, SumElement
    <3>5. of(U)[p] = f[x] + of(V)[p]
      <4> DEFINE Up == {y \in U : part[y] = p}  Vp == {y \in V : part[y] = p}
      <4>1. x \in Up /\ Up \ {x} = Vp /\ IsFiniteSet(Up) /\ \A y \in Up : f[y] \in Int
        BY <2>2, <3>1, FS_Subset
      <4>2. Sum(f, Up) = f[x] + Sum(f, Vp)
        <5> HIDE DEF Up, Vp
        <5> QED
          BY <4>1, SumElement
      <4> QED
        BY <3>2, <4>2
    <3>6. \A g \in O \ {p} : of(U)[g] = of(V)[g]
      <4> TAKE g \in O \ {p}
      <4>1. {y \in U : part[y] = g} = {y \in V : part[y] = g}
        OBVIOUS
      <4> QED
        BY <4>1
    <3>7. \A g \in O : of(U)[g] \in Int /\ of(V)[g] \in Int
      BY <1>1, <2>2, <3>2
    <3> HIDE DEF of, V, p
    <3>8. /\ Sum(of(U), O) = of(U)[p] + Sum(of(U), O \ {p})
          /\ Sum(of(V), O) = of(V)[p] + Sum(of(V), O \ {p})
      BY <3>2, <3>7, SumElement
    <3>9. IsFiniteSet(O \ {p}) /\ Sum(of(V), O \ {p}) \in Int
      BY <3>7, FS_Subset, SumInt
    <3>10. Sum(of(U), O \ {p}) = Sum(of(V), O \ {p})
      BY <3>6, <3>9, SumSame
    <3> QED
      BY <2>2, <3>2, <3>3, <3>4, <3>5, <3>7, <3>8, <3>9, <3>10
  <2> QED
    BY <2>3, <2>4
<1>3. S \notin B
  BY <1>2
<1> QED
  BY <1>3

(* How many are in U, counted one by one. *)
LEMMA SumCount ==
  ASSUME NEW S, IsFiniteSet(S), NEW U \in SUBSET S, NEW f, \A x \in S : f[x] = IF x \in U THEN 1 ELSE 0
  PROVE  Sum(f, S) = Cardinality(U)
<1>1. IsFiniteSet(U) /\ Sum(f, S) = Sum(f, U)
  BY FS_Subset, SumNonzero
<1> DEFINE B == {T \in SUBSET U : Sum(f, T) # Cardinality(T)}
<1>2. ASSUME B # {} PROVE FALSE
  <2>1. PICK T \in B : \A u \in B : u \subseteq T => u = T
    <3>1. B \in SUBSET (SUBSET U)
      OBVIOUS
    <3> HIDE DEF B
    <3> QED
      BY <1>1, <1>2, <3>1, Smallest
  <2>2. T \in SUBSET U /\ IsFiniteSet(T) /\ Sum(f, T) # Cardinality(T)
    BY <1>1, FS_Subset
  <2>3. T # {}
    BY <2>2, SumFirst, FS_EmptySet
  <2>4. First(T) \in T /\ Sum(f, T) = 1 + Sum(f, T \ {First(T)})
    BY <2>2, <2>3, SumFirst
  <2>5. Sum(f, T \ {First(T)}) = Cardinality(T \ {First(T)})
    BY <2>1, <2>2, <2>4
  <2>6. Cardinality(T \ {First(T)}) = Cardinality(T) - 1 /\ Cardinality(T) \in Nat
    BY <2>2, <2>4, FS_RemoveElement, FS_CardinalityType
  <2> QED
    BY <2>2, <2>4, <2>5, <2>6
<1>3. U \notin B
  BY <1>2
<1> QED
  BY <1>1, <1>3

LEMMA Distributes ==
  ASSUME NEW a \in Int, NEW b \in Int, NEW k \in Int
  PROVE  (a + b) * k = a * k + b * k /\ a * k \in Int
OBVIOUS

LEMMA Pairwise ==
  ASSUME NEW a \in Int, NEW b \in Int, NEW c \in Int, NEW d \in Int,
         NEW e \in Int, NEW f \in Int, NEW g \in Int, NEW h \in Int
  PROVE  a + b + c + d + (e + f + g + h) = (a + e) + (b + f) + (c + g) + (d + h)
OBVIOUS

(* The amounts w of every class, each at its price u. *)
LEMMA SumPriced ==
  ASSUME NEW S, IsFiniteSet(S), NEW w, NEW u,
         \A y \in Classes : u[y] \in Int /\ \A x \in S : w[y][x] \in Int,
         NEW f,
         \A x \in S : f[x] = w["input"][x] * u["input"] + w["output"][x] * u["output"]
                             + w["cache_write"][x] * u["cache_write"]
                             + w["web_search"][x] * u["web_search"]
  PROVE  Sum(f, S) = Sum(w["input"], S) * u["input"] + Sum(w["output"], S) * u["output"]
                     + Sum(w["cache_write"], S) * u["cache_write"]
                     + Sum(w["web_search"], S) * u["web_search"]
<1> DEFINE a == w["input"]  b == w["output"]  c == w["cache_write"]  d == w["web_search"]
           p == u["input"]  q == u["output"]  r == u["cache_write"]  v == u["web_search"]
<1>a. /\ p \in Int /\ q \in Int /\ r \in Int /\ v \in Int
      /\ \A x \in S : a[x] \in Int /\ b[x] \in Int /\ c[x] \in Int /\ d[x] \in Int
      /\ \A x \in S : f[x] = a[x] * p + b[x] * q + c[x] * r + d[x] * v
  BY DEF Classes, Tools
<1> HIDE DEF a, b, c, d, p, q, r, v
<1> DEFINE B == {T \in SUBSET S : Sum(f, T) # Sum(a, T) * p + Sum(b, T) * q + Sum(c, T) * r + Sum(d, T) * v}
<1>1. ASSUME B # {} PROVE FALSE
  <2>1. PICK T \in B : \A y \in B : y \subseteq T => y = T
    <3>1. B \in SUBSET (SUBSET S)
      OBVIOUS
    <3> HIDE DEF B
    <3> QED
      BY <1>1, <3>1, Smallest
  <2>2. T \in SUBSET S /\ IsFiniteSet(T)
        /\ Sum(f, T) # Sum(a, T) * p + Sum(b, T) * q + Sum(c, T) * r + Sum(d, T) * v
    BY FS_Subset
  <2>3. T # {}
    <3>1. 0 * p = 0 /\ 0 * q = 0 /\ 0 * r = 0 /\ 0 * v = 0
      BY <1>a
    <3>2. ASSUME T = {} PROVE Sum(f, T) = 0 /\ Sum(a, T) = 0 /\ Sum(b, T) = 0 /\ Sum(c, T) = 0 /\ Sum(d, T) = 0
      BY <2>2, <3>2, SumFirst
    <3> QED
      BY <2>2, <3>1, <3>2
  <2> DEFINE x == First(T)  U == T \ {x}
  <2>4. /\ x \in T /\ x \in S /\ U \in SUBSET S /\ IsFiniteSet(U) /\ U \subseteq T /\ U # T
        /\ Sum(f, T) = f[x] + Sum(f, U) /\ Sum(a, T) = a[x] + Sum(a, U)
        /\ Sum(b, T) = b[x] + Sum(b, U) /\ Sum(c, T) = c[x] + Sum(c, U)
        /\ Sum(d, T) = d[x] + Sum(d, U)
    BY <2>2, <2>3, SumFirst, FS_Subset
  <2>5. Sum(f, U) = Sum(a, U) * p + Sum(b, U) * q + Sum(c, U) * r + Sum(d, U) * v
    BY <2>1, <2>4
  <2>6. /\ Sum(a, U) \in Int /\ Sum(b, U) \in Int /\ Sum(c, U) \in Int /\ Sum(d, U) \in Int
        /\ a[x] \in Int /\ b[x] \in Int /\ c[x] \in Int /\ d[x] \in Int
        /\ f[x] = a[x] * p + b[x] * q + c[x] * r + d[x] * v
    BY <1>a, <2>4, SumInt
  <2> HIDE DEF x, U, B
  <2>7. /\ Sum(a, T) * p = a[x] * p + Sum(a, U) * p
        /\ Sum(b, T) * q = b[x] * q + Sum(b, U) * q
        /\ Sum(c, T) * r = c[x] * r + Sum(c, U) * r
        /\ Sum(d, T) * v = d[x] * v + Sum(d, U) * v
    BY <1>a, <2>4, <2>6, Distributes
  <2>8. /\ a[x] * p \in Int /\ b[x] * q \in Int /\ c[x] * r \in Int /\ d[x] * v \in Int
        /\ Sum(a, U) * p \in Int /\ Sum(b, U) * q \in Int /\ Sum(c, U) * r \in Int /\ Sum(d, U) * v \in Int
    BY <1>a, <2>6, Distributes
  <2>9. Sum(f, T) = a[x] * p + b[x] * q + c[x] * r + d[x] * v
                    + (Sum(a, U) * p + Sum(b, U) * q + Sum(c, U) * r + Sum(d, U) * v)
    BY <2>4, <2>5, <2>6
  <2>10. Sum(f, T) = Sum(a, T) * p + Sum(b, T) * q + Sum(c, T) * r + Sum(d, T) * v
    BY <2>7, <2>8, <2>9, Pairwise
  <2> QED
    BY <2>2, <2>10
<1>2. S \notin B
  BY <1>1
<1> QED
  BY <1>2 DEF a, b, c, d, p, q, r, v

----------------------------------------------------------------------------
(* Prices. *)

(* Among the prices there are for a class of tokens one is in force.        *)
LEMMA OneInForce ==
  ASSUME NEW R \in RateLists, NEW model, NEW c, NEW day
  PROVE  Price(R, model, c, day) \in Int
<1> DEFINE C == {r \in R : r.class = c /\ r.model \in {model, NoModel} /\ r.from <= day}
           Over(r) == {s \in C : Beats(s, r)}
           B == {Over(r) : r \in C}
<1>1. CASE C = {}
  BY <1>1 DEF Price, NoPrice
<1>2. CASE C # {}
  <2>1. /\ IsFiniteSet(C)
        /\ \A r \in C : r.rank \in Int /\ r.from \in Int /\ r.usd \in Int /\ r.model \in {model, NoModel}
        /\ \A r, s \in C : r.rank = s.rank /\ r.model = s.model /\ r.from = s.from
                => r = s
    <3>1. C \subseteq R /\ \A r \in C : r.class = c /\ r.model \in {model, NoModel}
      OBVIOUS
    <3>2. IsFiniteSet(C)
      <4> HIDE DEF C
      <4> QED
        BY <3>1, PricesAssumption, FS_Subset
    <3> HIDE DEF C
    <3>3. \A r \in R : r.rank \in Int /\ r.from \in Int /\ r.usd \in Int
      BY PricesAssumption
    <3>4. \A r, s \in R : r.rank = s.rank /\ r.model = s.model /\ r.class = s.class /\ r.from = s.from
                => r = s
      BY PricesAssumption
    <3>5. \A r, s \in C : r.rank = s.rank /\ r.model = s.model /\ r.from = s.from
                => r = s
      BY <3>1, <3>4
    <3>6. \A r \in C : r.rank \in Int /\ r.from \in Int /\ r.usd \in Int
      BY <3>1, <3>3
    <3> QED
      BY <3>1, <3>2, <3>5, <3>6
  <2> HIDE DEF C
  <2>2. PICK r \in C : \A s \in C : Over(s) \subseteq Over(r) => Over(s) = Over(r)
    <3>1. B \in SUBSET (SUBSET C) /\ B # {}
      BY <1>2
    <3>2. PICK X \in B : \A Y \in B : Y \subseteq X => Y = X
      <4> HIDE DEF B
      <4> QED
        BY <2>1, <3>1, Smallest
    <3>3. PICK r \in C : X = Over(r)
      OBVIOUS
    <3>4. \A s \in C : Over(s) \in B
      OBVIOUS
    <3>5. \A s \in C : Over(s) \subseteq Over(r) => Over(s) = Over(r)
      <4> TAKE s \in C
      <4> HAVE Over(s) \subseteq Over(r)
      <4> HIDE DEF Over, B
      <4> QED
        BY <3>2, <3>3, <3>4
    <3> QED
      BY <3>5
  <2>3. ASSUME NEW s \in C, Beats(s, r) PROVE FALSE
    <3>1. \A u \in C : Beats(u, s) => Beats(u, r)
      BY <2>1, <2>3 DEF Beats
    <3>2. ~Beats(s, s)
      BY <2>1 DEF Beats
    <3>3. Over(s) \subseteq Over(r) /\ s \in Over(r) /\ s \notin Over(s)
      BY <2>3, <3>1, <3>2
    <3> QED
      BY <2>2, <3>3
  <2>4. ASSUME NEW s \in C \ {r} PROVE Beats(r, s)
    <3>1. ~Beats(s, r) /\ s # r
      BY <2>3
    <3> QED
      BY <2>1, <3>1 DEF Beats
  <2> DEFINE best == CHOOSE b \in C : \A s \in C \ {b} : Beats(b, s)
  <2>5. best \in C
    BY <2>4
  <2>6. Price(R, model, c, day) = best.usd
    BY <1>2 DEF Price, C
  <2> HIDE DEF best
  <2> QED
    BY <2>1, <2>5, <2>6
<1> QED
  BY <1>1, <1>2

(* What a unit of a class costs, or nothing if nobody has entered a price.   *)
UnitCost(R, model, c, day, k) ==
  IF Price(R, model, c, day) = NoPrice THEN 0 ELSE Price(R, model, c, day) * k

LEMMA UnitCostIs ==
  ASSUME NEW R \in RateLists, NEW model, NEW c, NEW day, NEW k \in Int, NEW n \in Int
  PROVE  /\ UnitCost(R, model, c, day, k) \in Int
         /\ (IF Price(R, model, c, day) = NoPrice THEN 0 ELSE n * Price(R, model, c, day) * k)
              = n * UnitCost(R, model, c, day, k)
<1> DEFINE p == Price(R, model, c, day)
<1>1. p \in Int
  BY OneInForce
<1> HIDE DEF p
<1>2. p * k \in Int /\ n * p * k = n * (p * k) /\ n * 0 = 0
  BY <1>1
<1> QED
  BY <1>2 DEF UnitCost, p

LEMMA ClassesFinite == IsFiniteSet(Classes)
<1>1. IsFiniteSet({}) /\ IsFiniteSet({} \cup {"input"})
  BY FS_EmptySet, FS_AddElement
<1>2. IsFiniteSet(({} \cup {"input"}) \cup {"output"})
  BY <1>1, FS_AddElement
<1>3. IsFiniteSet((({} \cup {"input"}) \cup {"output"}) \cup {"cache_write"})
  BY <1>2, FS_AddElement
<1>4. IsFiniteSet(((({} \cup {"input"}) \cup {"output"}) \cup {"cache_write"}) \cup {"web_search"})
  BY <1>3, FS_AddElement
<1>5. ((({} \cup {"input"}) \cup {"output"}) \cup {"cache_write"}) \cup {"web_search"} = Classes
  BY DEF Classes, Tools
<1> QED
  BY <1>4, <1>5

LEMMA SumClasses ==
  ASSUME NEW f, \A c \in Classes : f[c] \in Int
  PROVE  Sum(f, Classes) = f["input"] + f["output"] + f["cache_write"] + f["web_search"]
<1>1. IsFiniteSet(Classes)
  BY ClassesFinite
<1> DEFINE three == Classes \ {"input"}  two == three \ {"output"}
           one == two \ {"cache_write"}  none == one \ {"web_search"}
<1>2. /\ "input" \in Classes /\ "output" \in three /\ "cache_write" \in two
      /\ "web_search" \in one /\ none = {}
  BY DEF Classes, Tools
<1>3. /\ IsFiniteSet(three) /\ IsFiniteSet(two) /\ IsFiniteSet(one)
      /\ three \subseteq Classes /\ two \subseteq Classes /\ one \subseteq Classes
  BY <1>1, FS_Subset
<1> HIDE DEF three, two, one, none
<1>4. Sum(f, Classes) = f["input"] + Sum(f, three)
  BY <1>1, <1>2, SumElement DEF three
<1>5. Sum(f, three) = f["output"] + Sum(f, two)
  BY <1>2, <1>3, SumElement DEF two
<1>6. Sum(f, two) = f["cache_write"] + Sum(f, one)
  BY <1>2, <1>3, SumElement DEF one
<1>7. Sum(f, one) = f["web_search"] + Sum(f, none)
  BY <1>2, <1>3, SumElement DEF none
<1>8. Sum(f, none) = 0
  BY <1>2, SumFirst, FS_EmptySet
<1>9. /\ f["input"] \in Int /\ f["output"] \in Int /\ f["cache_write"] \in Int
      /\ f["web_search"] \in Int
  BY DEF Classes, Tools
<1> QED
  BY <1>4, <1>5, <1>6, <1>7, <1>8, <1>9

(* The library's sums, one by one: what each adds up is the sum of a function. *)
LEMMA RowCosts ==
  ASSUME NEW R, NEW O, IsFiniteSet(O), NEW f, \A g \in O : f[g] = RowCost(R, g)
  PROVE  MapThenSumSet(LAMBDA g : RowCost(R, g), O) = Sum(f, O)
<1> DEFINE Is(h) == h = [s \in SUBSET O |-> IF s = {} THEN 0
                          ELSE LET x == CHOOSE x \in s : TRUE IN RowCost(R, x) + h[s \ {x}]]
           h == CHOOSE h : Is(h)
<1>1. ASSUME NEW g PROVE Is(g) <=> Adds(g, f, O)
  <2>1. \A s \in SUBSET O : s # {} => f[First(s)] = RowCost(R, First(s))
    BY DEF First
  <2> QED
    BY <2>1 DEF Adds, First
<1>2. Is(h)
  <2> HIDE DEF Is
  <2> QED
    BY <1>1, AddsExists
<1>3. MapThenSumSet(LAMBDA g : RowCost(R, g), O) = h[O]
  BY DEF MapThenSumSet, MapThenFoldSet
<1> HIDE DEF h, Is
<1> QED
  BY <1>1, <1>2, <1>3, SumIs

LEMMA TurnCosts ==
  ASSUME NEW R, NEW T, IsFiniteSet(T), NEW f, \A m \in T : f[m] = TurnCost(R, m)
  PROVE  MapThenSumSet(LAMBDA m : TurnCost(R, m), T) = Sum(f, T)
<1> DEFINE Is(h) == h = [s \in SUBSET T |-> IF s = {} THEN 0
                          ELSE LET x == CHOOSE x \in s : TRUE IN TurnCost(R, x) + h[s \ {x}]]
           h == CHOOSE h : Is(h)
<1>1. ASSUME NEW g PROVE Is(g) <=> Adds(g, f, T)
  <2>1. \A s \in SUBSET T : s # {} => f[First(s)] = TurnCost(R, First(s))
    BY DEF First
  <2> QED
    BY <2>1 DEF Adds, First
<1>2. Is(h)
  <2> HIDE DEF Is
  <2> QED
    BY <1>1, AddsExists
<1>3. MapThenSumSet(LAMBDA m : TurnCost(R, m), T) = h[T]
  BY DEF MapThenSumSet, MapThenFoldSet
<1> HIDE DEF h, Is
<1> QED
  BY <1>1, <1>2, <1>3, SumIs

UnpricedIn(R, g) == IF RowUnpriced(R, g) THEN Counted(g, LAMBDA m : 1) ELSE 0

LEMMA UnpricedCounts ==
  ASSUME NEW R, NEW O, IsFiniteSet(O), NEW f, \A g \in O : f[g] = UnpricedIn(R, g)
  PROVE  MapThenSumSet(LAMBDA g : IF RowUnpriced(R, g) THEN Counted(g, LAMBDA m : 1) ELSE 0, O)
           = Sum(f, O)
<1> DEFINE Is(h) == h = [s \in SUBSET O |-> IF s = {} THEN 0
                          ELSE LET x == CHOOSE x \in s : TRUE IN
                            (IF RowUnpriced(R, x) THEN Counted(x, LAMBDA m : 1) ELSE 0) + h[s \ {x}]]
           h == CHOOSE h : Is(h)
<1>1. ASSUME NEW g PROVE Is(g) <=> Adds(g, f, O)
  <2>1. \A s \in SUBSET O : s # {} => f[First(s)] = UnpricedIn(R, First(s))
    BY DEF First
  <2>2. g = [s \in SUBSET O |-> IF s = {} THEN 0 ELSE UnpricedIn(R, First(s)) + g[s \ {First(s)}]]
          <=> Adds(g, f, O)
    BY <2>1 DEF Adds
  <2> QED
    BY <2>2, Zenon DEF First, UnpricedIn
<1>2. Is(h)
  <2> HIDE DEF Is
  <2> QED
    BY <1>1, AddsExists
<1>3. MapThenSumSet(LAMBDA g : IF RowUnpriced(R, g) THEN Counted(g, LAMBDA m : 1) ELSE 0, O) = h[O]
  BY Zenon DEF MapThenSumSet, MapThenFoldSet
<1> HIDE DEF h, Is
<1> QED
  BY <1>1, <1>2, <1>3, SumIs, Zenon

LEMMA UsageCounted ==
  ASSUME NEW g, NEW c, NEW f, \A m \in Messages : f[m] = rollups[g][m] * Reported[m].usage[c]
  PROVE  Counted(g, LAMBDA m : Reported[m].usage[c]) = Sum(f, Messages)
<1> DEFINE Is(h) == h = [s \in SUBSET Messages |-> IF s = {} THEN 0
                          ELSE LET x == CHOOSE x \in s : TRUE IN
                            rollups[g][x] * Reported[x].usage[c] + h[s \ {x}]]
           h == CHOOSE h : Is(h)
<1>1. ASSUME NEW i PROVE Is(i) <=> Adds(i, f, Messages)
  <2>1. \A s \in SUBSET Messages : s # {} =>
          f[First(s)] = rollups[g][First(s)] * Reported[First(s)].usage[c]
    BY DEF First
  <2> QED
    BY <2>1 DEF Adds, First
<1>2. Is(h)
  <2> HIDE DEF Is
  <2> QED
    BY <1>1, AddsExists, PricesAssumption
<1>3. Counted(g, LAMBDA m : Reported[m].usage[c]) = h[Messages]
  BY DEF Counted, MapThenSumSet, MapThenFoldSet
<1> HIDE DEF h, Is
<1> QED
  BY <1>1, <1>2, <1>3, SumIs, PricesAssumption

LEMMA TurnsCounted ==
  ASSUME NEW g, NEW f, \A m \in Messages : f[m] = rollups[g][m] * 1
  PROVE  Counted(g, LAMBDA m : 1) = Sum(f, Messages)
<1> DEFINE Is(h) == h = [s \in SUBSET Messages |-> IF s = {} THEN 0
                          ELSE LET x == CHOOSE x \in s : TRUE IN rollups[g][x] * 1 + h[s \ {x}]]
           h == CHOOSE h : Is(h)
<1>1. ASSUME NEW i PROVE Is(i) <=> Adds(i, f, Messages)
  <2>1. \A s \in SUBSET Messages : s # {} => f[First(s)] = rollups[g][First(s)] * 1
    BY DEF First
  <2> QED
    BY <2>1 DEF Adds, First
<1>2. Is(h)
  <2> HIDE DEF Is
  <2> QED
    BY <1>1, AddsExists, PricesAssumption
<1>3. Counted(g, LAMBDA m : 1) = h[Messages]
  BY DEF Counted, MapThenSumSet, MapThenFoldSet
<1> HIDE DEF h, Is
<1> QED
  BY <1>1, <1>2, <1>3, SumIs, PricesAssumption

(* A Turn that can be priced costs what each of its counters does. *)
TurnUnit(R, m, c) == UnitCost(R, Reported[m].model, c, DayOf(m, zone), TurnFactor(m, c))

LEMMA PricedTurn ==
  ASSUME NEW R \in RateLists, NEW m \in Messages
  PROVE  TurnCost(R, m) =
           IF TurnUnpriced(R, m) THEN 0
           ELSE Reported[m].usage["input"] * TurnUnit(R, m, "input")
                + Reported[m].usage["output"] * TurnUnit(R, m, "output")
                + Reported[m].usage["cache_write"] * TurnUnit(R, m, "cache_write")
                + Reported[m].usage["web_search"] * TurnUnit(R, m, "web_search")
<1> DEFINE model == Reported[m].model  day == DayOf(m, zone)  k(c) == TurnFactor(m, c)
           f == [c \in Classes |-> Reported[m].usage[c] * TurnUnit(R, m, c)]
           Amount(c) == IF Price(R, model, c, day) = NoPrice THEN 0
                        ELSE Reported[m].usage[c] * Price(R, model, c, day) * k(c)
           Is(h) == h = [s \in SUBSET Classes |-> IF s = {} THEN 0
                          ELSE LET x == CHOOSE x \in s : TRUE IN Amount(x) + h[s \ {x}]]
           h == CHOOSE h : Is(h)
<1>1. ASSUME NEW c \in Classes PROVE Amount(c) = f[c] /\ f[c] \in Int
  <2>1. Reported[m].usage[c] \in Int /\ k(c) \in Int
    BY PricesAssumption DEF TurnFactor
  <2> DEFINE n == Reported[m].usage[c]  kc == k(c)
  <2>2. TurnUnit(R, m, c) \in Int /\ Amount(c) = n * TurnUnit(R, m, c)
    <3>1. TurnUnit(R, m, c) = UnitCost(R, model, c, day, kc)
      BY DEF TurnUnit
    <3>2. Amount(c) = IF Price(R, model, c, day) = NoPrice THEN 0 ELSE n * Price(R, model, c, day) * kc
      OBVIOUS
    <3>3. n \in Int /\ kc \in Int
      BY <2>1
    <3> HIDE DEF Amount, model, day, k, kc, n
    <3>4. /\ UnitCost(R, model, c, day, kc) \in Int
          /\ (IF Price(R, model, c, day) = NoPrice THEN 0 ELSE n * Price(R, model, c, day) * kc)
               = n * UnitCost(R, model, c, day, kc)
      BY <3>3, UnitCostIs
    <3> QED
      BY <3>1, <3>2, <3>4
  <2> QED
    BY <2>1, <2>2
<1>2. ASSUME NEW i PROVE Is(i) <=> Adds(i, f, Classes)
  <2> HIDE DEF Amount, f
  <2>1. \A s \in SUBSET Classes : s # {} => f[First(s)] = Amount(First(s))
    <3>1. \A s \in SUBSET Classes : s # {} => First(s) \in Classes
      BY DEF First
    <3> QED
      BY <1>1, <3>1
  <2> QED
    BY <2>1, ZenonT(40) DEF Adds, First
<1>3. Is(h)
  <2> HIDE DEF Is
  <2> QED
    BY <1>2, AddsExists, ClassesFinite
<1>4. Priced(R, model, day, k, LAMBDA c : Reported[m].usage[c]) = h[Classes]
  BY DEF Priced, MapThenSumSet, MapThenFoldSet
<1>5. h[Classes] = Sum(f, Classes)
  <2> HIDE DEF Is, h, f
  <2> QED
    BY <1>2, <1>3, SumIs, ClassesFinite
<1>6. Sum(f, Classes) = f["input"] + f["output"] + f["cache_write"] + f["web_search"]
  <2> HIDE DEF f
  <2> QED
    BY <1>1, SumClasses
<1>7. {"input", "output", "cache_write", "web_search"} = Classes
  BY DEF Classes, Tools
<1> HIDE DEF h
<1> QED
  BY <1>4, <1>5, <1>6, <1>7 DEF TurnCost

(* A row that can be priced costs what each of its sums does. *)
RowUnit(R, g, c) == UnitCost(R, g.model, c, g.day, RowFactor(g, c))

LEMMA PricedRow ==
  ASSUME NEW R \in RateLists, NEW g, g.multiplier \in Int,
         NEW sums, \A c \in Classes : sums[c] \in Int /\ sums[c] = Counted(g, LAMBDA m : Reported[m].usage[c])
  PROVE  RowCost(R, g) =
           IF RowUnpriced(R, g) THEN 0
           ELSE sums["input"] * RowUnit(R, g, "input")
                + sums["output"] * RowUnit(R, g, "output")
                + sums["cache_write"] * RowUnit(R, g, "cache_write")
                + sums["web_search"] * RowUnit(R, g, "web_search")
<1> DEFINE model == g.model  day == g.day  k(c) == RowFactor(g, c)
           f == [c \in Classes |-> sums[c] * RowUnit(R, g, c)]
           Amount(c) == IF Price(R, model, c, day) = NoPrice THEN 0
                        ELSE Counted(g, LAMBDA m : Reported[m].usage[c]) * Price(R, model, c, day) * k(c)
           Is(h) == h = [s \in SUBSET Classes |-> IF s = {} THEN 0
                          ELSE LET x == CHOOSE x \in s : TRUE IN Amount(x) + h[s \ {x}]]
           h == CHOOSE h : Is(h)
<1>1. ASSUME NEW c \in Classes PROVE Amount(c) = f[c] /\ f[c] \in Int
  <2> DEFINE n == sums[c]  kc == k(c)
  <2>1. n \in Int /\ kc \in Int
    BY 1 \in Int DEF RowFactor
  <2>2. /\ RowUnit(R, g, c) \in Int
        /\ (IF Price(R, model, c, day) = NoPrice THEN 0 ELSE n * Price(R, model, c, day) * kc)
             = n * RowUnit(R, g, c)
    <3>1. RowUnit(R, g, c) = UnitCost(R, model, c, day, kc)
      BY DEF RowUnit
    <3> HIDE DEF n, kc, k, model, day
    <3> QED
      BY <2>1, <3>1, UnitCostIs
  <2>3. sums[c] = Counted(g, LAMBDA m : Reported[m].usage[c])
    OBVIOUS
  <2> QED
    BY <2>1, <2>2, <2>3
<1>2. ASSUME NEW i PROVE Is(i) <=> Adds(i, f, Classes)
  <2> HIDE DEF Amount, f
  <2>1. \A s \in SUBSET Classes : s # {} => f[First(s)] = Amount(First(s))
    <3>1. \A s \in SUBSET Classes : s # {} => First(s) \in Classes
      BY DEF First
    <3> QED
      BY <1>1, <3>1
  <2> QED
    BY <2>1, ZenonT(40) DEF Adds, First
<1>3. Is(h)
  <2> HIDE DEF Is
  <2> QED
    BY <1>2, AddsExists, ClassesFinite
<1>4. Priced(R, model, day, k, LAMBDA c : Counted(g, LAMBDA m : Reported[m].usage[c])) = h[Classes]
  BY DEF Priced, MapThenSumSet, MapThenFoldSet
<1>5. h[Classes] = Sum(f, Classes)
  <2> HIDE DEF Is, h, f
  <2> QED
    BY <1>2, <1>3, SumIs, ClassesFinite
<1>6. Sum(f, Classes) = f["input"] + f["output"] + f["cache_write"] + f["web_search"]
  <2> HIDE DEF f
  <2> QED
    BY <1>1, SumClasses
<1>7. {"input", "output", "cache_write", "web_search"} = Classes
  BY DEF Classes, Tools
<1> HIDE DEF h
<1> QED
  BY <1>4, <1>5, <1>6, <1>7 DEF RowCost

(* The Turns a row counts. *)
TurnsOf(g) == {m \in Messages : turns[m] # Absent /\ Group(m, turns[m], zone) = g}
Costs(R) == [m \in Messages |-> TurnCost(R, m)]
Flags(R) == [m \in Messages |-> IF TurnUnpriced(R, m) THEN 1 ELSE 0]

LEMMA CostsInt ==
  ASSUME NEW R \in RateLists, NEW m \in Messages
  PROVE  Costs(R)[m] \in Int /\ Flags(R)[m] \in Int
<1>1. ASSUME NEW c \in Classes
      PROVE  Reported[m].usage[c] \in Int /\ TurnUnit(R, m, c) \in Int
             /\ Reported[m].usage[c] * TurnUnit(R, m, c) \in Int
  <2>1. Reported[m].usage[c] \in Int /\ TurnFactor(m, c) \in Int
    BY PricesAssumption DEF TurnFactor
  <2>2. TurnUnit(R, m, c) \in Int
    BY <2>1, UnitCostIs DEF TurnUnit
  <2> QED
    BY <2>1, <2>2
<1>2. {"input", "output", "cache_write", "web_search"} = Classes
  BY DEF Classes, Tools
<1>3. TurnCost(R, m) \in Int
  BY <1>1, <1>2, PricedTurn
<1> QED
  BY <1>3 DEF Costs, Flags

(* A row and its Turns have one model, day, multiplier and shape, so one price. *)
LEMMA RowLikeTurns ==
  ASSUME NEW R, NEW g \in Groups, NEW m \in TurnsOf(g)
  PROVE  /\ \A c : TurnUnit(R, m, c) = RowUnit(R, g, c)
         /\ TurnUnpriced(R, m) <=> RowUnpriced(R, g)
<1>1. /\ g.model = Reported[m].model /\ g.day = DayOf(m, zone)
      /\ g.multiplier = Reported[m].multiplier /\ g.shape = Shape(m)
  BY DEF TurnsOf, Group
<1>2. \A c : TurnUnit(R, m, c) = RowUnit(R, g, c)
  BY <1>1 DEF TurnUnit, RowUnit, TurnFactor, RowFactor
<1>3. /\ "shortfall" \in Shape(m) <=> Reported[m].total > Reported[m].usage["cache_write"]
      /\ \A c \in Classes : c \in Shape(m) <=> Reported[m].usage[c] > 0
      /\ \A c \in Shape(m) : c \in Classes \/ c = "shortfall"
  BY DEF Shape, Classes, Tools
<1>4. TurnUnpriced(R, m) <=> RowUnpriced(R, g)
  BY <1>1, <1>3 DEF TurnUnpriced, RowUnpriced
<1> QED
  BY <1>2, <1>4

LEMMA RowSums ==
  ASSUME TypeOK, Exact, NEW g \in Groups
  PROVE  /\ TurnsOf(g) \subseteq Messages /\ IsFiniteSet(TurnsOf(g)) /\ IsFiniteSet(Messages)
         /\ g.multiplier \in Int
         /\ \A m \in Messages : rollups[g][m] = IF m \in TurnsOf(g) THEN 1 ELSE 0
<1>1. \A m \in Messages : rollups[g][m] = IF m \in TurnsOf(g) THEN 1 ELSE 0
  BY DEF Exact, Grouped, TurnsOf
<1>2. TurnsOf(g) \subseteq Messages
  BY DEF TurnsOf
<1>3. g.multiplier \in Int
  BY PricesAssumption DEF Groups, Group
<1> QED
  BY <1>1, <1>2, <1>3, FS_Subset, PricesAssumption

LEMMA RowCostIs ==
  ASSUME TypeOK, Exact, NEW R \in RateLists, NEW g \in Groups
  PROVE  RowCost(R, g) = Sum(Costs(R), TurnsOf(g))
<1> DEFINE S == TurnsOf(g)
           used(c) == [m \in Messages |-> Reported[m].usage[c]]
           sums == [c \in Classes |-> Sum(used(c), S)]
<1>1. /\ S \subseteq Messages /\ IsFiniteSet(S) /\ IsFiniteSet(Messages) /\ g.multiplier \in Int
      /\ \A m \in Messages : rollups[g][m] = IF m \in S THEN 1 ELSE 0
  BY RowSums
<1>2. ASSUME NEW c \in Classes
      PROVE  sums[c] \in Int /\ sums[c] = Counted(g, LAMBDA m : Reported[m].usage[c])
  <2> DEFINE f == [m \in Messages |-> rollups[g][m] * Reported[m].usage[c]]
  <2>1. \A m \in Messages : Reported[m].usage[c] \in Int
    BY PricesAssumption
  <2>2. \A m \in Messages : f[m] \in Int /\ f[m] = IF m \in S THEN used(c)[m] ELSE 0
    BY <1>1, <2>1
  <2>3. Counted(g, LAMBDA m : Reported[m].usage[c]) = Sum(f, Messages)
    BY UsageCounted
  <2>4. \A m \in S : used(c)[m] \in Int /\ f[m] = used(c)[m]
    BY <1>1, <2>1, <2>2
  <2>5. \A m \in Messages \ S : f[m] = 0
    BY <2>2
  <2> HIDE DEF f, S, used
  <2>6. Sum(f, Messages) = Sum(f, S)
    BY <1>1, <2>2, <2>5, SumNonzero
  <2>7. Sum(f, S) = Sum(used(c), S) /\ Sum(used(c), S) \in Int
    BY <1>1, <2>4, SumSame, SumInt
  <2> QED
    BY <2>3, <2>6, <2>7
<1>3. {"input", "output", "cache_write", "web_search"} = Classes
  BY DEF Classes, Tools
<1>4. RowCost(R, g) =
           IF RowUnpriced(R, g) THEN 0
           ELSE sums["input"] * RowUnit(R, g, "input")
                + sums["output"] * RowUnit(R, g, "output")
                + sums["cache_write"] * RowUnit(R, g, "cache_write")
                + sums["web_search"] * RowUnit(R, g, "web_search")
  <2> HIDE DEF sums
  <2> QED
    BY <1>1, <1>2, PricedRow
<1>5. CASE RowUnpriced(R, g)
  <2>1. \A m \in S : Costs(R)[m] \in Int /\ Costs(R)[m] = 0
    BY <1>1, <1>5, PricedTurn, RowLikeTurns DEF Costs
  <2>2. Sum(Costs(R), S) = Sum(Costs(R), {})
    <3> HIDE DEF S
    <3> QED
      BY <1>1, <2>1, SumNonzero
  <2>3. Sum(Costs(R), {}) = 0
    BY SumFirst, FS_EmptySet
  <2> QED
    BY <1>4, <1>5, <2>2, <2>3
<1>6. CASE ~RowUnpriced(R, g)
  <2> DEFINE w == [c \in Classes |-> used(c)]
             u == [c \in Classes |-> RowUnit(R, g, c)]
             f == Costs(R)
  <2>1. \A y \in Classes : u[y] \in Int
    BY <1>1, UnitCostIs, 0 \in Int, 1 \in Int DEF RowUnit, RowFactor
  <2>2. \A y \in Classes : \A m \in S : w[y][m] \in Int
    BY <1>1, PricesAssumption
  <2>3. ASSUME NEW m \in S
        PROVE  f[m] = w["input"][m] * u["input"] + w["output"][m] * u["output"]
                      + w["cache_write"][m] * u["cache_write"]
                      + w["web_search"][m] * u["web_search"]
    <3>1. /\ \A c \in Classes : TurnUnit(R, m, c) = RowUnit(R, g, c)
          /\ ~TurnUnpriced(R, m) /\ m \in Messages
      BY <1>1, <1>6, RowLikeTurns
    <3>2. Costs(R)[m] = Reported[m].usage["input"] * TurnUnit(R, m, "input")
                + Reported[m].usage["output"] * TurnUnit(R, m, "output")
                + Reported[m].usage["cache_write"] * TurnUnit(R, m, "cache_write")
                + Reported[m].usage["web_search"] * TurnUnit(R, m, "web_search")
      BY <3>1, PricedTurn DEF Costs
    <3>3. \A c \in Classes : w[c][m] = Reported[m].usage[c] /\ u[c] = TurnUnit(R, m, c)
      BY <3>1
    <3> HIDE DEF w, u, S, f
    <3> QED
      BY <1>3, <3>2, <3>3 DEF f
  <2>4. \A c \in Classes : sums[c] = Sum(w[c], S) /\ u[c] = RowUnit(R, g, c)
    BY <1>2
  <2> HIDE DEF w, u, f, S, used, sums
  <2>5. Sum(f, S) = Sum(w["input"], S) * u["input"] + Sum(w["output"], S) * u["output"]
                    + Sum(w["cache_write"], S) * u["cache_write"]
                    + Sum(w["web_search"], S) * u["web_search"]
    BY <1>1, <2>1, <2>2, <2>3, SumPriced
  <2> QED
    BY <1>3, <1>4, <1>6, <2>4, <2>5 DEF f, S
<1> QED
  BY <1>5, <1>6

LEMMA RowUnpricedIs ==
  ASSUME TypeOK, Exact, NEW R \in RateLists, NEW g \in Groups
  PROVE  UnpricedIn(R, g) = Sum(Flags(R), TurnsOf(g))
<1> DEFINE S == TurnsOf(g)
           f == [m \in Messages |-> rollups[g][m] * 1]
<1>1. /\ S \subseteq Messages /\ IsFiniteSet(S) /\ IsFiniteSet(Messages)
      /\ \A m \in Messages : rollups[g][m] = IF m \in S THEN 1 ELSE 0
  BY RowSums
<1>2. \A m \in Messages : f[m] = IF m \in S THEN 1 ELSE 0
  BY <1>1
<1>3. Counted(g, LAMBDA m : 1) = Sum(f, Messages)
  BY TurnsCounted
<1>4. \A m \in S : Flags(R)[m] = IF RowUnpriced(R, g) THEN 1 ELSE 0
  BY <1>1, RowLikeTurns DEF Flags
<1> HIDE DEF f, S
<1>5. Sum(f, Messages) = Sum(f, S)
  <2>1. \A m \in Messages : f[m] \in Int /\ (m \in Messages \ S => f[m] = 0)
    BY <1>2
  <2> QED
    BY <1>1, <2>1, SumNonzero
<1>6. CASE RowUnpriced(R, g)
  <2>1. \A m \in S : Flags(R)[m] = f[m]
    BY <1>1, <1>2, <1>4, <1>6
  <2>2. Sum(Flags(R), S) = Sum(f, S)
    BY <1>1, <2>1, SumSame
  <2> QED
    BY <1>3, <1>5, <1>6, <2>2, Zenon DEF UnpricedIn, S
<1>7. CASE ~RowUnpriced(R, g)
  <2>1. \A m \in S : Flags(R)[m] \in Int /\ Flags(R)[m] = 0
    BY <1>4, <1>7
  <2>2. Sum(Flags(R), S) = Sum(Flags(R), {})
    BY <1>1, <2>1, SumNonzero
  <2>3. Sum(Flags(R), {}) = 0
    BY SumFirst, FS_EmptySet
  <2> QED
    BY <1>7, <2>2, <2>3 DEF UnpricedIn, S
<1> QED
  BY <1>6, <1>7

(* Whatever prices there are or will be, the rollups cost what their Turns   *)
(* do, day by day, and say how many have no price.                          *)
THEOREM RollupsPricedAlike == Spec => []PricedAlike
<1>1. TypeOK /\ Exact => PricedAlike
  <2> SUFFICES ASSUME TypeOK, Exact, NEW R \in RateLists, NEW day \in {g.day : g \in Groups}
               PROVE  LET today == {m \in Messages : turns[m] # Absent /\ DayOf(m, zone) = day}
                          ofDay == {g \in Groups : g.day = day /\ rollups[g] # NoRow}
                      IN
                      /\ MapThenSumSet(LAMBDA g : RowCost(R, g), ofDay)
                           = MapThenSumSet(LAMBDA m : TurnCost(R, m), today)
                      /\ MapThenSumSet(LAMBDA g : IF RowUnpriced(R, g) THEN Counted(g, LAMBDA m : 1)
                                                  ELSE 0, ofDay)
                           = Cardinality({m \in today : TurnUnpriced(R, m)})
    BY Zenon DEF PricedAlike
  <2> DEFINE today == {m \in Messages : turns[m] # Absent /\ DayOf(m, zone) = day}
             ofDay == {g \in Groups : g.day = day /\ rollups[g] # NoRow}
             row == [m \in Messages |-> Group(m, turns[m], zone)]
             unpriced == {m \in today : TurnUnpriced(R, m)}
  <2>1. today \subseteq Messages /\ IsFiniteSet(today)
    BY PricesAssumption, FS_Subset
  <2>2. ASSUME NEW m \in today PROVE row[m] \in ofDay
    <3>1. turns[m] \in Devices \cup {NoDevice} /\ zone \in Zones
      BY DEF TypeOK, Stored
    <3>2. Group(m, turns[m], zone) \in Groups /\ Group(m, turns[m], zone).day = day
      BY <3>1, GroupIsOne DEF Group
    <3>3. m \in TurnsOf(row[m])
      BY DEF TurnsOf
    <3>4. rollups[row[m]][m] = 1
      BY <3>2, <3>3, RowSums
    <3> QED
      BY <3>2, <3>4 DEF NoRow
  <2>3. ASSUME NEW g \in ofDay PROVE {m \in today : row[m] = g} = TurnsOf(g)
    BY DEF TurnsOf, Group
  <2>4. IsFiniteSet(ofDay)
    <3>1. ASSUME NEW g \in ofDay PROVE \E m \in Messages : row[m] = g
      <4>1. \E m \in Messages : rollups[g][m] # 0
        BY DEF NoRow, TypeOK, Bags
      <4>2. PICK m \in Messages : m \in TurnsOf(g)
        BY <4>1, RowSums
      <4> QED
        BY <4>2 DEF TurnsOf
    <3> DEFINE image == {row[m] : m \in Messages}
    <3>2. row \in Surjection(Messages, image)
      BY DEF Surjection
    <3>3. IsFiniteSet(image)
      BY <3>2, PricesAssumption, FS_Surjection
    <3>4. ofDay \subseteq image
      BY <3>1
    <3> QED
      BY <3>3, <3>4, FS_Subset
  <2>5. ASSUME NEW f, \A m \in today : f[m] \in Int
        PROVE  Sum([g \in ofDay |-> Sum(f, TurnsOf(g))], ofDay) = Sum(f, today)
    <3> DEFINE whole == [g \in ofDay |-> Sum(f, {m \in today : row[m] = g})]
               parts == [g \in ofDay |-> Sum(f, TurnsOf(g))]
    <3>1. \A g \in ofDay : whole[g] = parts[g]
      BY <2>3
    <3>2. Sum(whole, ofDay) = Sum(f, today)
      <4> HIDE DEF today, ofDay, row
      <4> QED
        BY <2>1, <2>2, <2>4, <2>5, SumParts
    <3> HIDE DEF whole, parts, ofDay
    <3>3. Sum(whole, ofDay) = Sum(parts, ofDay)
      BY <2>4, <3>1, SumSame
    <3> QED
      BY <3>2, <3>3 DEF parts
  <2>6. \A m \in today : Costs(R)[m] \in Int /\ Flags(R)[m] \in Int
    BY <2>1, CostsInt
  <2>7. MapThenSumSet(LAMBDA g : RowCost(R, g), ofDay) = MapThenSumSet(LAMBDA m : TurnCost(R, m), today)
    <3> DEFINE parts == [g \in ofDay |-> Sum(Costs(R), TurnsOf(g))]
    <3>1. \A g \in ofDay : parts[g] = RowCost(R, g)
      BY RowCostIs
    <3>2. MapThenSumSet(LAMBDA g : RowCost(R, g), ofDay) = Sum(parts, ofDay)
      <4> HIDE DEF parts, ofDay
      <4> QED
        BY <2>4, <3>1, RowCosts
    <3>3. \A m \in today : Costs(R)[m] = TurnCost(R, m)
      BY <2>1 DEF Costs
    <3>4. MapThenSumSet(LAMBDA m : TurnCost(R, m), today) = Sum(Costs(R), today)
      <4> HIDE DEF today
      <4> QED
        BY <2>1, <3>3, TurnCosts
    <3>5. Sum(parts, ofDay) = Sum(Costs(R), today)
      <4> HIDE DEF ofDay, today
      <4> QED
        BY <2>5, <2>6
    <3> HIDE DEF parts, ofDay, today
    <3> QED
      BY <3>2, <3>4, <3>5, Zenon
  <2>8. MapThenSumSet(LAMBDA g : IF RowUnpriced(R, g) THEN Counted(g, LAMBDA m : 1) ELSE 0, ofDay)
          = Cardinality(unpriced)
    <3> DEFINE parts == [g \in ofDay |-> Sum(Flags(R), TurnsOf(g))]
    <3>1. \A g \in ofDay : parts[g] = UnpricedIn(R, g)
      BY RowUnpricedIs
    <3>2. MapThenSumSet(LAMBDA g : IF RowUnpriced(R, g) THEN Counted(g, LAMBDA m : 1) ELSE 0, ofDay)
            = Sum(parts, ofDay)
      <4> HIDE DEF parts, ofDay
      <4> QED
        BY <2>4, <3>1, UnpricedCounts, Zenon
    <3>3. unpriced \subseteq today /\ \A m \in today : Flags(R)[m] = IF m \in unpriced THEN 1 ELSE 0
      BY <2>1 DEF Flags
    <3>4. Sum(Flags(R), today) = Cardinality(unpriced)
      <4> HIDE DEF today, unpriced
      <4> QED
        BY <2>1, <3>3, SumCount
    <3>5. Sum(parts, ofDay) = Sum(Flags(R), today)
      <4> HIDE DEF ofDay, today
      <4> QED
        BY <2>5, <2>6
    <3> HIDE DEF parts, ofDay, today, unpriced
    <3> QED
      BY <3>2, <3>4, <3>5, Zenon
  <2> QED
    BY <2>7, <2>8, Zenon
<1>2. Spec => [](TypeOK /\ Exact)
  BY TypesHold, RollupsExact, PTL
<1> QED
  BY <1>1, <1>2, PTL

=============================================================================
