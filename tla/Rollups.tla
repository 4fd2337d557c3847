------------------------------ MODULE Rollups ------------------------------
(***************************************************************************)
(* `turn_rollups`, the sums the dashboard reads instead of Turns, kept     *)
(* current by statement triggers on `turns` and by the timezone trigger on *)
(* `orgs` (20261004120000_turn_rollups.sql), and the two views that price  *)
(* a Turn and a rollup row.                                                *)
(*                                                                         *)
(* One Org.  A transaction sees what is committed and what it wrote; what  *)
(* it writes is visible to others at its commit (read committed), and a    *)
(* row somebody has written waits for that transaction.  A rollup row's    *)
(* value is how many times it has counted each Turn: every sum, first and  *)
(* last instant of the row follows from that.                              *)
(***************************************************************************)
EXTENDS Integers, Sequences, FiniteSets, FiniteSetsExt

CONSTANTS
  Messages,     \* the identities of Turns: Session, Agent Run and message id
  Reported,     \* what each says: [session, at, id, model, multiplier, usage]
  Devices,      \* Devices that report
  NoDevice,     \* device_id null: the Device was deleted under its Turns
  Absent,       \* no such row in `turns`
  Unwritten,    \* a row this transaction has not written
  Zones,        \* timezones, as offsets from UTC
  DayLength,    \* instants in a day
  Txs,          \* database connections
  RateLists,    \* Rates and overrides together, as they may stand at some time
  NoModel,      \* a Rate for whatever model
  MaxWrites     \* bound on transactions begun

Stored == Devices \cup {NoDevice, Absent}
Bags == [Messages -> Nat]

ASSUME RollupsAssumption ==
  /\ Absent \notin Devices \cup {NoDevice} \cup Messages
  /\ Unwritten \notin Stored \cup Zones
  /\ Unwritten \notin Bags
  /\ \A m \in Messages : Reported[m].at \in Int /\ Reported[m].id \in Int
  /\ MaxWrites \in Nat

VARIABLES
  turns,        \* `turns`, committed: each message's Device, or Absent
  zone,         \* orgs.timezone, committed
  rollups,      \* `turn_rollups`, committed: [group -> [message -> times counted]]
  pc,           \* what each transaction does next
  kind,         \* an ingest, a change of Turns, a demo refresh, or a timezone
  device,       \* the Device its Turns are of, or that it deletes
  left,         \* sets of messages it has yet to insert, one statement each
  touched,      \* Sessions whose groups it recomputes
  fresh,        \* Turns read or inserted, not yet added to their groups
  last,         \* the rebuild's keyset: the last Turn it has read
  lock,         \* its hold on the Org's advisory lock
  mine,         \* the `turns` rows it has written
  rows,         \* the `turn_rollups` rows it has written
  moved,        \* the timezone it has written
  writes        \* transactions begun

db == <<turns, zone, rollups>>
own == <<pc, kind, device, left, touched, fresh, last, lock, mine, rows, moved>>
vars == <<db, own, writes>>

NothingWritten == [m \in Messages |-> Unwritten]

----------------------------------------------------------------------------
(* Groups. *)

Tools == {"web_search"}   \* priced by the request, whatever the model's multiplier
Classes == {"input", "output", "cache_write"} \cup Tools

DayOf(m, z) == (Reported[m].at + z) \div DayLength

(* A shape that leaves the shortfall out. *)
ShapeOfCounters(m) == {c \in Classes : Reported[m].usage[c] > 0}

(* One bit per counter that is non-zero, and one for a cache-write total    *)
(* the split does not account for.                                         *)
Shape(m) ==
  {c \in Classes : Reported[m].usage[c] > 0}
    \cup (IF Reported[m].total > Reported[m].usage["cache_write"] THEN {"shortfall"} ELSE {})

Group(m, d, z) ==
  [session    |-> Reported[m].session,
   device     |-> d,
   model      |-> Reported[m].model,
   day        |-> DayOf(m, z),
   multiplier |-> Reported[m].multiplier,
   shape      |-> Shape(m)]

Groups == {Group(m, d, z) : m \in Messages, d \in Devices \cup {NoDevice}, z \in Zones}
NoRow == [m \in Messages |-> 0]

(* What `turn_rollups` should say of the Turns T in timezone z.            *)
Grouped(T, z) ==
  [g \in Groups |-> [m \in Messages |->
    IF T[m] # Absent /\ Group(m, T[m], z) = g THEN 1 ELSE 0]]

----------------------------------------------------------------------------
(* What a transaction sees, and what it waits for. *)

(* The timezone as this transaction wrote it, or nothing. *)
ZoneWritten(t) == moved[t]

Seen(t) == [m \in Messages |-> IF mine[t][m] = Unwritten THEN turns[m] ELSE mine[t][m]]
SeenZone(t) == IF moved[t] = Unwritten THEN zone ELSE moved[t]
SeenRow(t, g) == IF rows[t][g] = Unwritten THEN rollups[g] ELSE rows[t][g]

Others(t) == Txs \ {t}
TurnsFree(t, S) == \A u \in Others(t), m \in S : mine[u][m] = Unwritten
RowsFree(t, G) == \A u \in Others(t), g \in G : rows[u][g] = Unwritten
(* A report's upsert and a deletion have the Device's row to the end.  A Turn  *)
(* inserted refers to its Device, which no deletion may then have.            *)
DeviceFree(t, d) == \A u \in Others(t) : device[u] = d => kind[u] = "refresh"
NotDeleted(t) == \A u \in Others(t) : device[u] = device[t] => kind[u] # "change"
Unreferred(t, d) == \A u \in Others(t), m \in Messages : mine[u][m] # d

Begin(t, what, step) ==
  /\ pc[t] = "idle"
  /\ writes < MaxWrites
  /\ writes' = writes + 1
  /\ kind' = [kind EXCEPT ![t] = what]
  /\ pc' = [pc EXCEPT ![t] = step]

(* After a statement's trigger: the next statement, or the commit.          *)
NextStep(t) == IF left[t] = <<>> THEN "done" ELSE "insert"

----------------------------------------------------------------------------
(* Adding Turns: ingest's statements, and their trigger. *)

(* A report: the Device's upsert holds its row to the end; then the Turns, *)
(* a statement for each TURNS_PER_STATEMENT of them.                       *)
Ingest(t, d, chunks) ==
  /\ Begin(t, "ingest", "insert")
  /\ DeviceFree(t, d)
  /\ device' = [device EXCEPT ![t] = d]
  /\ left' = [left EXCEPT ![t] = chunks]
  /\ UNCHANGED <<db, touched, fresh, last, lock, mine, rows, moved>>

(* insert ... on conflict do nothing: a row another transaction has written *)
(* is waited for.  With nothing inserted the trigger has nothing to do.     *)
InsertTurns(t) ==
  /\ pc[t] = "insert"
  /\ TurnsFree(t, Head(left[t])) /\ NotDeleted(t)
  /\ LET added == {m \in Head(left[t]) : Seen(t)[m] = Absent} IN
     /\ mine' = [mine EXCEPT ![t] =
          [m \in Messages |-> IF m \in added THEN device[t] ELSE @[m]]]
     /\ fresh' = [fresh EXCEPT ![t] = added]
     /\ left' = [left EXCEPT ![t] = Tail(@)]
     /\ pc' = [pc EXCEPT ![t] = IF added # {} THEN "lock"
                                ELSE IF Tail(left[t]) = <<>> THEN "done" ELSE "insert"]
  /\ UNCHANGED <<db, kind, device, touched, last, lock, rows, moved, writes>>

(* A lock given back when its statement ends. *)
AddLockReleased(t) ==
  /\ pc[t] = "lock"
  /\ \A u \in Others(t) : lock[u] # "exclusive"
  /\ pc' = [pc EXCEPT ![t] = "add"]
  /\ UNCHANGED <<db, kind, device, left, touched, fresh, last, lock, mine, rows, moved, writes>>

(* The shared lock, held to the end of the transaction; a transaction that  *)
(* holds the exclusive one has it already.                                 *)
AddLock(t) ==
  /\ pc[t] = "lock"
  /\ \A u \in Others(t) : lock[u] # "exclusive"
  /\ lock' = [lock EXCEPT ![t] = IF @ = "exclusive" THEN @ ELSE "shared"]
  /\ pc' = [pc EXCEPT ![t] = "add"]
  /\ UNCHANGED <<db, kind, device, left, touched, fresh, last, mine, rows, moved, writes>>

(* The statement that adds: its snapshot, taken after the lock, has the     *)
(* timezone; the rows it inserts or adds to are the groups of those Turns.  *)
Add(t) ==
  LET added == {Group(m, Seen(t)[m], SeenZone(t)) : m \in fresh[t]}
      more(g) == [m \in Messages |-> SeenRow(t, g)[m]
                    + (IF m \in fresh[t] /\ Group(m, Seen(t)[m], SeenZone(t)) = g THEN 1 ELSE 0)]
  IN
  /\ pc[t] = "add"
  /\ RowsFree(t, added)
  /\ rows' = [rows EXCEPT ![t] = [g \in Groups |-> IF g \in added THEN more(g) ELSE @[g]]]
  /\ fresh' = [fresh EXCEPT ![t] = {}]
  /\ pc' = [pc EXCEPT ![t] = IF kind[t] = "zone" THEN "read" ELSE NextStep(t)]
  /\ UNCHANGED <<db, kind, device, left, touched, last, lock, mine, moved, writes>>

----------------------------------------------------------------------------
(* Changing and deleting Turns, and the timezone: the two rebuilds. *)

(* An update or delete of the Turns S: rows another transaction has written *)
(* are waited for; the trigger recomputes the Sessions of those there were. *)
Change(t, S, to) ==
  LET hit == {m \in S : turns[m] # Absent} IN
  /\ TurnsFree(t, hit)
  /\ mine' = [mine EXCEPT ![t] =
       [m \in Messages |-> IF m \in hit THEN to ELSE Unwritten]]
  /\ touched' = [touched EXCEPT ![t] = {Reported[m].session : m \in hit}]

(* A Device deleted: its Turns keep no Device.                             *)
Detach(t, d) ==
  LET S == {m \in Messages : turns[m] = d} IN
  /\ Begin(t, "change", IF S = {} THEN "done" ELSE "exclusive")
  /\ DeviceFree(t, d) /\ Unreferred(t, d)
  /\ device' = [device EXCEPT ![t] = d]
  /\ Change(t, S, NoDevice)
  /\ UNCHANGED <<db, left, fresh, last, lock, rows, moved>>

(* The demo refresh: Turns before a cutoff deleted, then new ones inserted, *)
(* in one transaction; a refresh already under way is left alone.           *)
Prune(t, d, cutoff, seeds) ==
  LET S == {m \in Messages : Reported[m].at < cutoff} IN
  /\ Begin(t, "refresh", IF \E m \in S : turns[m] # Absent THEN "exclusive" ELSE "insert")
  /\ \A u \in Others(t) : kind[u] # "refresh"
  /\ device' = [device EXCEPT ![t] = d]
  /\ left' = [left EXCEPT ![t] = <<seeds>>]
  /\ Change(t, S, Absent)
  /\ UNCHANGED <<db, fresh, last, lock, rows, moved>>

(* setOrgTimezone, on the Org's row; the trigger runs when it differs.       *)
SetZone(t, z) ==
  /\ Begin(t, "zone", "exclusive")
  /\ z # zone
  /\ \A u \in Others(t) : moved[u] = Unwritten
  /\ moved' = [moved EXCEPT ![t] = z]
  /\ UNCHANGED <<db, device, left, touched, fresh, last, lock, mine, rows>>

ExclusiveLock(t) ==
  /\ pc[t] = "exclusive"
  /\ \A u \in Others(t) : lock[u] = "none"
  /\ lock' = [lock EXCEPT ![t] = "exclusive"]
  /\ pc' = [pc EXCEPT ![t] = "clear"]
  /\ UNCHANGED <<db, kind, device, left, touched, fresh, last, mine, rows, moved, writes>>

(* The groups a rebuild takes over: the touched Sessions', or the Org's.     *)
Rebuilt(t, s) == kind[t] = "zone" \/ s \in touched[t]

Clear(t) ==
  LET gone == {g \in Groups : Rebuilt(t, g.session) /\ SeenRow(t, g) # NoRow} IN
  /\ pc[t] = "clear"
  /\ RowsFree(t, gone)
  /\ rows' = [rows EXCEPT ![t] = [g \in Groups |-> IF g \in gone THEN NoRow ELSE @[g]]]
  /\ pc' = [pc EXCEPT ![t] = "read"]
  /\ UNCHANGED <<db, kind, device, left, touched, fresh, last, lock, mine, moved, writes>>

Before(m, n) ==
  \/ Reported[m].at < Reported[n].at
  \/ Reported[m].at = Reported[n].at /\ Reported[m].id < Reported[n].id

(* The Turns a rebuild has yet to read: all those of its groups, past the   *)
(* keyset.                                                                 *)
Unread(t) ==
  {m \in Messages :
     /\ Seen(t)[m] # Absent
     /\ Rebuilt(t, Reported[m].session)
     /\ last[t] # Absent => Before(last[t], m)}

(* A recompute reads its Turns at once, a rebuild of the Org a batch at a    *)
(* time, of whatever size, in the keyset's order.                          *)
Read(t) ==
  /\ pc[t] = "read"
  /\ IF Unread(t) = {}
     THEN /\ pc' = [pc EXCEPT ![t] = NextStep(t)]
          /\ UNCHANGED <<fresh, last>>
     ELSE \E m \in Unread(t) :
          /\ kind[t] # "zone" => \A n \in Unread(t) : ~ Before(m, n)
          /\ fresh' = [fresh EXCEPT ![t] = {n \in Unread(t) : ~ Before(m, n)}]
          /\ last' = [last EXCEPT ![t] = m]
          /\ pc' = [pc EXCEPT ![t] = "lock"]
  /\ UNCHANGED <<db, kind, device, left, touched, lock, mine, rows, moved, writes>>

----------------------------------------------------------------------------
(* The end of a transaction. *)

Forgotten(t) ==
  /\ pc' = [pc EXCEPT ![t] = "idle"]
  /\ kind' = [kind EXCEPT ![t] = "none"]
  /\ device' = [device EXCEPT ![t] = NoDevice]
  /\ left' = [left EXCEPT ![t] = <<>>]
  /\ touched' = [touched EXCEPT ![t] = {}]
  /\ fresh' = [fresh EXCEPT ![t] = {}]
  /\ last' = [last EXCEPT ![t] = Absent]
  /\ lock' = [lock EXCEPT ![t] = "none"]
  /\ mine' = [mine EXCEPT ![t] = NothingWritten]
  /\ rows' = [rows EXCEPT ![t] = [g \in Groups |-> Unwritten]]
  /\ moved' = [moved EXCEPT ![t] = Unwritten]
  /\ UNCHANGED writes

Commit(t) ==
  /\ pc[t] = "done"
  /\ turns' = Seen(t)
  /\ zone' = SeenZone(t)
  /\ rollups' = [g \in Groups |-> SeenRow(t, g)]
  /\ Forgotten(t)

(* A failed statement, a deadlock Postgres ended, a lost connection.        *)
RollBack(t) ==
  /\ pc[t] # "idle"
  /\ UNCHANGED db
  /\ Forgotten(t)

----------------------------------------------------------------------------
Init ==
  /\ turns = [m \in Messages |-> Absent]
  /\ zone \in Zones
  /\ rollups = [g \in Groups |-> NoRow]
  /\ pc = [t \in Txs |-> "idle"]
  /\ kind = [t \in Txs |-> "none"]
  /\ device = [t \in Txs |-> NoDevice]
  /\ left = [t \in Txs |-> <<>>]
  /\ touched = [t \in Txs |-> {}]
  /\ fresh = [t \in Txs |-> {}]
  /\ last = [t \in Txs |-> Absent]
  /\ lock = [t \in Txs |-> "none"]
  /\ mine = [t \in Txs |-> NothingWritten]
  /\ rows = [t \in Txs |-> [g \in Groups |-> Unwritten]]
  /\ moved = [t \in Txs |-> Unwritten]
  /\ writes = 0

(* The statements of a report: in one, or split over two.                   *)
Chunkings == {<<S>> : S \in (SUBSET Messages) \ {{}}}
  \cup {<<S, Messages \ S>> : S \in (SUBSET Messages) \ {{}, Messages}}

Next ==
  \E t \in Txs :
    \/ \E d \in Devices, chunks \in Chunkings : Ingest(t, d, chunks)
    \/ InsertTurns(t)
    \/ AddLock(t)
    \/ Add(t)
    \/ \E d \in Devices : Detach(t, d)
    \/ \E d \in Devices, m \in Messages, seeds \in SUBSET Messages :
         Prune(t, d, Reported[m].at, seeds)
    \/ \E z \in Zones : SetZone(t, z)
    \/ ExclusiveLock(t)
    \/ Clear(t)
    \/ Read(t)
    \/ Commit(t)
    \/ RollBack(t)

Spec == Init /\ [][Next]_vars

----------------------------------------------------------------------------
(* Prices. *)

NoPrice == -1

(* What a Turn says is whole numbers here, and neither table has two rows of *)
(* one model and class from one day.                                       *)
ASSUME PricesAssumption ==
  /\ IsFiniteSet(Messages)
  /\ \A m \in Messages : Reported[m].multiplier \in Int /\ Reported[m].usage \in [Classes -> Nat]
  /\ \A R \in RateLists :
       /\ IsFiniteSet(R)
       /\ \A r \in R : r.rank \in Int /\ r.from \in Int /\ r.usd \in Nat
       /\ \A r, s \in R :
            r.rank = s.rank /\ r.model = s.model /\ r.class = s.class /\ r.from = s.from => r = s

(* An override beats a Rate, a row naming the model one for any, and then   *)
(* the latest one in force on the day.                                     *)
Beats(r, s) ==
  \/ r.rank < s.rank
  \/ r.rank = s.rank /\ r.model # NoModel /\ s.model = NoModel
  \/ r.rank = s.rank /\ (r.model = NoModel <=> s.model = NoModel) /\ r.from > s.from

Price(R, model, c, day) ==
  LET candidates == {r \in R : r.class = c /\ r.model \in {model, NoModel} /\ r.from <= day} IN
  IF candidates = {} THEN NoPrice
  ELSE (CHOOSE r \in candidates : \A s \in candidates \ {r} : Beats(r, s)).usd

(* A class with no price adds nothing: its counter is zero, or the Turn is  *)
(* unpriced.                                                               *)
Priced(R, model, day, factor(_), amount(_)) ==
  MapThenSumSet(LAMBDA c : IF Price(R, model, c, day) = NoPrice THEN 0
                           ELSE amount(c) * Price(R, model, c, day) * factor(c),
                Classes)

(* turn_costs: a Turn, priced on its Org-local day.                         *)
TurnUnpriced(R, m) ==
  \/ Reported[m].total > Reported[m].usage["cache_write"]
  \/ \E c \in Classes :
       Reported[m].usage[c] > 0 /\ Price(R, Reported[m].model, c, DayOf(m, zone)) = NoPrice
TurnFactor(m, c) == IF c \in Tools THEN 1 ELSE Reported[m].multiplier
TurnCost(R, m) ==
  IF TurnUnpriced(R, m) THEN 0
  ELSE Priced(R, Reported[m].model, DayOf(m, zone), LAMBDA c : TurnFactor(m, c),
              LAMBDA c : Reported[m].usage[c])

(* turn_rollup_costs: a row, whose shape says which counters are non-zero.   *)
RowUnpriced(R, g) ==
  \/ "shortfall" \in g.shape
  \/ \E c \in g.shape : Price(R, g.model, c, g.day) = NoPrice
RowFactor(g, c) == IF c \in Tools THEN 1 ELSE g.multiplier
Counted(g, of(_)) == MapThenSumSet(LAMBDA m : rollups[g][m] * of(m), Messages)
RowCost(R, g) ==
  IF RowUnpriced(R, g) THEN 0
  ELSE Priced(R, g.model, g.day, LAMBDA c : RowFactor(g, c),
              LAMBDA c : Counted(g, LAMBDA m : Reported[m].usage[c]))

----------------------------------------------------------------------------
(* Properties. *)

TypeOK ==
  /\ turns \in [Messages -> Stored]
  /\ zone \in Zones
  /\ rollups \in [Groups -> Bags]
  /\ pc \in [Txs -> {"idle", "insert", "lock", "add", "exclusive", "clear", "read", "done"}]
  /\ kind \in [Txs -> {"none", "ingest", "change", "refresh", "zone"}]
  /\ device \in [Txs -> Devices \cup {NoDevice}]
  /\ left \in [Txs -> Seq(SUBSET Messages)]
  /\ touched \in [Txs -> SUBSET {Reported[m].session : m \in Messages}]
  /\ fresh \in [Txs -> SUBSET Messages]
  /\ last \in [Txs -> Messages \cup {Absent}]
  /\ lock \in [Txs -> {"none", "shared", "exclusive"}]
  /\ mine \in [Txs -> [Messages -> Stored \cup {Unwritten}]]
  /\ rows \in [Txs -> [Groups -> Bags \cup {Unwritten}]]
  /\ moved \in [Txs -> Zones \cup {Unwritten}]
  /\ writes \in 0..MaxWrites

(* Whatever overlaps, what is committed of `turn_rollups` says exactly what  *)
(* is committed of `turns`, by the committed timezone's days: no Turn is    *)
(* counted twice, left out, or left in a group or a day it is no longer in. *)
(* So every page reads the same figures from either.                       *)
Exact == rollups = Grouped(turns, zone)

(* Every day of every price list, past and to come: the rollups' Cost is the *)
(* Turns', and so is the count of what cannot be priced.  One row never     *)
(* holds a Turn that can be priced beside one that cannot.                  *)
PricedAlike ==
  \A R \in RateLists, day \in {g.day : g \in Groups} :
    LET today == {m \in Messages : turns[m] # Absent /\ DayOf(m, zone) = day}
        ofDay == {g \in Groups : g.day = day /\ rollups[g] # NoRow}
    IN
    /\ MapThenSumSet(LAMBDA g : RowCost(R, g), ofDay)
         = MapThenSumSet(LAMBDA m : TurnCost(R, m), today)
    /\ MapThenSumSet(LAMBDA g : IF RowUnpriced(R, g) THEN Counted(g, LAMBDA m : 1) ELSE 0, ofDay)
         = Cardinality({m \in today : TurnUnpriced(R, m)})

============================================================================
