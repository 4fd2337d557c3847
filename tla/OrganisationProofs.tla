------------------------- MODULE OrganisationProofs -------------------------
(***************************************************************************)
(* Proofs about Organisation, for any number of Orgs, people and requests:    *)
(* its types, that an Org keeps an Owner, that one which is closed stays so,  *)
(* how people come in, that Seats are not overrun, and that who leaves has    *)
(* somewhere to go.                                                           *)
(***************************************************************************)
EXTENDS Organisation, FiniteSetTheorems, TLAPS

-----------------------------------------------------------------------------
(* What transactions carry *)

\* What a transaction carries, by what it is.
Shape(t) ==
  LET x == tx[t]
  IN /\ x.op = "idle" <=> x.pc = "idle"
     /\ x.op \in Changes \cup {"accept", "leave"} => x.org \in Orgs
     /\ x.op # "idle" => x.on \in Users
     /\ x.op \in {"role", "remove"} => x.pc \in {"asked", "written", "guarded"}
     /\ x.op = "readmit" => x.pc \in {"asked", "seating", "written", "guarded"}
     /\ x.op = "accept" =>
          /\ x.pc \in {"asked", "held", "clear", "seating", "upsert", "written", "guarded"}
          /\ x.role # "owner"
     /\ x.op = "leave" => x.pc \in {"asked", "held", "written", "guarded"}
     /\ x.op = "request" => x.pc \in {"asked", "held", "clear"}
     /\ x.op = "finalize" => x.pc \in {"asked", "held", "clear", "written", "guarded"}
     /\ x.op # "finalize" => x.wrote \subseteq {x.org} /\ x.closes = {}
     /\ x.pc \notin {"written", "guarded"} => x.wrote = {} /\ x.closes = {}
     /\ x.closes \subseteq x.wrote

TxInv == \A t \in Tabs : Shape(t)

TypeInv == TypeOK /\ TxInv

\* No two transactions hold one lock.
LockInv == \A s, t \in Tabs : (tx[s].holds \cap tx[t].holds) # {} => s = t

\* What a transaction has locked, and what it relies on because it has.
Holding(t) ==
  LET x == tx[t]
  IN /\ \A o \in x.wrote : Row(o, x.on) \in x.holds
     /\ At(t, "readmit", "seating") => Row(x.org, x.on) \in x.holds
     /\ x.op = "accept" /\ x.pc # "asked" =>
          /\ InviteRow(x.org, x.on) \in x.holds
          /\ invite[x.org][x.on].state = "open" /\ invite[x.org][x.on].role = x.role
     /\ x.op = "finalize" /\ x.pc # "asked" => UserRow(x.on) \in x.holds /\ x.on \in due \ gone
     /\ x.op = "finalize" /\ x.pc \in {"written", "guarded"} =>
          /\ \A o \in Orgs : InviteRow(o, x.on) \in x.holds
          /\ \A o \in x.closes, u \in Users : InviteRow(o, u) \in x.holds
     /\ At(t, "leave", "held") /\ ~x.came =>
          \A o \in Orgs : member[o][x.on].live => Row(o, x.on) \in x.holds
     /\ x.op = "leave" /\ x.pc \in {"written", "guarded"} /\ ~x.came =>
          \E o \in Orgs \ {x.org} : member[o][x.on].live /\ Row(o, x.on) \in x.holds

\* An acceptance that has passed its check.
Comes(t) == tx[t].op = "accept" /\ tx[t].pc \in {"clear", "seating", "upsert", "written", "guarded"}

\* What a transaction may rely on of the Orgs that are not excused.
Leaving(t, o) ==
  /\ OrgLock(o) \in tx[t].holds
  /\ \/ Owners(Seen(t, o)) \ due # {}
     \/ tx[t].op = "finalize" /\ Live(Seen(t, o)) = {} /\ o \notin Readmitting
Closing(t, o) == Live(member[o]) = {tx[t].on} /\ o \notin Readmitting
Relies(t) ==
  /\ Comes(t) /\ tx[t].org \notin strays => Owners(member[tx[t].org]) \ due # {}
  /\ tx[t].op = "readmit" /\ tx[t].org \notin strays => Live(member[tx[t].org]) # {}
  /\ tx[t].pc = "guarded" => \A o \in Stops(t) \ strays : Leaving(t, o)
  /\ \A o \in tx[t].closes \ strays : Closing(t, o)

\* An Org that is not excused keeps an Owner, and stays closed.
Closed(o) ==
  /\ Live(member[o]) = {} /\ o \notin Readmitting
  /\ \A u \in Users : invite[o][u].state \notin {"open", "expired"}
Kept(o) ==
  /\ Live(member[o]) # {} => Owners(member[o]) # {}
  /\ o \in closed => Closed(o)

OrgInv ==
  /\ \A t \in Tabs : Holding(t) /\ Relies(t)
  /\ \A o \in Orgs \ strays : Kept(o)

\* Whoever is let in under a ceiling holds the Org's lock and has been counted;
\* what was read of the plan is what it is, for all of an Org's transactions or
\* for none.
Counts(t) ==
  LET x == tx[t]
  IN /\ x.op = "idle" => x.org = Nobody
     /\ x.seats # NoCeiling =>
          x.op \in {"accept", "readmit"}
          /\ (x.pc = "seating" \/ x.pc = "upsert" \/ x.wrote # {})
     /\ /\ x.op \in {"accept", "readmit"} /\ ~x.moved
        /\ x.pc = "seating" \/ x.pc = "upsert" \/ x.wrote # {}
        => x.seats = ceiling[x.org]
     /\ x.seats # NoCeiling /\ ~x.moved /\ x.pc \in {"upsert", "written", "guarded"} =>
          /\ OrgLock(x.org) \in x.holds
          /\ Cardinality(Live(member[x.org]) \ {x.on}) < x.seats
Together == \A s, t \in Tabs : tx[s].org = tx[t].org /\ tx[s].org \in Orgs => tx[s].moved = tx[t].moved
SeatInv == (\A t \in Tabs : Counts(t)) /\ Together

-----------------------------------------------------------------------------
(* Types *)

Txs == [op : Ops, pc : Steps, who : Users \cup {Nobody}, org : Orgs \cup {Nobody},
        on : Users \cup {Nobody}, role : Roles, holds : SUBSET Locks, wrote : SUBSET Orgs,
        closes : SUBSET Orgs, seats : Ceilings \cup {NoCeiling}, moved : BOOLEAN,
        came : BOOLEAN]

LEMMA IdleType == Idle \in Txs
BY DEF Idle, Txs, Ops, Steps, Roles

LEMMA TxType ==
  ASSUME TypeInv, NEW t \in Tabs
  PROVE  tx[t] \in Txs
BY DEF TypeInv, TypeOK, Txs

\* Who it is about, where, and when.
LEMMA TxFacts ==
  ASSUME TypeInv, NEW t \in Tabs
  PROVE  /\ tx[t] \in Txs /\ tx[t].op \in Ops /\ tx[t].pc \in Steps
         /\ tx[t].pc # "idle" => tx[t].on \in Users
         /\ tx[t].op \in Changes \cup {"accept", "leave"} => tx[t].org \in Orgs
         /\ tx[t].pc \in {"seating", "upsert"} => tx[t].op \in {"readmit", "accept"}
<1>1. tx[t].op \in Ops /\ tx[t].pc \in Steps
  BY TxType DEF Txs
<1> QED
  BY <1>1, TxType DEF TypeInv, TxInv, Shape, Ops, Changes

LEMMA NeedsType ==
  ASSUME TypeInv, NEW t \in Tabs
  PROVE  Needs(t) \in SUBSET Locks
<1> DEFINE x == tx[t]
<1>1. OrgLocks(t) \in SUBSET Locks
  <2>1. \A o \in Orgs : OrgLock(o) \in Locks
    BY DEF OrgLock, Locks
  <2>2. CASE At(t, "request", "asked")
    <3>1. OrgLocks(t) = {OrgLock(o) : o \in {o \in Orgs : x.on \in Owners(member[o])}}
      BY <2>2 DEF OrgLocks, At
    <3> QED
      BY <2>1, <3>1
  <2>3. CASE x.pc = "seating" /\ x.seats # NoCeiling
    <3>1. OrgLocks(t) = {OrgLock(x.org)} /\ x.org \in Orgs
      BY <2>3, TxFacts DEF OrgLocks, At, Changes
    <3> QED
      BY <2>1, <3>1
  <2>4. CASE x.pc = "written"
    <3>1. OrgLocks(t) = {OrgLock(o) : o \in Stops(t)}
      BY <2>4 DEF OrgLocks, At
    <3>2. Stops(t) \subseteq Orgs
      BY DEF Stops
    <3> QED
      BY <2>1, <3>1, <3>2
  <2>5. CASE ~At(t, "request", "asked") /\ ~(x.pc = "seating" /\ x.seats # NoCeiling) /\ x.pc # "written"
    <3>1. OrgLocks(t) = {}
      BY <2>5 DEF OrgLocks
    <3> QED
      BY <3>1
  <2> QED
    BY <2>2, <2>3, <2>4, <2>5
<1>2. RowLocks(t) \in SUBSET Locks
  <2>1. \A o \in Orgs, u \in Users : Row(o, u) \in Locks
    BY DEF Row, Locks
  <2>2. \A u \in Users : RowsOf(u) \in SUBSET Locks
    BY <2>1 DEF RowsOf
  <2>3. CASE At(t, "leave", "asked") \/ At(t, "request", "held") \/ At(t, "finalize", "clear")
    <3>1. RowLocks(t) = RowsOf(x.on)
      BY <2>3 DEF RowLocks, At, Changes
    <3>2. x.on \in Users
      BY <2>3, TxFacts DEF At
    <3> QED
      BY <2>2, <3>1, <3>2
  <2>4. CASE At(t, "leave", "held")
    <3>1. RowLocks(t) = RowsOf(x.on) \cap {Row(x.org, x.on)} /\ x.on \in Users
      BY <2>4, TxFacts DEF RowLocks, At
    <3> QED
      BY <2>2, <3>1
  <2>5. CASE x.pc = "upsert" \/ (x.pc = "asked" /\ x.op \in Changes)
    <3>1. RowLocks(t) = {Row(x.org, x.on)} /\ x.on \in Users /\ x.org \in Orgs
      BY <2>5, TxFacts DEF RowLocks, At, Changes
    <3> QED
      BY <2>1, <3>1
  <2>6. CASE /\ ~(At(t, "leave", "asked") \/ At(t, "request", "held") \/ At(t, "finalize", "clear"))
             /\ ~At(t, "leave", "held") /\ ~(x.pc = "upsert" \/ (x.pc = "asked" /\ x.op \in Changes))
    <3>1. RowLocks(t) = {}
      BY <2>6 DEF RowLocks
    <3> QED
      BY <3>1
  <2> QED
    BY <2>3, <2>4, <2>5, <2>6
<1>3. InviteLocks(t) \in SUBSET Locks
  <2>1. \A o \in Orgs, u \in Users : InviteRow(o, u) \in Locks
    BY DEF InviteRow, Locks
  <2>2. CASE At(t, "accept", "asked")
    <3>1. InviteLocks(t) = {InviteRow(x.org, x.on)} /\ x.on \in Users /\ x.org \in Orgs
      BY <2>2, TxFacts DEF InviteLocks, At
    <3> QED
      BY <2>1, <3>1
  <2>3. CASE At(t, "finalize", "clear")
    <3>1. InviteLocks(t) = {InviteRow(o, u) : o \in Sole(t), u \in Users}
                           \cup {InviteRow(o, x.on) : o \in Orgs}
          /\ x.on \in Users /\ Sole(t) \subseteq Orgs
      BY <2>3, TxFacts DEF InviteLocks, At, Sole
    <3> QED
      BY <2>1, <3>1
  <2>4. CASE ~At(t, "accept", "asked") /\ ~At(t, "finalize", "clear")
    <3>1. InviteLocks(t) = {}
      BY <2>4 DEF InviteLocks
    <3> QED
      BY <3>1
  <2> QED
    BY <2>2, <2>3, <2>4
<1>4. UserLocks(t) \in SUBSET Locks
  BY TxFacts DEF UserLocks, UserRow, Locks, At
<1> QED
  BY <1>1, <1>2, <1>3, <1>4 DEF Needs

-----------------------------------------------------------------------------
(* What a step makes of its transaction *)

\* A transaction moves on, and takes what it needed.
Went(t, pc, role, wrote, closes, seats) ==
  /\ tx'[t].op = tx[t].op /\ tx'[t].who = tx[t].who /\ tx'[t].org = tx[t].org
  /\ tx'[t].on = tx[t].on /\ tx'[t].moved = tx[t].moved /\ tx'[t].came = tx[t].came
  /\ tx'[t].pc = pc /\ tx'[t].role = role /\ tx'[t].wrote = wrote
  /\ tx'[t].closes = closes /\ tx'[t].seats = seats
  /\ tx'[t].holds = tx[t].holds \cup Needs(t)
  /\ \A s \in Tabs \ {t} : tx'[s] = tx[s]
  /\ tx' \in [Tabs -> Txs]

LEMMA GoesFacts ==
  ASSUME TypeInv, NEW t \in Tabs, NEW pc \in Steps, NEW role \in Roles,
         NEW wrote \in SUBSET Orgs, NEW closes \in SUBSET Orgs,
         NEW seats \in Ceilings \cup {NoCeiling},
         NEW x, Goes(t, x),
         x = [tx[t] EXCEPT !.pc = pc, !.role = role, !.wrote = wrote, !.closes = closes, !.seats = seats]
  PROVE  Went(t, pc, role, wrote, closes, seats)
<1> DEFINE y == [x EXCEPT !.holds = @ \cup Needs(t)]
<1>1. tx[t] \in Txs /\ Needs(t) \in SUBSET Locks
  BY TxType, NeedsType
<1>2. x \in Txs
  BY <1>1 DEF Txs
<1>3. y \in Txs
  BY <1>1, <1>2, ZenonT(40) DEF Txs
<1>4. tx' = [tx EXCEPT ![t] = y]
  BY DEF Goes
<1>5. tx'[t] = y /\ (\A s \in Tabs \ {t} : tx'[s] = tx[s]) /\ tx' \in [Tabs -> Txs]
  BY <1>3, <1>4 DEF TypeInv, TypeOK, Txs
<1>6. /\ y.op = tx[t].op /\ y.who = tx[t].who /\ y.org = tx[t].org /\ y.on = tx[t].on
      /\ y.moved = tx[t].moved /\ y.came = tx[t].came
      /\ y.pc = pc /\ y.role = role /\ y.wrote = wrote /\ y.closes = closes /\ y.seats = seats
      /\ y.holds = tx[t].holds \cup Needs(t)
  BY <1>1 DEF Txs
<1> QED
  BY <1>5, <1>6 DEF Went

LEMMA ToFacts ==
  ASSUME TypeInv, NEW t \in Tabs, NEW pc \in Steps, To(t, pc)
  PROVE  Went(t, pc, tx[t].role, tx[t].wrote, tx[t].closes, tx[t].seats)
<1>1. tx[t] \in Txs
  BY TxType
<1>2. [tx[t] EXCEPT !.pc = pc]
      = [tx[t] EXCEPT !.pc = pc, !.role = tx[t].role, !.wrote = tx[t].wrote,
                      !.closes = tx[t].closes, !.seats = tx[t].seats]
  BY <1>1 DEF Txs
<1>3. /\ tx[t].role \in Roles /\ tx[t].wrote \in SUBSET Orgs /\ tx[t].closes \in SUBSET Orgs
      /\ tx[t].seats \in Ceilings \cup {NoCeiling}
  BY <1>1 DEF Txs
<1> QED
  BY <1>2, <1>3, GoesFacts DEF To

LEMMA WritesFacts ==
  ASSUME TypeInv, NEW t \in Tabs, NEW orgs \in SUBSET Orgs, Writes(t, orgs)
  PROVE  Went(t, "written", tx[t].role, orgs, tx[t].closes, tx[t].seats)
<1>1. tx[t] \in Txs
  BY TxType
<1>2. [tx[t] EXCEPT !.pc = "written", !.wrote = orgs]
      = [tx[t] EXCEPT !.pc = "written", !.role = tx[t].role, !.wrote = orgs,
                      !.closes = tx[t].closes, !.seats = tx[t].seats]
  BY <1>1 DEF Txs
<1>3. /\ tx[t].role \in Roles /\ tx[t].closes \in SUBSET Orgs
      /\ tx[t].seats \in Ceilings \cup {NoCeiling} /\ "written" \in Steps
  BY <1>1 DEF Txs, Steps
<1> QED
  BY <1>2, <1>3, GoesFacts DEF Writes

LEMMA SeatingFacts ==
  ASSUME TypeInv, NEW t \in Tabs, NEW seats \in Ceilings \cup {NoCeiling},
         Goes(t, [tx[t] EXCEPT !.pc = "seating", !.seats = seats])
  PROVE  Went(t, "seating", tx[t].role, tx[t].wrote, tx[t].closes, seats)
<1>1. tx[t] \in Txs
  BY TxType
<1>2. [tx[t] EXCEPT !.pc = "seating", !.seats = seats]
      = [tx[t] EXCEPT !.pc = "seating", !.role = tx[t].role, !.wrote = tx[t].wrote,
                      !.closes = tx[t].closes, !.seats = seats]
  BY <1>1 DEF Txs
<1>3. /\ tx[t].role \in Roles /\ tx[t].wrote \in SUBSET Orgs /\ tx[t].closes \in SUBSET Orgs
      /\ "seating" \in Steps
  BY <1>1 DEF Txs, Steps
<1> QED
  BY <1>2, <1>3, GoesFacts

\* A transaction that is over.
Over(t) == tx'[t] = Idle /\ (\A s \in Tabs \ {t} : tx'[s] = tx[s]) /\ tx' \in [Tabs -> Txs]

LEMMA EndFacts ==
  ASSUME TypeInv, NEW t \in Tabs, Ends(t)
  PROVE  Over(t)
BY IdleType DEF Ends, Over, TypeInv, TypeOK, Txs

LEMMA IdleFields ==
  /\ Idle.op = "idle" /\ Idle.pc = "idle" /\ Idle.holds = {} /\ Idle.wrote = {}
  /\ Idle.closes = {} /\ Idle.seats = NoCeiling /\ Idle.moved = FALSE /\ Idle.came = FALSE
  /\ Idle.org = Nobody /\ Idle.on = Nobody
BY DEF Idle

\* A request that arrives, or somebody the cron picks.
Begins(t, op, who, org, on, role) ==
  /\ tx[t].op = "idle"
  /\ tx'[t].op = op /\ tx'[t].pc = "asked" /\ tx'[t].who = who /\ tx'[t].org = org
  /\ tx'[t].on = on /\ tx'[t].role = role /\ tx'[t].holds = {} /\ tx'[t].wrote = {}
  /\ tx'[t].closes = {} /\ tx'[t].seats = NoCeiling /\ tx'[t].came = FALSE
  /\ tx'[t].moved = (\E s \in Tabs : tx[s].moved /\ tx[s].org = org)
  /\ \A s \in Tabs \ {t} : tx'[s] = tx[s]
  /\ tx' \in [Tabs -> Txs]
  /\ UNCHANGED tables

LEMMA AskFacts ==
  ASSUME TypeInv, NEW t \in Tabs, NEW op \in Ops, NEW who \in Users,
         NEW org \in Orgs \cup {Nobody}, NEW on \in Users, NEW role \in Roles,
         NEW x, Ask(t, x),
         x = [Idle EXCEPT !.op = op, !.who = who, !.org = org, !.on = on, !.role = role]
  PROVE  Begins(t, op, who, org, on, role)
<1> DEFINE moved == \E s \in Tabs : tx[s].moved /\ tx[s].org = x.org
           y == [x EXCEPT !.pc = "asked", !.moved = moved]
<1>1. x \in Txs /\ x.org = org
  BY IdleType DEF Txs
<1>2. y \in Txs
  <2>1. moved \in BOOLEAN
    OBVIOUS
  <2> HIDE DEF moved
  <2> QED
    BY <1>1, <2>1, ZenonT(40) DEF Txs, Steps
<1>3. tx'[t] = y /\ (\A s \in Tabs \ {t} : tx'[s] = tx[s]) /\ tx' \in [Tabs -> Txs]
  BY <1>2 DEF Ask, TypeInv, TypeOK, Txs
<1>4. /\ y.op = op /\ y.pc = "asked" /\ y.who = who /\ y.org = org /\ y.on = on /\ y.role = role
      /\ y.holds = {} /\ y.wrote = {} /\ y.closes = {} /\ y.seats = NoCeiling /\ y.came = FALSE
      /\ y.moved = moved
  <2> HIDE DEF moved
  <2> QED BY <1>1, IdleType, IdleFields DEF Txs
<1>5. tx[t].op = "idle" /\ UNCHANGED tables
  BY DEF Ask
<1> HIDE DEF y
<1> QED
  BY <1>1, <1>3, <1>4, <1>5 DEF Begins

\* Whoever re-admits runs the Org and is not on their way out.
LEMMA BeginFacts ==
  ASSUME TypeInv, NEW t \in Tabs, Request(t) \/ PickDue(t)
  PROVE  /\ \E op \in Ops \ {"idle"}, who \in Users, org \in Orgs \cup {Nobody}, on \in Users,
               role \in Roles :
              /\ Begins(t, op, who, org, on, role)
              /\ op \in Changes \cup {"accept", "leave"} => org \in Orgs
              /\ op = "accept" => role # "owner"
              /\ op = "readmit" => Signed(who) /\ Reaches(who, org)
         /\ events' \in 0 .. MaxEvents
<1> DEFINE P == \E op \in Ops \ {"idle"}, who \in Users, org \in Orgs \cup {Nobody}, on \in Users,
                   role \in Roles :
                  /\ Begins(t, op, who, org, on, role)
                  /\ op \in Changes \cup {"accept", "leave"} => org \in Orgs
                  /\ op = "accept" => role # "owner"
                  /\ op = "readmit" => Signed(who) /\ Reaches(who, org)
<1>1. events' \in 0 .. MaxEvents
  <2>1. Counted \/ UNCHANGED events
    BY DEF Request, AskChange, AskOwn, AskDeletion, PickDue
  <2>2. events \in 0 .. MaxEvents
    BY DEF TypeInv, TypeOK
  <2> QED
    BY <2>1, <2>2, ConstantsAssumption DEF Counted
<1>2. Idle.op = "idle" /\ Idle.org = Nobody /\ Idle.role = "member" /\ "member" \in Roles
  BY DEF Idle, Roles
<1>3. CASE AskChange(t)
  <2>1. PICK w, u \in Users, o \in Orgs, r \in Roles, op \in Changes :
          /\ Signed(w) /\ Reaches(w, o)
          /\ Ask(t, [Idle EXCEPT !.op = op, !.who = w, !.org = o, !.on = u, !.role = r])
    BY <1>3 DEF AskChange
  <2>2. op \in Ops \ {"idle"} /\ op # "accept"
    BY DEF Changes, Ops
  <2>3. Begins(t, op, w, o, u, r)
    BY <2>1, <2>2, AskFacts
  <2> QED
    BY <1>1, <2>1, <2>2, <2>3
<1>4. CASE AskOwn(t)
  <2>1. PICK u \in Users, o \in Orgs, op \in {"accept", "leave"} :
          Ask(t, [Idle EXCEPT !.op = op, !.who = u, !.org = o, !.on = u])
    BY <1>4 DEF AskOwn
  <2>2. [Idle EXCEPT !.op = op, !.who = u, !.org = o, !.on = u]
        = [Idle EXCEPT !.op = op, !.who = u, !.org = o, !.on = u, !.role = "member"]
    BY <1>2, IdleType DEF Txs
  <2>3. op \in Ops \ {"idle"} /\ op # "readmit"
    BY DEF Ops
  <2>4. Begins(t, op, u, o, u, "member")
    BY <1>2, <2>1, <2>2, <2>3, AskFacts
  <2> QED
    BY <1>1, <1>2, <2>3, <2>4
<1>5. ASSUME NEW u \in Users, NEW op \in {"request", "finalize"},
             Ask(t, [Idle EXCEPT !.op = op, !.who = u, !.on = u])
      PROVE  P
  <2>1. [Idle EXCEPT !.op = op, !.who = u, !.on = u]
        = [Idle EXCEPT !.op = op, !.who = u, !.org = Nobody, !.on = u, !.role = "member"]
    BY <1>2, IdleType DEF Txs
  <2>2. op \in Ops \ {"idle"} /\ op \notin Changes \cup {"accept", "leave"}
    BY DEF Ops, Changes
  <2>3. Begins(t, op, u, Nobody, u, "member")
    BY <1>2, <1>5, <2>1, <2>2, AskFacts
  <2> QED
    BY <1>2, <2>2, <2>3 DEF Changes
<1>6. CASE AskDeletion(t) \/ PickDue(t)
  <2>1. P
    BY <1>5, <1>6 DEF AskDeletion, PickDue, TypeInv, TypeOK
  <2> QED
    BY <1>1, <2>1
<1> QED
  BY <1>3, <1>4, <1>6 DEF Request

LEMMA AcceptLockFacts ==
  ASSUME TypeInv, NEW t \in Tabs, NEW role \in Roles,
         Goes(t, [tx[t] EXCEPT !.pc = "held", !.role = role])
  PROVE  Went(t, "held", role, tx[t].wrote, tx[t].closes, tx[t].seats)
<1>1. tx[t] \in Txs
  BY TxType
<1>2. [tx[t] EXCEPT !.pc = "held", !.role = role]
      = [tx[t] EXCEPT !.pc = "held", !.role = role, !.wrote = tx[t].wrote,
                      !.closes = tx[t].closes, !.seats = tx[t].seats]
  BY <1>1 DEF Txs
<1>3. /\ tx[t].wrote \in SUBSET Orgs /\ tx[t].closes \in SUBSET Orgs
      /\ tx[t].seats \in Ceilings \cup {NoCeiling} /\ "held" \in Steps
  BY <1>1 DEF Txs, Steps
<1> QED
  BY <1>2, <1>3, GoesFacts

LEMMA FinalizeWriteFacts ==
  ASSUME TypeInv, NEW t \in Tabs, FinalizeWrite(t)
  PROVE  Went(t, "written", tx[t].role, {o \in Orgs : member[o][tx[t].on].live}, Sole(t), tx[t].seats)
<1> DEFINE wrote == {o \in Orgs : member[o][tx[t].on].live}
<1>1. tx[t] \in Txs /\ Sole(t) \in SUBSET Orgs /\ wrote \in SUBSET Orgs
  BY TxType DEF Sole
<1>2. Goes(t, [tx[t] EXCEPT !.pc = "written", !.closes = Sole(t), !.wrote = wrote])
  BY DEF FinalizeWrite
<1> HIDE DEF wrote
<1>3. [tx[t] EXCEPT !.pc = "written", !.closes = Sole(t), !.wrote = wrote]
      = [tx[t] EXCEPT !.pc = "written", !.role = tx[t].role, !.wrote = wrote,
                      !.closes = Sole(t), !.seats = tx[t].seats]
  BY <1>1 DEF Txs
<1>4. tx[t].role \in Roles /\ tx[t].seats \in Ceilings \cup {NoCeiling} /\ "written" \in Steps
  BY <1>1 DEF Txs, Steps
<1>5. Went(t, "written", tx[t].role, wrote, Sole(t), tx[t].seats)
  BY <1>1, <1>2, <1>3, <1>4, GoesFacts
<1> QED
  BY <1>5 DEF wrote

\* Others go on as they were, but that a leave may find its person come in.
LEMMA CommitFacts ==
  ASSUME TypeInv, NEW t \in Tabs, Commit(t)
  PROVE  /\ tx'[t] = Idle
         /\ \A s \in Tabs \ {t} :
              /\ tx'[s].op = tx[s].op /\ tx'[s].pc = tx[s].pc /\ tx'[s].who = tx[s].who
              /\ tx'[s].org = tx[s].org /\ tx'[s].on = tx[s].on /\ tx'[s].role = tx[s].role
              /\ tx'[s].holds = tx[s].holds /\ tx'[s].wrote = tx[s].wrote
              /\ tx'[s].closes = tx[s].closes /\ tx'[s].seats = tx[s].seats
              /\ tx'[s].moved = tx[s].moved
              /\ tx'[s].came = (tx[s].came \/ (/\ At(s, "leave", "held") /\ tx[s].on = tx[t].on
                                               /\ Enters(t) # {}))
         /\ tx' \in [Tabs -> Txs]
         /\ tx[t].pc = "guarded" /\ tx[t].op # "idle" /\ tx[t].op # "request" /\ tx[t].on \in Users
<1> DEFINE came(s) == tx[s].came \/ (At(s, "leave", "held") /\ tx[s].on = tx[t].on /\ Enters(t) # {})
<1>1. tx' = [s \in Tabs |-> IF s = t THEN Idle ELSE [tx[s] EXCEPT !.came = came(s)]]
  BY DEF Commit
<1>2. ASSUME NEW s \in Tabs PROVE came(s) \in BOOLEAN
  <2>1. tx[s].came \in BOOLEAN
    BY TxType DEF Txs
  <2> QED
    BY <2>1
<1>3. tx[t].pc = "guarded" /\ tx[t].op # "idle" /\ tx[t].op # "request" /\ tx[t].on \in Users
  BY DEF Commit, TypeInv, TxInv, Shape
<1> HIDE DEF came
<1>4. ASSUME NEW s \in Tabs \ {t}
      PROVE  /\ tx'[s].op = tx[s].op /\ tx'[s].pc = tx[s].pc /\ tx'[s].who = tx[s].who
             /\ tx'[s].org = tx[s].org /\ tx'[s].on = tx[s].on /\ tx'[s].role = tx[s].role
             /\ tx'[s].holds = tx[s].holds /\ tx'[s].wrote = tx[s].wrote
             /\ tx'[s].closes = tx[s].closes /\ tx'[s].seats = tx[s].seats
             /\ tx'[s].moved = tx[s].moved /\ tx'[s].came = came(s)
             /\ tx'[s] \in Txs
  <2>1. tx'[s] = [tx[s] EXCEPT !.came = came(s)]
    BY <1>1
  <2>2. tx[s] \in Txs /\ came(s) \in BOOLEAN
    BY <1>2, TxType
  <2> QED
    BY <2>1, <2>2 DEF Txs
<1>5. tx'[t] = Idle
  BY <1>1
<1>6. tx' \in [Tabs -> Txs]
  BY <1>1, <1>4, <1>5, IdleType
<1> QED
  BY <1>3, <1>4, <1>5, <1>6 DEF came

LEMMA SetPlanFacts ==
  ASSUME TypeInv, SetPlan
  PROVE  \E o \in Orgs, c \in Ceilings \cup {NoCeiling} :
           /\ ceiling' = [ceiling EXCEPT ![o] = c]
           /\ \A s \in Tabs :
                /\ tx'[s].op = tx[s].op /\ tx'[s].pc = tx[s].pc /\ tx'[s].who = tx[s].who
                /\ tx'[s].org = tx[s].org /\ tx'[s].on = tx[s].on /\ tx'[s].role = tx[s].role
                /\ tx'[s].holds = tx[s].holds /\ tx'[s].wrote = tx[s].wrote
                /\ tx'[s].closes = tx[s].closes /\ tx'[s].seats = tx[s].seats
                /\ tx'[s].came = tx[s].came
                /\ tx'[s].moved = (tx[s].moved \/ (tx[s].op # "idle" /\ tx[s].org = o))
           /\ tx' \in [Tabs -> Txs]
<1>1. PICK o \in Orgs, c \in Ceilings \cup {NoCeiling} :
        /\ ceiling' = [ceiling EXCEPT ![o] = c]
        /\ tx' = [s \in Tabs |-> [tx[s] EXCEPT !.moved = @ \/ (tx[s].op # "idle" /\ tx[s].org = o)]]
  BY DEF SetPlan
<1> DEFINE moved(s) == tx[s].moved \/ (tx[s].op # "idle" /\ tx[s].org = o)
<1>2. tx' = [s \in Tabs |-> [tx[s] EXCEPT !.moved = moved(s)]]
  BY <1>1
<1>3. ASSUME NEW s \in Tabs PROVE moved(s) \in BOOLEAN
  <2>1. tx[s].moved \in BOOLEAN
    BY TxType DEF Txs
  <2> QED
    BY <2>1
<1> HIDE DEF moved
<1>4. ASSUME NEW s \in Tabs
      PROVE  /\ tx'[s].op = tx[s].op /\ tx'[s].pc = tx[s].pc /\ tx'[s].who = tx[s].who
             /\ tx'[s].org = tx[s].org /\ tx'[s].on = tx[s].on /\ tx'[s].role = tx[s].role
             /\ tx'[s].holds = tx[s].holds /\ tx'[s].wrote = tx[s].wrote
             /\ tx'[s].closes = tx[s].closes /\ tx'[s].seats = tx[s].seats
             /\ tx'[s].came = tx[s].came /\ tx'[s].moved = moved(s)
             /\ tx'[s] \in Txs
  <2>1. tx'[s] = [tx[s] EXCEPT !.moved = moved(s)]
    BY <1>2
  <2>2. tx[s] \in Txs /\ moved(s) \in BOOLEAN
    BY <1>3, TxType
  <2> QED
    BY <2>1, <2>2 DEF Txs
<1>5. tx' \in [Tabs -> Txs]
  BY <1>2, <1>4
<1>6. \A s \in Tabs :
        /\ tx'[s].op = tx[s].op /\ tx'[s].pc = tx[s].pc /\ tx'[s].who = tx[s].who
        /\ tx'[s].org = tx[s].org /\ tx'[s].on = tx[s].on /\ tx'[s].role = tx[s].role
        /\ tx'[s].holds = tx[s].holds /\ tx'[s].wrote = tx[s].wrote
        /\ tx'[s].closes = tx[s].closes /\ tx'[s].seats = tx[s].seats
        /\ tx'[s].came = tx[s].came
        /\ tx'[s].moved = (tx[s].moved \/ (tx[s].op # "idle" /\ tx[s].org = o))
  BY <1>4 DEF moved
<1> QED
  BY <1>1, <1>5, <1>6

-----------------------------------------------------------------------------
(* Types are kept *)

LEMMA SeenFacts ==
  ASSUME TypeInv, NEW t \in Tabs, NEW o \in Orgs
  PROVE  /\ Seen(t, o) \in [Users -> Rows]
         /\ \A u \in Users : u # tx[t].on => Seen(t, o)[u] = member[o][u]
         /\ o \notin tx[t].wrote => Seen(t, o) = member[o]
         /\ o \in tx[t].wrote => Seen(t, o)[tx[t].on] = Written(t, o) /\ tx[t].on \in Users
<1>1. member[o] \in [Users -> Rows]
  BY DEF TypeInv, TypeOK
<1>2. CASE o \notin tx[t].wrote
  BY <1>1, <1>2 DEF Seen
<1>3. CASE o \in tx[t].wrote
  <2>1. tx[t].on \in Users
    BY <1>3 DEF TypeInv, TxInv, Shape
  <2>2. Written(t, o) \in Rows
    <3>1. member[o][tx[t].on] \in Rows /\ tx[t].role \in Roles
      BY <1>1, <2>1, TxType DEF Txs
    <3> QED
      BY <3>1 DEF Written, Rows
  <2>3. Seen(t, o) = [member[o] EXCEPT ![tx[t].on] = Written(t, o)]
    BY <1>3 DEF Seen
  <2> QED
    BY <1>1, <1>3, <2>1, <2>2, <2>3
<1> QED
  BY <1>2, <1>3

LEMMA InvitesType ==
  ASSUME TypeInv, NEW t \in Tabs
  PROVE  Invites(t) \in [Orgs -> [Users -> [state : States, role : Roles \ {"owner"}]]]
<1> DEFINE I == [state : States, role : Roles \ {"owner"}]
<1>1. NoInvite \in I
  BY DEF NoInvite, States, Roles
<1>2. ASSUME NEW o \in Orgs, NEW u \in Users
      PROVE  /\ [invite[o][u] EXCEPT !.state = "accepted"] \in I
             /\ [invite[o][u] EXCEPT !.state = "revoked"] \in I
             /\ invite[o][u] \in I
  <2>1. invite[o][u] \in I
    BY DEF TypeInv, TypeOK
  <2> QED
    BY <2>1 DEF States
<1> DEFINE x == tx[t]
           now(o, u) ==
             CASE x.op = "accept" /\ o = x.org /\ u = x.on
                    -> [invite[o][u] EXCEPT !.state = "accepted"]
               [] x.op = "finalize" /\ u = x.on -> NoInvite
               [] x.op = "finalize" /\ u # x.on /\ o \in x.closes
                    /\ invite[o][u].state \in {"open", "expired"}
                    -> [invite[o][u] EXCEPT !.state = "revoked"]
               [] OTHER -> invite[o][u]
<1>3. Invites(t) = [o \in Orgs |-> [u \in Users |-> now(o, u)]]
  BY DEF Invites
<1> HIDE DEF I
<1>4. ASSUME NEW o \in Orgs, NEW u \in Users PROVE now(o, u) \in I
  BY <1>1, <1>2
<1> HIDE DEF now
<1>5. Invites(t) \in [Orgs -> [Users -> I]]
  BY <1>3, <1>4
<1> QED
  BY <1>5 DEF I

\* A step of one transaction before its commit.
LEMMA WentKeeps ==
  ASSUME TypeInv, NEW t \in Tabs, NEW pc, NEW role, NEW wrote, NEW closes, NEW seats,
         Went(t, pc, role, wrote, closes, seats), Shape(t)', strays' \in SUBSET Orgs,
         UNCHANGED <<member, invite, ceiling, people, closed, events>>
  PROVE  TypeInv'
<1>1. ASSUME NEW s \in Tabs PROVE Shape(s)'
  <2>1. CASE s = t
    BY <2>1
  <2>2. CASE s # t
    <3>1. tx'[s] = tx[s] /\ Shape(s)
      BY <2>2 DEF Went, TypeInv, TxInv
    <3> QED
      BY <3>1 DEF Shape
  <2> QED
    BY <2>1, <2>2
<1>2. TypeOK'
  BY DEF TypeInv, TypeOK, Went, Txs, people
<1> QED
  BY <1>1, <1>2 DEF TypeInv, TxInv

LEMMA OverKeeps ==
  ASSUME TypeInv, NEW t \in Tabs, Over(t)
  PROVE  TxInv' /\ tx' \in [Tabs -> Txs]
<1>1. ASSUME NEW s \in Tabs PROVE Shape(s)'
  <2>1. CASE s = t
    BY <2>1, IdleFields DEF Over, Shape, Changes
  <2>2. CASE s # t
    <3>1. tx'[s] = tx[s] /\ Shape(s)
      BY <2>2 DEF Over, TypeInv, TxInv
    <3> QED
      BY <3>1 DEF Shape
  <2> QED
    BY <2>1, <2>2
<1> QED
  BY <1>1 DEF TxInv, Over

LEMMA RefusedKeeps ==
  ASSUME TypeInv, NEW t \in Tabs, Refused(t)
  PROVE  TypeInv'
BY OverKeeps, EndFacts DEF Refused, TypeInv, TypeOK, Txs, tables

LEMMA BeginKeeps ==
  ASSUME TypeInv, NEW t \in Tabs, Request(t) \/ PickDue(t)
  PROVE  TypeInv'
<1>1. PICK op \in Ops \ {"idle"}, who \in Users, org \in Orgs \cup {Nobody}, on \in Users,
           role \in Roles :
        /\ Begins(t, op, who, org, on, role)
        /\ op \in Changes \cup {"accept", "leave"} => org \in Orgs
        /\ op = "accept" => role # "owner"
  BY BeginFacts
<1>2. Shape(t)'
  BY <1>1 DEF Begins, Shape
<1>3. ASSUME NEW s \in Tabs \ {t} PROVE Shape(s)'
  <2>1. tx'[s] = tx[s] /\ Shape(s)
    BY <1>1 DEF Begins, TypeInv, TxInv
  <2> QED
    BY <2>1 DEF Shape
<1>4. TypeOK'
  BY <1>1, BeginFacts DEF Begins, TypeInv, TypeOK, Txs, tables
<1> QED
  BY <1>2, <1>3, <1>4 DEF TypeInv, TxInv

LEMMA UpdateKeeps ==
  ASSUME TypeInv, NEW t \in Tabs, Update(t)
  PROVE  TypeInv'
<1>1. tx[t].pc = "asked" /\ tx[t].op \in Changes /\ tx[t].org \in Orgs /\ tx[t].role \in Roles
      /\ Shape(t)
  BY TxType, TxFacts DEF Update, TypeInv, TxInv, Txs
<1>2. CASE Refused(t)
  BY <1>2, RefusedKeeps
<1>3. CASE /\ Goes(t, [tx[t] EXCEPT !.pc = "seating", !.seats = ceiling[tx[t].org]])
           /\ tx[t].op = "readmit" /\ UNCHANGED <<tables, events>>
  <2>1. Went(t, "seating", tx[t].role, tx[t].wrote, tx[t].closes, ceiling[tx[t].org])
    BY <1>1, <1>3, SeatingFacts DEF TypeInv, TypeOK
  <2>2. Shape(t)'
    BY <1>1, <1>3, <2>1 DEF Went, Shape, Changes
  <2> QED
    BY <1>3, <2>1, <2>2, WentKeeps DEF tables, people, TypeInv, TypeOK
<1>4. CASE Writes(t, {tx[t].org}) /\ tx[t].op # "readmit" /\ UNCHANGED <<tables, events>>
  <2>1. Went(t, "written", tx[t].role, {tx[t].org}, tx[t].closes, tx[t].seats)
    BY <1>1, <1>4, WritesFacts
  <2>2. Shape(t)'
    BY <1>1, <1>4, <2>1 DEF Went, Shape, Changes
  <2> QED
    BY <1>4, <2>1, <2>2, WentKeeps DEF tables, people, TypeInv, TypeOK
<1> QED
  BY <1>2, <1>3, <1>4 DEF Update

\* To a point a transaction of this kind has.
LEMMA ToKeeps ==
  ASSUME TypeInv, NEW t \in Tabs, NEW pc \in {"held", "clear", "upsert", "guarded"}, To(t, pc),
         tx[t].pc \notin {"idle", "guarded"}, pc = "guarded" <=> tx[t].pc = "written",
         pc = "held" => tx[t].op \in {"accept", "leave", "request", "finalize"},
         pc = "clear" => tx[t].op \in {"accept", "request", "finalize"},
         pc = "upsert" => tx[t].op = "accept",
         strays' \in SUBSET Orgs,
         UNCHANGED <<member, invite, ceiling, people, closed, events>>
  PROVE  TypeInv'
<1>1. Went(t, pc, tx[t].role, tx[t].wrote, tx[t].closes, tx[t].seats)
  BY ToFacts DEF Steps
<1>2. Shape(t) /\ tx[t].op \in Ops
  BY TxFacts DEF TypeInv, TxInv
<1>3. Shape(t)'
  BY <1>1, <1>2 DEF Went, Shape, Changes, Ops
<1> QED
  BY <1>1, <1>3, WentKeeps

LEMMA WritesKeeps ==
  ASSUME TypeInv, NEW t \in Tabs, NEW orgs \in SUBSET {tx[t].org}, Writes(t, orgs),
         tx[t].op \in {"accept", "leave", "readmit"}, tx[t].pc \notin {"written", "guarded"},
         UNCHANGED <<tables, events>>
  PROVE  TypeInv'
<1>1. orgs \in SUBSET Orgs
  BY TxFacts DEF Changes
<1>2. Went(t, "written", tx[t].role, orgs, tx[t].closes, tx[t].seats)
  BY <1>1, WritesFacts
<1>3. Shape(t)
  BY DEF TypeInv, TxInv
<1>4. Shape(t)'
  BY <1>2, <1>3 DEF Went, Shape, Changes
<1> QED
  BY <1>2, <1>4, WentKeeps DEF tables, people, TypeInv, TypeOK

LEMMA AcceptKeeps ==
  ASSUME TypeInv, NEW t \in Tabs,
         AcceptLock(t) \/ AcceptCheck(t) \/ AcceptInsert(t) \/ Upsert(t) \/ Seat(t)
  PROVE  TypeInv'
<1>1. UNCHANGED tables => strays' \in SUBSET Orgs /\ UNCHANGED <<member, invite, ceiling, people, closed>>
  BY DEF tables, people, TypeInv, TypeOK
<1>2. CASE Refused(t)
  BY <1>2, RefusedKeeps
<1>3. CASE AcceptLock(t) /\ ~Refused(t)
  <2> DEFINE role == invite[tx[t].org][tx[t].on].role
  <2>1. At(t, "accept", "asked") /\ Goes(t, [tx[t] EXCEPT !.pc = "held", !.role = role])
        /\ UNCHANGED <<tables, events>>
    BY <1>3 DEF AcceptLock
  <2>2. role \in Roles \ {"owner"}
    BY <2>1, TxFacts DEF At, TypeInv, TypeOK
  <2> HIDE DEF role
  <2>3. Went(t, "held", role, tx[t].wrote, tx[t].closes, tx[t].seats)
    BY <2>1, <2>2, AcceptLockFacts
  <2>4. Shape(t)
    BY DEF TypeInv, TxInv
  <2>5. Shape(t)'
    BY <2>1, <2>2, <2>3, <2>4 DEF Went, Shape, At
  <2> QED
    BY <1>1, <2>1, <2>3, <2>5, WentKeeps
<1>4. CASE AcceptCheck(t) /\ ~Refused(t)
  BY <1>1, <1>4, ToKeeps DEF AcceptCheck, At, Steps, Changes
<1>5. CASE AcceptInsert(t)
  <2>1. At(t, "accept", "clear") /\ UNCHANGED <<tables, events>> /\ tx[t].org \in Orgs
    BY <1>5, TxFacts DEF AcceptInsert, At
  <2>2. CASE Writes(t, {})
    BY <2>1, <2>2, WritesKeeps DEF At
  <2>3. CASE Goes(t, [tx[t] EXCEPT !.pc = "seating", !.seats = ceiling[tx[t].org]])
    <3>1. Went(t, "seating", tx[t].role, tx[t].wrote, tx[t].closes, ceiling[tx[t].org])
      BY <2>1, <2>3, SeatingFacts DEF TypeInv, TypeOK
    <3>2. Shape(t)
      BY DEF TypeInv, TxInv
    <3>3. Shape(t)'
      BY <2>1, <3>1, <3>2 DEF Went, Shape, At
    <3> QED
      BY <1>1, <2>1, <3>1, <3>3, WentKeeps
  <2> QED
    BY <1>5, <2>2, <2>3 DEF AcceptInsert
<1>6. CASE Upsert(t) /\ ~Refused(t)
  <2>1. tx[t].op = "accept"
    BY <1>6, TxFacts DEF Upsert, TypeInv, TxInv, Shape
  <2> QED
    BY <1>6, <2>1, WritesKeeps DEF Upsert
<1>7. CASE Seat(t) /\ ~Refused(t)
  <2>1. tx[t].op \in {"accept", "readmit"} /\ tx[t].pc = "seating"
    BY <1>7, TxFacts DEF Seat
  <2>2. CASE Writes(t, {tx[t].org})
    BY <1>7, <2>1, <2>2, WritesKeeps DEF Seat
  <2>3. CASE To(t, "upsert") /\ tx[t].op = "accept"
    BY <1>1, <1>7, <2>1, <2>3, ToKeeps DEF Seat, Steps, Changes
  <2> QED
    BY <1>7, <2>1, <2>2, <2>3 DEF Seat
<1> QED
  BY <1>2, <1>3, <1>4, <1>5, <1>6, <1>7

LEMMA LeaveKeeps ==
  ASSUME TypeInv, NEW t \in Tabs,
         \/ LeaveLock(t) \/ LeaveCheck(t) \/ RequestOrgs(t) \/ RequestCheck(t) \/ Requested(t)
         \/ FinalizeLock(t) \/ FinalizeCheck(t) \/ Guard(t)
  PROVE  TypeInv'
<1>1. UNCHANGED tables => strays' \in SUBSET Orgs /\ UNCHANGED <<member, invite, ceiling, people, closed>>
  BY DEF tables, people, TypeInv, TypeOK
<1>2. CASE Refused(t)
  BY <1>2, RefusedKeeps
<1>3. CASE /\ LeaveLock(t) \/ RequestOrgs(t) \/ RequestCheck(t) \/ FinalizeLock(t) \/ FinalizeCheck(t)
           /\ ~Refused(t)
  BY <1>1, <1>3, ToKeeps DEF LeaveLock, RequestOrgs, RequestCheck, FinalizeLock, FinalizeCheck, At
<1>4. CASE LeaveCheck(t) /\ ~Refused(t)
  BY <1>4, WritesKeeps DEF LeaveCheck, At
<1>5. CASE Requested(t)
  <2>1. tx[t].on \in Users
    BY <1>5, TxFacts DEF Requested, At
  <2> QED
    BY <1>5, <2>1, EndFacts, OverKeeps DEF Requested, TypeInv, TypeOK, Txs
<1>6. CASE Guard(t) /\ ~Refused(t)
  <2>1. To(t, "guarded") /\ tx[t].pc = "written"
        /\ UNCHANGED <<member, invite, ceiling, people, closed, events>>
    BY <1>6 DEF Guard
  <2>2. strays' \in SUBSET Orgs
    BY <1>6 DEF Guard, Stops, TypeInv, TypeOK
  <2> QED
    BY <2>1, <2>2, ToKeeps
<1> QED
  BY <1>2, <1>3, <1>4, <1>5, <1>6

LEMMA FinalizeWriteKeeps ==
  ASSUME TypeInv, NEW t \in Tabs, FinalizeWrite(t)
  PROVE  TypeInv'
<1> DEFINE wrote == {o \in Orgs : member[o][tx[t].on].live}
<1>1. Went(t, "written", tx[t].role, wrote, Sole(t), tx[t].seats)
  BY FinalizeWriteFacts
<1>2. Shape(t) /\ At(t, "finalize", "clear") /\ tx[t].on \in Users
  BY TxFacts DEF FinalizeWrite, TypeInv, TxInv, At
<1>3. Sole(t) \subseteq wrote
  BY <1>2 DEF Sole, Live
<1> HIDE DEF wrote
<1>4. Shape(t)'
  BY <1>1, <1>2, <1>3 DEF Went, Shape, At, Changes
<1>5. strays' \in SUBSET Orgs /\ UNCHANGED <<member, invite, ceiling, people, closed, events>>
  BY DEF FinalizeWrite, Sole, TypeInv, TypeOK
<1> QED
  BY <1>1, <1>4, <1>5, WentKeeps

LEMMA CommitKeeps ==
  ASSUME TypeInv, NEW t \in Tabs, Commit(t)
  PROVE  TypeInv'
<1>1. ASSUME NEW s \in Tabs PROVE Shape(s)'
  <2>1. CASE s = t
    BY <2>1, CommitFacts, IdleFields DEF Shape, Changes
  <2>2. CASE s # t
    <3>1. Shape(s)
      BY DEF TypeInv, TxInv
    <3> QED
      BY <2>2, <3>1, CommitFacts DEF Shape
  <2> QED
    BY <2>1, <2>2
<1>2. member' \in [Orgs -> [Users -> Rows]]
  <2>1. member' = [o \in Orgs |-> Seen(t, o)]
    BY DEF Commit
  <2> QED
    BY <2>1, SeenFacts
<1>3. invite' \in [Orgs -> [Users -> [state : States, role : Roles \ {"owner"}]]]
  <2>1. invite' = Invites(t)
    BY DEF Commit
  <2> QED
    BY <2>1, InvitesType
<1>4. gone' \subseteq Users /\ closed' \subseteq Orgs
  <2>1. tx[t].closes \subseteq Orgs
    BY TxType DEF Txs
  <2> QED
    BY <2>1, CommitFacts, ZenonT(40) DEF Commit, TypeInv, TypeOK
<1>5. UNCHANGED <<ceiling, asked, due, strays, events>>
  BY DEF Commit
<1>6. TypeOK'
  BY <1>2, <1>3, <1>4, <1>5, CommitFacts DEF TypeInv, TypeOK, Txs
<1> QED
  BY <1>1, <1>6 DEF TypeInv, TxInv

LEMMA OthersType ==
  ASSUME TypeInv, Invite \/ Answer \/ Keep \/ SetPlan \/ Expire \/ Lapse \/ Forget
  PROVE  TypeInv'
<1>1. events' \in 0 .. MaxEvents
  <2>1. Counted \/ UNCHANGED events
    BY DEF Invite, Answer, Keep, SetPlan, Expire, Lapse, Forget
  <2>2. events \in 0 .. MaxEvents
    BY DEF TypeInv, TypeOK
  <2> QED
    BY <2>1, <2>2, ConstantsAssumption DEF Counted
<1>2. ASSUME UNCHANGED tx PROVE TxInv'
  <2>1. ASSUME NEW s \in Tabs PROVE Shape(s)'
    BY <1>2 DEF Shape, TypeInv, TxInv
  <2> QED
    BY <2>1 DEF TxInv
<1>3. CASE Invite \/ Answer \/ Expire
  <2>1. invite' \in [Orgs -> [Users -> [state : States, role : Roles \ {"owner"}]]]
    <3>1. ASSUME NEW o \in Orgs, NEW u \in Users, NEW r \in Roles \ {"owner"},
                 invite' = [invite EXCEPT ![o][u] = [state |-> "open", role |-> r]]
          PROVE  invite' \in [Orgs -> [Users -> [state : States, role : Roles \ {"owner"}]]]
      <4>1. [state |-> "open", role |-> r] \in [state : States, role : Roles \ {"owner"}]
        BY DEF States
      <4> DEFINE I == [state : States, role : Roles \ {"owner"}]
      <4>2. invite \in [Orgs -> [Users -> I]] /\ [state |-> "open", role |-> r] \in I
        BY <4>1 DEF TypeInv, TypeOK
      <4> HIDE DEF I
      <4>3. invite' \in [Orgs -> [Users -> I]]
        BY <3>1, <4>2
      <4> QED
        BY <4>3 DEF I
    <3>2. ASSUME NEW o \in Orgs, NEW u \in Users, NEW st \in States,
                 invite' = [invite EXCEPT ![o][u].state = st]
          PROVE  invite' \in [Orgs -> [Users -> [state : States, role : Roles \ {"owner"}]]]
      <4> DEFINE I == [state : States, role : Roles \ {"owner"}]
      <4>1. invite \in [Orgs -> [Users -> I]]
        BY DEF TypeInv, TypeOK
      <4>2. [invite[o][u] EXCEPT !.state = st] \in I
        <5>1. invite[o][u] \in I
          BY <4>1
        <5> QED
          BY <5>1
      <4>3. invite' = [invite EXCEPT ![o][u] = [invite[o][u] EXCEPT !.state = st]]
        BY <3>2
      <4> HIDE DEF I
      <4>4. invite' \in [Orgs -> [Users -> I]]
        BY <4>1, <4>2, <4>3
      <4> QED
        BY <4>4 DEF I
    <3> QED
      BY <1>3, <3>1, <3>2 DEF Invite, Answer, Expire, States
  <2>2. UNCHANGED <<member, ceiling, people, closed, strays, tx>>
    BY <1>3 DEF Invite, Answer, Expire
  <2> QED
    BY <1>1, <1>2, <2>1, <2>2 DEF TypeInv, TypeOK, people
<1>4. CASE Keep \/ Lapse \/ Forget
  <2>1. UNCHANGED <<member, invite, ceiling, gone, closed, strays, tx>>
        /\ due' \subseteq asked' /\ asked' \subseteq Users
    BY <1>4 DEF Keep, Lapse, Forget, TypeInv, TypeOK
  <2> QED
    BY <1>1, <1>2, <2>1 DEF TypeInv, TypeOK
<1>5. CASE SetPlan
  <2>1. PICK o \in Orgs, c \in Ceilings \cup {NoCeiling} : ceiling' = [ceiling EXCEPT ![o] = c]
    BY <1>5 DEF SetPlan
  <2>2. UNCHANGED <<member, invite, people, closed, strays>>
    BY <1>5 DEF SetPlan
  <2>3. ASSUME NEW s \in Tabs PROVE Shape(s)'
    <3>1. Shape(s)
      BY DEF TypeInv, TxInv
    <3> QED
      BY <1>5, <3>1, SetPlanFacts DEF Shape
  <2>4. tx' \in [Tabs -> Txs]
    BY <1>5, SetPlanFacts
  <2> QED
    BY <1>1, <2>1, <2>2, <2>3, <2>4 DEF TypeInv, TxInv, TypeOK, Txs, people
<1> QED
  BY <1>3, <1>4, <1>5

LEMMA TypeStep ==
  ASSUME TypeInv, [Next]_vars
  PROVE  TypeInv'
<1>1. ASSUME NEW t \in Tabs, Step(t) PROVE TypeInv'
  BY <1>1, UpdateKeeps, AcceptKeeps, LeaveKeeps, FinalizeWriteKeeps, CommitKeeps, RefusedKeeps
     DEF Step, Deadlocked
<1>2. CASE UNCHANGED vars
  <2>1. ASSUME NEW s \in Tabs PROVE Shape(s)'
    BY <1>2 DEF Shape, TypeInv, TxInv, vars
  <2> QED
    BY <1>2, <2>1 DEF TypeInv, TypeOK, TxInv, vars
<1> QED
  BY <1>1, <1>2, BeginKeeps, OthersType DEF Next

LEMMA TypeInvariant == Spec => []TypeInv
<1>1. Init => TypeInv
  <2> SUFFICES ASSUME Init PROVE TypeInv
    OBVIOUS
  <2>1. TypeOK
    <3>1. member \in [Orgs -> [Users -> Rows]]
      <4> DEFINE F == {NoMember} \cup [role : Roles, live : {TRUE}]
      <4>1. member \in [Orgs -> [Users -> F]]
        BY DEF Init
      <4>2. NoMember \in Rows /\ [role : Roles, live : {TRUE}] \subseteq Rows
        BY DEF Rows, NoMember
      <4>3. F \subseteq Rows
        BY <4>2
      <4> HIDE DEF F
      <4> QED
        BY <4>1, <4>3
    <3>2. invite \in [Orgs -> [Users -> [state : States, role : Roles \ {"owner"}]]]
      <4>1. {NoInvite} \cup [state : {"open"}, role : {"member"}]
              \subseteq [state : States, role : Roles \ {"owner"}]
        BY DEF NoInvite, States, Roles
      <4> DEFINE I == [state : States, role : Roles \ {"owner"}]
                 F == {NoInvite} \cup [state : {"open"}, role : {"member"}]
      <4>2. invite \in [Orgs -> [Users -> F]] /\ F \subseteq I
        BY <4>1 DEF Init
      <4> HIDE DEF I, F
      <4>3. invite \in [Orgs -> [Users -> I]]
        BY <4>2
      <4> QED
        BY <4>3 DEF I
    <3>3. tx \in [Tabs -> Txs]
      BY IdleType DEF Init
    <3> QED
      BY <3>1, <3>2, <3>3, ConstantsAssumption DEF Init, TypeOK, Txs
  <2>2. ASSUME NEW t \in Tabs PROVE Shape(t)
    BY IdleFields DEF Init, Shape, Changes
  <2> QED
    BY <2>1, <2>2 DEF TypeInv, TxInv
<1> QED
  BY <1>1, TypeStep, PTL DEF Spec

\* Every row, invitation and transaction has its type.
THEOREM TypeCorrect == Spec => []TypeOK
<1>1. TypeInv => TypeOK
  BY DEF TypeInv
<1> QED
  BY <1>1, TypeInvariant, PTL

-----------------------------------------------------------------------------
(* Locks *)

LEMMA NoNeeds ==
  ASSUME TypeInv, NEW t \in Tabs,
         \/ At(t, "accept", "held") \/ At(t, "accept", "clear") \/ At(t, "finalize", "held")
         \/ tx[t].pc = "guarded"
  PROVE  Needs(t) = {}
<1>1. tx[t].pc = "guarded" => tx[t].op # "request"
  BY DEF TypeInv, TxInv, Shape
<1>2. OrgLocks(t) = {}
  BY DEF OrgLocks, At
<1>3. RowLocks(t) = {}
  BY DEF RowLocks, At, Changes
<1>4. InviteLocks(t) = {}
  BY DEF InviteLocks, At
<1>5. UserLocks(t) = {}
  BY DEF UserLocks, At
<1> QED
  BY <1>2, <1>3, <1>4, <1>5 DEF Needs

\* A step that takes only what is free, or gives everything back.
Takes(t) ==
  /\ \A s \in Tabs \ {t} : tx'[s].holds = tx[s].holds
  /\ \/ tx'[t].holds = {}
     \/ /\ tx'[t].holds = tx[t].holds \cup Needs(t)
        /\ \A s \in Tabs \ {t} : Needs(t) \cap tx[s].holds = {}

LEMMA StepTakes ==
  ASSUME TypeInv, NEW t \in Tabs, Step(t)
  PROVE  Takes(t)
<1>1. ASSUME Over(t) PROVE Takes(t)
  BY <1>1, IdleFields DEF Over, Takes
<1>2. ASSUME Free(t) \/ Needs(t) = {},
             NEW pc, NEW role, NEW wrote, NEW closes, NEW seats,
             Went(t, pc, role, wrote, closes, seats)
      PROVE  Takes(t)
  BY <1>2 DEF Went, Takes, Free
<1>3. ASSUME Refused(t) PROVE Takes(t)
  BY <1>1, <1>3, EndFacts DEF Refused
<1>4. ASSUME Free(t) \/ Needs(t) = {}, NEW pc \in Steps, To(t, pc) PROVE Takes(t)
  BY <1>2, <1>4, ToFacts
<1>5. ASSUME Free(t) \/ Needs(t) = {}, NEW orgs \in SUBSET Orgs, Writes(t, orgs) PROVE Takes(t)
  BY <1>2, <1>5, WritesFacts
<1>6. CASE Update(t)
  <2>1. tx[t].org \in Orgs /\ Free(t)
    BY <1>6, TxFacts DEF Update
  <2>2. CASE Goes(t, [tx[t] EXCEPT !.pc = "seating", !.seats = ceiling[tx[t].org]])
    BY <1>2, <2>1, <2>2, SeatingFacts DEF TypeInv, TypeOK
  <2>3. CASE Writes(t, {tx[t].org})
    BY <1>5, <2>1, <2>3
  <2> QED
    BY <1>3, <1>6, <2>2, <2>3 DEF Update
<1>7. CASE AcceptLock(t)
  <2>1. tx[t].org \in Orgs /\ tx[t].on \in Users
    BY <1>7, TxFacts DEF AcceptLock, At
  <2>2. invite[tx[t].org][tx[t].on].role \in Roles
    BY <2>1 DEF TypeInv, TypeOK
  <2> QED
    BY <1>2, <1>3, <1>7, <2>2, AcceptLockFacts DEF AcceptLock
<1>8. CASE AcceptCheck(t)
  BY <1>3, <1>4, <1>8, NoNeeds DEF AcceptCheck, Steps
<1>9. CASE AcceptInsert(t)
  <2>1. tx[t].org \in Orgs /\ Needs(t) = {}
    BY <1>9, TxFacts, NoNeeds DEF AcceptInsert, At
  <2>2. CASE Goes(t, [tx[t] EXCEPT !.pc = "seating", !.seats = ceiling[tx[t].org]])
    BY <1>2, <2>1, <2>2, SeatingFacts DEF TypeInv, TypeOK
  <2>3. CASE Writes(t, {})
    BY <1>5, <2>1, <2>3
  <2> QED
    BY <1>9, <2>2, <2>3 DEF AcceptInsert
<1>10. CASE Upsert(t) \/ Seat(t) \/ LeaveCheck(t)
  <2>1. tx[t].org \in Orgs /\ Free(t)
    BY <1>10, TxFacts DEF Upsert, Seat, LeaveCheck, At, Changes
  <2> QED
    BY <1>3, <1>4, <1>5, <1>10, <2>1 DEF Upsert, Seat, LeaveCheck, Steps
<1>11. CASE LeaveLock(t) \/ RequestOrgs(t) \/ RequestCheck(t) \/ FinalizeLock(t) \/ Guard(t)
  BY <1>3, <1>4, <1>11 DEF LeaveLock, RequestOrgs, RequestCheck, FinalizeLock, Guard, Steps
<1>12. CASE FinalizeCheck(t)
  BY <1>3, <1>4, <1>12, NoNeeds DEF FinalizeCheck, Steps
<1>13. CASE FinalizeWrite(t)
  BY <1>2, <1>13, FinalizeWriteFacts DEF FinalizeWrite
<1>14. CASE Requested(t)
  BY <1>1, <1>14, EndFacts DEF Requested
<1>15. CASE Commit(t)
  BY <1>15, CommitFacts, IdleFields DEF Takes
<1>16. CASE Deadlocked(t)
  BY <1>3, <1>16 DEF Deadlocked
<1> QED
  BY <1>6, <1>7, <1>8, <1>9, <1>10, <1>11, <1>12, <1>13, <1>14, <1>15, <1>16 DEF Step

LEMMA LockStep ==
  ASSUME TypeInv, LockInv, [Next]_vars
  PROVE  LockInv'
<1>1. ASSUME NEW t \in Tabs, Takes(t) PROVE LockInv'
  BY <1>1 DEF LockInv, Takes
<1>2. ASSUME NEW t \in Tabs, Request(t) \/ PickDue(t) PROVE Takes(t)
  BY <1>2, BeginFacts, ZenonT(40) DEF Begins, Takes
<1>3. CASE SetPlan
  BY <1>3, SetPlanFacts DEF LockInv
<1>4. CASE UNCHANGED tx
  BY <1>4 DEF LockInv
<1> QED
  BY <1>1, <1>2, <1>3, <1>4, StepTakes
     DEF Next, Invite, Answer, Keep, Expire, Lapse, Forget, vars

-----------------------------------------------------------------------------
(* What transactions rely on, until a commit *)

\* What others read of a step that is no commit.
Read == <<member, invite, due, gone, closed>>

\* One transaction moves on.  Who is newly being re-admitted comes into an Org
\* that somebody runs who is staying.
LEMMA OneMoves ==
  ASSUME TypeInv, OrgInv, NEW t \in Tabs, UNCHANGED Read, strays \subseteq strays',
         \A s \in Tabs \ {t} : tx'[s] = tx[s],
         tx'[t].op = "readmit" =>
           \/ tx[t].op = "readmit" /\ tx'[t].org = tx[t].org
           \/ \E w \in Users \ asked : w \in Live(member[tx'[t].org]),
         Holding(t)', Relies(t)'
  PROVE  OrgInv'
<1>1. ASSUME NEW o, o \in Readmitting', o \notin Readmitting
      PROVE  \E w \in Users \ asked : w \in Live(member[o])
  BY <1>1 DEF Readmitting
<1>2. ASSUME NEW s \in Tabs \ {t} PROVE Holding(s)'
  <2>1. Holding(s) /\ tx'[s] = tx[s]
    BY DEF OrgInv
  <2> QED
    BY <2>1 DEF Holding, At, Read
<1>3. ASSUME NEW s \in Tabs \ {t} PROVE Relies(s)'
  <2>1. Relies(s) /\ Holding(s) /\ tx'[s] = tx[s]
    BY DEF OrgInv
  <2>2. \A o : Seen(s, o)' = Seen(s, o)
    BY <2>1 DEF Seen, Written, Read
  <2>3. Stops(s)' = Stops(s)
    BY <2>1, <2>2 DEF Stops, Read
  <2>4. tx[s].op = "finalize" /\ tx[s].pc # "asked" => tx[s].on \in asked
    BY <2>1 DEF Holding, TypeInv, TypeOK
  <2>5. ASSUME NEW o \in Stops(s) \ strays', tx[s].pc = "guarded" PROVE Leaving(s, o)'
    <3>1. Leaving(s, o)
      BY <2>1, <2>5 DEF Relies
    <3>2. CASE Owners(Seen(s, o)) \ due # {}
      BY <2>1, <2>2, <3>1, <3>2 DEF Leaving, Read
    <3>3. CASE tx[s].op = "finalize" /\ Live(Seen(s, o)) = {} /\ o \notin Readmitting
      <4>1. ASSUME NEW w \in Users \ asked PROVE w \notin Live(member[o])
        <5>1. o \in Orgs /\ w # tx[s].on
          BY <2>4, <2>5, <3>3 DEF Stops
        <5>2. Seen(s, o)[w] = member[o][w]
          BY <5>1, SeenFacts
        <5> QED
          BY <3>3, <5>2 DEF Live
      <4>2. o \notin Readmitting'
        BY <1>1, <3>3, <4>1
      <4> QED
        BY <2>1, <2>2, <3>1, <3>3, <4>2 DEF Leaving, Read
    <3> QED
      BY <3>1, <3>2, <3>3 DEF Leaving
  <2>6. ASSUME NEW o \in tx[s].closes \ strays' PROVE Closing(s, o)'
    <3>1. Closing(s, o)
      BY <2>1, <2>6 DEF Relies
    <3>2. tx[s].on \in asked
      BY <2>4, <2>6 DEF TypeInv, TxInv, Shape
    <3>3. o \notin Readmitting'
      BY <1>1, <3>1, <3>2 DEF Closing
    <3> QED
      BY <2>1, <3>1, <3>3 DEF Closing, Read
  <2> QED
    BY <2>1, <2>3, <2>5, <2>6 DEF Relies, Comes, Read
<1>4. ASSUME NEW o \in Orgs \ strays' PROVE Kept(o)'
  <2>1. Kept(o)
    BY <1>4 DEF OrgInv
  <2> QED
    BY <1>1, <2>1 DEF Kept, Closed, Read
<1> QED
  BY <1>2, <1>3, <1>4 DEF OrgInv

LEMMA OverOrg ==
  ASSUME TypeInv, OrgInv, NEW t \in Tabs, Over(t), UNCHANGED Read, strays' = strays
  PROVE  OrgInv'
<1>1. Holding(t)' /\ Relies(t)'
  BY IdleFields DEF Over, Holding, Relies, Comes, At
<1> QED
  BY <1>1, IdleFields, OneMoves DEF Over

LEMMA RefusedOrg ==
  ASSUME TypeInv, OrgInv, NEW t \in Tabs, Refused(t)
  PROVE  OrgInv'
BY OverOrg, EndFacts DEF Refused, tables, Read

LEMMA BeginOrg ==
  ASSUME TypeInv, OrgInv, NEW t \in Tabs, Request(t) \/ PickDue(t)
  PROVE  OrgInv'
<1>1. PICK op \in Ops \ {"idle"}, who \in Users, org \in Orgs \cup {Nobody}, on \in Users,
           role \in Roles :
        /\ Begins(t, op, who, org, on, role)
        /\ op = "readmit" => Signed(who) /\ Reaches(who, org)
  BY BeginFacts
<1>2. UNCHANGED Read /\ strays' = strays
  BY <1>1 DEF Begins, tables, Read
<1>3. op = "readmit" => who \in Live(member[org]) /\ who \notin asked
  BY <1>1 DEF Signed, Reaches, Live
<1>4. Holding(t)'
  BY <1>1 DEF Begins, Holding, At
<1>5. Relies(t)'
  BY <1>1, <1>2, <1>3 DEF Begins, Relies, Comes, Read
<1> QED
  BY <1>1, <1>2, <1>3, <1>4, <1>5, OneMoves DEF Begins

\* A step of one transaction before its commit.
LEMMA WentOrg ==
  ASSUME TypeInv, OrgInv, NEW t \in Tabs, NEW pc, NEW role, NEW wrote, NEW closes, NEW seats,
         Went(t, pc, role, wrote, closes, seats), UNCHANGED Read, strays \subseteq strays',
         Holding(t)', Relies(t)'
  PROVE  OrgInv'
BY OneMoves DEF Went

\* It has taken what it needed.
LEMMA Needed ==
  ASSUME NEW t
  PROVE  /\ OrgLocks(t) \subseteq Needs(t) /\ RowLocks(t) \subseteq Needs(t)
         /\ InviteLocks(t) \subseteq Needs(t) /\ UserLocks(t) \subseteq Needs(t)
BY DEF Needs

LEMMA UpdateOrg ==
  ASSUME TypeInv, OrgInv, NEW t \in Tabs, Update(t)
  PROVE  OrgInv'
<1>1. tx[t].pc = "asked" /\ tx[t].op \in Changes /\ tx[t].org \in Orgs /\ Shape(t) /\ Relies(t)
  BY TxFacts DEF Update, TypeInv, TxInv, OrgInv
<1>2. Row(tx[t].org, tx[t].on) \in Needs(t)
  <2>1. RowLocks(t) = {Row(tx[t].org, tx[t].on)}
    BY <1>1 DEF RowLocks, At, Changes
  <2> QED
    BY <2>1, Needed
<1>3. CASE Refused(t)
  BY <1>3, RefusedOrg
<1>4. CASE /\ Goes(t, [tx[t] EXCEPT !.pc = "seating", !.seats = ceiling[tx[t].org]])
           /\ tx[t].op = "readmit" /\ UNCHANGED <<tables, events>>
  <2>1. Went(t, "seating", tx[t].role, tx[t].wrote, tx[t].closes, ceiling[tx[t].org])
    BY <1>1, <1>4, SeatingFacts DEF TypeInv, TypeOK
  <2>2. UNCHANGED Read /\ strays' = strays
    BY <1>4 DEF tables, Read
  <2>3. Holding(t)'
    BY <1>1, <1>2, <1>4, <2>1 DEF Went, Holding, Shape, At
  <2>4. Relies(t)'
    BY <1>1, <1>4, <2>1, <2>2 DEF Went, Relies, Comes, Shape, Read
  <2> QED
    BY <2>1, <2>2, <2>3, <2>4, WentOrg
<1>5. CASE Writes(t, {tx[t].org}) /\ tx[t].op # "readmit" /\ UNCHANGED <<tables, events>>
  <2>1. Went(t, "written", tx[t].role, {tx[t].org}, tx[t].closes, tx[t].seats)
    BY <1>1, <1>5, WritesFacts
  <2>2. UNCHANGED Read /\ strays' = strays
    BY <1>5 DEF tables, Read
  <2>3. Holding(t)'
    BY <1>1, <1>2, <1>5, <2>1 DEF Went, Holding, At, Changes
  <2>4. Relies(t)'
    BY <1>1, <1>5, <2>1 DEF Went, Relies, Comes, Shape, Changes
  <2> QED
    BY <2>1, <2>2, <2>3, <2>4, WentOrg
<1> QED
  BY <1>3, <1>4, <1>5 DEF Update

LEMMA AcceptOrg ==
  ASSUME TypeInv, OrgInv, NEW t \in Tabs,
         AcceptLock(t) \/ AcceptCheck(t) \/ AcceptInsert(t) \/ Upsert(t) \/ Seat(t)
  PROVE  OrgInv'
<1>1. Shape(t) /\ Holding(t) /\ Relies(t)
  BY DEF TypeInv, TxInv, OrgInv
<1>2. UNCHANGED tables => UNCHANGED Read /\ strays' = strays
  BY DEF tables, Read
<1>3. CASE Refused(t)
  BY <1>3, RefusedOrg
<1>4. CASE AcceptLock(t) /\ ~Refused(t)
  <2> DEFINE i == invite[tx[t].org][tx[t].on]
  <2>1. At(t, "accept", "asked") /\ Goes(t, [tx[t] EXCEPT !.pc = "held", !.role = i.role])
        /\ UNCHANGED <<tables, events>> /\ i.state = "open"
    BY <1>4 DEF AcceptLock
  <2>2. i.role \in Roles
    BY <2>1, TxFacts DEF At, TypeInv, TypeOK
  <2>3. Went(t, "held", i.role, tx[t].wrote, tx[t].closes, tx[t].seats)
    BY <2>1, <2>2, AcceptLockFacts
  <2>4. InviteRow(tx[t].org, tx[t].on) \in Needs(t)
    BY <2>1, Needed DEF InviteLocks, At
  <2>5. Holding(t)'
    BY <1>1, <1>2, <2>1, <2>3, <2>4 DEF Went, Holding, Shape, At, Read
  <2>6. Relies(t)'
    BY <1>1, <2>1, <2>3 DEF Went, Relies, Comes, Shape, At
  <2> QED
    BY <1>2, <2>1, <2>3, <2>5, <2>6, WentOrg
<1>5. CASE AcceptCheck(t) /\ ~Refused(t)
  <2>1. At(t, "accept", "held") /\ To(t, "clear") /\ UNCHANGED <<tables, events>>
        /\ Staying(member[tx[t].org]) # {}
    BY <1>5 DEF AcceptCheck
  <2>2. Went(t, "clear", tx[t].role, tx[t].wrote, tx[t].closes, tx[t].seats)
    BY <2>1, ToFacts DEF Steps
  <2>3. Owners(member[tx[t].org]) \ due # {}
    BY <2>1 DEF Staying, TypeInv, TypeOK
  <2>4. Holding(t)'
    BY <1>1, <1>2, <2>1, <2>2 DEF Went, Holding, Shape, At, Read
  <2>5. Relies(t)'
    BY <1>1, <1>2, <2>1, <2>2, <2>3 DEF Went, Relies, Comes, Shape, At, Read
  <2> QED
    BY <1>2, <2>1, <2>2, <2>4, <2>5, WentOrg
<1>6. CASE AcceptInsert(t)
  <2>1. At(t, "accept", "clear") /\ UNCHANGED <<tables, events>> /\ tx[t].org \in Orgs
    BY <1>6, TxFacts DEF AcceptInsert, At
  <2>2. ASSUME NEW pc \in {"seating", "written"}, NEW seats,
               Went(t, pc, tx[t].role, {}, tx[t].closes, seats)
        PROVE  OrgInv'
    <3>1. Holding(t)'
      BY <1>1, <1>2, <2>1, <2>2 DEF Went, Holding, At, Read
    <3>2. Relies(t)'
      BY <1>1, <1>2, <2>1, <2>2 DEF Went, Relies, Comes, Shape, At, Read
    <3> QED
      BY <1>2, <2>1, <2>2, <3>1, <3>2, WentOrg
  <2>3. CASE Writes(t, {})
    BY <2>2, <2>3, WritesFacts
  <2>4. CASE Goes(t, [tx[t] EXCEPT !.pc = "seating", !.seats = ceiling[tx[t].org]])
    <3>1. Went(t, "seating", tx[t].role, tx[t].wrote, tx[t].closes, ceiling[tx[t].org])
      BY <2>1, <2>4, SeatingFacts DEF TypeInv, TypeOK
    <3>2. tx[t].wrote = {}
      BY <1>1, <2>1 DEF Shape, At
    <3> QED
      BY <2>2, <3>1, <3>2
  <2> QED
    BY <1>6, <2>3, <2>4 DEF AcceptInsert
<1>7. ASSUME tx[t].op \in {"accept", "readmit"}, tx[t].pc \in {"seating", "upsert"},
             tx[t].org \in Orgs, Writes(t, {tx[t].org}), UNCHANGED tables,
             Row(tx[t].org, tx[t].on) \in tx[t].holds \cup Needs(t)
      PROVE  OrgInv'
  <2>1. Went(t, "written", tx[t].role, {tx[t].org}, tx[t].closes, tx[t].seats)
    BY <1>7, WritesFacts
  <2>2. Holding(t)'
    BY <1>1, <1>2, <1>7, <2>1 DEF Went, Holding, At, Read
  <2>3. Relies(t)'
    BY <1>1, <1>2, <1>7, <2>1 DEF Went, Relies, Comes, Shape, Read
  <2> QED
    BY <1>2, <1>7, <2>1, <2>2, <2>3, WentOrg
<1>8. CASE Upsert(t) /\ ~Refused(t)
  <2>1. tx[t].op = "accept" /\ tx[t].org \in Orgs /\ tx[t].pc = "upsert"
    BY <1>1, <1>8, TxFacts DEF Upsert, Shape
  <2>2. RowLocks(t) = {Row(tx[t].org, tx[t].on)}
    BY <2>1 DEF RowLocks, At
  <2> QED
    BY <1>7, <1>8, <2>1, <2>2, Needed DEF Upsert
<1>9. CASE Seat(t) /\ ~Refused(t)
  <2>1. tx[t].op \in {"accept", "readmit"} /\ tx[t].pc = "seating" /\ tx[t].org \in Orgs
        /\ UNCHANGED tables
    BY <1>9, TxFacts DEF Seat, Changes
  <2>2. CASE Writes(t, {tx[t].org}) /\ tx[t].op = "readmit"
    <3>1. Row(tx[t].org, tx[t].on) \in tx[t].holds
      BY <1>1, <2>1, <2>2 DEF Holding, At
    <3> QED
      BY <1>7, <2>1, <2>2, <3>1
  <2>3. CASE To(t, "upsert") /\ tx[t].op = "accept"
    <3>1. Went(t, "upsert", tx[t].role, tx[t].wrote, tx[t].closes, tx[t].seats)
      BY <2>3, ToFacts DEF Steps
    <3>2. Holding(t)'
      BY <1>1, <1>2, <2>1, <2>3, <3>1 DEF Went, Holding, Shape, At, Read
    <3>3. Relies(t)'
      BY <1>1, <1>2, <2>1, <2>3, <3>1 DEF Went, Relies, Comes, Shape, Read
    <3> QED
      BY <1>2, <2>1, <3>1, <3>2, <3>3, WentOrg
  <2> QED
    BY <1>9, <2>1, <2>2, <2>3 DEF Seat
<1> QED
  BY <1>3, <1>4, <1>5, <1>6, <1>8, <1>9

LEMMA LeaveOrg ==
  ASSUME TypeInv, OrgInv, NEW t \in Tabs, LeaveLock(t) \/ LeaveCheck(t)
  PROVE  OrgInv'
<1>1. Shape(t) /\ Holding(t) /\ Relies(t) /\ tx[t].org \in Orgs /\ tx[t].op = "leave"
  BY TxFacts DEF TypeInv, TxInv, OrgInv, LeaveLock, LeaveCheck, At
<1>2. UNCHANGED tables => UNCHANGED Read /\ strays' = strays
  BY DEF tables, Read
<1>3. CASE Refused(t)
  BY <1>3, RefusedOrg
<1>4. CASE LeaveLock(t)
  <2>1. At(t, "leave", "asked") /\ To(t, "held") /\ UNCHANGED tables
    BY <1>4 DEF LeaveLock
  <2>2. Went(t, "held", tx[t].role, tx[t].wrote, tx[t].closes, tx[t].seats)
    BY <2>1, ToFacts DEF Steps
  <2>3. RowLocks(t) = RowsOf(tx[t].on)
    BY <2>1 DEF RowLocks, At, Changes
  <2>4. \A o \in Orgs : member[o][tx[t].on].live => Row(o, tx[t].on) \in Needs(t)
    BY <2>3, Needed DEF RowsOf
  <2>5. Holding(t)'
    BY <1>1, <1>2, <2>1, <2>2, <2>4 DEF Went, Holding, Shape, At, Read
  <2>6. Relies(t)'
    BY <1>1, <1>2, <2>1, <2>2 DEF Went, Relies, Comes, Shape, At, Read
  <2> QED
    BY <1>2, <2>1, <2>2, <2>5, <2>6, WentOrg
<1>5. CASE LeaveCheck(t) /\ ~Refused(t)
  <2>1. /\ At(t, "leave", "held") /\ Writes(t, {tx[t].org}) /\ UNCHANGED tables
        /\ member[tx[t].org][tx[t].on].live
        /\ \E o \in Orgs \ {tx[t].org} : member[o][tx[t].on].live
    BY <1>5 DEF LeaveCheck
  <2>2. Went(t, "written", tx[t].role, {tx[t].org}, tx[t].closes, tx[t].seats)
    BY <1>1, <2>1, WritesFacts
  <2>3. Row(tx[t].org, tx[t].on) \in Needs(t)
    <3>1. RowLocks(t) = RowsOf(tx[t].on) \cap {Row(tx[t].org, tx[t].on)}
      BY <2>1 DEF RowLocks, At, Changes
    <3>2. Row(tx[t].org, tx[t].on) \in RowsOf(tx[t].on)
      BY <1>1, <2>1 DEF RowsOf
    <3> QED
      BY <3>1, <3>2, Needed
  <2>4. ~tx[t].came => \E o \in Orgs \ {tx[t].org} :
          member[o][tx[t].on].live /\ Row(o, tx[t].on) \in tx[t].holds
    BY <1>1, <2>1 DEF Holding
  <2>5. Holding(t)'
    BY <1>1, <1>2, <2>1, <2>2, <2>3, <2>4 DEF Went, Holding, At, Read
  <2>6. Relies(t)'
    BY <1>1, <1>2, <2>1, <2>2 DEF Went, Relies, Comes, Shape, At, Read
  <2> QED
    BY <1>2, <2>1, <2>2, <2>5, <2>6, WentOrg
<1> QED
  BY <1>3, <1>4, <1>5

LEMMA FinalizeOrg ==
  ASSUME TypeInv, OrgInv, NEW t \in Tabs,
         \/ RequestOrgs(t) \/ RequestCheck(t) \/ Requested(t)
         \/ FinalizeLock(t) \/ FinalizeCheck(t) \/ FinalizeWrite(t)
  PROVE  OrgInv'
<1>1. Shape(t) /\ Holding(t) /\ Relies(t)
  BY DEF TypeInv, TxInv, OrgInv
<1>2. UNCHANGED tables => UNCHANGED Read /\ strays' = strays
  BY DEF tables, Read
<1>3. CASE Refused(t)
  BY <1>3, RefusedOrg
<1>4. ASSUME NEW pc \in {"held", "clear"}, To(t, pc), UNCHANGED tables,
             tx[t].op \in {"request", "finalize"}, tx[t].pc \notin {"written", "guarded"},
             tx[t].op = "finalize" =>
               UserRow(tx[t].on) \in tx[t].holds \cup Needs(t) /\ tx[t].on \in due \ gone
      PROVE  OrgInv'
  <2>1. Went(t, pc, tx[t].role, tx[t].wrote, tx[t].closes, tx[t].seats)
    BY <1>4, ToFacts DEF Steps
  <2>2. Holding(t)'
    BY <1>1, <1>2, <1>4, <2>1 DEF Went, Holding, Shape, At, Read
  <2>3. Relies(t)'
    BY <1>1, <1>2, <1>4, <2>1 DEF Went, Relies, Comes, Shape, Read
  <2> QED
    BY <1>2, <1>4, <2>1, <2>2, <2>3, WentOrg
<1>5. CASE RequestOrgs(t) \/ (RequestCheck(t) /\ ~Refused(t))
  BY <1>4, <1>5 DEF RequestOrgs, RequestCheck, At
<1>6. CASE Requested(t)
  BY <1>6, OverOrg, EndFacts DEF Requested, Read
<1>7. CASE FinalizeLock(t) /\ ~Refused(t)
  <2>1. UserRow(tx[t].on) \in Needs(t)
    BY <1>7, Needed DEF FinalizeLock, UserLocks, At
  <2> QED
    BY <1>4, <1>7, <2>1 DEF FinalizeLock, At
<1>8. CASE FinalizeCheck(t) /\ ~Refused(t)
  BY <1>1, <1>4, <1>8 DEF FinalizeCheck, Holding, At
<1>9. CASE FinalizeWrite(t)
  <2> DEFINE on == tx[t].on
             wrote == {o \in Orgs : member[o][on].live}
  <2>1. Went(t, "written", tx[t].role, wrote, Sole(t), tx[t].seats)
    BY <1>9, FinalizeWriteFacts
  <2>2. /\ At(t, "finalize", "clear") /\ on \in Users /\ UNCHANGED Read
        /\ strays' = strays \cup (Sole(t) \cap Readmitting)
    BY <1>9, TxFacts DEF FinalizeWrite, At, Read, people
  <2>3. \A o \in wrote : Row(o, on) \in Needs(t)
    <3>1. RowLocks(t) = RowsOf(on)
      BY <2>2 DEF RowLocks, At, Changes
    <3> QED
      BY <3>1, Needed DEF RowsOf
  <2>4. /\ \A o \in Orgs : InviteRow(o, on) \in Needs(t)
        /\ \A o \in Sole(t), u \in Users : InviteRow(o, u) \in Needs(t)
    <3>1. InviteLocks(t) = {InviteRow(o, u) : o \in Sole(t), u \in Users}
                           \cup {InviteRow(o, on) : o \in Orgs}
      BY <2>2 DEF InviteLocks, At
    <3> QED
      BY <3>1, Needed
  <2>5. \A o \in Sole(t) : Live(member[o]) = {on}
    BY DEF Sole
  <2>6. Readmitting' = Readmitting
    <3>1. tx'[t].op # "readmit" /\ tx[t].op # "readmit"
      BY <2>1, <2>2 DEF Went, At
    <3> QED
      BY <2>1, <3>1 DEF Went, Readmitting
  <2> HIDE DEF wrote
  <2>7. Holding(t)'
    BY <1>1, <2>1, <2>2, <2>3, <2>4 DEF Went, Holding, At, Read
  <2>8. Relies(t)'
    BY <2>1, <2>2, <2>5, <2>6 DEF Went, Relies, Comes, Closing, At, Read
  <2> QED
    BY <2>1, <2>2, <2>7, <2>8, WentOrg
<1> QED
  BY <1>3, <1>5, <1>6, <1>7, <1>8, <1>9

LEMMA GuardOrg ==
  ASSUME TypeInv, OrgInv, NEW t \in Tabs, Guard(t)
  PROVE  OrgInv'
<1>1. Shape(t) /\ Holding(t) /\ Relies(t)
  BY DEF TypeInv, TxInv, OrgInv
<1>2. CASE Refused(t)
  BY <1>2, RefusedOrg
<1>3. CASE ~Refused(t)
  <2>1. /\ tx[t].pc = "written" /\ To(t, "guarded") /\ UNCHANGED Read
        /\ \A o \in Stops(t) : \/ Staying(Seen(t, o)) # {}
                               \/ tx[t].op = "finalize" /\ Live(Seen(t, o)) = {}
        /\ strays' = strays \cup {o \in Stops(t) \cap Readmitting : Live(Seen(t, o)) = {}}
    BY <1>3 DEF Guard, Read, people
  <2>2. Went(t, "guarded", tx[t].role, tx[t].wrote, tx[t].closes, tx[t].seats)
    BY <2>1, ToFacts DEF Steps
  <2>3. \A o : Seen(t, o)' = Seen(t, o)
    BY <2>1, <2>2 DEF Went, Seen, Written, Read
  <2>4. Stops(t)' = Stops(t)
    BY <2>1, <2>2, <2>3 DEF Went, Stops, Read
  <2>5. \A o \in Stops(t) : OrgLock(o) \in Needs(t)
    <3>1. OrgLocks(t) = {OrgLock(o) : o \in Stops(t)}
      BY <2>1 DEF OrgLocks, At
    <3> QED
      BY <3>1, Needed
  <2>6. Readmitting' = Readmitting
    BY <2>2 DEF Went, Readmitting
  <2>7. ASSUME NEW o \in Stops(t) \ strays' PROVE Leaving(t, o)'
    <3>1. OrgLock(o) \in tx'[t].holds
      BY <2>2, <2>5, <2>7 DEF Went
    <3>2. CASE Staying(Seen(t, o)) # {}
      <4>1. Owners(Seen(t, o)) \ due # {}
        BY <3>2 DEF Staying, TypeInv, TypeOK
      <4> QED
        BY <2>1, <2>3, <3>1, <4>1 DEF Leaving, Read
    <3>3. CASE tx[t].op = "finalize" /\ Live(Seen(t, o)) = {}
      <4>1. o \notin Readmitting
        BY <2>1, <2>7, <3>3
      <4> QED
        BY <2>2, <2>3, <2>6, <3>1, <3>3, <4>1 DEF Leaving, Went
    <3> QED
      BY <2>1, <2>7, <3>2, <3>3
  <2>8. Holding(t)'
    BY <1>1, <2>1, <2>2 DEF Went, Holding, At, Read
  <2>9. Relies(t)'
    <3>1. ASSUME NEW o \in tx[t].closes \ strays' PROVE Closing(t, o)'
      BY <1>1, <2>1, <2>2, <2>6, <3>1 DEF Went, Relies, Closing, Read
    <3> QED
      BY <1>1, <2>1, <2>2, <2>4, <2>7, <3>1 DEF Went, Relies, Comes, Read
  <2> QED
    BY <2>1, <2>2, <2>8, <2>9, WentOrg
<1> QED
  BY <1>2, <1>3

\* Requests of one statement, and time.
LEMMA OthersOrg ==
  ASSUME TypeInv, OrgInv, Invite \/ Answer \/ Keep \/ SetPlan \/ Expire \/ Lapse \/ Forget
  PROVE  OrgInv'
<1>1. ASSUME UNCHANGED <<member, gone, closed, strays, tx>>,
             \A s \in Tabs : Holding(s)',
             \A o \in Orgs \ strays : Kept(o)',
             due' \subseteq due
      PROVE  OrgInv'
  <2>1. ASSUME NEW s \in Tabs PROVE Relies(s)'
    <3>1. Relies(s)
      BY DEF OrgInv
    <3>2. \A o : Seen(s, o)' = Seen(s, o)
      BY <1>1 DEF Seen, Written
    <3>3. Stops(s)' = Stops(s) /\ Readmitting' = Readmitting
      BY <1>1, <3>2 DEF Stops, Readmitting
    <3>4. \A o : Leaving(s, o) => Leaving(s, o)'
      BY <1>1, <3>2, <3>3 DEF Leaving
    <3>5. \A o : Closing(s, o) => Closing(s, o)'
      BY <1>1, <3>3 DEF Closing
    <3> QED
      BY <1>1, <3>1, <3>3, <3>4, <3>5 DEF Relies, Comes
  <2> QED
    BY <1>1, <2>1 DEF OrgInv
<1>2. ASSUME UNCHANGED <<member, closed, tx, invite>>, NEW o \in Orgs \ strays PROVE Kept(o)'
  <2>1. Kept(o)
    BY <1>2 DEF OrgInv
  <2> QED
    BY <1>2, <2>1 DEF Kept, Closed, Readmitting
<1>3. CASE Invite \/ Answer \/ Expire
  <2>1. PICK o \in Orgs, u \in Users :
          /\ \A p \in Orgs, v \in Users : p # o \/ v # u => invite'[p][v] = invite[p][v]
          /\ \/ Live(member[o]) # {} /\ invite[o][u].state \notin {"open", "expired"}
             \/ Unlocked(InviteRow(o, u)) /\ invite[o][u].state \in {"open", "expired"}
          /\ UNCHANGED <<member, due, gone, closed, strays, tx>>
    <3>1. CASE Invite
      <4>1. PICK w, u \in Users, o \in Orgs, r \in Roles \ {"owner"} :
              /\ Reaches(w, o) /\ invite[o][u].state \notin {"open", "expired"}
              /\ invite' = [invite EXCEPT ![o][u] = [state |-> "open", role |-> r]]
        BY <3>1 DEF Invite
      <4>2. w \in Live(member[o])
        BY <4>1 DEF Reaches, Live
      <4>3. \A p \in Orgs, v \in Users : p # o \/ v # u => invite'[p][v] = invite[p][v]
        BY <4>1 DEF TypeInv, TypeOK
      <4> QED
        BY <3>1, <4>1, <4>2, <4>3 DEF Invite, people
    <3>2. CASE Answer \/ Expire
      <4>1. PICK u \in Users, o \in Orgs, st \in States :
              /\ Unlocked(InviteRow(o, u)) /\ invite[o][u].state \in {"open", "expired"}
              /\ invite' = [invite EXCEPT ![o][u].state = st]
        BY <3>2 DEF Answer, Expire, States
      <4>2. \A p \in Orgs, v \in Users : p # o \/ v # u => invite'[p][v] = invite[p][v]
        BY <4>1 DEF TypeInv, TypeOK
      <4> QED
        BY <3>2, <4>1, <4>2 DEF Answer, Expire, people
    <3> QED
      BY <1>3, <3>1, <3>2
  <2>2. ASSUME NEW s \in Tabs PROVE Holding(s)'
    <3>1. Holding(s)
      BY DEF OrgInv
    <3>2. tx[s].op = "accept" /\ tx[s].pc # "asked" => tx[s].org \in Orgs /\ tx[s].on \in Users
      BY DEF TypeInv, TxInv, Shape
    <3>3. tx[s].op = "accept" /\ tx[s].pc # "asked" => tx[s].org # o \/ tx[s].on # u
      BY <2>1, <3>1 DEF Holding, Unlocked
    <3> QED
      BY <2>1, <3>1, <3>2, <3>3 DEF Holding, At
  <2>3. ASSUME NEW p \in Orgs \ strays PROVE Kept(p)'
    <3>1. Kept(p)
      BY <2>3 DEF OrgInv
    <3>2. p \in closed => p # o
      BY <2>1, <3>1 DEF Kept, Closed
    <3> QED
      BY <2>1, <3>1, <3>2 DEF Kept, Closed, Readmitting
  <2> QED
    BY <1>1, <2>1, <2>2, <2>3
<1>4. CASE Keep \/ Forget
  <2>1. PICK u \in Users :
          /\ Unlocked(UserRow(u)) \/ u \in gone
          /\ due' = due \ {u}
          /\ UNCHANGED <<member, invite, gone, closed, strays, tx>>
    BY <1>4 DEF Keep, Forget, TypeInv, TypeOK
  <2>2. ASSUME NEW s \in Tabs PROVE Holding(s)'
    <3>1. Holding(s)
      BY DEF OrgInv
    <3>2. tx[s].op = "finalize" /\ tx[s].pc # "asked" => tx[s].on # u
      BY <2>1, <3>1 DEF Holding, Unlocked
    <3> QED
      BY <2>1, <3>1, <3>2 DEF Holding, At
  <2> QED
    BY <1>1, <1>2, <2>1, <2>2
<1>5. CASE Lapse
  <2>1. /\ \A s \in Tabs : tx[s].op = "idle"
        /\ UNCHANGED <<member, invite, gone, closed, strays, tx>>
    BY <1>5 DEF Lapse
  <2>2. ASSUME NEW s \in Tabs PROVE Holding(s)' /\ Relies(s)'
    <3>1. tx'[s].op = "idle" /\ tx'[s].pc = "idle" /\ tx'[s].wrote = {} /\ tx'[s].closes = {}
      BY <2>1 DEF TypeInv, TxInv, Shape
    <3> QED
      BY <3>1 DEF Holding, Relies, Comes, At
  <2> QED
    BY <1>2, <2>1, <2>2 DEF OrgInv
<1>6. CASE SetPlan
  <2>1. UNCHANGED <<member, invite, due, gone, closed, strays>>
    BY <1>6 DEF SetPlan, people
  <2>2. \A s \in Tabs :
          /\ tx'[s].op = tx[s].op /\ tx'[s].pc = tx[s].pc /\ tx'[s].org = tx[s].org
          /\ tx'[s].on = tx[s].on /\ tx'[s].role = tx[s].role /\ tx'[s].holds = tx[s].holds
          /\ tx'[s].wrote = tx[s].wrote /\ tx'[s].closes = tx[s].closes
          /\ tx'[s].came = tx[s].came
    BY <1>6, SetPlanFacts
  <2>3. Readmitting' = Readmitting
    BY <2>2 DEF Readmitting
  <2>4. ASSUME NEW s \in Tabs PROVE Holding(s)' /\ Relies(s)'
    <3>1. Holding(s) /\ Relies(s)
      BY DEF OrgInv
    <3>2. \A o : Seen(s, o)' = Seen(s, o)
      BY <2>1, <2>2 DEF Seen, Written
    <3>3. Stops(s)' = Stops(s)
      BY <2>1, <2>2, <3>2 DEF Stops
    <3>4. \A o : Leaving(s, o) => Leaving(s, o)'
      BY <2>1, <2>2, <2>3, <3>2 DEF Leaving
    <3>5. \A o : Closing(s, o) => Closing(s, o)'
      BY <2>1, <2>2, <2>3 DEF Closing
    <3>6. Holding(s)'
      BY <2>1, <2>2, <3>1 DEF Holding, At
    <3> QED
      BY <2>1, <2>2, <3>1, <3>3, <3>4, <3>5, <3>6 DEF Relies, Comes
  <2>5. ASSUME NEW o \in Orgs \ strays PROVE Kept(o)'
    <3>1. Kept(o)
      BY <2>5 DEF OrgInv
    <3> QED
      BY <2>1, <2>3, <3>1 DEF Kept, Closed
  <2> QED
    BY <2>1, <2>4, <2>5 DEF OrgInv
<1> QED
  BY <1>3, <1>4, <1>5, <1>6

-----------------------------------------------------------------------------
(* What others may rely on at a commit *)

\* What the commit makes of an invitation.
LEMMA InvitesFacts ==
  ASSUME TypeInv, NEW t \in Tabs, NEW o \in Orgs, NEW u \in Users
  PROVE  /\ Invites(t)[o][u].state \in {"open", "expired"} =>
              /\ Invites(t)[o][u] = invite[o][u]
              /\ ~(tx[t].op = "finalize" /\ (u = tx[t].on \/ o \in tx[t].closes))
         /\ \/ Invites(t)[o][u] = invite[o][u]
            \/ tx[t].op = "accept" /\ o = tx[t].org /\ u = tx[t].on
            \/ tx[t].op = "finalize" /\ (u = tx[t].on \/ o \in tx[t].closes)
         /\ tx[t].op = "accept" /\ o = tx[t].org /\ u = tx[t].on =>
              Invites(t)[o][u].state = "accepted" /\ Invites(t)[o][u].role = invite[o][u].role
<1> DEFINE x == tx[t]
<1>1. Invites(t)[o][u] =
        CASE x.op = "accept" /\ o = x.org /\ u = x.on -> [invite[o][u] EXCEPT !.state = "accepted"]
          [] x.op = "finalize" /\ u = x.on -> NoInvite
          [] x.op = "finalize" /\ u # x.on /\ o \in x.closes
               /\ invite[o][u].state \in {"open", "expired"}
               -> [invite[o][u] EXCEPT !.state = "revoked"]
          [] OTHER -> invite[o][u]
  BY DEF Invites
<1>2. /\ [invite[o][u] EXCEPT !.state = "accepted"].state = "accepted"
      /\ [invite[o][u] EXCEPT !.state = "accepted"].role = invite[o][u].role
      /\ [invite[o][u] EXCEPT !.state = "revoked"].state = "revoked"
      /\ NoInvite.state = "none"
  BY DEF NoInvite, TypeInv, TypeOK
<1>3. CASE x.op = "accept" /\ o = x.org /\ u = x.on
  <2>1. Invites(t)[o][u] = [invite[o][u] EXCEPT !.state = "accepted"]
    BY <1>1, <1>3
  <2> QED
    BY <1>2, <1>3, <2>1
<1>4. CASE x.op = "finalize" /\ u = x.on
  <2>1. Invites(t)[o][u] = NoInvite
    BY <1>1, <1>4
  <2> QED
    BY <1>2, <1>4, <2>1
<1>5. CASE x.op = "finalize" /\ u # x.on /\ o \in x.closes /\ invite[o][u].state \in {"open", "expired"}
  <2>1. Invites(t)[o][u] = [invite[o][u] EXCEPT !.state = "revoked"]
    BY <1>1, <1>5
  <2> QED
    BY <1>2, <1>5, <2>1
<1>6. CASE /\ ~(x.op = "accept" /\ o = x.org /\ u = x.on) /\ ~(x.op = "finalize" /\ u = x.on)
           /\ ~(x.op = "finalize" /\ u # x.on /\ o \in x.closes
                /\ invite[o][u].state \in {"open", "expired"})
  <2>1. Invites(t)[o][u] = invite[o][u]
    BY <1>1, <1>6
  <2> QED
    BY <1>6, <2>1
<1> QED
  BY <1>3, <1>4, <1>5, <1>6

\* Somebody comes in by an acceptance or a re-admission.
LEMMA EntersHow ==
  ASSUME TypeInv, NEW t \in Tabs, tx[t].pc = "guarded", NEW o \in Orgs,
         NEW v \in Live(Seen(t, o)) \ Live(member[o])
  PROVE  /\ v = tx[t].on /\ o \in tx[t].wrote /\ o = tx[t].org
         /\ tx[t].op \in {"accept", "readmit"}
<1>1. v = tx[t].on /\ o \in tx[t].wrote /\ Seen(t, o)[v] = Written(t, o)
  BY SeenFacts DEF Live
<1>2. member[o][v] \in Rows /\ ~member[o][v].live /\ Written(t, o).live
  BY <1>1 DEF Live, TypeInv, TypeOK
<1>3. tx[t].op \in {"accept", "readmit"}
  <2>1. CASE tx[t].op = "role"
    <3>1. Written(t, o) = [member[o][tx[t].on] EXCEPT !.role = tx[t].role]
      BY <2>1 DEF Written
    <3> QED
      BY <1>1, <1>2, <3>1 DEF Rows
  <2>2. CASE tx[t].op \notin {"role", "accept", "readmit"}
    <3>1. Written(t, o) = [member[o][tx[t].on] EXCEPT !.live = FALSE]
      BY <2>2 DEF Written
    <3> QED
      BY <1>1, <1>2, <3>1 DEF Rows
  <2> QED
    BY <2>1, <2>2
<1> QED
  BY <1>1, <1>3 DEF TypeInv, TxInv, Shape

\* Owners stay where the commit makes nobody stop being one.
LEMMA OwnersStay ==
  ASSUME TypeInv, NEW t \in Tabs, NEW o \in Orgs, o \notin Stops(t)
  PROVE  Owners(member[o]) \subseteq Owners(Seen(t, o))
BY SeenFacts DEF Stops, Owners, Live

\* A commit leaves the rows and invitations others hold.
LEMMA RowStays ==
  ASSUME TypeInv, LockInv, OrgInv, NEW t \in Tabs, Commit(t), NEW s \in Tabs \ {t},
         NEW o \in Orgs, NEW u \in Users, Row(o, u) \in tx[s].holds
  PROVE  member'[o][u] = member[o][u]
<1>1. member'[o] = Seen(t, o)
  BY DEF Commit
<1>2. CASE u = tx[t].on /\ o \in tx[t].wrote
  <2>1. Row(o, u) \in tx[t].holds
    BY <1>2 DEF OrgInv, Holding
  <2> QED
    BY <2>1 DEF LockInv
<1> QED
  BY <1>1, <1>2, SeenFacts

LEMMA InviteStays ==
  ASSUME TypeInv, LockInv, OrgInv, NEW t \in Tabs, Commit(t), NEW s \in Tabs \ {t},
         NEW o \in Orgs, NEW u \in Users, InviteRow(o, u) \in tx[s].holds
  PROVE  invite'[o][u] = invite[o][u]
<1>1. invite' = Invites(t) /\ tx[t].pc = "guarded" /\ Holding(t)
  BY DEF Commit, OrgInv
<1>2. InviteRow(o, u) \notin tx[t].holds
  BY DEF LockInv
<1> QED
  BY <1>1, <1>2, InvitesFacts DEF Holding

\* Others' memberships, as they see them after the commit.
LEMMA SeenAfter ==
  ASSUME TypeInv, LockInv, OrgInv, NEW t \in Tabs, Commit(t), NEW s \in Tabs \ {t}, NEW o \in Orgs
  PROVE  /\ \A u \in Users : u # tx[s].on => Seen(s, o)'[u] = member'[o][u]
         /\ o \notin tx[s].wrote => Seen(s, o)' = member'[o]
         /\ o \in tx[s].wrote =>
              /\ tx[s].on \in Users
              /\ member'[o][tx[s].on] = member[o][tx[s].on]
              /\ Seen(s, o)'[tx[s].on] = Seen(s, o)[tx[s].on]
<1>1. /\ tx'[s].wrote = tx[s].wrote /\ tx'[s].on = tx[s].on /\ tx'[s].op = tx[s].op
      /\ tx'[s].role = tx[s].role
  BY CommitFacts
<1>2. member'[o] \in [Users -> Rows]
  BY SeenFacts DEF Commit
<1>3. CASE o \notin tx[s].wrote
  BY <1>1, <1>3 DEF Seen
<1>4. CASE o \in tx[s].wrote
  <2>1. Row(o, tx[s].on) \in tx[s].holds /\ tx[s].on \in Users
    BY <1>4 DEF OrgInv, Holding, TypeInv, TxInv, Shape
  <2>2. member'[o][tx[s].on] = member[o][tx[s].on]
    BY <2>1, RowStays
  <2>3. Written(s, o)' = Written(s, o)
    BY <1>1, <2>2 DEF Written
  <2>4. Seen(s, o)' = [member'[o] EXCEPT ![tx[s].on] = Written(s, o)]
    BY <1>1, <1>4, <2>3 DEF Seen
  <2>5. Seen(s, o)[tx[s].on] = Written(s, o)
    BY <1>4, SeenFacts
  <2> QED
    BY <1>2, <1>4, <2>1, <2>2, <2>4, <2>5
<1> QED
  BY <1>3, <1>4

\* An Org an acceptance relies on keeps an Owner who is staying.
LEMMA StaysRun ==
  ASSUME TypeInv, OrgInv, NEW t \in Tabs, tx[t].pc = "guarded", NEW o \in Orgs \ strays,
         Owners(member[o]) \ due # {}
  PROVE  Owners(Seen(t, o)) \ due # {}
<1>1. PICK w \in Owners(member[o]) : w \notin due
  OBVIOUS
<1>2. CASE o \notin Stops(t)
  BY <1>1, <1>2, OwnersStay
<1>3. CASE o \in Stops(t)
  <2>1. Leaving(t, o) /\ Holding(t)
    BY <1>3 DEF OrgInv, Relies
  <2>2. CASE tx[t].op = "finalize" /\ Live(Seen(t, o)) = {}
    <3>1. w # tx[t].on
      BY <1>1, <2>1, <2>2 DEF Holding
    <3>2. w \in Live(Seen(t, o))
      BY <1>1, <3>1, SeenFacts DEF Owners, Live
    <3> QED
      BY <2>2, <3>2
  <2> QED
    BY <2>1, <2>2 DEF Leaving
<1> QED
  BY <1>2, <1>3

\* One somebody is being re-admitted to keeps somebody.
LEMMA StaysLived ==
  ASSUME TypeInv, OrgInv, NEW t \in Tabs, tx[t].pc = "guarded",
         NEW o \in (Orgs \cap Readmitting) \ strays, Live(member[o]) # {}
  PROVE  Live(Seen(t, o)) # {}
<1>1. Owners(member[o]) # {}
  BY DEF OrgInv, Kept
<1>2. CASE o \notin Stops(t)
  BY <1>1, <1>2, OwnersStay DEF Owners
<1>3. CASE o \in Stops(t)
  BY <1>3 DEF OrgInv, Relies, Leaving, Owners
<1> QED
  BY <1>2, <1>3

\* Nobody comes into an Org that nobody is in, or whose only Member is being
\* deleted, unless it is one somebody is being re-admitted to.
LEMMA NobodyComes ==
  ASSUME TypeInv, OrgInv, NEW t \in Tabs, tx[t].pc = "guarded",
         NEW o \in Orgs \ (strays \cup Readmitting), NEW u, u \in due \/ u \notin Users,
         Live(member[o]) \subseteq {u}
  PROVE  Live(Seen(t, o)) \subseteq Live(member[o])
<1>1. SUFFICES ASSUME NEW v \in Live(Seen(t, o)) \ Live(member[o]) PROVE FALSE
  OBVIOUS
<1>2. o = tx[t].org /\ tx[t].op \in {"accept", "readmit"}
  BY EntersHow
<1>3. tx[t].op = "accept"
  BY <1>2 DEF Readmitting
<1>4. Owners(member[o]) \ due # {}
  BY <1>2, <1>3 DEF OrgInv, Relies, Comes
<1> QED
  BY <1>4 DEF Owners, Live

LEMMA HoldingStays ==
  ASSUME TypeInv, LockInv, OrgInv, NEW t \in Tabs, Commit(t), NEW s \in Tabs \ {t}
  PROVE  Holding(s)'
<1> DEFINE x == tx[s]
<1>1. /\ Holding(s) /\ Holding(t) /\ Shape(s)
      /\ tx'[s].op = x.op /\ tx'[s].pc = x.pc /\ tx'[s].org = x.org /\ tx'[s].on = x.on
      /\ tx'[s].role = x.role /\ tx'[s].holds = x.holds /\ tx'[s].wrote = x.wrote
      /\ tx'[s].closes = x.closes
      /\ tx'[s].came = (x.came \/ (At(s, "leave", "held") /\ x.on = tx[t].on /\ Enters(t) # {}))
  BY CommitFacts DEF OrgInv, TypeInv, TxInv
<1>2. UNCHANGED due /\ tx[t].pc = "guarded"
      /\ gone' = IF tx[t].op = "finalize" THEN gone \cup {tx[t].on} ELSE gone
  BY DEF Commit
<1>3. x.op = "accept" /\ x.pc # "asked" =>
        /\ InviteRow(x.org, x.on) \in x.holds
        /\ invite'[x.org][x.on].state = "open" /\ invite'[x.org][x.on].role = x.role
  <2>1. SUFFICES ASSUME x.op = "accept", x.pc # "asked"
                 PROVE  /\ InviteRow(x.org, x.on) \in x.holds
                        /\ invite'[x.org][x.on] = invite[x.org][x.on]
    BY <1>1 DEF Holding
  <2>2. x.org \in Orgs /\ x.on \in Users /\ InviteRow(x.org, x.on) \in x.holds
    BY <1>1, <2>1 DEF Shape, Holding
  <2> QED
    BY <2>2, InviteStays
<1>4. x.op = "finalize" /\ x.pc # "asked" => UserRow(x.on) \in x.holds /\ x.on \in due \ gone'
  <2>1. SUFFICES ASSUME x.op = "finalize", x.pc # "asked", tx[t].op = "finalize"
                 PROVE  x.on # tx[t].on
    BY <1>1, <1>2 DEF Holding
  <2>2. UserRow(x.on) \in x.holds /\ UserRow(tx[t].on) \in tx[t].holds
    BY <1>1, <1>2, <2>1 DEF Holding
  <2> QED
    BY <2>2 DEF LockInv
<1>5. At(s, "leave", "held") /\ ~tx'[s].came =>
        \A o \in Orgs : member'[o][x.on].live => Row(o, x.on) \in x.holds
  <2>1. SUFFICES ASSUME At(s, "leave", "held"), ~tx'[s].came, NEW o \in Orgs,
                        member'[o][x.on].live, ~member[o][x.on].live
                 PROVE  FALSE
    BY <1>1 DEF Holding
  <2>2. member'[o] = Seen(t, o) /\ x.on \in Users
    BY <1>1, <2>1 DEF Commit, Shape, At
  <2>3. x.on \in Live(Seen(t, o)) \ Live(member[o])
    BY <2>1, <2>2 DEF Live
  <2>4. x.on = tx[t].on
    BY <1>2, <2>3, EntersHow
  <2>5. o \in Enters(t)
    BY <2>3, <2>4 DEF Enters
  <2> QED
    BY <1>1, <2>1, <2>4, <2>5
<1>6. x.op = "leave" /\ x.pc \in {"written", "guarded"} /\ ~x.came =>
        \E o \in Orgs \ {x.org} : member'[o][x.on].live /\ Row(o, x.on) \in x.holds
  <2>1. SUFFICES ASSUME x.op = "leave", NEW o \in Orgs, Row(o, x.on) \in x.holds
                 PROVE  member'[o][x.on] = member[o][x.on]
    BY <1>1 DEF Holding
  <2> QED
    BY <1>1, <2>1, RowStays DEF Shape
<1>7. /\ \A o \in x.wrote : Row(o, x.on) \in x.holds
      /\ At(s, "readmit", "seating") => Row(x.org, x.on) \in x.holds
      /\ x.op = "finalize" /\ x.pc \in {"written", "guarded"} =>
           /\ \A o \in Orgs : InviteRow(o, x.on) \in x.holds
           /\ \A o \in x.closes, u \in Users : InviteRow(o, u) \in x.holds
  BY <1>1 DEF Holding
<1> QED
  BY <1>1, <1>2, <1>3, <1>4, <1>5, <1>6, <1>7 DEF Holding, At

LEMMA ReliesStays ==
  ASSUME TypeInv, LockInv, OrgInv, NEW t \in Tabs, Commit(t), NEW s \in Tabs \ {t}
  PROVE  Relies(s)'
<1> DEFINE x == tx[s]
<1>1. /\ Holding(s) /\ Relies(s) /\ Shape(s)
      /\ tx'[s].op = x.op /\ tx'[s].pc = x.pc /\ tx'[s].org = x.org /\ tx'[s].on = x.on
      /\ tx'[s].holds = x.holds /\ tx'[s].wrote = x.wrote /\ tx'[s].closes = x.closes
  BY CommitFacts DEF OrgInv, TypeInv, TxInv
<1>2. /\ tx[t].pc = "guarded" /\ UNCHANGED <<due, strays>>
      /\ \A o \in Orgs : member'[o] = Seen(t, o)
  BY DEF Commit
<1>3. Readmitting' \subseteq Readmitting
  BY CommitFacts, IdleFields DEF Readmitting
<1>4. Comes(s) /\ x.org \notin strays => Owners(member'[x.org]) \ due # {}
  BY <1>1, <1>2, StaysRun DEF Relies, Comes, Shape
<1>5. x.op = "readmit" /\ x.org \notin strays => Live(member'[x.org]) # {}
  <2>1. SUFFICES ASSUME x.op = "readmit", x.org \notin strays PROVE Live(Seen(t, x.org)) # {}
    BY <1>1, <1>2 DEF Shape, Changes
  <2>2. x.org \in Orgs /\ x.org \in Readmitting /\ Live(member[x.org]) # {}
    BY <1>1, <2>1 DEF Shape, Changes, Readmitting, Relies
  <2> QED
    BY <1>2, <2>1, <2>2, StaysLived
<1>6. ASSUME x.pc = "guarded", NEW o \in Stops(s)' \ strays PROVE Leaving(s, o)'
  <2>1. /\ o \in Orgs /\ x.on \in Owners(member'[o]) /\ x.on \notin Owners(Seen(s, o)')
    BY <1>1, <1>6 DEF Stops, Owners, Live
  <2>2. o \in x.wrote
    BY <2>1, SeenAfter DEF Owners, Live
  <2>3. /\ member'[o][x.on] = member[o][x.on]
        /\ Seen(s, o)'[x.on] = Seen(s, o)[x.on]
    BY <2>1, <2>2, SeenAfter
  <2>4. o \in Stops(s)
    BY <2>1, <2>3 DEF Stops, Owners, Live
  <2>5. Leaving(s, o)
    BY <1>1, <1>6, <2>4 DEF Relies
  <2>6. o \notin Stops(t)
    <3>1. ASSUME o \in Stops(t) PROVE OrgLock(o) \in tx[t].holds
      BY <1>2, <1>6, <3>1 DEF OrgInv, Relies, Leaving
    <3> QED
      BY <2>5, <3>1 DEF LockInv, Leaving
  <2>7. CASE Owners(Seen(s, o)) \ due # {}
    <3>1. PICK v \in Owners(Seen(s, o)) : v \notin due
      BY <2>7
    <3>2. v # x.on
      BY <2>4, <3>1 DEF Stops
    <3>3. v \in Owners(member[o])
      BY <2>1, <3>1, <3>2, SeenFacts DEF Owners, Live
    <3>4. v \in Owners(member'[o])
      BY <1>2, <2>1, <2>6, <3>3, OwnersStay
    <3>5. v \in Owners(Seen(s, o)')
      BY <2>1, <3>2, <3>4, SeenAfter DEF Owners, Live
    <3> QED
      BY <1>1, <1>2, <2>5, <3>1, <3>5 DEF Leaving, Owners, Live
  <2>8. CASE x.op = "finalize" /\ Live(Seen(s, o)) = {} /\ o \notin Readmitting
    <3>1. x.on \in due
      BY <1>1, <1>6, <2>8 DEF Holding
    <3>2. Live(member[o]) \subseteq {x.on}
      BY <2>1, <2>8, SeenFacts DEF Live
    <3>3. Live(member'[o]) \subseteq {x.on}
      BY <1>2, <1>6, <2>1, <2>8, <3>1, <3>2, NobodyComes
    <3>4. Live(Seen(s, o)') = {}
      BY <2>1, <2>3, <2>8, <3>3, SeenAfter DEF Live
    <3> QED
      BY <1>1, <1>3, <2>5, <2>8, <3>4 DEF Leaving, Live
  <2> QED
    BY <2>5, <2>7, <2>8 DEF Leaving
<1>7. ASSUME NEW o \in x.closes \ strays PROVE Closing(s, o)'
  <2>1. Closing(s, o) /\ o \in x.wrote /\ o \in Orgs
    BY <1>1, <1>7, TxType DEF Relies, Shape, Txs
  <2>2. x.on \in due
    BY <1>1, <1>7 DEF Shape, Holding
  <2>3. Live(member'[o]) \subseteq {x.on}
    BY <1>2, <1>7, <2>1, <2>2, NobodyComes DEF Closing
  <2>4. x.on \in Live(member'[o])
    BY <2>1, SeenAfter DEF Closing, Live
  <2> QED
    BY <1>1, <1>3, <2>1, <2>3, <2>4 DEF Closing
<1> QED
  BY <1>1, <1>2, <1>4, <1>5, <1>6, <1>7 DEF Relies, Comes

LEMMA KeptStays ==
  ASSUME TypeInv, OrgInv, NEW t \in Tabs, Commit(t), NEW o \in Orgs \ strays
  PROVE  Kept(o)'
<1>1. /\ member'[o] = Seen(t, o) /\ invite' = Invites(t) /\ closed' = closed \cup tx[t].closes
      /\ tx[t].pc = "guarded" /\ Kept(o) /\ Relies(t) /\ Shape(t)
  BY DEF Commit, OrgInv, TypeInv, TxInv
<1>2. Readmitting' \subseteq Readmitting
  BY CommitFacts, IdleFields DEF Readmitting
<1>3. Live(Seen(t, o)) # {} => Owners(Seen(t, o)) # {}
  <2>1. CASE o \in Stops(t)
    BY <1>1, <2>1 DEF Relies, Leaving
  <2>2. CASE o \notin Stops(t)
    <3>1. CASE Owners(member[o]) # {}
      BY <2>2, <3>1, OwnersStay
    <3>2. CASE Owners(member[o]) = {}
      <4>1. SUFFICES ASSUME NEW v \in Live(Seen(t, o)) PROVE FALSE
        OBVIOUS
      <4>2. Live(member[o]) = {}
        BY <1>1, <3>2 DEF Kept
      <4>3. tx[t].op \in {"accept", "readmit"} /\ o = tx[t].org
        BY <1>1, <4>1, <4>2, EntersHow
      <4> QED
        BY <1>1, <3>2, <4>2, <4>3 DEF Relies, Comes
    <3> QED
      BY <3>1, <3>2
  <2> QED
    BY <2>1, <2>2
<1>4. ASSUME o \in closed PROVE Closed(o)'
  <2>1. Closed(o)
    BY <1>1, <1>4 DEF Kept
  <2>2. Live(Seen(t, o)) = {}
    BY <1>1, <2>1, ConstantsAssumption, NobodyComes DEF Closed
  <2>3. \A u \in Users : invite'[o][u].state \notin {"open", "expired"}
    BY <1>1, <2>1, InvitesFacts DEF Closed
  <2> QED
    BY <1>1, <1>2, <2>1, <2>2, <2>3 DEF Closed
<1>5. ASSUME o \in tx[t].closes PROVE Closed(o)'
  <2>1. Closing(t, o) /\ o \in tx[t].wrote /\ tx[t].op = "finalize"
    BY <1>1, <1>5 DEF Relies, Shape
  <2>2. Seen(t, o)[tx[t].on] = [member[o][tx[t].on] EXCEPT !.live = FALSE] /\ tx[t].on \in Users
    BY <2>1, SeenFacts DEF Written
  <2>3. ~Seen(t, o)[tx[t].on].live
    BY <2>2 DEF TypeInv, TypeOK, Rows
  <2>4. Live(Seen(t, o)) = {}
    BY <2>1, <2>3, SeenFacts DEF Closing, Live
  <2>5. \A u \in Users : invite'[o][u].state \notin {"open", "expired"}
    BY <1>1, <1>5, <2>1, InvitesFacts
  <2> QED
    BY <1>1, <1>2, <2>1, <2>4, <2>5 DEF Closed, Closing
<1> QED
  BY <1>1, <1>3, <1>4, <1>5 DEF Kept

LEMMA CommitOrg ==
  ASSUME TypeInv, LockInv, OrgInv, NEW t \in Tabs, Commit(t)
  PROVE  OrgInv'
<1>1. Holding(t)' /\ Relies(t)'
  BY CommitFacts, IdleFields DEF Holding, Relies, Comes, At
<1>2. \A s \in Tabs : Holding(s)' /\ Relies(s)'
  BY <1>1, HoldingStays, ReliesStays
<1>3. strays' = strays
  BY DEF Commit
<1> QED
  BY <1>2, <1>3, KeptStays DEF OrgInv

LEMMA OrgStep ==
  ASSUME TypeInv, LockInv, OrgInv, [Next]_vars
  PROVE  OrgInv'
<1>1. ASSUME NEW t \in Tabs, Step(t) PROVE OrgInv'
  BY <1>1, UpdateOrg, AcceptOrg, LeaveOrg, FinalizeOrg, GuardOrg, CommitOrg, RefusedOrg
     DEF Step, Deadlocked
<1>2. CASE UNCHANGED vars
  <2>1. UNCHANGED <<member, invite, due, gone, closed, strays, tx>>
    BY <1>2 DEF vars
  <2>2. Readmitting' = Readmitting
    BY <2>1 DEF Readmitting
  <2>3. ASSUME NEW s \in Tabs PROVE Holding(s)' /\ Relies(s)'
    <3>1. Holding(s) /\ Relies(s)
      BY DEF OrgInv
    <3>2. Holding(s)'
      BY <2>1, <3>1 DEF Holding, At
    <3>3. \A o : Seen(s, o)' = Seen(s, o)
      BY <2>1 DEF Seen, Written
    <3>4. Stops(s)' = Stops(s)
      BY <2>1, <3>3 DEF Stops
    <3> QED
      BY <2>1, <2>2, <3>1, <3>2, <3>3, <3>4 DEF Relies, Comes, Leaving, Closing
  <2>4. ASSUME NEW o \in Orgs \ strays PROVE Kept(o)'
    BY <2>1, <2>2 DEF OrgInv, Kept, Closed
  <2> QED
    BY <2>1, <2>3, <2>4 DEF OrgInv
<1> QED
  BY <1>1, <1>2, BeginOrg, OthersOrg DEF Next

\* What the transactions have locked, rely on and leave of every Org.
LEMMA OrgInvariant == Spec => [](TypeInv /\ LockInv /\ OrgInv)
<1>1. Init => LockInv /\ OrgInv
  <2> SUFFICES ASSUME Init PROVE LockInv /\ OrgInv
    OBVIOUS
  <2>1. \A t \in Tabs : tx[t] = Idle
    BY DEF Init
  <2>2. \A t \in Tabs : Holding(t) /\ Relies(t)
    BY <2>1, IdleFields DEF Holding, Relies, Comes, At
  <2>3. \A o \in Orgs : Kept(o)
    BY DEF Init, Kept
  <2> QED
    BY <2>1, <2>2, <2>3, IdleFields DEF LockInv, OrgInv
<1>2. TypeInv /\ LockInv /\ OrgInv /\ [Next]_vars => LockInv' /\ OrgInv'
  BY LockStep, OrgStep
<1> QED
  BY <1>1, <1>2, TypeInvariant, PTL DEF Spec

-----------------------------------------------------------------------------
(* What an Org keeps *)

\* An Org with anybody in it has an Owner, however the requests overlap, but
\* for the ones the scrub of a last Member emptied during a re-admission.
THEOREM OwnersKept == Spec => []OwnerKept
<1>1. OrgInv => OwnerKept
  BY DEF OrgInv, Kept, OwnerKept
<1> QED
  BY <1>1, OrgInvariant, PTL

\* An Org closed with an account stays empty, with no invitation that can be
\* accepted, but for the same ones.
THEOREM ClosedStays == Spec => []ClosedIsOver
<1>1. TypeInv /\ OrgInv => ClosedIsOver
  BY DEF TypeInv, TypeOK, OrgInv, Kept, Closed, ClosedIsOver
<1> QED
  BY <1>1, OrgInvariant, PTL

-----------------------------------------------------------------------------
(* Coming in, and going *)

LEMMA OnlyCommits ==
  ASSUME TypeInv, [Next]_vars, member' # member
  PROVE  \E t \in Tabs : Commit(t) /\ \A s \in Tabs \ {t} : tx'[s].pc = tx[s].pc
<1>1. ASSUME NEW t \in Tabs, Request(t) \/ PickDue(t) PROVE UNCHANGED member
  BY <1>1, BeginFacts DEF Begins, tables
<1>2. ASSUME NEW t \in Tabs, Step(t), ~Commit(t) PROVE UNCHANGED member
  <2>1. Refused(t) => UNCHANGED member
    BY DEF Refused, tables
  <2>2. UNCHANGED <<tables, events>> => UNCHANGED member
    BY DEF tables
  <2>3. CASE Update(t) \/ AcceptLock(t) \/ AcceptCheck(t) \/ AcceptInsert(t) \/ Upsert(t) \/ Seat(t)
    BY <2>1, <2>2, <2>3 DEF Update, AcceptLock, AcceptCheck, AcceptInsert, Upsert, Seat
  <2>4. CASE LeaveLock(t) \/ LeaveCheck(t) \/ RequestOrgs(t) \/ RequestCheck(t) \/ Requested(t)
    BY <2>1, <2>2, <2>4 DEF LeaveLock, LeaveCheck, RequestOrgs, RequestCheck, Requested
  <2>5. CASE FinalizeLock(t) \/ FinalizeCheck(t) \/ FinalizeWrite(t) \/ Guard(t) \/ Deadlocked(t)
    BY <2>1, <2>2, <2>5 DEF FinalizeLock, FinalizeCheck, FinalizeWrite, Guard, Deadlocked
  <2> QED
    BY <1>2, <2>3, <2>4, <2>5 DEF Step
<1>3. Invite \/ Answer \/ Keep \/ SetPlan \/ Expire \/ Lapse \/ Forget \/ UNCHANGED vars
      => UNCHANGED member
  BY DEF Invite, Answer, Keep, SetPlan, Expire, Lapse, Forget, vars
<1>4. PICK t \in Tabs : Commit(t)
  BY <1>1, <1>2, <1>3 DEF Next
<1> QED
  BY <1>4, CommitFacts

\* Nobody comes into an Org but by a re-admission or by an open invitation, at
\* the Role it names, which is spent.
THEOREM AdmittedOnly == Spec => Admitted
<1> DEFINE Once ==
      \A o \in Orgs, u \in Users :
        u \in Live(member[o])' \ Live(member[o]) =>
          \/ \E t \in Tabs : At(t, "readmit", "guarded") /\ tx[t].on = u /\ tx'[t] = Idle
          \/ /\ invite[o][u].state = "open" /\ invite'[o][u].state = "accepted"
             /\ member'[o][u].role = invite[o][u].role
<1>1. TypeInv /\ LockInv /\ OrgInv /\ [Next]_vars => [Once]_vars
  <2> SUFFICES ASSUME TypeInv, OrgInv, [Next]_vars, NEW o \in Orgs, NEW u \in Users,
                      u \in Live(member[o])' \ Live(member[o])
               PROVE  \/ \E t \in Tabs : At(t, "readmit", "guarded") /\ tx[t].on = u /\ tx'[t] = Idle
                      \/ /\ invite[o][u].state = "open" /\ invite'[o][u].state = "accepted"
                         /\ member'[o][u].role = invite[o][u].role
    OBVIOUS
  <2>1. PICK t \in Tabs : Commit(t)
    BY OnlyCommits
  <2>2. /\ tx[t].pc = "guarded" /\ member'[o] = Seen(t, o) /\ invite' = Invites(t) /\ tx'[t] = Idle
    BY <2>1, CommitFacts DEF Commit
  <2>3. /\ u = tx[t].on /\ o \in tx[t].wrote /\ o = tx[t].org
        /\ tx[t].op \in {"accept", "readmit"}
    BY <2>2, EntersHow DEF Live
  <2>4. CASE tx[t].op = "readmit"
    BY <2>2, <2>3, <2>4 DEF At
  <2>5. CASE tx[t].op = "accept"
    <3>1. invite[o][u].state = "open" /\ invite[o][u].role = tx[t].role
      BY <2>2, <2>3, <2>5 DEF OrgInv, Holding
    <3>2. invite'[o][u].state = "accepted"
      BY <2>2, <2>3, <2>5, InvitesFacts
    <3>3. member'[o][u].role = tx[t].role
      <4>1. Written(t, o) = [role |-> tx[t].role, live |-> TRUE]
        BY <2>5 DEF Written
      <4> QED
        BY <2>2, <2>3, <4>1, SeenFacts
    <3> QED
      BY <3>1, <3>2, <3>3
  <2> QED
    BY <2>3, <2>4, <2>5
<1>2. Spec => [][Once]_vars
  <2> HIDE DEF Once
  <2> QED
    BY <1>1, OrgInvariant, PTL DEF Spec
<1> QED
  BY <1>2 DEF Admitted

\* Who leaves an Org is in another one when they have left, but for whoever
\* came into one while leaving.
THEOREM LeaversStay == Spec => SomewhereToGo
<1> DEFINE Once ==
      \A t \in Tabs :
        At(t, "leave", "guarded") /\ ~tx[t].came /\ tx'[t] = Idle /\ member' # member
        => \E o \in Orgs : tx[t].on \in Live(member[o])'
<1>1. TypeInv /\ LockInv /\ OrgInv /\ [Next]_vars => [Once]_vars
  <2> SUFFICES ASSUME TypeInv, OrgInv, [Next]_vars, NEW t \in Tabs,
                      At(t, "leave", "guarded"), ~tx[t].came, tx'[t] = Idle, member' # member
               PROVE  \E o \in Orgs : tx[t].on \in Live(member[o])'
    OBVIOUS
  <2>1. Commit(t)
    BY OnlyCommits, IdleFields DEF At
  <2>2. PICK o \in Orgs \ {tx[t].org} : member[o][tx[t].on].live
    BY DEF OrgInv, Holding, At
  <2>3. o \notin tx[t].wrote /\ tx[t].on \in Users
    BY <2>2 DEF TypeInv, TxInv, Shape, At
  <2>4. member'[o] = member[o]
    BY <2>1, <2>3, SeenFacts DEF Commit
  <2> QED
    BY <2>2, <2>3, <2>4 DEF Live
<1>2. Spec => [][Once]_vars
  <2> HIDE DEF Once
  <2> QED
    BY <1>1, OrgInvariant, PTL DEF Spec
<1> QED
  BY <1>2 DEF SomewhereToGo

-----------------------------------------------------------------------------
(* Seats *)

LEMMA Finite ==
  ASSUME NEW S \in SUBSET Users, NEW T \in SUBSET S
  PROVE  /\ Cardinality(S) \in Nat /\ Cardinality(T) \in Nat /\ Cardinality(T) <= Cardinality(S)
         /\ IsFiniteSet(S)
BY ConstantsAssumption, FS_Subset, FS_CardinalityType

\* A step that is no commit, of a transaction that says what it was counted by.
LEMMA OneCounts ==
  ASSUME SeatInv, NEW t \in Tabs, UNCHANGED <<member, ceiling>>,
         \A s \in Tabs \ {t} : tx'[s] = tx[s], Counts(t)',
         \A s \in Tabs \ {t} :
           tx[s].org = tx'[t].org /\ tx[s].org \in Orgs => tx[s].moved = tx'[t].moved
  PROVE  SeatInv'
<1>1. ASSUME NEW s \in Tabs \ {t} PROVE Counts(s)'
  <2>1. Counts(s) /\ tx'[s] = tx[s]
    BY DEF SeatInv
  <2> QED
    BY <2>1 DEF Counts, Live
<1>2. Together'
  BY DEF SeatInv, Together
<1> QED
  BY <1>1, <1>2 DEF SeatInv

LEMMA OverSeats ==
  ASSUME TypeInv, SeatInv, NEW t \in Tabs, Over(t), UNCHANGED <<member, ceiling>>
  PROVE  SeatInv'
<1>1. Counts(t)'
  BY IdleFields DEF Over, Counts
<1> QED
  BY <1>1, IdleFields, ConstantsAssumption, OneCounts DEF Over

LEMMA RefusedSeats ==
  ASSUME TypeInv, SeatInv, NEW t \in Tabs, Refused(t)
  PROVE  SeatInv'
BY OverSeats, EndFacts DEF Refused, tables

LEMMA WentSeats ==
  ASSUME SeatInv, NEW t \in Tabs, NEW pc, NEW role, NEW wrote, NEW closes, NEW seats,
         Went(t, pc, role, wrote, closes, seats), UNCHANGED <<member, ceiling>>, Counts(t)'
  PROVE  SeatInv'
BY OneCounts DEF Went, SeatInv, Together

LEMMA BeginSeats ==
  ASSUME TypeInv, SeatInv, NEW t \in Tabs, Request(t) \/ PickDue(t)
  PROVE  SeatInv'
<1>1. PICK op \in Ops \ {"idle"}, who \in Users, org \in Orgs \cup {Nobody}, on \in Users,
           role \in Roles : Begins(t, op, who, org, on, role)
  BY BeginFacts
<1>2. UNCHANGED <<member, ceiling>> /\ tx'[t].moved = (\E s \in Tabs : tx[s].moved /\ tx[s].org = org)
      /\ tx'[t].org = org
  BY <1>1 DEF Begins, tables
<1>3. Counts(t)'
  BY <1>1 DEF Begins, Counts
<1>4. ASSUME NEW s \in Tabs \ {t}, tx[s].org = org, org \in Orgs PROVE tx[s].moved = tx'[t].moved
  <2>1. \A r \in Tabs : tx[r].org = org => tx[r].moved = tx[s].moved
    BY <1>4 DEF SeatInv, Together
  <2>2. tx[s].moved \in BOOLEAN /\ \A r \in Tabs : tx[r].moved \in BOOLEAN
    BY TxType DEF Txs
  <2> QED
    BY <1>2, <1>4, <2>1, <2>2
<1> QED
  BY <1>1, <1>2, <1>3, <1>4, OneCounts DEF Begins

\* A transaction that is let in by nobody's count goes on.
LEMMA PassSeats ==
  ASSUME TypeInv, SeatInv, NEW t \in Tabs, NEW pc, NEW role, NEW wrote, NEW closes,
         Went(t, pc, role, wrote, closes, tx[t].seats), UNCHANGED <<member, ceiling>>,
         tx[t].op # "idle",
         \/ tx[t].op \notin {"accept", "readmit"}
         \/ pc \notin {"seating", "upsert"} /\ wrote = {} /\ tx[t].pc \notin {"seating", "upsert"}
            /\ tx[t].wrote = {}
  PROVE  SeatInv'
<1>1. tx[t].seats = NoCeiling
  BY DEF SeatInv, Counts
<1>2. Counts(t)'
  BY <1>1 DEF Went, Counts
<1> QED
  BY <1>2, WentSeats

\* The Seat trigger reads the ceiling.
LEMMA SeatingSeats ==
  ASSUME TypeInv, SeatInv, NEW t \in Tabs, tx[t].op \in {"accept", "readmit"}, tx[t].org \in Orgs,
         Goes(t, [tx[t] EXCEPT !.pc = "seating", !.seats = ceiling[tx[t].org]]),
         UNCHANGED <<member, ceiling>>
  PROVE  SeatInv'
<1>1. Went(t, "seating", tx[t].role, tx[t].wrote, tx[t].closes, ceiling[tx[t].org])
  BY SeatingFacts DEF TypeInv, TypeOK
<1>2. Counts(t)'
  BY <1>1 DEF Went, Counts
<1> QED
  BY <1>1, <1>2, WentSeats

\* What was counted stays so until the commit.
LEMMA LaterSeats ==
  ASSUME TypeInv, SeatInv, NEW t \in Tabs, tx[t].op \in {"accept", "readmit"}, tx[t].org \in Orgs,
         tx[t].seats # NoCeiling /\ ~tx[t].moved =>
           /\ OrgLock(tx[t].org) \in tx[t].holds \cup Needs(t)
           /\ Cardinality(Live(member[tx[t].org]) \ {tx[t].on}) < tx[t].seats,
         tx[t].pc \in {"seating", "upsert"},
         NEW pc, NEW wrote, pc = "upsert" \/ (pc = "written" /\ wrote # {}),
         Went(t, pc, tx[t].role, wrote, tx[t].closes, tx[t].seats), UNCHANGED <<member, ceiling>>
  PROVE  SeatInv'
<1>1. Counts(t)
  BY DEF SeatInv
<1>2. Counts(t)'
  <2>1. /\ tx'[t].op = tx[t].op /\ tx'[t].org = tx[t].org /\ tx'[t].on = tx[t].on
        /\ tx'[t].moved = tx[t].moved /\ tx'[t].seats = tx[t].seats
        /\ tx'[t].pc = pc /\ tx'[t].wrote = wrote /\ tx'[t].holds = tx[t].holds \cup Needs(t)
    BY DEF Went
  <2>2. Live(member'[tx[t].org]) = Live(member[tx[t].org])
    BY DEF Live
  <2> QED
    BY <1>1, <2>1, <2>2 DEF Counts, Live
<1> QED
  BY <1>2, WentSeats

LEMMA StepSeats ==
  ASSUME TypeInv, SeatInv, NEW t \in Tabs, Step(t), ~Commit(t)
  PROVE  SeatInv'
<1>1. Shape(t) /\ Counts(t)
  BY DEF TypeInv, TxInv, SeatInv
<1>2. UNCHANGED <<tables, events>> => UNCHANGED <<member, ceiling>>
  BY DEF tables
<1>3. CASE Refused(t)
  BY <1>3, RefusedSeats
<1>4. ASSUME NEW pc \in Steps, To(t, pc), UNCHANGED <<member, ceiling>>,
             tx[t].op \in {"leave", "request", "finalize"}
      PROVE  SeatInv'
  <2>1. Went(t, pc, tx[t].role, tx[t].wrote, tx[t].closes, tx[t].seats)
    BY <1>4, ToFacts
  <2> QED
    BY <1>4, <2>1, PassSeats
<1>5. ASSUME NEW pc \in {"held", "clear"}, NEW role,
             Went(t, pc, role, tx[t].wrote, tx[t].closes, tx[t].seats), UNCHANGED <<member, ceiling>>,
             tx[t].op = "accept", tx[t].pc \in {"asked", "held"}
      PROVE  SeatInv'
  <2>1. tx[t].wrote = {}
    BY <1>1, <1>5 DEF Shape
  <2> QED
    BY <1>5, <2>1, PassSeats
<1>6. CASE Update(t) /\ ~Refused(t)
  <2>1. tx[t].op \in Changes /\ tx[t].org \in Orgs /\ UNCHANGED <<member, ceiling>>
    BY <1>2, <1>6, TxFacts DEF Update
  <2>2. CASE tx[t].op = "readmit"
    BY <1>6, <2>1, <2>2, SeatingSeats DEF Update
  <2>3. CASE tx[t].op # "readmit"
    <3>1. Went(t, "written", tx[t].role, {tx[t].org}, tx[t].closes, tx[t].seats)
      BY <1>6, <2>1, <2>3, WritesFacts DEF Update
    <3> QED
      BY <2>1, <2>3, <3>1, PassSeats DEF Changes
  <2> QED
    BY <2>2, <2>3
<1>7. CASE AcceptLock(t) /\ ~Refused(t)
  <2>1. At(t, "accept", "asked") /\ tx[t].org \in Orgs /\ tx[t].on \in Users
    BY <1>7, TxFacts DEF AcceptLock, At
  <2>2. invite[tx[t].org][tx[t].on].role \in Roles
    BY <2>1 DEF TypeInv, TypeOK
  <2> QED
    BY <1>2, <1>5, <1>7, <2>1, <2>2, AcceptLockFacts DEF AcceptLock, At
<1>8. CASE AcceptCheck(t) /\ ~Refused(t)
  BY <1>2, <1>5, <1>8, ToFacts DEF AcceptCheck, At, Steps
<1>9. CASE AcceptInsert(t)
  <2>1. At(t, "accept", "clear") /\ tx[t].org \in Orgs /\ UNCHANGED <<member, ceiling>>
    BY <1>2, <1>9, TxFacts DEF AcceptInsert, At
  <2>2. CASE Writes(t, {})
    <3>1. Went(t, "written", tx[t].role, {}, tx[t].closes, tx[t].seats) /\ tx[t].wrote = {}
      BY <1>1, <2>1, <2>2, WritesFacts DEF Shape, At
    <3> QED
      BY <2>1, <3>1, PassSeats DEF At
  <2> QED
    BY <1>9, <2>1, <2>2, SeatingSeats DEF AcceptInsert, At
<1>10. CASE Upsert(t) /\ ~Refused(t)
  <2>1. /\ tx[t].op = "accept" /\ tx[t].org \in Orgs /\ tx[t].pc = "upsert"
        /\ Writes(t, {tx[t].org}) /\ UNCHANGED <<member, ceiling>>
    BY <1>1, <1>2, <1>10, TxFacts DEF Upsert, Shape
  <2>2. Went(t, "written", tx[t].role, {tx[t].org}, tx[t].closes, tx[t].seats)
    BY <2>1, WritesFacts
  <2>3. tx[t].seats # NoCeiling /\ ~tx[t].moved =>
          /\ OrgLock(tx[t].org) \in tx[t].holds
          /\ Cardinality(Live(member[tx[t].org]) \ {tx[t].on}) < tx[t].seats
    BY <1>1, <2>1 DEF Counts
  <2> QED
    BY <2>1, <2>2, <2>3, LaterSeats
<1>11. CASE Seat(t) /\ ~Refused(t)
  <2> DEFINE live == Live(member[tx[t].org])
             taken == live \ (IF tx[t].op = "readmit" THEN {tx[t].on} ELSE {})
  <2>1. /\ tx[t].op \in {"accept", "readmit"} /\ tx[t].pc = "seating" /\ tx[t].org \in Orgs
        /\ UNCHANGED <<member, ceiling>>
        /\ tx[t].op = "readmit" => Writes(t, {tx[t].org})
        /\ tx[t].op # "readmit" => To(t, "upsert")
        /\ ~(tx[t].seats # NoCeiling /\ Cardinality(taken) >= tx[t].seats)
    BY <1>2, <1>11, TxFacts DEF Seat, Changes
  <2>2. tx[t].seats # NoCeiling =>
          /\ OrgLock(tx[t].org) \in Needs(t)
          /\ Cardinality(live \ {tx[t].on}) < tx[t].seats
    <3>1. SUFFICES ASSUME tx[t].seats # NoCeiling
                   PROVE  /\ OrgLock(tx[t].org) \in Needs(t)
                          /\ Cardinality(live \ {tx[t].on}) < tx[t].seats
      OBVIOUS
    <3>2. OrgLocks(t) = {OrgLock(tx[t].org)}
      BY <2>1, <3>1 DEF OrgLocks, At
    <3>3. tx[t].seats \in Nat
      BY <3>1, TxType, ConstantsAssumption DEF Txs
    <3>4. live \in SUBSET Users /\ taken \in SUBSET Users
          /\ live \ {tx[t].on} \in SUBSET taken
      BY DEF Live
    <3> HIDE DEF live, taken
    <3>5. /\ Cardinality(taken) \in Nat /\ Cardinality(live \ {tx[t].on}) \in Nat
          /\ Cardinality(live \ {tx[t].on}) <= Cardinality(taken)
      BY <3>4, Finite
    <3>6. Cardinality(taken) < tx[t].seats
      BY <2>1, <3>1, <3>3, <3>5
    <3>7. Cardinality(live \ {tx[t].on}) < tx[t].seats
      BY <3>3, <3>5, <3>6
    <3> QED
      BY <3>2, <3>7, Needed
  <2>3. CASE tx[t].op = "readmit"
    <3>1. Went(t, "written", tx[t].role, {tx[t].org}, tx[t].closes, tx[t].seats)
      BY <2>1, <2>3, WritesFacts
    <3> QED
      BY <2>1, <2>2, <3>1, LaterSeats
  <2>4. CASE tx[t].op = "accept"
    <3>1. Went(t, "upsert", tx[t].role, tx[t].wrote, tx[t].closes, tx[t].seats)
      BY <2>1, <2>4, ToFacts DEF Steps
    <3> QED
      BY <2>1, <2>2, <3>1, LaterSeats
  <2> QED
    BY <2>1, <2>3, <2>4
<1>12. CASE LeaveLock(t) \/ ((RequestOrgs(t) \/ RequestCheck(t) \/ FinalizeLock(t) \/ FinalizeCheck(t)) /\ ~Refused(t))
  BY <1>2, <1>4, <1>12 DEF LeaveLock, RequestOrgs, RequestCheck, FinalizeLock, FinalizeCheck, At, Steps
<1>13. CASE LeaveCheck(t) /\ ~Refused(t)
  <2>1. tx[t].op = "leave" /\ tx[t].org \in Orgs /\ Writes(t, {tx[t].org}) /\ UNCHANGED <<member, ceiling>>
    BY <1>2, <1>13, TxFacts DEF LeaveCheck, At
  <2>2. Went(t, "written", tx[t].role, {tx[t].org}, tx[t].closes, tx[t].seats)
    BY <2>1, WritesFacts
  <2> QED
    BY <2>1, <2>2, PassSeats
<1>14. CASE Requested(t)
  BY <1>14, OverSeats, EndFacts DEF Requested
<1>15. CASE FinalizeWrite(t)
  BY <1>15, FinalizeWriteFacts, PassSeats DEF FinalizeWrite, At
<1>16. CASE Guard(t) /\ ~Refused(t)
  <2>1. tx[t].pc = "written" /\ To(t, "guarded") /\ UNCHANGED <<member, ceiling>>
    BY <1>16 DEF Guard
  <2>2. Went(t, "guarded", tx[t].role, tx[t].wrote, tx[t].closes, tx[t].seats)
    BY <2>1, ToFacts DEF Steps
  <2>3. /\ tx'[t].op = tx[t].op /\ tx'[t].org = tx[t].org /\ tx'[t].on = tx[t].on
        /\ tx'[t].moved = tx[t].moved /\ tx'[t].seats = tx[t].seats /\ tx'[t].wrote = tx[t].wrote
        /\ tx'[t].pc = "guarded" /\ tx'[t].holds = tx[t].holds \cup Needs(t)
    BY <2>2 DEF Went
  <2>4. Counts(t)'
    BY <1>1, <2>1, <2>3 DEF Counts, Shape, Live
  <2> QED
    BY <2>1, <2>2, <2>4, WentSeats
<1> QED
  BY <1>3, <1>6, <1>7, <1>8, <1>9, <1>10, <1>11, <1>12, <1>13, <1>14, <1>15, <1>16
     DEF Step, Deadlocked

\* Whoever the commit brings in was counted under the Org's lock: nobody else
\* who was counted against the same ceiling can hold it.
LEMMA CommitSeats ==
  ASSUME TypeInv, LockInv, SeatInv, NEW t \in Tabs, Commit(t)
  PROVE  SeatInv'
<1>1. Together' /\ ceiling' = ceiling
  BY CommitFacts, IdleFields, ConstantsAssumption DEF SeatInv, Together, Commit
<1>2. Counts(t)'
  BY CommitFacts, IdleFields DEF Counts
<1>3. ASSUME NEW s \in Tabs \ {t} PROVE Counts(s)'
  <2> DEFINE x == tx[s]
  <2>1. /\ Counts(s) /\ Shape(s) /\ tx[t].pc = "guarded"
        /\ tx'[s].op = x.op /\ tx'[s].pc = x.pc /\ tx'[s].org = x.org /\ tx'[s].on = x.on
        /\ tx'[s].holds = x.holds /\ tx'[s].wrote = x.wrote /\ tx'[s].seats = x.seats
        /\ tx'[s].moved = x.moved
    BY CommitFacts DEF SeatInv, TypeInv, TxInv
  <2>2. ASSUME x.seats # NoCeiling, ~x.moved, x.pc \in {"upsert", "written", "guarded"}
        PROVE  Cardinality(Live(member'[x.org]) \ {x.on}) < x.seats
    <3>1. /\ OrgLock(x.org) \in x.holds /\ Cardinality(Live(member[x.org]) \ {x.on}) < x.seats
          /\ x.org \in Orgs /\ x.seats = ceiling[x.org]
      BY <2>1, <2>2 DEF Counts, Shape, Changes
    <3>2. member'[x.org] = Seen(t, x.org)
      BY <3>1 DEF Commit
    <3>3. Live(Seen(t, x.org)) \subseteq Live(member[x.org])
      <4>1. SUFFICES ASSUME NEW v \in Live(Seen(t, x.org)) \ Live(member[x.org]) PROVE FALSE
        OBVIOUS
      <4>2. x.org \in tx[t].wrote /\ x.org = tx[t].org /\ tx[t].op \in {"accept", "readmit"}
        BY <2>1, <3>1, <4>1, EntersHow
      <4>3. ~tx[t].moved
        BY <2>2, <3>1, <4>2 DEF SeatInv, Together
      <4>4. OrgLock(tx[t].org) \in tx[t].holds
        BY <2>1, <2>2, <3>1, <4>2, <4>3 DEF SeatInv, Counts
      <4> QED
        BY <3>1, <4>2, <4>4 DEF LockInv
    <3>4. x.seats \in Nat
      BY <2>2, TxType, ConstantsAssumption DEF Txs
    <3> DEFINE S == Live(member[x.org]) \ {x.on}
               T == Live(member'[x.org]) \ {x.on}
    <3>5. S \in SUBSET Users /\ T \in SUBSET S
      BY <3>2, <3>3 DEF Live
    <3> HIDE DEF S, T
    <3>6. Cardinality(S) \in Nat /\ Cardinality(T) \in Nat /\ Cardinality(T) <= Cardinality(S)
      BY <3>5, Finite
    <3>7. Cardinality(S) < x.seats
      BY <3>1 DEF S
    <3>8. Cardinality(T) < x.seats
      BY <3>4, <3>6, <3>7
    <3> QED
      BY <3>8 DEF T
  <2> QED
    BY <1>1, <2>1, <2>2 DEF Counts, Live
<1> QED
  BY <1>1, <1>2, <1>3 DEF SeatInv

\* A plan that moves, moves for everybody who is being let in.
LEMMA PlanSeats ==
  ASSUME TypeInv, SeatInv, SetPlan
  PROVE  SeatInv'
<1>1. PICK o \in Orgs, c \in Ceilings \cup {NoCeiling} :
        /\ ceiling' = [ceiling EXCEPT ![o] = c]
        /\ \A s \in Tabs :
             /\ tx'[s].op = tx[s].op /\ tx'[s].pc = tx[s].pc /\ tx'[s].org = tx[s].org
             /\ tx'[s].on = tx[s].on /\ tx'[s].holds = tx[s].holds
             /\ tx'[s].wrote = tx[s].wrote /\ tx'[s].seats = tx[s].seats
             /\ tx'[s].moved = (tx[s].moved \/ (tx[s].op # "idle" /\ tx[s].org = o))
  BY SetPlanFacts
<1>2. member' = member /\ \A p \in Orgs \ {o} : ceiling'[p] = ceiling[p]
  BY <1>1 DEF SetPlan, TypeInv, TypeOK
<1>3. ASSUME NEW s \in Tabs PROVE Counts(s)'
  <2>1. Counts(s) /\ Shape(s)
    BY DEF SeatInv, TypeInv, TxInv
  <2>2. tx'[s].op \in {"accept", "readmit"} /\ ~tx'[s].moved => tx[s].org \in Orgs \ {o}
    BY <1>1, <2>1 DEF Shape, Changes
  <2>3. ~tx'[s].moved => ~tx[s].moved
    BY <1>1
  <2>4. Live(member[tx[s].org])' = Live(member[tx[s].org])
    BY <1>1, <1>2 DEF Live
  <2> QED
    BY <1>1, <1>2, <2>1, <2>2, <2>3, <2>4 DEF Counts, Live
<1>4. ASSUME NEW r \in Tabs, NEW s \in Tabs, tx'[r].org = tx'[s].org, tx'[r].org \in Orgs
      PROVE  tx'[r].moved = tx'[s].moved
  <2>1. tx[r].org = tx[s].org /\ tx[r].moved = tx[s].moved
    BY <1>1, <1>4 DEF SeatInv, Together
  <2>2. tx[r].op # "idle" /\ tx[s].op # "idle"
    <3>1. \A q \in Tabs : tx[q].op = "idle" => tx[q].org = Nobody
      BY DEF SeatInv, Counts
    <3>2. tx[r].org \in Orgs /\ tx[s].org \in Orgs /\ Nobody \notin Orgs
      BY <1>1, <1>4, ConstantsAssumption
    <3> QED
      BY <3>1, <3>2
  <2> QED
    BY <1>1, <1>4, <2>1, <2>2
<1> QED
  BY <1>3, <1>4 DEF SeatInv, Together

LEMMA SeatStep ==
  ASSUME TypeInv, LockInv, SeatInv, [Next]_vars
  PROVE  SeatInv'
<1>1. ASSUME NEW t \in Tabs, Step(t) PROVE SeatInv'
  BY <1>1, StepSeats, CommitSeats
<1>2. CASE Invite \/ Answer \/ Keep \/ Expire \/ Lapse \/ Forget \/ UNCHANGED vars
  <2>1. UNCHANGED <<member, ceiling, tx>>
    BY <1>2 DEF Invite, Answer, Keep, Expire, Lapse, Forget, vars
  <2>2. ASSUME NEW s \in Tabs PROVE Counts(s)'
    BY <2>1 DEF SeatInv, Counts, Live
  <2> QED
    BY <2>1, <2>2 DEF SeatInv, Together
<1> QED
  BY <1>1, <1>2, BeginSeats, PlanSeats DEF Next

LEMMA SeatInvariant == Spec => [](TypeInv /\ SeatInv)
<1>1. Init => SeatInv
  <2> SUFFICES ASSUME Init PROVE SeatInv
    OBVIOUS
  <2>1. \A t \in Tabs : tx[t] = Idle
    BY DEF Init
  <2> QED
    BY <2>1, IdleFields DEF SeatInv, Counts, Together
<1>2. TypeInv /\ LockInv /\ SeatInv /\ [Next]_vars => SeatInv'
  BY SeatStep
<1> QED
  BY <1>1, <1>2, OrgInvariant, PTL DEF Spec

\* Nobody is let in past the ceiling they were counted against, but while the
\* plan moves.
THEOREM SeatsNotOverrun == Spec => SeatsHold
<1> DEFINE Once ==
      \A t \in Tabs, o \in Orgs :
        /\ tx[t].pc = "guarded" /\ tx'[t] = Idle
        /\ ~tx[t].moved /\ tx[t].seats # NoCeiling
        /\ Cardinality(Live(member[o])') > Cardinality(Live(member[o]))
        => Cardinality(Live(member[o])') <= tx[t].seats
<1>1. TypeInv /\ SeatInv /\ [Next]_vars => [Once]_vars
  <2> SUFFICES ASSUME TypeInv, SeatInv, [Next]_vars, NEW t \in Tabs, NEW o \in Orgs,
                      tx[t].pc = "guarded", tx'[t] = Idle, ~tx[t].moved,
                      tx[t].seats # NoCeiling,
                      Cardinality(Live(member[o])') > Cardinality(Live(member[o]))
               PROVE  Cardinality(Live(member[o])') <= tx[t].seats
    OBVIOUS
  <2> DEFINE before == Live(member[o])
             after == Live(member'[o])
  <2>1. before \in SUBSET Users /\ after \in SUBSET Users
    BY DEF Live
  <2>2. Cardinality(after) > Cardinality(before)
    BY DEF Live
  <2>3. member' # member
    BY <2>1, <2>2, Finite
  <2>4. Commit(t)
    BY <2>3, OnlyCommits, IdleFields
  <2>5. member'[o] = Seen(t, o)
    BY <2>4 DEF Commit
  <2>6. \A v \in after \ before : v = tx[t].on /\ o = tx[t].org
    BY <2>5, EntersHow
  <2>7. after \ before # {}
    <3> HIDE DEF after, before
    <3>1. SUFFICES ASSUME after \in SUBSET before PROVE FALSE
      OBVIOUS
    <3>2. Cardinality(after) \in Nat /\ Cardinality(before) \in Nat
          /\ Cardinality(after) <= Cardinality(before)
      BY <2>1, <3>1, Finite
    <3> QED
      BY <2>2, <3>2
  <2>8. tx[t].on \in after \ before /\ o = tx[t].org /\ o \in tx[t].wrote
    BY <2>5, <2>6, <2>7, EntersHow
  <2>9. Cardinality(before \ {tx[t].on}) < tx[t].seats
    BY <2>8 DEF SeatInv, Counts
  <2>10. before \ {tx[t].on} = before /\ after \in SUBSET (before \cup {tx[t].on})
    BY <2>6, <2>8
  <2>11. tx[t].seats \in Nat
    BY TxType, ConstantsAssumption DEF Txs
  <2> DEFINE more == before \cup {tx[t].on}
  <2>12. more \in SUBSET Users /\ tx[t].on \notin before
    BY <2>1, <2>8
  <2>13. Cardinality(after) <= tx[t].seats
    <3>1. Cardinality(before) < tx[t].seats
      BY <2>9, <2>10
    <3> HIDE DEF before, after
    <3>2. IsFiniteSet(before) /\ Cardinality(before) \in Nat
      BY <2>1, Finite
    <3>3. Cardinality(more) = Cardinality(before) + 1
      BY <2>12, <3>2, FS_AddElement
    <3>4. Cardinality(after) \in Nat /\ Cardinality(after) <= Cardinality(more)
      BY <2>10, <2>12, Finite
    <3> QED
      BY <2>11, <3>1, <3>2, <3>3, <3>4
  <2> QED
    BY <2>13 DEF Live
<1>2. Spec => [][Once]_vars
  <2> HIDE DEF Once
  <2> QED
    BY <1>1, SeatInvariant, PTL DEF Spec
<1> QED
  BY <1>2 DEF SeatsHold
=============================================================================
