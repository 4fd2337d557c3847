---------------------------- MODULE Organisation ----------------------------
(***************************************************************************)
(* Who is in an Org, and who runs it: invitations, Roles, removal, leaving,   *)
(* Seats, and the deletion of an account.  The rules live in the database's   *)
(* functions and triggers and are called by the dashboard's Server Actions    *)
(* and a daily cron, each in a transaction of its own at read committed:      *)
(* every statement sees what has been committed by the time it starts.        *)
(*                                                                          *)
(* tx[t] is the request in one browser tab, or the cron's: first the check    *)
(* the app makes outside the transaction ("asked"), then one step per group   *)
(* of statements, then the deferred last-Owner trigger, then the commit.      *)
(* `holds` is the locks it has: member rows, invitations, the users row, and  *)
(* the advisory lock of an Org.  What it wrote is seen by others at commit.   *)
(***************************************************************************)
EXTENDS Naturals, FiniteSets

CONSTANTS
  Orgs,
  Users,
  Tabs,         \* requests and cron calls that can be under way at once
  Ceilings,     \* what a Tier's max_seats may be
  NoCeiling,    \* no subscription row, or one nobody approved
  Nobody,       \* the person and the Org of no request
  MaxEvents     \* bound: what people and the operator do: requests
                \* started, invitations sent and answered, plans changed; and expiries

ASSUME ConstantsAssumption ==
  /\ IsFiniteSet(Users)
  /\ Ceilings \subseteq Nat /\ NoCeiling \notin Nat
  /\ MaxEvents \in Nat
  /\ Nobody \notin Users \cup Orgs

(* member_role.  A Manager may do no more here than a Member. *)
Roles == {"owner", "admin", "member"}

VARIABLES
  member,    \* member[o][u]: the members row of u in o, or NoMember
  invite,    \* invite[o][u]: the newest invitation of u's address into o
  ceiling,   \* the Seats each Org's plan sells
  asked,     \* users.deletion_requested_at is set
  due,       \* and was set more than 14 days ago
  gone,      \* users.deleted_at is set
  closed,    \* Orgs closed with the account of their only Member
  strays,    \* Orgs emptied by a deletion while somebody was being re-admitted
  tx,        \* the transactions
  events     \* how many of the MaxEvents have happened

vars == <<member, invite, ceiling, asked, due, gone, closed, strays, tx, events>>
people == <<asked, due, gone>>
tables == <<member, invite, ceiling, asked, due, gone, closed, strays>>

Counted == events < MaxEvents /\ events' = events + 1

-----------------------------------------------------------------------------
(* What is stored *)

NoMember == [role |-> "none", live |-> FALSE]
Rows == [role : Roles \cup {"none"}, live : BOOLEAN]
States == {"none", "open", "expired", "accepted", "revoked", "declined"}
NoInvite == [state |-> "none", role |-> "member"]

Live(rows) == {u \in Users : rows[u].live}
Owners(rows) == {u \in Live(rows) : rows[u].role = "owner"}

(* sessclone_org_owners: an Owner in their grace does not count. *)
Staying(rows) == Owners(rows) \ asked

(* sessclone_admin_org_ids, and reachesOrgSettings. *)
Reaches(u, o) == member[o][u].live /\ member[o][u].role \in {"owner", "admin"}

(* A session somebody can act with: not in the grace, not deleted. *)
Signed(u) == u \notin asked \cup gone

(* sessclone_deletion_blockers *)
Blockers(u) ==
  {o \in Orgs : /\ u \in Owners(member[o])
                /\ Staying(member[o]) \subseteq {u}
                /\ Live(member[o]) # {u}}

-----------------------------------------------------------------------------
(* Transactions *)

Changes == {"role", "remove", "readmit"}
Ops == Changes \cup {"idle", "accept", "leave", "request", "finalize"}
Steps == {"idle", "asked", "held", "clear", "seating", "upsert", "written", "guarded"}

(* `moved` and `came` are history the properties need: the Org's plan changed     *)
(* meanwhile, and the person who leaves came into an Org after their locks.       *)
Idle == [op |-> "idle", pc |-> "idle", who |-> Nobody, org |-> Nobody,
         on |-> Nobody, role |-> "member", holds |-> {}, wrote |-> {}, closes |-> {},
         seats |-> NoCeiling, moved |-> FALSE, came |-> FALSE]

OrgLock(o) == <<"org", o>>
Row(o, u) == <<"row", o, u>>
InviteRow(o, u) == <<"invite", o, u>>
UserRow(u) == <<"user", u>>
Locks == (({"org"} \X Orgs) \cup ({"row"} \X Orgs \X Users))
         \cup (({"invite"} \X Orgs \X Users) \cup ({"user"} \X Users))

At(t, op, pc) == tx[t].op = op /\ tx[t].pc = pc

RowsOf(u) == {Row(o, u) : o \in {o \in Orgs : member[o][u].live}}

(* The row of the person transaction t is about, in Org o, as t has written it. *)
Written(t, o) ==
  LET old == member[o][tx[t].on]
  IN CASE tx[t].op = "role" -> [old EXCEPT !.role = tx[t].role]
       [] tx[t].op = "readmit" -> [old EXCEPT !.live = TRUE]
       [] tx[t].op = "accept" -> [role |-> tx[t].role, live |-> TRUE]
       [] OTHER -> [old EXCEPT !.live = FALSE]

(* The members of Org o as transaction t sees them. *)
Seen(t, o) ==
  IF o \in tx[t].wrote THEN [member[o] EXCEPT ![tx[t].on] = Written(t, o)] ELSE member[o]

(* Orgs in which t has made a live Owner stop being one. *)
Stops(t) ==
  {o \in Orgs : tx[t].on \in Owners(member[o]) /\ tx[t].on \notin Owners(Seen(t, o))}

(* Orgs somebody is being re-admitted to. *)
Readmitting == {tx[s].org : s \in {s \in Tabs : tx[s].op = "readmit"}}

(* Orgs of which the person t deletes is the only live Member. *)
Sole(t) == {o \in Orgs : Live(member[o]) = {tx[t].on}}

(* Mutant: the last-Owner trigger counts without the Org's lock. *)
OrgLocksNotAtCommit(t) ==
  LET x == tx[t]
  IN CASE At(t, "request", "asked") -> {OrgLock(o) : o \in {o \in Orgs : x.on \in Owners(member[o])}}
       [] x.pc = "seating" /\ x.seats # NoCeiling -> {OrgLock(x.org)}
       [] OTHER -> {}

(* Mutant: the Seats are counted without the Org's lock. *)
OrgLocksNotForSeats(t) ==
  LET x == tx[t]
  IN CASE At(t, "request", "asked") -> {OrgLock(o) : o \in {o \in Orgs : x.on \in Owners(member[o])}}
       [] x.pc = "written" -> {OrgLock(o) : o \in Stops(t)}
       [] OTHER -> {}

(* The locks transaction t takes in its next step, or waits for. *)
OrgLocks(t) ==
  LET x == tx[t]
  IN CASE At(t, "request", "asked") -> {OrgLock(o) : o \in {o \in Orgs : x.on \in Owners(member[o])}}
       [] x.pc = "seating" /\ x.seats # NoCeiling -> {OrgLock(x.org)}
       [] x.pc = "written" -> {OrgLock(o) : o \in Stops(t)}
       [] OTHER -> {}

(* Mutant: leaving locks only the membership it ends. *)
RowLocksOwn(t) ==
  LET x == tx[t]
  IN CASE At(t, "request", "held") \/ At(t, "finalize", "clear") -> RowsOf(x.on)
       [] At(t, "leave", "held") -> RowsOf(x.on) \cap {Row(x.org, x.on)}
       [] x.pc = "upsert" \/ (x.pc = "asked" /\ x.op \in Changes \cup {"leave"}) -> {Row(x.org, x.on)}
       [] OTHER -> {}

RowLocks(t) ==
  LET x == tx[t]
  IN CASE At(t, "leave", "asked") \/ At(t, "request", "held") \/ At(t, "finalize", "clear") -> RowsOf(x.on)
       [] At(t, "leave", "held") -> RowsOf(x.on) \cap {Row(x.org, x.on)}
       [] x.pc = "upsert" \/ (x.pc = "asked" /\ x.op \in Changes) -> {Row(x.org, x.on)}
       [] OTHER -> {}

(* Mutant: the acceptance reads the invitation without `for update`. *)
InviteLocksNone(t) == {}

InviteLocks(t) ==
  LET x == tx[t]
  IN CASE At(t, "accept", "asked") -> {InviteRow(x.org, x.on)}
       [] At(t, "finalize", "clear") -> {InviteRow(o, u) : o \in Sole(t), u \in Users}
                                        \cup {InviteRow(o, x.on) : o \in Orgs}
       [] OTHER -> {}

UserLocks(t) ==
  IF At(t, "request", "clear") \/ At(t, "finalize", "asked") THEN {UserRow(tx[t].on)} ELSE {}

Needs(t) == OrgLocks(t) \cup RowLocks(t) \cup InviteLocks(t) \cup UserLocks(t)
Free(t) == \A s \in Tabs \ {t} : Needs(t) \cap tx[s].holds = {}

Goes(t, x) == tx' = [tx EXCEPT ![t] = [x EXCEPT !.holds = @ \cup Needs(t)]]
To(t, pc) == Goes(t, [tx[t] EXCEPT !.pc = pc])
Writes(t, orgs) == Goes(t, [tx[t] EXCEPT !.pc = "written", !.wrote = orgs])

(* Committed, or rolled back. *)
Ends(t) == tx' = [tx EXCEPT ![t] = Idle]
Refused(t) == Ends(t) /\ UNCHANGED <<tables, events>>

-----------------------------------------------------------------------------
(* A request arrives, and the app has checked who sent it *)

Ask(t, x) ==
  /\ tx[t].op = "idle"
  /\ tx' = [tx EXCEPT ![t] = [x EXCEPT !.pc = "asked",
                              !.moved = \E s \in Tabs : tx[s].moved /\ tx[s].org = x.org]]
  /\ UNCHANGED tables

(* What an update of the row can still change. *)
Changeable(op, row, r) ==
  CASE op = "role" -> row.role # r
    [] op = "remove" -> row.live /\ r = "member"
    [] op = "readmit" -> ~row.live /\ r = "member"

(* changeRole and changeMembership. *)
AskChange(t) == \E w, u \in Users, o \in Orgs, r \in Roles, op \in Changes :
  /\ Signed(w) /\ Reaches(w, o)
  /\ member[o][u] # NoMember /\ Changeable(op, member[o][u], r)
  /\ Ask(t, [Idle EXCEPT !.op = op, !.who = w, !.org = o, !.on = u, !.role = r])
  /\ Counted

(* acceptInvite and leaveCurrentOrg. *)
AskOwn(t) == \E u \in Users, o \in Orgs :
  /\ Signed(u)
  /\ \/ /\ invite[o][u].state = "open"
        /\ Ask(t, [Idle EXCEPT !.op = "accept", !.who = u, !.org = o, !.on = u])
     \/ /\ member[o][u].live
        /\ Ask(t, [Idle EXCEPT !.op = "leave", !.who = u, !.org = o, !.on = u])
  /\ Counted

(* requestAccountDeletion. *)
AskDeletion(t) == \E u \in Users :
  /\ Signed(u)
  /\ Ask(t, [Idle EXCEPT !.op = "request", !.who = u, !.on = u])
  /\ Counted

(* finalizeDueDeletions picks somebody. *)
PickDue(t) == \E u \in due \ gone :
  /\ Blockers(u) = {}
  /\ Ask(t, [Idle EXCEPT !.op = "finalize", !.who = u, !.on = u])
  /\ UNCHANGED events

-----------------------------------------------------------------------------
(* Role changes, removal and re-admission: one update of the row *)

(* setMemberRole, setMemberRemoved, under members_write and the column guard. *)
Update(t) ==
  LET x == tx[t]  row == member[x.org][x.on]
  IN /\ x.pc = "asked" /\ x.op \in Changes
     /\ Free(t)
     /\ IF Reaches(x.who, x.org) /\ Changeable(x.op, row, x.role)
        THEN /\ IF x.op = "readmit"
                THEN Goes(t, [x EXCEPT !.pc = "seating", !.seats = ceiling[x.org]])
                ELSE Writes(t, {x.org})
             /\ UNCHANGED <<tables, events>>
        ELSE Refused(t)

-----------------------------------------------------------------------------
(* Accepting: sessclone_accept_own_invitation *)

AcceptLock(t) ==
  LET x == tx[t]  i == invite[x.org][x.on]
  IN /\ At(t, "accept", "asked") /\ Free(t)
     /\ IF i.state = "open"
        THEN Goes(t, [x EXCEPT !.pc = "held", !.role = i.role])
             /\ UNCHANGED <<tables, events>>
        ELSE Refused(t)

(* Neither the person nor the Org's only Owner may be leaving. *)
AcceptCheck(t) ==
  LET x == tx[t]
  IN /\ At(t, "accept", "held")
     /\ IF x.on \notin asked \cup gone /\ Staying(member[x.org]) # {}
        THEN To(t, "clear") /\ UNCHANGED <<tables, events>>
        ELSE Refused(t)

(* Somebody already in the Org spends the invitation and keeps their Role.  *)
(* Anybody else is inserted, and the Seat trigger reads the ceiling.         *)
AcceptInsert(t) ==
  LET x == tx[t]
  IN /\ At(t, "accept", "clear")
     /\ IF member[x.org][x.on].live
        THEN Writes(t, {})
        ELSE Goes(t, [x EXCEPT !.pc = "seating", !.seats = ceiling[x.org]])
     /\ UNCHANGED <<tables, events>>

(* The row is new, or one that was removed.  If it has come back to life the *)
(* column guard refuses any other Role.                                       *)
Upsert(t) ==
  LET x == tx[t]  row == member[x.org][x.on]
  IN /\ x.pc = "upsert" /\ Free(t)
     /\ IF row.live /\ row.role # x.role
        THEN Refused(t)
        ELSE Writes(t, {x.org}) /\ UNCHANGED <<tables, events>>

-----------------------------------------------------------------------------
(* sessclone_guard_seat_ceiling, before a row goes live *)

Seat(t) ==
  LET x == tx[t]
      taken == Live(member[x.org]) \ (IF x.op = "readmit" THEN {x.on} ELSE {})
  IN /\ x.pc = "seating" /\ Free(t)
     /\ IF x.seats # NoCeiling /\ Cardinality(taken) >= x.seats
        THEN Refused(t)
        ELSE /\ IF x.op = "readmit" THEN Writes(t, {x.org}) ELSE To(t, "upsert")
             /\ UNCHANGED <<tables, events>>

-----------------------------------------------------------------------------
(* Leaving: sessclone_leave_org *)

LeaveLock(t) ==
  /\ At(t, "leave", "asked") /\ Free(t)
  /\ To(t, "held")
  /\ UNCHANGED <<tables, events>>

LeaveCheck(t) ==
  LET x == tx[t]  row == member[x.org][x.on]
  IN /\ At(t, "leave", "held") /\ Free(t)
     /\ IF /\ row.live
           /\ row.role = "owner" => Cardinality(Staying(member[x.org])) > 1
           /\ \E o \in Orgs \ {x.org} : member[o][x.on].live
        THEN Writes(t, {x.org}) /\ UNCHANGED <<tables, events>>
        ELSE Refused(t)

-----------------------------------------------------------------------------
(* Asking for one's account to be deleted: sessclone_request_account_deletion *)

RequestOrgs(t) ==
  /\ At(t, "request", "asked") /\ Free(t)
  /\ To(t, "held")
  /\ UNCHANGED <<tables, events>>

RequestCheck(t) ==
  /\ At(t, "request", "held") /\ Free(t)
  /\ IF Blockers(tx[t].on) = {}
     THEN To(t, "clear") /\ UNCHANGED <<tables, events>>
     ELSE Refused(t)

(* The grace starts, unless it has already. *)
Requested(t) ==
  /\ At(t, "request", "clear") /\ Free(t)
  /\ asked' = asked \cup ({tx[t].on} \ gone)
  /\ Ends(t)
  /\ UNCHANGED <<member, invite, ceiling, due, gone, closed, strays, events>>

-----------------------------------------------------------------------------
(* The scrub: sessclone_finalize_account_deletion *)

FinalizeLock(t) ==
  /\ At(t, "finalize", "asked") /\ Free(t)
  /\ IF tx[t].on \in due \ gone
     THEN To(t, "held") /\ UNCHANGED <<tables, events>>
     ELSE Refused(t)

FinalizeCheck(t) ==
  /\ At(t, "finalize", "held")
  /\ IF Blockers(tx[t].on) = {}
     THEN To(t, "clear") /\ UNCHANGED <<tables, events>>
     ELSE Refused(t)

(* Orgs of which they are the only Member close, every membership ends. *)
FinalizeWrite(t) ==
  LET x == tx[t]
  IN /\ At(t, "finalize", "clear") /\ Free(t)
     /\ Goes(t, [x EXCEPT !.pc = "written", !.closes = Sole(t),
                          !.wrote = {o \in Orgs : member[o][x.on].live}])
     /\ strays' = strays \cup (Sole(t) \cap Readmitting)
     /\ UNCHANGED <<member, invite, ceiling, people, closed, events>>

-----------------------------------------------------------------------------
(* sessclone_guard_last_owner, and the commit *)

(* An Org keeps an Owner who is staying, or is left with nobody by the scrub *)
(* of its last Member.                                                        *)
Guard(t) ==
  /\ tx[t].pc = "written" /\ Free(t)
  /\ IF \A o \in Stops(t) : \/ Staying(Seen(t, o)) # {}
                            \/ tx[t].op = "finalize" /\ Live(Seen(t, o)) = {}
     THEN /\ To(t, "guarded")
          /\ strays' = strays \cup {o \in Stops(t) \cap Readmitting : Live(Seen(t, o)) = {}}
          /\ UNCHANGED <<member, invite, ceiling, people, closed, events>>
     ELSE Refused(t)

(* Mutant: a closed Org's invitations stay open. *)
InvitesOpen(t) ==
  [o \in Orgs |-> [u \in Users |->
     IF tx[t].op = "accept" /\ o = tx[t].org /\ u = tx[t].on
     THEN [invite[o][u] EXCEPT !.state = "accepted"] ELSE invite[o][u]]]

(* What the commit makes of the invitations. *)
Invites(t) ==
  LET x == tx[t]
  IN [o \in Orgs |-> [u \in Users |->
       CASE x.op = "accept" /\ o = x.org /\ u = x.on
              -> [invite[o][u] EXCEPT !.state = "accepted"]
         [] x.op = "finalize" /\ u = x.on -> NoInvite
         [] x.op = "finalize" /\ u # x.on /\ o \in x.closes
              /\ invite[o][u].state \in {"open", "expired"}
              -> [invite[o][u] EXCEPT !.state = "revoked"]
         [] OTHER -> invite[o][u]]]

(* Orgs the commit brings somebody into. *)
Enters(t) == {o \in Orgs : tx[t].on \in Live(Seen(t, o)) \ Live(member[o])}

Commit(t) ==
  LET x == tx[t]
      locked(s) == At(s, "leave", "held") /\ tx[s].on = x.on
  IN /\ x.pc = "guarded"
     /\ member' = [o \in Orgs |-> Seen(t, o)]
     /\ invite' = Invites(t)
     /\ gone' = IF x.op = "finalize" THEN gone \cup {x.on} ELSE gone
     /\ closed' = closed \cup x.closes
     /\ tx' = [s \in Tabs |->
                 IF s = t THEN Idle
                 ELSE [tx[s] EXCEPT !.came = @ \/ (locked(s) /\ Enters(t) # {})]]
     /\ UNCHANGED <<ceiling, asked, due, strays, events>>

(* Two transactions wait for each other, and Postgres ends one. *)
Deadlocked(t) ==
  /\ \E s \in Tabs \ {t} : /\ Needs(t) \cap tx[s].holds # {}
                           /\ Needs(s) \cap tx[t].holds # {}
  /\ Refused(t)

-----------------------------------------------------------------------------
(* Requests of one statement *)

Unlocked(lock) == \A t \in Tabs : lock \notin tx[t].holds

(* sendInvite: one invitation at a time can be open for an address. *)
Invite == \E w, u \in Users, o \in Orgs, r \in Roles \ {"owner"} :
  /\ Signed(w) /\ Reaches(w, o) /\ u \notin gone
  /\ invite[o][u].state \notin {"open", "expired"}
  /\ invite' = [invite EXCEPT ![o][u] = [state |-> "open", role |-> r]]
  /\ Counted
  /\ UNCHANGED <<member, ceiling, people, closed, strays, tx>>

(* withdrawInvite and declineInvite. *)
Answer == \E w, u \in Users, o \in Orgs, answer \in {"revoked", "declined"} :
  /\ Signed(w) /\ (IF answer = "revoked" THEN Reaches(w, o) ELSE w = u)
  /\ Unlocked(InviteRow(o, u))
  /\ invite[o][u].state \in {"open", "expired"}
  /\ invite' = [invite EXCEPT ![o][u].state = answer]
  /\ Counted
  /\ UNCHANGED <<member, ceiling, people, closed, strays, tx>>

(* Mutant: the grace runs on. *)
KeepDue == \E u \in asked \ gone :
  /\ Unlocked(UserRow(u))
  /\ asked' = asked \ {u}
  /\ UNCHANGED <<member, invite, ceiling, due, gone, closed, strays, tx, events>>

(* keepAccount. *)
Keep == \E u \in asked \ gone :
  /\ Unlocked(UserRow(u))
  /\ asked' = asked \ {u} /\ due' = due \ {u}
  /\ UNCHANGED <<member, invite, ceiling, gone, closed, strays, tx, events>>

(* setSubscription, as far as Seats go. *)
SetPlan == \E o \in Orgs, c \in Ceilings \cup {NoCeiling} :
  /\ c # ceiling[o]
  /\ ceiling' = [ceiling EXCEPT ![o] = c]
  /\ tx' = [t \in Tabs |-> [tx[t] EXCEPT !.moved = @ \/ (tx[t].op # "idle" /\ tx[t].org = o)]]
  /\ Counted
  /\ UNCHANGED <<member, invite, people, closed, strays>>

-----------------------------------------------------------------------------
(* Time, and the cron's second half *)

Expire == \E o \in Orgs, u \in Users :
  /\ invite[o][u].state = "open"
  /\ Unlocked(InviteRow(o, u))
  /\ invite' = [invite EXCEPT ![o][u].state = "expired"]
  /\ Counted
  /\ UNCHANGED <<member, ceiling, people, closed, strays, tx>>

(* Fourteen days pass: no transaction is that long. *)
Lapse == \E u \in asked \ (due \cup gone) :
  /\ \A t \in Tabs : tx[t].op = "idle"
  /\ due' = due \cup {u}
  /\ UNCHANGED <<member, invite, ceiling, asked, gone, closed, strays, tx, events>>

(* Mutant: only requests that were never scrubbed are looked for. *)
ForgetNobody == \E u \in (gone \cap asked) \ due :
  /\ asked' = asked \ {u} /\ due' = due \ {u}
  /\ UNCHANGED <<member, invite, ceiling, gone, closed, strays, tx, events>>

(* The Admin API has removed the sign-in, or had already: *)
(* sessclone_forget_deletion_request.                      *)
Forget == \E u \in gone \cap asked :
  /\ asked' = asked \ {u} /\ due' = due \ {u}
  /\ UNCHANGED <<member, invite, ceiling, gone, closed, strays, tx, events>>

-----------------------------------------------------------------------------
(* Every Org has its founder and whoever they took in since, Owners among them *)
(* or not, and may have invited the others.                                      *)
Init ==
  /\ member \in [Orgs -> [Users -> {NoMember} \cup [role : Roles, live : {TRUE}]]]
  /\ \A o \in Orgs : Owners(member[o]) # {}
  /\ invite \in [Orgs -> [Users -> {NoInvite} \cup [state : {"open"}, role : {"member"}]]]
  /\ \A o \in Orgs : \A u \in Live(member[o]) : invite[o][u] = NoInvite
  /\ ceiling \in [Orgs -> Ceilings \cup {NoCeiling}]
  /\ asked = {} /\ due = {} /\ gone = {} /\ closed = {} /\ strays = {}
  /\ tx = [t \in Tabs |-> Idle]
  /\ events = 0

Step(t) ==
  \/ Update(t)
  \/ AcceptLock(t) \/ AcceptCheck(t) \/ AcceptInsert(t) \/ Upsert(t) \/ Seat(t)
  \/ LeaveLock(t) \/ LeaveCheck(t)
  \/ RequestOrgs(t) \/ RequestCheck(t) \/ Requested(t)
  \/ FinalizeLock(t) \/ FinalizeCheck(t) \/ FinalizeWrite(t)
  \/ Guard(t) \/ Commit(t)
  \/ Deadlocked(t)

Request(t) == AskChange(t) \/ AskOwn(t) \/ AskDeletion(t)

Next ==
  \/ \E t \in Tabs : Request(t) \/ PickDue(t) \/ Step(t)
  \/ Invite \/ Answer \/ Keep \/ SetPlan \/ Expire \/ Lapse \/ Forget

Spec == Init /\ [][Next]_vars

(* The cron is called every day, and a transaction that can go on does. *)
Cron == \E t \in Tabs : PickDue(t)
Fairness == /\ WF_vars(Cron) /\ WF_vars(Forget) /\ WF_vars(Lapse)
            /\ \A t \in Tabs : WF_vars(Step(t))
FairSpec == Spec /\ Fairness

-----------------------------------------------------------------------------
(* Properties *)

TypeOK ==
  /\ member \in [Orgs -> [Users -> Rows]]
  /\ invite \in [Orgs -> [Users -> [state : States, role : Roles \ {"owner"}]]]
  /\ ceiling \in [Orgs -> Ceilings \cup {NoCeiling}]
  /\ due \subseteq asked /\ asked \subseteq Users /\ gone \subseteq Users
  /\ closed \subseteq Orgs /\ strays \subseteq Orgs
  /\ tx \in [Tabs -> [op : Ops, pc : Steps, who : Users \cup {Nobody},
                      org : Orgs \cup {Nobody}, on : Users \cup {Nobody},
                      role : Roles, holds : SUBSET Locks, wrote : SUBSET Orgs,
                      closes : SUBSET Orgs, seats : Ceilings \cup {NoCeiling},
                      moved : BOOLEAN, came : BOOLEAN]]
  /\ events \in 0..MaxEvents

(* However Role changes, removals, departures and deletions overlap, an Org   *)
(* with anybody in it has somebody whose row is an Owner's.  Excused: somebody *)
(* re-admitted by an Admin who was on their way out, while the scrub of the    *)
(* last Member emptied the Org.                                                 *)
OwnerKept == \A o \in Orgs \ strays : Live(member[o]) # {} => Owners(member[o]) # {}

(* Two people admitted at once never pass the ceiling either of them was      *)
(* counted against, unless the plan changed while they were being admitted, or *)
(* while somebody was who had not been before they came.                        *)
SeatsHold ==
  [][\A t \in Tabs, o \in Orgs :
       /\ tx[t].pc = "guarded" /\ tx'[t] = Idle
       /\ ~tx[t].moved /\ tx[t].seats # NoCeiling
       /\ Cardinality(Live(member[o])') > Cardinality(Live(member[o]))
       => Cardinality(Live(member[o])') <= tx[t].seats]_vars

(* Nobody comes into an Org but by an Owner's or Admin's re-admission, or by   *)
(* an invitation that is open until then, at the Role it names, and is spent.   *)
Admitted ==
  [][\A o \in Orgs, u \in Users :
       u \in Live(member[o])' \ Live(member[o]) =>
         \/ \E t \in Tabs : At(t, "readmit", "guarded") /\ tx[t].on = u /\ tx'[t] = Idle
         \/ /\ invite[o][u].state = "open" /\ invite'[o][u].state = "accepted"
            /\ member'[o][u].role = invite[o][u].role]_vars

(* Whoever leaves an Org is still in another when they have left, whatever    *)
(* their other tabs and the Admins of their other Orgs do: unless they came into *)
(* one after their memberships were locked, and went out of it again.             *)
SomewhereToGo ==
  [][\A t \in Tabs :
       At(t, "leave", "guarded") /\ ~tx[t].came /\ tx'[t] = Idle /\ member' # member
       => \E o \in Orgs : tx[t].on \in Live(member[o])']_vars

(* An Org closed with its last Member's account stays empty, and no            *)
(* invitation into it can still be accepted (excused as OwnerKept is).          *)
ClosedIsOver ==
  \A o \in closed \ strays :
    /\ Live(member[o]) = {}
    /\ \A u \in Users : invite[o][u].state \notin {"open", "expired"}

(* A request past its grace is carried out, sign-in included, unless it is     *)
(* taken back or an Org has nobody else to run it.                              *)
Deleted(u) == u \in gone \ asked
Stands(u) == u \in due /\ Blockers(u) = {}
DeletionsFinish == \A u \in Users : Stands(u) ~> (Deleted(u) \/ (~Stands(u) /\ u \notin gone))

(* Doc: "the last-Owner trigger holds the Org to an Owner who is staying"       *)
(* (20260925190000_history_and_deletion.sql:506-507).                            *)
RunByStaying ==
  \A o \in Orgs : Cardinality(Live(member[o])) > 1 => Staying(member[o]) # {}
=============================================================================
