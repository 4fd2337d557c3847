------------------------------ MODULE Approval ------------------------------
(***************************************************************************)
(* How an Org comes to exist, waits for the operator's approval, gets a plan  *)
(* and, while it still waits, may be deleted: sign-in and "New Org"           *)
(* (apps/web/lib/auth/bootstrap.ts), the operator's saves                     *)
(* (apps/web/lib/subscriptions.ts), sessclone_delete_pending_org, and the     *)
(* history those saves leave, which says when a Tier without transcripts      *)
(* makes the sweep take the stored ones.                                       *)
(*                                                                          *)
(* Every request is a transaction of its own at read committed, one step per  *)
(* statement that can wait, with the locks it has in `holds`: the person's    *)
(* advisory lock, the users row they are inserting, the Org's row, and its    *)
(* subscription.                                                               *)
(***************************************************************************)
EXTENDS Naturals, FiniteSets

CONSTANTS
  Orgs,        \* ids an Org can be given
  People,
  Operator,    \* a platform admin
  Nobody,
  Tabs,        \* requests that can be under way at once
  Plans,       \* what the operator saves
  MaxEvents    \* bound: requests, which are also the moments they begin at

Tiers == {"team", "personal"}
Archives == {"team"}   \* archival_available
Statuses == {"inactive", "active", "past_due", "cancelled"}
Subscriptions == [tier : Tiers, status : Statuses, price : {"listed", "agreed"}]
NoPlan == [tier |-> "none", status |-> "none", price |-> "none"]

ASSUME ConstantsAssumption ==
  /\ Plans \subseteq Subscriptions
  /\ MaxEvents \in Nat
  /\ Operator \notin People /\ Nobody \notin People \cup Orgs /\ Nobody # Operator

VARIABLES
  signed,    \* people with a users row
  owner,     \* owner[o]: who founded o, Nobody if it does not exist
  plan,      \* plan[o]: the subscriptions row of o, or NoPlan
  history,   \* history[o]: the subscription_events of o, see Events
  deleted,   \* ids of Orgs that were deleted
  used,      \* Orgs with Turns, which nothing deletes
  settled,   \* Orgs that have ever been past waiting
  told,      \* Orgs whose Owners were told since they were last let in
  missed,    \* Orgs last locked while a save that had read them as in was under way
  moved,     \* moved[o]: when o was last moved off a Tier with transcripts, or 0
  late,      \* Orgs with an event that began before one already recorded
  tx, events

tables == <<signed, owner, plan, history, deleted, used, settled, told, missed, moved, late>>
vars == <<tables, tx, events>>

Moments == 1 .. MaxEvents
Events == [at : Moments, tier : Tiers]   \* occurred_at is when the transaction began

(* lib/approval.ts: what lets an Org in, and what waits for the operator. *)
Unlocked(row) == row.status \in {"active", "past_due"}
Waits(row) == row.status \in {"none", "inactive"}

Owned(u) == {o \in Orgs : owner[o] = u}
Waiting(u) == {o \in Owned(u) : Waits(plan[o])}

-----------------------------------------------------------------------------
(* Transactions *)

Ops == {"idle", "signin", "create", "save", "delete"}
Steps == {"idle", "asked", "user", "mine", "made", "write", "event", "done",
          "allowed", "locked", "doomed"}
Idle == [op |-> "idle", pc |-> "idle", who |-> Nobody, org |-> Nobody, row |-> NoPlan,
         before |-> NoPlan, at |-> 0, holds |-> {}]

UserLock(u) == <<"user", u>>
OwnLock(u) == <<"own", u>>
OrgLock(o) == <<"org", o>>
PlanLock(o) == <<"plan", o>>
Locks == ({"user", "own"} \X People) \cup ({"org", "plan"} \X Orgs)

At(t, op, pc) == tx[t].op = op /\ tx[t].pc = pc

(* Mutant: nobody takes the person's lock. *)
OwnLocksNone(t) == {}

PeopleLocks(t) ==
  IF At(t, "signin", "asked") /\ tx[t].who \notin signed THEN {UserLock(tx[t].who)} ELSE {}
OwnLocks(t) ==
  IF At(t, "signin", "user") \/ At(t, "create", "asked") THEN {OwnLock(tx[t].who)} ELSE {}

(* Mutant: the deletion locks the subscription, which may not be there, alone. *)
OrgLocksOfSaves(t) ==
  IF At(t, "save", "event") THEN {OrgLock(tx[t].org)} ELSE {}

(* A save holds its Org's row as a foreign key does, which only a deletion minds: *)
(* two saves of one Org meet at the subscription before that.                       *)
OrgLocks(t) ==
  IF At(t, "save", "event") \/ At(t, "delete", "allowed") THEN {OrgLock(tx[t].org)} ELSE {}
PlanLocks(t) ==
  IF At(t, "save", "write") \/ (At(t, "delete", "locked") /\ plan[tx[t].org] # NoPlan)
  THEN {PlanLock(tx[t].org)} ELSE {}

(* The locks transaction t takes in its next step, or waits for. *)
Needs(t) == (PeopleLocks(t) \cup OwnLocks(t)) \cup (OrgLocks(t) \cup PlanLocks(t))
Free(t) == \A s \in Tabs \ {t} : Needs(t) \cap tx[s].holds = {}
Goes(t, x) == tx' = [tx EXCEPT ![t] = [x EXCEPT !.holds = @ \cup Needs(t)]]
To(t, pc) == Goes(t, [tx[t] EXCEPT !.pc = pc]) /\ UNCHANGED <<tables, events>>

Ends(t) == tx' = [tx EXCEPT ![t] = Idle]
Refused(t) == Ends(t) /\ UNCHANGED <<tables, events>>

Ask(t, x) ==
  /\ tx[t].op = "idle" /\ events < MaxEvents
  /\ events' = events + 1
  /\ tx' = [tx EXCEPT ![t] = [x EXCEPT !.pc = "asked", !.at = events + 1]]
  /\ UNCHANGED tables

-----------------------------------------------------------------------------
(* Sign-in and "New Org": ensureOrgForSigner, createOwnOrg, foundOrg *)

AskSignIn(t) == \E u \in People : Ask(t, [Idle EXCEPT !.op = "signin", !.who = u])
AskNewOrg(t) == \E u \in signed : Ask(t, [Idle EXCEPT !.op = "create", !.who = u])

(* insert into users ... on conflict (id) do nothing, which waits for the same *)
(* person's first sign-in in another tab.                                       *)
InsertUser(t) == At(t, "signin", "asked") /\ Free(t) /\ To(t, "user")

LockOwn(t) ==
  /\ At(t, "signin", "user") \/ At(t, "create", "asked")
  /\ Free(t) /\ To(t, "mine")

(* Ids are random: one nobody has, or is about to have. *)
FreshIds ==
  {o \in Orgs \ deleted : owner[o] = Nobody /\ \A t \in Tabs : ~(tx[t].pc = "made" /\ tx[t].org = o)}

(* Mutant: a row is written though no Tier was asked for. *)
RequestsOfNoTier ==
  {NoPlan} \cup [tier : Tiers \cup {"none"}, status : {"inactive"}, price : {"listed"}]

(* requestPlan: a plan to be confirmed, or none, or one that was refused. *)
Requests == {NoPlan} \cup [tier : Tiers, status : {"inactive"}, price : {"listed"}]

Found(t) == \E o \in FreshIds, row \in Requests :
  Goes(t, [tx[t] EXCEPT !.pc = "made", !.org = o, !.row = row]) /\ UNCHANGED <<tables, events>>

(* Whoever has an Org to be in gets none, and neither does somebody on their  *)
(* way to an invitation.                                                        *)
DecideSignIn(t) ==
  LET u == tx[t].who
  IN /\ At(t, "signin", "mine")
     /\ \/ Owned(u) = {} /\ Found(t)
        \/ /\ Ends(t) /\ signed' = signed \cup {u}
           /\ UNCHANGED <<owner, plan, history, deleted, used, settled, told, missed, moved, late, events>>

DecideNewOrg(t) ==
  /\ At(t, "create", "mine")
  /\ IF Waiting(tx[t].who) = {} THEN Found(t) ELSE Refused(t)

CommitOrg(t) ==
  LET x == tx[t]
  IN /\ x.pc = "made"
     /\ signed' = signed \cup {x.who}
     /\ owner' = [owner EXCEPT ![x.org] = x.who]
     /\ plan' = [plan EXCEPT ![x.org] = x.row]
     /\ history' = [history EXCEPT ![x.org] =
          IF x.row = NoPlan THEN {} ELSE {[at |-> x.at, tier |-> x.row.tier]}]
     /\ Ends(t)
     /\ UNCHANGED <<deleted, used, settled, told, missed, moved, late, events>>

-----------------------------------------------------------------------------
(* The operator saves a plan: setSubscription *)

AskSave(t) == \E o \in Orgs, row \in Plans :
  owner[o] # Nobody /\ Ask(t, [Idle EXCEPT !.op = "save", !.org = o, !.row = row])

(* Mutant: read once the row is written. *)
ReadAfter(t) ==
  /\ At(t, "save", "asked")
  /\ Goes(t, [tx[t] EXCEPT !.pc = "write", !.before = tx[t].row])
  /\ UNCHANGED <<tables, events>>

ReadBefore(t) ==
  /\ At(t, "save", "asked")
  /\ Goes(t, [tx[t] EXCEPT !.pc = "write", !.before = plan[tx[t].org]])
  /\ UNCHANGED <<tables, events>>

(* The upsert, and its trigger: an event unless nothing it records changed. *)
Changes(t) == plan[tx[t].org] # tx[t].row
Write(t) ==
  /\ At(t, "save", "write") /\ Free(t)
  /\ To(t, IF Changes(t) THEN "event" ELSE "done")

(* The foreign keys to the Org. *)
Event(t) ==
  /\ At(t, "save", "event") /\ Free(t)
  /\ IF owner[tx[t].org] = Nobody THEN Refused(t) ELSE To(t, "done")

(* `approved`, whose Owners notifyApproval tells. *)
Approved(t) == ~Unlocked(tx[t].before) /\ Unlocked(tx[t].row)

(* Another save of the Org has read it as in, and has yet to write. *)
Overtakes(t) == \E s \in Tabs \ {t} :
  /\ tx[s].op = "save" /\ tx[s].org = tx[t].org
  /\ tx[s].pc # "asked" /\ Unlocked(tx[s].before)

CommitSave(t) ==
  LET x == tx[t]  o == x.org  old == plan[o]
  IN /\ At(t, "save", "done")
     /\ plan' = [plan EXCEPT ![o] = x.row]
     /\ history' = IF Changes(t)
          THEN [history EXCEPT ![o] = @ \cup {[at |-> x.at, tier |-> x.row.tier]}] ELSE history
     /\ late' = IF Changes(t) /\ (\E e \in history[o] : e.at > x.at) THEN late \cup {o} ELSE late
     /\ moved' = IF old.tier \in Archives /\ x.row.tier \notin Archives
          THEN [moved EXCEPT ![o] = x.at] ELSE moved
     /\ settled' = IF Waits(x.row) THEN settled ELSE settled \cup {o}
     /\ told' = IF Approved(t) THEN told \cup {o} ELSE IF Unlocked(x.row) THEN told ELSE told \ {o}
     /\ missed' = IF ~Unlocked(x.row) /\ Overtakes(t) THEN missed \cup {o}
          ELSE IF ~Unlocked(x.row) \/ Approved(t) THEN missed \ {o} ELSE missed
     /\ Ends(t)
     /\ UNCHANGED <<signed, owner, deleted, used, events>>

(* Mutant: every event restarts the seven days. *)
TranscriptsEndLast(o) ==
  LET ats == {e.at : e \in history[o]}
  IN CHOOSE at \in ats : \A other \in ats : at >= other

(* sessclone_transcripts_end, less the seven days: the first event after the   *)
(* last on a Tier with transcripts.  0 is -infinity.                            *)
TranscriptsEnd(o) ==
  LET kept == {e.at : e \in {e \in history[o] : e.tier \in Archives}}
      after == {e.at : e \in {e \in history[o] : \A at \in kept : e.at > at}}
  IN IF after = {} THEN 0 ELSE CHOOSE at \in after : \A other \in after : at <= other

-----------------------------------------------------------------------------
(* Deleting an Org that waits: sessclone_delete_pending_org *)

AskDelete(t) == \E o \in Orgs, w \in signed \cup {Operator} :
  owner[o] # Nobody /\ Ask(t, [Idle EXCEPT !.op = "delete", !.who = w, !.org = o])

Allow(t) ==
  /\ At(t, "delete", "asked")
  /\ IF tx[t].who \in {owner[tx[t].org], Operator} THEN To(t, "allowed") ELSE Refused(t)

LockOrg(t) ==
  /\ At(t, "delete", "allowed") /\ Free(t)
  /\ IF owner[tx[t].org] = Nobody THEN Refused(t) ELSE To(t, "locked")

(* The status, and the keys that guard Turns. *)
LockPlan(t) ==
  LET o == tx[t].org
  IN /\ At(t, "delete", "locked") /\ Free(t)
     /\ IF Waits(plan[o]) /\ o \notin used THEN To(t, "doomed") ELSE Refused(t)

CommitDelete(t) ==
  LET o == tx[t].org
  IN /\ At(t, "delete", "doomed")
     /\ owner' = [owner EXCEPT ![o] = Nobody]
     /\ plan' = [plan EXCEPT ![o] = NoPlan]
     /\ history' = [history EXCEPT ![o] = {}]
     /\ deleted' = deleted \cup {o}
     /\ Ends(t)
     /\ UNCHANGED <<signed, used, settled, told, missed, moved, late, events>>

(* A Collector of an unlocked Org reports: its Turns keep the Org, and wait for *)
(* a deletion that has the Org's row.                                             *)
Use(o) ==
  /\ Unlocked(plan[o]) /\ o \notin used
  /\ \A t \in Tabs : tx[t].op = "delete" => OrgLock(o) \notin tx[t].holds
  /\ used' = used \cup {o}
  /\ UNCHANGED <<signed, owner, plan, history, deleted, settled, told, missed, moved, late, tx, events>>

(* A save has the subscription and wants the Org, a deletion the other way    *)
(* round: Postgres ends one of them.                                            *)
Deadlocked(t) ==
  /\ \E s \in Tabs \ {t} : Needs(t) \cap tx[s].holds # {} /\ Needs(s) \cap tx[t].holds # {}
  /\ Refused(t)

-----------------------------------------------------------------------------

Init ==
  /\ signed = {} /\ deleted = {} /\ used = {} /\ settled = {}
  /\ told = {} /\ missed = {} /\ late = {}
  /\ owner = [o \in Orgs |-> Nobody]
  /\ plan = [o \in Orgs |-> NoPlan]
  /\ history = [o \in Orgs |-> {}]
  /\ moved = [o \in Orgs |-> 0]
  /\ tx = [t \in Tabs |-> Idle]
  /\ events = 0

Founding(t) == InsertUser(t) \/ LockOwn(t) \/ DecideSignIn(t) \/ DecideNewOrg(t) \/ CommitOrg(t)
Saving(t) == ReadBefore(t) \/ Write(t) \/ Event(t) \/ CommitSave(t)
Deleting(t) == Allow(t) \/ LockOrg(t) \/ LockPlan(t) \/ CommitDelete(t)

Next ==
  \/ \E t \in Tabs :
       \/ AskSignIn(t) \/ AskNewOrg(t) \/ AskSave(t) \/ AskDelete(t)
       \/ Founding(t) \/ Saving(t) \/ Deleting(t) \/ Deadlocked(t)
  \/ \E o \in Orgs : Use(o)

Spec == Init /\ [][Next]_vars

-----------------------------------------------------------------------------
(* Properties *)

TypeOK ==
  /\ signed \subseteq People
  /\ owner \in [Orgs -> People \cup {Nobody}]
  /\ plan \in [Orgs -> Subscriptions \cup {NoPlan}]
  /\ history \in [Orgs -> SUBSET Events]
  /\ deleted \subseteq Orgs /\ used \subseteq Orgs /\ settled \subseteq Orgs
  /\ told \subseteq Orgs /\ missed \subseteq Orgs /\ late \subseteq Orgs
  /\ moved \in [Orgs -> 0 .. MaxEvents]
  /\ tx \in [Tabs -> [op : Ops, pc : Steps, who : People \cup {Nobody, Operator},
                      org : Orgs \cup {Nobody}, row : Subscriptions \cup {NoPlan},
                      before : Subscriptions \cup {NoPlan}, at : 0 .. MaxEvents,
                      holds : SUBSET Locks]]
  /\ events \in 0 .. MaxEvents

(* "At most one the person owns that is waiting" (createOwnOrg), however many  *)
(* tabs sign in and start Orgs.  The operator may put back Orgs that have been  *)
(* past waiting.                                                                 *)
Unsettled(u) == {o \in Waiting(u) : o \notin settled}
OneWaiting == \A u \in People, o, p \in Orgs : {o, p} \subseteq Unsettled(u) => o = p

(* An approval that lands while the Org is being deleted is read, or waits and  *)
(* fails: what is deleted was waiting until then, and had no Turns.              *)
DeletedWaiting ==
  [][\A o \in deleted' \ deleted : Waits(plan[o]) /\ o \notin used]_vars

(* "This save let a locked Org in, so its Owners are told" (setSubscription):   *)
(* the Owners of an Org that is in were told of it since it was last locked, and  *)
(* no plan is left of an Org that is not there.  Excused: an Org locked over the  *)
(* head of a save that had read it as in, which lets it in again and tells nobody. *)
InIsTold ==
  \A o \in Orgs : Unlocked(plan[o]) => o \in told \cup missed /\ owner[o] # Nobody

(* The same without the excuse, and that only a save that lets an Org in is said *)
(* to (subscriptions.test.ts:573).  TLC refutes both.                              *)
AdmissionIsTold == \A o \in Orgs : Unlocked(plan[o]) => o \in told
OnlyAdmissionsAreTold ==
  [][\A t \in Tabs : CommitSave(t) /\ Approved(t) => ~Unlocked(plan[tx[t].org])]_vars

(* The seven days count from the move to a Tier without transcripts: neither a  *)
(* later change of status or price restarts them, nor an earlier move ends them. *)
(* Excused: saves that began in another order than they were written in.         *)
GraceFromTheMove ==
  \A o \in Orgs \ late :
    moved[o] # 0 /\ plan[o].status = "active" /\ plan[o].tier \notin Archives
    => TranscriptsEnd(o) = moved[o]
=============================================================================
