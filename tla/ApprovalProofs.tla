--------------------------- MODULE ApprovalProofs ---------------------------
(***************************************************************************)
(* Proofs about Approval, for any number of Orgs, people and requests: its    *)
(* types, that nobody has two Orgs waiting, that only a waiting Org is        *)
(* deleted, that the Owners of an Org that is in were told of it unless two    *)
(* saves met, and when the seven days of one without transcripts begin.       *)
(***************************************************************************)
EXTENDS Approval, TLAPS

-----------------------------------------------------------------------------
(* Types *)

\* What a request carries, by what it is.
TxInv ==
  \A t \in Tabs :
    /\ tx[t].op = "idle" <=> tx[t].pc = "idle"
    /\ tx[t].op # "idle" => tx[t].at \in Moments
    /\ tx[t].op \in {"signin", "create"} =>
         tx[t].who \in People /\ tx[t].pc \in {"asked", "user", "mine", "made"}
    /\ tx[t].op = "save" =>
         /\ tx[t].org \in Orgs /\ tx[t].row \in Subscriptions
         /\ tx[t].pc \in {"asked", "write", "event", "done"}
    /\ tx[t].op = "delete" =>
         tx[t].org \in Orgs /\ tx[t].pc \in {"asked", "allowed", "locked", "doomed"}
    /\ tx[t].pc = "made" => tx[t].org \in Orgs /\ tx[t].row \in Requests

TypeInv == TypeOK /\ TxInv

Requested == [op : Ops, pc : Steps, who : People \cup {Nobody, Operator},
              org : Orgs \cup {Nobody}, row : Subscriptions \cup {NoPlan},
              before : Subscriptions \cup {NoPlan}, at : 0 .. MaxEvents,
              holds : SUBSET Locks]

LEMMA IdleType == Idle \in Requested
BY ConstantsAssumption DEF Idle, Requested, Ops, Steps

LEMMA NeedsType ==
  ASSUME TypeInv, NEW t \in Tabs
  PROVE  Needs(t) \in SUBSET Locks
<1>1. PeopleLocks(t) \in SUBSET Locks
  BY DEF TypeInv, TxInv, PeopleLocks, UserLock, Locks, At
<1>2. OwnLocks(t) \in SUBSET Locks
  BY DEF TypeInv, TxInv, OwnLocks, OwnLock, Locks, At
<1>3. OrgLocks(t) \in SUBSET Locks
  BY DEF TypeInv, TxInv, OrgLocks, OrgLock, Locks, At
<1>4. PlanLocks(t) \in SUBSET Locks
  BY DEF TypeInv, TxInv, PlanLocks, PlanLock, Locks, At
<1> QED
  BY <1>1, <1>2, <1>3, <1>4 DEF Needs

\* One request moves on.
LEMMA GoesType ==
  ASSUME TypeInv, NEW t \in Tabs, NEW x \in Requested, Goes(t, x)
  PROVE  tx' \in [Tabs -> Requested]
BY NeedsType DEF TypeInv, TypeOK, Requested, Goes

LEMMA RequestType ==
  ASSUME TypeInv, NEW t \in Tabs
  PROVE  /\ tx[t] \in Requested
         /\ \A pc \in Steps : [tx[t] EXCEPT !.pc = pc] \in Requested
BY DEF TypeInv, TypeOK, Requested

LEMMA ToType ==
  ASSUME TypeInv, NEW t \in Tabs, NEW pc \in Steps, To(t, pc)
  PROVE  TypeOK'
<1>1. tx' \in [Tabs -> Requested]
  BY RequestType, GoesType DEF To
<1> QED
  BY <1>1 DEF To, TypeInv, TypeOK, Requested, tables

LEMMA EndsType ==
  ASSUME TypeInv, NEW t \in Tabs, Ends(t)
  PROVE  tx' \in [Tabs -> Requested]
BY IdleType DEF TypeInv, TypeOK, Requested, Ends

LEMMA RefusedType ==
  ASSUME TypeInv, NEW t \in Tabs, Refused(t)
  PROVE  TypeOK'
BY EndsType DEF Refused, TypeInv, TypeOK, Requested, tables

LEMMA AskType ==
  ASSUME TypeInv, NEW t \in Tabs, NEW x \in Requested, Ask(t, x)
  PROVE  TypeOK'
<1>1. events + 1 \in 0 .. MaxEvents
  BY ConstantsAssumption DEF Ask, TypeInv, TypeOK
<1>2. tx' \in [Tabs -> Requested]
  BY <1>1 DEF Ask, TypeInv, TypeOK, Requested, Steps
<1> QED
  BY <1>1, <1>2 DEF Ask, TypeInv, TypeOK, Requested, tables

\* The others keep what they carry.
LEMMA OthersKeep ==
  ASSUME TypeInv, NEW t \in Tabs, NEW x, tx' = [tx EXCEPT ![t] = x]
  PROVE  tx'[t] = x /\ \A s \in Tabs \ {t} : tx'[s] = tx[s]
BY DEF TypeInv, TypeOK

\* A step to another point of the same request, or to its end.
LEMMA ToKeeps ==
  ASSUME TypeInv, NEW t \in Tabs, NEW pc \in Steps, To(t, pc),
         pc # "idle", pc # "made", tx[t].op # "idle",
         tx[t].op \in {"signin", "create"} => pc \in {"asked", "user", "mine", "made"},
         tx[t].op = "save" => pc \in {"asked", "write", "event", "done"},
         tx[t].op = "delete" => pc \in {"asked", "allowed", "locked", "doomed"}
  PROVE  TypeInv'
<1> DEFINE x == [[tx[t] EXCEPT !.pc = pc] EXCEPT !.holds = @ \cup Needs(t)]
<1>1. tx' = [tx EXCEPT ![t] = x]
  BY DEF To, Goes
<1>2. tx[t] \in Requested
  BY RequestType
<1>3. /\ x.op = tx[t].op /\ x.pc = pc /\ x.who = tx[t].who /\ x.org = tx[t].org
      /\ x.row = tx[t].row /\ x.at = tx[t].at
  BY <1>2 DEF Requested
<1>4. tx'[t] = x /\ \A s \in Tabs \ {t} : tx'[s] = tx[s]
  BY <1>1, OthersKeep
<1>5. TxInv'
  <2> HIDE DEF x
  <2> QED BY <1>3, <1>4 DEF TypeInv, TxInv
<1> QED
  BY <1>5, ToType DEF TypeInv

LEMMA EndsKeeps ==
  ASSUME TypeInv, NEW t \in Tabs, Ends(t)
  PROVE  TxInv'
<1>1. tx'[t] = Idle /\ \A s \in Tabs \ {t} : tx'[s] = tx[s]
  BY OthersKeep DEF Ends
<1> QED
  BY <1>1 DEF TypeInv, TxInv, Idle

LEMMA RefusedKeeps ==
  ASSUME TypeInv, NEW t \in Tabs, Refused(t)
  PROVE  TypeInv'
BY RefusedType, EndsKeeps DEF Refused, TypeInv

LEMMA AskKeeps ==
  ASSUME TypeInv, NEW t \in Tabs, NEW x \in Requested, Ask(t, x), x.op # "idle",
         x.op \in {"signin", "create"} => x.who \in People,
         x.op = "save" => x.org \in Orgs /\ x.row \in Subscriptions,
         x.op = "delete" => x.org \in Orgs
  PROVE  TypeInv'
<1> DEFINE y == [x EXCEPT !.pc = "asked", !.at = events + 1]
<1>1. tx'[t] = y /\ \A s \in Tabs \ {t} : tx'[s] = tx[s]
  BY OthersKeep DEF Ask
<1>2. /\ y.op = x.op /\ y.pc = "asked" /\ y.who = x.who /\ y.org = x.org
      /\ y.row = x.row /\ y.at = events + 1
  BY DEF Requested
<1>3. events + 1 \in Moments
  BY ConstantsAssumption DEF Ask, TypeInv, TypeOK, Moments
<1>4. TxInv'
  <2> HIDE DEF y
  <2> QED BY <1>1, <1>2, <1>3 DEF TypeInv, TxInv
<1> QED
  BY <1>4, AskType DEF TypeInv

LEMMA FoundKeeps ==
  ASSUME TypeInv, NEW t \in Tabs, Found(t), tx[t].op \in {"signin", "create"}
  PROVE  TypeInv'
<1>1. PICK o \in FreshIds, row \in Requests :
        Goes(t, [tx[t] EXCEPT !.pc = "made", !.org = o, !.row = row])
        /\ UNCHANGED <<tables, events>>
  BY DEF Found
<1> DEFINE x == [tx[t] EXCEPT !.pc = "made", !.org = o, !.row = row]
<1>2. o \in Orgs /\ row \in Subscriptions \cup {NoPlan}
  BY DEF FreshIds, Requests, Subscriptions, Statuses
<1>3. x \in Requested
  <2>1. tx[t] \in Requested
    BY RequestType
  <2> QED
    BY <1>2, <2>1 DEF Requested, Steps
<1>4. tx' \in [Tabs -> Requested]
  BY <1>1, <1>3, GoesType
<1>5. TypeOK'
  BY <1>1, <1>4 DEF TypeInv, TypeOK, Requested, tables
<1> DEFINE y == [x EXCEPT !.holds = @ \cup Needs(t)]
<1>6. tx'[t] = y /\ \A s \in Tabs \ {t} : tx'[s] = tx[s]
  BY <1>1, OthersKeep DEF Goes
<1>7. /\ y.op = tx[t].op /\ y.pc = "made" /\ y.who = tx[t].who /\ y.org = o
      /\ y.row = row /\ y.at = tx[t].at
  BY RequestType DEF Requested
<1>8. TxInv'
  <2> HIDE DEF y
  <2> QED BY <1>2, <1>6, <1>7 DEF TypeInv, TxInv
<1> QED
  BY <1>5, <1>8 DEF TypeInv

LEMMA TypeStep ==
  ASSUME TypeInv, [Next]_vars
  PROVE  TypeInv'
<1> USE DEF At
<1>1. ASSUME NEW t \in Tabs, AskSignIn(t) PROVE TypeInv'
  <2>1. PICK u \in People : Ask(t, [Idle EXCEPT !.op = "signin", !.who = u])
    BY <1>1 DEF AskSignIn
  <2>2. [Idle EXCEPT !.op = "signin", !.who = u] \in Requested
    BY IdleType DEF Requested, Ops
  <2> QED
    BY <2>1, <2>2, AskKeeps DEF Idle
<1>2. ASSUME NEW t \in Tabs, AskNewOrg(t) PROVE TypeInv'
  <2>1. PICK u \in signed : Ask(t, [Idle EXCEPT !.op = "create", !.who = u])
    BY <1>2 DEF AskNewOrg
  <2>2. u \in People
    BY DEF TypeInv, TypeOK
  <2>3. [Idle EXCEPT !.op = "create", !.who = u] \in Requested
    BY <2>2, IdleType DEF Requested, Ops
  <2> QED
    BY <2>1, <2>2, <2>3, AskKeeps DEF Idle
<1>3. ASSUME NEW t \in Tabs, AskSave(t) PROVE TypeInv'
  <2>1. PICK o \in Orgs, row \in Plans : Ask(t, [Idle EXCEPT !.op = "save", !.org = o, !.row = row])
    BY <1>3 DEF AskSave
  <2>2. [Idle EXCEPT !.op = "save", !.org = o, !.row = row] \in Requested
    BY IdleType, ConstantsAssumption DEF Requested, Ops
  <2> QED
    BY <2>1, <2>2, AskKeeps, ConstantsAssumption DEF Idle
<1>4. ASSUME NEW t \in Tabs, AskDelete(t) PROVE TypeInv'
  <2>1. PICK o \in Orgs, w \in signed \cup {Operator} :
          Ask(t, [Idle EXCEPT !.op = "delete", !.who = w, !.org = o])
    BY <1>4 DEF AskDelete
  <2>2. [Idle EXCEPT !.op = "delete", !.who = w, !.org = o] \in Requested
    BY IdleType DEF Requested, Ops, TypeInv, TypeOK
  <2> QED
    BY <2>1, <2>2, AskKeeps DEF Idle
<1>5. ASSUME NEW t \in Tabs, InsertUser(t) \/ LockOwn(t) PROVE TypeInv'
  BY <1>5, ToKeeps DEF InsertUser, LockOwn, Steps
<1>6. ASSUME NEW t \in Tabs, DecideSignIn(t) PROVE TypeInv'
  <2>1. CASE Found(t)
    BY <1>6, <2>1, FoundKeeps DEF DecideSignIn
  <2>2. CASE ~Found(t)
    <3>1. /\ Ends(t) /\ signed' = signed \cup {tx[t].who} /\ tx[t].op = "signin"
          /\ UNCHANGED <<owner, plan, history, deleted, used, settled, told, missed, moved, late, events>>
      BY <1>6, <2>2 DEF DecideSignIn
    <3>2. tx[t].who \in People
      BY <3>1 DEF TypeInv, TxInv
    <3> QED
      BY <3>1, <3>2, EndsType, EndsKeeps DEF TypeInv, TypeOK, Requested
  <2> QED
    BY <2>1, <2>2
<1>7. ASSUME NEW t \in Tabs, DecideNewOrg(t) PROVE TypeInv'
  BY <1>7, FoundKeeps, RefusedKeeps DEF DecideNewOrg
<1>8. ASSUME NEW t \in Tabs, CommitOrg(t) PROVE TypeInv'
  <2>1. /\ tx[t].who \in People /\ tx[t].org \in Orgs /\ tx[t].row \in Requests
        /\ tx[t].at \in Moments
    <3>1. tx[t].pc = "made" /\ tx[t].op \in Ops
      BY <1>8, RequestType DEF CommitOrg, Requested
    <3> QED
      BY <3>1 DEF TypeInv, TxInv, Ops
  <2>2. /\ tx[t].row \in Subscriptions \cup {NoPlan}
        /\ tx[t].row # NoPlan => [at |-> tx[t].at, tier |-> tx[t].row.tier] \in Events
    BY <2>1 DEF Requests, Subscriptions, Statuses, Events
  <2> QED
    BY <1>8, <2>1, <2>2, EndsType, EndsKeeps DEF CommitOrg, TypeInv, TypeOK, Requested
<1>9. ASSUME NEW t \in Tabs, ReadBefore(t) PROVE TypeInv'
  <2> DEFINE x == [tx[t] EXCEPT !.pc = "write", !.before = plan[tx[t].org]]
             y == [x EXCEPT !.holds = @ \cup Needs(t)]
  <2>1. tx[t].op = "save" /\ tx[t].org \in Orgs
    BY <1>9 DEF ReadBefore, TypeInv, TxInv
  <2>2. x \in Requested
    <3>1. tx[t] \in Requested
      BY RequestType
    <3>2. plan[tx[t].org] \in Subscriptions \cup {NoPlan}
      BY <2>1 DEF TypeInv, TypeOK
    <3> QED
      BY <3>1, <3>2 DEF Requested, Steps
  <2>3. tx'[t] = y /\ \A s \in Tabs \ {t} : tx'[s] = tx[s]
    BY <1>9, OthersKeep DEF ReadBefore, Goes
  <2>4. /\ y.op = tx[t].op /\ y.pc = "write" /\ y.who = tx[t].who /\ y.org = tx[t].org
        /\ y.row = tx[t].row /\ y.at = tx[t].at
    BY RequestType DEF Requested
  <2>5. TxInv'
    <3> HIDE DEF y
    <3> QED BY <2>1, <2>3, <2>4 DEF TypeInv, TxInv
  <2>6. tx' \in [Tabs -> Requested]
    BY <1>9, <2>2, GoesType DEF ReadBefore
  <2> QED
    BY <1>9, <2>5, <2>6 DEF ReadBefore, TypeInv, TypeOK, Requested, tables
<1>10. ASSUME NEW t \in Tabs, Write(t) PROVE TypeInv'
  BY <1>10, ToKeeps DEF Write, Steps
<1>11. ASSUME NEW t \in Tabs, Event(t) PROVE TypeInv'
  BY <1>11, ToKeeps, RefusedKeeps DEF Event, Steps
<1>12. ASSUME NEW t \in Tabs, CommitSave(t) PROVE TypeInv'
  <2>1. /\ tx[t].org \in Orgs /\ tx[t].row \in Subscriptions /\ tx[t].at \in Moments
    BY <1>12 DEF CommitSave, TypeInv, TxInv
  <2>2. [at |-> tx[t].at, tier |-> tx[t].row.tier] \in Events /\ tx[t].at \in 0 .. MaxEvents
    BY <2>1, ConstantsAssumption DEF Subscriptions, Events, Moments
  <2> QED
    BY <1>12, <2>1, <2>2, EndsType, EndsKeeps DEF CommitSave, TypeInv, TypeOK, Requested
<1>13. ASSUME NEW t \in Tabs, Allow(t) \/ LockOrg(t) \/ LockPlan(t) PROVE TypeInv'
  BY <1>13, ToKeeps, RefusedKeeps DEF Allow, LockOrg, LockPlan, Steps
<1>14. ASSUME NEW t \in Tabs, CommitDelete(t) PROVE TypeInv'
  <2>1. tx[t].org \in Orgs
    BY <1>14 DEF CommitDelete, TypeInv, TxInv
  <2> QED
    BY <1>14, <2>1, EndsType, EndsKeeps DEF CommitDelete, TypeInv, TypeOK, Requested
<1>15. ASSUME NEW t \in Tabs, Deadlocked(t) PROVE TypeInv'
  BY <1>15, RefusedKeeps DEF Deadlocked
<1>16. ASSUME NEW o \in Orgs, Use(o) PROVE TypeInv'
  BY <1>16 DEF Use, TypeInv, TypeOK, TxInv
<1>17. CASE UNCHANGED vars
  BY <1>17 DEF vars, tables, TypeInv, TypeOK, TxInv
<1> QED
  BY <1>1, <1>2, <1>3, <1>4, <1>5, <1>6, <1>7, <1>8, <1>9, <1>10, <1>11, <1>12, <1>13,
     <1>14, <1>15, <1>16, <1>17 DEF Next, Founding, Saving, Deleting

LEMMA TypeInvariant == Spec => []TypeInv
<1>1. Init => TypeInv
  <2> SUFFICES ASSUME Init PROVE TypeInv
    OBVIOUS
  <2>1. TypeOK
    BY IdleType, ConstantsAssumption DEF Init, TypeOK, Requested
  <2>2. TxInv
    BY DEF Init, TxInv, Idle
  <2> QED
    BY <2>1, <2>2 DEF TypeInv
<1> QED
  BY <1>1, TypeStep, PTL DEF Spec

\* Every request, row and event has its type.
THEOREM TypeCorrect == Spec => []TypeOK
<1>1. TypeInv => TypeOK
  BY DEF TypeInv
<1> QED
  BY <1>1, TypeInvariant, PTL

-----------------------------------------------------------------------------
(* What a step makes of its request *)

LEMMA ToFacts ==
  ASSUME TypeInv, NEW t \in Tabs, NEW pc \in Steps, To(t, pc)
  PROVE  /\ tx'[t].op = tx[t].op /\ tx'[t].pc = pc /\ tx'[t].who = tx[t].who
         /\ tx'[t].org = tx[t].org /\ tx'[t].row = tx[t].row /\ tx'[t].before = tx[t].before
         /\ tx'[t].holds = tx[t].holds \cup Needs(t)
         /\ \A s \in Tabs \ {t} : tx'[s] = tx[s]
         /\ UNCHANGED tables
<1>1. tx[t] \in Requested
  BY RequestType
<1>2. tx'[t] = [[tx[t] EXCEPT !.pc = pc] EXCEPT !.holds = @ \cup Needs(t)]
      /\ \A s \in Tabs \ {t} : tx'[s] = tx[s]
  BY OthersKeep DEF To, Goes
<1> QED
  BY <1>1, <1>2 DEF To, Requested

LEMMA EndFacts ==
  ASSUME TypeInv, NEW t \in Tabs, Ends(t)
  PROVE  /\ tx'[t].op = "idle" /\ tx'[t].pc = "idle" /\ tx'[t].holds = {}
         /\ \A s \in Tabs \ {t} : tx'[s] = tx[s]
<1>1. tx'[t] = Idle /\ \A s \in Tabs \ {t} : tx'[s] = tx[s]
  BY OthersKeep DEF Ends
<1> QED
  BY <1>1 DEF Idle

\* A request that begins.
Begins(t) ==
  /\ tx'[t].op \in {"signin", "create", "save", "delete"} /\ tx'[t].pc = "asked"
  /\ tx'[t].holds = {}
  /\ tx'[t].op \in {"save", "delete"} => owner[tx'[t].org] # Nobody
  /\ \A s \in Tabs \ {t} : tx'[s] = tx[s]
  /\ UNCHANGED tables

LEMMA AskFacts ==
  ASSUME TypeInv, NEW t \in Tabs,
         AskSignIn(t) \/ AskNewOrg(t) \/ AskSave(t) \/ AskDelete(t)
  PROVE  Begins(t)
<1>1. ASSUME NEW x \in Requested, Ask(t, x)
      PROVE  /\ tx'[t].op = x.op /\ tx'[t].pc = "asked" /\ tx'[t].holds = x.holds
             /\ tx'[t].org = x.org
             /\ \A s \in Tabs \ {t} : tx'[s] = tx[s]
             /\ UNCHANGED tables
  <2>1. tx'[t] = [x EXCEPT !.pc = "asked", !.at = events + 1]
        /\ \A s \in Tabs \ {t} : tx'[s] = tx[s]
    BY <1>1, OthersKeep DEF Ask
  <2>2. UNCHANGED tables
    BY <1>1 DEF Ask
  <2>3. LET y == [x EXCEPT !.pc = "asked", !.at = events + 1]
        IN y.op = x.op /\ y.pc = "asked" /\ y.holds = x.holds /\ y.org = x.org
    BY DEF Requested
  <2> QED
    BY <2>1, <2>2, <2>3
<1>2. ASSUME NEW op \in {"signin", "create"}, NEW u \in People,
             Ask(t, [Idle EXCEPT !.op = op, !.who = u])
      PROVE  Begins(t)
  <2>1. [Idle EXCEPT !.op = op, !.who = u] \in Requested
    BY IdleType DEF Requested, Ops
  <2> QED
    BY <1>1, <1>2, <2>1 DEF Idle, Begins
<1>3. ASSUME NEW o \in Orgs, owner[o] # Nobody, NEW row \in Plans,
             Ask(t, [Idle EXCEPT !.op = "save", !.org = o, !.row = row])
      PROVE  Begins(t)
  <2>1. [Idle EXCEPT !.op = "save", !.org = o, !.row = row] \in Requested
    BY IdleType, ConstantsAssumption DEF Requested, Ops
  <2> QED
    BY <1>1, <1>3, <2>1 DEF Idle, Begins
<1>4. ASSUME NEW o \in Orgs, owner[o] # Nobody, NEW w \in signed \cup {Operator},
             Ask(t, [Idle EXCEPT !.op = "delete", !.who = w, !.org = o])
      PROVE  Begins(t)
  <2>1. [Idle EXCEPT !.op = "delete", !.who = w, !.org = o] \in Requested
    BY IdleType DEF Requested, Ops, TypeInv, TypeOK
  <2> QED
    BY <1>1, <1>4, <2>1 DEF Idle, Begins
<1> QED
  BY <1>2, <1>3, <1>4 DEF AskSignIn, AskNewOrg, AskSave, AskDelete, TypeInv, TypeOK

\* An Org about to be made.
Makes(t, o, row) ==
  /\ tx'[t].op = tx[t].op /\ tx'[t].pc = "made" /\ tx'[t].who = tx[t].who
  /\ tx'[t].org = o /\ tx'[t].row = row
  /\ tx'[t].holds = tx[t].holds \cup Needs(t)
  /\ \A s \in Tabs \ {t} : tx'[s] = tx[s]
  /\ UNCHANGED tables

LEMMA FoundFacts ==
  ASSUME TypeInv, NEW t \in Tabs, Found(t)
  PROVE  \E o \in FreshIds, row \in Requests : Makes(t, o, row)
<1>1. PICK o \in FreshIds, row \in Requests :
        Goes(t, [tx[t] EXCEPT !.pc = "made", !.org = o, !.row = row])
        /\ UNCHANGED <<tables, events>>
  BY DEF Found
<1>2. tx[t] \in Requested
  BY RequestType
<1>3. tx'[t] = [[tx[t] EXCEPT !.pc = "made", !.org = o, !.row = row]
                  EXCEPT !.holds = @ \cup Needs(t)]
      /\ \A s \in Tabs \ {t} : tx'[s] = tx[s]
  BY <1>1, OthersKeep DEF Goes
<1>4. Makes(t, o, row)
  BY <1>1, <1>2, <1>3 DEF Makes, Requested
<1> QED
  BY <1>4

LEMMA ReadFacts ==
  ASSUME TypeInv, NEW t \in Tabs, ReadBefore(t)
  PROVE  /\ tx'[t].op = tx[t].op /\ tx'[t].pc = "write" /\ tx'[t].who = tx[t].who
         /\ tx'[t].org = tx[t].org /\ tx'[t].row = tx[t].row
         /\ tx'[t].before = plan[tx[t].org]
         /\ tx'[t].holds = tx[t].holds \cup Needs(t)
         /\ \A s \in Tabs \ {t} : tx'[s] = tx[s]
         /\ UNCHANGED tables
<1>1. tx[t] \in Requested
  BY RequestType
<1>2. tx'[t] = [[tx[t] EXCEPT !.pc = "write", !.before = plan[tx[t].org]]
                  EXCEPT !.holds = @ \cup Needs(t)]
      /\ \A s \in Tabs \ {t} : tx'[s] = tx[s]
  BY OthersKeep DEF ReadBefore, Goes
<1> QED
  BY <1>1, <1>2 DEF ReadBefore, Requested

-----------------------------------------------------------------------------
(* Locks *)

\* No two transactions hold one lock.
LockInv == \A s, t \in Tabs : (tx[s].holds \cap tx[t].holds) # {} => s = t

LEMMA LockStep ==
  ASSUME TypeInv, LockInv, [Next]_vars
  PROVE  LockInv'
<1> DEFINE Held(t) == /\ \A s \in Tabs \ {t} : tx'[s] = tx[s]
                      /\ \/ tx'[t].holds = {}
                         \/ tx'[t].holds = tx[t].holds \cup Needs(t) /\ Free(t)
<1>1. ASSUME NEW t \in Tabs, Held(t) PROVE LockInv'
  BY <1>1 DEF LockInv, Free
<1>2. ASSUME NEW t \in Tabs, Needs(t) = {} PROVE Free(t)
  BY <1>2 DEF Free
<1>3. ASSUME NEW t \in Tabs, AskSignIn(t) \/ AskNewOrg(t) \/ AskSave(t) \/ AskDelete(t)
      PROVE  Held(t)
  BY <1>3, AskFacts DEF Begins
<1>4. ASSUME NEW t \in Tabs, Ends(t) PROVE Held(t)
  BY <1>4, EndFacts
<1>5. ASSUME NEW t \in Tabs, NEW pc \in Steps, To(t, pc), Free(t) PROVE Held(t)
  BY <1>5, ToFacts
<1>6. ASSUME NEW t \in Tabs, tx[t].pc \in {"mine", "asked"},
             tx[t].op \in {"signin", "create"} => tx[t].pc = "mine"
      PROVE  Needs(t) = {}
  BY <1>6 DEF Needs, PeopleLocks, OwnLocks, OrgLocks, PlanLocks, At
<1>7. ASSUME NEW t \in Tabs, Found(t), tx[t].pc = "mine" PROVE Held(t)
  BY <1>7, <1>2, <1>6, FoundFacts DEF Makes
<1>8. ASSUME NEW t \in Tabs, Founding(t) PROVE Held(t)
  BY <1>8, <1>4, <1>5, <1>7
     DEF Founding, InsertUser, LockOwn, DecideSignIn, DecideNewOrg, CommitOrg, Refused, At, Steps
<1>9. ASSUME NEW t \in Tabs, ReadBefore(t) PROVE Held(t)
  BY <1>9, <1>2, <1>6, ReadFacts DEF ReadBefore, At
<1>10. ASSUME NEW t \in Tabs, Write(t) \/ Event(t) \/ CommitSave(t) PROVE Held(t)
  BY <1>10, <1>4, <1>5 DEF Write, Event, CommitSave, Refused, Steps
<1>11. ASSUME NEW t \in Tabs, Allow(t) PROVE Held(t)
  BY <1>11, <1>2, <1>4, <1>5, <1>6 DEF Allow, Refused, At, Steps
<1>12. ASSUME NEW t \in Tabs, LockOrg(t) \/ LockPlan(t) \/ CommitDelete(t) PROVE Held(t)
  BY <1>12, <1>4, <1>5 DEF LockOrg, LockPlan, CommitDelete, Refused, Steps
<1>13. ASSUME NEW t \in Tabs, Deadlocked(t) PROVE Held(t)
  BY <1>13, <1>4 DEF Deadlocked, Refused
<1>14. CASE UNCHANGED tx
  BY <1>14 DEF LockInv
<1> HIDE DEF Held
<1> QED
  BY <1>1, <1>3, <1>8, <1>9, <1>10, <1>11, <1>12, <1>13, <1>14
     DEF Next, Saving, Deleting, Use, vars

-----------------------------------------------------------------------------
(* Nobody has two Orgs waiting *)

\* Who is about to have an Org made has their own lock and none waiting, and an
\* Org that is past waiting is settled.
Founder(t) ==
  /\ tx[t].pc \in {"mine", "made"} => OwnLock(tx[t].who) \in tx[t].holds
  /\ tx[t].pc = "made" => Unsettled(tx[t].who) = {}
OwnInv ==
  /\ \A t \in Tabs : Founder(t)
  /\ \A o \in Orgs : ~Waits(plan[o]) => o \in settled
  /\ OneWaiting

LEMMA OwnStep ==
  ASSUME TypeInv, LockInv, OwnInv, [Next]_vars
  PROVE  OwnInv'
<1> DEFINE Calm == UNCHANGED <<owner, plan, settled>>
           Others(t) == \A s \in Tabs \ {t} : tx'[s] = tx[s]
<1>1. ASSUME Calm PROVE \A u : Unsettled(u)' = Unsettled(u)
  BY <1>1 DEF Unsettled, Waiting, Owned
<1>2. ASSUME Calm, NEW t \in Tabs, Others(t), Founder(t)' PROVE OwnInv'
  <2>1. ASSUME NEW s \in Tabs \ {t} PROVE Founder(s)'
    <3>1. Founder(s) /\ tx'[s] = tx[s]
      BY <1>2 DEF OwnInv
    <3> QED
      BY <1>1, <1>2, <3>1 DEF Founder
  <2>2. OneWaiting' /\ (\A o \in Orgs : ~Waits(plan[o]) => o \in settled)'
    BY <1>1, <1>2 DEF OwnInv, OneWaiting
  <2> QED
    BY <1>2, <2>1, <2>2 DEF OwnInv
<1>3. ASSUME NEW t \in Tabs, Ends(t), Calm PROVE OwnInv'
  BY <1>2, <1>3, EndFacts DEF Founder
<1>4. ASSUME NEW t \in Tabs, AskSignIn(t) \/ AskNewOrg(t) \/ AskSave(t) \/ AskDelete(t)
      PROVE  OwnInv'
  BY <1>2, <1>4, AskFacts DEF Begins, Founder, tables
<1>5. ASSUME NEW t \in Tabs, NEW pc \in Steps \ {"mine", "made"}, To(t, pc) PROVE OwnInv'
  BY <1>2, <1>5, ToFacts DEF Founder, tables
<1>6. ASSUME NEW t \in Tabs, LockOwn(t) PROVE OwnInv'
  <2>1. To(t, "mine") /\ OwnLock(tx[t].who) \in Needs(t)
    BY <1>6 DEF LockOwn, Needs, OwnLocks, At
  <2>2. tx'[t].pc = "mine" /\ tx'[t].who = tx[t].who /\ OwnLock(tx[t].who) \in tx'[t].holds
        /\ Others(t) /\ Calm
    BY <2>1, ToFacts DEF Steps, tables
  <2> QED
    BY <1>2, <2>2 DEF Founder
<1>7. ASSUME NEW t \in Tabs, Found(t), tx[t].pc = "mine", Waiting(tx[t].who) = {} PROVE OwnInv'
  <2>1. PICK o \in FreshIds, row \in Requests : Makes(t, o, row)
    BY <1>7, FoundFacts
  <2>2. Calm /\ Others(t)
    BY <2>1 DEF Makes, tables
  <2>3. OwnLock(tx[t].who) \in tx[t].holds
    BY <1>7 DEF OwnInv, Founder
  <2>4. Unsettled(tx[t].who)' = {}
    <3>1. Unsettled(tx[t].who) = {} /\ tx'[t].who = tx[t].who
      BY <1>7, <2>1 DEF Unsettled, Makes
    <3> QED
      BY <1>1, <2>2, <3>1
  <2>5. Founder(t)'
    BY <2>1, <2>3, <2>4 DEF Makes, Founder
  <2> QED
    BY <1>2, <2>2, <2>5
<1>8. ASSUME NEW t \in Tabs, DecideSignIn(t) \/ DecideNewOrg(t) PROVE OwnInv'
  BY <1>8, <1>3, <1>7 DEF DecideSignIn, DecideNewOrg, Waiting, Refused, tables, At
<1>9. ASSUME NEW t \in Tabs, CommitOrg(t) PROVE OwnInv'
  <2> DEFINE u == tx[t].who  o == tx[t].org
  <2>1. /\ u \in People /\ o \in Orgs /\ Waits(tx[t].row)
        /\ OwnLock(u) \in tx[t].holds /\ Unsettled(u) = {}
    <3>1. tx[t].pc = "made" /\ tx[t].op \in Ops
      BY <1>9, RequestType DEF CommitOrg, Requested
    <3>2. u \in People /\ o \in Orgs /\ tx[t].row \in Requests
      BY <3>1 DEF TypeInv, TxInv, Ops
    <3>3. Waits(tx[t].row)
      BY <3>2 DEF Requests, Waits, NoPlan
    <3> QED
      BY <3>1, <3>2, <3>3 DEF OwnInv, Founder
  <2>2. /\ \A p \in Orgs : owner'[p] = (IF p = o THEN u ELSE owner[p])
        /\ \A p \in Orgs : plan'[p] = (IF p = o THEN tx[t].row ELSE plan[p])
        /\ settled' = settled
    BY <1>9 DEF CommitOrg, TypeInv, TypeOK
  <2>3. \A v : Unsettled(v)' \subseteq Unsettled(v) \cup (IF v = u THEN {o} ELSE {})
    BY <2>2 DEF Unsettled, Waiting, Owned
  <2>4. \A p \in Orgs : ~Waits(plan'[p]) => p \in settled'
    BY <2>1, <2>2 DEF OwnInv
  <2>5. OneWaiting'
    BY <2>1, <2>3 DEF OwnInv, OneWaiting
  <2>6. ASSUME NEW s \in Tabs PROVE Founder(s)'
    <3>1. CASE s = t
      BY <3>1, <1>9, EndFacts DEF CommitOrg, Founder
    <3>2. CASE s # t
      <4>1. tx'[s] = tx[s] /\ Founder(s)
        BY <3>2, <1>9, EndFacts DEF CommitOrg, OwnInv
      <4>2. ASSUME tx[s].pc = "made" PROVE tx[s].who # u
        BY <4>1, <4>2, <3>2, <2>1 DEF LockInv, Founder
      <4> QED
        BY <4>1, <4>2, <2>3 DEF Founder
    <3> QED
      BY <3>1, <3>2
  <2> QED
    BY <2>4, <2>5, <2>6 DEF OwnInv, Waits
<1>10. ASSUME NEW t \in Tabs, CommitSave(t) \/ CommitDelete(t) PROVE OwnInv'
  <2> DEFINE o == tx[t].org
  <2>1. o \in Orgs /\ Ends(t)
    BY <1>10 DEF CommitSave, CommitDelete, TypeInv, TxInv, At
  <2>2. /\ \A p \in Orgs \ {o} : owner'[p] = owner[p] /\ plan'[p] = plan[p]
        /\ settled \subseteq settled'
        /\ \/ owner'[o] = owner[o] /\ (~Waits(plan'[o]) => o \in settled')
           \/ owner'[o] = Nobody /\ Waits(plan'[o])
    BY <1>10, <2>1 DEF CommitSave, CommitDelete, TypeInv, TypeOK, Waits, NoPlan
  <2>3. \A v \in People : Unsettled(v)' \subseteq Unsettled(v)
    <3> SUFFICES ASSUME NEW v \in People, NEW p \in Orgs, owner'[p] = v, Waits(plan'[p]),
                        p \notin settled'
                 PROVE  owner[p] = v /\ Waits(plan[p]) /\ p \notin settled
      BY DEF Unsettled, Waiting, Owned, Waits
    <3> QED
      BY <2>2, ConstantsAssumption DEF OwnInv
  <2>4. \A p \in Orgs : ~Waits(plan'[p]) => p \in settled'
    BY <2>2 DEF OwnInv
  <2>5. OneWaiting'
    BY <2>3 DEF OwnInv, OneWaiting
  <2>6. ASSUME NEW s \in Tabs PROVE Founder(s)'
    <3>1. CASE s = t
      BY <3>1, <2>1, EndFacts DEF Founder
    <3>2. CASE s # t
      <4>1. tx'[s] = tx[s] /\ Founder(s)
        BY <3>2, <2>1, EndFacts DEF OwnInv
      <4>2. tx[s].pc = "made" => tx[s].who \in People
        <5>1. tx[s].op \in Ops
          BY RequestType DEF Requested
        <5> QED
          BY <5>1 DEF TypeInv, TxInv, Ops
      <4> QED
        BY <4>1, <4>2, <2>3 DEF Founder
    <3> QED
      BY <3>1, <3>2
  <2> QED
    BY <2>4, <2>5, <2>6 DEF OwnInv, Waits
<1>11. ASSUME NEW t \in Tabs, ReadBefore(t) PROVE OwnInv'
  BY <1>2, <1>11, ReadFacts DEF Founder, tables
<1>12. ASSUME NEW t \in Tabs,
              \/ InsertUser(t) \/ Write(t) \/ Event(t) \/ Allow(t) \/ LockOrg(t) \/ LockPlan(t)
              \/ Deadlocked(t)
       PROVE  OwnInv'
  BY <1>12, <1>3, <1>5 DEF InsertUser, Write, Event, Allow, LockOrg, LockPlan, Deadlocked,
     Refused, tables, Steps
<1>13. CASE UNCHANGED tx /\ Calm
  <2>1. \A t \in Tabs : Founder(t)'
    BY <1>1, <1>13 DEF OwnInv, Founder
  <2>2. OneWaiting' /\ (\A o \in Orgs : ~Waits(plan[o]) => o \in settled)'
    BY <1>1, <1>13 DEF OwnInv, OneWaiting
  <2> QED
    BY <2>1, <2>2 DEF OwnInv
<1> QED
  BY <1>4, <1>6, <1>8, <1>9, <1>10, <1>11, <1>12, <1>13
     DEF Next, Founding, Saving, Deleting, Use, vars, tables

\* However many tabs sign in and start Orgs at once, and whatever the operator
\* and deletions do meanwhile, nobody has two Orgs that wait and always have.
THEOREM OneWaits == Spec => []OneWaiting
<1>1. Init => LockInv /\ OwnInv
  <2> SUFFICES ASSUME Init PROVE LockInv /\ OwnInv
    OBVIOUS
  <2>1. LockInv
    BY DEF Init, LockInv, Idle
  <2>2. \A t \in Tabs : Founder(t)
    BY DEF Init, Founder, Idle
  <2>3. \A o \in Orgs : Waits(plan[o])
    BY DEF Init, Waits, NoPlan
  <2>4. OneWaiting
    BY ConstantsAssumption DEF Init, OneWaiting, Unsettled, Waiting, Owned
  <2> QED
    BY <2>1, <2>2, <2>3, <2>4 DEF OwnInv
<1>2. OwnInv => OneWaiting
  BY DEF OwnInv
<1>3. TypeInv /\ LockInv /\ OwnInv /\ [Next]_vars => LockInv' /\ OwnInv'
  BY LockStep, OwnStep
<1> QED
  BY <1>1, <1>2, <1>3, TypeInvariant, PTL DEF Spec

-----------------------------------------------------------------------------
(* Only a waiting Org is deleted, and the Owners of one that is in were told *)

\* A save that is about to commit has the subscription, and the Org unless it
\* changes nothing; a deletion has the Org, and the subscription if there is one.
\* `before` has been what was stored.
Apart(t) ==
  LET x == tx[t]
  IN /\ x.op \in {"save", "delete"} => owner[x.org] # Nobody \/ x.org \in deleted
     /\ x.pc = "made" => owner[x.org] = Nobody /\ x.org \notin deleted
     /\ x.op = "save" /\ x.pc \in {"event", "done"} => PlanLock(x.org) \in x.holds
     /\ x.op = "save" /\ x.pc = "done" =>
          plan[x.org] = x.row \/ (OrgLock(x.org) \in x.holds /\ owner[x.org] # Nobody)
     /\ x.op = "delete" /\ x.pc \in {"locked", "doomed"} => OrgLock(x.org) \in x.holds
     /\ x.op = "delete" /\ x.pc = "doomed" =>
          /\ Waits(plan[x.org]) /\ x.org \notin used
          /\ plan[x.org] = NoPlan \/ PlanLock(x.org) \in x.holds
     /\ x.op = "save" /\ x.pc # "asked" /\ Unlocked(x.before) => x.org \in told \cup missed

PlanInv ==
  /\ \A t \in Tabs : Apart(t)
  /\ \A s, t \in Tabs : tx[s].pc = "made" /\ tx[t].pc = "made" /\ tx[s].org = tx[t].org => s = t
  /\ \A o \in Orgs : owner[o] = Nobody => plan[o] = NoPlan
  /\ \A o \in Orgs : Unlocked(plan[o]) => o \in told \cup missed

\* The tables Apart reads.
Read == <<owner, plan, deleted, used, told, missed>>

LEMMA PlanMoves ==
  ASSUME TypeInv, PlanInv, NEW t \in Tabs, UNCHANGED Read,
         \A s \in Tabs \ {t} : tx'[s] = tx[s],
         Apart(t)', tx'[t].pc = "made" => tx'[t].org \in FreshIds
  PROVE  PlanInv'
<1>1. ASSUME NEW s \in Tabs \ {t} PROVE Apart(s)'
  <2>1. Apart(s) /\ tx'[s] = tx[s]
    BY DEF PlanInv
  <2> QED
    BY <2>1 DEF Apart, Read
<1>2. (\A r, s \in Tabs : tx[r].pc = "made" /\ tx[s].pc = "made" /\ tx[r].org = tx[s].org => r = s)'
  BY DEF PlanInv, FreshIds
<1> QED
  BY <1>1, <1>2 DEF PlanInv, Read

LEMMA PlanRequests ==
  ASSUME TypeInv, PlanInv, [Next]_vars,
         ~\E t \in Tabs : CommitOrg(t) \/ CommitSave(t) \/ CommitDelete(t)
  PROVE  PlanInv'
<1>1. ASSUME NEW t \in Tabs, Ends(t), UNCHANGED Read PROVE PlanInv'
  BY <1>1, EndFacts, PlanMoves DEF Apart
<1>2. ASSUME NEW t \in Tabs, AskSignIn(t) \/ AskNewOrg(t) \/ AskSave(t) \/ AskDelete(t)
      PROVE  PlanInv'
  <2>1. Begins(t)
    BY <1>2, AskFacts
  <2>2. UNCHANGED Read
    BY <2>1 DEF Begins, tables, Read
  <2>3. Apart(t)'
    BY <2>1, <2>2 DEF Begins, Apart, Read
  <2> QED
    BY <2>1, <2>2, <2>3, PlanMoves DEF Begins
<1>3. ASSUME NEW t \in Tabs, NEW pc \in Steps, To(t, pc), pc # "made", tx[t].pc # "idle",
             PlanLock(tx[t].org) \in tx[t].holds \cup Needs(t) \/ ~(tx[t].op = "save" /\ pc \in {"event", "done"}),
             plan[tx[t].org] = tx[t].row
               \/ (OrgLock(tx[t].org) \in tx[t].holds \cup Needs(t) /\ owner[tx[t].org] # Nobody)
               \/ ~(tx[t].op = "save" /\ pc = "done"),
             OrgLock(tx[t].org) \in tx[t].holds \cup Needs(t)
               \/ ~(tx[t].op = "delete" /\ pc \in {"locked", "doomed"}),
             (/\ Waits(plan[tx[t].org]) /\ tx[t].org \notin used
              /\ plan[tx[t].org] = NoPlan \/ PlanLock(tx[t].org) \in tx[t].holds \cup Needs(t))
               \/ ~(tx[t].op = "delete" /\ pc = "doomed"),
             tx[t].op = "save" => tx[t].pc # "asked"
      PROVE  PlanInv'
  <2>1. UNCHANGED Read
    BY <1>3, ToFacts DEF tables, Read
  <2>2. Apart(t)
    BY DEF PlanInv
  <2>3. Apart(t)'
    BY <1>3, <2>1, <2>2, ToFacts DEF Apart, Read
  <2> QED
    BY <1>3, <2>1, <2>3, ToFacts, PlanMoves
<1>4. ASSUME NEW t \in Tabs, InsertUser(t) \/ LockOwn(t) \/ Allow(t) PROVE PlanInv'
  BY <1>1, <1>3, <1>4 DEF InsertUser, LockOwn, Allow, Refused, tables, Read, Steps, At
<1>5. ASSUME NEW t \in Tabs, DecideSignIn(t) \/ DecideNewOrg(t) PROVE PlanInv'
  <2>1. CASE Ends(t) /\ UNCHANGED Read
    BY <1>1, <2>1
  <2>2. CASE Found(t)
    <3>1. PICK o \in FreshIds, row \in Requests : Makes(t, o, row)
      BY <2>2, FoundFacts
    <3>2. tx[t].op \in {"signin", "create"}
      BY <1>5 DEF DecideSignIn, DecideNewOrg, At
    <3>3. UNCHANGED Read
      BY <3>1 DEF Makes, tables, Read
    <3>4. Apart(t)'
      BY <3>1, <3>2, <3>3 DEF Makes, Apart, FreshIds, Read
    <3> QED
      BY <3>1, <3>3, <3>4, PlanMoves DEF Makes
  <2> QED
    BY <1>5, <2>1, <2>2 DEF DecideSignIn, DecideNewOrg, Refused, tables, Read
<1>6. ASSUME NEW t \in Tabs, ReadBefore(t) PROVE PlanInv'
  <2>1. tx[t].op = "save" /\ tx[t].org \in Orgs
    BY <1>6 DEF ReadBefore, TypeInv, TxInv, At
  <2>2. UNCHANGED Read
    BY <1>6, ReadFacts DEF tables, Read
  <2>3. Apart(t)
    BY DEF PlanInv
  <2>4. Apart(t)'
    BY <1>6, <2>1, <2>2, <2>3, ReadFacts DEF Apart, Read, PlanInv
  <2> QED
    BY <1>6, <2>2, <2>4, ReadFacts, PlanMoves
<1>7. ASSUME NEW t \in Tabs, Write(t) PROVE PlanInv'
  <2>1. PlanLock(tx[t].org) \in Needs(t)
    BY <1>7 DEF Write, Needs, PlanLocks, At
  <2>2. CASE Changes(t)
    BY <1>3, <1>7, <2>1, <2>2 DEF Write, At, Steps
  <2>3. CASE ~Changes(t)
    BY <1>3, <1>7, <2>1, <2>3 DEF Write, Changes, At, Steps
  <2> QED
    BY <2>2, <2>3
<1>8. ASSUME NEW t \in Tabs, Event(t) PROVE PlanInv'
  <2>1. OrgLock(tx[t].org) \in Needs(t)
    BY <1>8 DEF Event, Needs, OrgLocks, At
  <2>2. PlanLock(tx[t].org) \in tx[t].holds
    BY <1>8 DEF Event, PlanInv, Apart, At
  <2>3. CASE owner[tx[t].org] = Nobody
    BY <1>1, <1>8, <2>3 DEF Event, Refused, tables, Read
  <2>4. CASE owner[tx[t].org] # Nobody
    BY <1>3, <1>8, <2>1, <2>2, <2>4 DEF Event, At, Steps
  <2> QED
    BY <2>3, <2>4
<1>9. ASSUME NEW t \in Tabs, LockOrg(t) PROVE PlanInv'
  <2>1. OrgLock(tx[t].org) \in Needs(t)
    BY <1>9 DEF LockOrg, Needs, OrgLocks, At
  <2>2. CASE owner[tx[t].org] = Nobody
    BY <1>1, <1>9, <2>2 DEF LockOrg, Refused, tables, Read
  <2>3. CASE owner[tx[t].org] # Nobody
    BY <1>3, <1>9, <2>1, <2>3 DEF LockOrg, At, Steps
  <2> QED
    BY <2>2, <2>3
<1>10. ASSUME NEW t \in Tabs, LockPlan(t) PROVE PlanInv'
  <2>1. plan[tx[t].org] = NoPlan \/ PlanLock(tx[t].org) \in Needs(t)
    BY <1>10 DEF LockPlan, Needs, PlanLocks, At
  <2>2. OrgLock(tx[t].org) \in tx[t].holds
    BY <1>10 DEF LockPlan, PlanInv, Apart, At
  <2>3. CASE Refused(t)
    BY <1>1, <2>3 DEF Refused, tables, Read
  <2>4. CASE Waits(plan[tx[t].org]) /\ tx[t].org \notin used
    BY <1>3, <1>10, <2>1, <2>2, <2>4 DEF LockPlan, At, Steps
  <2> QED
    BY <1>10, <2>3, <2>4 DEF LockPlan
<1>11. ASSUME NEW t \in Tabs, Deadlocked(t) PROVE PlanInv'
  BY <1>1, <1>11 DEF Deadlocked, Refused, tables, Read
<1>12. ASSUME NEW o \in Orgs, Use(o) PROVE PlanInv'
  <2>1. used' = used \cup {o} /\ UNCHANGED <<owner, plan, deleted, told, missed, tx>>
        /\ \A t \in Tabs : tx[t].op = "delete" => OrgLock(o) \notin tx[t].holds
    BY <1>12 DEF Use
  <2>2. ASSUME NEW t \in Tabs PROVE Apart(t)'
    BY <2>1 DEF PlanInv, Apart
  <2> QED
    BY <2>1, <2>2 DEF PlanInv
<1>13. CASE UNCHANGED vars
  <2>1. ASSUME NEW t \in Tabs PROVE Apart(t)'
    BY <1>13 DEF PlanInv, Apart, vars, tables
  <2> QED
    BY <1>13, <2>1 DEF PlanInv, vars, tables
<1> QED
  BY <1>2, <1>4, <1>5, <1>6, <1>7, <1>8, <1>9, <1>10, <1>11, <1>12, <1>13
     DEF Next, Founding, Saving, Deleting

LEMMA PlanCommits ==
  ASSUME TypeInv, LockInv, PlanInv, NEW t \in Tabs,
         CommitOrg(t) \/ CommitSave(t) \/ CommitDelete(t)
  PROVE  PlanInv'
<1> DEFINE o == tx[t].org
<1>1. /\ o \in Orgs /\ Ends(t) /\ tx'[t].op = "idle" /\ tx'[t].pc = "idle"
      /\ \A s \in Tabs \ {t} : tx'[s] = tx[s]
  <2>1. o \in Orgs
    BY DEF CommitOrg, CommitSave, CommitDelete, TypeInv, TxInv, At
  <2> QED
    BY <2>1, EndFacts DEF CommitOrg, CommitSave, CommitDelete
<1>2. Apart(t)'
  BY <1>1 DEF Apart
<1>3. (\A r, s \in Tabs : tx[r].pc = "made" /\ tx[s].pc = "made" /\ tx[r].org = tx[s].org => r = s)'
  BY <1>1 DEF PlanInv
<1>4. \A s \in Tabs \ {t} : (tx[s].holds \cap tx[t].holds) = {}
  BY DEF LockInv
<1>5. ASSUME CommitOrg(t) PROVE PlanInv'
  <2>1. tx[t].pc = "made" /\ owner[o] = Nobody /\ o \notin deleted /\ tx[t].who # Nobody
        /\ ~Unlocked(tx[t].row)
    <3>1. tx[t].pc = "made" /\ tx[t].op \in Ops
      BY <1>5, RequestType DEF CommitOrg, Requested
    <3>2. tx[t].who \in People /\ tx[t].row \in Requests
      BY <3>1 DEF TypeInv, TxInv, Ops
    <3>3. ~Unlocked(tx[t].row)
      BY <3>2 DEF Requests, Unlocked, NoPlan
    <3> QED
      BY <3>1, <3>2, <3>3, ConstantsAssumption DEF PlanInv, Apart
  <2>2. /\ \A p : p # o => owner'[p] = owner[p] /\ plan'[p] = plan[p]
        /\ owner'[o] = tx[t].who /\ plan'[o] = tx[t].row
        /\ UNCHANGED <<deleted, used, told, missed>>
    BY <1>1, <1>5 DEF CommitOrg, TypeInv, TypeOK
  <2>3. ASSUME NEW s \in Tabs \ {t} PROVE Apart(s)'
    <3>1. Apart(s) /\ tx'[s] = tx[s]
      BY <1>1 DEF PlanInv
    <3>2. tx[s].op \in {"save", "delete"} \/ tx[s].pc = "made" => tx[s].org # o
      BY <2>1, <3>1 DEF PlanInv, Apart
    <3>3. CASE tx[s].org # o
      BY <2>2, <3>1, <3>3 DEF Apart
    <3>4. CASE ~(tx[s].op \in {"save", "delete"} \/ tx[s].pc = "made")
      BY <3>1, <3>4 DEF Apart
    <3> QED
      BY <3>2, <3>3, <3>4
  <2>4. /\ \A p \in Orgs : owner'[p] = Nobody => plan'[p] = NoPlan
        /\ \A p \in Orgs : Unlocked(plan'[p]) => p \in told' \cup missed'
    BY <2>1, <2>2 DEF PlanInv, Unlocked
  <2> QED
    BY <1>2, <1>3, <2>3, <2>4 DEF PlanInv, Unlocked
<1>6. ASSUME CommitSave(t) PROVE PlanInv'
  <2>1. /\ tx[t].op = "save" /\ tx[t].pc = "done" /\ PlanLock(o) \in tx[t].holds
        /\ plan[o] = tx[t].row \/ (OrgLock(o) \in tx[t].holds /\ owner[o] # Nobody)
        /\ Unlocked(tx[t].before) => o \in told \cup missed
    BY <1>6 DEF CommitSave, PlanInv, Apart, At
  <2>2. /\ \A p : p # o => plan'[p] = plan[p] /\ (p \in told \cup missed => p \in told' \cup missed')
        /\ plan'[o] = tx[t].row
        /\ UNCHANGED <<owner, deleted, used>>
    BY <1>1, <1>6 DEF CommitSave, TypeInv, TypeOK
  <2>3. /\ Unlocked(tx[t].row) /\ (o \in told \cup missed \/ Approved(t)) => o \in told' \cup missed'
        /\ ~Unlocked(tx[t].row) /\ Overtakes(t) => o \in missed'
    BY <1>1, <1>6 DEF CommitSave
  <2>4. ASSUME NEW s \in Tabs \ {t}, tx[s].op = "save", tx[s].pc # "asked", tx[s].org = o,
               Unlocked(tx[s].before)
        PROVE  o \in told' \cup missed'
    <3>1. CASE Unlocked(tx[t].row)
      BY <2>3, <2>4, <3>1 DEF PlanInv, Apart
    <3>2. CASE ~Unlocked(tx[t].row)
      BY <2>3, <2>4, <3>2 DEF Overtakes
    <3> QED
      BY <3>1, <3>2
  <2>5. ASSUME NEW s \in Tabs \ {t} PROVE Apart(s)'
    <3>1. Apart(s) /\ tx'[s] = tx[s]
      BY <1>1 DEF PlanInv
    <3>2. PlanLock(o) \notin tx[s].holds
      BY <1>4, <2>1
    <3>3. tx[s].op = "delete" /\ tx[s].pc = "doomed" /\ tx[s].org = o => plan'[o] = plan[o]
      BY <1>4, <2>1, <2>2, <3>1 DEF Apart
    <3>4. CASE tx[s].org # o
      BY <2>2, <3>1, <3>4 DEF Apart
    <3>5. CASE tx[s].org = o
      BY <2>2, <2>4, <3>1, <3>2, <3>3, <3>5 DEF Apart
    <3> QED
      BY <3>4, <3>5
  <2>6. \A p \in Orgs : owner'[p] = Nobody => plan'[p] = NoPlan
    BY <2>1, <2>2 DEF PlanInv
  <2>7. \A p \in Orgs : Unlocked(plan'[p]) => p \in told' \cup missed'
    BY <2>1, <2>2, <2>3 DEF PlanInv, Approved
  <2> QED
    BY <1>2, <1>3, <2>5, <2>6, <2>7 DEF PlanInv, Unlocked
<1>7. ASSUME CommitDelete(t) PROVE PlanInv'
  <2>1. /\ tx[t].op = "delete" /\ tx[t].pc = "doomed" /\ OrgLock(o) \in tx[t].holds
        /\ plan[o] = NoPlan \/ PlanLock(o) \in tx[t].holds
    BY <1>7 DEF CommitDelete, PlanInv, Apart, At
  <2>2. /\ \A p : p # o => plan'[p] = plan[p] /\ owner'[p] = owner[p]
        /\ plan'[o] = NoPlan /\ owner'[o] = Nobody /\ deleted' = deleted \cup {o}
        /\ UNCHANGED <<used, told, missed>>
    BY <1>1, <1>7 DEF CommitDelete, TypeInv, TypeOK
  <2>3. ASSUME NEW s \in Tabs \ {t} PROVE Apart(s)'
    <3>1. Apart(s) /\ tx'[s] = tx[s]
      BY <1>1 DEF PlanInv
    <3>2. OrgLock(o) \notin tx[s].holds
      BY <1>4, <2>1
    <3>3. CASE tx[s].org # o
      BY <2>2, <3>1, <3>3 DEF Apart
    <3>4. CASE tx[s].org = o
      <4>1. tx[s].pc # "made"
        BY <2>1, <3>1, <3>4 DEF PlanInv, Apart, FreshIds
      <4>2. tx[s].op = "save" /\ tx[s].pc = "done" => plan[o] = NoPlan
        BY <1>4, <2>1, <3>1, <3>4 DEF Apart
      <4> QED
        BY <2>2, <3>1, <3>2, <3>4, <4>1, <4>2 DEF Apart
    <3> QED
      BY <3>3, <3>4
  <2>4. /\ \A p \in Orgs : owner'[p] = Nobody => plan'[p] = NoPlan
        /\ \A p \in Orgs : Unlocked(plan'[p]) => p \in told' \cup missed'
    BY <2>2 DEF PlanInv, Unlocked, NoPlan
  <2> QED
    BY <1>2, <1>3, <2>3, <2>4 DEF PlanInv, Unlocked
<1> QED
  BY <1>5, <1>6, <1>7

LEMMA PlanInvariant == Spec => [](TypeInv /\ PlanInv)
<1>1. Init => LockInv /\ PlanInv
  <2> SUFFICES ASSUME Init PROVE LockInv /\ PlanInv
    OBVIOUS
  <2>1. LockInv
    BY DEF Init, LockInv, Idle
  <2>2. \A t \in Tabs : Apart(t)
    BY DEF Init, Apart, Idle
  <2>3. \A t \in Tabs : tx[t].pc # "made"
    BY DEF Init, Idle
  <2>4. \A o \in Orgs : plan[o] = NoPlan /\ ~Unlocked(plan[o])
    BY DEF Init, Unlocked, NoPlan
  <2> QED
    BY <2>1, <2>2, <2>3, <2>4 DEF PlanInv
<1>2. TypeInv /\ LockInv /\ PlanInv /\ [Next]_vars => LockInv' /\ PlanInv'
  BY LockStep, PlanRequests, PlanCommits
<1> QED
  BY <1>1, <1>2, TypeInvariant, PTL DEF Spec

\* However saves overlap each other and deletions, the Owners of an Org that is
\* in were told of it since it was last locked, unless it was locked over the head of a
\* save that had read it as in; and it is there.
THEOREM TheyAreTold == Spec => []InIsTold
<1>1. TypeInv /\ PlanInv => InIsTold
  BY DEF PlanInv, InIsTold, Unlocked, NoPlan
<1> QED
  BY <1>1, PlanInvariant, PTL

\* An approval is never deleted from under an Org: what goes was waiting, and
\* had no Turns, in the state it goes from.
THEOREM OnlyWaitingAreDeleted == Spec => DeletedWaiting
<1>1. TypeInv /\ PlanInv /\ [Next]_vars =>
        [\A o \in deleted' \ deleted : Waits(plan[o]) /\ o \notin used]_vars
  <2> SUFFICES ASSUME TypeInv, PlanInv, Next
               PROVE  \A o \in deleted' \ deleted : Waits(plan[o]) /\ o \notin used
    OBVIOUS
  <2>1. ASSUME NEW t \in Tabs, CommitDelete(t)
        PROVE  \A o \in deleted' \ deleted : Waits(plan[o]) /\ o \notin used
    BY <2>1 DEF CommitDelete, PlanInv, Apart, At
  <2>2. CASE UNCHANGED deleted
    BY <2>2
  <2> QED
    BY <2>1, <2>2, ZenonT(40)
       DEF Next, Founding, Saving, Deleting, AskSignIn, AskNewOrg, AskSave, AskDelete, Ask,
           InsertUser, LockOwn, DecideSignIn, DecideNewOrg, Found, CommitOrg, ReadBefore, Write,
           Event, CommitSave, Allow, LockOrg, LockPlan, Deadlocked, Refused, To, Use, tables
<1> QED
  BY <1>1, PlanInvariant, PTL DEF Spec, DeletedWaiting
-----------------------------------------------------------------------------
(* The seven days *)

\* Every request has a moment of its own, which no event has before it commits.
MomentInv ==
  /\ \A t \in Tabs : tx[t].op # "idle" =>
       /\ tx[t].at <= events
       /\ \A o \in Orgs : \A e \in history[o] : e.at # tx[t].at
  /\ \A s, t \in Tabs : tx[s].op # "idle" /\ tx[t].op # "idle" /\ tx[s].at = tx[t].at => s = t
  /\ \A o \in Orgs : \A e \in history[o] : e.at <= events

\* No event is after a last one on a Tier with transcripts, or the first after the
\* last such is at m.
Keeps(log) == \E k \in log : k.tier \in Archives /\ \A e \in log : e.at <= k.at
EndsAt(log, m) ==
  /\ \E e \in log : e.at = m
  /\ \A e \in log :
       /\ e.tier \in Archives => e.at < m
       /\ e.at < m => \E k \in log : k.tier \in Archives /\ e.at <= k.at

\* An Org not moved since it was made has no move to count from; one
\* with transcripts keeps them, and one moved off them ends them then.
GraceOf(o) ==
  /\ o \in deleted => owner[o] = Nobody
  /\ plan[o] = NoPlan => o \in deleted \/ moved[o] = 0
  /\ o \notin late =>
       /\ plan[o].tier \in Archives => Keeps(history[o])
       /\ plan[o] # NoPlan /\ plan[o].tier \notin Archives /\ moved[o] # 0
            => EndsAt(history[o], moved[o])

GraceInv == MomentInv /\ \A o \in Orgs : GraceOf(o)

\* A request keeps its moment, or begins at a new one.
Timely == events' = events /\ \A s \in Tabs : tx'[s].op = "idle" \/ (tx[s].op # "idle" /\ tx'[s].at = tx[s].at)
Later(t) ==
  /\ events' = events + 1 /\ tx'[t].at = events + 1
  /\ \A s \in Tabs \ {t} : tx'[s] = tx[s]
  /\ UNCHANGED tables

LEMMA KeepsTime ==
  ASSUME TypeInv, NEW t \in Tabs, NEW x,
         tx' = [tx EXCEPT ![t] = x], x.op = "idle" \/ (tx[t].op # "idle" /\ x.at = tx[t].at),
         events' = events
  PROVE  Timely
BY OthersKeep DEF Timely

LEMMA StepTimes ==
  ASSUME TypeInv, [Next]_vars
  PROVE  Timely \/ \E t \in Tabs : Later(t)
<1>1. ASSUME NEW t \in Tabs, Ends(t), events' = events PROVE Timely
  BY <1>1, KeepsTime DEF Ends, Idle
<1>2. ASSUME NEW t \in Tabs, NEW pc, To(t, pc), tx[t].op # "idle" PROVE Timely
  <2> DEFINE x == [[tx[t] EXCEPT !.pc = pc] EXCEPT !.holds = @ \cup Needs(t)]
  <2>1. x.at = tx[t].at
    BY RequestType DEF Requested
  <2>2. tx' = [tx EXCEPT ![t] = x] /\ events' = events
    BY <1>2 DEF To, Goes
  <2> HIDE DEF x
  <2> QED
    BY <1>2, <2>1, <2>2, KeepsTime
<1>3. ASSUME NEW t \in Tabs, NEW x \in Requested, Ask(t, x) PROVE Later(t)
  <2> DEFINE y == [x EXCEPT !.pc = "asked", !.at = events + 1]
  <2>1. y.at = events + 1
    BY DEF Requested
  <2>2. tx' = [tx EXCEPT ![t] = y] /\ events' = events + 1 /\ UNCHANGED tables
    BY <1>3 DEF Ask
  <2> HIDE DEF y
  <2> QED
    BY <2>1, <2>2, OthersKeep DEF Later
<1>4. ASSUME NEW t \in Tabs, Found(t), tx[t].op # "idle" PROVE Timely
  <2>1. PICK o \in FreshIds, row \in Requests :
          Goes(t, [tx[t] EXCEPT !.pc = "made", !.org = o, !.row = row]) /\ UNCHANGED events
    BY <1>4 DEF Found
  <2> DEFINE x == [[tx[t] EXCEPT !.pc = "made", !.org = o, !.row = row] EXCEPT !.holds = @ \cup Needs(t)]
  <2>2. x.at = tx[t].at
    BY RequestType DEF Requested
  <2>3. tx' = [tx EXCEPT ![t] = x] /\ events' = events
    BY <2>1 DEF Goes
  <2> HIDE DEF x
  <2> QED
    BY <1>4, <2>2, <2>3, KeepsTime
<1>5. ASSUME NEW t \in Tabs, ReadBefore(t) PROVE Timely
  <2> DEFINE x == [[tx[t] EXCEPT !.pc = "write", !.before = plan[tx[t].org]] EXCEPT !.holds = @ \cup Needs(t)]
  <2>1. x.at = tx[t].at
    BY RequestType DEF Requested
  <2>2. tx' = [tx EXCEPT ![t] = x] /\ events' = events /\ tx[t].op = "save"
    BY <1>5 DEF ReadBefore, Goes, At
  <2> HIDE DEF x
  <2> QED
    BY <2>1, <2>2, KeepsTime
<1>6. ASSUME NEW t \in Tabs, AskSignIn(t) \/ AskNewOrg(t) PROVE Later(t)
  <2>1. PICK op \in {"signin", "create"}, u \in People : Ask(t, [Idle EXCEPT !.op = op, !.who = u])
    BY <1>6 DEF AskSignIn, AskNewOrg, TypeInv, TypeOK
  <2>2. [Idle EXCEPT !.op = op, !.who = u] \in Requested
    BY IdleType DEF Requested, Ops
  <2> QED
    BY <1>3, <2>1, <2>2
<1>7. ASSUME NEW t \in Tabs, AskSave(t) PROVE Later(t)
  <2>1. PICK o \in Orgs, row \in Plans : Ask(t, [Idle EXCEPT !.op = "save", !.org = o, !.row = row])
    BY <1>7 DEF AskSave
  <2>2. [Idle EXCEPT !.op = "save", !.org = o, !.row = row] \in Requested
    BY IdleType, ConstantsAssumption DEF Requested, Ops
  <2> QED
    BY <1>3, <2>1, <2>2
<1>8. ASSUME NEW t \in Tabs, AskDelete(t) PROVE Later(t)
  <2>1. PICK o \in Orgs, w \in signed \cup {Operator} :
          Ask(t, [Idle EXCEPT !.op = "delete", !.who = w, !.org = o])
    BY <1>8 DEF AskDelete
  <2>2. [Idle EXCEPT !.op = "delete", !.who = w, !.org = o] \in Requested
    BY IdleType DEF Requested, Ops, TypeInv, TypeOK
  <2> QED
    BY <1>3, <2>1, <2>2
<1>9. ASSUME NEW t \in Tabs, Founding(t) PROVE Timely
  <2>1. tx[t].op # "idle" \/ CommitOrg(t)
    BY <1>9 DEF Founding, InsertUser, LockOwn, DecideSignIn, DecideNewOrg, At
  <2> QED
    BY <1>1, <1>2, <1>4, <1>9, <2>1
       DEF Founding, InsertUser, LockOwn, DecideSignIn, DecideNewOrg, CommitOrg, Refused
<1>10. ASSUME NEW t \in Tabs, Saving(t) PROVE Timely
  BY <1>1, <1>2, <1>5, <1>10 DEF Saving, Write, Event, CommitSave, Refused, At
<1>11. ASSUME NEW t \in Tabs, Deleting(t) \/ Deadlocked(t) PROVE Timely
  BY <1>1, <1>2, <1>11
     DEF Deleting, Allow, LockOrg, LockPlan, CommitDelete, Deadlocked, Refused, At
<1>12. CASE UNCHANGED <<tx, events>>
  BY <1>12 DEF Timely
<1> QED
  BY <1>6, <1>7, <1>8, <1>9, <1>10, <1>11, <1>12 DEF Next, Use, vars

\* The tables the seven days are counted from.
Counting == <<owner, plan, history, deleted, moved, late>>

LEMMA StepTables ==
  ASSUME [Next]_vars, ~\E t \in Tabs : CommitOrg(t) \/ CommitSave(t) \/ CommitDelete(t)
  PROVE  UNCHANGED Counting
BY ZenonT(40) DEF Next, vars, Counting, Founding, Saving, Deleting, AskSignIn, AskNewOrg, AskSave, AskDelete,
       Ask, InsertUser, LockOwn, DecideSignIn, DecideNewOrg, Found, ReadBefore, Write, Event,
       Allow, LockOrg, LockPlan, Deadlocked, Refused, To, Use, tables

\* What a commit makes of an Org's history and its moments.
Records(t) ==
  /\ \A o \in Orgs : o # tx[t].org =>
       history'[o] = history[o] /\ plan'[o] = plan[o] /\ owner'[o] = owner[o] /\ moved'[o] = moved[o]
  /\ late \subseteq late' /\ (\A o \in Orgs \ late : o # tx[t].org => o \notin late')
  /\ deleted \subseteq deleted' /\ (\A o \in deleted' : o # tx[t].org => o \in deleted)
  /\ \A e \in history'[tx[t].org] : e \in history[tx[t].org] \/ e.at = tx[t].at

LEMMA CommitRecords ==
  ASSUME TypeInv, NEW t \in Tabs, CommitOrg(t) \/ CommitSave(t) \/ CommitDelete(t)
  PROVE  tx[t].op # "idle" /\ tx[t].org \in Orgs /\ Ends(t) /\ Records(t)
<1>1. tx[t].op # "idle" /\ tx[t].org \in Orgs /\ Ends(t)
  BY RequestType DEF CommitOrg, CommitSave, CommitDelete, TypeInv, TxInv, At, Requested
<1>2. CASE CommitOrg(t)
  BY <1>1, <1>2 DEF CommitOrg, Records, TypeInv, TypeOK
<1>3. CASE CommitSave(t)
  BY <1>1, <1>3 DEF CommitSave, Records, TypeInv, TypeOK
<1>4. CASE CommitDelete(t)
  BY <1>1, <1>4 DEF CommitDelete, Records, TypeInv, TypeOK
<1> QED
  BY <1>1, <1>2, <1>3, <1>4

LEMMA MomentStep ==
  ASSUME TypeInv, MomentInv, [Next]_vars
  PROVE  MomentInv'
<1>1. events \in Nat /\ \A o \in Orgs : \A e \in history[o] : e.at \in Nat
  BY ConstantsAssumption DEF TypeInv, TypeOK, Events, Moments
<1>2. ASSUME NEW t \in Tabs, Later(t) PROVE MomentInv'
  BY <1>1, <1>2, RequestType DEF Later, MomentInv, tables, Requested
<1>3. ASSUME Timely, UNCHANGED Counting PROVE MomentInv'
  BY <1>3 DEF Timely, MomentInv, Counting
<1>4. ASSUME Timely, NEW t \in Tabs, CommitOrg(t) \/ CommitSave(t) \/ CommitDelete(t)
      PROVE  MomentInv'
  <2>1. /\ tx[t].op # "idle" /\ tx[t].org \in Orgs /\ Records(t)
        /\ tx'[t].op = "idle" /\ \A s \in Tabs \ {t} : tx'[s] = tx[s]
    BY <1>4, CommitRecords, EndFacts
  <2>2. ASSUME NEW o \in Orgs, NEW e \in history'[o]
        PROVE  e \in history[o] \/ e.at = tx[t].at
    BY <2>1, <2>2 DEF Records
  <2>3. ASSUME NEW s \in Tabs, tx'[s].op # "idle"
        PROVE  /\ tx'[s].at <= events'
               /\ \A o \in Orgs : \A e \in history'[o] : e.at # tx'[s].at
    BY <1>4, <2>1, <2>2, <2>3 DEF MomentInv, Timely
  <2>4. \A o \in Orgs : \A e \in history'[o] : e.at <= events'
    BY <1>4, <2>1, <2>2 DEF MomentInv, Timely
  <2>5. \A r, s \in Tabs : tx'[r].op # "idle" /\ tx'[s].op # "idle" /\ tx'[r].at = tx'[s].at => r = s
    BY <2>1 DEF MomentInv
  <2> QED
    BY <2>3, <2>4, <2>5 DEF MomentInv
<1> QED
  BY <1>2, <1>3, <1>4, StepTimes, StepTables DEF Later, tables, Counting

\* What a save in its turn makes of an Org's history.
LEMMA SaveRecords ==
  ASSUME TypeInv, MomentInv, NEW t \in Tabs, CommitSave(t), Changes(t), tx[t].org \notin late'
  PROVE  LET o == tx[t].org  new == [at |-> tx[t].at, tier |-> tx[t].row.tier] IN
         /\ history'[o] = history[o] \cup {new}
         /\ \A e \in history[o] : e.at < tx[t].at
         /\ tx[t].at \in Moments
<1> DEFINE o == tx[t].org
<1>1. o \in Orgs /\ tx[t].at \in Moments /\ tx[t].op # "idle"
  BY DEF CommitSave, At, TypeInv, TxInv
<1>2. \A e \in history[o] : e.at \in Nat /\ e.at # tx[t].at /\ ~(e.at > tx[t].at)
  BY <1>1 DEF CommitSave, MomentInv, TypeInv, TypeOK, Events, Moments
<1>3. tx[t].at \in Nat
  BY <1>1, ConstantsAssumption DEF Moments
<1>4. \A e \in history[o] : e.at < tx[t].at
  BY <1>2, <1>3
<1>5. history'[o] = history[o] \cup {[at |-> tx[t].at, tier |-> tx[t].row.tier]}
  BY <1>1 DEF CommitSave, TypeInv, TypeOK
<1> QED
  BY <1>1, <1>4, <1>5

LEMMA GraceStep ==
  ASSUME TypeInv, PlanInv, GraceInv, [Next]_vars
  PROVE  GraceInv'
<1>1. MomentInv'
  BY MomentStep DEF GraceInv
<1>2. CASE UNCHANGED Counting
  BY <1>1, <1>2 DEF GraceInv, GraceOf, Counting
<1>3. ASSUME NEW t \in Tabs, CommitOrg(t) \/ CommitSave(t) \/ CommitDelete(t),
             NEW o \in Orgs, o = tx[t].org, GraceOf(o)'
      PROVE  GraceInv'
  <2>1. Records(t)
    BY <1>3, CommitRecords
  <2>2. ASSUME NEW p \in Orgs PROVE GraceOf(p)'
    <3>1. CASE p = o
      BY <1>3, <3>1
    <3>2. CASE p # o
      BY <1>3, <2>1, <3>2 DEF Records, GraceInv, GraceOf
    <3> QED
      BY <3>1, <3>2
  <2> QED
    BY <1>1, <2>2 DEF GraceInv
<1>4. ASSUME NEW t \in Tabs, CommitOrg(t) PROVE GraceInv'
  <2>0. PICK o \in Orgs : o = tx[t].org
    BY <1>4, CommitRecords
  <2> DEFINE e == [at |-> tx[t].at, tier |-> tx[t].row.tier]
  <2>1. o \in Orgs /\ tx[t].pc = "made" /\ tx[t].at \in Moments
    BY <1>4, CommitRecords DEF CommitOrg, TypeInv, TxInv
  <2>2. owner[o] = Nobody /\ o \notin deleted /\ plan[o] = NoPlan /\ moved[o] = 0
    BY <2>0, <2>1 DEF PlanInv, Apart, GraceInv, GraceOf
  <2>3. /\ plan'[o] = tx[t].row /\ moved'[o] = 0 /\ o \notin deleted'
        /\ history'[o] = IF tx[t].row = NoPlan THEN {} ELSE {e}
    BY <1>4, <2>0, <2>1, <2>2 DEF CommitOrg, TypeInv, TypeOK
  <2>4. plan'[o].tier \in Archives => Keeps(history'[o])
    <3> SUFFICES ASSUME tx[t].row.tier \in Archives PROVE Keeps(history'[o])
      BY <2>3
    <3>1. history'[o] = {e}
      BY <2>3 DEF NoPlan, Archives
    <3>2. e.at \in Nat
      BY <2>1, ConstantsAssumption DEF Moments
    <3> QED
      BY <3>1, <3>2 DEF Keeps
  <2>5. GraceOf(o)'
    BY <2>3, <2>4 DEF GraceOf
  <2> QED
    BY <1>3, <1>4, <2>0, <2>5
<1>5. ASSUME NEW t \in Tabs, CommitDelete(t) PROVE GraceInv'
  <2>1. PICK o \in Orgs : o = tx[t].org
    BY <1>5, CommitRecords
  <2>2. plan'[o] = NoPlan /\ o \in deleted' /\ owner'[o] = Nobody
    BY <1>5, <2>1 DEF CommitDelete, TypeInv, TypeOK
  <2>3. GraceOf(o)'
    BY <2>2 DEF GraceOf, NoPlan, Archives
  <2> QED
    BY <1>3, <1>5, <2>1, <2>3
<1>6. ASSUME NEW t \in Tabs, CommitSave(t) PROVE GraceInv'
  <2>0. PICK o \in Orgs : o = tx[t].org
    BY <1>6, CommitRecords
  <2> DEFINE old == plan[o]  row == tx[t].row
             new == [at |-> tx[t].at, tier |-> row.tier]
  <2>1. /\ o \in Orgs /\ row \in Subscriptions /\ tx[t].op = "save" /\ tx[t].pc = "done"
    BY <1>6 DEF CommitSave, At, TypeInv, TxInv
  <2>2. /\ plan'[o] = row /\ UNCHANGED <<owner, deleted>> /\ row # NoPlan
        /\ moved'[o] = IF old.tier \in Archives /\ row.tier \notin Archives THEN tx[t].at ELSE moved[o]
    BY <1>6, <2>0, <2>1 DEF CommitSave, TypeInv, TypeOK, Subscriptions, NoPlan, Statuses
  <2>3. CASE ~Changes(t)
    <3>1. old = row /\ history' = history /\ late' = late /\ moved'[o] = moved[o]
      BY <1>6, <2>0, <2>2, <2>3 DEF CommitSave, Changes
    <3>2. GraceOf(o)'
      BY <2>1, <2>2, <3>1 DEF GraceInv, GraceOf
    <3> QED
      BY <1>3, <1>6, <2>0, <3>2
  <2>4. CASE Changes(t)
    <3>1. owner[o] # Nobody /\ o \notin deleted
      BY <2>0, <2>1, <2>4 DEF PlanInv, Apart, Changes, GraceInv, GraceOf
    <3>2. old = NoPlan => moved[o] = 0
      BY <2>1, <3>1 DEF GraceInv, GraceOf
    <3>3. ASSUME o \notin late'
          PROVE  /\ plan'[o].tier \in Archives => Keeps(history'[o])
                 /\ plan'[o].tier \notin Archives /\ moved'[o] # 0 => EndsAt(history'[o], moved'[o])
      <4>1. /\ history'[o] = history[o] \cup {new} /\ new.at = tx[t].at /\ new.tier = row.tier
            /\ \A e \in history[o] : e.at < new.at
            /\ new.at \in Nat
        BY <1>6, <2>0, <2>4, <3>3, SaveRecords, ConstantsAssumption DEF GraceInv, Moments
      <4>2. \A e \in history[o] : e.at \in Nat
        BY <2>1, ConstantsAssumption DEF TypeInv, TypeOK, Events, Moments
      <4>3. /\ old.tier \in Archives => Keeps(history[o])
            /\ old # NoPlan /\ old.tier \notin Archives /\ moved[o] # 0 => EndsAt(history[o], moved[o])
        BY <1>6, <2>1, <2>4, <3>3 DEF GraceInv, GraceOf, CommitSave
      <4> HIDE DEF new
      <4>4. CASE row.tier \in Archives
        BY <2>2, <4>1, <4>2, <4>4 DEF Keeps
      <4>5. CASE row.tier \notin Archives /\ old.tier \in Archives
        <5>1. Keeps(history[o]) /\ moved'[o] = new.at
          BY <2>2, <4>1, <4>3, <4>5
        <5>2. PICK k \in history[o] : k.tier \in Archives /\ \A e \in history[o] : e.at <= k.at
          BY <5>1 DEF Keeps
        <5>3. EndsAt(history'[o], new.at)
          BY <4>1, <4>2, <4>5, <5>2 DEF EndsAt
        <5> QED
          BY <2>2, <4>5, <5>1, <5>3
      <4>6. CASE row.tier \notin Archives /\ old.tier \notin Archives /\ moved[o] # 0
        <5>1. EndsAt(history[o], moved[o]) /\ moved'[o] = moved[o]
          BY <2>2, <3>2, <4>3, <4>6
        <5>2. PICK first \in history[o] : first.at = moved[o]
          BY <5>1 DEF EndsAt
        <5>3. ~(new.at < moved[o]) /\ new.tier \notin Archives
          BY <4>1, <4>2, <4>6, <5>2
        <5>4. EndsAt(history'[o], moved[o])
          BY <4>1, <5>1, <5>3 DEF EndsAt
        <5> QED
          BY <2>2, <4>6, <5>1, <5>4
      <4> QED
        BY <2>2, <4>4, <4>5, <4>6
    <3>4. GraceOf(o)'
      BY <2>2, <3>1, <3>3 DEF GraceOf
    <3> QED
      BY <1>3, <1>6, <2>0, <3>4
  <2> QED
    BY <2>3, <2>4
<1> QED
  BY <1>2, <1>4, <1>5, <1>6, StepTables

\* However saves, deletions and requests overlap, as long as an Org's saves are written
\* in the order they began in, its seven days begin when it was moved off its last Tier
\* with transcripts, and nothing later restarts them.
THEOREM GraceCounted == Spec => []GraceFromTheMove
<1>1. Init => GraceInv
  BY DEF Init, GraceInv, GraceOf, MomentInv, Idle, NoPlan, Archives
<1>2. TypeInv /\ GraceInv => GraceFromTheMove
  <2> SUFFICES ASSUME TypeInv, GraceInv, NEW o \in Orgs \ late, moved[o] # 0,
                      plan[o].status = "active", plan[o].tier \notin Archives
               PROVE  TranscriptsEnd(o) = moved[o]
    BY DEF GraceFromTheMove
  <2> DEFINE m == moved[o]
             kept == {e.at : e \in {e \in history[o] : e.tier \in Archives}}
             after == {e.at : e \in {e \in history[o] : \A at \in kept : e.at > at}}
  <2>1. EndsAt(history[o], m)
    BY DEF GraceInv, GraceOf, NoPlan
  <2>2. m \in Nat /\ \A e \in history[o] : e.at \in Nat
    BY ConstantsAssumption DEF TypeInv, TypeOK, Events, Moments
  <2> HIDE DEF m
  <2>3. m \in after
    <3>1. PICK e \in history[o] : e.at = m
      BY <2>1 DEF EndsAt
    <3>2. \A at \in kept : e.at > at
      BY <2>1, <2>2, <3>1 DEF EndsAt
    <3> QED
      BY <3>1, <3>2
  <2>4. ASSUME NEW at \in after PROVE m <= at /\ at \in Nat
    <3>1. PICK e \in history[o] : e.at = at /\ \A k \in kept : e.at > k
      BY <2>4
    <3>2. ASSUME e.at < m PROVE FALSE
      <4>1. PICK k \in history[o] : k.tier \in Archives /\ e.at <= k.at
        BY <2>1, <3>2 DEF EndsAt
      <4>2. k.at \in kept
        BY <4>1
      <4> QED
        BY <2>2, <3>1, <4>1, <4>2
    <3> QED
      BY <2>2, <3>1, <3>2
  <2> DEFINE first == CHOOSE at \in after : \A other \in after : at <= other
  <2>5. first = m
    <3> HIDE DEF after
    <3>1. first \in after /\ \A other \in after : first <= other
      BY <2>3, <2>4
    <3> HIDE DEF first
    <3> QED
      BY <2>2, <2>3, <2>4, <3>1
  <2>6. TranscriptsEnd(o) = IF after = {} THEN 0 ELSE first
    BY DEF TranscriptsEnd
  <2> QED
    BY <2>3, <2>5, <2>6 DEF m
<1>3. TypeInv /\ PlanInv /\ GraceInv /\ [Next]_vars => GraceInv'
  BY GraceStep
<1> QED
  BY <1>1, <1>2, <1>3, PlanInvariant, PTL DEF Spec
=============================================================================
