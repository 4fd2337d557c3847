--------------------------- MODULE TurnLockProofs ---------------------------
(***************************************************************************)
(* Proofs about TurnLock, for every number of runs and every budget that is   *)
(* shorter than the stale age: its types, and that runs take turns.           *)
(***************************************************************************)
EXTENDS TurnLock, TLAPS

LEMMA FaultType ==
  ASSUME TypeOK, Fault
  PROVE  faults' \in 0 .. MaxFaults
BY ConstantsAssumption DEF TypeOK, Fault

LEMMA GoType ==
  ASSUME TypeOK, NEW r \in Runs, NEW stage \in Stages, Go(r, stage)
  PROVE  /\ pc' \in [Runs -> Stages] /\ pc'[r] = stage
         /\ \A s \in Runs : s # r => pc'[s] = pc[s]
BY DEF TypeOK, Go

LEMMA TypeStep == TypeOK /\ [Next]_vars => TypeOK'
<1> SUFFICES ASSUME TypeOK, [Next]_vars PROVE TypeOK'
  OBVIOUS
<1> USE ConstantsAssumption
<1>0. {"open", "stat", "remove", "sleep", "archive", "wait", "again", "unlock",
       "done", "busy", "dead"} \subseteq Stages
  BY DEF Stages, Waiting, Archiving
<1>1. CASE Tick
  BY <1>1 DEF TypeOK, Tick
<1>2. ASSUME NEW r \in Runs, Start(r) PROVE TypeOK'
  BY <1>2, <1>0, GoType DEF TypeOK, Start
<1>3. ASSUME NEW r \in Runs, Open(r) PROVE TypeOK'
  BY <1>3, <1>0, GoType DEF TypeOK, Open
<1>4. ASSUME NEW r \in Runs, OpenFails(r) PROVE TypeOK'
  <2>1. lapses' \in SUBSET Lapses
    BY <1>4 DEF TypeOK, OpenFails, Lapse, Lapses
  <2> QED
    BY <1>4, <1>0, <2>1, GoType, FaultType DEF TypeOK, OpenFails
<1>5. ASSUME NEW r \in Runs, StatLock(r) PROVE TypeOK'
  <2>1. pc' \in [Runs -> Stages]
    BY <1>5, <1>0, GoType DEF StatLock
  <2>2. wake' \in [Runs -> 0 .. MaxTime]
    <3>1. \/ wake' = wake
          \/ ~(now + Poll >= deadline[r]) /\ wake' = [wake EXCEPT ![r] = now + Poll]
      BY <1>5 DEF StatLock
    <3>2. now + Poll \in Nat /\ deadline[r] \in 0 .. MaxTime
      BY DEF TypeOK
    <3> QED
      BY <3>1, <3>2 DEF TypeOK
  <2> QED
    BY <1>5, <2>1, <2>2 DEF TypeOK, StatLock
<1>6. ASSUME NEW r \in Runs, RemoveLock(r) \/ Look(r) PROVE TypeOK'
  BY <1>6, <1>0, GoType DEF TypeOK, RemoveLock, Look
<1>7. ASSUME NEW r \in Runs, Archived(r) \/ Retry(r) \/ Unlock(r) PROVE TypeOK'
  BY <1>7, <1>0, GoType DEF TypeOK, Archived, Retry, Unlock
<1>8. ASSUME NEW r \in Runs, NoTurns(r) PROVE TypeOK'
  <2>1. wake' \in [Runs -> 0 .. MaxTime]
    BY <1>8 DEF TypeOK, NoTurns
  <2> QED
    BY <1>8, <2>1, <1>0, GoType DEF TypeOK, NoTurns
<1>9. ASSUME NEW r \in Runs, Kill(r) PROVE TypeOK'
  <2>1. lapses' \in SUBSET Lapses
    BY <1>9 DEF TypeOK, Kill, Lapse, Lapses
  <2> QED
    BY <1>9, <1>0, <2>1, GoType, FaultType DEF TypeOK, Kill
<1>10. ASSUME NEW r \in Runs, Suspend(r) PROVE TypeOK'
  <2>1. lapses' \in SUBSET Lapses
    BY <1>10 DEF TypeOK, Suspend, Lapse, Lapses
  <2> QED
    BY <1>10, <2>1, FaultType DEF TypeOK, Suspend
<1>11. ASSUME NEW r \in Runs, Resume(r) PROVE TypeOK'
  BY <1>11 DEF TypeOK, Resume
<1>12. CASE UNCHANGED vars
  BY <1>12 DEF TypeOK, vars
<1> QED
  BY <1>1, <1>2, <1>3, <1>4, <1>5, <1>6, <1>7, <1>8, <1>9, <1>10, <1>11, <1>12
     DEF Next, RunStep

\* Every variable keeps its type; no run sleeps past the bound of the clock.
THEOREM TypeCorrect == Spec => []TypeOK
<1>1. Init => TypeOK
  BY ConstantsAssumption DEF Init, TypeOK, Stages
<1> QED
  BY <1>1, TypeStep, PTL DEF Spec

-----------------------------------------------------------------------------
(* Runs take turns *)

\* A run that is waiting has its budget at most before it.
WaitingInv == \A r \in Runs : pc[r] \in Waiting => deadline[r] <= now + Budget

\* Whoever archives made the lock that is there, and will be done with it, at
\* the latest, a budget after it was made: before it is stale to anybody.
HolderInv(r) ==
  /\ file = r /\ r \notin suspended
  /\ now <= born + Budget /\ deadline[r] <= born + Budget
  /\ pc[r] = "wait" => wake[r] < deadline[r]

LockInv ==
  /\ WaitingInv
  /\ lapses = {} =>
       /\ \A r \in Holders : HolderInv(r)
       /\ file # NoRun => file \in Holders
       /\ \A r \in Runs : pc[r] # "remove"

\* A run nobody waits for too long for is not stale.
LEMMA NeverStale ==
  ASSUME TypeOK, LockInv, lapses = {}
  PROVE  ~Stale
<1> SUFFICES ASSUME file # NoRun PROVE ~(born + StaleAge <= now)
  BY DEF Stale
<1>1. HolderInv(file)
  BY DEF LockInv
<1> QED
  BY <1>1, ConstantsAssumption DEF HolderInv, TypeOK

LEMMA LockStep == TypeOK /\ LockInv /\ [Next]_vars => LockInv'
<1> SUFFICES ASSUME TypeOK, LockInv, [Next]_vars PROVE LockInv'
  OBVIOUS
<1> USE ConstantsAssumption
<1>0. {"open", "stat", "remove", "sleep", "archive", "wait", "again", "unlock",
       "done", "busy", "dead"} \subseteq Stages
  BY DEF Stages, Waiting, Archiving
<1>1. CASE Tick
  <2>1. WaitingInv'
    BY <1>1 DEF Tick, LockInv, WaitingInv, TypeOK
  <2>2. ASSUME lapses = {}, NEW r \in Holders PROVE HolderInv(r)'
    <3>1. HolderInv(r) /\ r \in Runs /\ MayIdle(r) /\ pc[r] \in Archiving
      BY <1>1, <2>2 DEF LockInv, Tick, Holders
    <3>2. now < deadline[r] /\ now + 1 <= born + Budget
      BY <3>1 DEF HolderInv, MayIdle, Archiving, TypeOK
    <3> QED
      BY <3>1, <3>2, <1>1 DEF HolderInv, Tick, TypeOK
  <2> QED
    BY <2>1, <2>2, <1>1 DEF LockInv, Tick, Holders
<1>2. ASSUME NEW r \in Runs, Start(r) PROVE LockInv'
  <2>1. /\ pc[r] = "new" /\ pc'[r] = "open" /\ deadline'[r] = now + Budget
        /\ \A s \in Runs : s # r => pc'[s] = pc[s] /\ deadline'[s] = deadline[s]
    BY <1>2, <1>0, GoType DEF Start, TypeOK
  <2>2. UNCHANGED <<now, file, born, wake, suspended, lapses>>
    BY <1>2 DEF Start
  <2>3. Holders' = Holders /\ r \notin Holders
    BY <2>1 DEF Holders, Archiving
  <2>4. WaitingInv'
    BY <2>1, <2>2 DEF LockInv, WaitingInv, TypeOK
  <2> QED
    BY <2>1, <2>2, <2>3, <2>4 DEF LockInv, HolderInv, Holders
<1>3. ASSUME NEW r \in Runs, Open(r) PROVE LockInv'
  <2>1. /\ pc[r] = "open" /\ r \notin suspended
        /\ UNCHANGED <<now, deadline, wake, suspended, lapses>>
    BY <1>3 DEF Open, At
  <2>2. \A s \in Runs : s # r => pc'[s] = pc[s]
    BY <1>3, <1>0, GoType DEF Open
  <2>3. CASE file = NoRun
    <3>1. pc'[r] = "archive" /\ file' = r /\ born' = now
      BY <1>3, <2>3, <1>0, GoType DEF Open
    <3>2. deadline[r] <= now + Budget
      BY <2>1 DEF LockInv, WaitingInv, Waiting
    <3>3. lapses = {} => Holders = {}
      BY <2>3 DEF LockInv, HolderInv, Holders
    <3>4. Holders' = Holders \cup {r}
      BY <3>1, <2>1, <2>2 DEF Holders, Archiving
    <3>5. lapses = {} => HolderInv(r)'
      BY <3>1, <3>2, <2>1 DEF HolderInv, TypeOK
    <3>6. WaitingInv'
      BY <3>1, <2>1, <2>2 DEF LockInv, WaitingInv, Waiting
    <3> QED
      BY <3>1, <3>3, <3>4, <3>5, <3>6, <2>1, <2>2 DEF LockInv
  <2>4. CASE file # NoRun
    <3>1. pc'[r] = "stat" /\ file' = file /\ born' = born
      BY <1>3, <2>4, <1>0, GoType DEF Open
    <3>2. Holders' = Holders /\ r \notin Holders
      BY <3>1, <2>1, <2>2 DEF Holders, Archiving
    <3>3. WaitingInv'
      BY <3>1, <2>1, <2>2 DEF LockInv, WaitingInv, Waiting
    <3> QED
      BY <3>1, <3>2, <3>3, <2>1, <2>2 DEF LockInv, HolderInv, Holders
  <2> QED
    BY <2>3, <2>4
<1>4. ASSUME NEW r \in Runs, OpenFails(r) PROVE LockInv'
  <2>1. lapses' # {} /\ pc'[r] = "archive" /\ UNCHANGED <<now, deadline>>
        /\ \A s \in Runs : s # r => pc'[s] = pc[s]
    BY <1>4, <1>0, GoType DEF OpenFails, Lapse
  <2> QED
    BY <2>1 DEF LockInv, WaitingInv, Waiting
<1>5. ASSUME NEW r \in Runs, StatLock(r) PROVE LockInv'
  <2>1. /\ pc[r] = "stat" /\ pc'[r] \in {"remove", "busy", "sleep"}
        /\ pc'[r] = "remove" => Stale
        /\ \A s \in Runs : s # r => pc'[s] = pc[s] /\ wake'[s] = wake[s]
    BY <1>5, <1>0, GoType DEF StatLock, At, TypeOK
  <2>2. UNCHANGED <<now, file, born, deadline, suspended, lapses>>
    BY <1>5 DEF StatLock
  <2>3. Holders' = Holders /\ r \notin Holders
    BY <2>1 DEF Holders, Archiving
  <2>4. WaitingInv'
    BY <2>1, <2>2 DEF LockInv, WaitingInv, Waiting
  <2>5. lapses = {} => \A s \in Runs : pc'[s] # "remove"
    BY <2>1, NeverStale DEF LockInv
  <2>6. lapses = {} => \A s \in Holders : HolderInv(s)'
    BY <2>1, <2>2, <2>3 DEF LockInv, HolderInv, Holders
  <2> QED
    BY <2>2, <2>3, <2>4, <2>5, <2>6 DEF LockInv
<1>6. ASSUME NEW r \in Runs, RemoveLock(r) PROVE LockInv'
  <2>1. lapses # {} /\ lapses' = lapses /\ pc[r] = "remove" /\ pc'[r] = "open"
        /\ (\A s \in Runs : s # r => pc'[s] = pc[s]) /\ UNCHANGED <<now, deadline>>
    BY <1>6, <1>0, GoType DEF RemoveLock, At, LockInv
  <2> QED
    BY <2>1 DEF LockInv, WaitingInv, Waiting
<1>7. ASSUME NEW r \in Runs, Look(r) PROVE LockInv'
  <2>1. /\ pc[r] = "sleep" /\ pc'[r] = "open"
        /\ \A s \in Runs : s # r => pc'[s] = pc[s]
        /\ UNCHANGED <<now, file, born, deadline, wake, suspended, lapses>>
    BY <1>7, <1>0, GoType DEF Look, At
  <2>2. Holders' = Holders /\ r \notin Holders
    BY <2>1 DEF Holders, Archiving
  <2>3. WaitingInv'
    BY <2>1 DEF LockInv, WaitingInv, Waiting
  <2> QED
    BY <2>1, <2>2, <2>3 DEF LockInv, HolderInv, Holders
<1>8. ASSUME NEW r \in Runs, Archived(r) \/ NoTurns(r) \/ Retry(r) PROVE LockInv'
  <2>1. /\ pc[r] \in Archiving /\ pc'[r] \in {"unlock", "wait", "again"}
        /\ \A s \in Runs : s # r => pc'[s] = pc[s] /\ wake'[s] = wake[s]
        /\ pc'[r] = "wait" => wake'[r] < deadline[r]
        /\ UNCHANGED <<now, file, born, deadline, suspended, lapses>>
    BY <1>8, <1>0, GoType DEF Archived, NoTurns, Retry, At, Archiving, TypeOK
  <2>2. Holders' = Holders
    BY <2>1 DEF Holders, Archiving
  <2>3. WaitingInv'
    BY <2>1 DEF LockInv, WaitingInv, Waiting
  <2>4. lapses = {} => \A s \in Holders : HolderInv(s)'
    BY <2>1 DEF LockInv, HolderInv, Holders
  <2>5. lapses = {} => \A s \in Runs : pc'[s] # "remove"
    BY <2>1 DEF LockInv
  <2> QED
    BY <2>1, <2>2, <2>3, <2>4, <2>5 DEF LockInv
<1>9. ASSUME NEW r \in Runs, Unlock(r) PROVE LockInv'
  <2>1. /\ pc[r] = "unlock" /\ pc'[r] = "done" /\ file' = NoRun
        /\ \A s \in Runs : s # r => pc'[s] = pc[s]
        /\ UNCHANGED <<now, born, deadline, wake, suspended, lapses>>
    BY <1>9, <1>0, GoType DEF Unlock, At
  <2>2. Holders' = Holders \ {r} /\ r \in Holders
    BY <2>1 DEF Holders, Archiving
  <2>3. lapses = {} => Holders' = {}
    BY <2>2 DEF LockInv, HolderInv
  <2>4. WaitingInv'
    BY <2>1 DEF LockInv, WaitingInv, Waiting
  <2> QED
    BY <2>1, <2>3, <2>4 DEF LockInv
<1>10. ASSUME NEW r \in Runs, Kill(r) PROVE LockInv'
  <2>1. /\ pc'[r] = "dead"
        /\ \A s \in Runs : s # r => pc'[s] = pc[s]
        /\ UNCHANGED <<now, file, born, deadline, wake>>
        /\ suspended' = suspended \ {r}
        /\ pc[r] \in Waiting \cup Archiving
    BY <1>10, <1>0, GoType DEF Kill
  <2>2. WaitingInv'
    BY <2>1 DEF LockInv, WaitingInv, Waiting
  <2>3. CASE r \in Holders
    <3>1. lapses' # {}
      BY <1>10, <2>3 DEF Kill, Lapse, Holders
    <3> QED
      BY <3>1, <2>2 DEF LockInv
  <2>4. CASE r \notin Holders
    <3>1. lapses' = lapses
      BY <1>10, <2>4 DEF Kill, Holders
    <3>2. Holders' = Holders
      BY <2>1, <2>4 DEF Holders, Archiving
    <3> QED
      BY <3>1, <3>2, <2>1, <2>2, <2>4 DEF LockInv, HolderInv, Holders
  <2> QED
    BY <2>3, <2>4
<1>11. ASSUME NEW r \in Runs, Suspend(r) PROVE LockInv'
  <2>1. UNCHANGED <<now, file, born, pc, deadline, wake>> /\ suspended' = suspended \cup {r}
    BY <1>11 DEF Suspend
  <2>2. WaitingInv' /\ Holders' = Holders
    BY <2>1 DEF LockInv, WaitingInv, Holders
  <2>3. r \in Holders => lapses' # {}
    BY <1>11 DEF Suspend, Lapse, Holders
  <2>4. r \notin Holders => lapses' = lapses
    BY <1>11 DEF Suspend, Holders
  <2> QED
    BY <2>1, <2>2, <2>3, <2>4 DEF LockInv, HolderInv
<1>12. ASSUME NEW r \in Runs, Resume(r) PROVE LockInv'
  BY <1>12 DEF Resume, LockInv, WaitingInv, HolderInv, Holders
<1>13. CASE UNCHANGED vars
  BY <1>13 DEF vars, LockInv, WaitingInv, HolderInv, Holders
<1> QED
  BY <1>1, <1>2, <1>3, <1>4, <1>5, <1>6, <1>7, <1>8, <1>9, <1>10, <1>11, <1>12, <1>13
     DEF Next, RunStep

\* Two runs of one Session never archive at once, for any number of runs, as long
\* as none died or was suspended holding the lock and none had to go without it.
THEOREM TakingTurns == Spec => []RunsTakeTurns
<1>1. Init => LockInv
  BY DEF Init, LockInv, WaitingInv, Holders, Waiting, Archiving
<1>2. LockInv => RunsTakeTurns
  BY DEF LockInv, RunsTakeTurns, NoOverlap, HolderInv
<1> QED
  BY <1>1, <1>2, LockStep, TypeCorrect, PTL DEF Spec

=============================================================================
