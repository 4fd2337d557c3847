------------------------------ MODULE TurnLock ------------------------------
(***************************************************************************)
(* The lock of one Session's per-turn archive runs (takeLock and             *)
(* archiveAfterTurn in packages/plugin/src/archive.mjs, started by           *)
(* hooks/stop-archive.mjs): a file that is opened exclusively, waited for,   *)
(* taken over once it is TURN_LOCK_STALE_MS old, and removed by name.        *)
(*                                                                          *)
(* Time is counted in ticks.  A run that is neither dead nor suspended takes  *)
(* its steps within the tick they are due in, and ends an archival, whose     *)
(* requests are all bounded by the deadline, within the tick of the deadline. *)
(***************************************************************************)
EXTENDS Naturals, FiniteSets

CONSTANTS
  Runs,        \* archiveAfterTurn processes of one Session
  NoRun,       \* the maker of a lock file that is not there
  Budget,      \* HOOK_BUDGET_MS of stop-archive.mjs
  StaleAge,    \* TURN_LOCK_STALE_MS
  Poll,        \* TURN_LOCK_POLL_MS
  RetryAfter,  \* NO_TURNS_RETRY_MS
  MaxTime,     \* bound: ticks of the clock
  MaxFaults    \* bound: kills, suspensions, failures of the state directory

ASSUME ConstantsAssumption ==
  /\ NoRun \notin Runs
  /\ Poll \in Nat \ {0} /\ RetryAfter \in Nat /\ MaxTime \in Nat /\ MaxFaults \in Nat
  /\ Budget \in Nat /\ StaleAge \in Nat /\ Budget < StaleAge

VARIABLES
  now,
  file,       \* the run that made the lock file that is there, or NoRun
  born,       \* its mtime
  pc,         \* pc[r]: where run r is, see Stages
  deadline,   \* deadline[r]
  wake,       \* wake[r]: when its sleep ends
  suspended,  \* the runs whose machine or container is paused
  lapses,     \* what has befallen a run that was archiving, see Lapses
  faults

(* new       not started                                                  *)
(* open      about to open the file; stat: it exists; remove: it is stale  *)
(* sleep     between two looks at it                                       *)
(* archive   in archiveSession; wait: sleeping before the retry; again: in  *)
(*           the retry; unlock: in the finally                             *)
(* done, busy, dead                                                       *)
Waiting == {"open", "stat", "remove", "sleep"}
Archiving == {"archive", "wait", "again", "unlock"}
Stages == {"new", "done", "busy", "dead"} \cup Waiting \cup Archiving


\* It was killed and left its lock; it was suspended; it had no lock to begin with.
Lapses == {"orphan", "suspension", "lockless"}

vars == <<now, file, born, pc, deadline, wake, suspended, lapses, faults>>

TypeOK ==
  /\ now \in 0 .. MaxTime
  /\ file \in Runs \cup {NoRun} /\ born \in 0 .. MaxTime
  /\ pc \in [Runs -> Stages]
  /\ deadline \in [Runs -> 0 .. MaxTime] /\ wake \in [Runs -> 0 .. MaxTime]
  /\ suspended \in SUBSET Runs /\ lapses \in SUBSET Lapses
  /\ faults \in 0 .. MaxFaults

Init ==
  /\ now = 0 /\ file = NoRun /\ born = 0
  /\ pc = [r \in Runs |-> "new"]
  /\ deadline = [r \in Runs |-> 0] /\ wake = [r \in Runs |-> 0]
  /\ suspended = {} /\ lapses = {} /\ faults = 0

Fault == faults < MaxFaults /\ faults' = faults + 1

Lapse(what) == lapses' = lapses \cup {what}

Go(r, stage) == pc' = [pc EXCEPT ![r] = stage]

At(r, stage) == pc[r] = stage /\ r \notin suspended

\* Only what takes time lets time pass: sleeping, and archiving up to the deadline.
MayIdle(r) ==
  \/ r \in suspended
  \/ pc[r] \in {"new", "done", "busy", "dead"}
  \/ pc[r] \in {"sleep", "wait"} /\ now < wake[r]
  \/ pc[r] \in {"archive", "again"} /\ now < deadline[r]

Tick ==
  /\ now < MaxTime /\ \A r \in Runs : MayIdle(r)
  /\ now' = now + 1
  /\ UNCHANGED <<file, born, pc, deadline, wake, suspended, lapses, faults>>

-----------------------------------------------------------------------------
(* takeLock *)

Start(r) ==
  /\ pc[r] = "new" /\ now + Budget <= MaxTime
  /\ Go(r, "open")
  /\ deadline' = [deadline EXCEPT ![r] = now + Budget]
  /\ UNCHANGED <<now, file, born, wake, suspended, lapses, faults>>

Open(r) ==
  /\ At(r, "open")
  /\ IF file = NoRun THEN /\ Go(r, "archive")
                          /\ file' = r /\ born' = now
                     ELSE Go(r, "stat") /\ UNCHANGED <<file, born>>
  /\ UNCHANGED <<now, deadline, wake, suspended, lapses, faults>>

\* The state directory cannot hold a lock: the run goes ahead without one.
OpenFails(r) ==
  /\ At(r, "open") /\ Fault /\ Lapse("lockless")
  /\ Go(r, "archive")
  /\ UNCHANGED <<now, file, born, deadline, wake, suspended>>

StaleAtBudget == file # NoRun /\ born + Budget <= now   \* mutated form of Stale

\* A file that is gone by the stat has no age.
Stale == file # NoRun /\ born + StaleAge <= now

StatLockLate(r) ==   \* mutated form of StatLock
  /\ At(r, "stat")
  /\ IF Stale THEN Go(r, "remove") /\ UNCHANGED wake
     ELSE Go(r, "sleep") /\ wake' = [wake EXCEPT ![r] = now + Poll]
  /\ UNCHANGED <<now, file, born, deadline, suspended, lapses, faults>>

StatLock(r) ==
  /\ At(r, "stat")
  /\ IF Stale THEN Go(r, "remove") /\ UNCHANGED wake
     ELSE IF now + Poll >= deadline[r] THEN Go(r, "busy") /\ UNCHANGED wake
     ELSE Go(r, "sleep") /\ wake' = [wake EXCEPT ![r] = now + Poll]
  /\ UNCHANGED <<now, file, born, deadline, suspended, lapses, faults>>

RemoveLockKept(r) ==   \* mutated form of RemoveLock
  /\ At(r, "remove")
  /\ Go(r, "open")
  /\ UNCHANGED <<now, file, born, deadline, wake, suspended, lapses, faults>>

\* Whichever file has the name by now.
RemoveLock(r) ==
  /\ At(r, "remove")
  /\ Go(r, "open")
  /\ file' = NoRun
  /\ UNCHANGED <<now, born, deadline, wake, suspended, lapses, faults>>

Look(r) ==
  /\ At(r, "sleep") /\ wake[r] <= now
  /\ Go(r, "open")
  /\ UNCHANGED <<now, file, born, deadline, wake, suspended, lapses, faults>>

-----------------------------------------------------------------------------
(* archiveAfterTurn, with the lock or without one *)

Archived(r) ==
  /\ At(r, "archive") \/ At(r, "again")
  /\ Go(r, "unlock")
  /\ UNCHANGED <<now, file, born, deadline, wake, suspended, lapses, faults>>

\* The flush of the same turn has not landed yet.
NoTurns(r) ==
  /\ At(r, "archive") /\ now + RetryAfter < deadline[r]
  /\ Go(r, "wait")
  /\ wake' = [wake EXCEPT ![r] = now + RetryAfter]
  /\ UNCHANGED <<now, file, born, deadline, suspended, lapses, faults>>

Retry(r) ==
  /\ At(r, "wait") /\ wake[r] <= now
  /\ Go(r, "again")
  /\ UNCHANGED <<now, file, born, deadline, wake, suspended, lapses, faults>>

\* Whoever's lock it is by now.
Unlock(r) ==
  /\ At(r, "unlock")
  /\ Go(r, "done")
  /\ file' = NoRun
  /\ UNCHANGED <<now, born, deadline, wake, suspended, lapses, faults>>

-----------------------------------------------------------------------------

\* A kill, or an rm of the lock that throws, which ends the run as well.
Kill(r) ==
  /\ pc[r] \in Waiting \cup Archiving /\ Fault
  /\ Go(r, "dead")
  /\ suspended' = suspended \ {r}
  /\ IF pc[r] \in Archiving THEN Lapse("orphan") ELSE UNCHANGED lapses
  /\ UNCHANGED <<now, file, born, deadline, wake>>

Suspend(r) ==
  /\ pc[r] \in Waiting \cup Archiving /\ r \notin suspended /\ Fault
  /\ suspended' = suspended \cup {r}
  /\ IF pc[r] \in Archiving THEN Lapse("suspension") ELSE UNCHANGED lapses
  /\ UNCHANGED <<now, file, born, pc, deadline, wake>>

Resume(r) ==
  /\ r \in suspended
  /\ suspended' = suspended \ {r}
  /\ UNCHANGED <<now, file, born, pc, deadline, wake, lapses, faults>>

RunStep(r) ==
  \/ Open(r) \/ StatLock(r) \/ RemoveLock(r) \/ Look(r)
  \/ Archived(r) \/ Retry(r) \/ Unlock(r) \/ Resume(r)

Next ==
  \/ Tick
  \/ \E r \in Runs :
       \/ Start(r) \/ RunStep(r) \/ NoTurns(r)
       \/ OpenFails(r) \/ Kill(r) \/ Suspend(r)

Spec == Init /\ [][Next]_vars

\* A started run goes on, and so does the clock.
FairSpec == Spec /\ WF_vars(Tick) /\ \A r \in Runs : WF_vars(RunStep(r))

-----------------------------------------------------------------------------
(* Properties *)

Holders == {r \in Runs : pc[r] \in Archiving}

NoOverlap == \A r, s \in Holders : r = s

\* The runs of one Session do not overlap while no run dies or is suspended with
\* the lock and the directory can hold one, although every run takes over what
\* looks stale to it and removes the lock by name.
RunsTakeTurns == lapses = {} => NoOverlap

\* Nor do they when a run dies holding it: a lock is taken over from the dead
\* only (takeLock: "A run that died holding it: take it over").
TakenFromTheDead == lapses \subseteq {"orphan"} => NoOverlap

\* Every run ends, archived or busy, whatever others died holding.
RunsEnd == \A r \in Runs : pc[r] = "open" ~> pc[r] \in {"done", "busy", "dead"}

=============================================================================
