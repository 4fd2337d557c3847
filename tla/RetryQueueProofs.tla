-------------------------- MODULE RetryQueueProofs --------------------------
(***************************************************************************)
(* Proofs about RetryQueue, for every number of events and drains, every cap, *)
(* TTL and number of retries: its types, that no event vanishes, that what    *)
(* enforceCap drops is past its TTL or has given way to newer files, and that *)
(* the cap is kept.                                                          *)
(***************************************************************************)
EXTENDS RetryQueue, FiniteSetTheorems, TLAPS

-----------------------------------------------------------------------------
(* Types *)

\* A hook that is still to send has sent at most as often as there are retries.
Tries ==
  \A e \in Events :
    /\ pc[e] = "new" => tries[e] = 0
    /\ pc[e] = "send" => tries[e] <= Retries

TypeInv == TypeOK /\ Tries

LEMMA FaultType ==
  ASSUME TypeOK, Fault
  PROVE  faults' \in 0 .. MaxFaults
BY ConstantsAssumption DEF TypeOK, Fault

LEMMA HappensType ==
  ASSUME TypeOK, NEW e, NEW what \in Fates, Happens(e, what)
  PROVE  fate' \in [Events -> SUBSET Fates]
BY DEF TypeOK, Happens

LEMMA AnsweredType ==
  ASSUME TypeOK, NEW e, NEW a, Answered(e, a)
  PROVE  fate' \in [Events -> SUBSET Fates] /\ faults' \in 0 .. MaxFaults
<1>1. "filed" \in Fates /\ "refused" \in Fates
  BY DEF Fates
<1>2. faults \in 0 .. MaxFaults /\ fate \in [Events -> SUBSET Fates]
  BY DEF TypeOK
<1> QED
  BY <1>1, <1>2, FaultType, HappensType DEF Answered

LEMMA DrainType ==
  ASSUME TypeOK, NEW d \in Drains, Continue(d) \/ Break(d)
  PROVE  /\ left' \in [Drains -> SUBSET Events]
         /\ sending' \in [Drains -> {"read", "send", "unlink"}]
BY DEF TypeOK, Continue, Break

LEMMA OverflowType ==
  ASSUME NEW S \in SUBSET Events
  PROVE  Overflow(S) \in SUBSET S
BY DEF Overflow

LEMMA DeliverType ==
  ASSUME TypeInv, NEW e \in Events, Deliver(e)
  PROVE  TypeInv'
<1> USE ConstantsAssumption
<1>1. PICK a \in {"ok", "refused", "down"}, expired \in BOOLEAN :
        LET over == expired \/ OutOfRetries(e) IN
        /\ Answered(e, a)
        /\ answer' = [answer EXCEPT ![e] = a]
        /\ pc' = [pc EXCEPT ![e] =
                    IF a = "ok" \/ (a = "refused" /\ ~over) THEN "answered"
                    ELSE IF over THEN "rename" ELSE "send"]
        /\ at' = [at EXCEPT ![e] = IF a # "ok" /\ over THEN now ELSE @]
  BY DEF Deliver
<1>2. TypeOK
  BY DEF TypeInv
<1>3. fate' \in [Events -> SUBSET Fates] /\ faults' \in 0 .. MaxFaults
  BY <1>1, <1>2, AnsweredType
<1>4. /\ tries[e] \in 0 .. Retries /\ pc[e] = "send"
      /\ tries' = [tries EXCEPT ![e] = @ + 1]
  BY DEF TypeInv, TypeOK, Tries, Deliver
<1>5. tries' \in [Events -> 0 .. Retries + 1]
  BY <1>2, <1>4 DEF TypeOK
<1>6. at' \in [Events -> 0 .. MaxTime]
  BY <1>1, <1>2 DEF TypeOK
<1>7. pc' \in [Events -> Stages] /\ answer' \in [Events -> {"none", "ok", "refused", "down"}]
  BY <1>1, <1>2 DEF TypeOK, Stages
<1>8. UNCHANGED <<now, up, queue, listed, doomed, drainVars>>
  BY DEF Deliver
<1>9. TypeOK'
  BY <1>2, <1>3, <1>5, <1>6, <1>7, <1>8 DEF TypeOK, drainVars
<1>10. Tries'
  <2>1. ASSUME NEW x \in Events
        PROVE  (pc'[x] = "new" => tries'[x] = 0) /\ (pc'[x] = "send" => tries'[x] <= Retries)
    <3>1. CASE x = e
      <4>1. tries'[e] = tries[e] + 1
        BY <1>2, <1>4 DEF TypeOK
      <4>2. pc'[e] # "new"
        BY <1>1, <1>2 DEF TypeOK
      <4>3. pc'[e] = "send" => ~OutOfRetries(e)
        BY <1>1, <1>2 DEF TypeOK
      <4>4. pc'[e] = "send" => tries'[e] <= Retries
        BY <4>1, <4>3, <1>4 DEF OutOfRetries
      <4> QED
        BY <3>1, <4>2, <4>4
    <3>2. CASE x # e
      <4>1. pc'[x] = pc[x] /\ tries'[x] = tries[x]
        BY <3>2, <1>1, <1>2, <1>4 DEF TypeOK
      <4> QED
        BY <4>1 DEF TypeInv, Tries
    <3> QED
      BY <3>1, <3>2
  <2> QED
    BY <2>1 DEF Tries
<1> QED
  BY <1>9, <1>10 DEF TypeInv

\* One step, whichever it is, keeps the types.
LEMMA TypeStep == TypeInv /\ [Next]_vars => TypeInv'
<1> SUFFICES ASSUME TypeInv, [Next]_vars PROVE TypeInv'
  OBVIOUS
<1> USE ConstantsAssumption
<1>0. TypeOK
  BY DEF TypeInv
<1>1. CASE Tick
  BY <1>1 DEF TypeInv, TypeOK, Tries, Tick, hookVars, drainVars
<1>2. CASE Outage
  BY <1>2, FaultType, <1>0 DEF TypeInv, TypeOK, Tries, Outage, hookVars, drainVars
<1>3. CASE Recover
  BY <1>3 DEF TypeInv, TypeOK, Tries, Recover, hookVars, drainVars
<1>4. ASSUME NEW e \in Events, Occur(e) PROVE TypeInv'
  BY <1>4 DEF TypeInv, TypeOK, Tries, Occur, drainVars, Stages
<1>5. ASSUME NEW e \in Events, Deliver(e) PROVE TypeInv'
  BY <1>5, DeliverType
<1>6. ASSUME NEW e \in Events, Rename(e) PROVE TypeInv'
  BY <1>6 DEF TypeInv, TypeOK, Tries, Rename, drainVars, Stages
<1>7. ASSUME NEW e \in Events, LoseEvent(e) PROVE TypeInv'
  <2>1. fate' \in [Events -> SUBSET Fates]
    BY <1>7, <1>0, HappensType DEF LoseEvent, Fates
  <2> QED
    BY <1>7, <1>0, <2>1, FaultType DEF TypeInv, TypeOK, Tries, LoseEvent, drainVars, Stages
<1>8. ASSUME NEW e \in Events, List(e) PROVE TypeInv'
  BY <1>8 DEF TypeInv, TypeOK, Tries, List, drainVars, Stages
<1>9. ASSUME NEW e \in Events, StatListed(e) PROVE TypeInv'
  <2>1. {x \in listed[e] : Stale(x)} \cup Overflow(listed[e]) \in SUBSET Events
    BY <1>0, OverflowType DEF TypeOK
  <2> QED
    BY <1>9, <2>1 DEF TypeInv, TypeOK, Tries, StatListed, drainVars, Stages
<1>10. ASSUME NEW e \in Events, NEW x \in Events, Drop(e, x) PROVE TypeInv'
  <2>1. fate' \in [Events -> SUBSET Fates]
    BY <1>10, <1>0, HappensType DEF Drop, Fates, TypeOK
  <2> QED
    BY <1>10, <2>1 DEF TypeInv, TypeOK, Tries, Drop, drainVars
<1>11. ASSUME NEW e \in Events, Enforced(e) PROVE TypeInv'
  BY <1>11 DEF TypeInv, TypeOK, Tries, Enforced, drainVars, Stages
<1>12. ASSUME NEW e \in Events, AbandonCap(e) PROVE TypeInv'
  BY <1>12, <1>0, FaultType DEF TypeInv, TypeOK, Tries, AbandonCap, drainVars, Stages
<1>13. ASSUME NEW d \in Drains, StartDrain(d) PROVE TypeInv'
  BY <1>13 DEF TypeInv, TypeOK, Tries, StartDrain, hookVars
<1>14. ASSUME NEW d \in Drains, ReadEntry(d) PROVE TypeInv'
  BY <1>14, <1>0, DrainType DEF TypeInv, TypeOK, Tries, ReadEntry, hookVars
<1>15. ASSUME NEW d \in Drains, SendEntry(d) PROVE TypeInv'
  BY <1>15, <1>0, DrainType, AnsweredType DEF TypeInv, TypeOK, Tries, SendEntry, hookVars
<1>16. ASSUME NEW d \in Drains, UnlinkEntry(d) PROVE TypeInv'
  BY <1>16, <1>0, DrainType DEF TypeInv, TypeOK, Tries, UnlinkEntry, hookVars
<1>17. ASSUME NEW d \in Drains, ReadEntryFails(d) PROVE TypeInv'
  <2>1. fate' \in [Events -> SUBSET Fates]
    BY <1>17, <1>0, HappensType DEF ReadEntryFails, Fates
  <2> QED
    BY <1>17, <1>0, <2>1, DrainType, FaultType
       DEF TypeInv, TypeOK, Tries, ReadEntryFails, hookVars
<1>18. ASSUME NEW d \in Drains, UnlinkEntryFails(d) \/ StopDrain(d) PROVE TypeInv'
  BY <1>18, <1>0, DrainType, FaultType
     DEF TypeInv, TypeOK, Tries, UnlinkEntryFails, StopDrain, hookVars
<1>19. CASE UNCHANGED vars
  BY <1>19 DEF TypeInv, TypeOK, Tries, vars
<1> QED
  BY <1>1, <1>2, <1>3, <1>4, <1>5, <1>6, <1>7, <1>8, <1>9, <1>10, <1>11, <1>12,
     <1>13, <1>14, <1>15, <1>16, <1>17, <1>18, <1>19
     DEF Next, HookStep, DrainStep

LEMMA TypeInvariant == Spec => []TypeInv
<1>1. Init => TypeInv
  BY ConstantsAssumption DEF Init, TypeInv, TypeOK, Tries, Stages
<1> QED
  BY <1>1, TypeStep, PTL DEF Spec

\* Every variable keeps its type, and no hook sends more often than deliver's
\* first attempt and its retries.
THEOREM TypeCorrect == Spec => []TypeOK
<1>1. TypeInv => TypeOK
  BY DEF TypeInv
<1> QED
  BY <1>1, TypeInvariant, PTL

-----------------------------------------------------------------------------
(* Files *)

\* Whatever is in the directory, or in a listing of it, was named by a hook
\* that has left deliver, so that its name stays as it is.
FilesInv ==
  /\ queue \subseteq EverQueued
  /\ \A e \in Events : listed[e] \subseteq EverQueued /\ doomed[e] \subseteq EverQueued
  /\ \A d \in Drains : left[d] \subseteq EverQueued

\* A hook that has put its file in place never goes back to deliver.
LEMMA NamesStay ==
  ASSUME TypeInv, [Next]_vars, NEW x \in EverQueued
  PROVE  x \in EverQueued' /\ at'[x] = at[x] /\ now <= now'
<1>0. /\ x \in Events /\ now \in 0 .. MaxTime
      /\ pc[x] \in {"list", "stat", "drop", "queued", "enforced"}
      /\ pc \in [Events -> Stages] /\ at \in [Events -> 0 .. MaxTime]
  BY DEF EverQueued, Unenforced, TypeInv, TypeOK
<1> SUFFICES pc'[x] \in {"list", "stat", "drop", "queued", "enforced"}
             /\ at'[x] = at[x] /\ now <= now'
  BY <1>0 DEF EverQueued, Unenforced
<1>1. CASE Tick
  BY <1>1, <1>0, ConstantsAssumption DEF Tick, hookVars
<1>2. ASSUME NEW e \in Events, Deliver(e)
      PROVE  pc'[x] = pc[x] /\ at'[x] = at[x] /\ now' = now
  BY <1>2, <1>0 DEF Deliver
<1>3. ASSUME NEW e \in Events,
             Occur(e) \/ Rename(e) \/ LoseEvent(e) \/ List(e) \/ StatListed(e)
               \/ Enforced(e) \/ AbandonCap(e) \/ (\E y \in Events : Drop(e, y))
      PROVE  /\ pc'[x] \in {"list", "stat", "drop", "queued", "enforced"}
             /\ at' = at /\ now' = now
  BY <1>3, <1>0 DEF Occur, Rename, LoseEvent, List, StatListed, Enforced, AbandonCap, Drop
<1>4. CASE UNCHANGED <<pc, at, now>>
  BY <1>4, <1>0, ConstantsAssumption
<1> QED
  BY <1>1, <1>2, <1>3, <1>4, <1>0, ConstantsAssumption
     DEF Next, HookStep, DrainStep, vars, hookVars, Outage, Recover, StartDrain,
         ReadEntry, SendEntry, UnlinkEntry, ReadEntryFails, UnlinkEntryFails,
         StopDrain

LEMMA DrainKeeps ==
  ASSUME TypeOK, NEW d \in Drains, Continue(d) \/ Break(d)
  PROVE  /\ \A c \in Drains : left'[c] \subseteq left[c]
         /\ \A c \in Drains : c # d => left'[c] = left[c] /\ sending'[c] = sending[c]
         /\ sending'[d] = "read"
BY DEF TypeOK, Continue, Break

LEMMA FilesStep == TypeInv /\ FilesInv /\ [Next]_vars => FilesInv'
<1> SUFFICES ASSUME TypeInv, FilesInv, [Next]_vars PROVE FilesInv'
  OBVIOUS
<1>0. TypeOK /\ EverQueued \subseteq EverQueued'
  BY NamesStay DEF TypeInv
<1>1. queue' \subseteq EverQueued'
  <2>1. ASSUME NEW e \in Events, Rename(e) PROVE queue' \subseteq EverQueued'
    <3>1. e \in EverQueued' /\ queue' = queue \cup {e}
      BY <2>1, <1>0 DEF Rename, EverQueued, Unenforced, TypeOK
    <3> QED
      BY <3>1, <1>0 DEF FilesInv
  <2>2. CASE queue' \subseteq queue
    BY <2>2, <1>0 DEF FilesInv
  <2> QED
    BY <2>1, <2>2
       DEF Next, HookStep, DrainStep, vars, Tick, Outage, Recover, Occur, Deliver,
           LoseEvent, List, StatListed, Enforced, AbandonCap, Drop, StartDrain,
           ReadEntry, SendEntry, UnlinkEntry, ReadEntryFails, UnlinkEntryFails,
           StopDrain
<1>2. \A e \in Events : listed'[e] \subseteq EverQueued'
  <2>1. ASSUME NEW e \in Events, List(e) PROVE \A x \in Events : listed'[x] \subseteq EverQueued'
    BY <2>1, <1>0 DEF List, FilesInv, TypeOK
  <2>2. CASE \A x \in Events : listed'[x] \subseteq listed[x]
    BY <2>2, <1>0 DEF FilesInv
  <2>3. ASSUME NEW e \in Events, StatListed(e) \/ AbandonCap(e)
        PROVE  \A x \in Events : listed'[x] \subseteq listed[x]
    BY <2>3, <1>0 DEF StatListed, AbandonCap, TypeOK
  <2> QED
    BY <2>1, <2>2, <2>3
       DEF Next, HookStep, DrainStep, vars, hookVars, Tick, Outage, Recover, Occur,
           Deliver, Rename, LoseEvent, Enforced, Drop, StartDrain, ReadEntry,
           SendEntry, UnlinkEntry, ReadEntryFails, UnlinkEntryFails, StopDrain
<1>3. \A e \in Events : doomed'[e] \subseteq EverQueued'
  <2>1. ASSUME NEW e \in Events, StatListed(e)
        PROVE  \A x \in Events : doomed'[x] \subseteq EverQueued'
    <3>1. {x \in listed[e] : Stale(x)} \cup Overflow(listed[e]) \subseteq listed[e]
      BY <1>0, OverflowType DEF TypeOK
    <3>2. \A x \in Events : doomed'[x] \subseteq doomed[x] \cup listed[e]
      BY <2>1, <3>1, <1>0 DEF StatListed, TypeOK
    <3> QED
      BY <3>2, <1>0 DEF FilesInv
  <2>2. CASE \A x \in Events : doomed'[x] \subseteq doomed[x]
    BY <2>2, <1>0 DEF FilesInv
  <2>3. ASSUME NEW e \in Events, AbandonCap(e) \/ \E y \in Events : Drop(e, y)
        PROVE  \A x \in Events : doomed'[x] \subseteq doomed[x]
    BY <2>3, <1>0 DEF AbandonCap, Drop, TypeOK
  <2> QED
    BY <2>1, <2>2, <2>3
       DEF Next, HookStep, DrainStep, vars, hookVars, Tick, Outage, Recover, Occur,
           Deliver, Rename, LoseEvent, List, Enforced, StartDrain, ReadEntry,
           SendEntry, UnlinkEntry, ReadEntryFails, UnlinkEntryFails, StopDrain
<1>4. \A d \in Drains : left'[d] \subseteq EverQueued'
  <2>1. ASSUME NEW d \in Drains, StartDrain(d)
        PROVE  \A c \in Drains : left'[c] \subseteq EverQueued'
    BY <2>1, <1>0 DEF StartDrain, FilesInv, TypeOK
  <2>2. CASE \A c \in Drains : left'[c] \subseteq left[c]
    BY <2>2, <1>0 DEF FilesInv
  <2>3. ASSUME NEW d \in Drains, Continue(d) \/ Break(d)
        PROVE  \A c \in Drains : left'[c] \subseteq left[c]
    BY <2>3, <1>0, DrainKeeps
  <2> QED
    BY <2>1, <2>2, <2>3
       DEF Next, HookStep, DrainStep, vars, drainVars, Tick, Outage, Recover, Occur,
           Deliver, Rename, LoseEvent, List, StatListed, Enforced, AbandonCap, Drop,
           ReadEntry, SendEntry, UnlinkEntry, ReadEntryFails, UnlinkEntryFails,
           StopDrain
<1> QED
  BY <1>1, <1>2, <1>3, <1>4 DEF FilesInv

LEMMA FilesInvariant == Spec => [](TypeInv /\ FilesInv)
<1>1. Init => FilesInv
  BY DEF Init, FilesInv, EverQueued
<1> QED
  BY <1>1, FilesStep, TypeInvariant, PTL DEF Spec

-----------------------------------------------------------------------------
(* No event vanishes *)

\* What a drain unlinks was answered first, and that is what has happened to
\* it.  It is still the file the drain is at: no name in its listing changes.
SendingInv ==
  \A d \in Drains :
    /\ left[d] = {} => sending[d] = "read"
    /\ sending[d] = "unlink" /\ First(d) \in Events => fate[First(d)] # {}

VanishInv == TypeInv /\ FilesInv /\ NoEventVanishes /\ SendingInv

\* What has happened to an event stays on record.
LEMMA FateStable ==
  ASSUME TypeOK, [Next]_vars
  PROVE  \A e \in Events : fate[e] \subseteq fate'[e]
<1> DEFINE Goal == \A e \in Events : fate[e] \subseteq fate'[e]
<1>1. ASSUME NEW x, NEW what, Happens(x, what) PROVE Goal
  BY <1>1 DEF Happens, TypeOK
<1>2. ASSUME NEW x, NEW a, Answered(x, a) PROVE Goal
  BY <1>2, <1>1 DEF Answered
<1>3. ASSUME UNCHANGED fate PROVE Goal
  BY <1>3
<1>4. ASSUME NEW e \in Events, Deliver(e) PROVE Goal
  BY <1>4, <1>2 DEF Deliver
<1>5. ASSUME NEW d \in Drains, SendEntry(d) PROVE Goal
  BY <1>5, <1>2 DEF SendEntry
<1> HIDE DEF Goal
<1>6. ASSUME NEW e \in Events, LoseEvent(e) PROVE Goal
  BY <1>6, <1>1 DEF LoseEvent
<1>7. ASSUME NEW e \in Events, NEW x \in Events, Drop(e, x) PROVE Goal
  BY <1>7, <1>1, <1>3 DEF Drop
<1>8. ASSUME NEW d \in Drains, ReadEntryFails(d) PROVE Goal
  BY <1>8, <1>1 DEF ReadEntryFails
<1>9. Goal
  BY <1>3, <1>4, <1>5, <1>6, <1>7, <1>8
     DEF Next, HookStep, DrainStep, vars, Tick, Outage, Recover, Occur, Rename,
         List, StatListed, Enforced, AbandonCap, StartDrain, ReadEntry,
         UnlinkEntry, UnlinkEntryFails, StopDrain
<1> QED
  BY <1>9 DEF Goal

LEMMA HappensMarks ==
  ASSUME TypeOK, NEW e \in Events, NEW what, Happens(e, what)
  PROVE  fate'[e] # {}
<1>1. fate'[e] = fate[e] \cup {what}
  BY DEF Happens, TypeOK
<1> QED
  BY <1>1

\* A drain that keeps its listing stays at the same file.
LEMMA FirstStays ==
  ASSUME TypeInv, FilesInv, [Next]_vars, NEW d \in Drains, left'[d] = left[d]
  PROVE  First(d)' = First(d)
<1>1. \A x \in left[d] : at'[x] = at[x]
  BY NamesStay DEF FilesInv
<1>2. Oldest(left[d])' = Oldest(left[d])
  BY <1>1 DEF Oldest, Older
<1> QED
  BY <1>2 DEF First

LEMMA SendEntryVanish ==
  ASSUME VanishInv, [Next]_vars, NEW d \in Drains, SendEntry(d)
  PROVE  SendingInv'
<1>0. TypeOK /\ TypeInv /\ FilesInv
  BY DEF VanishInv, TypeInv
<1>1. PICK a \in {"ok", "refused", "down"} :
        /\ Answered(First(d), a)
        /\ IF a = "down" THEN Break(d)
           ELSE sending' = [sending EXCEPT ![d] = "unlink"] /\ UNCHANGED left
  BY DEF SendEntry
<1>2. CASE a = "down"
  <2>1. Break(d)
    BY <1>1, <1>2
  <2>2. left'[d] = {} /\ sending'[d] = "read"
    BY <2>1, <1>0 DEF Break, TypeOK
  <2>3. ASSUME NEW c \in Drains, c # d
        PROVE  /\ left'[c] = {} => sending'[c] = "read"
               /\ sending'[c] = "unlink" /\ First(c)' \in Events => fate'[First(c)'] # {}
    <3>1. left'[c] = left[c] /\ sending'[c] = sending[c]
      BY <2>1, <2>3, <1>0, DrainKeeps
    <3> QED
      BY <3>1, <1>0, FirstStays, FateStable DEF VanishInv, SendingInv
  <2> QED
    BY <2>2, <2>3 DEF SendingInv
<1>3. CASE a # "down"
  <2>1. left' = left /\ sending' = [sending EXCEPT ![d] = "unlink"] /\ left[d] # {}
    BY <1>1, <1>3 DEF SendEntry
  <2>2. \A c \in Drains : First(c)' = First(c)
    BY <2>1, <1>0, FirstStays
  <2>3. \E what : Happens(First(d), what)
    BY <1>1, <1>3 DEF Answered
  <2>4. First(d) \in Events => fate'[First(d)] # {}
    BY <2>3, <1>0 DEF Happens, TypeOK
  <2>5. ASSUME NEW c \in Drains
        PROVE  /\ left'[c] = {} => sending'[c] = "read"
               /\ sending'[c] = "unlink" /\ First(c)' \in Events => fate'[First(c)'] # {}
    <3>1. CASE c = d
      BY <3>1, <2>1, <2>2, <2>4, <1>0 DEF TypeOK
    <3>2. CASE c # d
      <4>1. left'[c] = left[c] /\ sending'[c] = sending[c]
        BY <3>2, <2>1, <1>0 DEF TypeOK
      <4> QED
        BY <4>1, <2>2, <1>0, FateStable DEF VanishInv, SendingInv
    <3> QED
      BY <3>1, <3>2
  <2> QED
    BY <2>5 DEF SendingInv
<1> QED
  BY <1>2, <1>3

LEMMA SendingStep ==
  ASSUME VanishInv, [Next]_vars
  PROVE  SendingInv'
<1>0. TypeOK /\ TypeInv /\ FilesInv
  BY DEF VanishInv, TypeInv
<1> DEFINE Safe(c) ==
      /\ left'[c] = {} => sending'[c] = "read"
      /\ sending'[c] = "unlink" /\ First(c)' \in Events => fate'[First(c)'] # {}
<1>1. ASSUME NEW c \in Drains, left'[c] = left[c], sending'[c] = sending[c] PROVE Safe(c)
  BY <1>1, <1>0, FirstStays, FateStable DEF VanishInv, SendingInv
<1>2. ASSUME NEW c \in Drains, sending'[c] = "read" PROVE Safe(c)
  BY <1>2
<1>3. ASSUME NEW d \in Drains, Continue(d) \/ Break(d) PROVE \A c \in Drains : Safe(c)
  BY <1>1, <1>2, <1>3, <1>0, DrainKeeps
<1>4. ASSUME NEW d \in Drains, StartDrain(d) PROVE \A c \in Drains : Safe(c)
  <2>1. left[d] = {} /\ sending' = sending
    BY <1>4 DEF StartDrain
  <2>2. sending[d] = "read"
    BY <2>1 DEF VanishInv, SendingInv
  <2>3. \A c \in Drains : c # d => left'[c] = left[c]
    BY <1>4, <1>0 DEF StartDrain, TypeOK
  <2> HIDE DEF Safe
  <2> QED
    BY <1>1, <1>2, <2>1, <2>2, <2>3
<1>5. ASSUME NEW d \in Drains, ReadEntry(d) PROVE \A c \in Drains : Safe(c)
  <2>1. CASE Continue(d)
    BY <2>1, <1>3
  <2>2. CASE sending' = [sending EXCEPT ![d] = "send"] /\ UNCHANGED left
    <3>1. left[d] # {} /\ sending'[d] = "send"
      BY <1>5, <2>2, <1>0 DEF ReadEntry, TypeOK
    <3>2. Safe(d)
      BY <3>1, <2>2
    <3>3. \A c \in Drains : c # d => Safe(c)
      BY <1>1, <2>2, <1>0 DEF TypeOK
    <3> QED
      BY <3>2, <3>3
  <2> QED
    BY <1>5, <2>1, <2>2 DEF ReadEntry
<1> HIDE DEF Safe
<1>6. ASSUME UNCHANGED <<left, sending>> PROVE \A c \in Drains : Safe(c)
  BY <1>6, <1>1
<1>7. ASSUME NEW d \in Drains, SendEntry(d) PROVE SendingInv'
  BY <1>7, SendEntryVanish
<1>8. (\A c \in Drains : Safe(c)) => SendingInv'
  BY DEF Safe, SendingInv
<1> QED
  BY <1>3, <1>4, <1>5, <1>6, <1>7, <1>8
     DEF Next, HookStep, DrainStep, vars, drainVars, Tick, Outage, Recover, Occur,
         Deliver, Rename, LoseEvent, List, StatListed, Enforced, AbandonCap, Drop,
         UnlinkEntry, ReadEntryFails, UnlinkEntryFails, StopDrain

\* An event is accounted for while its hook has it, while its file is there, and
\* once something has happened to it.
Accounted(e) == pc[e] = "new" \/ e \in InMemory \/ e \in queue \/ fate[e] # {}

LEMMA VanishStep ==
  ASSUME VanishInv, [Next]_vars
  PROVE  NoEventVanishes'
<1>0. /\ TypeOK /\ \A e \in Events : Accounted(e)
      /\ \A e \in Events : fate[e] \subseteq fate'[e]
  BY FateStable DEF VanishInv, TypeInv, NoEventVanishes, Accounted
<1> DEFINE Goal == \A e \in Events : Accounted(e)'
<1>1. ASSUME NEW e \in Events, Occur(e) PROVE Goal
  BY <1>1, <1>0 DEF Occur, Accounted, InMemory, TypeOK
<1>2. ASSUME NEW e \in Events, Deliver(e) PROVE Goal
  <2>1. \A x \in Events : x # e => pc'[x] = pc[x]
    BY <1>2, <1>0 DEF Deliver, TypeOK
  <2>2. queue' = queue
    BY <1>2 DEF Deliver
  <2>3. \A x \in Events : x # e => Accounted(x)'
    BY <2>1, <2>2, <1>0 DEF Accounted, InMemory
  <2>4. pc'[e] \in {"send", "rename"} \/ \E what : Happens(e, what)
    BY <1>2, <1>0 DEF Deliver, Answered, TypeOK
  <2>5. Accounted(e)'
    BY <2>4, <1>0, HappensMarks DEF Accounted, InMemory
  <2> QED
    BY <2>3, <2>5
<1>3. ASSUME NEW e \in Events, Rename(e) PROVE Goal
  BY <1>3, <1>0 DEF Rename, Accounted, InMemory, TypeOK
<1>4. ASSUME NEW e \in Events, LoseEvent(e) PROVE Goal
  <2>1. fate'[e] # {} /\ queue' = queue
    BY <1>4, <1>0, HappensMarks DEF LoseEvent
  <2>2. \A x \in Events : x # e => pc'[x] = pc[x]
    BY <1>4, <1>0 DEF LoseEvent, TypeOK
  <2> QED
    BY <2>1, <2>2, <1>0 DEF Accounted, InMemory
<1>5. ASSUME NEW e \in Events, List(e) \/ StatListed(e) \/ Enforced(e) \/ AbandonCap(e)
      PROVE  Goal
  <2>1. /\ pc[e] \in {"list", "stat", "drop"} /\ queue' = queue
        /\ \A x \in Events : x # e => pc'[x] = pc[x]
    BY <1>5, <1>0 DEF List, StatListed, Enforced, AbandonCap, TypeOK
  <2> QED
    BY <2>1, <1>0 DEF Accounted, InMemory
<1>6. ASSUME NEW e \in Events, NEW x \in Events, Drop(e, x) PROVE Goal
  <2>1. x \in queue => fate'[x] # {}
    BY <1>6, <1>0, HappensMarks DEF Drop
  <2>2. pc' = pc /\ queue' = queue \ {x}
    BY <1>6 DEF Drop
  <2> QED
    BY <2>1, <2>2, <1>0 DEF Accounted, InMemory
<1>7. ASSUME NEW d \in Drains, UnlinkEntry(d) PROVE Goal
  <2>1. First(d) \in Events => fate[First(d)] # {}
    BY <1>7 DEF UnlinkEntry, VanishInv, SendingInv
  <2>2. pc' = pc /\ queue' = queue \ {First(d)}
    BY <1>7 DEF UnlinkEntry, hookVars
  <2> QED
    BY <2>1, <2>2, <1>0 DEF Accounted, InMemory
<1>8. ASSUME NEW d \in Drains, ReadEntryFails(d) PROVE Goal
  <2>1. First(d) \in Events => fate'[First(d)] # {}
    BY <1>8, <1>0 DEF ReadEntryFails, Happens, TypeOK
  <2>2. pc' = pc /\ queue' = queue \ {First(d)}
    BY <1>8 DEF ReadEntryFails, hookVars
  <2> QED
    BY <2>1, <2>2, <1>0 DEF Accounted, InMemory
<1>9. ASSUME UNCHANGED <<pc, queue>> PROVE Goal
  BY <1>9, <1>0 DEF Accounted, InMemory
<1> HIDE DEF Goal
<1>10. Goal
  BY <1>1, <1>2, <1>3, <1>4, <1>5, <1>6, <1>7, <1>8, <1>9
     DEF Next, HookStep, DrainStep, vars, hookVars, Tick, Outage, Recover,
         StartDrain, ReadEntry, SendEntry, UnlinkEntryFails, StopDrain
<1> QED
  BY <1>10 DEF Goal, Accounted, NoEventVanishes

\* An event leaves its hook's memory and the directory only by being filed,
\* refused, dropped by the cap or the TTL, or lost to a fault, however the hooks
\* and the drains of one directory interleave without a lock.
THEOREM NothingVanishes == Spec => []NoEventVanishes
<1>1. Init /\ TypeInv => VanishInv
  BY DEF Init, VanishInv, FilesInv, EverQueued, NoEventVanishes, SendingInv
<1>2. Init => TypeInv
  BY ConstantsAssumption DEF Init, TypeInv, TypeOK, Tries, Stages
<1>3. VanishInv /\ [Next]_vars => VanishInv'
  BY TypeStep, FilesStep, VanishStep, SendingStep DEF VanishInv
<1>4. VanishInv => NoEventVanishes
  BY DEF VanishInv
<1> QED
  BY <1>1, <1>2, <1>3, <1>4, PTL DEF Spec

-----------------------------------------------------------------------------
(* The oldest go first *)

\* What may be dropped; and once it may, it may from then on, however much later
\* it is: the clock does not run back, and files once newer stay so.
Spent(x) ==
  \/ Stale(x)
  \/ Cardinality({y \in EverQueued : Older(x, y)}) >= MaxQueued

SpentInv ==
  /\ \A e \in Events : \A x \in doomed[e] : Spent(x)
  /\ \A e \in Events : "dropped" \in fate[e] => e \in EverQueued /\ Spent(e)

\* Sets of events are finite.
LEMMA EventsFinite ==
  ASSUME NEW S \in SUBSET Events
  PROVE  IsFiniteSet(S) /\ Cardinality(S) \in Nat
<1>1. IsFiniteSet(Events)
  BY FS_Interval, ConstantsAssumption DEF Events
<1> QED
  BY <1>1, FS_Subset, FS_CardinalityType

LEMMA SpentStays ==
  ASSUME TypeInv, [Next]_vars, NEW x \in EverQueued, Spent(x)
  PROVE  Spent(x)'
<1>0. /\ at'[x] = at[x] /\ now <= now' /\ x \in Events
      /\ now \in 0 .. MaxTime /\ at \in [Events -> 0 .. MaxTime]
      /\ now' \in 0 .. MaxTime
  BY NamesStay, TypeStep DEF TypeInv, TypeOK, EverQueued, Unenforced
<1>1. CASE Stale(x)
  <2>1. Stale(x)'
    BY <1>0, <1>1, ConstantsAssumption DEF Stale
  <2> QED
    BY <2>1 DEF Spent
<1>2. CASE Cardinality({y \in EverQueued : Older(x, y)}) >= MaxQueued
  <2> DEFINE S == {y \in EverQueued : Older(x, y)}
             T == {y \in EverQueued' : Older(x, y)'}
  <2>1. S \in SUBSET T
    <3>1. ASSUME NEW y \in EverQueued, Older(x, y) PROVE y \in EverQueued' /\ Older(x, y)'
      <4>1. y \in EverQueued' /\ at'[y] = at[y]
        BY <3>1, NamesStay
      <4> QED
        BY <3>1, <4>1, <1>0 DEF Older
    <3> QED
      BY <3>1
  <2>2. S \in SUBSET Events /\ T \in SUBSET Events
    BY DEF EverQueued, Unenforced
  <2> HIDE DEF S, T
  <2>3. IsFiniteSet(T) /\ Cardinality(S) \in Nat /\ Cardinality(T) \in Nat
    BY <2>2, EventsFinite
  <2>4. Cardinality(S) <= Cardinality(T)
    BY <2>1, <2>3, FS_Subset
  <2>5. Cardinality(S) >= MaxQueued
    BY <1>2 DEF S
  <2>6. Cardinality(T) >= MaxQueued
    BY <2>3, <2>4, <2>5, ConstantsAssumption
  <2> QED
    BY <2>6 DEF T, Spent
<1> QED
  BY <1>1, <1>2 DEF Spent

\* enforceCap dooms only what is past the TTL or the cap.
LEMMA DoomedSpent ==
  ASSUME NEW S \in SUBSET EverQueued,
         NEW x \in {y \in S : Stale(y)} \cup Overflow(S)
  PROVE  Spent(x)
<1>1. CASE Stale(x)
  BY <1>1 DEF Spent
<1>2. CASE ~Stale(x)
  <2> DEFINE live == {y \in S : ~Stale(y)}
             N == {y \in live : Older(x, y)}
             M == {y \in EverQueued : Older(x, y)}
  <2>1. Cardinality(N) >= MaxQueued
    BY <1>2 DEF Overflow
  <2>2. N \in SUBSET M /\ M \in SUBSET Events /\ N \in SUBSET Events
    BY DEF EverQueued, Unenforced
  <2> HIDE DEF N, M, live
  <2>3. IsFiniteSet(M) /\ Cardinality(M) \in Nat /\ Cardinality(N) \in Nat
    BY <2>2, EventsFinite
  <2>4. Cardinality(N) <= Cardinality(M)
    BY <2>2, <2>3, FS_Subset
  <2>5. Cardinality(M) >= MaxQueued
    BY <2>1, <2>3, <2>4, ConstantsAssumption
  <2> QED
    BY <2>5 DEF M, Spent
<1> QED
  BY <1>1, <1>2

LEMMA SpentStep ==
  ASSUME TypeInv, FilesInv, SpentInv, [Next]_vars
  PROVE  SpentInv'
<1>0. TypeOK
  BY DEF TypeInv
<1>1. \A e \in Events : \A x \in doomed'[e] : Spent(x)'
  <2> SUFFICES \A e \in Events : \A x \in doomed'[e] : x \in EverQueued /\ Spent(x)
    BY SpentStays
  <2>1. ASSUME NEW e \in Events, StatListed(e)
        PROVE  \A f \in Events : \A x \in doomed'[f] : x \in EverQueued /\ Spent(x)
    <3> DEFINE D == {x \in listed[e] : Stale(x)} \cup Overflow(listed[e])
    <3>1. \A x \in D : x \in EverQueued /\ Spent(x)
      <4>1. listed[e] \in SUBSET EverQueued
        BY DEF FilesInv
      <4>2. Overflow(listed[e]) \subseteq listed[e]
        BY DEF Overflow
      <4> QED
        BY <4>1, <4>2, DoomedSpent
    <3>2. \A f \in Events : doomed'[f] = doomed[f] \/ doomed'[f] = D
      BY <2>1, <1>0 DEF StatListed, TypeOK
    <3> QED
      BY <3>1, <3>2 DEF FilesInv, SpentInv
  <2>2. ASSUME \A f \in Events : doomed'[f] \subseteq doomed[f]
        PROVE  \A f \in Events : \A x \in doomed'[f] : x \in EverQueued /\ Spent(x)
    BY <2>2 DEF FilesInv, SpentInv
  <2>3. ASSUME NEW e \in Events, AbandonCap(e) \/ \E y \in Events : Drop(e, y)
        PROVE  \A f \in Events : doomed'[f] \subseteq doomed[f]
    BY <2>3, <1>0 DEF AbandonCap, Drop, TypeOK
  <2>4. ASSUME doomed' = doomed PROVE \A f \in Events : doomed'[f] \subseteq doomed[f]
    BY <2>4
  <2> QED
    BY <2>1, <2>2, <2>3, <2>4
       DEF Next, HookStep, DrainStep, vars, hookVars, Tick, Outage, Recover, Occur,
           Deliver, Rename, LoseEvent, List, Enforced, StartDrain, ReadEntry,
           SendEntry, UnlinkEntry, ReadEntryFails, UnlinkEntryFails, StopDrain
<1>2. \A e \in Events : "dropped" \in fate'[e] => e \in EverQueued' /\ Spent(e)'
  <2> DEFINE Goal == \A e \in Events : "dropped" \in fate'[e] => e \in EverQueued /\ Spent(e)
  <2> SUFFICES Goal
    BY NamesStay, SpentStays
  <2>1. ASSUME \A e \in Events : "dropped" \in fate'[e] => "dropped" \in fate[e] PROVE Goal
    BY <2>1 DEF SpentInv
  <2>2. ASSUME NEW e, NEW what, Happens(e, what), what # "dropped" PROVE Goal
    BY <2>1, <2>2, <1>0 DEF Happens, TypeOK
  <2>3. ASSUME NEW e, NEW a, Answered(e, a) PROVE Goal
    BY <2>1, <2>2, <2>3 DEF Answered
  <2>4. ASSUME NEW e \in Events, Deliver(e) PROVE Goal
    BY <2>3, <2>4 DEF Deliver
  <2>5. ASSUME NEW d \in Drains, SendEntry(d) PROVE Goal
    BY <2>3, <2>5 DEF SendEntry
  <2>6. ASSUME NEW e \in Events, LoseEvent(e) PROVE Goal
    BY <2>2, <2>6 DEF LoseEvent
  <2>7. ASSUME NEW d \in Drains, ReadEntryFails(d) PROVE Goal
    BY <2>2, <2>7 DEF ReadEntryFails
  <2>8. ASSUME NEW e \in Events, NEW x \in Events, Drop(e, x) PROVE Goal
    <3>1. x \in EverQueued /\ Spent(x)
      BY <2>8 DEF Drop, FilesInv, SpentInv
    <3>2. \A f \in Events : f # x => fate'[f] = fate[f]
      BY <2>8, <1>0 DEF Drop, Happens, TypeOK
    <3> QED
      BY <3>1, <3>2 DEF SpentInv
  <2>9. ASSUME fate' = fate PROVE Goal
    BY <2>1, <2>9
  <2> HIDE DEF Goal
  <2> QED
    BY <2>4, <2>5, <2>6, <2>7, <2>8, <2>9
       DEF Next, HookStep, DrainStep, vars, Tick, Outage, Recover, Occur, Rename,
           List, StatListed, Enforced, AbandonCap, StartDrain, ReadEntry,
           UnlinkEntry, UnlinkEntryFails, StopDrain
<1> QED
  BY <1>1, <1>2 DEF SpentInv

\* enforceCap never drops an event to make room for an older one: whoever drops
\* it, and on however old a listing, it was past the TTL, or MaxQueued newer
\* events had been queued.
THEOREM OldestFirst == Spec => []DroppedForNewer
<1>1. Init => SpentInv
  BY DEF Init, SpentInv
<1>2. SpentInv => DroppedForNewer
  BY DEF SpentInv, Spent, DroppedForNewer
<1>3. TypeInv /\ FilesInv /\ SpentInv /\ [Next]_vars => SpentInv'
  BY SpentStep
<1> QED
  BY <1>1, <1>2, <1>3, FilesInvariant, PTL DEF Spec

-----------------------------------------------------------------------------
(* The cap *)

\* Fewer than n files have fewer than n newer ones: a file has more newer ones
\* than any that is newer itself, so no two have as many.
LEMMA FewHaveFewNewer ==
  ASSUME TypeInv, NEW S \in SUBSET Events, NEW n \in Nat
  PROVE  Cardinality({e \in S : Cardinality({x \in S : Older(e, x)}) < n}) <= n
<1> DEFINE Newer(e) == {x \in S : Older(e, x)}
           T == {e \in S : Cardinality(Newer(e)) < n}
           rank == [e \in T |-> Cardinality(Newer(e))]
<1>0. at \in [Events -> 0 .. MaxTime] /\ Events \subseteq Nat /\ MaxTime \in Nat
  BY ConstantsAssumption DEF TypeInv, TypeOK, Events
<1>1. \A e \in S : IsFiniteSet(Newer(e)) /\ Cardinality(Newer(e)) \in Nat
  BY EventsFinite
<1>2. IsFiniteSet(T) /\ Cardinality(T) \in Nat
  BY EventsFinite
<1>3. IsFiniteSet(0 .. n - 1) /\ Cardinality(0 .. n - 1) = n
  <2>1. IsFiniteSet(0 .. n - 1)
    BY FS_Interval
  <2>2. Cardinality(0 .. n - 1) = IF 0 > n - 1 THEN 0 ELSE (n - 1) - 0 + 1
    BY FS_Interval
  <2> QED
    BY <2>1, <2>2
<1>4. rank \in [T -> 0 .. n - 1]
  BY <1>1
<1>5. ASSUME NEW e \in S, NEW f \in S, Older(e, f)
      PROVE  Cardinality(Newer(f)) < Cardinality(Newer(e))
  <2>0. ASSUME NEW x \in S, Older(f, x) PROVE Older(e, x)
    <3>1. /\ at[e] \in Nat /\ at[f] \in Nat /\ at[x] \in Nat
          /\ e \in Nat /\ f \in Nat /\ x \in Nat
      BY <1>0
    <3> QED
      BY <1>5, <2>0, <3>1 DEF Older
  <2>1. Newer(f) \in SUBSET Newer(e)
    BY <2>0
  <2>2. f \in Newer(e) /\ f \notin Newer(f)
    BY <1>0, <1>5 DEF Older
  <2> HIDE DEF Newer
  <2>3. Cardinality(Newer(f)) <= Cardinality(Newer(e))
        /\ Cardinality(Newer(f)) # Cardinality(Newer(e))
    BY <1>1, <2>1, <2>2, FS_Subset
  <2> QED
    BY <1>1, <2>3
<1>6. \A e, f \in S : e = f \/ Older(e, f) \/ Older(f, e)
  BY <1>0 DEF Older
<1>7. \A e, f \in T : e # f => rank[e] # rank[f]
  BY <1>1, <1>5, <1>6
<1> HIDE DEF rank, T
<1>8. ~(n < Cardinality(T))
  BY <1>2, <1>3, <1>4, <1>7, FS_PigeonHole
<1> QED
  BY <1>2, <1>8 DEF T

\* What a listing keeps is within the cap.
LEMMA KeepsTheCap ==
  ASSUME TypeInv, NEW S \in SUBSET Events
  PROVE  Cardinality(S \ ({x \in S : Stale(x)} \cup Overflow(S))) <= MaxQueued
<1> DEFINE live == {e \in S : ~Stale(e)}
           few == {e \in live : Cardinality({x \in live : Older(e, x)}) < MaxQueued}
<1>1. \A e \in live : Cardinality({x \in live : Older(e, x)}) \in Nat
  BY EventsFinite
<1>2. S \ ({x \in S : Stale(x)} \cup Overflow(S)) = few
  BY <1>1, ConstantsAssumption DEF Overflow
<1>3. Cardinality(few) <= MaxQueued
  BY FewHaveFewNewer, ConstantsAssumption
<1> QED
  BY <1>2, <1>3

\* Hooks that work on a listing they took.
Working == {e \in Events : pc[e] \in {"stat", "drop"}}

\* Seen(e) is the listing a hook took, as it was.  The files of Late are newer
\* than the last listing that was enforced, and all others are within the cap.
\* A late hook took its listing later still, so that what it does not list is
\* late too; of two listings, the one taken later has what is left of the other.
CapOf(Seen, Late) ==
  /\ Late \subseteq queue \cap Unenforced
  /\ Cardinality(queue \ Late) <= MaxQueued
  /\ \A e \in Working :
       /\ Seen[e] \subseteq EverQueued
       /\ e \in queue => e \in Seen[e]
       /\ pc[e] = "stat" => Seen[e] = listed[e]
       /\ pc[e] = "drop" =>
            Cardinality((Seen[e] \cap queue) \ doomed[e]) <= MaxQueued
       /\ e \in Late => queue \ Seen[e] \subseteq Late
  /\ \A e, g \in Working : g \in queue \ Seen[e] => Seen[e] \cap queue \subseteq Seen[g]

CapInv == \E Seen \in [Events -> SUBSET Events], Late \in SUBSET Events : CapOf(Seen, Late)

\* A set within the cap stays within it as it shrinks.
LEMMA FewerFit ==
  ASSUME NEW S \in SUBSET Events, NEW T \in SUBSET S, Cardinality(S) <= MaxQueued
  PROVE  Cardinality(T) <= MaxQueued
<1>1. Cardinality(T) <= Cardinality(S) /\ IsFiniteSet(S)
  BY EventsFinite, FS_Subset
<1>2. Cardinality(T) \in Nat /\ Cardinality(S) \in Nat
  BY EventsFinite
<1> QED
  BY <1>1, <1>2, ConstantsAssumption

\* Files go, and hooks give up: nobody has taken a listing or enforced one.
LEMMA CapShrinks ==
  ASSUME TypeInv, [Next]_vars, CapInv, queue' \subseteq queue,
         Unenforced \subseteq Unenforced',
         \A e \in Working' :
           /\ pc'[e] = pc[e] /\ listed'[e] = listed[e]
           /\ (doomed[e] \ doomed'[e]) \cap queue' = {}
  PROVE  CapInv'
<1>1. PICK Seen \in [Events -> SUBSET Events], Late \in SUBSET Events : CapOf(Seen, Late)
  BY DEF CapInv
<1>2. queue \in SUBSET Events /\ EverQueued \subseteq EverQueued'
  BY NamesStay DEF TypeInv, TypeOK
<1>3. Working' \subseteq Working
  BY DEF Working
<1>4. PICK Later \in SUBSET Events : Later = Late \cap queue'
  OBVIOUS
<1>5. Later \subseteq queue' \cap Unenforced'
  BY <1>1, <1>4 DEF CapOf
<1>6. Cardinality(queue' \ Later) <= MaxQueued
  <2>1. queue \ Late \in SUBSET Events /\ queue' \ Later \in SUBSET (queue \ Late)
    BY <1>2, <1>4
  <2> QED
    BY <1>1, <2>1, FewerFit DEF CapOf
<1>7. ASSUME NEW e \in Working'
      PROVE  /\ Seen[e] \subseteq EverQueued'
             /\ e \in queue' => e \in Seen[e]
             /\ pc'[e] = "stat" => Seen[e] = listed'[e]
             /\ pc'[e] = "drop" =>
                  Cardinality((Seen[e] \cap queue') \ doomed'[e]) <= MaxQueued
             /\ e \in Later => queue' \ Seen[e] \subseteq Later
  <2>1. e \in Working /\ e \in Events
    BY <1>3 DEF Working
  <2>2. ASSUME pc'[e] = "drop"
        PROVE  Cardinality((Seen[e] \cap queue') \ doomed'[e]) <= MaxQueued
    <3>1. Cardinality((Seen[e] \cap queue) \ doomed[e]) <= MaxQueued
      BY <1>1, <2>1, <2>2 DEF CapOf
    <3>2. (Seen[e] \cap queue') \ doomed'[e] \in SUBSET ((Seen[e] \cap queue) \ doomed[e])
      BY <2>1
    <3>3. (Seen[e] \cap queue) \ doomed[e] \in SUBSET Events
      BY <1>2
    <3> QED
      BY <3>1, <3>2, <3>3, FewerFit
  <2> QED
    BY <1>1, <1>2, <1>4, <2>1, <2>2 DEF CapOf
<1>8. \A e, g \in Working' : g \in queue' \ Seen[e] => Seen[e] \cap queue' \subseteq Seen[g]
  BY <1>1, <1>3 DEF CapOf
<1>9. CapOf(Seen, Later)'
  BY <1>5, <1>6, <1>7, <1>8 DEF CapOf
<1> QED
  BY <1>9 DEF CapInv

\* A new file is late.
LEMMA CapRenames ==
  ASSUME TypeInv, [Next]_vars, CapInv, NEW x \in Events, Rename(x)
  PROVE  CapInv'
<1>1. PICK Seen \in [Events -> SUBSET Events], Late \in SUBSET Events : CapOf(Seen, Late)
  BY DEF CapInv
<1>2. EverQueued \subseteq EverQueued'
  BY NamesStay
<1>3. /\ queue' = queue \cup {x} /\ UNCHANGED <<listed, doomed>>
      /\ Working' = Working /\ \A e \in Working : pc'[e] = pc[e] /\ e # x
      /\ x \notin EverQueued
      /\ Unenforced' = Unenforced \cup {x}
  BY DEF Rename, Working, EverQueued, Unenforced, TypeInv, TypeOK
<1>4. /\ Late \cup {x} \subseteq queue' \cap Unenforced'
      /\ queue' \ (Late \cup {x}) \subseteq queue \ Late
  BY <1>1, <1>3 DEF CapOf
<1>5. Cardinality(queue' \ (Late \cup {x})) <= MaxQueued
  <2>1. queue \ Late \in SUBSET Events
    BY DEF TypeInv, TypeOK
  <2> QED
    BY <1>1, <1>4, <2>1, FewerFit DEF CapOf
<1>6. \A e \in Working : (Seen[e] \cap queue') = (Seen[e] \cap queue)
  BY <1>1, <1>3 DEF CapOf
<1>7. CapOf(Seen, Late \cup {x})'
  BY <1>1, <1>2, <1>3, <1>4, <1>5, <1>6 DEF CapOf
<1> QED
  BY <1>7 DEF CapInv

\* The listing taken last has whatever is left of the others.
LEMMA CapLists ==
  ASSUME TypeInv, [Next]_vars, FilesInv, CapInv, NEW x \in Events, List(x)
  PROVE  CapInv'
<1>1. PICK Seen \in [Events -> SUBSET Events], Late \in SUBSET Events : CapOf(Seen, Late)
  BY DEF CapInv
<1>2. PICK Now \in [Events -> SUBSET Events] : Now = [Seen EXCEPT ![x] = queue]
  BY DEF TypeInv, TypeOK
<1>3. EverQueued \subseteq EverQueued' /\ queue \subseteq EverQueued
  BY NamesStay DEF FilesInv
<1>4. /\ UNCHANGED <<queue, doomed>>
      /\ Working' = Working \cup {x} /\ x \notin Working
      /\ pc'[x] = "stat" /\ listed'[x] = queue
      /\ \A e \in Working : pc'[e] = pc[e] /\ listed'[e] = listed[e] /\ Now[e] = Seen[e]
      /\ Now[x] = queue
      /\ Unenforced' = Unenforced
  BY <1>2 DEF List, Working, Unenforced, TypeInv, TypeOK
<1>5. CapOf(Now, Late)'
  <2>1. /\ Late \subseteq queue' \cap Unenforced'
        /\ Cardinality(queue' \ Late) <= MaxQueued
    BY <1>1, <1>4 DEF CapOf
  <2>2. ASSUME NEW e \in Working'
        PROVE  /\ Now[e] \subseteq EverQueued'
               /\ e \in queue' => e \in Now[e]
               /\ pc'[e] = "stat" => Now[e] = listed'[e]
               /\ pc'[e] = "drop" =>
                    Cardinality((Now[e] \cap queue') \ doomed'[e]) <= MaxQueued
               /\ e \in Late => queue' \ Now[e] \subseteq Late
    <3>1. CASE e = x
      BY <1>3, <1>4, <3>1
    <3>2. CASE e \in Working
      BY <1>1, <1>3, <1>4, <3>2 DEF CapOf
    <3> QED
      BY <1>4, <3>1, <3>2
  <2>3. ASSUME NEW e \in Working', NEW g \in Working', g \in queue' \ Now[e]
        PROVE  Now[e] \cap queue' \subseteq Now[g]
    BY <1>1, <1>4, <2>3 DEF CapOf
  <2> QED
    BY <2>1, <2>2, <2>3 DEF CapOf
<1> QED
  BY <1>5 DEF CapInv

\* What a hook dooms leaves its listing within the cap.
LEMMA CapDooms ==
  ASSUME TypeInv, [Next]_vars, CapInv, NEW x \in Events, StatListed(x),
         listed[x] \subseteq queue
  PROVE  CapInv'
<1>1. PICK Seen \in [Events -> SUBSET Events], Late \in SUBSET Events : CapOf(Seen, Late)
  BY DEF CapInv
<1>2. EverQueued \subseteq EverQueued'
  BY NamesStay
<1>3. /\ UNCHANGED queue
      /\ Working' = Working /\ x \in Working
      /\ pc[x] = "stat" /\ pc'[x] = "drop"
      /\ doomed'[x] = {y \in listed[x] : Stale(y)} \cup Overflow(listed[x])
      /\ \A e \in Working : e # x =>
           pc'[e] = pc[e] /\ listed'[e] = listed[e] /\ doomed'[e] = doomed[e]
      /\ Unenforced' = Unenforced
  BY DEF StatListed, Working, Unenforced, TypeInv, TypeOK
<1>4. Cardinality((Seen[x] \cap queue') \ doomed'[x]) <= MaxQueued
  <2>1. Seen[x] = listed[x] /\ Seen[x] \cap queue' = listed[x]
    BY <1>1, <1>3 DEF CapOf
  <2> QED
    BY <1>3, <2>1, KeepsTheCap
<1>5. CapOf(Seen, Late)'
  <2>1. /\ Late \subseteq queue' \cap Unenforced'
        /\ Cardinality(queue' \ Late) <= MaxQueued
    BY <1>1, <1>3 DEF CapOf
  <2>2. ASSUME NEW e \in Working'
        PROVE  /\ Seen[e] \subseteq EverQueued'
               /\ e \in queue' => e \in Seen[e]
               /\ pc'[e] = "stat" => Seen[e] = listed'[e]
               /\ pc'[e] = "drop" =>
                    Cardinality((Seen[e] \cap queue') \ doomed'[e]) <= MaxQueued
               /\ e \in Late => queue' \ Seen[e] \subseteq Late
    <3>1. CASE e = x
      BY <1>1, <1>2, <1>3, <1>4, <3>1 DEF CapOf
    <3>2. CASE e # x
      BY <1>1, <1>2, <1>3, <3>2 DEF CapOf
    <3> QED
      BY <3>1, <3>2
  <2>3. \A e, g \in Working' : g \in queue' \ Seen[e] => Seen[e] \cap queue' \subseteq Seen[g]
    BY <1>1, <1>3 DEF CapOf
  <2> QED
    BY <2>1, <2>2, <2>3 DEF CapOf
<1> QED
  BY <1>5 DEF CapInv

\* A late hook that is done leaves late what its listing does not have; one
\* that was overtaken changes nothing.
LEMMA CapEnforces ==
  ASSUME TypeInv, [Next]_vars, CapInv, NEW x \in Events, Enforced(x)
  PROVE  CapInv'
<1>1. PICK Seen \in [Events -> SUBSET Events], Late \in SUBSET Events : CapOf(Seen, Late)
  BY DEF CapInv
<1>2. EverQueued \subseteq EverQueued' /\ queue \in SUBSET Events
  BY NamesStay DEF TypeInv, TypeOK
<1>3. /\ UNCHANGED <<queue, listed, doomed>>
      /\ Working' = Working \ {x} /\ x \in Working
      /\ pc[x] = "drop" /\ doomed[x] = {}
      /\ \A e \in Working' : pc'[e] = pc[e]
      /\ Unenforced' = Unenforced \ {x}
  BY DEF Enforced, Working, Unenforced, TypeInv, TypeOK
<1>4. CASE x \notin Late
  <2>1. CapOf(Seen, Late)'
    BY <1>1, <1>2, <1>3, <1>4 DEF CapOf
  <2> QED
    BY <2>1 DEF CapInv
<1>5. CASE x \in Late
  <2>1. PICK Later \in SUBSET Events : Later = queue \ Seen[x]
    BY <1>2
  <2>2. /\ x \in Seen[x] /\ Later \subseteq Late /\ Late \subseteq queue \cap Unenforced
        /\ queue \ Later = (Seen[x] \cap queue) \ doomed[x]
    BY <1>1, <1>3, <1>5, <2>1 DEF CapOf
  <2>3. /\ Later \subseteq queue' \cap Unenforced'
        /\ Cardinality(queue' \ Later) <= MaxQueued
    BY <1>1, <1>3, <2>1, <2>2 DEF CapOf
  <2>4. ASSUME NEW e \in Working', e \in Later PROVE queue' \ Seen[e] \subseteq Later
    BY <1>1, <1>3, <2>1, <2>4 DEF CapOf
  <2>5. CapOf(Seen, Later)'
    BY <1>1, <1>2, <1>3, <2>3, <2>4 DEF CapOf
  <2> QED
    BY <2>5 DEF CapInv
<1> QED
  BY <1>4, <1>5

LEMMA CapStep ==
  ASSUME TypeInv, FilesInv, CapInv, [Next]_vars
  PROVE  CapInv'
<1>0. TypeOK
  BY DEF TypeInv
<1> DEFINE Shrinks == /\ queue' \subseteq queue
                      /\ Unenforced \subseteq Unenforced'
                      /\ \A e \in Working' :
                           /\ pc'[e] = pc[e] /\ listed'[e] = listed[e]
                           /\ (doomed[e] \ doomed'[e]) \cap queue' = {}
<1>1. Shrinks => CapInv'
  BY CapShrinks
<1>2. ASSUME UNCHANGED hookVars, queue' \subseteq queue PROVE Shrinks
  BY <1>2 DEF hookVars, Working, Unenforced
<1>3. ASSUME NEW e \in Events, Occur(e) \/ Deliver(e) \/ LoseEvent(e) PROVE Shrinks
  <2>1. UNCHANGED <<queue, listed, doomed>>
    BY <1>3 DEF Occur, Deliver, LoseEvent
  <2>2. /\ \A x \in Events : x # e => pc'[x] = pc[x]
        /\ pc[e] \in {"new", "send", "rename"}
        /\ pc'[e] \in {"send", "rename", "answered", "lost"}
    BY <1>0, <1>3 DEF Occur, Deliver, LoseEvent, TypeOK
  <2> QED
    BY <2>1, <2>2 DEF Working, Unenforced
<1>4. ASSUME NEW e \in Events, AbandonCap(e) PROVE Shrinks
  BY <1>0, <1>4 DEF AbandonCap, TypeOK, Working, Unenforced
<1>5. ASSUME NEW e \in Events, StatListed(e), ~(listed[e] \subseteq queue) PROVE Shrinks
  BY <1>0, <1>5 DEF StatListed, TypeOK, Working, Unenforced
<1>6. ASSUME NEW e \in Events, NEW x \in Events, Drop(e, x) PROVE Shrinks
  BY <1>0, <1>6 DEF Drop, TypeOK, Working, Unenforced
<1> HIDE DEF Shrinks
<1>7. ASSUME NEW e \in Events, Rename(e) \/ List(e) \/ StatListed(e) \/ Enforced(e)
      PROVE  CapInv'
  BY <1>1, <1>5, <1>7, CapRenames, CapLists, CapDooms, CapEnforces
<1>8. CASE UNCHANGED hookVars /\ queue' \subseteq queue
  BY <1>1, <1>2, <1>8
<1>9. CASE UNCHANGED vars
  BY <1>8, <1>9 DEF vars, hookVars
<1>10. CASE Tick \/ Outage \/ Recover
  BY <1>8, <1>10 DEF Tick, Outage, Recover
<1>11. ASSUME NEW d \in Drains, StartDrain(d) \/ DrainStep(d)
       PROVE  CapInv'
  BY <1>8, <1>11 DEF StartDrain, DrainStep, ReadEntry, SendEntry, UnlinkEntry
<1>12. ASSUME NEW d \in Drains,
              ReadEntryFails(d) \/ UnlinkEntryFails(d) \/ StopDrain(d)
       PROVE  CapInv'
  BY <1>8, <1>12 DEF ReadEntryFails, UnlinkEntryFails, StopDrain
<1>13. ASSUME NEW e \in Events, Occur(e) \/ HookStep(e) \/ LoseEvent(e) \/ AbandonCap(e)
       PROVE  CapInv'
  BY <1>1, <1>3, <1>4, <1>6, <1>7, <1>13 DEF HookStep
<1> QED
  BY <1>9, <1>10, <1>11, <1>12, <1>13 DEF Next

\* However many hooks enforce the cap at once, on listings as old as they like,
\* the directory never holds more than MaxQueued files beyond those of hooks
\* that have not enforced it (enforceCap).
THEOREM CapIsKept == Spec => []CapHolds
<1>1. Init => CapInv
  <2> SUFFICES ASSUME Init PROVE CapOf([e \in Events |-> {}], {})
    BY DEF CapInv
  <2>1. Working = {}
    BY DEF Init, Working
  <2> QED
    BY <2>1 DEF Init, CapOf
<1>2. TypeInv /\ CapInv => CapHolds
  <2> SUFFICES ASSUME TypeInv, CapInv PROVE CapHolds
    OBVIOUS
  <2>1. PICK Late \in SUBSET Events :
          /\ Late \subseteq queue \cap Unenforced
          /\ Cardinality(queue \ Late) <= MaxQueued
    BY DEF CapInv, CapOf
  <2>2. /\ queue \ Late \in SUBSET Events /\ Unenforced \in SUBSET Events
        /\ (queue \ Late) \cap Unenforced \in SUBSET Events
        /\ (queue \ Late) \cup Unenforced \in SUBSET Events
        /\ queue \in SUBSET ((queue \ Late) \cup Unenforced)
    BY <2>1 DEF TypeInv, TypeOK, Unenforced
  <2>3. Cardinality((queue \ Late) \cup Unenforced)
          = Cardinality(queue \ Late) + Cardinality(Unenforced)
              - Cardinality((queue \ Late) \cap Unenforced)
    BY <2>2, EventsFinite, FS_Union
  <2>4. Cardinality(queue) <= Cardinality((queue \ Late) \cup Unenforced)
    BY <2>2, EventsFinite, FS_Subset
  <2>5. /\ Cardinality(queue) \in Nat /\ Cardinality(queue \ Late) \in Nat
        /\ Cardinality(Unenforced) \in Nat
        /\ Cardinality((queue \ Late) \cap Unenforced) \in Nat
        /\ Cardinality((queue \ Late) \cup Unenforced) \in Nat
    BY <2>2, EventsFinite DEF TypeInv, TypeOK
  <2> QED
    BY <2>1, <2>3, <2>4, <2>5, ConstantsAssumption DEF CapHolds
<1>3. TypeInv /\ FilesInv /\ CapInv /\ [Next]_vars => CapInv'
  BY CapStep
<1> QED
  BY <1>1, <1>2, <1>3, FilesInvariant, PTL DEF Spec

=============================================================================
