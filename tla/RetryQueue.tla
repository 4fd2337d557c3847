----------------------------- MODULE RetryQueue -----------------------------
(***************************************************************************)
(* Delivering session events: a StopFailure, or the marker of a SessionEnd.  *)
(* Nothing re-reads one, so what deliver (packages/plugin/src/report.mjs)     *)
(* cannot send it leaves as a file in the state directory, and a later        *)
(* SessionStart drains the directory (packages/plugin/src/queue.mjs).         *)
(*                                                                          *)
(* Every event has a hook process of its own, which holds its only copy until *)
(* the deployment answers or the file is renamed into place; drains are       *)
(* processes of their own.  There is no lock.  A file is named by the         *)
(* millisecond it was queued in and then at random: within one tick of the    *)
(* clock the order is that of the event numbers, which events reach the queue *)
(* in any order.  A file's mtime is the tick of its name.                     *)
(***************************************************************************)
EXTENDS Naturals, FiniteSets

CONSTANTS
  NumEvents,   \* events, and the hook process of each
  Drains,      \* sweep processes alive at once
  MaxQueued,   \* MAX_QUEUED
  Ttl,         \* QUEUE_TTL_MS, in ticks
  Retries,     \* how many RETRY_DELAYS_MS there are
  MaxTime,     \* bound: ticks of the clock
  MaxFaults    \* bound: outages, refusals, lost answers, kills, failed file operations

Events == 1 .. NumEvents

ASSUME ConstantsAssumption ==
  /\ NumEvents \in Nat
  /\ MaxQueued \in Nat
  /\ Ttl \in Nat
  /\ Retries \in Nat
  /\ MaxTime \in Nat
  /\ MaxFaults \in Nat

VARIABLES
  now,      \* the clock
  up,       \* whether the deployment answers
  queue,    \* the events whose file is in the queue directory
  at,       \* at[e]: the tick in the name of e's file
  pc,       \* pc[e]: where e's hook is, see Stages
  tries,    \* tries[e]: sends deliver has made
  answer,   \* answer[e]: what the last of them answered
  listed,   \* listed[e]: what e's enforceCap found in the directory
  doomed,   \* doomed[e]: what it has left to unlink
  left,     \* left[d]: what drain d found and has left, taken oldest first
  sending,  \* sending[d]: "read" | "send" | "unlink" the oldest of them
  fate,     \* fate[e]: everything that has happened to e so far
  faults

(* new      the event has not happened                                     *)
(* send     deliver is sending, or backing off                             *)
(* rename   it has given up, and the temporary file is being written       *)
(* list, stat, drop                the file is in place, enforceCap is on  *)
(* answered, lost, queued, enforced  the hook is gone: answered by the     *)
(*          deployment; before the file was in place; before the end of    *)
(*          enforceCap; after it                                           *)
Stages == {"new", "send", "rename", "list", "stat", "drop",
           "answered", "lost", "queued", "enforced"}
Fates == {"filed", "refused", "dropped", "lost"}

hookVars == <<at, pc, tries, answer, listed, doomed>>
drainVars == <<left, sending>>
vars == <<now, up, queue, at, pc, tries, answer, listed, doomed, left, sending,
          fate, faults>>

Fault == faults < MaxFaults /\ faults' = faults + 1

Happens(e, what) == fate' = [fate EXCEPT ![e] = @ \cup {what}]

\* The lexical order of the file names.
Older(x, y) == at[x] < at[y] \/ (at[x] = at[y] /\ x < y)

\* Past the TTL.
Stale(e) == at[e] + Ttl < now

OverflowKeepsOne(S) ==   \* mutated form of Overflow
  LET live == {e \in S : ~Stale(e)}
  IN {e \in live : Cardinality({x \in live : Older(e, x)}) > MaxQueued}

OverflowNewest(S) ==   \* mutated form of Overflow
  LET live == {e \in S : ~Stale(e)}
  IN {e \in live : Cardinality({x \in live : Older(x, e)}) >= MaxQueued}

\* The oldest of the files that are not stale, as many as are past the cap.
Overflow(S) ==
  LET live == {e \in S : ~Stale(e)}
  IN {e \in live : Cardinality({x \in live : Older(e, x)}) >= MaxQueued}

TypeOK ==
  /\ now \in 0 .. MaxTime /\ up \in BOOLEAN
  /\ queue \in SUBSET Events
  /\ at \in [Events -> 0 .. MaxTime]
  /\ pc \in [Events -> Stages]
  /\ tries \in [Events -> 0 .. Retries + 1]
  /\ answer \in [Events -> {"none", "ok", "refused", "down"}]
  /\ listed \in [Events -> SUBSET Events]
  /\ doomed \in [Events -> SUBSET Events]
  /\ left \in [Drains -> SUBSET Events]
  /\ sending \in [Drains -> {"read", "send", "unlink"}]
  /\ fate \in [Events -> SUBSET Fates]
  /\ faults \in 0 .. MaxFaults

\* An earlier session may have left files, within the cap.
Init ==
  /\ now = 0 /\ up = TRUE
  /\ queue \in SUBSET Events /\ Cardinality(queue) <= MaxQueued
  /\ at = [e \in Events |-> 0]
  /\ pc = [e \in Events |-> IF e \in queue THEN "enforced" ELSE "new"]
  /\ tries = [e \in Events |-> 0]
  /\ answer = [e \in Events |-> "none"]
  /\ listed = [e \in Events |-> {}]
  /\ doomed = [e \in Events |-> {}]
  /\ left = [d \in Drains |-> {}]
  /\ sending = [d \in Drains |-> "read"]
  /\ fate = [e \in Events |-> {}]
  /\ faults = 0

Tick ==
  /\ now < MaxTime /\ now' = now + 1
  /\ UNCHANGED <<up, queue, hookVars, drainVars, fate, faults>>

-----------------------------------------------------------------------------
(* The deployment.  While it is down, or behind a network that is, a request  *)
(* has no answer or a 5xx.  Ingest files an event once                        *)
(* (session_events_identity_key), and its answer may be lost.  A refusal is a *)
(* 4xx, or the 401 send makes up for a key refused at session start.         *)

Outage ==
  /\ up /\ up' = FALSE /\ Fault
  /\ UNCHANGED <<now, queue, hookVars, drainVars, fate>>

Recover ==
  /\ ~up /\ up' = TRUE
  /\ UNCHANGED <<now, queue, hookVars, drainVars, fate, faults>>

\* What a request carrying e meets: the answer is a.
Answered(e, a) ==
  \/ a = "ok" /\ up /\ Happens(e, "filed") /\ UNCHANGED faults
  \/ a = "refused" /\ Happens(e, "refused") /\ Fault
  \/ a = "down" /\ ~up /\ UNCHANGED <<fate, faults>>
  \/ a = "down" /\ up /\ Happens(e, "filed") /\ Fault

-----------------------------------------------------------------------------
(* deliver and enqueue, by the hook of event e *)

Occur(e) ==
  /\ pc[e] = "new"
  /\ pc' = [pc EXCEPT ![e] = "send"]
  /\ UNCHANGED <<now, up, queue, at, tries, answer, listed, doomed, drainVars, fate,
                 faults>>

OutOfRetriesLate(e) == tries[e] > Retries   \* mutated form
OutOfRetries(e) == tries[e] >= Retries

\* One send.  What follows it is decided in this order: accepted; out of
\* retries or of time, so that enqueue names the file; refused for good; back
\* off and send again.
Deliver(e) ==
  /\ pc[e] = "send"
  /\ tries' = [tries EXCEPT ![e] = @ + 1]
  /\ \E a \in {"ok", "refused", "down"}, expired \in BOOLEAN :
       LET over == expired \/ OutOfRetries(e) IN
       /\ Answered(e, a)
       /\ answer' = [answer EXCEPT ![e] = a]
       /\ pc' = [pc EXCEPT ![e] =
                   IF a = "ok" \/ (a = "refused" /\ ~over) THEN "answered"
                   ELSE IF over THEN "rename" ELSE "send"]
       /\ at' = [at EXCEPT ![e] = IF a # "ok" /\ over THEN now ELSE @]
  /\ UNCHANGED <<now, up, queue, listed, doomed, drainVars>>

Rename(e) ==
  /\ pc[e] = "rename"
  /\ queue' = queue \cup {e}
  /\ pc' = [pc EXCEPT ![e] = "list"]
  /\ UNCHANGED <<now, up, at, tries, answer, listed, doomed, drainVars, fate, faults>>

\* An unwritable state directory, or the hook's timeout or a kill before the
\* file is in place.
LoseEvent(e) ==
  /\ pc[e] \in {"send", "rename"} /\ Fault
  /\ pc' = [pc EXCEPT ![e] = "lost"]
  /\ Happens(e, "lost")
  /\ UNCHANGED <<now, up, queue, at, tries, answer, listed, doomed, drainVars>>

-----------------------------------------------------------------------------
(* enforceCap, by the hook of event e *)

List(e) ==
  /\ pc[e] = "list"
  /\ listed' = [listed EXCEPT ![e] = queue]
  /\ pc' = [pc EXCEPT ![e] = "stat"]
  /\ UNCHANGED <<now, up, queue, at, tries, answer, doomed, drainVars, fate, faults>>

\* A listed file that is gone by now makes its stat throw, and nothing is
\* dropped at all.
StatListed(e) ==
  /\ pc[e] = "stat"
  /\ IF listed[e] \subseteq queue
       THEN /\ doomed' = [doomed EXCEPT ![e] =
                   {x \in listed[e] : Stale(x)} \cup Overflow(listed[e])]
            /\ pc' = [pc EXCEPT ![e] = "drop"]
       ELSE /\ pc' = [pc EXCEPT ![e] = "queued"]
            /\ UNCHANGED doomed
  /\ listed' = [listed EXCEPT ![e] = {}]
  /\ UNCHANGED <<now, up, queue, at, tries, answer, drainVars, fate, faults>>

Drop(e, x) ==
  /\ pc[e] = "drop" /\ x \in doomed[e]
  /\ doomed' = [doomed EXCEPT ![e] = @ \ {x}]
  /\ queue' = queue \ {x}
  /\ IF x \in queue THEN Happens(x, "dropped") ELSE UNCHANGED fate
  /\ UNCHANGED <<now, up, at, pc, tries, answer, listed, drainVars, faults>>

Enforced(e) ==
  /\ pc[e] = "drop" /\ doomed[e] = {}
  /\ pc' = [pc EXCEPT ![e] = "enforced"]
  /\ UNCHANGED <<now, up, queue, at, tries, answer, listed, doomed, drainVars, fate,
                 faults>>

\* The listing or an unlink fails, or the hook is killed.  The file is in place,
\* and each hook can do so once: it is not counted as a fault.
AbandonCap(e) ==
  /\ pc[e] \in {"list", "stat", "drop"}
  /\ pc' = [pc EXCEPT ![e] = "queued"]
  /\ doomed' = [doomed EXCEPT ![e] = {}]
  /\ listed' = [listed EXCEPT ![e] = {}]
  /\ UNCHANGED <<now, up, queue, at, tries, answer, drainVars, fate, faults>>

-----------------------------------------------------------------------------
(* drainQueue, by sweep d *)

\* The file d is at, by the sorted names.
Oldest(S) == {x \in S : \A y \in S : x = y \/ Older(x, y)}
First(d) == CHOOSE x \in Oldest(left[d]) : TRUE

\* On to the next file, and out of the loop.
Continue(d) ==
  /\ left' = [left EXCEPT ![d] = @ \ {First(d)}]
  /\ sending' = [sending EXCEPT ![d] = "read"]
Break(d) ==
  /\ left' = [left EXCEPT ![d] = {}]
  /\ sending' = [sending EXCEPT ![d] = "read"]

StartDrain(d) ==
  /\ left[d] = {}
  /\ left' = [left EXCEPT ![d] = queue]
  /\ UNCHANGED <<now, up, queue, hookVars, sending, fate, faults>>

\* A file another drain or an enforceCap has unlinked is passed over.
ReadEntry(d) ==
  /\ left[d] # {} /\ sending[d] = "read"
  /\ IF First(d) \in queue
       THEN sending' = [sending EXCEPT ![d] = "send"] /\ UNCHANGED left
       ELSE Continue(d)
  /\ UNCHANGED <<now, up, queue, hookVars, fate, faults>>

\* Whatever keeps a file from being read, it is unlinked as corrupt.
ReadEntryFails(d) ==
  /\ left[d] # {} /\ sending[d] = "read" /\ Fault
  /\ First(d) \in queue
  /\ queue' = queue \ {First(d)}
  /\ Happens(First(d), "lost")
  /\ Continue(d)
  /\ UNCHANGED <<now, up, hookVars>>

SendEntryDropping(d) ==   \* mutated form of SendEntry
  /\ left[d] # {} /\ sending[d] = "send"
  /\ \E a \in {"ok", "refused", "down"} : Answered(First(d), a)
  /\ sending' = [sending EXCEPT ![d] = "unlink"] /\ UNCHANGED left
  /\ UNCHANGED <<now, up, queue, hookVars>>

\* One send, not retried: a deployment that is not ready ends the drain.
SendEntry(d) ==
  /\ left[d] # {} /\ sending[d] = "send"
  /\ \E a \in {"ok", "refused", "down"} :
       /\ Answered(First(d), a)
       /\ IF a = "down" THEN Break(d)
          ELSE sending' = [sending EXCEPT ![d] = "unlink"] /\ UNCHANGED left
  /\ UNCHANGED <<now, up, queue, hookVars>>

UnlinkEntryKept(d) ==   \* mutated form of UnlinkEntry
  /\ left[d] # {} /\ sending[d] = "unlink"
  /\ Continue(d)
  /\ UNCHANGED <<now, up, queue, hookVars, fate, faults>>

UnlinkEntry(d) ==
  /\ left[d] # {} /\ sending[d] = "unlink"
  /\ queue' = queue \ {First(d)}
  /\ Continue(d)
  /\ UNCHANGED <<now, up, hookVars, fate, faults>>

UnlinkEntryFails(d) ==
  /\ left[d] # {} /\ sending[d] = "unlink" /\ Fault
  /\ Continue(d)
  /\ UNCHANGED <<now, up, queue, hookVars, fate>>

\* Over the sweep's budget, or killed.
StopDrain(d) ==
  /\ left[d] # {} /\ Fault
  /\ Break(d)
  /\ UNCHANGED <<now, up, queue, hookVars, fate>>

-----------------------------------------------------------------------------

HookStep(e) ==
  \/ Deliver(e) \/ Rename(e)
  \/ List(e) \/ StatListed(e) \/ Enforced(e) \/ \E x \in Events : Drop(e, x)

DrainStep(d) == ReadEntry(d) \/ SendEntry(d) \/ UnlinkEntry(d)

Next ==
  \/ Tick \/ Outage \/ Recover
  \/ \E e \in Events :
       Occur(e) \/ HookStep(e) \/ LoseEvent(e) \/ AbandonCap(e)
  \/ \E d \in Drains :
       \/ StartDrain(d) \/ DrainStep(d)
       \/ ReadEntryFails(d) \/ UnlinkEntryFails(d) \/ StopDrain(d)

Spec == Init /\ [][Next]_vars

\* Sessions go on being started, and each start drains the queue.  What loses
\* an event or stops a drain is bounded by MaxFaults, and an outage ends.
FairSpec ==
  /\ Spec /\ WF_vars(Recover)
  /\ \A e \in Events : WF_vars(HookStep(e))
  /\ \A d \in Drains : WF_vars(StartDrain(d)) /\ WF_vars(DrainStep(d))

-----------------------------------------------------------------------------
(* Properties *)

\* In memory only, and in the directory at some time.
InMemory == {e \in Events : pc[e] \in {"send", "rename"}}
Unenforced == {e \in Events : pc[e] \in {"list", "stat", "drop", "queued"}}
EverQueued == Unenforced \cup {e \in Events : pc[e] = "enforced"}

\* The queue is an event's only durability (queue.mjs): one that is neither in
\* its hook's memory nor in the directory has been filed, refused, dropped by
\* the cap or the TTL, or lost in one of the ways the comments name.
NoEventVanishes ==
  \A e \in Events :
    pc[e] = "new" \/ e \in InMemory \/ e \in queue \/ fate[e] # {}

\* The cap holds but for the hooks that have not enforced it: those still at
\* it, and those that were killed or gave up, "for one more round".
CapHolds == Cardinality(queue) <= MaxQueued + Cardinality(Unenforced)

\* The oldest go first: an event that was dropped had passed its TTL, or had
\* given way to MaxQueued newer ones, whoever dropped it on whatever listing.
DroppedForNewer ==
  \A e \in Events : "dropped" \in fate[e] =>
    \/ Stale(e)
    \/ Cardinality({x \in EverQueued : Older(e, x)}) >= MaxQueued

\* A refusal "does not belong in the queue" (deliver).
RefusedNotQueued == \A e \in queue : answer[e] # "refused"

\* Every event leaves its hook and the queue in the end, answered or lost.
EventSettles ==
  \A e \in Events : pc[e] # "new" ~>
    fate[e] # {} /\ e \notin queue /\ e \notin InMemory

=============================================================================
