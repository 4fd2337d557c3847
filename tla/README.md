# sessclone in TLA+

sessclone collects what Claude Code sessions cost. A plugin (the *Collector*) reads the transcripts Claude Code
writes, reports each *Turn* (one model response, one price) to a deployment, and, for a Member who opted in,
archives the transcripts themselves in a bucket. The deployment is a Next.js application over Postgres.

This directory specifies the parts of it where several processes, a crash, a lost message or a deadline decide
whether the numbers are right. Every definition is translated from `src/`; `PROJECT.json` names the lines each one
stands for, the runs, the mutants of the code that the properties detect, the hazards, and the proved theorems.

Words: a **Turn** is identified by Member, Session, Agent Run and message id (ADR 0006). A **Session** has a
transcript of its own and one for each **Agent Run** it spawned. A **hook** is a short-lived process Claude Code
starts (`Stop`, `StopFailure`, `SessionStart`, `SessionEnd`); it is killed after ten seconds. A **cursor** is the
byte offset up to which a transcript has been acknowledged. A **marker** is the `session_end` row that says a Session
finished.

## Inventory

| part | state it keeps | operations | what is hard |
| --- | --- | --- | --- |
| Reporting (`packages/plugin/src/report.mjs`, `cursors.mjs`, `transcripts.mjs`, `deadline.mjs`, `shared/turns.ts`; `hooks/stop.mjs`, `session-end.mjs`) | a cursor per transcript, on disk | `flush`, `sweep`, `readFrom`, `parseTranscript`, `writeCursor` | hooks overlap without a lock, die anywhere, run into a deadline between requests; transcripts are read while they are written |
| Ingest (`apps/web/app/api/ingest/route.ts`) | `turns`, `session_events`, `devices`, `projects` | `POST`, one transaction | the same batch arrives twice, late, or in parts |
| Retry queue (`queue.mjs`, `deliver` in `report.mjs`, `hooks/stop-failure.mjs`) | one file per undelivered event, at most 500, 14 days | `deliver`, `enqueue`, `enforceCap`, `drainQueue` | no lock; a drain, an enqueue and the cap work on stale listings; what it loses nothing re-reads |
| Archival, Collector side (`archive.mjs`, `hooks/stop-archive.mjs`) | an outcome per transcript; a lock per Session | `archiveTranscript`, `planFrom`, `takeLock`, `archiveAfterTurn` | PUTs and confirms of two runs interleave; the lock outlives its owner |
| Archival, deployment side (`api/logs/presign`, `api/logs/confirm`, `lib/presign.ts`) | `log_artifacts`, `log_artifact_chunks`, `log_upload_pending`, `storage_orphans` and the bucket | presign, confirm | rows and objects must agree although no transaction spans both |
| Retention (`lib/retention.ts`, `api/retention/sweep`) | the same tables | one sweep | deletes objects a confirm is about to name |
| Membership (`supabase/migrations/*`, `lib/members.ts`, `lib/invitations.ts`, `lib/account-deletion.ts`) | `orgs`, `members`, `invitations`, `users` | invite, accept, leave, change role, request, cancel and finalize deletion | an Org must keep an Owner and not exceed its seats, whatever commits concurrently |
| Approval (`lib/auth/bootstrap.ts`, `lib/subscriptions.ts`, `20260928150000_delete_pending_org.sql`) | `orgs`, `subscriptions`, `subscription_events` | sign in, New Org, save a plan, delete a waiting Org | two tabs found two Orgs; an approval meets a deletion; saves overlap and the history is ordered by when they began |
| Rollups (`20261004120000_turn_rollups.sql`) | `turn_rollups` | add, recompute, rebuild | sums kept beside the rows they sum |
| Rates, keys, policies, dashboard, site | tables read at request time | single statements, reads | little: see *Not modelled* |

How they interact: hooks read transcripts and the state directory and send HTTP requests; `flush` sends Turns with
`send` and relies on the cursor to send them again, and sends the marker with `deliver`, which relies on the queue.
`SessionStart` drains the queue and then flushes and archives every Session, newest first, within eight seconds. The
deployment never calls the Collector. Within the deployment the parts meet in the database: ingest fires the rollup
triggers; a plan decides the Seats, whether an Org is let in at all, and when its transcripts are swept.

What makes each part correct:

- *Reporting*: no cursor passes a Turn that was not filed ("the one mistake here that loses data"); every Turn is
  filed in the end; a Turn is filed once and its row never changes; the marker is only sent for a flushed Session.
- *Queue*: an event is never dropped except where the documents say so, the oldest goes first, and the queue returns
  to its cap.
- *Archival*: a row names an object that exists and whose bytes are the ones it was recorded for; sealed chunks are
  consecutive, never overlap and never shrink; an object no row names is deleted in the end, and only then.
- *Membership*: an Org keeps an Owner, never has more Members than seats, and people come in only by invitation; who
  leaves has somewhere to go; an account whose grace is over is deleted.
- *Approval*: a person has at most one Org waiting; an approval is never deleted from under its Org; whenever a locked
  Org is let in its Owners are told, and only then; transcripts stay their seven days.
- *Rollups*: the sums, and what they cost, equal what `turns` holds.

The code does not keep all of this. *What the runs found* lists where it does not, and *What the properties excuse* what a
property therefore leaves out.

## Modules

| module | what it is |
| --- | --- |
| `TurnLedger` | what reporting promises: each Turn filed once, never rewritten, never above what its transcript stated |
| `Collector` | Claude Code writing transcripts, hooks flushing them, cursors, ingest; its invariants and properties |
| `CollectorProofs`, `CollectorLedgerProofs` | type correctness; the marker and the cursor; `Collector` implements `TurnLedger` |
| `RetryQueue` | `deliver`, the queue directory, the cap and the drains, as processes without a lock |
| `RetryQueueProofs` | its types, that no event vanishes, that the oldest go first, that the cap is kept |
| `TurnLock` | the lock file of the per-turn archive runs, its takeover when stale, the clock |
| `TurnLockProofs` | its types, that runs take turns |
| `Archive` | one transcript's way into the bucket and out of it: passes, presign, PUT, confirm, the sweep, the Member's delete |
| `ArchiveProofs` | its types, and all of its properties but liveness |
| `Organisation` | invitations, Roles, removal, leaving, Seats and account deletion as transactions |
| `OrganisationProofs` | its types, and all of its properties but liveness |
| `Rollups` | the Turn and timezone triggers, both rebuilds, the pricing views |
| `RollupsProofs` | its types, that the committed rollups are exactly the committed Turns, and that they cost the same |
| `Approval` | how an Org comes to exist, waits, gets a plan or is deleted, and the history of its plans |
| `ApprovalProofs` | its types, and all of its properties |
| `MCCollector`, `MCRetryQueue`, `MCTurnLock`, `MCArchive`, `MCOrganisation`, `MCRollups`, `MCApproval` | the constants of the small instances |

### Collector

**Time and space.** A byte offset is a number of lines, so `READ_LIMIT` is a number of lines. A line is the Turn whose
usage it carries, or `NoTurn`. The k-th line of a Turn states a running total of k: usage counters in a transcript grow
from entry to entry, so the maximum the parser takes over the entries it saw is the number of the last one. The last
line of a file may be torn (it does not parse, and no newline follows) or open (it parses, no newline yet): the parser
and the cursor treat the two differently, which is why `Parsed` and `Whole` are two operators.

**State to code.** `cursor[f]` is the cursor file; 0 is no cursor, which `flush` treats like position 0. `stored[t]`
is the total in the row of `turns`, 0 for no row. `late` holds requests the client gave up on that the deployment may
still serve. Per hook process: `at`, `from`, `seen`, `reports`, `advance` are the locals of `buildPayloads` and
`reportsFor`; `sent`, `acked`, `refused` those of the loop in `flush`. `pc` names the await the process is at, so
everything between two awaits is one step and everything that another process can see is between steps.

**Actions to code.**

| action | code |
| --- | --- |
| `AppendLine`, `FinishLine`, `EndSession` | Claude Code (outside the repository) |
| `StartFlush` | a `Stop`, a `SessionEnd` (`end`), or a sweep reaching this Session |
| `ReadCursor`, `ReadTranscript`, `ReadFails` | `readCursor`, `readFrom`, `parseTranscript`, `reportsFor`, one transcript at a time |
| `SendAccepted`, `SendAnswerLost`, `SendRefused`, `SendTimedOut`, `LandLate` | `send`, and the transaction in `POST` |
| `DeadlineExpired` | the check between requests |
| `WriteCursor`, `WriteCursorFails`, `LoseCursor` | `writeCursor`, its `catch`, the sweep of old cursors |
| `FinishFlush`, `DeliverMarker`, `DrainMarker` | the marker after the flush |
| `Kill` | a kill between any two steps |

### RetryQueue

**Identity and order.** An event is a number; each has one hook and, once queued, one file. A file is named by the
millisecond it was queued in, a counter of its process and a random suffix, and its mtime is that millisecond: `at[e]`
is the tick, and within a tick the event numbers stand for the suffix. Events reach the queue in any order, so every
order of names is possible.

**State to code.** `queue` is the directory. `pc[e]` is the await of e's hook (`deliver`, `enqueue`, `enforceCap`);
`listed` and `doomed` are `names` and `[...expired, ...overflow]` of its `enforceCap`. `left[d]` is what is left of
`names` in drain d's loop and `sending[d]` which await of the loop it is at. `fate[e]` is no variable of the code: it
records what has happened to e (filed by ingest, refused, dropped by the cap or the TTL, lost to a fault), which is
what the properties speak of.

| action | code |
| --- | --- |
| `Occur`, `Deliver` | the StopFailure hook, or `flush` with a marker, calling `deliver`; one step per `send` and the decision after it |
| `Rename`, `LoseEvent` | `enqueue`: the rename that puts the file in place; a kill or an unwritable directory before it |
| `List`, `StatListed`, `Drop`, `Enforced`, `AbandonCap` | `enforceCap`, with its `catch` |
| `StartDrain`, `ReadEntry`, `ReadEntryFails`, `SendEntry`, `UnlinkEntry`, `UnlinkEntryFails`, `StopDrain` | `drainQueue`, one iteration in three awaits |
| `Outage`, `Recover`, `Answered` | the deployment; ingest's insert is idempotent, so filing twice is filing |
| `Tick` | the clock |

### TurnLock

Time is counted in ticks, because the lock is one of ages. The clock moves only when every run that is neither dead nor
suspended is sleeping or is archiving before its deadline: awaits on the local disk take no tick, and requests are
bounded by the deadline. So a run that is late is one that was suspended, which is a fault.

`file` says which run made the lock that is there; the code cannot see that, and no guard reads more of it than
whether it is `NoRun`. `lapses` records what has befallen runs that were archiving: killed and leaving the lock behind
(`orphan`), suspended, or archiving without a lock because the directory cannot hold one (`lockless`, which
`takeLock` accepts: it "costs an overlap and never a transcript").

| action | code |
| --- | --- |
| `Start` | `stop-archive.mjs`, with its budget |
| `Open`, `OpenFails` | the exclusive open; any error but EEXIST goes ahead without the lock |
| `StatLock`, `RemoveLock`, `Look` | the age of the lock, its takeover, giving up as busy, the poll |
| `Archived`, `NoTurns`, `Retry`, `Unlock` | `archiveAfterTurn` around `archiveSession`, and its `finally` |
| `Kill`, `Suspend`, `Resume` | the container |

### Archive

A file is a sequence of lines, an offset is a number of lines, and a SHA-256 is the text it is of: two texts have the
same hash only if they are the same. A line is the number of events after which it was appended, so a rewritten file
differs from what was read. `ChunkLines` is `CHUNK_BYTES`, `MaxSeal` the most chunks one presign answers.

**State to code.** `row` and `chunks` are the transcript's `log_artifacts` row and its `log_artifact_chunks`; `pending`
is `log_upload_pending`, an entry for each key and pass; `orphans` is `storage_orphans` with the passes whose URLs a key
outwaits. `at[p]` holds a pass's place and locals (`archiveTranscript`). A transaction that has deleted rows and not
committed is `del`: others still read the rows, and who would change them waits. `lost`, `cut` and `mixed` are no state of the
code: they record the keys for which one of the divergences below has happened, and are what the properties excuse. Nor is
`row.spliced`: whether a confirm has kept chunks of a text other than the one it had read.

| action | code |
| --- | --- |
| `AppendLine`, `Rewrite`, `MoveProject`, `Switch`, `RowAges`, `Lapse` | Claude Code, the Session's Turns, Tier and switches, time |
| `Scan`, `Again`, `Put`, `PutFails`, `PutLate`, `Kill` | `archiveTranscript`, `scanFile`, `planFrom`, `put`; storage finishing a PUT nobody waits for |
| `Presign` | `presign/route.ts`: the decision of `presignDecision`, the ledger's rows, the keys taken out of the queue |
| `Decide`, `Heads`, `Still`, `Lock`, `Write`, `GiveUp` | `confirm/route.ts`, from its decision over the HEADs to the upsert and what it queues |
| `SweepTake`, `DeleteTake`, `EmptyBucket`, `DeleteCommits`, `DeleteFails` | `sweepRetention`, `deleteObjects`, the Member's delete in `lib/artifacts.ts` |

### Organisation

`tx[t]` is the request in one browser tab, or the cron's. It is at `asked` when the app has made the check it makes outside
the transaction, and then takes a step for each group of statements: it holds its locks, has checked, has its Seat counted,
has written, has passed the deferred last-Owner trigger, commits. `holds` is the locks it has (Org advisory locks, member rows,
invitations, the users row); what it wrote is seen by others at its commit. `seats` is the ceiling it was counted against.
`moved`, `came` and `strays` are no state of the code: they remember that a plan changed while somebody was being let in, that
who is leaving came into an Org after the leave took its locks, and that a scrub emptied an Org during a re-admission.

| action | code |
| --- | --- |
| `AskChange`, `AskOwn`, `AskDeletion`, `PickDue` | the Server Actions up to their transaction; `finalizeDueDeletions` |
| `Update` | `setMemberRole`, `setMemberRemoved` and the column guard |
| `AcceptLock`, `AcceptCheck`, `AcceptInsert`, `Seat`, `Upsert` | `sessclone_accept_own_invitation`, the seat trigger |
| `LeaveLock`, `LeaveCheck` | `sessclone_leave_org` |
| `RequestOrgs`, `RequestCheck`, `Keep`, `Lapse` | requesting a deletion, taking it back, the 14 days |
| `FinalizeLock`, `FinalizeCheck`, `FinalizeWrite`, `Forget` | the scrub, closing an Org with its last Member; forgetting the request once the sign-in is removed |
| `Guard`, `Commit`, `Deadlocked` | the last-Owner trigger, Postgres |
| `Invite`, `Answer`, `Expire`, `SetPlan` | invitations outside an acceptance, the Seats of a plan |

Two things met while modelling and kept as the code has them: an Admin can re-admit somebody whose account was scrubbed
(`setMemberRemoved` does not look at `deleted_at`), and an acceptance takes the Org's lock before the row's while a
re-admission takes the row's first, so the two can deadlock and Postgres ends one.

### Rollups

One Org. A transaction sees what is committed and what it wrote itself. The value of a rollup row is how many times it has counted
each Turn, from which every sum, first and last instant follow. `mine`, `rows` and `moved` are what a transaction has
written of `turns`, `turn_rollups` and the Org's timezone; a row another has written is waited for. `lock` is the Org's
advisory lock: shared to add, exclusive to rebuild, both held to the end of the transaction. A report's upsert holds its
Device's row against other reports and a deletion; the demo refresh holds none, and is kept apart only from another refresh. A
Turn inserted refers to its Device, so a deletion of that Device and the insert wait for each other.

| action | code |
| --- | --- |
| `Ingest`, `InsertTurns` | the ingest transaction, one statement per `TURNS_PER_STATEMENT` Turns |
| `AddLock`, `Add` | the insert trigger, `sessclone_rollup_add` |
| `Detach`, `Prune`, `SetZone` | a Device deleted under its Turns, the demo refresh, `setOrgTimezone` |
| `ExclusiveLock`, `Clear`, `Read` | `sessclone_rollup_recompute` and `sessclone_rollup_rebuild_org`, which reads in batches of any size |
| `Commit`, `RollBack` | Postgres; a deadlock, an error or a lost connection is a `RollBack` |

`Price`, `TurnCost`, `RowCost` are the views `turn_costs` and `turn_rollup_costs`. Of their seven counters there are four:
input, output and cache-write tokens, whose price takes the Turn's multiplier, and web searches (`Tools`), whose price does not.

### Approval

One request per tab, a transaction each. `holds` has the users row being inserted, the person's advisory lock
(`lockOwnOrgs`), the Org's row and its subscription. The moments of `occurred_at` are those the transactions began at, as
`now()` is. `told`, `missed`, `moved`, `settled`, `late` and `used` are what the properties need to remember: whose Owners
have been told since the Org was last locked, which Orgs were locked while another save that had read them as in was under
way, when an Org last left a Tier with transcripts, which Orgs have been past waiting, which have an event written out of
order, which have Turns. A save that leaves an Org locked takes it out of `told`: the code's notice is of an admission, not
of an Org.

| action | code |
| --- | --- |
| `AskSignIn`, `InsertUser`, `LockOwn`, `DecideSignIn` | the callback, `ensureOrgForSigner` |
| `AskNewOrg`, `LockOwn`, `DecideNewOrg` | `createOrg`, `createOwnOrg` |
| `CommitOrg` | `foundOrg` and `requestPlan`, at their commit |
| `AskSave`, `ReadBefore`, `Write`, `Event`, `CommitSave` | `activateAction`, `setSubscription`, the event trigger, `notifyApproval` |
| `AskDelete`, `Allow`, `LockOrg`, `LockPlan`, `CommitDelete` | `deleteWaitingOrg`, `deleteOrgAction`, `sessclone_delete_pending_org` |
| `Use` | Turns, whose foreign keys keep the Org |
| `Deadlocked` | a save holds the subscription and wants the Org, a deletion the other way round: Postgres ends one |

## Runs

| run | instance | shows |
| --- | --- | --- |
| `collector_safety` | 2 hooks, 2 transcripts, 1 report per request, 2 faults | `TypeOK`, `CursorSafe`, `MarkerAfterFlush` and the two inductive invariants `FlushInv`, `CursorInv` |
| `collector_ledger` | 1 hook, 2 Turns of two entries, a line of noise, `READ_LIMIT` 2, 1 fault | `ImplementsLedger`, `EveryTurnFiled` |
| `cursor_past_unsent_project` | one transcript, two Projects, a deadline | `CursorSafe` fails |
| `queue` | 2 events, files of an earlier session, cap 1, TTL 0, 2 drains, a tick, 1 fault | `TypeOK`, `CapHolds`, `DroppedForNewer`, `NoEventVanishes`, `EventSettles` |
| `turn_lock` | 2 runs, budget 3, stale age 4, 7 ticks, 2 faults | `TypeOK`, `RunsTakeTurns`, `RunsEnd` |
| `archive` | 2 passes, a file that grows to 4 lines, chunks of 2 lines, beside the sweep | `ChunkedIsExact`, `NeverBelowSealed` |
| `archive_faults` | 2 passes, 2 Projects, 1 line, the sweep and one event of any kind | `TypeOK`, `Tracked`, `NamedExist`, `GarbageCollected` |
| `rows_find_their_bytes` | 2 passes, 1 Project, 1 line, the sweep, no event | `RowsFindTheirBytes` fails |
| `organisation` | 3 people, 1 Org with any Owners, a ceiling of 2, 2 tabs, 2 events | `TypeOK`, `OwnerKept`, `ClosedIsOver`, `SeatsHold`, `Admitted` |
| `organisation_leaving` | 2 people, 2 Orgs of one Owner each, no invitation yet, 2 tabs, 2 events | `SomewhereToGo`, `DeletionsFinish` |
| `rollups` | 3 Turns on two sides of a midnight, two of one group and one of another Session, searches, 2 Devices, 2 timezones, 3 connections, 3 transactions | `TypeOK`, `Exact`, `PricedAlike` |
| `approval` | 1 person, 2 Org ids, 2 tabs, 5 requests | `TypeOK`, `OneWaiting`, `InIsTold`, `GraceFromTheMove`, `DeletedWaiting` |

**The bounds, and why they are enough.** `MaxFaults` bounds how many kills, failed reads and writes, failed requests and
expired deadlines one behaviour has; `Entries` and `MaxNoise` what Claude Code writes; `MaxEvents` what people, the operator
and the world do; `MaxWrites` the transactions begun; `MaxTime` the clock.

*Collector.* What can go wrong takes two processes (one that has read and one that writes), two faults
(one to hold something back, one to lose the rest), two requests of one flush and two transcripts. One report per
request makes every pair of reports two requests. Two Turns let one be filed while the other is not; a Turn of two
entries is enough for a total that changes. Hooks are interchangeable, so `HookSymmetry` is sound for the safety run;
it is not used where liveness or refinement is checked. `collector_ledger` has one hook process, whose requests may still
arrive after those of a later flush; that hooks which overlap implement the ledger too is proved.

*Queue.* Two hooks and the files an earlier session left are enough to enforce a cap of one on different listings while
another file is the newer one; a cap of one and a TTL of no ticks make both bite at once. Without liveness, three events
beside one drain and with two faults were explored too.

*Lock.* A dead run and one that waits are enough to overlap, and the proof is for any number. `MaxTime` leaves room for a
lock to go stale and for a run to start after that and use its whole budget. A run starts only while its deadline is
before `MaxTime`.

*Archive.* Two passes, because nothing in the code joins three; four lines of two-line chunks, sealed one at a time, have
a prefix sealed by one pass while the other holds an older plan; and the two Projects of `archive_faults` give a Session
two sets of keys. `archive_faults` was also explored with two events (4 million states).

*Organisation.* With two people no Org can have somebody left after two Owners go, so the safety run has three; two tabs are
what each of these rules is about. Leaving needs a second Org, its liveness no symmetry. Its safety was also explored with
three events and an open invitation to begin with (408 thousand states), which is how `came` was found to be needed; the
safety run with three events (855 thousand states) held. That these properties hold for any number of Orgs, people and
requests is proved.

*Rollups.* Three connections are one that adds, one that rebuilds and one between them. Two Turns agree in Session, model,
multiplier and counters, so that in one timezone they share a row, which sums both, and in the other fall on two days; the third
has a Session, a multiplier and a shortfall of its own. The price lists differ in what they price and from which day.

*Approval.* One person's two tabs are what `OneWaiting` is about, a save and a deletion what `DeletedWaiting` is;
`GraceFromTheMove` needs three saves, and so, after the request that founds the Org, does a lock and a re-admission that
cross (`InIsTold`): five requests leave one more.

**Fairness.** `Collector`'s `FairSpec` assumes that flushes go on being started (each `SessionStart` sweeps every Session in
the environment) and that a started hook takes its steps. What keeps a step from happening (a kill, an expired deadline, a
failed request) is a fault, and faults are bounded: the deployment is not unreachable forever and not every hook is
killed. Nothing else is fair: late requests need not land, the marker need not be drained, Claude Code need not write.

`RetryQueue`'s assumes that outages end, that sessions go on being started (each start drains), and that a
hook or a drain which is not killed goes on; events need not occur and faults need not. `TurnLock`'s assumes that the
clock and every started run go on and that a suspended one is continued or killed.

`Archive`'s assumes that the sweep is called again and again, as its cron does, that a sweep goes on, and that every pass's
URLs expire in the end; no pass has to take another step. `Organisation`'s assumes that the cron is called every day, that
a transaction which can go on does, and that fourteen days pass; nobody has to ask for anything. `Rollups` and `Approval`
have safety properties only: none of their requests is retried by anything.

## What the runs found

Two runs show, with `expect: violation`, a statement of the repository that does not hold of the code:

1. **A deadline between two requests of one transcript loses Turns** (`cursor_past_unsent_project`). `flush` stops without
   counting the transcripts of the unsent requests as refused, so a transcript whose first request was accepted gets the
   cursor of the whole read. It takes a transcript with more than one report: Turns in two Projects, or more than
   `TURNS_PER_REPORT` of them, that fall into two requests.
2. **The sweep can delete an object a row names** (`rows_find_their_bytes`). An upload that died leaves a pending
   whole-file key; the sweep queues it and deletes its object in one transaction; a presign between the two does not see
   the uncommitted queue row, and does not wait.

The same happens, in the modules, of these, which TLC refutes when their definitions are checked by themselves:

- `Collector`: `UsageSafe` (a Turn reported between two of its entries keeps the first total: the parser's maximum covers
  one read, the insert never updates); `EveryTurnFiled` where `READ_LIMIT` can hold no Turn of the file (no report, no
  cursor, the same chunk again); `MarkerMeansFlushed` (the marker looks at refusals and unsent requests, not at how far the
  reads got).
- `RetryQueue`: `RefusedNotQueued` (a refusal that answers the last attempt, or comes with the deadline passed, is queued).
- `TurnLock`: `TakenFromTheDead` (between a waiting run's stat and its `rm`, another may have taken the lock over; the `rm`
  is by name; it takes three runs).
- `Organisation`: `RunByStaying` (the migration: "the last-Owner trigger holds the Org to an Owner who is staying"). An
  acceptance reads that an Owner stays, and the only Owner's request that nobody else is there, before either commits.
  And who leaves can be left with no Org at all: the leave locks the memberships there are, counts one they came into after
  that, and an Admin removes them from it, whose row nobody has locked. `SomewhereToGo` excuses that (`came`); that two
  leaves cannot "each count the other and both go" (`20260925120000_org_switcher.sql:386-387`) is what it says of the rest.
- `Approval`: `GraceFromTheMove` for Orgs in `late`. Events carry the moment their transaction began, so of two saves that
  overlap the later written may be the earlier event. The Org can end on a Tier without transcripts with no event after
  the last on a Tier with them: `sessclone_transcripts_end` is then `-infinity`, and the sweep takes the transcripts at once
  instead of in seven days. And the comment above the function says an Org that never had such a Tier gets `-infinity`;
  the code gives it its first event and seven days.
- `Approval`: `AdmissionIsTold` (`subscriptions.ts:364-366`: "this save let a locked Org in (ticket 119), so its Owners are told").
  `setSubscription` reads `before` without a lock and decides `approved` by it. An Org is in, its Owners were told. Save A
  writes `cancelled`; save B reads `before`, still `active`, and waits for the row; A commits; B writes `active` and commits, with
  `approved` false. The Org was locked and is in again, and nobody was told. TLC's trace has 21 states and four requests.
- `Approval`: `OnlyAdmissionsAreTold` (`apps/web/test/subscriptions.test.ts:573`: "approved is true only for the save that lets a locked
  Org in"). Two saves both read a locked Org and both write `active`: both say `approved`, and the Owners are mailed twice.
  15 states.
- `Archive`, behind the excuses `lost`, `cut` and `mixed`: the sweep deletes every pass's pending entry of a key one of whose
  entries has expired, so a live upload of that key leaves an object nothing names (`cut`); a key recorded again
  while another pass's URL for it is being outwaited is no longer outwaited (`cut`); passes that overlap on the whole-file
  key, or on a growing file, can leave a row with another hash than its object's (`mixed`). Besides, a row swept between
  a chunked confirm's read and its upsert is inserted again without its earlier chunks: `ChunkedIsExact` speaks of rows
  that hold their chunks.
- `Archive`: `HashOfStored` (ADR 0008: "`sha256` on the row is still the hash of every raw byte stored"). What a confirm
  finds sealed is compared with what its presign answered by count and bytes (`confirm/route.ts:333-358`), not by
  `sealed_sha256`. A pass that read a file before it was rewritten, and confirms after another sealed as many chunks of the new text,
  keeps those chunks before its own tail: the row then carries the hash of a text that is nowhere (`row.spliced`). It takes two
  passes, a file of two lines and one rewrite; TLC's trace has 25 steps. `ChunkedIsExact` excuses it; proving that
  property is how it was met, since without `Splices` the row's invariant is not inductive at `Write`.

## What the properties excuse

Where the code lets something through, the property that would refuse it excuses exactly that, in a variable that only remembers.
What is excused is not covered, by the run or by the theorem:

| property | excused | so it does not say |
| --- | --- | --- |
| `CursorSafe`, `CursorInv` (theorems, `collector_safety`) | transcripts of more than one report | anything of a deadline between two requests of one transcript, which `cursor_past_unsent_project` shows to fail |
| `MarkerAfterFlush` | Turns that were not read | that a read cut by `READ_LIMIT`, or a file that could not be read, keeps the marker back |
| `EveryTurnFiled` | `MaxNoise` at or above `READ_LIMIT` | that a chunk of bookkeeping alone is ever passed |
| `NoEventVanishes`, `EventSettles` | the fates `lost` and `refused` | that a kill in the back-off, an unreadable queue file or a refused key costs no event |
| `RunsTakeTurns` | states after any lapse | anything of two runs that both find the dead one's lock stale, or of a late run that removes another's lock |
| `ChunkedIsExact` | rows that are `spliced` or do not hold their chunks, objects `lost`, of `mixed` keys or being deleted | that chunks of another text are never kept, or that passes agree on a whole-file key |
| `Tracked`, `GarbageCollected` | `cut` | that the sweep forgets no key |
| `NamedExist` | `lost` | that no object is emptied under a live upload, or by a delete whose transaction rolled back |
| `OwnerKept`, `ClosedIsOver` | `strays` | that a scrub and a re-admission leave an Owner (and an Owner in their grace counts as one) |
| `SeatsHold` | a plan that moved meanwhile | that a lower ceiling is kept |
| `SomewhereToGo` | `came` | that who leaves keeps a membership that began during the leave |
| `InIsTold` | `missed` | that an Org locked over the head of a save that had read it as in is announced when that save lets it in |
| `GraceFromTheMove` | `late` | that events written out of the order of their moments keep the seven days |

## What is proved

All proofs are checked by TLAPS for every value of the constants that satisfies the assumptions of the
component's module. Every invariant and every action property that a passing run checks is also a theorem. Beside what the
constants are, two assumptions say something of the code: `PricesAssumption` in `Rollups`, that a price list has one
price for a rank, model, class and day (the unique constraints of `20260920120300_rates.sql`), whole multiples of its smallest
unit, and `NoRowAssumption` in `Archive`, that no row is the mark of none.

Of `Collector`, in `CollectorProofs` and `CollectorLedgerProofs`:

- `TypeCorrect`: `TypeOK`. Each action is one step and each part of `TypeOK` a conjunct of it.
- `FlushInvariant` and `MarkerHonest`: `MarkerAfterFlush` is not inductive: that a hook at the marker has had every Turn filed depends on
  what it did while sending. `FlushInv` adds that every Turn read is in some report, that a report answered and not
  refused is filed, and that nothing is answered while reading. `stored` never loses a row, which carries the second
  part across the steps of other hooks; `MayMark` gives that all reports are answered and nothing refused.
- `CursorInvariant` and `CursorSafety`: `CursorSafe` under `OneReportPerFile`, the assumption that a transcript's Turns make one report.
  The assumption is necessary: without it finding 1 is a counterexample. `CursorInv` adds that the cursor a hook holds
  is covered, that where it read to is covered but for the Turns it reports, and that those are filed once their
  transcript is acknowledged. With one report per transcript, acknowledged means the only request carrying it was
  accepted. Lines are only appended, so what was covered stays covered.
- `Implementation`: `Spec => ImplementsLedger`. `LedgerInv` bounds every total in memory, in a late request and in a
  row by what the transcript states, because `Stated` only grows; a batch then maps to `File`, a line to `State` (or,
  while torn, to a stutter and its completion to `State`), everything else to a stutter.

Of `RetryQueue`, in `RetryQueueProofs`:

- `TypeCorrect`: `TypeOK`, with `Tries` (a hook that still sends has sends left) for the bound on attempts.
- `NothingVanishes`: `NoEventVanishes` is not inductive at a drain's unlink. `SendingInv` adds that what a drain is about
  to unlink has been answered. That is kept although hooks and other drains move on, because nothing that has happened
  is undone (`FateStable`) and the drain stays at the same file (`FirstStays`): its listing holds only names of hooks
  that have left `deliver` (`FilesInv`), and those never change (`NamesStay`).
- `OldestFirst`: `DroppedForNewer`, strengthened to everything a hook is about to drop (`SpentInv`). Once a file is past
  the TTL, or older than `MaxQueued` files ever queued, it remains so (`SpentStays`), however old the listing is.
- `CapIsKept`: `CapHolds` is not inductive when a hook is done: files that came after its listing still count, and their
  hooks may be done already. `CapInv` says that there is a set of late files, all of hooks not done, without which the
  directory is within the cap; that what a late hook's listing lacks is late; and that of two listings the one taken later has
  what is left of the other. A late hook that is done leaves late what it did not list (`CapEnforces`); one that was
  overtaken changes nothing. That a listing keeps at most `MaxQueued` files needs a count: no two files have equally many
  newer ones (`FewHaveFewNewer`, by the pigeonhole theorem). The listings are a witness of `CapInv`, as a hook forgets its own.

Of `TurnLock`, in `TurnLockProofs`:

- `TakingTurns`: `RunsTakeTurns`. `LockInv` says that whoever archives made the lock that is there, and that the clock is
  at most a budget past its making; since `Budget < StaleAge`, no waiting run ever finds it stale. The bound is kept by
  `Tick`, which waits for runs at their deadline, and by the retry's sleep ending before it.

Of `Archive`, in `ArchiveProofs`:

- `TypeCorrect`: `TypeOK`, with `Planned`: the chunks a pass will seal are consecutive, a whole number of lines each, and are
  what the text it read has there (`IsPlan`).
- `TrackedHolds` and `NamedExistHolds`: both from `LedgerInv`, because what protects an object changes hands: first the pass's pending
  entry, then the row, then the sweep's queue. `SignedInv`: a pass that may still PUT to a key has it pending, or queued to
  outwait the pass's URLs, or forgotten (`cut`). `FoundInv`: whose confirm has found its objects still has
  what it found, unless it is on its way to being refused: the deletion that could take an object holds the queue's
  row or the entry, and presign and confirm wait for either (`DelInv`). `SurvivesInv`: what outlives the emptying
  of the bucket has a way to be deleted after the commit (`Outwaits` is what the queue keeps of several entries).
- `NeverBelowSealedHolds`: `NeverBelowSealed`, from `ShapeInv`. `RowInv`: the chunks of a row that holds them are numbered from 1, are each
  `ChunkLines` lines long, and end where the row says it is sealed. `PlacedInv`: a pass's plan continues the prefix it was
  answered. `StillInv`: under the advisory lock what the decision read still stands until the write, as others'
  confirms wait and a deletion only takes the row away.
- `ChunkedIsExactHolds`: `ChunkedIsExact`, with its excuses. No run rewrites a file of two chunks (with one rewrite TLC does not
  finish in five minutes); the theorem has any number of rewrites. `ShapeInv` says nothing of bytes; `ObjectInv` adds them. Every pass, late PUT, object and row that
  has to do with a tail's key makes a claim of what is under it: the text it read, from the key's chunks on. `AgreeInv`: no
  two claims of one key differ; that needs `FreshInv`, that a key with a nonce is drawn once (a pass counts its
  presigns). `ChunkInv`: a chunk's key names its text, so whoever PUTs it PUTs that. Chunks and tail then join to the text
  the row was confirmed with (`Pieces`): the new chunks are its text by `IsPlan`, the kept ones because the
  prefix has the text's hash, unless spliced.

Of `Rollups`, in `RollupsProofs`:

- `TypesHold`: `TypeOK`.
- `RollupsExact`: `Exact`. Committed tables alone say nothing of transactions in flight, so `Inv` adds what each of them has
  written. `Agrees` is `Exact` row by row. `Apart`: no two transactions have written one row of `turns` or `turn_rollups`,
  and nobody holds the lock beside an exclusive holder. `Place`: where a transaction is, given its kind and lock. `Written`: what it has
  written of `turns` is what its rollup rows will say or what it has yet to add. `View`: the rollups it sees are those of
  the Turns it sees by the timezone it sees, less what it has yet to read and add. `Commit` then turns a transaction's view
  into the tables, and the lock keeps another's commit from making a third one's view false.
- `RollupsPricedAlike`: `PricedAlike`, from `Exact`. The sums are folds over sets, of which nothing could be said before
  `SumElement` (a sum is one of its terms and the sum of the others) was proved; from it follow `SumSame`, `SumNonzero`
  and `SumParts`, that a sum may be taken part by part. `OneInForce`: in every price list one price beats all others on a day. So the Turns
  of a row, which share model, day, multiplier and the shape that says which counters are not zero, are all priced or all not
  (`PricedTurn`, `PricedRow`), each class with the same factor (`RowLikeTurns`: the multiplier, or 1 for a search); the cost of a row is then the sum of its Turns', and the day's the sum of its rows'. A
  shape that named fewer counters would break exactly the second step.

Of `Approval`, in `ApprovalProofs`:

- `TypeCorrect`: `TypeOK`.
- `OneWaits`: `OneWaiting`. `LockInv`: no two transactions hold one lock. `OwnInv`: who is about to have an Org made holds
  their own lock and has no Org waiting that was not past it, and what is past waiting is settled.
- `TheyAreTold`: `InIsTold`, with its excuse. A save may have read `before` long ago; `PlanInv` says that if it was in then,
  the Owners have been told since the Org was last locked, or it was locked over that save's head (`missed`), that a save about to commit holds the subscription and, unless it changes nothing, the Org, and
  that a deletion has the Org and the subscription if there is one.
- `OnlyWaitingAreDeleted`: `DeletedWaiting`, from the same two: between a deletion's look at the status and its commit no
  save can commit a change.
- `GraceCounted`: `GraceFromTheMove`. `TranscriptsEnd` reads the history, `moved` is what a save knew; `GraceInv` ties them
  together, Org by Org: one with transcripts has no event after the last on a Tier with them (`Keeps`), one moved off them has
  its first event after the last such at `moved` (`EndsAt`). That another save's event does not come between needs
  `MomentInv`: requests have moments of their own, which no event has before they commit. An Org with an event older
  than one already there is `late`, and excused.

Of `Organisation`, in `OrganisationProofs`, all of its properties but the liveness one:

- `TypeCorrect`: `TypeOK`, with `Shape`, which fields a transaction has at each of its places.
- `OwnersKept` and `ClosedStays`: `OwnerKept` and `ClosedIsOver` are not inductive, because a commit publishes what was decided
  under locks several steps ago. `LockInv`: no two transactions hold one lock. `Holding`: what each has locked at its place,
  and what it relies on because of that (the row it has written, the invitation it accepts, the users row it scrubs).
  `Relies`: what it may rely on of an Org although it holds nothing there. An acceptance past its check has an Owner who is
  not due, since a scrub needs the 14 days, which do not pass while a transaction is open; a transaction past the last-Owner
  trigger has the Org's lock and leaves somebody, or nobody at all; an Org about to close has nobody but the person scrubbed.
  `Kept` is the two properties for one Org. Steps before a commit change nothing others read (`OneMoves`); at a commit, each of
  the other transactions keeps what it relies on (`HoldingStays`, `ReliesStays`) since two that stop an Owner in one Org
  would hold the same lock.
- `AdmittedOnly` and `LeaversStay`: `Admitted` and `SomewhereToGo`, from `Holding`: only a commit changes `member`
  (`OnlyCommits`), and only an acceptance or a re-admission brings somebody in (`EntersHow`).
- `SeatsNotOverrun`: `SeatsHold`. `Counts`: who is being let in under a ceiling holds the Org's lock, and the others in
  the Org are fewer than the ceiling. Another's commit could only make it false by letting somebody in, who would hold the
  same lock, unless they were counted when there was no ceiling: then the plan has moved, for both (`Together`).

Only model-checked: the liveness properties `EveryTurnFiled`, `EventSettles`, `RunsEnd`, `GarbageCollected`, `DeletionsFinish`,
which are out of the prover's reach, and the violations. Induction over sets is possible, though the library's induction theorems
cannot be used: the sum lemmas of `RollupsProofs` take a smallest counterexample under strict inclusion, which
`FS_StrictSubsetOrderingWellFounded` and the definition of a well-founded order give (`Smallest`).

## Not modelled

- *Queue*: the probe of `connection.mjs` as a step of its own (a refused key is one of the refusals), and the
  answer `last-answer.mjs` keeps for the status bar.
- *Reporting*: the order in which a sweep visits Sessions, and the eight-second budget as a number (a flush may start or stop
  at any time); a transcript replaced by another file under the same path (lines only append); a line longer than
  `READ_LIMIT`; slicing by `TURNS_PER_REPORT`, which only makes more reports of one Project, as Projects do.
- *Archive*: sidecars, `no_turns` refusals, the plain upload when gzip fails, the download, several Orgs in one sweep. Deleting
  transactions run one at a time, and the sweep's statements that read the same rows are one step. The presign's decision
  and its ledger rows are one step, the confirm's HEADs another. All URLs of a pass expire together, and a pass whose URLs
  expired asks nothing more.
- *Organisation*: API keys, Devices, presets and stored objects the scrub also removes; Managers apart from Members; but the
  newest invitation of an address into an Org. The Org locks of one request are taken in one step, and time passes only
  while no transaction is open.
- *Rollups*: several Orgs, which share nothing; Projects, which are detached from Turns as Devices are.
- *Approval*: it is on (off, nothing waits). Other Members of an Org, the grace of an account and a failure between a
  commit and its mail are left out, as are the retention ceiling and notes, which write no event, and two accounts with one
  address. Saves as `past_due` behave as `active`. A save's hold on the Org's row is exclusive here; saves of one Org have
  already met at the subscription.
- API keys and authentication (a lookup per request), row-level security (predicates on one row, covered by the
  database tests), rates and their sync (read when priced), display parsing and redaction (text), configuration, proxy,
  status bar and `verify` (processes and wording), dashboard, marketing, admin and demo pages (reads and rendering). They
  are most of the lines of the repository, and keep no state that two actors share.

## What is left

1. An abstract archive in which a Session's stored bytes only grow, which `Archive` would implement but for its excuses.
2. Sidecars in `Archive`: the same ledger, with keys that every pass shares.
3. A rotated transcript in `Collector`, and lines longer than `READ_LIMIT`.
