------------------------------- MODULE Archive -------------------------------
(***************************************************************************)
(* One transcript's way into the bucket, and out of it.  A pass of the        *)
(* Collector (packages/plugin/src/archive.mjs) reads the file, asks for       *)
(* upload URLs (api/logs/presign), PUTs, and asks for the upload to be        *)
(* recorded (api/logs/confirm).  A retention sweep (lib/retention.ts) and the *)
(* Member's own delete (lib/artifacts.ts) remove rows and objects.  Rows and  *)
(* objects must agree although no transaction spans the two.                  *)
(*                                                                          *)
(* Passes run without a lock: the hooks that end and start a Session take     *)
(* none, and the per-turn runs of a cloud container can overlap (TurnLock).   *)
(*                                                                          *)
(* A file is a sequence of lines, and an offset is a number of lines.  A      *)
(* SHA-256 is the text it is of.  A line is the number of events (MaxEvents)    *)
(* it was appended after.  A statement of the database is one step, and so are the   *)
(* statements of one transaction between which nothing it reads can change.   *)
(* A transaction that has deleted rows and not committed is `del`: the rows   *)
(* are still read by others, and whoever would change them waits.             *)
(***************************************************************************)
EXTENDS Naturals, Sequences, FiniteSets, SequencesExt

CONSTANTS
  Passes,       \* one id per pass, drawn by its first presign
  NoPass,       \* what recorded the transcript before the first of them
  Projects,     \* what the Session's Turns may place it in
  NoRow,        \* no log_artifacts row
  ChunkLines,   \* CHUNK_BYTES, in lines
  MaxSeal,      \* MAX_SEAL
  MaxLines,     \* bound: lines in the file
  MaxEvents     \* bound, together: rewrites of the file, moves of the Session, switches
                \* of archival, the Member's deletes, kills, PUTs and deletes that fail

ASSUME ConstantsAssumption ==
  /\ NoPass \notin Passes
  /\ ChunkLines \in Nat \ {0}
  /\ MaxSeal \in Nat \ {0}
  /\ {MaxLines, MaxEvents} \subseteq Nat

VARIABLES
  file,      \* the transcript on the Member's machine
  settled,   \* the text of the last outcome that is not worth repeating
  project,   \* where the Turns place the Session
  open,      \* whether the Tier and the Member's switches allow archival
  bucket,    \* the objects: a function from their keys to their bytes
  row,       \* the log_artifacts row of this transcript, or NoRow
  chunks,    \* its log_artifact_chunks rows
  pending,   \* log_upload_pending: keys and the pass that may upload them
  orphans,   \* storage_orphans: a function from keys to the passes whose URLs they outwait
  lapsed,    \* passes all of whose URLs and pending entries have expired
  late,      \* PUTs the Collector gave up on that storage may still finish
  at,        \* at[p]: where pass p is, and its locals
  del,       \* the deleting transaction under way
  lost,      \* keys emptied under a live upload, or by a delete rolled back
  cut,       \* keys the ledger forgot, or stopped outwaiting, while a URL for them lived
  mixed,     \* keys PUT with bytes other than those hashed
  events     \* how many of the MaxEvents have happened

vars == <<file, settled, project, open, bucket, row, chunks, pending, orphans, lapsed,
          late, at, del, lost, cut, mixed, events>>
machine == <<file, settled>>
facts == <<project, open>>
ledger == <<pending, orphans>>
recorded == <<row, chunks>>
history == <<lost, cut, mixed>>

Counted == events < MaxEvents /\ events' = events + 1

-----------------------------------------------------------------------------
(* Object keys *)

WholeKey(j) == [kind |-> "whole", project |-> j, n |-> 0, id |-> <<>>]

(* Mutant: a tail is keyed by what it follows alone. *)
TailKeyShared(j, n, nonce) ==
  IF n = 0 THEN WholeKey(j) ELSE [kind |-> "tail", project |-> j, n |-> n, id |-> <<>>]

TailKey(j, n, nonce) ==
  IF n = 0 THEN WholeKey(j) ELSE [kind |-> "tail", project |-> j, n |-> n, id |-> nonce]

ChunkKey(j, seq, text) == [kind |-> "chunk", project |-> j, n |-> seq, id |-> text]

(* Whether k is a tail of this Session in Project j: after k.n chunks. *)
TailOf(j, k) == k.project = j /\ k.kind # "chunk"

(* The keys a refused confirm names: chunks only beside a tail that follows some. *)
ChunkKeysBeside(k, plan) ==
  IF k.kind = "tail" THEN {ChunkKey(k.project, c.seq, c.text) : c \in Range(plan)} ELSE {}

(* Keys the committed rows name. *)
ChunkKeys == {c.key : c \in chunks}
Named == ChunkKeys \cup (IF row = NoRow THEN {} ELSE {row.key})

-----------------------------------------------------------------------------
(* What to seal *)

Nothing == [bytes |-> 0, sha |-> <<>>, chunks |-> 0]

(* scanFile and planFrom: the next chunks after what is sealed, if that is    *)
(* still a prefix of the file that ends where a chunk would.                  *)
PlanFrom(text, sealed) ==
  LET from == sealed.bytes \div ChunkLines
      cuts == Len(text) \div ChunkLines
      n == IF cuts - from > MaxSeal THEN MaxSeal ELSE cuts - from
      Chunk(i) == [seq |-> sealed.chunks + i,
                   off |-> sealed.bytes + (i - 1) * ChunkLines,
                   text |-> SubSeq(text, sealed.bytes + (i - 1) * ChunkLines + 1,
                                   sealed.bytes + i * ChunkLines)]
  IN CASE sealed.bytes > Len(text) -> [fit |-> "stale", chunks |-> <<>>]
       [] sealed.bytes <= Len(text) /\ (\/ sealed.bytes % ChunkLines # 0
                                        \/ SubSeq(text, 1, sealed.bytes) # sealed.sha)
            -> [fit |-> "mismatch", chunks |-> <<>>]
       [] OTHER -> [fit |-> "seal", chunks |-> [i \in 1 .. n |-> Chunk(i)]]

(* The chunks of the row count only while its tail sits where this Session's  *)
(* tail would be after them.                                                  *)
Holds(r, j) == r # NoRow /\ chunks # {} /\ TailOf(j, r.key) /\ r.key.n = Cardinality(chunks)

Sealed == IF Holds(row, project)
            THEN [bytes |-> row.sealed, sha |-> row.sealedSha, chunks |-> Cardinality(chunks)]
            ELSE Nothing

(* Where a plan's chunks end, after what is sealed. *)
EndOf(sealed, plan) ==
  IF plan = <<>> THEN sealed.bytes
                 ELSE plan[Len(plan)].off + Len(plan[Len(plan)].text)

(* followsOn: the chunks start at the next seq and offset, and have no gap. *)
FollowsOn(sealed, plan) ==
  \A i \in DOMAIN plan :
    /\ plan[i].seq = sealed.chunks + i
    /\ plan[i].off = EndOf(sealed, SubSeq(plan, 1, i - 1))

(* presignDecision, for either route. *)
Decision(text) == CASE ~open -> "refused"
                    [] open /\ row # NoRow /\ row.sha = text -> "unchanged"
                    [] OTHER -> "allowed"

-----------------------------------------------------------------------------
Empty == [pc |-> "idle", scan |-> <<>>, tries |-> 1, asked |-> 0, want |-> "chunked",
          sealed |-> Nothing, plan |-> <<>>, puts |-> <<>>, key |-> WholeKey(project),
          tail |-> 0, cur |-> NoRow]

Quiet == [phase |-> "idle", row |-> FALSE, keys |-> {}, pend |-> {}, orph |-> {},
          cut |-> {}, known |-> {}, waits |-> FALSE]

(* The file has some lines, and none or some of them were archived by a pass   *)
(* that ended before any of these began.                                       *)
Archived(j, n) ==
  LET c == n \div ChunkLines
      text == [i \in 1 .. n |-> 0]
      Part(i) == [i2 \in 1 .. ChunkLines |-> 0]
      key == TailKey(j, c, <<NoPass, 0>>)
  IN /\ row = [project |-> j, key |-> key, sha |-> text, size |-> n,
               sealed |-> c * ChunkLines, sealedSha |-> SubSeq(text, 1, c * ChunkLines),
               old |-> FALSE, since |-> {}, spliced |-> FALSE]
     /\ chunks = {[seq |-> i, off |-> (i - 1) * ChunkLines, text |-> Part(i),
                   key |-> ChunkKey(j, i, Part(i))] : i \in 1 .. c}
     /\ bucket = [k \in {key} \cup {ChunkKey(j, i, Part(i)) : i \in 1 .. c} |->
                    IF k = key THEN SubSeq(text, c * ChunkLines + 1, n) ELSE k.id]
     /\ settled = text

Init ==
  /\ project \in Projects
  /\ open = TRUE
  /\ file \in {[i \in 1 .. n |-> 0] : n \in 1 .. MaxLines}
  /\ \/ row = NoRow /\ chunks = {} /\ bucket = <<>> /\ settled = <<>>
     \/ \E n \in 1 .. Len(file) : n \div ChunkLines <= MaxSeal /\ Archived(project, n)
  /\ pending = {} /\ orphans = <<>> /\ lapsed = {} /\ late = {}
  /\ at = [p \in Passes |-> Empty]
  /\ del = Quiet
  /\ lost = {} /\ cut = {} /\ mixed = {}
  /\ events = 0

-----------------------------------------------------------------------------
(* The world around: Claude Code, the Member, time *)

AppendLine ==
  /\ Len(file) < MaxLines
  /\ file' = Append(file, events)
  /\ UNCHANGED <<settled, facts, bucket, recorded, ledger, lapsed, late, at, del, history, events>>

Rewrite ==
  /\ Counted
  /\ \E n \in 0 .. Len(file) - 1 : file' = SubSeq(file, 1, n)
  /\ UNCHANGED <<settled, facts, bucket, recorded, ledger, lapsed, late, at, del, history>>

MoveProject ==
  /\ Counted
  /\ project' \in Projects \ {project}
  /\ UNCHANGED <<machine, open, bucket, recorded, ledger, lapsed, late, at, del, history>>

Switch ==
  /\ Counted
  /\ open' = ~open
  /\ UNCHANGED <<machine, project, bucket, recorded, ledger, lapsed, late, at, del, history>>

(* Time passes the life of everything p was signed, and the grace after it.    *)
(* A pass is over long before that, unless its machine slept: it may still     *)
(* confirm, and asks for nothing more.                                         *)
Lapse(p) ==
  /\ p \notin lapsed
  /\ at[p].pc # "idle"
  /\ lapsed' = lapsed \cup {p}
  /\ UNCHANGED <<machine, facts, bucket, recorded, ledger, late, at, del, history, events>>

(* The row passes the Org's retention window, a day or more after its creation:  *)
(* what was signed before that has lapsed.                                     *)
RowAges ==
  /\ row # NoRow /\ ~row.old /\ row.since \subseteq lapsed
  /\ row' = [row EXCEPT !.old = TRUE]
  /\ UNCHANGED <<machine, facts, bucket, chunks, ledger, lapsed, late, at, del, history, events>>

-----------------------------------------------------------------------------
(* A pass of the Collector *)

Over == [Empty EXCEPT !.pc = "over"]
Ends(p) == at' = [at EXCEPT ![p] = Over]

(* stat, readOutcome, scanFile.  A file that has not changed since an outcome  *)
(* nothing can improve on is skipped.                                          *)
Scan(p) ==
  /\ at[p].pc = "idle"
  /\ \/ settled = file /\ Ends(p)
     \/ settled # file /\ at' = [at EXCEPT ![p].pc = "ask", ![p].scan = file]
  /\ UNCHANGED <<machine, facts, bucket, recorded, ledger, lapsed, late, del, history, events>>

(* The next step of a pass whose chunked attempt met newer chunks. *)
Again(p) ==
  IF at[p].want # "whole" /\ at[p].tries = 1
    THEN at' = [at EXCEPT ![p].pc = "ask", ![p].want = "chunked", ![p].tries = 2]
    ELSE Ends(p)

(* Mutant: a presign does not wait for the sweep that holds an orphan's row. *)
WaitsForNothing(keys, p) == FALSE

(* A presign adds its keys to the ledger and takes them off the orphans, which *)
(* waits for a deleting transaction that holds either row.                     *)
Waits(keys, p) ==
  /\ del.phase # "idle"
  /\ \/ \E e \in del.pend : e.pass = p /\ e.key \in keys
     \/ keys \cap del.orph \cap DOMAIN orphans # {}

(* Keys taken off the orphans before the URLs they outwait are dead. *)
Unwaited(keys) == {k \in keys \cap DOMAIN orphans : ~(orphans[k] \subseteq lapsed)}

Sign(p, keys) ==
  /\ ~Waits(keys, p)
  /\ pending' = pending \cup {[key |-> k, pass |-> p] : k \in keys}
  /\ orphans' = Restrict(orphans, DOMAIN orphans \ keys)
  /\ cut' = cut \cup Unwaited(keys)

(* Raw lines from + 1 .. to go to key k; for a tail, to is the size declared. *)
Upload(k, from, to) == [key |-> k, from |-> from, to |-> to]

(* The presign of at[p].want answered, and what the Collector makes of it:     *)
(* plan and ask again with the chunks to seal, or fall back to the whole file. *)
AskChunked(p, nonce) ==
  LET plan == PlanFrom(at[p].scan, Sealed)
      key == TailKey(project, Sealed.chunks, nonce)
      me == [at[p] EXCEPT !.asked = @ + 1, !.sealed = Sealed]
  IN /\ at[p].want = "chunked"
     /\ Sign(p, {key})
     /\ \/ plan.fit = "stale" /\ Ends(p)
        \/ plan.fit = "mismatch" /\ at' = [at EXCEPT ![p] = [me EXCEPT !.want = "whole"]]
        \/ /\ plan.fit = "seal" /\ plan.chunks # <<>>
           /\ at' = [at EXCEPT ![p] = [me EXCEPT !.want = "seal", !.plan = plan.chunks]]
        \/ /\ plan.fit = "seal" /\ plan.chunks = <<>>
           /\ at' = [at EXCEPT ![p] =
                [me EXCEPT !.pc = "put", !.key = key, !.plan = <<>>,
                           !.puts = <<Upload(key, Sealed.bytes, Len(at[p].scan))>>]]

AskSeal(p, nonce) ==
  LET plan == at[p].plan
      key == TailKey(project, Sealed.chunks + Len(plan), nonce)
      Keyed(i) == ChunkKey(project, Sealed.chunks + i, plan[i].text)
      end == EndOf(at[p].sealed, plan)
  IN /\ at[p].want = "seal"
     /\ Sign(p, {key} \cup {Keyed(i) : i \in DOMAIN plan})
     /\ \/ Sealed # at[p].sealed /\ Again(p)
        \/ /\ Sealed = at[p].sealed
           /\ at' = [at EXCEPT
                ![p].pc = "put", ![p].asked = @ + 1, ![p].key = key,
                ![p].puts = [i \in DOMAIN plan |->
                               Upload(Keyed(i), plan[i].off, plan[i].off + Len(plan[i].text))]
                            \o <<Upload(key, end, Len(at[p].scan))>>]

AskWhole(p) ==
  /\ at[p].want = "whole"
  /\ Sign(p, {WholeKey(project)})
  /\ at' = [at EXCEPT ![p].pc = "put", ![p].key = WholeKey(project), ![p].plan = <<>>,
                      ![p].puts = <<Upload(WholeKey(project), 0, Len(at[p].scan))>>]

(* POST of api/logs/presign.  A refusal is settled: switches, or unchanged. *)
Presign(p) ==
  /\ at[p].pc = "ask"
  /\ p \notin lapsed
  /\ \/ /\ Decision(at[p].scan) # "allowed"
        /\ settled' = at[p].scan
        /\ Ends(p)
        /\ UNCHANGED <<ledger, cut>>
     \/ /\ Decision(at[p].scan) = "allowed"
        /\ AskChunked(p, <<p, at[p].asked>>) \/ AskSeal(p, <<p, at[p].asked>>) \/ AskWhole(p)
        /\ UNCHANGED settled
  /\ UNCHANGED <<file, facts, bucket, recorded, lapsed, late, del, lost, mixed, events>>

(* The bytes of one upload, read from the file as it is now.  A chunk is       *)
(* compressed from whatever is there; a tail must have the length declared.    *)
Bytes(u) == SubSeq(file, u.from + 1, IF u.to > Len(file) THEN Len(file) ELSE u.to)
CanSend(u) == u.key.kind = "chunk" \/ u.to <= Len(file)

Stored(k, text) == [j \in DOMAIN bucket \cup {k} |-> IF j = k THEN text ELSE bucket[j]]

(* An object lands, with the bytes that were hashed or with others. *)
Lands(k, text, same) ==
  /\ bucket' = Stored(k, text)
  /\ lost' = lost \ {k}
  /\ mixed' = IF same THEN mixed \ {k} ELSE mixed \cup {k}

Same(p, u) == Bytes(u) = SubSeq(at[p].scan, u.from + 1, u.to)

(* put: the next of the pass's PUTs reaches the bucket. *)
Put(p) ==
  LET u == Head(at[p].puts)
      last == Tail(at[p].puts) = <<>>
  IN /\ at[p].pc = "put"
     /\ p \notin lapsed
     /\ CanSend(u)
     /\ Lands(u.key, Bytes(u), Same(p, u))
     /\ at' = [at EXCEPT ![p].puts = Tail(@), ![p].pc = IF last THEN "confirm" ELSE "put"]
     /\ UNCHANGED <<machine, facts, recorded, ledger, lapsed, late, del, cut, events>>

(* A PUT fails, or the file is shorter than the length declared. *)
PutFails(p) ==
  LET u == Head(at[p].puts)
  IN /\ at[p].pc = "put"
     /\ \/ /\ CanSend(u) /\ p \notin lapsed /\ Counted
           /\ late' = late \cup {[key |-> u.key, pass |-> p, text |-> Bytes(u),
                                 same |-> Same(p, u)]}
        \/ ~CanSend(u) /\ UNCHANGED <<late, events>>
     /\ Ends(p)
     /\ UNCHANGED <<machine, facts, bucket, recorded, ledger, lapsed, del, history>>

(* A PUT the Collector gave up on lands while its URL lives. *)
PutLate(u) ==
  /\ u.pass \notin lapsed
  /\ late' = late \ {u}
  /\ Lands(u.key, u.text, u.same)
  /\ UNCHANGED <<machine, facts, recorded, ledger, lapsed, at, del, cut, events>>

(* The hook is killed or its deadline passes, anywhere. *)
Kill(p) ==
  /\ at[p].pc \notin {"idle", "over"}
  /\ Counted
  /\ Ends(p)
  /\ UNCHANGED <<machine, facts, bucket, recorded, ledger, lapsed, late, del, history>>

-----------------------------------------------------------------------------
(* POST of api/logs/confirm *)

Keys(p) ==
  {at[p].key} \cup {ChunkKey(at[p].key.project, c.seq, c.text) : c \in Range(at[p].plan)}

(* What the deleting transaction has put in the queue, or taken from it, and   *)
(* not committed: another insert of the key waits for it.                      *)
Held == del.orph \cup {e.key : e \in del.pend}

(* unrecorded: this pass's entries of these keys leave the ledger for the     *)
(* orphans, which outwait their URLs.                                          *)
Queue(orph, entries) ==
  LET Before(k) == IF k \in DOMAIN orph THEN orph[k] ELSE {}
  IN [k \in DOMAIN orph \cup {e.key : e \in entries} |->
        Before(k) \cup {e.pass : e \in {e \in entries : e.key = k}}]

OfPass(p, keys) == {e \in pending : e.pass = p /\ e.key \in keys}

(* Mutant: a refused confirm forgets its keys instead of queueing them. *)
GiveUpForgetting(p) ==
  LET entries == OfPass(p, {at[p].key} \cup ChunkKeysBeside(at[p].key, at[p].plan))
  IN /\ {e.key : e \in entries} \cap Held = {}
     /\ pending' = pending \ entries
     /\ UNCHANGED orphans

GiveUp(p) ==
  LET entries == OfPass(p, {at[p].key} \cup ChunkKeysBeside(at[p].key, at[p].plan))
  IN /\ {e.key : e \in entries} \cap Held = {}
     /\ pending' = pending \ entries
     /\ orphans' = Queue(orphans, entries)

Chunked(p) == at[p].want # "whole"

(* The tail is where this Session's would be after what is sealed and the new *)
(* chunks; any other key is a seq that moved on or a Session that moved.      *)
InPlace(p) ==
  LET n == Sealed.chunks + Len(at[p].plan)
  IN IF Chunked(p) THEN TailOf(project, at[p].key) /\ at[p].key.n = n
                   ELSE at[p].key = WholeKey(project)

(* Up to the HEADs: the decision again, and whether the keys still fit it. *)
Decide(p) ==
  LET decision == Decision(at[p].scan)
      fits == InPlace(p) /\ FollowsOn(Sealed, at[p].plan)
  IN /\ at[p].pc = "confirm"
     /\ \/ decision = "refused" /\ GiveUp(p) /\ Ends(p) /\ UNCHANGED settled
        \/ decision = "unchanged" /\ GiveUp(p) /\ Ends(p) /\ settled' = at[p].scan
        \/ /\ decision = "allowed" /\ ~fits /\ GiveUp(p) /\ UNCHANGED settled
           /\ IF Chunked(p) /\ TailOf(project, at[p].key) THEN Again(p) ELSE Ends(p)
        \/ /\ decision = "allowed" /\ fits
           /\ at' = [at EXCEPT ![p].pc = "heads", ![p].sealed = Sealed]
           /\ UNCHANGED <<settled, ledger>>
     /\ UNCHANGED <<file, facts, bucket, recorded, lapsed, late, del, history, events>>

(* Every object is there, or the upload is not recorded.  Sizes are storage's. *)
Heads(p) ==
  /\ at[p].pc = "heads"
  /\ \/ /\ Keys(p) \subseteq DOMAIN bucket
        /\ at' = [at EXCEPT ![p].pc = "lock", ![p].tail = Len(bucket[at[p].key])]
        /\ UNCHANGED ledger
     \/ ~(Keys(p) \subseteq DOMAIN bucket) /\ GiveUp(p) /\ Ends(p)
  /\ UNCHANGED <<machine, facts, bucket, recorded, lapsed, late, del, history, events>>

(* Mutant: what the decision read is not looked at again under the lock. *)
StillUnchecked(p) == TRUE

(* The advisory lock, the row as committed, and whether what the decision read *)
(* still stands.  A transaction that is deleting the row does not take this    *)
(* lock, and its deletes are not seen.                                         *)
Still(p) ==
  IF Chunked(p)
    THEN IF Holds(row, at[p].key.project)
           THEN /\ Cardinality(chunks) = at[p].sealed.chunks
                /\ row.sealed = at[p].sealed.bytes
           ELSE at[p].sealed.chunks = 0
    ELSE row # NoRow => at[p].tail >= row.sealed

Lock(p) ==
  /\ at[p].pc = "lock"
  /\ \A q \in Passes : at[q].pc # "write"
  /\ \/ /\ Still(p)
        /\ at' = [at EXCEPT ![p].pc = "write", ![p].cur = row]
        /\ UNCHANGED ledger
     \/ ~Still(p) /\ GiveUp(p) /\ Again(p)
  /\ UNCHANGED <<machine, facts, bucket, recorded, lapsed, late, del, history, events>>

(* Mutant: the row carries the prefix of the chunks it found, not of those it adds. *)
NewRowStale(p) ==
  LET me == at[p]
      sealed == me.sealed.bytes + Len(me.plan)
  IN [project |-> me.key.project, key |-> me.key, sha |-> me.scan,
      size |-> sealed + me.tail, sealed |-> sealed, sealedSha |-> me.sealed.sha,
      old |-> row # NoRow /\ row.old, since |-> {}, spliced |-> FALSE]

(* Whether this confirm leaves the chunks of the row where they are. *)
Keeps(p) == Chunked(p) /\ at[p].sealed.chunks > 0

(* Whether it keeps chunks of a text other than its own: their count and size  *)
(* are compared when it locks the row, and their hash only by its presign.     *)
Splices(p) ==
  LET me == at[p] IN
  /\ Keeps(p) /\ row # NoRow
  /\ row.spliced \/ {row.sealedSha, me.sealed.sha} # {SubSeq(me.scan, 1, me.sealed.bytes)}

(* The row a confirm writes: what its pass read, under the decision's sizes.   *)
(* The new chunks follow on, so that where they end is the sum of their sizes. *)
NewRow(p) ==
  LET me == at[p]
      sealed == IF Chunked(p) THEN EndOf(me.sealed, me.plan) ELSE 0
  IN [project |-> me.key.project, key |-> me.key, sha |-> me.scan,
      size |-> sealed + me.tail, sealed |-> sealed,
      sealedSha |-> IF me.plan = <<>> /\ Chunked(p) THEN me.sealed.sha
                                                    ELSE SubSeq(me.scan, 1, sealed),
      old |-> row # NoRow /\ row.old,
      since |-> IF row = NoRow THEN {q \in Passes : at[q].pc # "idle"} ELSE row.since,
      spliced |-> Splices(p)]

(* The rest of the transaction, to its commit.  It waits for whoever deletes   *)
(* the row, its chunks, or what it takes from the ledger; a row deleted since  *)
(* it was read is inserted again, without the chunks it had.                   *)
Write(p) ==
  LET me == at[p]
      keys == Keys(p)
      mine == {e \in pending : e.pass = p}
      replaced == ((IF Keeps(p) THEN {} ELSE ChunkKeys)
                     \cup (IF me.cur = NoRow THEN {} ELSE {me.cur.key})) \ keys
      unused == {e \in mine : e.key \notin keys}
      queued == Queue(orphans, unused)
      left == DOMAIN queued \ keys
      New(c) == [seq |-> c.seq, off |-> c.off, text |-> c.text,
                 key |-> ChunkKey(me.key.project, c.seq, c.text)]
  IN /\ me.pc = "write"
     /\ ~(del.row /\ row # NoRow)
     /\ mine \cap del.pend = {}
     /\ keys \cap del.orph \cap DOMAIN orphans = {}
     /\ (replaced \cup {e.key : e \in unused}) \cap Held = {}
     /\ \/ /\ {e.key : e \in OfPass(p, keys)} = keys
           /\ row' = NewRow(p)
           /\ chunks' = (IF Keeps(p) THEN chunks ELSE {}) \cup {New(c) : c \in Range(me.plan)}
           /\ pending' = pending \ mine
           /\ orphans' = [k \in left \cup replaced |-> IF k \in left THEN queued[k] ELSE {}]
           /\ settled' = me.scan
           /\ cut' = cut \cup Unwaited(keys)
           /\ Ends(p)
        \/ /\ {e.key : e \in OfPass(p, keys)} # keys
           /\ GiveUp(p) /\ Ends(p)
           /\ UNCHANGED <<settled, recorded, cut>>
     /\ UNCHANGED <<file, facts, bucket, lapsed, late, del, lost, mixed, events>>

-----------------------------------------------------------------------------
(* Deleting: the retention sweep, and the Member *)

RowKeys == IF row = NoRow THEN {} ELSE Named

(* Mutant: an upload that was never confirmed is not the sweep's business. *)
SweepOnlyQueued ==
  LET expired == row # NoRow /\ row.old
      dead == {k \in DOMAIN orphans : k \notin Named /\ orphans[k] \subseteq lapsed}
  IN /\ del.phase = "idle"
     /\ expired \/ dead # {}
     /\ del' = [phase |-> "taken", row |-> expired, pend |-> {}, orph |-> dead,
                keys |-> dead \cup (IF expired THEN Named ELSE {}), cut |-> {},
                known |-> dead, waits |-> FALSE]
     /\ UNCHANGED <<machine, facts, bucket, recorded, ledger, lapsed, late, at, history, events>>

(* sweepRetention, up to the objects: the expired row with its chunks, what    *)
(* has expired of the ledger (every pass's entry of a key one of whose entries *)
(* has), and the orphans that nothing names and whose URLs are dead.           *)
SweepTake ==
  LET expired == row # NoRow /\ row.old
      named == IF expired THEN {} ELSE Named
      gone == {e \in pending : \E o \in pending : o.key = e.key /\ o.pass \in lapsed}
      queue == [k \in DOMAIN orphans \cup {e.key : e \in gone} |->
                  IF k \in DOMAIN orphans THEN orphans[k] ELSE {}]
      dead == {k \in DOMAIN queue : /\ k \notin named
                                    /\ k \notin {e.key : e \in pending \ gone}
                                    /\ queue[k] \subseteq lapsed}
  IN /\ del.phase = "idle"
     /\ expired \/ gone # {} \/ dead # {}
     /\ del' = [phase |-> "taken", row |-> expired, pend |-> gone, orph |-> dead,
                keys |-> dead \cup (IF expired THEN RowKeys ELSE {}),
                cut |-> {e.key : e \in {e \in gone : e.pass \notin lapsed}},
                known |-> dead \cap DOMAIN orphans, waits |-> FALSE]
     /\ UNCHANGED <<machine, facts, bucket, recorded, ledger, lapsed, late, at, history, events>>

(* deleteStoredSession: the row with its chunks, and every upload pending      *)
(* under it, which is queued as well, until its URL is dead.                   *)
DeleteTake ==
  /\ del.phase = "idle"
  /\ row # NoRow
  /\ Counted
  /\ del' = [phase |-> "taken", row |-> TRUE, pend |-> pending, orph |-> {}, cut |-> {},
             known |-> {}, keys |-> RowKeys \cup {e.key : e \in pending}, waits |-> TRUE]
  /\ UNCHANGED <<machine, facts, bucket, recorded, ledger, lapsed, late, at, history>>

(* deleteObjects.  Only a key that was already in the queue is safe from an    *)
(* upload signed since the rows were taken: what this transaction queued, or   *)
(* takes with its row, may have been signed, PUT and even recorded meanwhile.  *)
Reused ==
  {k \in del.keys \ del.known : (k \in Named /\ ~del.row) \/ k \in {e.key : e \in pending \ del.pend}}

EmptyBucket ==
  /\ del.phase = "taken"
  /\ bucket' = Restrict(bucket, DOMAIN bucket \ del.keys)
  /\ lost' = lost \cup Reused
  /\ del' = [del EXCEPT !.phase = "emptied"]
  /\ UNCHANGED <<machine, facts, recorded, ledger, lapsed, late, at, cut, mixed, events>>

DeleteCommits ==
  LET entries == pending \cap del.pend
      queue == Queue(orphans, entries)
      Wait(k) == IF del.waits \/ k \in DOMAIN orphans THEN queue[k] ELSE {}
      kept == DOMAIN queue \ del.orph
      now == pending \ entries
  IN /\ del.phase = "emptied"
     /\ pending' = now
     /\ orphans' = [k \in kept |-> Wait(k)]
     /\ row' = IF del.row THEN NoRow ELSE row
     /\ chunks' = IF del.row THEN {} ELSE chunks
     /\ cut' = cut \cup del.cut
     /\ del' = Quiet
     /\ UNCHANGED <<machine, facts, bucket, lapsed, late, at, lost, mixed, events>>

(* Storage refuses some of the keys, or the commit fails: the rows stay. *)
DeleteFails ==
  /\ del.phase # "idle"
  /\ Counted
  /\ \E gone \in IF del.phase = "taken" THEN SUBSET del.keys ELSE {del.keys} :
       /\ bucket' = Restrict(bucket, DOMAIN bucket \ gone)
       /\ lost' = lost \cup gone
  /\ del' = Quiet
  /\ UNCHANGED <<machine, facts, recorded, ledger, lapsed, late, at, cut, mixed>>

-----------------------------------------------------------------------------
PassStep(p) == \/ Scan(p) \/ Presign(p) \/ Put(p) \/ PutFails(p) \/ Kill(p)
               \/ Decide(p) \/ Heads(p) \/ Lock(p) \/ Write(p)

Deletion == SweepTake \/ DeleteTake \/ EmptyBucket \/ DeleteCommits \/ DeleteFails

Around == \/ AppendLine \/ Rewrite \/ MoveProject \/ Switch \/ RowAges
          \/ \E p \in Passes : Lapse(p)
          \/ \E u \in late : PutLate(u)

Next == (\E p \in Passes : PassStep(p)) \/ Deletion \/ Around

Spec == Init /\ [][Next]_vars

FairSpec == Spec /\ WF_vars(SweepTake) /\ WF_vars(EmptyBucket) /\ WF_vars(DeleteCommits)
                 /\ \A p \in Passes : WF_vars(Lapse(p))

-----------------------------------------------------------------------------
Key == [kind : {"whole", "tail", "chunk"}, project : Projects, n : Nat,
        id : Seq(Nat) \cup ((Passes \cup {NoPass}) \X Nat)]
Texts == Seq(Nat) \ {<<>>}
Entry == [key : Key, pass : Passes]
Row == [project : Projects, key : Key, sha : Seq(Nat), size : Nat, sealed : Nat,
        sealedSha : Seq(Nat), old : BOOLEAN, since : SUBSET Passes, spliced : BOOLEAN]

ASSUME NoRowAssumption == NoRow \notin Row

Sealing == [bytes : Nat, sha : Seq(Nat), chunks : Nat]
PlanParts == [seq : Nat \ {0}, off : Nat, text : Texts]
Uploads == [key : Key, from : Nat, to : Nat]
ChunkRows == [seq : Nat \ {0}, off : Nat, text : Texts, key : Key]
LatePuts == [key : Key, pass : Passes, text : Seq(Nat), same : BOOLEAN]

Locals == [pc : {"idle", "ask", "put", "confirm", "heads", "lock", "write", "over"},
           scan : Seq(Nat), tries : {1, 2}, asked : Nat, want : {"chunked", "seal", "whole"},
           sealed : Sealing, plan : Seq(PlanParts), puts : Seq(Uploads), key : Key,
           tail : Nat, cur : Row \cup {NoRow}]

Deleting == [phase : {"idle", "taken", "emptied"}, row : BOOLEAN, keys : SUBSET Key,
             pend : SUBSET Entry, orph : SUBSET Key, cut : SUBSET Key, known : SUBSET Key,
             waits : BOOLEAN]

TypeOK ==
  /\ file \in Seq(Nat) /\ settled \in Seq(Nat) /\ events \in Nat
  /\ project \in Projects /\ open \in BOOLEAN
  /\ bucket \in [DOMAIN bucket -> Seq(Nat)] /\ DOMAIN bucket \subseteq Key
  /\ \/ row = NoRow /\ chunks = {}
     \/ /\ row \in Row /\ row.project = row.key.project
        /\ row.sealed = 0 <=> row.sealedSha = <<>>
  /\ chunks \subseteq ChunkRows
  /\ IsFiniteSet(chunks)
  /\ pending \subseteq Entry
  /\ orphans \in [DOMAIN orphans -> SUBSET Passes] /\ DOMAIN orphans \subseteq Key
  /\ lapsed \subseteq Passes
  /\ late \subseteq LatePuts
  /\ at \in [Passes -> Locals]
  /\ del \in Deleting

(* Nothing is in the bucket without a way to be deleted: a row names it, or a  *)
(* pending upload, or the sweep's queue (confirm/route.ts, presign/route.ts).  *)
(* Excused are keys whose live entry the sweep took with an expired one, and   *)
(* keys recorded again while another pass's URL for them was being outwaited.  *)
Tracked ==
  \A k \in DOMAIN bucket : \/ k \in Named \/ k \in DOMAIN orphans \/ k \in cut
                           \/ \E e \in pending : e.key = k

(* Whatever a row names is in the bucket: what the sweep takes for an orphan   *)
(* is not named again before it is gone, and nothing is recorded that was not  *)
(* uploaded.  Excused are objects lost under a live upload, or to a delete     *)
(* that was rolled back.                                                       *)
NamedExist == \A k \in Named : k \in DOMAIN bucket \/ k \in lost \/ k \in del.keys

(* Without the excuse: what the comments at the ledger and the sweep say. *)
RowsFindTheirBytes == \A k \in Named : k \in DOMAIN bucket \/ k \in del.keys

(* A row stored in chunks is exactly the transcript whose hash it carries: its *)
(* chunks have no gap and no overlap and hold its sealed prefix, its tail is   *)
(* the rest, and no other pass has overwritten any of them.  Excused are rows  *)
(* whose confirm kept chunks of another text (see Splices), and rows one of    *)
(* whose objects is lost, of a mixed key or being deleted.                     *)
Whole(r) ==
  LET n == Cardinality(chunks)
      Part(i) == CHOOSE c \in chunks : c.seq = i
  IN /\ {c.seq : c \in chunks} = 1 .. n
     /\ FlattenSeq([i \in 1 .. n |-> bucket[Part(i).key]]) \o bucket[r.key] = r.sha

ChunkedIsExact ==
  row # NoRow /\ Holds(row, row.project) /\ ~row.spliced /\ Named \cap (lost \cup mixed \cup del.keys) = {}
    => Whole(row)

(* Without that excuse: what ADR 0008 says of a row's hash, "the hash of every  *)
(* raw byte stored".                                                           *)
HashOfStored ==
  row # NoRow /\ Holds(row, row.project) /\ Named \cap (lost \cup mixed \cup del.keys) = {}
    => Whole(row)

(* A confirm never leaves fewer bytes recorded than had been sealed, however    *)
(* old the file its pass had read.                                             *)
NeverBelowSealed ==
  [][row # NoRow /\ row' # NoRow /\ row'.project = row.project /\ Holds(row, row.project)
       => row'.size >= row.sealed]_vars

(* What no row names is deleted in the end: superseded tails, cut-off passes,  *)
(* late PUTs, refused confirms.                                                *)
GarbageCollected == <>[](DOMAIN bucket \subseteq Named \cup cut)
=============================================================================
