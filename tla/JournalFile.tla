---------------------------- MODULE JournalFile ----------------------------
(***************************************************************************)
(* The files of internal/journal: a unit's current file and its archives,  *)
(* the record buffer in front of it, resumable rotation and tail repair    *)
(* (store.go, buffer.go, recovery.go), the disk quota with the removal of  *)
(* historical units (disk_retention.go), and the scan that pages through   *)
(* the files without their lock.                                           *)
(*                                                                         *)
(* A record is two units long, so that a write can stop half way; an item  *)
(* of a file is [n, form], with form "line", "torn" (half a record and no  *)
(* newline) or "bad" (bytes that are not one record).  Index 0 is the      *)
(* current file and 1..Keep the archives.  Records are numbered in the     *)
(* order they are written; their stamps were taken before they were queued *)
(* and need not rise with the numbers.                                     *)
(***************************************************************************)
EXTENDS Integers, Sequences, FiniteSets, FiniteSetsExt, SequencesExt, Functions

CONSTANTS
  Units,
  Keep,          \* Store.keep
  MaxSize,       \* Store.maxSize
  BufferSize,    \* journalBufferSize
  MaxDiskSize,   \* Store.maxDiskSize
  MaxDiskFiles,  \* Store.maxDiskFiles
  Scenarios      \* [disk, first, stamps, follow, writers, faults, crashes, records,
                 \* readers]: the files found at the start, the number of the
                 \* first new record, the stamp of each record, the unit that is
                 \* followed, the units written, and bounds: failing calls,
                 \* crashes, the last record written and the queries made

Names == Units \X (0..Keep)
NoObject == [open |-> FALSE, owned |-> FALSE]
Idle == [pc |-> "idle"]
NoPrune == [unit |-> "none"]

VARIABLES
  scene,
  disk,      \* the files: a function from the names that exist
  durable,   \* how many items of each current file are synced
  object,    \* Store.files
  op,        \* the write or sync that holds a unit's lock
  index,     \* Store.disk: [ready, size]
  prune,     \* the removal that holds diskGate
  scan,      \* a follower of one unit: its cursor and the query in progress
  next,      \* the number of the next record
  accepted,  \* records whose write returned nil
  gone,      \* records evicted, lost with the process or counted at close
  rotations, \* rotations begun, and archives removed, for each unit
  removed,
  faults, crashes

counts == <<next, accepted, gone>>
rotated == <<rotations, removed>>
vars == <<scene, disk, durable, object, op, index, prune, scan, counts, rotated,
          faults, crashes>>

-----------------------------------------------------------------------------
(* Sizes and items *)

Size(item) == IF item.form = "torn" THEN 1 ELSE 2
FileSize(items) == FoldSeq(LAMBDA i, n : Size(i) + n, 0, items)
Lines(items) == {items[i].n : i \in {j \in 1..Len(items) : items[j].form = "line"}}
Torn(items) == items # <<>> /\ Last(items).form = "torn"
Stamp(n) == scene.stamps[n]
Contents(name) == IF name \in DOMAIN disk THEN disk[name] ELSE <<>>

(* The buffer holds [n, left]: how much of the record is still unwritten.  *)
BufferBytes(b) == FoldSeq(LAMBDA r, n : r.left + n, 0, b)
Buffered(b) == {b[i].n : i \in 1..Len(b)}

(* Bytes that reach a file whose last line is open continue that line.     *)
Put(items, r, some) ==
  IF Torn(items)
  THEN IF Last(items).n = r.n /\ r.left = 1
       THEN Append(Front(items), [n |-> r.n, form |-> "line"])
       ELSE Append(Front(items), [n |-> r.n, form |-> "bad"])
  ELSE Append(items, [n |-> r.n, form |-> IF some = 1 THEN "torn" ELSE "line"])

(* Flush: some of the bytes are written and the rest stays in the buffer.  *)
RECURSIVE FlushTo(_, _, _)
FlushTo(items, b, bytes) ==
  IF bytes = 0 \/ b = <<>> THEN [items |-> items, buf |-> b]
  ELSE IF bytes < Head(b).left
       THEN [items |-> Put(items, Head(b), bytes),
             buf |-> <<[Head(b) EXCEPT !.left = @ - bytes]>> \o Tail(b)]
       ELSE FlushTo(Put(items, Head(b), Head(b).left), Tail(b), bytes - Head(b).left)

(* repairJournalTail *)
RepairJournalTail(items) ==
  IF Torn(items) THEN Append(Front(items), [Last(items) EXCEPT !.form = "bad"])
  ELSE items

(* The index.  An unknown name has size 0.                                 *)
Total == FoldFunction(+, 0, index.size)
Known(name) == name \in DOMAIN index.size
SizeOf(name) == IF Known(name) THEN index.size[name] ELSE 0
With(size, name, n) == [x \in DOMAIN size \cup {name} |-> IF x = name THEN n ELSE size[x]]
Without(f, names) == Restrict(f, DOMAIN f \ names)

-----------------------------------------------------------------------------
(* Writes.  An operation holds its unit's lock from step to step.          *)

Busy(u) == op[u] # Idle

(* file: the unit's object, unless its files are being removed.            *)
BeginWrite(u) ==
  /\ u \in scene.writers /\ ~Busy(u) /\ prune.unit # u /\ next <= scene.records
  /\ object' = [object EXCEPT ![u] =
       IF @.owned THEN @
       ELSE [owned |-> TRUE, open |-> FALSE, buf |-> <<>>, size |-> 0,
             rotating |-> FALSE, step |-> 0, failed |-> FALSE, dead |-> FALSE]]
  /\ op' = [op EXCEPT ![u] = [pc |-> "write", n |-> next]]
  /\ next' = next + 1
  /\ UNCHANGED <<scene, disk, durable, index, prune, scan, accepted, gone, rotated,
                 faults, crashes>>

(* syncAndRetireUnit and the flush timer take the lock as well.            *)
BeginSync(u, pc) ==
  /\ ~Busy(u) /\ object[u].owned
  /\ pc = "timer" => object[u].open /\ object[u].buf # <<>>
  /\ op' = [op EXCEPT ![u] = [pc |-> pc]]
  /\ UNCHANGED <<scene, disk, durable, object, index, prune, scan, counts, rotated,
                 faults, crashes>>

(* What the operation does next: it resumes a rotation, opens the file,    *)
(* retries a failed flush, rotates a full file, and then appends.          *)
Flushing(u) ==
  \/ op[u].pc = "timer"
  \/ op[u].pc \in {"sync", "full"} /\ ~object[u].rotating
  \/ op[u].pc = "write" /\ object[u].open /\ ~object[u].rotating /\ object[u].failed
Shifting(u) == Busy(u) /\ op[u].pc # "timer" /\ object[u].rotating /\ object[u].step >= 0
Opening(u) ==
  \/ Busy(u) /\ op[u].pc # "timer" /\ object[u].rotating /\ object[u].step < 0
  \/ op[u].pc = "write" /\ ~object[u].rotating /\ ~object[u].open
Ready(u) == /\ op[u].pc = "write" /\ object[u].open /\ ~object[u].rotating
            /\ ~object[u].failed
Full(u) == object[u].size > 0 /\ object[u].size + 2 > MaxSize

Fault == faults < scene.faults /\ faults' = faults + 1
Fine == UNCHANGED faults

(* The operation ends with an error; the record it had is dropped.         *)
EndOp(u) == op' = [op EXCEPT ![u] = Idle]

(* A write that comes before retryAt fails at once.                        *)
Backoff(u) ==
  /\ op[u].pc = "write" /\ object[u].open /\ object[u].failed
  /\ EndOp(u)
  /\ UNCHANGED <<scene, disk, durable, object, index, prune, scan, counts, rotated,
                 faults, crashes>>

Rotate(u) ==
  /\ Ready(u) /\ Full(u)
  /\ op' = [op EXCEPT ![u].pc = "full"]
  /\ UNCHANGED <<scene, disk, durable, object, index, prune, scan, counts, rotated,
                 faults, crashes>>

Usable(u) == object[u].open /\ ~object[u].dead

(* reserveDisk: the bytes, and the file when it is a new one.              *)
Fits(u, bytes) ==
  /\ Total + bytes <= MaxDiskSize
  /\ Known(<<u, 0>>) \/ Cardinality(DOMAIN index.size) < MaxDiskFiles

(* A unit that waits for room, and for how much.                           *)
Wants(u) == IF Opening(u) THEN 1 ELSE 2
Reserving(u) == /\ index.ready /\ (Opening(u) \/ (Ready(u) /\ ~Full(u)))
                /\ prune # NoPrune => prune.for # u

(* A write that has its room, and one that must flush the buffer first.    *)
Appending(u) == Reserving(u) /\ Ready(u) /\ Fits(u, 2)
Spills(u) == object[u].buf # <<>> /\ BufferBytes(object[u].buf) + 2 > BufferSize

(* flushLocked: a write may stop short and leave the rest for a retry.     *)
FlushShort(u, bytes) ==
  LET f == FlushTo(disk[<<u, 0>>], object[u].buf, bytes)
  IN  /\ Flushing(u) /\ Usable(u) /\ bytes < BufferBytes(object[u].buf)
      /\ Fault
      /\ disk' = [disk EXCEPT ![<<u, 0>>] = f.items]
      /\ object' = [object EXCEPT ![u].buf = f.buf, ![u].failed = TRUE]
      /\ EndOp(u)
      /\ UNCHANGED <<scene, durable, index, prune, scan, counts, rotated, crashes>>

(* A rotation and a retirement sync what they have flushed.                *)
Synced(u, pc, items) == IF pc \in {"write", "timer"} THEN durable[u] ELSE Len(items)

(* The flush succeeds, and the operation goes on: a write appends, a full  *)
(* file is closed and its rotation begins, a sync retires the file.        *)
FlushAll(u) ==
  LET o == object[u]
      items == IF o.open THEN FlushTo(disk[<<u, 0>>], o.buf, BufferBytes(o.buf)).items
               ELSE Contents(<<u, 0>>)
  IN  /\ Flushing(u) /\ Fine
      /\ o.open /\ o.dead => o.buf = <<>> /\ op[u].pc \in {"write", "timer"}
      /\ disk' = IF o.open THEN [disk EXCEPT ![<<u, 0>>] = items] ELSE disk
      /\ durable' = IF o.open THEN [durable EXCEPT ![u] = Synced(u, op[u].pc, items)]
                    ELSE durable
      /\ \/ /\ op[u].pc = "write"
            /\ object' = [object EXCEPT ![u].buf = <<>>, ![u].failed = FALSE]
            /\ UNCHANGED <<op, rotations>>
         \/ /\ op[u].pc = "full"
            /\ object' = [object EXCEPT ![u] = [@ EXCEPT !.buf = <<>>, !.open = FALSE,
                            !.failed = FALSE, !.rotating = TRUE, !.step = Keep]]
            /\ op' = [op EXCEPT ![u].pc = "write"]
            /\ rotations' = [rotations EXCEPT ![u] = @ + 1]
         \/ /\ op[u].pc = "timer"
            /\ object' = IF o.open THEN [object EXCEPT ![u].buf = <<>>, ![u].failed = FALSE]
                         ELSE object
            /\ EndOp(u) /\ UNCHANGED rotations
         \/ /\ op[u].pc = "sync"
            /\ object' = [object EXCEPT ![u] = NoObject]
            /\ EndOp(u) /\ UNCHANGED rotations
      /\ UNCHANGED <<scene, index, prune, scan, counts, removed, crashes>>

(* The Sync fails after the flush, or it succeeds and the Close fails,     *)
(* which leaves the object with a handle that is closed.                   *)
SyncFails(u, synced) ==
  LET o == object[u]
      f == FlushTo(disk[<<u, 0>>], o.buf, BufferBytes(o.buf))
  IN  /\ Flushing(u) /\ Usable(u) /\ op[u].pc \in {"sync", "full"} /\ Fault
      /\ disk' = [disk EXCEPT ![<<u, 0>>] = f.items]
      /\ durable' = IF synced THEN [durable EXCEPT ![u] = Len(f.items)] ELSE durable
      /\ object' = [object EXCEPT ![u].buf = <<>>, ![u].failed = FALSE, ![u].dead = synced]
      /\ EndOp(u)
      /\ UNCHANGED <<scene, index, prune, scan, counts, rotated, crashes>>

(* Every later flush of bytes, Sync and spill on that handle fails.        *)
DeadHandle(u) ==
  /\ object[u].open /\ object[u].dead
  /\ \/ Flushing(u) /\ (object[u].buf # <<>> \/ op[u].pc \in {"sync", "full"})
     \/ Appending(u) /\ Spills(u)
  /\ object' = [object EXCEPT ![u].failed = object[u].buf # <<>>]
  /\ EndOp(u)
  /\ UNCHANGED <<scene, disk, durable, index, prune, scan, counts, rotated, faults, crashes>>

(* rotateLocked, one step of it: Keep removes the oldest archive, a lower  *)
(* step moves a file up.                                                   *)
Moved(f, from, to) ==
  IF from \in DOMAIN f
  THEN [x \in (DOMAIN f \cup {to}) \ {from} |-> IF x = to THEN f[from] ELSE f[x]]
  ELSE f

Shift(u) ==
  LET i == object[u].step
      from == <<u, i>>
      to == <<u, i + 1>>
  IN  /\ Shifting(u) /\ Fine
      /\ IF i = Keep
         THEN /\ disk' = Without(disk, {from})
              /\ gone' = gone \cup Lines(Contents(from))
              /\ removed' = [removed EXCEPT ![u] = @ + (IF from \in DOMAIN disk THEN 1 ELSE 0)]
              /\ index' = [index EXCEPT !.size = Without(@, {from})]
         ELSE /\ disk' = Moved(disk, from, to)
              /\ index' = [index EXCEPT !.size = IF from \in DOMAIN disk THEN Moved(@, from, to)
                                                 ELSE Without(@, {from})]
              /\ UNCHANGED <<gone, removed>>
      /\ object' = [object EXCEPT ![u].step = i - 1]
      /\ durable' = IF i = 0 THEN [durable EXCEPT ![u] = 0] ELSE durable
      /\ UNCHANGED <<scene, op, prune, scan, next, accepted, rotations, crashes>>

(* Mutant: a retried rotation shifts the archives again.                   *)
StepAfterFailure(u) == Keep

(* A failed step is the one the next attempt resumes.                      *)
ResumeStep(u) == object[u].step

ShiftFails(u) ==
  /\ Shifting(u) /\ Fault
  /\ object' = [object EXCEPT ![u].step = ResumeStep(u)]
  /\ EndOp(u)
  /\ UNCHANGED <<scene, disk, durable, index, prune, scan, counts, rotated, crashes>>

-----------------------------------------------------------------------------
(* The disk quota *)

(* initializeDisk and scanDisk: the first reservation indexes the files.   *)
IndexDisk ==
  /\ ~index.ready /\ \E u \in Units : Opening(u)
  /\ index' = [ready |-> TRUE, size |-> [name \in DOMAIN disk |-> FileSize(disk[name])]]
  /\ UNCHANGED <<scene, disk, durable, object, op, prune, scan, counts, rotated,
                 faults, crashes>>

(* openLocked: the reservation of a byte, the file, the repair of its tail *)
(* and its observed size.                                                  *)
OpenFile(u) ==
  LET name == <<u, 0>>
      items == RepairJournalTail(Contents(name))
  IN  /\ Reserving(u) /\ Opening(u) /\ Fits(u, 1) /\ Fine
      /\ disk' = [x \in DOMAIN disk \cup {name} |-> IF x = name THEN items ELSE disk[x]]
      /\ index' = [index EXCEPT !.size = With(@, name, FileSize(items))]
      /\ object' = [object EXCEPT ![u] = [@ EXCEPT !.open = TRUE, !.buf = <<>>,
                      !.size = FileSize(items), !.rotating = FALSE]]
      /\ UNCHANGED <<scene, durable, op, prune, scan, counts, rotated, crashes>>

(* openJournalFile fails and the byte is released, or the repair fails and *)
(* it is not.                                                              *)
OpenFails(u, repair) ==
  LET name == <<u, 0>>
  IN  /\ Reserving(u) /\ Opening(u) /\ Fits(u, 1) /\ Fault
      /\ index' = [index EXCEPT !.size = With(@, name, SizeOf(name) + (IF repair THEN 1 ELSE 0))]
      /\ disk' = IF repair /\ name \notin DOMAIN disk
                 THEN [x \in DOMAIN disk \cup {name} |-> IF x = name THEN <<>> ELSE disk[x]]
                 ELSE disk
      /\ EndOp(u)
      /\ UNCHANGED <<scene, durable, object, prune, scan, counts, rotated, crashes>>

(* The reserved bytes go to the buffer, which is flushed first when full.  *)
AppendRecord(u) ==
  LET o == object[u]
      name == <<u, 0>>
      spill == Spills(u)
      f == FlushTo(disk[name], o.buf, BufferBytes(o.buf))
  IN  /\ Appending(u) /\ (o.dead => ~spill) /\ Fine
      /\ index' = [index EXCEPT !.size = With(@, name, SizeOf(name) + 2)]
      /\ disk' = IF spill THEN [disk EXCEPT ![name] = f.items] ELSE disk
      /\ object' = [object EXCEPT ![u].size = @ + 2,
                      ![u].buf = Append(IF spill THEN <<>> ELSE @, [n |-> op[u].n, left |-> 2])]
      /\ accepted' = accepted \cup {op[u].n}
      /\ EndOp(u)
      /\ UNCHANGED <<scene, durable, prune, scan, next, gone, rotated, crashes>>

(* That flush stops short: the reservation is released, the record is not  *)
(* taken, and the buffer keeps what it had.                                *)
SpillFails(u, bytes) ==
  LET o == object[u]
      f == FlushTo(disk[<<u, 0>>], o.buf, bytes)
  IN  /\ Appending(u) /\ Usable(u) /\ Spills(u) /\ bytes < BufferBytes(o.buf) /\ Fault
      /\ disk' = [disk EXCEPT ![<<u, 0>>] = f.items]
      /\ object' = [object EXCEPT ![u].buf = f.buf, ![u].failed = TRUE]
      /\ EndOp(u)
      /\ UNCHANGED <<scene, durable, index, prune, scan, counts, rotated, crashes>>

(* pruneHistoricalDisk: units that nobody has open.  The age by which the  *)
(* code picks one is left out.                                             *)
Historical(u, v) ==
  v # u /\ ~object[v].owned /\ \E name \in DOMAIN index.size : name[1] = v

BeginPrune(u, v) ==
  /\ Reserving(u) /\ ~Fits(u, Wants(u)) /\ prune = NoPrune /\ Historical(u, v)
  /\ prune' = [unit |-> v, for |-> u, names |-> {x \in DOMAIN index.size : x[1] = v}]
  /\ UNCHANGED <<scene, disk, durable, object, op, index, scan, counts, rotated,
                 faults, crashes>>

PruneOne(name) ==
  /\ prune # NoPrune /\ name \in prune.names
  /\ \A x \in prune.names : name[2] <= x[2]
  /\ disk' = Without(disk, {name})
  /\ index' = [index EXCEPT !.size = Without(@, {name})]
  /\ gone' = gone \cup Lines(Contents(name))
  /\ prune' = IF prune.names = {name} THEN NoPrune
              ELSE [prune EXCEPT !.names = @ \ {name}]
  /\ durable' = IF name[2] = 0 THEN [durable EXCEPT ![name[1]] = 0] ELSE durable
  /\ UNCHANGED <<scene, object, op, scan, next, accepted, rotated, faults, crashes>>

(* A removal fails; the write that wanted the room fails with it.          *)
PruneFails ==
  /\ prune # NoPrune /\ Fault
  /\ prune' = NoPrune
  /\ EndOp(prune.for)
  /\ UNCHANGED <<scene, disk, durable, object, index, scan, counts, rotated, crashes>>

(* Mutant: a write waits until there is room.                              *)
NoRoomWaits(u) ==
  /\ Reserving(u) /\ ~Fits(u, Wants(u))
  /\ prune # NoPrune /\ prune.for # u
  /\ EndOp(u)
  /\ UNCHANGED <<scene, disk, durable, object, index, prune, scan, counts, rotated,
                 faults, crashes>>

(* errDiskCapacity, or errRetentionBusy: another unit holds the gate.      *)
NoRoom(u) ==
  /\ Reserving(u) /\ ~Fits(u, Wants(u))
  /\ IF prune = NoPrune THEN \A v \in Units : ~Historical(u, v) ELSE prune.for # u
  /\ EndOp(u)
  /\ UNCHANGED <<scene, disk, durable, object, index, prune, scan, counts, rotated,
                 faults, crashes>>

-----------------------------------------------------------------------------
(* Crashes.  Files stay; the buffers, the index and the rotation go.  When *)
(* the power fails, a current file may lose what was not synced.           *)
Crash(u, power, k) ==
  /\ crashes < scene.crashes
  /\ k >= durable[u] /\ (~power => k = Len(Contents(<<u, 0>>)))
  /\ crashes' = crashes + 1
  /\ disk' = IF <<u, 0>> \in DOMAIN disk
             THEN [disk EXCEPT ![<<u, 0>>] = SubSeq(@, 1, k)] ELSE disk
  /\ gone' = gone \cup UNION {Buffered(object[v].buf) : v \in {x \in Units : object[x].owned}}
                  \cup {Contents(<<u, 0>>)[i].n : i \in (k + 1)..Len(Contents(<<u, 0>>))}
  /\ object' = [v \in Units |-> NoObject] /\ op' = [v \in Units |-> Idle]
  /\ index' = [ready |-> FALSE, size |-> [name \in {} |-> 0]]
  /\ prune' = NoPrune
  /\ scan' = [scan EXCEPT !.pc = "idle"]
  /\ UNCHANGED <<scene, durable, next, accepted, rotated, faults>>

-----------------------------------------------------------------------------
(* queryPage and scan: a follower passes its cursor back.  The lock is     *)
(* held for a flush only; the paths are then opened one by one.            *)

BeginQuery(u) ==
  /\ scan.pc = "idle" /\ u = scan.unit /\ ~Busy(u) /\ scan.queries < scene.readers
  /\ op' = IF object[u].owned THEN [op EXCEPT ![u] = [pc |-> "timer"]] ELSE op
  /\ scan' = [scan EXCEPT !.pc = "flush", !.queries = @ + 1]
  /\ UNCHANGED <<scene, disk, durable, object, index, prune, counts, rotated,
                 faults, crashes>>

BeginScan ==
  /\ scan.pc = "flush" /\ op[scan.unit].pc # "timer"
  /\ scan' = [scan EXCEPT !.pc = "scan", !.path = Keep, !.past = (scan.cursor = 0),
                          !.upset = FALSE]
  /\ UNCHANGED <<scene, disk, durable, object, op, index, prune, counts, rotated,
                 faults, crashes>>

(* peekLastTimestamp: a last line that does not decode skips nothing.      *)
LastBefore(items, cursor) ==
  items # <<>> /\ Last(items).form = "line" /\ Stamp(Last(items).n) < Stamp(cursor)

(* The line that opens the rest of the scan: the cursor's own, found by    *)
(* its id, or in an archive one with a later stamp.                        *)
Passes(archive, n, cursor) == n = cursor \/ (archive /\ Stamp(n) > Stamp(cursor))

FirstAfter(lines, from, cursor) == IF lines[from].n = cursor THEN from + 1 ELSE from

(* The lines of a file the scan returns.                                   *)
After(items, archive, past, cursor) ==
  LET lines == SelectSeq(items, LAMBDA x : x.form = "line")
      first == {i \in 1..Len(lines) : Passes(archive, lines[i].n, cursor)}
  IN  IF past THEN [past |-> TRUE, out |-> [i \in 1..Len(lines) |-> lines[i].n]]
      ELSE IF first = {} THEN [past |-> FALSE, out |-> <<>>]
      ELSE LET from == Min(first)
               rest == SubSeq(lines, FirstAfter(lines, from, cursor), Len(lines))
           IN  [past |-> TRUE, out |-> [i \in 1..Len(rest) |-> rest[i].n]]

(* An archive with a record older than the cursor's and a later stamp.     *)
Upset(items, cursor) ==
  cursor > 0 /\ \E n \in Lines(items) : n < cursor /\ Stamp(n) > Stamp(cursor)

ReadPath ==
  LET i == scan.path
      items == Contents(<<scan.unit, i>>)
      skip == i > 0 /\ scan.cursor > 0 /\ LastBefore(items, scan.cursor)
      got == After(items, i > 0, scan.past, scan.cursor)
  IN  /\ scan.pc = "scan"
      /\ scan' = [scan EXCEPT
           !.out = IF skip THEN @ ELSE @ \o got.out,
           !.past = @ \/ (~skip /\ got.past),
           !.upset = @ \/ (i > 0 /\ Upset(items, scan.cursor)),
           !.path = i - 1,
           !.pc = IF i = 0 THEN "answer" ELSE @]
      /\ UNCHANGED <<scene, disk, durable, object, op, index, prune, counts, rotated,
                     faults, crashes>>

(* The page ends at its budget, after the last entry that fits.            *)
Page(some) ==
  /\ scan.pc = "answer" /\ some <= Len(scan.out) /\ (scan.out # <<>> => some > 0)
  /\ scan' = [scan EXCEPT !.pc = "idle", !.out = <<>>,
                !.delivered = @ \o SubSeq(scan.out, 1, some),
                !.cursor = IF some = 0 THEN @ ELSE scan.out[some]]
  /\ UNCHANGED <<scene, disk, durable, object, op, index, prune, counts, rotated,
                 faults, crashes>>

-----------------------------------------------------------------------------
Init ==
  /\ scene \in Scenarios
  /\ disk = scene.disk
  /\ durable = [u \in Units |-> Len(Contents(<<u, 0>>))]
  /\ object = [u \in Units |-> NoObject] /\ op = [u \in Units |-> Idle]
  /\ index = [ready |-> FALSE, size |-> [name \in {} |-> 0]]
  /\ prune = NoPrune
  /\ scan = [pc |-> "idle", unit |-> scene.follow, cursor |-> 0, path |-> 0, past |-> FALSE,
             upset |-> FALSE, out |-> <<>>, delivered |-> <<>>, queries |-> 0]
  /\ next = scene.first /\ accepted = UNION {Lines(disk[x]) : x \in DOMAIN disk} /\ gone = {}
  /\ rotations = [u \in Units |-> 0] /\ removed = [u \in Units |-> 0]
  /\ faults = 0 /\ crashes = 0

Step(u) ==
  \/ FlushAll(u) \/ DeadHandle(u) \/ Rotate(u) \/ Shift(u) \/ OpenFile(u) \/ AppendRecord(u)
  \/ NoRoom(u) \/ \E v \in Units : BeginPrune(u, v)

Next ==
  \/ \E u \in Units :
       \/ BeginWrite(u) \/ \E pc \in {"sync", "timer"} : BeginSync(u, pc)
       \/ Step(u) \/ Backoff(u)
       \/ ShiftFails(u) \/ \E synced \in BOOLEAN : SyncFails(u, synced)
       \/ \E bytes \in 0..BufferSize : FlushShort(u, bytes) \/ SpillFails(u, bytes)
       \/ \E repair \in BOOLEAN : OpenFails(u, repair)
       \/ \E power \in BOOLEAN, k \in 0..Len(Contents(<<u, 0>>)) : Crash(u, power, k)
       \/ BeginQuery(u)
  \/ IndexDisk \/ PruneFails \/ \E name \in Names : PruneOne(name)
  \/ BeginScan \/ ReadPath \/ \E some \in 0..Len(scan.out) : Page(some)

Spec == Init /\ [][Next]_vars

-----------------------------------------------------------------------------
(* Properties *)

OnDisk(u) == UNION {Lines(Contents(<<u, i>>)) : i \in 0..Keep}
InBuffer(u) == IF object[u].owned THEN Buffered(object[u].buf) ELSE {}

(* A record whose write succeeded is in the buffer, readable on disk, or   *)
(* was evicted, or lost with the process: short writes, retries of a flush *)
(* or of a rotation, and a torn tail left by a crash do not lose one.      *)
AcceptedReadable ==
  accepted \subseteq UNION {OnDisk(u) \cup InBuffer(u) : u \in Units} \cup gone

(* The index never counts less than a file holds and its buffer will add,  *)
(* so flushes that come later cannot take the journal over its quota.      *)
QuotaKept ==
  LET real(name) == FileSize(Contents(name)) +
                      (IF name[2] = 0 /\ object[name[1]].owned
                       THEN BufferBytes(object[name[1]].buf) ELSE 0)
  IN  /\ index.ready => \A name \in Names : real(name) <= SizeOf(name)
      /\ SumFunction([name \in Names |-> real(name)]) <= MaxDiskSize
      /\ Cardinality(DOMAIN disk) <= MaxDiskFiles

(* Retries of a failing rotation do not eat the archives: a unit loses one *)
(* generation at most for each time its current file was full.             *)
OneGenerationPerRotation == \A u \in Units : removed[u] <= rotations[u] + crashes

(* What a rotation or a retirement has put aside is synced: no failure of  *)
(* the power takes a record out of an archive, or out of the file of a     *)
(* unit that has been retired.                                             *)
PutAsideIsDurable ==
  \A u \in Units :
    /\ ~object[u].owned /\ crashes = 0 => durable[u] = Len(Contents(<<u, 0>>))
    /\ object[u].owned /\ object[u].rotating /\ object[u].step = 0
         => durable[u] = Len(Contents(<<u, 0>>))

(* A unit's files are removed only while nobody has the unit open.         *)
PruneExcludesOwners == prune # NoPrune => ~object[prune.unit].owned

(* A page holds only entries written after the cursor's, and in the order  *)
(* they were written, whatever is written, rotated or evicted between and  *)
(* during the queries and although stamps do not rise with the writes,     *)
(* unless an archive has an older entry with a later stamp than the        *)
(* cursor's.                                                               *)
PagesInOrder ==
  ~scan.upset => \A i \in 1..Len(scan.out) :
    /\ scan.out[i] > scan.cursor
    /\ \A j \in 1..(i - 1) : scan.out[j] < scan.out[i]

(* A query skips through its cursor: the follower is not given again an    *)
(* entry up to the cursor's (the comment of Store.Query).                  *)
SkipsThroughCursor == \A i \in 1..Len(scan.out) : scan.out[i] > scan.cursor

(* A follower's cursor does not pass over an entry it has not been given   *)
(* and that is still in the journal.                                       *)
CursorSkipsNothing ==
  \A n \in OnDisk(scan.unit) : n <= scan.cursor => n \in ToSet(scan.delivered)

Fairness == /\ WF_vars(IndexDisk) /\ WF_vars(\E name \in Names : PruneOne(name))
            /\ \A u \in Units : WF_vars(Step(u))
FairSpec == Spec /\ Fairness

(* Every write and sync comes to an end: no failed rotation step, repair   *)
(* or removal leaves a unit's lock taken or its writer in a loop.          *)
OperationsEnd == \A u \in Units : []<>~Busy(u)
=============================================================================
