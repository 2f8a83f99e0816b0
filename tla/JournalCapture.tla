--------------------------- MODULE JournalCapture ---------------------------
(***************************************************************************)
(* The capture path of internal/journal: streams of an invocation are cut  *)
(* into records and queued (fair_queue.go), one writer appends them to the *)
(* unit's file (store.go), and a wait joins the capture and a shared sync  *)
(* (queue.go, concurrent_capture.go), which also retires the file          *)
(* (retention.go).  Handlers that hold queueMu or a file's lock are atomic *)
(* actions.                                                                *)
(*                                                                         *)
(* A record is [n, size]; the numbers of an invocation count up.  The two  *)
(* streams of an invocation are one source, since nothing tells the        *)
(* records of one from those of the other.  Rotation and the disk quota    *)
(* are in JournalFile: here a write or a sync just may fail.               *)
(***************************************************************************)
EXTENDS Integers, Sequences, FiniteSets, FiniteSetsExt, SequencesExt

CONSTANTS
  Captures,      \* the invocations
  UnitOf,        \* the unit of each
  Sizes,         \* lengths of messages
  QueueRecords, InvocationRecords,   \* captureQueueRecords, invocationQueueRecords
  QueueBytes, InvocationBytes,       \* captureQueueBytes, invocationQueueBytes
  QueueGroups,   \* maxQueuedCaptureGroups
  SyncSlots,     \* the capacity of syncSlots
  Scenarios      \* [main, records, waits, faults]: the invocations Attach captures
                 \* (AttachConcurrent the rest), and bounds: the records of each,
                 \* those waited for, and failing writes, syncs and waits

Units == {UnitOf[g] : g \in Captures}
NoCapture == "none"
NoWork == [pc |-> "none"]
NoSync == [pc |-> "none"]

VARIABLES
  scene,
  stream,    \* where each invocation's capture is
  previous,  \* Attach: the capture it waits for
  main,      \* Store.mainCaptures
  offered,   \* how many records its streams were cut into
  queue,     \* capturePending.items
  order,     \* Store.captureOrder
  work,      \* the record the writer has taken out
  dropped,   \* the records counted as dropped
  stored,    \* the records in each unit's file, in order
  synced,    \* how many of them Sync has covered
  file,      \* Store.files: the number of the open file object, 0 if none
  objects,   \* how many file objects there have been
  writes,    \* Store.writeSequence
  syncs,     \* Store.syncPending
  waiter,    \* a WaitContext call for each capture
  closing,   \* Store.queueClosed
  writer,    \* writeCaptures: "run" or "done"
  faults

queues == <<queue, order, dropped>>
files == <<stored, synced, file, objects, writes>>
vars == <<scene, stream, previous, main, offered, queues, work, files, syncs, waiter,
          closing, writer, faults>>

-----------------------------------------------------------------------------
Bytes(q) == FoldSeq(LAMBDA r, n : r.size + n, 0, q)
Pending(g) == Len(queue[g])
InFlight(g) == IF work # NoWork /\ work.group = g THEN <<[n |-> work.n, size |-> work.size]>>
               ELSE <<>>

(* captureGroup: what is queued and what the writer holds.                 *)
GroupRecords(g, q) == Len(q[g]) + Len(InFlight(g))
GroupBytes(g, q) == Bytes(q[g]) + Bytes(InFlight(g))
Total(op(_, _), q) == FoldSet(LAMBDA g, n : op(g, q) + n, 0, Captures)
QueuedRecords(q) == Total(GroupRecords, q)
QueuedBytes(q) == Total(GroupBytes, q)

(* Capture.Complete: the streams have ended and no record is queued.       *)
Complete(g) == stream[g] = "ended" /\ GroupRecords(g, queue) = 0

(* Mutant: a victim may lose its last pending record.                      *)
VictimsAny(g, size, q) ==
  {v \in Captures \ {g} : /\ Len(q[v]) > 0
     /\ IF QueuedBytes(q) + size > QueueBytes
        THEN Bytes(q[v]) > GroupBytes(g, q) + size
        ELSE Len(q[v]) > GroupRecords(g, q)}

(* The queues a record of g may displace: larger than what g would have.   *)
Victims(g, size, q) ==
  {v \in Captures \ {g} : /\ Len(q[v]) > 1
     /\ IF QueuedBytes(q) + size > QueueBytes
        THEN Bytes(q[v]) > GroupBytes(g, q) + size
        ELSE Len(q[v]) > GroupRecords(g, q) + 1}

Largest(V, size, q) ==
  {v \in V : \A w \in V : IF QueuedBytes(q) + size > QueueBytes
                          THEN Bytes(q[v]) >= Bytes(q[w])
                          ELSE Len(q[v]) >= Len(q[w])}

(* makeCaptureRoomLocked: the newest record of a largest queue goes, until *)
(* there is room or no victim.  Every outcome the map's order allows.      *)
RECURSIVE MakeRoom(_, _, _, _)
MakeRoom(g, size, q, lost) ==
  IF QueuedBytes(q) + size <= QueueBytes /\ QueuedRecords(q) < QueueRecords
  THEN {[ok |-> TRUE, q |-> q, lost |-> lost]}
  ELSE LET V == Victims(g, size, q)
       IN  IF V = {} THEN {[ok |-> FALSE, q |-> q, lost |-> lost]}
           ELSE UNION {MakeRoom(g, size, [q EXCEPT ![v] = Front(@)],
                                lost \cup {<<v, Last(q[v]).n>>}) :
                         v \in Largest(V, size, q)}

(* countDropLocked, for displaced records and for the record itself.       *)
Counts(lost, own) == dropped \cup lost \cup own

(* enqueue *)
Enqueue(g, size) ==
  LET n == offered[g] + 1
      full == \/ closing \/ GroupBytes(g, queue) + size > InvocationBytes
              \/ GroupRecords(g, queue) >= InvocationRecords
              \/ Pending(g) = 0 /\ Len(order) >= QueueGroups
  IN  /\ stream[g] = "reading" /\ n <= scene.records[g]
      /\ offered' = [offered EXCEPT ![g] = n]
      /\ \/ /\ full
            /\ dropped' = Counts({}, {<<g, n>>})
            /\ UNCHANGED <<queue, order>>
         \/ /\ ~full
            /\ \E room \in MakeRoom(g, size, queue, {}) :
                 IF room.ok
                 THEN /\ queue' = [room.q EXCEPT ![g] = Append(@, [n |-> n, size |-> size])]
                      /\ order' = IF Pending(g) = 0 THEN Append(order, g) ELSE order
                      /\ dropped' = Counts(room.lost, {})
                 ELSE /\ queue' = room.q
                      /\ order' = order
                      /\ dropped' = Counts(room.lost, {<<g, n>>})
      /\ UNCHANGED <<scene, stream, previous, main, work, files, syncs, waiter,
                     closing, writer, faults>>

-----------------------------------------------------------------------------
(* Captures *)

(* Attach reserves the unit before it waits for the capture before it.     *)
Attach(g) ==
  LET u == UnitOf[g]
  IN  /\ stream[g] = "none" /\ scene.records[g] > 0
      /\ IF g \in scene.main
         THEN /\ previous' = [previous EXCEPT ![g] = main[u]]
              /\ main' = [main EXCEPT ![u] = g]
              /\ stream' = [stream EXCEPT ![g] = "chained"]
         ELSE /\ stream' = [stream EXCEPT ![g] = "reading"]
              /\ UNCHANGED <<previous, main>>
      /\ UNCHANGED <<scene, offered, queues, work, files, syncs, waiter, closing, writer, faults>>

ChainDone(g) == previous[g] # NoCapture => Complete(previous[g])

Begin(g) ==
  /\ stream[g] = "chained" /\ ChainDone(g)
  /\ stream' = [stream EXCEPT ![g] = "reading"]
  /\ UNCHANGED <<scene, offered, previous, main, queues, work, files, syncs, waiter, closing,
                 writer, faults>>

(* The process has closed its pipes.                                       *)
EndOfStreams(g) ==
  /\ stream[g] = "reading"
  /\ stream' = [stream EXCEPT ![g] = "ended"]
  /\ UNCHANGED <<scene, offered, previous, main, queues, work, files, syncs, waiter, closing,
                 writer, faults>>

(* The goroutine that waits for the group forgets a finished main capture. *)
Forget(g) ==
  /\ Complete(g) /\ main[UnitOf[g]] = g
  /\ main' = [main EXCEPT ![UnitOf[g]] = NoCapture]
  /\ UNCHANGED <<scene, offered, stream, previous, queues, work, files, syncs, waiter, closing,
                 writer, faults>>

-----------------------------------------------------------------------------
(* The writer *)

(* An invocation that has more goes to the end of the order.               *)
Rotated(g) == IF Pending(g) = 1 THEN Tail(order) ELSE Append(Tail(order), g)

(* nextCapture: the oldest record of the queue whose turn it is.           *)
TakeNext ==
  LET g == Head(order)
      r == Head(queue[g])
  IN  /\ writer = "run" /\ work = NoWork /\ order # <<>>
      /\ work' = [pc |-> "taken", group |-> g, n |-> r.n, size |-> r.size, object |-> 0]
      /\ queue' = [queue EXCEPT ![g] = Tail(@)]
      /\ order' = Rotated(g)
      /\ UNCHANGED <<scene, offered, stream, previous, main, dropped, files, syncs, waiter,
                     closing, writer, faults>>

(* append finds the unit's file object, or makes one.                      *)
Choose ==
  LET u == UnitOf[work.group]
  IN  /\ work.pc = "taken"
      /\ objects' = IF file[u] = 0 THEN objects + 1 ELSE objects
      /\ file' = IF file[u] = 0 THEN [file EXCEPT ![u] = objects + 1] ELSE file
      /\ work' = [work EXCEPT !.pc = "chosen",
                              !.object = IF file[u] = 0 THEN objects + 1 ELSE file[u]]
      /\ UNCHANGED <<scene, offered, stream, previous, main, queues, stored, synced, writes,
                     syncs, waiter, closing, writer, faults>>

Retired == file[UnitOf[work.group]] # work.object

(* write: a retired object sends the writer back to choose again.          *)
Write(ok) ==
  LET u == UnitOf[work.group]
  IN  /\ work.pc = "chosen"
      /\ \/ /\ Retired /\ ok
            /\ work' = [work EXCEPT !.pc = "taken"]
            /\ UNCHANGED <<stored, writes, faults>>
         \/ /\ ~Retired /\ ok
            /\ stored' = [stored EXCEPT ![u] = Append(@, <<work.group, work.n>>)]
            /\ writes' = writes + 1
            /\ work' = [work EXCEPT !.pc = "stored"]
            /\ UNCHANGED faults
         \/ /\ ~Retired /\ ~ok /\ faults < scene.faults
            /\ faults' = faults + 1
            /\ work' = [work EXCEPT !.pc = "failed"]
            /\ UNCHANGED <<stored, writes>>
      /\ UNCHANGED <<scene, offered, stream, previous, main, queues, synced, file, objects,
                     syncs, waiter, closing, writer>>

(* Under queueMu again: a record that was not written is counted, and the  *)
(* group is given back the room (releaseCaptureLocked).                    *)
Release ==
  /\ work.pc \in {"stored", "failed"}
  /\ work' = NoWork
  /\ dropped' = IF work.pc = "failed" THEN Counts({}, {<<work.group, work.n>>}) ELSE dropped
  /\ UNCHANGED <<scene, offered, stream, previous, main, queue, order, files, syncs, waiter,
                 closing, writer, faults>>

(* CloseContext, and the writer's end: closeFiles syncs what is open and   *)
(* counts what it could not.                                               *)
Close ==
  /\ ~closing
  /\ closing' = TRUE
  /\ UNCHANGED <<scene, offered, stream, previous, main, queues, work, files, syncs, waiter, writer, faults>>

CloseFiles ==
  /\ writer = "run" /\ closing /\ order = <<>> /\ work = NoWork
  /\ synced' = [u \in Units |-> Len(stored[u])]
  /\ writer' = "done"
  /\ UNCHANGED <<scene, offered, stream, previous, main, queues, work, stored, file, objects,
                 writes, syncs, waiter, closing, faults>>

(* The last flush or sync of a unit fails: CloseContext returns the error, *)
(* and pendingLoss counts the records that were still in the buffer.       *)
CloseFails(u, kept) ==
  /\ writer = "run" /\ closing /\ order = <<>> /\ work = NoWork
  /\ kept >= synced[u] /\ faults < scene.faults
  /\ faults' = faults + 1
  /\ dropped' = dropped \cup {stored[u][i] : i \in (kept + 1)..Len(stored[u])}
  /\ stored' = [stored EXCEPT ![u] = SubSeq(@, 1, kept)]
  /\ synced' = [v \in Units |-> IF v = u THEN synced[u] ELSE Len(stored[v])]
  /\ writer' = "failed"
  /\ UNCHANGED <<scene, offered, stream, previous, main, queue, order, work, file, objects,
                 writes, syncs, waiter, closing>>

-----------------------------------------------------------------------------
(* Waits and shared syncs *)

(* WaitContext, once the capture is complete: syncUnitContext notes how    *)
(* much has been written.                                                  *)
Wait(g) ==
  /\ waiter[g].pc = "idle" /\ Complete(g) /\ g \in scene.waits
  /\ waiter' = [waiter EXCEPT ![g] = [pc |-> "join", wanted |-> writes]]
  /\ UNCHANGED <<scene, offered, stream, previous, main, queues, work, files, syncs, closing,
                 writer, faults>>

Syncing == {u \in Units : syncs[u] # NoSync}

(* It joins the sync of the unit that is pending, or starts one.           *)
Join(g) ==
  LET u == UnitOf[g]
  IN  /\ waiter[g].pc = "join"
      /\ \/ syncs[u] # NoSync /\ UNCHANGED syncs
         \/ /\ syncs[u] = NoSync /\ Cardinality(Syncing) < SyncSlots
            /\ syncs' = [syncs EXCEPT ![u] = [pc |-> "start", generation |-> writes]]
      /\ waiter' = [waiter EXCEPT ![g].pc = "wait"]
      /\ UNCHANGED <<scene, offered, stream, previous, main, queues, work, files, closing, writer, faults>>

(* syncAndRetireUnit, under the file's lock.                               *)
Sync(u, ok) ==
  /\ syncs[u].pc = "start"
  /\ ok \/ faults < scene.faults
  /\ \/ /\ file[u] = 0 \/ writer # "run"
        /\ ok
        /\ syncs' = [syncs EXCEPT ![u] = [pc |-> "done", generation |-> @.generation, ok |-> TRUE]]
        /\ UNCHANGED <<synced, file, faults>>
     \/ /\ file[u] # 0 /\ writer = "run"
        /\ faults' = IF ok THEN faults ELSE faults + 1
        /\ synced' = IF ok THEN [synced EXCEPT ![u] = Len(stored[u])] ELSE synced
        /\ file' = IF ok THEN [file EXCEPT ![u] = 0] ELSE file
        /\ syncs' = [syncs EXCEPT ![u] = [pc |-> "done", generation |-> @.generation, ok |-> ok]]
  /\ UNCHANGED <<scene, offered, stream, previous, main, queues, work, stored, objects, writes,
                 waiter, closing, writer>>

(* The sync's channel is closed.                                           *)
Publish(u) ==
  /\ syncs[u].pc = "done"
  /\ syncs' = [syncs EXCEPT ![u] = NoSync]
  /\ waiter' = [g \in Captures |->
       IF UnitOf[g] # u \/ waiter[g].pc # "wait" THEN waiter[g]
       ELSE [pc |-> "woken", wanted |-> waiter[g].wanted,
             generation |-> syncs[u].generation, ok |-> syncs[u].ok]]
  /\ UNCHANGED <<scene, offered, stream, previous, main, queues, work, files, closing, writer, faults>>

Covers(g) == waiter[g].generation >= waiter[g].wanted \/ file[UnitOf[g]] = 0

(* Those who joined read its error, and look for another sync if it began  *)
(* before their records were written.                                      *)
Answer(g) ==
  /\ waiter[g].pc = "woken"
  /\ waiter' = [waiter EXCEPT ![g] = IF ~@.ok THEN [pc |-> "failed"]
                                     ELSE IF Covers(g) THEN [pc |-> "flushed"]
                                     ELSE [pc |-> "join", wanted |-> @.wanted]]
  /\ UNCHANGED <<scene, offered, stream, previous, main, queues, work, files, syncs, closing, writer, faults>>

(* The caller's context ends; the sync it joined stays with the store.     *)
Expire(g) ==
  /\ waiter[g].pc \in {"join", "wait"} /\ faults < scene.faults
  /\ faults' = faults + 1
  /\ waiter' = [waiter EXCEPT ![g] = [pc |-> "failed"]]
  /\ UNCHANGED <<scene, offered, stream, previous, main, queues, work, files, syncs, closing, writer>>

(* A caller that got no success may wait again.                            *)
WaitAgain(g) ==
  /\ waiter[g].pc = "failed"
  /\ waiter' = [waiter EXCEPT ![g] = [pc |-> "idle"]]
  /\ UNCHANGED <<scene, offered, stream, previous, main, queues, work, files, syncs, closing, writer, faults>>

-----------------------------------------------------------------------------
Init ==
  /\ scene \in Scenarios
  /\ stream = [g \in Captures |-> "none"]
  /\ previous = [g \in Captures |-> NoCapture]
  /\ main = [u \in Units |-> NoCapture]
  /\ queue = [g \in Captures |-> <<>>] /\ offered = [g \in Captures |-> 0] /\ order = <<>>
  /\ work = NoWork /\ dropped = {}
  /\ stored = [u \in Units |-> <<>>] /\ synced = [u \in Units |-> 0]
  /\ file = [u \in Units |-> 0] /\ objects = 0 /\ writes = 0
  /\ syncs = [u \in Units |-> NoSync]
  /\ waiter = [g \in Captures |-> [pc |-> "idle"]]
  /\ closing = FALSE /\ writer = "run" /\ faults = 0

Next ==
  \/ \E g \in Captures :
       \/ Attach(g) \/ Begin(g) \/ EndOfStreams(g) \/ Forget(g)
       \/ \E size \in Sizes : Enqueue(g, size)
       \/ Wait(g) \/ Join(g) \/ Answer(g) \/ Expire(g) \/ WaitAgain(g)
  \/ TakeNext \/ Choose \/ (\E ok \in BOOLEAN : Write(ok)) \/ Release
  \/ Close \/ CloseFiles
  \/ \E u \in Units : \E kept \in 0..Len(stored[u]) : CloseFails(u, kept)
  \/ \E u \in Units : Publish(u) \/ \E ok \in BOOLEAN : Sync(u, ok)

Spec == Init /\ [][Next]_vars

(* The writer, the chain of captures and the syncs go on; processes end.   *)
Progress ==
  \/ TakeNext \/ Choose \/ Write(TRUE) \/ Release \/ CloseFiles
  \/ \E g \in Captures : Begin(g) \/ EndOfStreams(g)

FairSpec == Spec /\ WF_vars(Progress)

-----------------------------------------------------------------------------
(* Properties *)

Records(g) == ToSet(stored[UnitOf[g]])
Durable(u) == {stored[u][i] : i \in 1..synced[u]}

(* A record the reader has cut off is queued, with the writer, in the file *)
(* or counted as dropped, and in one of them only: nothing is lost without *)
(* a count, and the counters of captureGroup agree with the queues.        *)
Accounted ==
  \A g \in Captures :
    LET at(n) == << \E i \in 1..Pending(g) : queue[g][i].n = n,
                    work.pc \notin {"none", "stored"} /\ work.group = g /\ work.n = n,
                    <<g, n>> \in Records(g), <<g, n>> \in dropped >>
    IN  \A n \in 1..offered[g] :
          Cardinality({i \in 1..4 : at(n)[i]}) = 1

(* The records of an invocation reach the file in the order they were cut  *)
(* off, and those of an earlier main invocation come before those of a     *)
(* later one of the same unit.                                             *)
OrderKept ==
  \A u \in Units : \A i, j \in 1..Len(stored[u]) :
    LET a == stored[u][i]
        b == stored[u][j]
    IN  i < j =>
          /\ a[1] = b[1] => a[2] < b[2]
          /\ a[1] # b[1] => previous[a[1]] # b[1]

(* A wait that succeeded means what it says: every record of the capture   *)
(* is covered by a Sync or counted as dropped, although syncs are shared   *)
(* and files are retired under the writer.  A store whose close failed has *)
(* said so to its owner.                                                   *)
WaitMeansDurable ==
  \A g \in Captures :
    waiter[g].pc = "flushed" /\ writer # "failed" =>
      /\ Complete(g)
      /\ \A n \in 1..offered[g] : <<g, n>> \in Durable(UnitOf[g]) \cup dropped

(* The order holds exactly the invocations that have something queued, and *)
(* the bounds of the queue are kept.                                       *)
QueuesConsistent ==
  /\ ToSet(order) = {g \in Captures : Pending(g) > 0}
  /\ Cardinality(ToSet(order)) = Len(order) /\ Len(order) <= QueueGroups
  /\ QueuedRecords(queue) <= QueueRecords /\ QueuedBytes(queue) <= QueueBytes

(* Displacing records never silences an invocation: only the writer takes  *)
(* the last record of a queue.                                             *)
LastOneStays ==
  \A g \in Captures :
    Pending(g) > 0 /\ Len(queue'[g]) = 0 => work' # work
NobodySilenced == [][LastOneStays]_vars

(* Once the streams have ended the capture completes: its records are      *)
(* written or dropped, and the next invocation of the unit can begin.      *)
CapturesComplete ==
  \A g \in Captures : []<>(stream[g] = "none" \/ Complete(g))
=============================================================================
