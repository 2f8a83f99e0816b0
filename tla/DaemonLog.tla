------------------------------ MODULE DaemonLog ------------------------------
(***************************************************************************)
(* internal/journal/daemonlog.go: Record queues an event without waiting,  *)
(* one writer appends it to daemon.log, reports it to the emitter, syncs   *)
(* when the queue is empty and rotates the file, and a restart reads the   *)
(* tail.                                                                   *)
(***************************************************************************)
EXTENDS Integers, Sequences, FiniteSets, SequencesExt

CONSTANTS
  QueueRecords,  \* maxDaemonQueueRecords
  QueueBytes,    \* maxDaemonQueueBytes
  FileBytes,     \* maxDaemonFileBytes
  RecentRecords, \* maxDaemonRecent
  Size,          \* the length of each record that may be offered
  Faults,        \* bound on the calls that fail
  Restarts       \* bound on restarts

VARIABLES
  offered,   \* the number of Record calls with a known code
  queue,     \* l.queue
  dropped,   \* the records l.droppedRecords counts
  recent,    \* l.recent
  shutdown,  \* l.shutdown
  item,      \* the record the writer holds, 0 for none
  handle,    \* l.file # nil
  size,      \* l.size
  file,      \* daemon.log: records, and how much of each a write got there
  archive,   \* daemon.log.1
  synced,    \* how much of daemon.log is synced
  emitted,   \* what the emitter was given
  failed,    \* the records whose write returned an error
  lost,      \* the records lost with the process
  loop,      \* "run", or "done" once the writer has exited
  faults, restarts

memory == <<queue, dropped, recent, shutdown>>
disk == <<file, archive, synced>>
vars == <<offered, memory, item, handle, size, disk, emitted, failed, lost, loop,
          faults, restarts>>

Fails == faults < Faults /\ faults' = faults + 1
Works == UNCHANGED faults

-----------------------------------------------------------------------------

Events == Len(Size)
Queued == FoldSeq(LAMBDA n, sum : Size[n] + sum, 0, queue)
FileSize == FoldSeq(LAMBDA x, sum : x.bytes + sum, 0, file)
Piece(n, bytes) == [n |-> n, bytes |-> bytes]

Admits(n) == ~shutdown /\ Len(queue) < QueueRecords /\ Queued + Size[n] <= QueueBytes

LastOf(s, n) == IF Len(s) > n THEN SubSeq(s, Len(s) - n + 1, Len(s)) ELSE s

Record ==
  LET n == offered + 1
  IN  /\ n <= Events /\ loop = "run"
      /\ offered' = n
      /\ IF Admits(n)
         THEN /\ queue' = Append(queue, n)
              /\ recent' = LastOf(Append(recent, n), RecentRecords)
              /\ dropped' = dropped
         ELSE /\ dropped' = dropped \cup {n}
              /\ UNCHANGED <<queue, recent>>
      /\ UNCHANGED <<shutdown, item, handle, size, disk, emitted, failed, lost, loop,
                     faults, restarts>>

(* beginClose *)
BeginClose ==
  /\ ~shutdown
  /\ shutdown' = TRUE
  /\ UNCHANGED <<offered, queue, dropped, recent, item, handle, size, disk, emitted,
                 failed, lost, loop, faults, restarts>>

(* pop *)
Pop ==
  /\ loop = "run" /\ item = 0 /\ queue # <<>>
  /\ item' = Head(queue) /\ queue' = Tail(queue)
  /\ UNCHANGED <<offered, dropped, recent, shutdown, handle, size, disk, emitted,
                 failed, lost, loop, faults, restarts>>

(* The loop ends when it finds the queue empty after shutdown; the file is *)
(* synced and closed.                                                      *)
Exit ==
  /\ loop = "run" /\ item = 0 /\ queue = <<>> /\ shutdown
  /\ loop' = "done" /\ handle' = FALSE
  /\ synced' = IF handle THEN Len(file) ELSE synced
  /\ UNCHANGED <<offered, memory, item, size, file, archive, emitted, failed, lost,
                 faults, restarts>>

(* emitView is deferred: it runs when the write fails as well.             *)
Emit(ok) == Append(emitted, item)

(* writeOne ends with an error.                                            *)
WriteFails(open, length, f, a, s) ==
  /\ Fails
  /\ handle' = open /\ size' = length
  /\ file' = f /\ archive' = a /\ synced' = s
  /\ failed' = failed \cup {item} /\ emitted' = Emit(FALSE) /\ item' = 0
  /\ UNCHANGED <<offered, memory, lost, loop, restarts>>

(* A file that a failed rotation left closed is reopened as if it were new.*)
Reopened == IF handle THEN size ELSE 0
Rotates == Reopened + Size[item] > FileBytes

(* What the record is appended to, and the files after so many of its bytes. *)
Base == IF Rotates THEN [file |-> <<>>, archive |-> file, size |-> 0, synced |-> 0]
        ELSE [file |-> file, archive |-> archive, size |-> Reopened, synced |-> synced]
Appended(bytes) == IF bytes = 0 THEN Base.file ELSE Append(Base.file, Piece(item, bytes))

(* The sink or the reopening fails; the rotation does, which closes the    *)
(* file, removes the archive, renames, and opens; the write stops part of  *)
(* the way, or the sync after it fails.                                    *)
Fault ==
  /\ item # 0
  /\ \/ WriteFails(handle, size, file, archive, synced)
     \/ Rotates /\ WriteFails(FALSE, Reopened, file, archive, synced)
     \/ Rotates /\ WriteFails(FALSE, Reopened, file, <<>>, synced)
     \/ Rotates /\ WriteFails(FALSE, Reopened, <<>>, file, 0)
     \/ \E bytes \in 0..Size[item] :
          /\ bytes = Size[item] => queue = <<>>
          /\ WriteFails(TRUE, Base.size + bytes, Appended(bytes), Base.archive, Base.synced)

(* writeOne: the file is reopened or rotated where needed, and synced when *)
(* nothing else is queued.                                                 *)
WriteOne ==
  /\ item # 0 /\ Works
  /\ handle' = TRUE
  /\ size' = Base.size + Size[item]
  /\ file' = Appended(Size[item])
  /\ archive' = Base.archive
  /\ synced' = IF queue = <<>> THEN Len(file') ELSE Base.synced
  /\ emitted' = Emit(TRUE) /\ item' = 0
  /\ UNCHANGED <<offered, memory, failed, lost, loop, restarts>>

(* readDaemonTail: the lines that decode.  A record written behind a piece *)
(* of another is on one line with it.                                      *)
Whole(f, i) == f[i].bytes = Size[f[i].n]
Decoded(f) ==
  LET good == SelectSeq([i \in 1..Len(f) |-> i],
                        LAMBDA i : Whole(f, i) /\ (i > 1 => Whole(f, i - 1)))
  IN  [k \in 1..Len(good) |-> f[good[k]].n]

(* OpenDaemonLog after an exit, or after a crash that loses the queue and  *)
(* what was not synced.                                                    *)
Restart(kept) ==
  /\ restarts < Restarts /\ restarts' = restarts + 1
  /\ kept >= synced /\ (loop = "done" => kept = Len(file))
  /\ file' = SubSeq(file, 1, kept) /\ synced' = kept /\ size' = FileSize'
  /\ lost' = lost \cup ToSet(queue) \cup {file[i].n : i \in (kept + 1)..Len(file)}
               \cup (IF item = 0 THEN {} ELSE {item})
  /\ recent' = LastOf(Decoded(file'), RecentRecords)
  /\ queue' = <<>> /\ item' = 0 /\ handle' = TRUE /\ shutdown' = FALSE /\ loop' = "run"
  /\ UNCHANGED <<offered, dropped, archive, emitted, failed, faults>>

Init ==
  /\ offered = 0 /\ queue = <<>> /\ dropped = {} /\ recent = <<>> /\ shutdown = FALSE
  /\ item = 0 /\ handle = TRUE /\ size = 0
  /\ file = <<>> /\ archive = <<>> /\ synced = 0
  /\ emitted = <<>> /\ failed = {} /\ lost = {} /\ loop = "run"
  /\ faults = 0 /\ restarts = 0

Next == \/ Record \/ BeginClose \/ Pop \/ WriteOne \/ Fault \/ Exit
        \/ \E kept \in 0..Len(file) : Restart(kept)

Spec == Init /\ [][Next]_vars
Progress == Pop \/ WriteOne \/ Exit
FairSpec == Spec /\ WF_vars(Progress)

-----------------------------------------------------------------------------
(* Every record the log accepted while it ran is reported to the Windows   *)
(* channel once and in order, although its write may have failed; only a   *)
(* crash takes one away before that.                                       *)
ReportedOnce ==
  /\ \A i, j \in 1..Len(emitted) : i < j => emitted[i] < emitted[j]
  /\ \A n \in 1..offered :
       n \in ToSet(emitted) \cup ToSet(queue) \cup {item} \cup dropped \cup lost

(* The queue keeps to its limit, and where no call fails so does the file, *)
(* whose length the writer knows; a log that was closed is all on disk.    *)
LogBounded ==
  /\ Len(queue) <= QueueRecords /\ Queued <= QueueBytes
  /\ faults = 0 => FileSize <= FileBytes /\ size = FileSize
  /\ faults = 0 /\ loop = "done" => synced = Len(file)

(* The current file keeps to its limit, whatever fails.                    *)
FileBounded == FileSize <= FileBytes

(* A log that is asked to close comes to its end.                          *)
CloseEnds == []<>(shutdown => loop = "done")
=============================================================================
