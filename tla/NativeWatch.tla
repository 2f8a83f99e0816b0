------------------------------ MODULE NativeWatch ------------------------------
(***************************************************************************)
(* One native watch and its close: a directory read                        *)
(* (pathwatch/watch_windows.go), a registry key notification               *)
(* (registry/watch_windows.go) or an event log subscription                *)
(* (eventlog/subscribe_windows.go).  The first two have a loop that waits  *)
(* for the kernel and signals a channel; the third is called back.  Close  *)
(* may be called by several goroutines and again after it failed.          *)
(*                                                                         *)
(* The kernel side is external: a read is pending until a change, an error *)
(* or a cancellation completes it, an event stays set until a wait takes   *)
(* it, EvtClose waits for running callbacks, and every native call may     *)
(* fail.                                                                   *)
(***************************************************************************)
EXTENDS Integers, FiniteSets

CONSTANTS
    Closers,        \* goroutines that call Close
    Callbacks,      \* callbacks of a subscription in flight at once
    Scenarios       \* [kind, named, faults, changes, closes]

VARIABLES
    scene,      \* the scenario of this behaviour
    left,       \* faults, changes and closes the environment still has
    closed,     \* the watch's closed flag
    loop,       \* the loop goroutine: "top", "wait", "woke", "out"
    io,         \* the kernel: [pending, set, errored, changed, report]
    handle,     \* the handles still open, in the order Close releases them
    ch,         \* the channel C(): [full, closed]
    registered, \* subByID still holds the subscription
    cb,         \* callback -> "idle", "deliver", "error" or "signal"
    mu,         \* holder of closeMu, or "free"
    closer,     \* closer -> its place in Close
    owed,       \* the channel is told: "no", "owed" or "dropped" (ghost)
    panicked    \* a send on, or second close of, a closed channel (ghost)

vars == <<scene, left, closed, loop, io, handle, ch, registered, cb, mu, closer,
          owed, panicked>>

Kind == scene.kind

(* A changed name is the one the watch filters by, or another of the same  *)
(* directory.  A watch without a filter wants them all. *)
Names == {"own", "other"}
Wanted(n) == scene.named => n = "own"
AnyWanted(ns) == \E n \in ns : Wanted(n)

(* openDirWatchNotify returns once the first read is pending, OpenWatch of *)
(* a key once it is armed, OpenSubscribe once EvtSubscribe accepted it. *)
Quiescent == [pending |-> FALSE, set |-> FALSE, errored |-> FALSE, changed |-> {},
              report |-> {}]

OpenDir ==
    /\ loop = "wait" /\ handle = {"source", "event"} /\ registered = FALSE
    /\ io = [Quiescent EXCEPT !.pending = TRUE]

OpenKey ==
    /\ loop = "wait" /\ handle = {"source", "event"} /\ registered = FALSE
    /\ io = Quiescent

OpenSubscribe ==
    /\ loop = "out" /\ handle = {"sub"} /\ registered = TRUE
    /\ io = Quiescent

Init ==
    /\ scene \in Scenarios
    /\ left = [faults |-> scene.faults, changes |-> scene.changes, closes |-> scene.closes]
    /\ closed = FALSE
    /\ \/ Kind = "dir" /\ OpenDir
       \/ Kind = "key" /\ OpenKey
       \/ Kind = "sub" /\ OpenSubscribe
    /\ ch = [full |-> FALSE, closed |-> FALSE]
    /\ cb = [c \in Callbacks |-> "idle"]
    /\ mu = "free"
    /\ closer = [c \in Closers |-> "idle"]
    /\ owed = "no" /\ panicked = FALSE

Faulty == left.faults > 0
Faulted == [left EXCEPT !.faults = @ - 1]

-----------------------------------------------------------------------------
(* The kernel. *)

(* A change completes a pending read or sets the key's event; one that     *)
(* finds no read pending is kept for the next.  A subscription is called.  *)
Change ==
    /\ left.changes > 0
    /\ left' = [left EXCEPT !.changes = @ - 1]
    /\ \/ /\ Kind # "sub" /\ handle = {"source", "event"}
          /\ \E n \in IF scene.named THEN Names ELSE {"own"} :
                /\ io' = IF Kind = "dir" /\ ~io.pending THEN [io EXCEPT !.changed = @ \union {n}]
                         ELSE [io EXCEPT !.pending = FALSE, !.set = TRUE, !.report = {n}]
                /\ owed' = IF Wanted(n) THEN "owed" ELSE owed
          /\ UNCHANGED cb
       \/ /\ Kind = "sub" /\ "sub" \in handle
          /\ \E c \in Callbacks, a \in {"deliver", "error"} :
                /\ cb[c] = "idle" /\ cb' = [cb EXCEPT ![c] = a]
                /\ owed' = IF a = "deliver" THEN "owed" ELSE owed
          /\ UNCHANGED io
    /\ UNCHANGED <<scene, closed, loop, handle, ch, registered, mu, closer, panicked>>

(* The pending read fails, for example because its directory is removed. *)
ReadFails ==
    /\ Kind = "dir" /\ io.pending /\ Faulty
    /\ io' = [io EXCEPT !.pending = FALSE, !.set = TRUE, !.errored = TRUE]
    /\ left' = Faulted
    /\ UNCHANGED <<scene, closed, loop, handle, ch, registered, cb, mu, closer, owed, panicked>>

-----------------------------------------------------------------------------
(* signal: a full channel already promises a look at the present state. *)
Signalled == [ch EXCEPT !.full = TRUE]

(* Leaving the loop closes done and the channel. *)
LeaveLoop == loop' = "out" /\ ch' = [ch EXCEPT !.closed = TRUE]


Barred == closed

ArmRead ==
    /\ Kind = "dir" /\ loop = "top"
    /\ \/ /\ Barred /\ LeaveLoop /\ UNCHANGED <<left, io>>
       \/ /\ ~Barred
          /\ io' = [io EXCEPT !.pending = io.changed = {}, !.set = io.changed # {},
                              !.report = io.changed, !.changed = {}, !.errored = FALSE]
          /\ loop' = "wait" /\ UNCHANGED <<left, ch>>
       \/ /\ ~Barred /\ Faulty /\ left' = Faulted /\ LeaveLoop /\ UNCHANGED io
    /\ UNCHANGED <<scene, closed, handle, registered, cb, mu, closer, owed, panicked>>

(* The wait takes the event. *)
Wake ==
    /\ Kind # "sub" /\ loop = "wait" /\ io.set
    /\ io' = [io EXCEPT !.set = FALSE]
    /\ loop' = "woke"
    /\ UNCHANGED <<scene, left, closed, handle, ch, registered, cb, mu, closer, owed, panicked>>

(* match: without a filter any completion is a change; with one a report   *)
(* of no bytes, which is how a full kernel buffer may complete, is none. *)
Matches(got) == ~scene.named \/ (got = "names" /\ "own" \in io.report)

(* What is still to tell once a completion was looked at: what changed     *)
(* since; and a named watch drops what a report of no bytes stood for. *)
OwedAfter(told, got) ==
    IF AnyWanted(io.changed) THEN "owed"
    ELSE IF told THEN "no"
    ELSE IF owed = "owed" /\ scene.named /\ got = "empty" THEN "dropped"
    ELSE owed

(* A failed read ends the loop; one that overflows (ENUM_DIR) or a         *)
(* matching change signals. *)
DirCompletion ==
    /\ Kind = "dir" /\ loop = "woke"
    /\ IF closed \/ io.errored
       THEN LeaveLoop /\ UNCHANGED owed
       ELSE \E got \in {"names", "empty", "enum"} :
              LET told == got = "enum" \/ Matches(got)
              IN  /\ loop' = "top"
                  /\ ch' = IF told THEN Signalled ELSE ch
                  /\ owed' = OwedAfter(told, got)
    /\ UNCHANGED <<scene, left, closed, io, handle, registered, cb, mu, closer, panicked>>

(* Registry loop: signal, then arm again; the key keeps what changed       *)
(* meanwhile and sets the event at once. *)
KeyCompletion ==
    /\ Kind = "key" /\ loop = "woke"
    /\ \/ closed /\ LeaveLoop /\ UNCHANGED <<left, owed>>
       \/ /\ ~closed /\ loop' = "wait" /\ ch' = Signalled
          /\ owed' = IF io.set THEN "owed" ELSE "no"
          /\ UNCHANGED left
       \/ /\ ~closed /\ Faulty /\ left' = Faulted
          /\ loop' = "out" /\ ch' = [full |-> TRUE, closed |-> TRUE] /\ owed' = "no"
    /\ UNCHANGED <<scene, closed, io, handle, registered, cb, mu, closer, panicked>>

(* evtSubscribeCallback looks its subscription up and checks it is open... *)
CallbackFinds(c) ==
    /\ cb[c] \in {"deliver", "error"}
    /\ cb' = [cb EXCEPT ![c] = IF ~registered \/ closed THEN "idle"
                               ELSE IF @ = "deliver" THEN "signal" ELSE "fail"]
    /\ UNCHANGED <<scene, left, closed, loop, io, handle, ch, registered, mu, closer,
                   owed, panicked>>

(* ...and signals under the mutex that guards closed, checking it again. *)
Sends == ~closed

CallbackSignals(c) ==
    /\ cb[c] = "signal"
    /\ cb' = [cb EXCEPT ![c] = "idle"]
    /\ IF Sends THEN /\ ch' = Signalled /\ panicked' = (panicked \/ ch.closed)
                     /\ owed' = "no"
       ELSE UNCHANGED <<ch, panicked, owed>>
    /\ UNCHANGED <<scene, left, closed, loop, io, handle, registered, mu, closer>>

(* fail: the channel closes once, here or in Close. *)
CallbackFails(c) ==
    /\ cb[c] = "fail"
    /\ cb' = [cb EXCEPT ![c] = "idle"]
    /\ IF closed THEN UNCHANGED <<closed, registered, ch>>
       ELSE closed' = TRUE /\ registered' = FALSE /\ ch' = [ch EXCEPT !.closed = TRUE]
    /\ UNCHANGED <<scene, left, loop, io, handle, mu, closer, owed, panicked>>

(* The consumer empties the channel. *)
Take ==
    /\ ch.full /\ ch' = [ch EXCEPT !.full = FALSE]
    /\ UNCHANGED <<scene, left, closed, loop, io, handle, registered, cb, mu, closer,
                   owed, panicked>>

-----------------------------------------------------------------------------
(* Close, one caller at a time. *)

CloseBegins(c) ==
    /\ closer[c] = "idle" /\ mu = "free" /\ left.closes > 0
    /\ left' = [left EXCEPT !.closes = @ - 1]
    /\ mu' = c
    /\ closed' = TRUE
    /\ closer' = [closer EXCEPT ![c] = "wake"]
    /\ UNCHANGED <<scene, loop, io, handle, ch, registered, cb, owed, panicked>>

Fails(c) == closer' = [closer EXCEPT ![c] = "idle"] /\ mu' = "free"

(* CancelIoEx completes a pending read; none pending is not an error. *)
CancelRead(c) ==
    /\ Kind = "dir" /\ closer[c] = "wake"
    /\ \/ /\ closer' = [closer EXCEPT ![c] = "drain"]
          /\ io' = IF io.pending THEN [io EXCEPT !.pending = FALSE, !.set = TRUE, !.errored = TRUE]
                   ELSE io
          /\ UNCHANGED <<left, mu>>
       \/ Faulty /\ Fails(c) /\ left' = Faulted /\ UNCHANGED io
    /\ UNCHANGED <<scene, closed, loop, handle, ch, registered, cb, owed, panicked>>

(* SetEvent wakes the registry waiter. *)
WakeWaiter(c) ==
    /\ Kind = "key" /\ closer[c] = "wake"
    /\ \/ /\ closer' = [closer EXCEPT ![c] = "drain"]
          /\ io' = [io EXCEPT !.set = @ \/ "event" \in handle]
          /\ UNCHANGED <<left, mu>>
       \/ "event" \in handle /\ Faulty /\ Fails(c) /\ left' = Faulted /\ UNCHANGED io
    /\ UNCHANGED <<scene, closed, loop, handle, ch, registered, cb, owed, panicked>>

(* A subscription is unregistered and its channel closed before EvtClose.  *)
Unregister(c) ==
    /\ Kind = "sub" /\ closer[c] = "wake"
    /\ closer' = [closer EXCEPT ![c] = "drain"]
    /\ registered' = FALSE
    /\ ch' = [ch EXCEPT !.closed = TRUE]
    /\ UNCHANGED <<scene, left, closed, loop, io, handle, cb, mu, owed, panicked>>

(* The handles may go once the loop has left (<-w.done), or once EvtClose  *)
(* has seen every callback return. *)
DrainedAtOnce == TRUE

Drained == loop = "out" /\ \A c \in Callbacks : cb[c] = "idle"

CloseHandles(c) ==
    /\ closer[c] = "drain" /\ Drained
    /\ \/ /\ handle # {}
          /\ \/ /\ handle' = handle \ {IF "event" \in handle /\ "source" \notin handle
                                       THEN "event"
                                       ELSE CHOOSE h \in handle : h # "event"}
                /\ UNCHANGED <<left, mu, closer>>
             \/ Faulty /\ Fails(c) /\ left' = Faulted /\ UNCHANGED handle
       \/ /\ handle = {} /\ mu' = "free"
          /\ closer' = [closer EXCEPT ![c] = "ok"] /\ UNCHANGED <<left, handle>>
    /\ UNCHANGED <<scene, closed, loop, io, ch, registered, cb, owed, panicked>>

-----------------------------------------------------------------------------
Progress ==
    \/ ArmRead \/ Wake \/ DirCompletion \/ KeyCompletion
    \/ \E c \in Callbacks : CallbackFinds(c) \/ CallbackSignals(c) \/ CallbackFails(c)
    \/ \E c \in Closers : CancelRead(c) \/ WakeWaiter(c) \/ Unregister(c) \/ CloseHandles(c)

Next ==
    \/ Progress \/ Change \/ ReadFails \/ Take
    \/ \E c \in Closers : CloseBegins(c)

Spec == Init /\ [][Next]_vars

(* Loops, callbacks and accepted closes run; nobody has to call Close. *)
Fairness == WF_vars(Progress)

FairSpec == Spec /\ Fairness

-----------------------------------------------------------------------------
(* A handle is released only after the loop that waits on it has left and, *)
(* for a subscription, with no callback running: no read or wait is ever   *)
(* pending on a closed handle, however closes, failed closes and changes   *)
(* interleave (the Close methods). *)
HandlesOutliveUse ==
    handle \notin {{"source", "event"}, {"sub"}} =>
        loop = "out" /\ ~io.pending /\ \A c \in Callbacks : cb[c] \notin {"signal", "fail"}

(* The channel is never sent on after it was closed, although the event    *)
(* log's callbacks run concurrently with Close and with each other (signal *)
(* and fail). *)
NoSendAfterClose == ~panicked

(* Every Close returns: the loop cannot start a wait nobody ends between   *)
(* its check of closed and the wake-up (Close, loop). *)
CloseEnds ==
    \A c \in Closers : []<>(closer[c] \in {"idle", "ok"})

(* Every wanted change reaches the channel while the watch is open,        *)
(* changes that race with re-arming or overflow included, with one         *)
(* exception the code makes: a watch that filters by a name takes a report *)
(* of no bytes for no change, and what it stood for is dropped (loop,      *)
(* match). *)
ChangeSignalled == []<>(owed # "owed" \/ closed \/ (Kind # "sub" /\ loop = "out"))

=============================================================================
