------------------------------ MODULE NotifyPipe ------------------------------
(***************************************************************************)
(* One invocation's notification endpoint (internal/manager/notify.go over *)
(* internal/notify): the accept loop and its readers, admission of clients *)
(* by process, the messages they send, the close of listener and clients   *)
(* with its retries, and the two watchdog loops fed by the endpoint.       *)
(*                                                                         *)
(* A client is a number.  Its process (in the unit or not, identified or   *)
(* not) and the lines it sends come from the scenario.  The listener and   *)
(* the connections below notifyCloseListener are the operating system's:   *)
(* closing one may fail, as often as the scenario's budget says.           *)
(***************************************************************************)
EXTENDS Integers, Sequences, FiniteSets

CONSTANTS
    MaxConnections,     \* maxNotifyConnections
    PulseBuffer,        \* capacity of notifyRuntime.pulse
    Scenarios

VARIABLES
    scene,      \* the scenario of this behaviour
    left,       \* what the environment may still do: faults, closes
    main,       \* notifyRuntime.mainPID and job are set
    srv,        \* ServeAccept: [pc, held], held the client just accepted
    lis,        \* notifyCloseListener: [closing, closed, owner of mu]
    conn,       \* client -> [end, owned, peer, banner, buf]
    reader,     \* client -> [pc, line, tried], its reader goroutine
    slots,      \* clients holding one of the slots
    rt,         \* notifyRuntime: [ready, closed, cancelled, pulse]
    closer,     \* "owner" (notifyRuntime.Close) and "after" (ServeAccept's
                \* AfterFunc) -> [pc, todo, err]
    heard,      \* <<client, line>> of every line onMessage applied (ghost)
    dog         \* the watchdog loop: [pc, left, fired, age, fails]

vars == <<scene, left, main, srv, lis, conn, reader, slots, rt, closer, heard,
          dog>>

Clients == DOMAIN scene.clients
Closers == {"owner", "after"}
Lines == {"READY", "WATCHDOG", "STATUS", "other"}

(* What a scenario is: finitely many clients that send lines, and a        *)
(* watchdog whose interval, threshold and grace are natural numbers.       *)
Sound(s) ==
    /\ IsFiniteSet(DOMAIN s.clients)
    /\ \A c \in DOMAIN s.clients : s.clients[c].body \in Seq(Lines)
    /\ s.dog \in {"none", "notify", "probe"}
    /\ s.interval \in Nat /\ s.threshold \in Nat /\ s.grace \in Nat

ScenariosSound == MaxConnections \in Nat /\ \A s \in Scenarios : Sound(s)

(* The connection a client starts with: nothing accepted, nothing sent. *)
NoConn == [end |-> "none", owned |-> FALSE, peer |-> "idle", banner |-> FALSE,
           buf |-> << >>]

(* openNotify: the listener serves before the process exists. *)
Init ==
    /\ scene \in Scenarios
    /\ left = scene.left
    /\ main = FALSE
    /\ srv = [pc |-> "top", held |-> 0]
    /\ lis = [closing |-> FALSE, closed |-> FALSE, mu |-> "free"]
    /\ conn = [c \in Clients |-> NoConn]
    /\ reader = [c \in Clients |-> [pc |-> "none", line |-> "other", tried |-> FALSE]]
    /\ slots = {}
    /\ rt = [ready |-> FALSE, closed |-> FALSE, cancelled |-> FALSE, pulse |-> 0]
    /\ closer = [p \in Closers |-> [pc |-> "idle", todo |-> {}, err |-> FALSE]]
    /\ heard = {}
    /\ dog = [pc |-> "off", left |-> 0, fired |-> FALSE, age |-> 0, fails |-> 0]

-----------------------------------------------------------------------------
(* The clients. *)

(* Dial: the connection waits in the listener until it is accepted.  A     *)
(* process of the unit does not run before SetMain (StartSpec.Assigned).   *)
Dial(c) ==
    /\ conn[c].peer = "idle" /\ ~lis.closed
    /\ scene.clients[c].process = "unit" => main
    /\ conn' = [conn EXCEPT ![c].end = "queued", ![c].peer = "dialed"]
    /\ UNCHANGED <<scene, left, main, srv, lis, reader, slots, rt, closer, heard, dog>>

(* Send: after the banner the whole body is written and the connection is  *)
(* closed; without a banner it fails.  An idle client keeps it open.       *)
Send(c) ==
    LET body == scene.clients[c].body IN
    /\ conn[c].peer = "dialed" /\ conn[c].banner /\ conn[c].end = "open"
    /\ conn' = [conn EXCEPT ![c].buf = body,
                            ![c].peer = IF scene.clients[c].idle THEN "idling"
                                        ELSE "sent"]
    /\ UNCHANGED <<scene, left, main, srv, lis, reader, slots, rt, closer, heard, dog>>

(* The client's context ends, or the server closed the connection first. *)
GiveUp(c) ==
    /\ conn[c].peer = "dialed"
    /\ conn' = [conn EXCEPT ![c].peer = "failed"]
    /\ UNCHANGED <<scene, left, main, srv, lis, reader, slots, rt, closer, heard, dog>>

Hung(c) == conn[c].peer \in {"sent", "failed"}

-----------------------------------------------------------------------------
(* notifyOwnedConn.Close: a close that fails leaves the client owned. *)
CloseConn(c, ok) ==
    IF conn[c].end # "open" \/ ~ok THEN conn
    ELSE [conn EXCEPT ![c].end = "closed", ![c].owned = FALSE]

(* The outcomes of one close of c, with the faults left afterwards. *)
CloseOutcome(c, ok) ==
    /\ ~ok => (conn[c].end = "open" /\ left.faults > 0)
    /\ left' = [left EXCEPT !.faults = @ - IF ok THEN 0 ELSE 1]

(* SetMain, from StartSpec.Assigned. *)
SetMain ==
    /\ ~main /\ main' = TRUE
    /\ UNCHANGED <<scene, left, srv, lis, conn, reader, slots, rt, closer, heard, dog>>

(* allowed: membership is decided once per accepted connection. *)
allowed(c) ==
    main /\ scene.clients[c].process = "unit"

(* ServeAccept, the top of its loop. *)
ServeTop ==
    /\ srv.pc = "top"
    /\ srv' = [srv EXCEPT !.pc =
                  IF rt.cancelled \/ lis.closing THEN "wait" ELSE "accept"]
    /\ UNCHANGED <<scene, left, main, lis, conn, reader, slots, rt, closer, heard, dog>>

(* notifyCloseListener.Accept: the client is owned as soon as the native   *)
(* accept returns it, before the caller sees it. *)
Accept(c) ==
    /\ srv.pc = "accept" /\ conn[c].end = "queued"
    /\ conn' = [conn EXCEPT ![c].end = "open", ![c].owned = TRUE]
    /\ srv' = [pc |-> "got", held |-> c]
    /\ UNCHANGED <<scene, left, main, lis, reader, slots, rt, closer, heard, dog>>

(* The closed listener releases the accept; ServeAccept's deferred cancel. *)
AcceptFails ==
    /\ srv.pc = "accept" /\ lis.closed
    /\ srv' = [srv EXCEPT !.pc = "wait"]
    /\ rt' = [rt EXCEPT !.cancelled = TRUE]
    /\ UNCHANGED <<scene, left, main, lis, conn, reader, slots, closer, heard, dog>>

(* No slot: the client is closed before authorization, without a banner. *)
Excess ==
    LET c == srv.held IN
    /\ srv.pc = "got" /\ Cardinality(slots) >= MaxConnections
    /\ \E ok \in BOOLEAN : CloseOutcome(c, ok) /\ conn' = CloseConn(c, ok)
    /\ srv' = [pc |-> "top", held |-> 0]
    /\ UNCHANGED <<scene, main, lis, reader, slots, rt, closer, heard, dog>>

TakeSlot ==
    /\ srv.pc = "got" /\ Cardinality(slots) < MaxConnections
    /\ slots' = slots \cup {srv.held}
    /\ srv' = [srv EXCEPT !.pc = "access"]
    /\ UNCHANGED <<scene, left, main, lis, conn, reader, rt, closer, heard, dog>>

(* The slots once a refused client has been closed. *)
Freed(c) == slots \ {c}

(* The rest of the loop's body: a refused client is closed and gives its   *)
(* slot back, an admitted one gets a reader. *)
Refuse ==
    LET c == srv.held IN
    /\ srv.pc = "access" /\ ~allowed(c)
    /\ \E ok \in BOOLEAN : CloseOutcome(c, ok) /\ conn' = CloseConn(c, ok)
    /\ slots' = Freed(c)
    /\ srv' = [pc |-> "top", held |-> 0]
    /\ UNCHANGED <<scene, main, lis, reader, rt, closer, heard, dog>>

Admit ==
    LET c == srv.held IN
    /\ srv.pc = "access" /\ allowed(c)
    /\ reader' = [reader EXCEPT ![c].pc = "banner"]
    /\ srv' = [pc |-> "top", held |-> 0]
    /\ UNCHANGED <<scene, left, main, lis, conn, slots, rt, closer, heard, dog>>

(* wg.Wait and the close of serveDone. *)
ServeReturns ==
    /\ srv.pc = "wait" /\ \A c \in Clients : reader[c].pc \in {"none", "done"}
    /\ srv' = [srv EXCEPT !.pc = "done"]
    /\ UNCHANGED <<scene, left, main, lis, conn, reader, slots, rt, closer, heard, dog>>

-----------------------------------------------------------------------------
(* The reader of a client. *)

WriteBanner(c) ==
    /\ reader[c].pc = "banner"
    /\ reader' = [reader EXCEPT ![c].pc =
                     IF conn[c].end = "open" /\ ~Hung(c) THEN "read" ELSE "out"]
    /\ conn' = [conn EXCEPT ![c].banner = (conn[c].end = "open" /\ ~Hung(c))]
    /\ UNCHANGED <<scene, left, main, srv, lis, slots, rt, closer, heard, dog>>

(* ReadLines and Parse: a line without a known key is passed over.  A      *)
(* closed connection ends the scan; so does the end of the client's data.  *)
ReadLine(c) ==
    LET line == Head(conn[c].buf) IN
    /\ reader[c].pc = "read" /\ conn[c].end = "open" /\ conn[c].buf # << >>
    /\ conn' = [conn EXCEPT ![c].buf = Tail(@)]
    /\ reader' = [reader EXCEPT
                     ![c].pc = IF line = "other" \/ rt.closed THEN "read" ELSE "emit",
                     ![c].line = line]
    /\ UNCHANGED <<scene, left, main, srv, lis, slots, rt, closer, heard, dog>>

(* onMessage, past its check of closed: readiness is published once, a     *)
(* pulse is dropped when the buffer is full. *)
Emit(c) ==
    LET line == reader[c].line IN
    /\ reader[c].pc = "emit"
    /\ rt' = [rt EXCEPT !.ready = @ \/ line = "READY",
                        !.pulse = IF line = "WATCHDOG" /\ @ < PulseBuffer
                                  THEN @ + 1 ELSE @]
    /\ heard' = heard \cup {<<c, line>>}
    /\ reader' = [reader EXCEPT ![c].pc = "read"]
    /\ UNCHANGED <<scene, left, main, srv, lis, conn, slots, closer, dog>>

(* The scan reaches the end of the data only behind the last line. *)
AtEnd(c) == conn[c].buf = << >> /\ Hung(c)

ReadEnds(c) ==
    /\ reader[c].pc = "read"
    /\ conn[c].end = "closed" \/ AtEnd(c)
    /\ reader' = [reader EXCEPT ![c].pc = "out"]
    /\ UNCHANGED <<scene, left, main, srv, lis, conn, slots, rt, closer, heard, dog>>

(* The reader's deferred calls: close the client, free the slot, leave. *)
ReaderLeaves(c) ==
    /\ reader[c].pc = "out"
    /\ \E ok \in BOOLEAN : CloseOutcome(c, ok) /\ conn' = CloseConn(c, ok)
    /\ slots' = slots \ {c}
    /\ reader' = [reader EXCEPT ![c].pc = "done"]
    /\ UNCHANGED <<scene, main, srv, lis, rt, closer, heard, dog>>

(* stopRead: cancellation closes the client of a running reader, once.  A  *)
(* close that fails here is tried again by the endpoint's owner. *)
CancelRead(c) ==
    /\ rt.cancelled /\ reader[c].pc \in {"banner", "read", "emit"} /\ ~reader[c].tried
    /\ \E ok \in BOOLEAN : CloseOutcome(c, ok) /\ conn' = CloseConn(c, ok)
    /\ reader' = [reader EXCEPT ![c].tried = TRUE]
    /\ UNCHANGED <<scene, main, srv, lis, slots, rt, closer, heard, dog>>

-----------------------------------------------------------------------------
(* Closing the endpoint.  notifyRuntime.Close is called again after a      *)
(* failure (closeNotifyContext keeps the endpoint until it succeeds), one  *)
(* call at a time.  Its cancel starts ServeAccept's AfterFunc, which calls *)
(* the listener's Close as well, unless ServeAccept has already left. *)
Close ==
    /\ closer["owner"].pc \in {"idle", "failed"} /\ left.closes > 0
    /\ left' = [left EXCEPT !.closes = @ - 1]
    /\ rt' = [rt EXCEPT !.closed = TRUE, !.cancelled = TRUE]
    /\ closer' = [closer EXCEPT
                     !["owner"] = [pc |-> "lock", todo |-> {}, err |-> FALSE],
                     !["after"].pc = IF rt.closed \/ srv.pc \in {"wait", "done"}
                                     THEN @ ELSE "lock"]
    /\ UNCHANGED <<scene, main, srv, lis, conn, reader, slots, heard, dog>>

(* notifyCloseListener.Close, under its mutex: no accept starts any more. *)
CloseLock(p) ==
    /\ closer[p].pc = "lock" /\ lis.mu = "free"
    /\ lis' = [lis EXCEPT !.mu = p, !.closing = TRUE]
    /\ closer' = [closer EXCEPT ![p].pc = "native"]
    /\ UNCHANGED <<scene, left, main, srv, conn, reader, slots, rt, heard, dog>>

CloseNative(p) ==
    /\ closer[p].pc = "native"
    /\ \E ok \in BOOLEAN :
          /\ ~ok => (~lis.closed /\ left.faults > 0)
          /\ left' = [left EXCEPT !.faults = @ - IF ok THEN 0 ELSE 1]
          /\ lis' = [lis EXCEPT !.closed = @ \/ ok]
          /\ closer' = [closer EXCEPT ![p].pc = "accepts", ![p].err = ~ok]
    /\ UNCHANGED <<scene, main, srv, conn, reader, slots, rt, heard, dog>>

(* accepts.Wait: only a closed listener is sure to release its accept. *)
AcceptsUnawaited == TRUE

AcceptsOver == lis.closed => srv.pc # "accept"

CloseClients(p) ==
    /\ closer[p].pc = "accepts" /\ AcceptsOver
    /\ closer' = [closer EXCEPT ![p].pc = "clients",
                                ![p].todo = {c \in Clients : conn[c].owned}]
    /\ UNCHANGED <<scene, left, main, srv, lis, conn, reader, slots, rt, heard, dog>>

CloseClient(p, c) ==
    /\ closer[p].pc = "clients" /\ c \in closer[p].todo
    /\ \E ok \in BOOLEAN :
          /\ CloseOutcome(c, ok) /\ conn' = CloseConn(c, ok)
          /\ closer' = [closer EXCEPT ![p].todo = @ \ {c}, ![p].err = @ \/ ~ok]
    /\ UNCHANGED <<scene, main, srv, lis, reader, slots, rt, heard, dog>>

(* Back in notifyRuntime.Close an error is returned at once; otherwise the *)
(* accept loop must leave as well. *)
CloseUnlock(p) ==
    /\ closer[p].pc = "clients" /\ closer[p].todo = {}
    /\ lis' = [lis EXCEPT !.mu = "free"]
    /\ closer' = [closer EXCEPT ![p].pc = CASE p = "after" -> "left"
                                            [] closer[p].err -> "failed"
                                            [] OTHER -> "wait"]
    /\ UNCHANGED <<scene, left, main, srv, conn, reader, slots, rt, heard, dog>>

CloseReturns ==
    /\ closer["owner"].pc = "wait" /\ srv.pc = "done"
    /\ closer' = [closer EXCEPT !["owner"].pc = "ok"]
    /\ UNCHANGED <<scene, left, main, srv, lis, conn, reader, slots, rt, heard, dog>>

-----------------------------------------------------------------------------
(* The watchdog loop of the invocation: watchdogLoop for pulses,           *)
(* probeWatchdogLoop for a TCP or HTTP probe.  fired is a value in the     *)
(* timer's channel; age counts time since the last sign of life (ghost).   *)

Later(a, b) == IF a > b THEN a ELSE b

Armed(d, span) == [d EXCEPT !.left = span, !.fired = FALSE]

startWatchdog ==
    /\ scene.dog # "none" /\ main /\ dog.pc = "off"
    /\ dog' = [Armed(dog, IF scene.dog = "probe"
                          THEN Later(scene.interval, scene.grace)
                          ELSE scene.interval) EXCEPT !.pc = scene.dog]
    /\ UNCHANGED <<scene, left, main, srv, lis, conn, reader, slots, rt, closer, heard>>

(* Time passes; a timer that runs out leaves its value in the channel. *)
Tick ==
    /\ dog.pc \in {"notify", "probe"} /\ dog.left > 0 /\ left.ticks > 0
    /\ left' = [left EXCEPT !.ticks = @ - 1]
    /\ dog' = [dog EXCEPT !.left = @ - 1, !.fired = (dog.left = 1), !.age = @ + 1]
    /\ UNCHANGED <<scene, main, srv, lis, conn, reader, slots, rt, closer, heard>>

(* A pulse restarts the timer and drains an expiry it races with. *)
Restarted == [Armed(dog, scene.interval) EXCEPT !.age = 0]

TakePulse ==
    /\ dog.pc = "notify" /\ rt.pulse > 0
    /\ rt' = [rt EXCEPT !.pulse = @ - 1]
    /\ dog' = Restarted
    /\ UNCHANGED <<scene, left, main, srv, lis, conn, reader, slots, closer, heard>>

WatchdogExpires ==
    /\ dog.pc = "notify" /\ dog.fired
    /\ dog' = [dog EXCEPT !.pc = "timedout", !.fired = FALSE]
    /\ UNCHANGED <<scene, left, main, srv, lis, conn, reader, slots, rt, closer, heard>>

(* acceptProbeHealth: failures count only in a row, up to the threshold. *)
ProbeCount(ok) ==
    IF ok THEN 0
    ELSE IF dog.fails + 1 > scene.threshold THEN scene.threshold ELSE dog.fails + 1

Probe ==
    /\ dog.pc = "probe" /\ dog.fired
    /\ \E ok \in BOOLEAN :
          LET fails == ProbeCount(ok)
              d == [dog EXCEPT !.fails = fails, !.age = IF ok THEN 0 ELSE @]
          IN dog' = IF fails >= Later(1, scene.threshold)
                    THEN [d EXCEPT !.pc = "timedout", !.fired = FALSE]
                    ELSE Armed(d, scene.interval)
    /\ UNCHANGED <<scene, left, main, srv, lis, conn, reader, slots, rt, closer, heard>>

(* stopWatchdog, or the endpoint's done channel in watchdogLoop. *)
stopWatchdog ==
    /\ dog.pc \in {"notify", "probe"} /\ rt.closed
    /\ dog' = [dog EXCEPT !.pc = "over", !.fired = FALSE]
    /\ UNCHANGED <<scene, left, main, srv, lis, conn, reader, slots, rt, closer, heard>>

-----------------------------------------------------------------------------
Progress ==
    \/ SetMain \/ ServeTop \/ AcceptFails \/ Excess \/ TakeSlot \/ Refuse \/ Admit
    \/ ServeReturns \/ CloseReturns
    \/ \E c \in Clients : \/ Accept(c) \/ WriteBanner(c) \/ ReadLine(c) \/ Emit(c)
                          \/ ReadEnds(c) \/ ReaderLeaves(c) \/ CancelRead(c)
    \/ \E p \in Closers : \/ CloseLock(p) \/ CloseNative(p) \/ CloseClients(p)
                          \/ CloseUnlock(p) \/ \E c \in Clients : CloseClient(p, c)
    \/ startWatchdog \/ TakePulse \/ WatchdogExpires \/ Probe \/ stopWatchdog

Next ==
    \/ Progress \/ Close \/ Tick
    \/ \E c \in Clients : Dial(c) \/ Send(c) \/ GiveUp(c)

Spec == Init /\ [][Next]_vars

(* Goroutines that can run do run; clients, closes and time need not. *)
Fairness == WF_vars(Progress)

FairSpec == Spec /\ Fairness

-----------------------------------------------------------------------------
(* Only what processes of the unit send is applied: a client that dialled  *)
(* before the main process was known, is outside the job, or cannot be     *)
(* looked up is never heard, however long its connection waits (allowed).  *)
OnlyUnitHeard ==
    \A h \in heard : scene.clients[h[1]].process = "unit"

(* A Close that returned without error left nothing behind: the accept     *)
(* loop and every reader are gone and no accepted client is open, those    *)
(* accepted while the listener was closing and those whose first close     *)
(* failed included (notifyCloseListener.Close, notifyRuntime.Close).       *)
CloseProves ==
    closer["owner"].pc = "ok" =>
        /\ srv.pc = "done" /\ lis.closed /\ slots = {}
        /\ \A c \in Clients : conn[c].end # "open" /\ reader[c].pc \in {"none", "done"}

(* A slot is held exactly by the client under authorization and the        *)
(* clients being read, so refused and finished clients cannot use up       *)
(* maxNotifyConnections (ServeAccept). *)
SlotsExact ==
    /\ Cardinality(slots) <= MaxConnections
    /\ slots = {c \in Clients : reader[c].pc \in {"banner", "read", "emit", "out"}}
                   \cup (IF srv.pc = "access" THEN {srv.held} ELSE {})

(* The watchdog fires only after a full interval without a sign of life,   *)
(* or after as many failed probes in a row as the threshold asks for: an   *)
(* expiry that raced with a pulse and failures before a good probe do not  *)
(* count (watchdogLoop, probeWatchdogLoop, acceptProbeHealth). *)
TimeoutEarned ==
    dog.pc = "timedout" =>
        dog.age >= scene.interval * (IF scene.dog = "probe" THEN Later(1, scene.threshold) ELSE 1)

(* Only what processes of the unit send is applied: a client that dialled  *)
(* before the main process was known, is outside the job, or cannot be     *)
(* looked up is never heard. A Close that returned without error left no   *)
(* accept loop, reader or accepted client behind. A slot is held exactly   *)
(* by the client under authorization and the clients being read. The       *)
(* watchdog fires only after a full interval without a sign of life, or    *)
(* after as many failed probes in a row as the threshold asks for.         *)
NotifySound == OnlyUnitHeard /\ CloseProves /\ SlotsExact /\ TimeoutEarned

(* What a client sent before it hung up is applied, line by line, unless   *)
(* the endpoint closes first (Send, ReadLines). *)
SentHeard ==
    []<>(\A c \in Clients : conn[c].peer = "sent" =>
            \/ rt.cancelled
            \/ \A i \in DOMAIN scene.clients[c].body :
                  scene.clients[c].body[i] # "other" => <<c, scene.clients[c].body[i]>> \in heard)

(* Every Close returns, with idle clients connected, an accept in progress *)
(* and closes failing beneath it (notifyRuntime.Close). *)
CloseEnds ==
    []<>(closer["owner"].pc \in {"idle", "ok", "failed"})

=============================================================================
