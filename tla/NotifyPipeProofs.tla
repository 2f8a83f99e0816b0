--------------------------- MODULE NotifyPipeProofs ---------------------------
(***************************************************************************)
(* Proofs about NotifyPipe, for every set of clients, every number of      *)
(* slots, of failing closes and of close retries, and every watchdog.      *)
(***************************************************************************)
EXTENDS NotifyPipe, FiniteSetTheorems, TLAPS

Ends == {"none", "queued", "open", "closed"}
Active == {"banner", "read", "emit", "out"}
Conns == [Clients -> [end : Ends, owned : BOOLEAN, banner : BOOLEAN, buf : Seq(Lines),
                      peer : {"idle", "dialed", "idling", "sent", "failed"}]]

Typed ==
    /\ Sound(scene) /\ MaxConnections \in Nat
    /\ conn \in Conns
    /\ reader \in [Clients -> [pc : Active \cup {"none", "done"}, line : Lines, tried : BOOLEAN]]
    /\ DOMAIN srv = {"pc", "held"}
    /\ srv.pc \in {"top", "accept", "got", "access", "wait", "done"}
    /\ lis \in [closing : BOOLEAN, closed : BOOLEAN, mu : Closers \cup {"free"}]
    /\ closer \in [Closers -> [pc : {"idle", "lock", "native", "accepts", "clients", "wait",
                                     "failed", "left", "ok"},
                               todo : SUBSET Clients, err : BOOLEAN]]

(* Where a client may be.  One that has not dialled is in nobody's hands,  *)
(* the listener owns exactly the open connections, and a client that was   *)
(* given a reader had been accepted and belongs to the unit. *)
Places ==
    \A c \in Clients :
        /\ conn[c].peer = "idle" => conn[c].end = "none"
        /\ conn[c].owned <=> conn[c].end = "open"
        /\ reader[c].pc # "none" => /\ conn[c].end \in {"open", "closed"}
                                    /\ scene.clients[c].process = "unit"

(* The client in ServeAccept's hands has no reader yet; once ServeAccept   *)
(* has returned no reader runs. *)
Held ==
    /\ srv.pc \in {"got", "access"} =>
          /\ srv.held \in Clients /\ reader[srv.held].pc = "none"
          /\ conn[srv.held].end \in {"open", "closed"}
    /\ srv.pc = "done" => \A c \in Clients : reader[c].pc \in {"none", "done"}

(* How far the close of p got, while it met no error: it has closed the    *)
(* listener, then waited for the accept in progress, which no other        *)
(* follows, and what is open is still on its list. *)
Closing(p) ==
    /\ closer[p].pc = "native" => lis.closing
    /\ closer[p].pc \in {"accepts", "clients"} => closer[p].err \/ lis.closed
    /\ closer[p].pc = "clients" =>
          \/ closer[p].err
          \/ /\ srv.pc # "accept"
             /\ \A c \in Clients : conn[c].end = "open" => c \in closer[p].todo
    /\ closer[p].pc \in {"wait", "ok"} =>
          /\ lis.closed /\ srv.pc # "accept"
          /\ \A c \in Clients : conn[c].end # "open"

Closes ==
    /\ lis.closed => lis.closing
    /\ \A p \in Closers : Closing(p)
    /\ closer["owner"].pc = "ok" => srv.pc = "done"

Dogs == [pc : {"off", "notify", "probe", "timedout", "over"}, left : Nat, fired : BOOLEAN,
         age : Nat, fails : Nat]

(* What is left of the watchdog's timer and the time without a sign of     *)
(* life add up to the intervals the failures so far stand for. *)
Timed ==
    /\ dog \in Dogs
    /\ dog.pc \in {"notify", "probe"} => dog.pc = scene.dog /\ (dog.fired => dog.left = 0)
    /\ dog.pc = "off" => dog.age = 0 /\ dog.fails = 0
    /\ dog.pc = "notify" => dog.age + dog.left = scene.interval
    /\ dog.pc = "probe" => dog.age + dog.left >= scene.interval * (dog.fails + 1)
    /\ TimeoutEarned

(* The inductive invariant. *)
IInv == Typed /\ Places /\ Held /\ Closes /\ Timed /\ SlotsExact /\ OnlyUnitHeard

(* The part that is about connections and goroutines. *)
Pipe == Typed /\ Places /\ Held /\ Closes /\ SlotsExact /\ OnlyUnitHeard

-----------------------------------------------------------------------------
(* The watchdog. *)

(* Products of natural numbers grow with their factors. *)
LEMMA Grows ==
    ASSUME NEW i \in Nat, NEW a \in Nat, NEW b \in Nat, a >= b
    PROVE  i * a >= i * b /\ i * (b + 1) = i * b + i
<1> DEFINE d == a - b
<1>1. d \in Nat /\ a = b + d
  OBVIOUS
<1> HIDE DEF d
<1>2. i * a = i * b + i * d
  BY <1>1
<1>3. i * d \in Nat /\ i * b \in Nat
  BY <1>1
<1>4. i * a >= i * b
  BY <1>2, <1>3
<1> QED
  BY <1>4

(* A watchdog left alone. *)
LEMMA SameDog ==
    ASSUME Timed, UNCHANGED <<scene, dog>>
    PROVE  Timed'
  BY DEF Timed, TimeoutEarned, Later

LEMMA StartDog ==
    ASSUME Sound(scene), Timed, startWatchdog
    PROVE  Timed'
<1> DEFINE span == IF scene.dog = "probe" THEN Later(scene.interval, scene.grace)
                   ELSE scene.interval
<1>1. /\ scene' = scene /\ dog.pc = "off" /\ scene.dog \in {"notify", "probe"}
      /\ dog' = [dog EXCEPT !.left = span, !.fired = FALSE, !.pc = scene.dog]
  BY DEF startWatchdog, Armed, Sound
<1>2. /\ span \in Nat /\ span >= scene.interval /\ scene.interval \in Nat
      /\ (scene.dog # "probe" => span = scene.interval)
  BY DEF Later, Sound
<1> HIDE DEF span
<1>3. /\ dog' \in Dogs
      /\ dog'.pc = scene.dog /\ dog'.left = span /\ dog'.fired = FALSE
      /\ dog'.age = 0 /\ dog'.fails = 0
  <2>1. dog \in Dogs /\ dog.age = 0 /\ dog.fails = 0
    BY <1>1 DEF Timed
  <2> QED
    BY ZenonT(60), <2>1, <1>1, <1>2 DEF Dogs
<1>4. scene.interval * (0 + 1) = scene.interval
  BY <1>2
<1> QED
  BY <1>1, <1>2, <1>3, <1>4 DEF Timed, TimeoutEarned

LEMMA TickDog ==
    ASSUME Sound(scene), Timed, Tick
    PROVE  Timed'
<1> DEFINE ran == dog.left = 1
<1>1. /\ scene' = scene /\ dog.pc \in {"notify", "probe"} /\ dog.left > 0
      /\ dog' = [dog EXCEPT !.left = @ - 1, !.fired = ran, !.age = @ + 1]
  BY DEF Tick
<1>2. dog \in Dogs /\ ran \in BOOLEAN
  BY DEF Timed
<1>3. dog.left \in Nat /\ dog.left - 1 \in Nat /\ dog.age \in Nat
  BY <1>1, <1>2 DEF Dogs
<1>4. ran => dog.left - 1 = 0
  BY <1>3
<1> HIDE DEF ran
<1>5. dog' \in Dogs
  <2>1. dog.age + 1 \in Nat
    BY <1>3
  <2> QED
    BY Zenon, <1>1, <1>2, <1>3, <2>1 DEF Dogs
<1>6. /\ dog'.pc = dog.pc /\ dog'.left = dog.left - 1 /\ dog'.age = dog.age + 1
      /\ dog'.fails = dog.fails
  BY <1>1, <1>2 DEF Dogs
<1>7. dog'.fired => dog'.left = 0
  <2>1. dog'.fired = ran
    BY Zenon, <1>1, <1>2 DEF Dogs
  <2> QED
    BY <2>1, <1>4, <1>6
<1>8. dog'.age + dog'.left = dog.age + dog.left
  BY <1>3, <1>6
<1>9. TimeoutEarned'
  BY <1>1, <1>6 DEF TimeoutEarned
<1> QED
  BY <1>1, <1>5, <1>6, <1>7, <1>8, <1>9 DEF Timed

LEMMA PulseDog ==
    ASSUME Sound(scene), Timed, TakePulse
    PROVE  Timed'
<1>1. /\ scene' = scene /\ dog.pc = "notify"
      /\ dog' = [dog EXCEPT !.left = scene.interval, !.fired = FALSE, !.age = 0]
  BY DEF TakePulse, Restarted, Armed
<1>2. scene.interval \in Nat /\ dog \in Dogs
  BY DEF Sound, Timed
<1>3. /\ dog' \in Dogs /\ dog'.pc = "notify" /\ dog'.left = scene.interval
      /\ dog'.fired = FALSE /\ dog'.age = 0
  BY ZenonT(60), <1>1, <1>2 DEF Dogs
<1> QED
  BY <1>1, <1>2, <1>3 DEF Timed, TimeoutEarned

(* A value in the timer's channel means that nothing is left to wait for,  *)
(* so a full interval has passed. *)
LEMMA ExpireDog ==
    ASSUME Sound(scene), Timed, WatchdogExpires
    PROVE  Timed'
<1>1. /\ scene' = scene /\ dog.pc = "notify" /\ dog.fired
      /\ dog' = [dog EXCEPT !.pc = "timedout", !.fired = FALSE]
  BY DEF WatchdogExpires
<1>2. /\ dog.age = scene.interval /\ scene.dog = "notify" /\ scene.interval \in Nat
  BY <1>1 DEF Timed, Sound, Dogs
<1>3. scene.interval * 1 = scene.interval
  BY <1>2
<1>4. dog \in Dogs
  BY DEF Timed
<1>5. dog' \in Dogs /\ dog'.pc = "timedout" /\ dog'.age = dog.age
  BY ZenonT(60), <1>1, <1>4 DEF Dogs
<1>6. dog.age \in Nat /\ dog.age >= scene.interval
  BY <1>2, <1>4 DEF Dogs
<1>7. TimeoutEarned'
  BY <1>1, <1>2, <1>3, <1>5, <1>6 DEF TimeoutEarned
<1> QED
  BY <1>5, <1>7 DEF Timed

LEMMA StopDog ==
    ASSUME Timed, stopWatchdog
    PROVE  Timed'
  BY ZenonT(60) DEF Timed, TimeoutEarned, stopWatchdog, Dogs

(* A failed probe adds one interval to what the failures stand for; the    *)
(* threshold is met by no fewer failures in a row than it asks for. *)
LEMMA ProbeDog ==
    ASSUME Sound(scene), Timed, Probe
    PROVE  Timed'
<1>1. PICK ok \in BOOLEAN :
          LET fails == ProbeCount(ok)
              d == [dog EXCEPT !.fails = fails, !.age = IF ok THEN 0 ELSE @]
          IN dog' = IF fails >= Later(1, scene.threshold)
                    THEN [d EXCEPT !.pc = "timedout", !.fired = FALSE]
                    ELSE Armed(d, scene.interval)
  BY ZenonT(60) DEF Probe
<1> DEFINE fails == ProbeCount(ok)
           need == Later(1, scene.threshold)
           age == IF ok THEN 0 ELSE dog.age
<1>2. scene' = scene /\ dog.pc = "probe" /\ scene.dog = "probe" /\ dog.left = 0
  BY DEF Probe, Timed
<1>3. scene.interval \in Nat /\ scene.threshold \in Nat /\ dog.fails \in Nat /\ dog.age \in Nat
  BY DEF Sound, Timed, Dogs
<1>4. /\ fails \in Nat /\ need \in Nat /\ need >= 1
      /\ (ok => fails = 0) /\ fails <= dog.fails + 1
  BY <1>3 DEF ProbeCount, Later
<1>5. /\ dog' \in Dogs
      /\ dog'.age = age /\ dog'.fails = fails /\ dog'.fired = FALSE
      /\ dog'.pc = IF fails >= need THEN "timedout" ELSE "probe"
      /\ fails < need => dog'.left = scene.interval
  <2> HIDE DEF need, fails
  <2> DEFINE d == [dog EXCEPT !.fails = fails, !.age = IF ok THEN 0 ELSE @]
  <2>1. dog' = IF fails >= need THEN [d EXCEPT !.pc = "timedout", !.fired = FALSE]
               ELSE [d EXCEPT !.left = scene.interval, !.fired = FALSE]
    BY <1>1 DEF Armed, need, fails
  <2>2. /\ d \in Dogs
        /\ d.pc = "probe" /\ d.age = age /\ d.fails = fails
    <3>1. dog \in Dogs
      BY DEF Timed
    <3> QED
      BY ZenonT(60), <1>2, <1>3, <1>4, <3>1 DEF Dogs
  <2> HIDE DEF d, age
  <2>3. CASE fails >= need
    <3>1. dog' = [d EXCEPT !.pc = "timedout", !.fired = FALSE]
      BY <2>1, <2>3
    <3>2. /\ dog' \in Dogs /\ dog'.age = age /\ dog'.fails = fails
          /\ dog'.fired = FALSE /\ dog'.pc = "timedout"
      BY ZenonT(60), <3>1, <2>2 DEF Dogs
    <3> QED
      BY <1>4, <2>3, <3>2
  <2>4. CASE ~(fails >= need)
    <3>1. dog' = [d EXCEPT !.left = scene.interval, !.fired = FALSE]
      BY <2>1, <2>4
    <3> QED
      BY ZenonT(60), <1>3, <1>4, <3>1, <2>2, <2>4 DEF Dogs
  <2> QED
    BY ZenonT(60), <2>3, <2>4
<1>6. dog.age >= scene.interval * (dog.fails + 1)
  BY <1>2, <1>3 DEF Timed
<1>7. ~ok => dog.age >= scene.interval * fails
  BY <1>3, <1>4, <1>6, Grows
<1>8. scene.interval * (fails + 1) = scene.interval * fails + scene.interval
  <2> HIDE DEF fails
  <2>1. fails >= fails
    BY <1>4
  <2> QED
    BY ZenonT(60), <1>3, <1>4, <2>1, Grows
<1>9. CASE fails >= need
  <2>1. ~ok /\ dog.age >= scene.interval * need
    BY <1>3, <1>4, <1>7, <1>9, Grows
  <2> HIDE DEF need, fails
  <2>2. TimeoutEarned'
    BY <1>2, <1>5, <2>1 DEF TimeoutEarned, need
  <2> QED
    BY <1>2, <1>5, <1>9, <2>2 DEF Timed
<1>10. CASE fails < need
  <2> HIDE DEF need, fails
  <2>1. age + scene.interval >= scene.interval * (fails + 1)
    <3>1. CASE ok
      BY <3>1, <1>3, <1>4, <1>8
    <3>2. CASE ~ok
      BY <3>2, <1>3, <1>4, <1>7, <1>8
    <3> QED
      BY <3>1, <3>2
  <2>2. dog'.pc = "probe" /\ dog'.left = scene.interval
    BY <1>4, <1>5, <1>10
  <2> HIDE DEF age
  <2> QED
    BY <1>2, <1>5, <2>1, <2>2 DEF Timed, TimeoutEarned
<1> QED
  BY <1>4, <1>9, <1>10

-----------------------------------------------------------------------------
(* The pipe.  First what a step that touches little keeps. *)

LEMMA SamePipe ==
    ASSUME Pipe, UNCHANGED <<scene, srv, lis, conn, reader, slots, closer, heard>>
    PROVE  Pipe'
<1>1. Typed'
  BY Zenon DEF Pipe, Typed, Conns, Clients
<1>2. Places' /\ Held'
  BY Zenon DEF Pipe, Places, Held, Clients
<1>3. Closes'
  BY Zenon DEF Pipe, Closes, Closing, Clients
<1>4. SlotsExact' /\ OnlyUnitHeard'
  BY Zenon DEF Pipe, SlotsExact, OnlyUnitHeard, Clients
<1> QED
  BY <1>1, <1>2, <1>3, <1>4 DEF Pipe

(* What a close may do to the connections: an open one is closed. *)
Shuts ==
    /\ conn' \in Conns
    /\ \A k \in Clients : /\ conn'[k].peer = conn[k].peer
                          /\ conn'[k].owned <=> conn'[k].end = "open"
                          /\ \/ conn'[k].end = conn[k].end
                             \/ conn[k].end = "open" /\ conn'[k].end = "closed"

LEMMA Shut ==
    ASSUME Typed, Places, NEW c \in Clients, NEW ok \in BOOLEAN, conn' = CloseConn(c, ok)
    PROVE  Shuts /\ (ok => conn'[c].end # "open")
<1>1. CASE conn[c].end # "open" \/ ~ok
  <2>1. conn' = conn
    BY <1>1 DEF CloseConn
  <2> QED
    BY <1>1, <2>1 DEF Shuts, Typed, Places
<1>2. CASE ~(conn[c].end # "open" \/ ~ok)
  <2>1. conn' = [conn EXCEPT ![c].end = "closed", ![c].owned = FALSE]
    BY <1>2 DEF CloseConn
  <2>2. conn' \in Conns
    <3> DEFINE r == [conn[c] EXCEPT !.end = "closed", !.owned = FALSE]
    <3>1. conn \in Conns
      BY DEF Typed
    <3>2. conn' = [conn EXCEPT ![c] = r]
      BY ZenonT(60), <2>1, <3>1 DEF Conns
    <3>3. r \in [end : Ends, owned : BOOLEAN, banner : BOOLEAN, buf : Seq(Lines),
                 peer : {"idle", "dialed", "idling", "sent", "failed"}]
      BY Zenon, <3>1 DEF Conns, Ends
    <3> HIDE DEF r
    <3> QED
      BY <3>1, <3>2, <3>3 DEF Conns
  <2>3. \A k \in Clients \ {c} : conn'[k] = conn[k]
    BY <2>1 DEF Typed, Conns
  <2>4. conn'[c].peer = conn[c].peer /\ conn'[c].end = "closed" /\ conn'[c].owned = FALSE
    BY <2>1 DEF Typed, Conns
  <2>5. ASSUME NEW k \in Clients
        PROVE  /\ conn'[k].peer = conn[k].peer
               /\ conn'[k].owned <=> conn'[k].end = "open"
               /\ \/ conn'[k].end = conn[k].end
                  \/ conn[k].end = "open" /\ conn'[k].end = "closed"
    <3>1. CASE k = c
      BY <1>2, <2>4, <3>1
    <3>2. CASE k # c
      BY <2>3, <3>2 DEF Places
    <3> QED
      BY <3>1, <3>2
  <2>6. Shuts
    BY <2>2, <2>5 DEF Shuts
  <2> QED
    BY <2>4, <2>6
<1> QED
  BY <1>1, <1>2

(* Connections left alone satisfy it too. *)
LEMMA Unshut ==
    ASSUME Typed, Places, conn' = conn
    PROVE  Shuts
  BY DEF Shuts, Typed, Places

(* A step that starts no accept behind a close that has begun, and opens   *)
(* no connection but through an accept, disturbs no close. *)
LEMMA ClosesKept ==
    ASSUME Typed, Closes, UNCHANGED <<scene, lis, closer>>,
           srv'.pc = "accept" => srv.pc = "accept" \/ ~lis.closing,
           srv.pc = "done" => srv'.pc = "done",
           \A c \in Clients : conn'[c].end = "open" => conn[c].end = "open" \/ srv.pc = "accept"
    PROVE  Closes'
<1>1. lis'.closed => lis'.closing
  BY DEF Closes
<1>2. closer'["owner"].pc = "ok" => srv'.pc = "done"
  BY DEF Closes
<1>3. ASSUME NEW p \in Closers
      PROVE  Closing(p)'
  <2>1. Closing(p) /\ (lis.closed => lis.closing)
    BY DEF Closes
  <2>2. Clients' = Clients
    BY DEF Clients
  <2>3. (closer[p].pc = "native" => lis.closing)'
        /\ (closer[p].pc \in {"accepts", "clients"} => closer[p].err \/ lis.closed)'
    BY <2>1 DEF Closing
  <2>4. ASSUME closer[p].pc = "clients", ~closer[p].err
        PROVE  /\ srv'.pc # "accept"
               /\ \A c \in Clients : conn'[c].end = "open" => c \in closer[p].todo
    BY <2>1, <2>4 DEF Closing
  <2>5. ASSUME closer[p].pc \in {"wait", "ok"}
        PROVE  /\ lis.closed /\ srv'.pc # "accept"
               /\ \A c \in Clients : conn'[c].end # "open"
    BY <2>1, <2>5 DEF Closing
  <2> QED
    BY <2>2, <2>3, <2>4, <2>5 DEF Closing
<1> QED
  BY <1>1, <1>2, <1>3 DEF Closes, Closers

(* A step that gives nobody a reader or a slot and takes none away. *)
LEMMA SlotsKept ==
    ASSUME SlotsExact, UNCHANGED <<scene, slots>>,
           \A c \in Clients : reader'[c].pc \in Active <=> reader[c].pc \in Active,
           srv'.pc = "access" <=> srv.pc = "access",
           srv.pc = "access" => srv'.held = srv.held
    PROVE  SlotsExact'
  BY DEF SlotsExact, Clients, Active

(* A step that changes no reader and only closes connections. *)
LEMMA PlacesKept ==
    ASSUME Typed, Places, UNCHANGED <<scene, reader>>, Shuts
    PROVE  Places'
<1>1. Clients' = Clients
  BY DEF Clients
<1>2. ASSUME NEW c \in Clients
      PROVE  /\ conn'[c].peer = "idle" => conn'[c].end = "none"
             /\ conn'[c].owned <=> conn'[c].end = "open"
             /\ reader[c].pc # "none" => /\ conn'[c].end \in {"open", "closed"}
                                         /\ scene.clients[c].process = "unit"
  BY DEF Places, Shuts
<1> QED
  BY <1>1, <1>2 DEF Places

-----------------------------------------------------------------------------
(* The clients' steps. *)

(* Dial, Send and GiveUp touch one client, open no connection and leave an *)
(* accepted one accepted. *)
LEMMA ClientStep ==
    ASSUME Pipe, NEW c \in Clients, Dial(c) \/ Send(c) \/ GiveUp(c)
    PROVE  Pipe'
<1>1. UNCHANGED <<scene, srv, lis, reader, slots, closer, heard>> /\ Clients' = Clients
  BY DEF Dial, Send, GiveUp, Clients
<1>2. /\ conn' \in Conns
      /\ \A k \in Clients \ {c} : conn'[k] = conn[k]
      /\ conn'[c].owned = conn[c].owned
      /\ conn'[c].peer # "idle"
      /\ \/ conn'[c].end = conn[c].end
         \/ conn[c].peer = "idle" /\ conn'[c].end = "queued"
  <2>1. conn \in Conns
    BY DEF Pipe, Typed
  <2>2. CASE Dial(c)
    <3>1. conn' = [conn EXCEPT ![c].end = "queued", ![c].peer = "dialed"] /\ conn[c].peer = "idle"
      BY <2>2 DEF Dial
    <3> QED
      BY ZenonT(60), <2>1, <3>1 DEF Conns, Ends
  <2>3. CASE Send(c)
    <3> DEFINE body == scene.clients[c].body
               peer == IF scene.clients[c].idle THEN "idling" ELSE "sent"
    <3>1. conn' = [conn EXCEPT ![c].buf = body, ![c].peer = peer]
      BY <2>3 DEF Send
    <3>2. body \in Seq(Lines) /\ peer \in {"idling", "sent"}
      BY DEF Pipe, Typed, Sound, Clients
    <3> HIDE DEF body, peer
    <3> QED
      BY ZenonT(60), <2>1, <3>1, <3>2 DEF Conns
  <2>4. CASE GiveUp(c)
    <3>1. conn' = [conn EXCEPT ![c].peer = "failed"]
      BY <2>4 DEF GiveUp
    <3> QED
      BY ZenonT(60), <2>1, <3>1 DEF Conns
  <2> QED
    BY <2>2, <2>3, <2>4
<1>3. Typed'
  BY <1>1, <1>2 DEF Pipe, Typed, Conns
<1>4. ASSUME NEW k \in Clients
      PROVE  /\ conn'[k].peer = "idle" => conn'[k].end = "none"
             /\ conn'[k].owned <=> conn'[k].end = "open"
             /\ reader[k].pc # "none" => conn'[k].end \in {"open", "closed"}
             /\ conn[k].end \in {"open", "closed"} => conn'[k].end = conn[k].end
             /\ conn'[k].end = "open" => conn[k].end = "open"
  <2>1. /\ conn[k].peer = "idle" => conn[k].end = "none"
        /\ conn[k].owned <=> conn[k].end = "open"
        /\ reader[k].pc # "none" => conn[k].end \in {"open", "closed"}
    BY DEF Pipe, Places
  <2>2. CASE k = c
    BY <1>2, <2>1, <2>2
  <2>3. CASE k # c
    BY <1>2, <2>1, <2>3
  <2> QED
    BY <2>2, <2>3
<1>5. Places'
  BY <1>1, <1>4 DEF Pipe, Places
<1>6. Held'
  BY <1>1, <1>4 DEF Pipe, Held
<1>7. Closes'
  <2>1. Typed /\ Closes
    BY DEF Pipe
  <2> QED
    BY <1>1, <1>4, <2>1, ClosesKept
<1>8. SlotsExact' /\ OnlyUnitHeard'
  BY Zenon, <1>1 DEF Pipe, SlotsExact, OnlyUnitHeard
<1> QED
  BY <1>3, <1>5, <1>6, <1>7, <1>8 DEF Pipe

-----------------------------------------------------------------------------
(* ServeAccept. *)

(* The loop's steps that touch nothing but its own place: a close that has *)
(* begun keeps it from accepting again. *)
LEMMA ServeStep ==
    ASSUME Pipe, ServeTop \/ AcceptFails \/ ServeReturns
    PROVE  Pipe'
<1>1. UNCHANGED <<scene, lis, conn, reader, slots, closer, heard>> /\ Clients' = Clients
  BY DEF ServeTop, AcceptFails, ServeReturns, Clients
<1>2. /\ DOMAIN srv' = {"pc", "held"} /\ srv'.pc \in {"accept", "wait", "done"}
      /\ srv.pc \in {"top", "accept", "wait"}
      /\ srv'.pc = "accept" => ~lis.closing
      /\ srv'.pc = "done" => \A c \in Clients : reader[c].pc \in {"none", "done"}
  <2>1. DOMAIN srv = {"pc", "held"}
    BY DEF Pipe, Typed
  <2> QED
    BY <2>1 DEF ServeTop, AcceptFails, ServeReturns
<1>3. Typed'
  BY <1>1, <1>2 DEF Pipe, Typed, Conns
<1>4. Places' /\ OnlyUnitHeard'
  BY Zenon, <1>1 DEF Pipe, Places, OnlyUnitHeard
<1>5. Held'
  BY <1>1, <1>2 DEF Pipe, Held
<1>6. Typed /\ Closes /\ SlotsExact
  BY DEF Pipe
<1>7. Closes'
  BY <1>1, <1>2, <1>6, ClosesKept
<1>8. SlotsExact'
  BY <1>1, <1>2, <1>6, SlotsKept
<1> QED
  BY <1>3, <1>4, <1>5, <1>7, <1>8 DEF Pipe

(* Accept: the client is owned from now on, and has no reader. *)
LEMMA AcceptStep ==
    ASSUME Pipe, NEW c \in Clients, Accept(c)
    PROVE  Pipe'
<1>1. /\ UNCHANGED <<scene, lis, reader, slots, closer, heard>> /\ Clients' = Clients
      /\ srv.pc = "accept" /\ srv' = [pc |-> "got", held |-> c] /\ conn[c].end = "queued"
      /\ conn' = [conn EXCEPT ![c].end = "open", ![c].owned = TRUE]
  BY DEF Accept, Clients
<1>2. /\ conn' \in Conns
      /\ \A k \in Clients \ {c} : conn'[k] = conn[k]
      /\ conn'[c].end = "open" /\ conn'[c].owned = TRUE /\ conn'[c].peer = conn[c].peer
  <2> DEFINE r == [conn[c] EXCEPT !.end = "open", !.owned = TRUE]
  <2>1. conn \in Conns
    BY DEF Pipe, Typed
  <2>2. conn' = [conn EXCEPT ![c] = r]
    BY ZenonT(60), <1>1, <2>1 DEF Conns
  <2>3. r \in [end : Ends, owned : BOOLEAN, banner : BOOLEAN, buf : Seq(Lines),
               peer : {"idle", "dialed", "idling", "sent", "failed"}]
    BY Zenon, <2>1 DEF Conns, Ends
  <2>4. r.end = "open" /\ r.owned = TRUE /\ r.peer = conn[c].peer
    BY <2>1 DEF Conns
  <2> HIDE DEF r
  <2> QED
    BY <2>1, <2>2, <2>3, <2>4 DEF Conns
<1>3. Typed'
  BY <1>1, <1>2 DEF Pipe, Typed, Conns
<1>4. conn[c].peer # "idle" /\ reader[c].pc = "none"
  BY <1>1 DEF Pipe, Places
<1>5. ASSUME NEW k \in Clients
      PROVE  /\ conn'[k].peer = "idle" => conn'[k].end = "none"
             /\ conn'[k].owned <=> conn'[k].end = "open"
             /\ reader[k].pc # "none" => /\ conn'[k].end \in {"open", "closed"}
                                         /\ scene.clients[k].process = "unit"
  <2>1. CASE k = c
    BY <1>2, <1>4, <2>1
  <2>2. CASE k # c
    BY <1>2, <2>2 DEF Pipe, Places
  <2> QED
    BY <2>1, <2>2
<1>6. Places'
  BY ZenonT(60), <1>1, <1>5 DEF Places
<1>7. Held'
  BY <1>1, <1>2, <1>4 DEF Held
<1>8. Typed /\ Closes /\ SlotsExact
  BY DEF Pipe
<1>9. Closes'
  BY <1>1, <1>8, ClosesKept
<1>10. SlotsExact'
  BY <1>1, <1>8, SlotsKept
<1>11. OnlyUnitHeard'
  BY Zenon, <1>1 DEF Pipe, OnlyUnitHeard
<1> QED
  BY <1>3, <1>6, <1>7, <1>9, <1>10, <1>11 DEF Pipe

(* The clients are finitely many, so their slots can be counted. *)
LEMMA SlotSets ==
    ASSUME Typed, NEW S \in SUBSET Clients
    PROVE  IsFiniteSet(S) /\ Cardinality(S) \in Nat
<1>1. IsFiniteSet(Clients)
  BY DEF Typed, Sound, Clients
<1>2. IsFiniteSet(S)
  BY <1>1, FS_Subset
<1> QED
  BY <1>2, FS_CardinalityType

(* Only clients hold slots. *)
LEMMA SlotsOfClients ==
    ASSUME Pipe
    PROVE  slots \in SUBSET Clients
  BY DEF Pipe, SlotsExact, Held

LEMMA TakeSlotStep ==
    ASSUME Pipe, TakeSlot
    PROVE  Pipe'
<1>1. /\ UNCHANGED <<scene, lis, conn, reader, closer, heard>> /\ Clients' = Clients
      /\ srv.pc = "got" /\ Cardinality(slots) < MaxConnections
      /\ slots' = slots \cup {srv.held}
      /\ srv' = [srv EXCEPT !.pc = "access"]
  BY DEF TakeSlot, Clients
<1>2. /\ DOMAIN srv' = {"pc", "held"} /\ srv'.pc = "access" /\ srv'.held = srv.held
      /\ srv.held \in Clients
  BY <1>1 DEF Pipe, Typed, Held
<1>3. Typed'
  BY <1>1, <1>2 DEF Pipe, Typed, Conns
<1>4. Places' /\ OnlyUnitHeard'
  BY Zenon, <1>1 DEF Pipe, Places, OnlyUnitHeard
<1>5. Held'
  BY <1>1, <1>2 DEF Pipe, Held
<1>6. Closes'
  <2>1. Typed /\ Closes
    BY DEF Pipe
  <2> QED
    BY <1>1, <1>2, <2>1, ClosesKept
<1>7. Cardinality(slots') <= MaxConnections
  <2>1. IsFiniteSet(slots) /\ Cardinality(slots) \in Nat /\ MaxConnections \in Nat
    BY SlotsOfClients, SlotSets DEF Pipe, Typed
  <2>2. Cardinality(slots \cup {srv.held}) \in {Cardinality(slots), Cardinality(slots) + 1}
    BY ZenonT(60), <2>1, FS_AddElement
  <2> QED
    BY <1>1, <2>1, <2>2
<1>8. SlotsExact'
  BY <1>1, <1>2, <1>7 DEF Pipe, SlotsExact
<1> QED
  BY <1>3, <1>4, <1>5, <1>6, <1>8 DEF Pipe

(* A slot given back. *)
LEMMA SlotFreed ==
    ASSUME Pipe, NEW c \in Clients
    PROVE  Cardinality(slots \ {c}) <= MaxConnections
<1>1. IsFiniteSet(slots) /\ Cardinality(slots) \in Nat /\ MaxConnections \in Nat
  BY SlotsOfClients, SlotSets DEF Pipe, Typed
<1>2. slots \ {c} \subseteq slots
  OBVIOUS
<1>3. IsFiniteSet(slots \ {c}) /\ Cardinality(slots \ {c}) <= Cardinality(slots)
  BY <1>1, <1>2, FS_Subset
<1>4. Cardinality(slots \ {c}) \in Nat
  BY <1>3, FS_CardinalityType
<1>5. Cardinality(slots) <= MaxConnections
  BY DEF Pipe, SlotsExact
<1> QED
  BY <1>1, <1>3, <1>4, <1>5

(* A client that is turned away, for want of a slot or of access, is       *)
(* closed; its slot, if it had one, is free again. *)
LEMMA TurnAwayStep ==
    ASSUME Pipe, Excess \/ Refuse
    PROVE  Pipe'
<1> DEFINE c == srv.held
<1>1. /\ UNCHANGED <<scene, lis, reader, closer, heard>> /\ Clients' = Clients
      /\ srv.pc \in {"got", "access"} /\ srv' = [pc |-> "top", held |-> 0]
      /\ \/ srv.pc = "got" /\ slots' = slots
         \/ srv.pc = "access" /\ slots' = slots \ {c}
  BY DEF Excess, Refuse, Freed, Clients
<1>2. PICK ok \in BOOLEAN : conn' = CloseConn(c, ok)
  BY DEF Excess, Refuse
<1>3. c \in Clients /\ reader[c].pc = "none"
  BY <1>1 DEF Pipe, Held
<1>4. Shuts
  BY <1>2, <1>3, Shut DEF Pipe
<1>5. Typed'
  <2>1. conn' \in Conns
    BY <1>4 DEF Shuts
  <2> QED
    BY <1>1, <2>1 DEF Pipe, Typed, Conns
<1>6. Places'
  BY <1>1, <1>4, PlacesKept DEF Pipe
<1>7. Held' /\ OnlyUnitHeard'
  BY <1>1 DEF Pipe, Held, OnlyUnitHeard
<1>8. Closes'
  <2>1. Typed /\ Closes
    BY DEF Pipe
  <2>2. \A k \in Clients : conn'[k].end = "open" => conn[k].end = "open"
    BY <1>4 DEF Shuts
  <2> QED
    BY <1>1, <2>1, <2>2, ClosesKept
<1>9. SlotsExact'
  <2>1. CASE srv.pc = "got" /\ slots' = slots
    BY <1>1, <2>1, SlotsKept DEF Pipe
  <2>2. CASE srv.pc = "access" /\ slots' = slots \ {c}
    <3>1. Cardinality(slots') <= MaxConnections
      BY <1>3, <2>2, SlotFreed
    <3>2. slots = {k \in Clients : reader[k].pc \in {"banner", "read", "emit", "out"}} \cup {c}
      BY <2>2 DEF Pipe, SlotsExact
    <3>3. slots' = {k \in Clients : reader[k].pc \in {"banner", "read", "emit", "out"}}
      BY <1>3, <2>2, <3>2
    <3> QED
      BY <1>1, <3>1, <3>3 DEF SlotsExact
  <2> QED
    BY <1>1, <2>1, <2>2
<1> QED
  BY <1>5, <1>6, <1>7, <1>8, <1>9 DEF Pipe

(* An admitted client belongs to the unit; its reader takes over its slot. *)
LEMMA AdmitStep ==
    ASSUME Pipe, Admit
    PROVE  Pipe'
<1> DEFINE c == srv.held
<1>1. /\ UNCHANGED <<scene, lis, conn, slots, closer, heard>> /\ Clients' = Clients
      /\ srv.pc = "access" /\ srv' = [pc |-> "top", held |-> 0]
      /\ reader' = [reader EXCEPT ![c].pc = "banner"]
      /\ scene.clients[c].process = "unit"
  BY DEF Admit, allowed, Clients
<1>2. c \in Clients /\ reader[c].pc = "none" /\ conn[c].end \in {"open", "closed"}
  BY <1>1 DEF Pipe, Held
<1>3. /\ reader' \in [Clients -> [pc : Active \cup {"none", "done"}, line : Lines, tried : BOOLEAN]]
      /\ reader'[c].pc = "banner" /\ \A k \in Clients \ {c} : reader'[k] = reader[k]
  BY <1>1, <1>2 DEF Pipe, Typed, Active
<1>4. Typed'
  BY <1>1, <1>3 DEF Pipe, Typed, Conns
<1>5. ASSUME NEW k \in Clients
      PROVE  /\ conn[k].peer = "idle" => conn[k].end = "none"
             /\ conn[k].owned <=> conn[k].end = "open"
             /\ reader'[k].pc # "none" => /\ conn[k].end \in {"open", "closed"}
                                          /\ scene.clients[k].process = "unit"
  BY <1>1, <1>2, <1>3 DEF Pipe, Places
<1>6. Places'
  BY <1>1, <1>5 DEF Places
<1>7. Held' /\ OnlyUnitHeard'
  BY <1>1 DEF Pipe, Held, OnlyUnitHeard
<1>8. Closes'
  <2>1. Typed /\ Closes
    BY DEF Pipe
  <2> QED
    BY <1>1, <2>1, ClosesKept
<1>9. SlotsExact'
  <2>1. slots = {k \in Clients : reader[k].pc \in {"banner", "read", "emit", "out"}} \cup {c}
    BY <1>1 DEF Pipe, SlotsExact
  <2>2. slots = {k \in Clients : reader'[k].pc \in {"banner", "read", "emit", "out"}}
    BY <1>2, <1>3, <2>1
  <2>3. Cardinality(slots) <= MaxConnections
    BY DEF Pipe, SlotsExact
  <2> QED
    BY <1>1, <2>2, <2>3 DEF SlotsExact
<1> QED
  BY <1>4, <1>6, <1>7, <1>8, <1>9 DEF Pipe

-----------------------------------------------------------------------------
(* The readers. *)

Readers == [Clients -> [pc : Active \cup {"none", "done"}, line : Lines, tried : BOOLEAN]]

(* A reader that goes on reading, or on its way out, keeps its slot. *)
LEMMA ReaderGoesOn ==
    ASSUME Pipe, NEW c \in Clients, UNCHANGED <<scene, srv, lis, slots, closer>>,
           Shuts, reader[c].pc \in Active, reader' \in Readers, reader'[c].pc \in Active,
           \A k \in Clients \ {c} : reader'[k] = reader[k], OnlyUnitHeard'
    PROVE  Pipe'
<1>1. Clients' = Clients /\ conn' \in Conns
  BY DEF Clients, Shuts
<1>2. Typed'
  BY <1>1 DEF Pipe, Typed, Conns, Readers
<1>3. ASSUME NEW k \in Clients
      PROVE  /\ conn'[k].peer = "idle" => conn'[k].end = "none"
             /\ conn'[k].owned <=> conn'[k].end = "open"
             /\ reader'[k].pc # "none" => /\ conn'[k].end \in {"open", "closed"}
                                          /\ scene.clients[k].process = "unit"
             /\ conn[k].end \in {"open", "closed"} => conn'[k].end \in {"open", "closed"}
             /\ conn'[k].end = "open" => conn[k].end = "open"
             /\ reader[k].pc = "none" => reader'[k].pc = "none"
             /\ reader'[k].pc \in Active <=> reader[k].pc \in Active
  <2>1. reader'[k].pc # "none" => reader[k].pc # "none"
    BY DEF Active
  <2>2. /\ conn[k].peer = "idle" => conn[k].end = "none"
        /\ reader[k].pc # "none" => /\ conn[k].end \in {"open", "closed"}
                                    /\ scene.clients[k].process = "unit"
    BY DEF Pipe, Places
  <2>3. /\ conn'[k].peer = conn[k].peer
        /\ conn'[k].owned <=> conn'[k].end = "open"
        /\ \/ conn'[k].end = conn[k].end
           \/ conn[k].end = "open" /\ conn'[k].end = "closed"
    BY DEF Shuts
  <2>4. /\ reader[k].pc = "none" => reader'[k].pc = "none"
        /\ reader'[k].pc \in Active <=> reader[k].pc \in Active
    BY DEF Active
  <2> QED
    BY <2>1, <2>2, <2>3, <2>4
<1>4. Places'
  BY <1>1, <1>3 DEF Places
<1>5. Held'
  <2>1. srv.pc # "done"
    BY DEF Pipe, Held, Active
  <2> QED
    BY <1>1, <1>3, <2>1 DEF Pipe, Held
<1>6. Typed /\ Closes /\ SlotsExact
  BY DEF Pipe
<1>7. Closes'
  BY <1>3, <1>6, ClosesKept
<1>8. SlotsExact'
  BY <1>3, <1>6, SlotsKept
<1> QED
  BY <1>2, <1>4, <1>5, <1>7, <1>8 DEF Pipe

(* Writing the banner and reading a line change no end of a connection. *)
LEMMA ReadStep ==
    ASSUME Pipe, NEW c \in Clients, WriteBanner(c) \/ ReadLine(c)
    PROVE  Pipe'
<1>1. /\ UNCHANGED <<scene, srv, lis, slots, closer, heard>>
      /\ reader[c].pc \in {"banner", "read"}
  BY DEF WriteBanner, ReadLine
<1>2. reader \in Readers /\ conn \in Conns
  BY DEF Pipe, Typed, Readers
<1>3. OnlyUnitHeard'
  BY <1>1 DEF Pipe, OnlyUnitHeard
<1>4. CASE WriteBanner(c)
  <2> DEFINE written == conn[c].end = "open" /\ ~Hung(c)
             next == IF written THEN "read" ELSE "out"
  <2>1. /\ reader' = [reader EXCEPT ![c].pc = next]
        /\ conn' = [conn EXCEPT ![c].banner = written]
    BY <1>4 DEF WriteBanner
  <2>2. next \in Active /\ written \in BOOLEAN
    BY DEF Active
  <2> HIDE DEF next, written
  <2>3. /\ reader' \in Readers /\ reader'[c].pc \in Active
        /\ \A k \in Clients \ {c} : reader'[k] = reader[k]
    BY <1>2, <2>1, <2>2 DEF Readers
  <2>4. Shuts
    <3> DEFINE r == [conn[c] EXCEPT !.banner = written]
    <3>1. conn' = [conn EXCEPT ![c] = r]
      BY <1>2, <2>1 DEF Conns
    <3>2. r \in [end : Ends, owned : BOOLEAN, banner : BOOLEAN, buf : Seq(Lines),
                 peer : {"idle", "dialed", "idling", "sent", "failed"}]
      BY Zenon, <1>2, <2>2 DEF Conns
    <3>3. r.end = conn[c].end /\ r.owned = conn[c].owned /\ r.peer = conn[c].peer
      BY Zenon, <1>2 DEF Conns
    <3> HIDE DEF r
    <3> QED
      BY <1>2, <3>1, <3>2, <3>3 DEF Shuts, Conns, Pipe, Places
  <2> QED
    BY <1>1, <1>3, <2>3, <2>4, ReaderGoesOn DEF Active
<1>5. CASE ReadLine(c)
  <2> DEFINE line == Head(conn[c].buf)
             next == IF line = "other" \/ rt.closed THEN "read" ELSE "emit"
             r == [conn[c] EXCEPT !.buf = Tail(@)]
  <2>1. /\ reader' = [reader EXCEPT ![c].pc = next, ![c].line = line]
        /\ conn' = [conn EXCEPT ![c].buf = Tail(@)] /\ conn[c].buf # << >>
    BY <1>5 DEF ReadLine
  <2>2. next \in Active /\ conn[c].buf \in Seq(Lines)
    BY <1>2 DEF Active, Conns
  <2>3. line \in Lines /\ Tail(conn[c].buf) \in Seq(Lines)
    BY <2>1, <2>2
  <2>4. conn' = [conn EXCEPT ![c] = r]
    BY <1>2, <2>1 DEF Conns
  <2>5. r \in [end : Ends, owned : BOOLEAN, banner : BOOLEAN, buf : Seq(Lines),
               peer : {"idle", "dialed", "idling", "sent", "failed"}]
    BY Zenon, <1>2, <2>3 DEF Conns
  <2>6. r.end = conn[c].end /\ r.owned = conn[c].owned /\ r.peer = conn[c].peer
    BY Zenon, <1>2 DEF Conns
  <2> HIDE DEF line, next, r
  <2>7. /\ reader' \in Readers /\ reader'[c].pc \in Active
        /\ \A k \in Clients \ {c} : reader'[k] = reader[k]
    BY ZenonT(60), <1>2, <2>1, <2>2, <2>3 DEF Readers
  <2>8. Shuts
    BY <1>2, <2>4, <2>5, <2>6 DEF Shuts, Conns, Pipe, Places
  <2> QED
    BY <1>1, <1>3, <2>7, <2>8, ReaderGoesOn DEF Active
<1> QED
  BY <1>4, <1>5

(* What is applied was read by the reader of an admitted client. *)
LEMMA EmitStep ==
    ASSUME Pipe, NEW c \in Clients, Emit(c)
    PROVE  Pipe'
<1>1. /\ UNCHANGED <<scene, srv, lis, conn, slots, closer>> /\ reader[c].pc = "emit"
      /\ heard' = heard \cup {<<c, reader[c].line>>}
      /\ reader' = [reader EXCEPT ![c].pc = "read"]
  BY DEF Emit
<1>2. scene.clients[c].process = "unit"
  BY <1>1 DEF Pipe, Places
<1>3. OnlyUnitHeard'
  BY <1>1, <1>2 DEF Pipe, OnlyUnitHeard
<1>4. /\ reader' \in Readers /\ reader'[c].pc \in Active
      /\ \A k \in Clients \ {c} : reader'[k] = reader[k]
  BY <1>1 DEF Pipe, Typed, Readers, Active
<1> QED
  BY ZenonT(60), <1>1, <1>3, <1>4, Unshut, ReaderGoesOn DEF Active, Pipe

LEMMA ReadEndsStep ==
    ASSUME Pipe, NEW c \in Clients, ReadEnds(c)
    PROVE  Pipe'
<1>1. /\ UNCHANGED <<scene, srv, lis, conn, slots, closer, heard>> /\ reader[c].pc = "read"
      /\ reader' = [reader EXCEPT ![c].pc = "out"]
  BY DEF ReadEnds
<1>2. OnlyUnitHeard'
  BY <1>1 DEF Pipe, OnlyUnitHeard
<1>3. /\ reader' \in Readers /\ reader'[c].pc \in Active
      /\ \A k \in Clients \ {c} : reader'[k] = reader[k]
  BY <1>1 DEF Pipe, Typed, Readers, Active
<1> QED
  BY ZenonT(60), <1>1, <1>2, <1>3, Unshut, ReaderGoesOn DEF Active, Pipe

LEMMA CancelReadStep ==
    ASSUME Pipe, NEW c \in Clients, CancelRead(c)
    PROVE  Pipe'
<1>1. /\ UNCHANGED <<scene, srv, lis, slots, closer, heard>>
      /\ reader[c].pc \in {"banner", "read", "emit"}
      /\ reader' = [reader EXCEPT ![c].tried = TRUE]
  BY DEF CancelRead
<1>2. PICK ok \in BOOLEAN : conn' = CloseConn(c, ok)
  BY DEF CancelRead
<1>3. Shuts
  BY <1>2, Shut DEF Pipe
<1>4. OnlyUnitHeard'
  BY <1>1 DEF Pipe, OnlyUnitHeard
<1>5. reader \in Readers
  BY DEF Pipe, Typed, Readers
<1>6. /\ reader' \in Readers /\ reader'[c].pc \in Active
      /\ \A k \in Clients \ {c} : reader'[k] = reader[k]
  <2> DEFINE r == [reader[c] EXCEPT !.tried = TRUE]
  <2>1. reader' = [reader EXCEPT ![c] = r]
    BY <1>1, <1>5 DEF Readers
  <2>2. r \in [pc : Active \cup {"none", "done"}, line : Lines, tried : BOOLEAN]
    BY Zenon, <1>5 DEF Readers
  <2>3. r.pc = reader[c].pc
    BY Zenon, <1>5 DEF Readers
  <2> HIDE DEF r
  <2> QED
    BY ZenonT(60), <1>1, <1>5, <2>1, <2>2, <2>3 DEF Readers, Active
<1> QED
  BY ZenonT(60), <1>1, <1>3, <1>4, <1>6, ReaderGoesOn DEF Active

(* A reader that leaves gives its slot back. *)
LEMMA ReaderLeavesStep ==
    ASSUME Pipe, NEW c \in Clients, ReaderLeaves(c)
    PROVE  Pipe'
<1>1. /\ UNCHANGED <<scene, srv, lis, closer, heard>> /\ Clients' = Clients
      /\ reader[c].pc = "out" /\ slots' = slots \ {c}
      /\ reader' = [reader EXCEPT ![c].pc = "done"]
  BY DEF ReaderLeaves, Clients
<1>2. PICK ok \in BOOLEAN : conn' = CloseConn(c, ok)
  BY DEF ReaderLeaves
<1>3. Shuts
  BY <1>2, Shut DEF Pipe
<1>4. /\ reader' \in Readers /\ reader'[c].pc = "done"
      /\ \A k \in Clients \ {c} : reader'[k] = reader[k]
  BY <1>1 DEF Pipe, Typed, Readers
<1>5. Typed'
  <2>1. conn' \in Conns
    BY <1>3 DEF Shuts
  <2> QED
    BY <1>1, <1>4, <2>1 DEF Pipe, Typed, Conns, Readers
<1>6. ASSUME NEW k \in Clients
      PROVE  /\ conn'[k].peer = "idle" => conn'[k].end = "none"
             /\ conn'[k].owned <=> conn'[k].end = "open"
             /\ reader'[k].pc # "none" => /\ conn'[k].end \in {"open", "closed"}
                                          /\ scene.clients[k].process = "unit"
             /\ conn[k].end \in {"open", "closed"} => conn'[k].end \in {"open", "closed"}
             /\ conn'[k].end = "open" => conn[k].end = "open"
  <2>1. reader'[k].pc # "none" => reader[k].pc # "none"
    BY <1>1, <1>4
  <2>2. /\ conn[k].peer = "idle" => conn[k].end = "none"
        /\ reader[k].pc # "none" => /\ conn[k].end \in {"open", "closed"}
                                    /\ scene.clients[k].process = "unit"
    BY DEF Pipe, Places
  <2>3. /\ conn'[k].peer = conn[k].peer
        /\ conn'[k].owned <=> conn'[k].end = "open"
        /\ \/ conn'[k].end = conn[k].end
           \/ conn[k].end = "open" /\ conn'[k].end = "closed"
    BY <1>3 DEF Shuts
  <2> QED
    BY <2>1, <2>2, <2>3
<1>7. Places'
  BY <1>1, <1>6 DEF Places
<1>8. Held' /\ OnlyUnitHeard'
  BY <1>1, <1>4, <1>6 DEF Pipe, Held, OnlyUnitHeard
<1>9. Closes'
  <2>1. Typed /\ Closes
    BY DEF Pipe
  <2> QED
    BY <1>1, <1>6, <2>1, ClosesKept
<1>10. SlotsExact'
  <2> DEFINE held == IF srv.pc = "access" THEN {srv.held} ELSE {}
  <2>1. slots = {k \in Clients : reader[k].pc \in {"banner", "read", "emit", "out"}} \cup held
    BY DEF Pipe, SlotsExact
  <2>2. c \notin held
    BY <1>1 DEF Pipe, Held
  <2> HIDE DEF held
  <2>3. slots' = {k \in Clients : reader'[k].pc \in {"banner", "read", "emit", "out"}} \cup held
    BY <1>1, <1>4, <2>1, <2>2
  <2>4. Cardinality(slots') <= MaxConnections
    BY <1>1, SlotFreed
  <2> QED
    BY <1>1, <2>3, <2>4 DEF SlotsExact, held
<1> QED
  BY <1>5, <1>7, <1>8, <1>9, <1>10 DEF Pipe

-----------------------------------------------------------------------------
(* Closing the endpoint. *)

Listeners == [closing : BOOLEAN, closed : BOOLEAN, mu : Closers \cup {"free"}]
Attempts == [pc : {"idle", "lock", "native", "accepts", "clients", "wait", "failed", "left", "ok"},
             todo : SUBSET Clients, err : BOOLEAN]

(* A step of a close, once it is known to keep the closes in order. *)
LEMMA CloserStep ==
    ASSUME Pipe, UNCHANGED <<scene, srv, reader, slots, heard>>, Shuts,
           lis' \in Listeners, closer' \in [Closers -> Attempts], Closes'
    PROVE  Pipe'
<1>1. Clients' = Clients /\ conn' \in Conns
  BY DEF Clients, Shuts
<1>2. Typed'
  BY <1>1 DEF Pipe, Typed, Conns, Listeners, Attempts
<1>3. Places'
  BY PlacesKept DEF Pipe
<1>4. Held'
  BY <1>1 DEF Pipe, Held, Shuts
<1>5. SlotsExact' /\ OnlyUnitHeard'
  BY Zenon, <1>1 DEF Pipe, SlotsExact, OnlyUnitHeard
<1> QED
  BY <1>2, <1>3, <1>4, <1>5 DEF Pipe

(* Only the attempt of p moves, the listener is not reopened. *)
LEMMA OneCloser ==
    ASSUME Pipe, NEW p \in Closers, UNCHANGED <<scene, srv>>, Shuts,
           lis' \in Listeners, lis.closing => lis'.closing, lis.closed => lis'.closed,
           lis'.closed => lis'.closing,
           \A q \in Closers \ {p} : closer'[q] = closer[q], Closing(p)',
           closer'["owner"].pc = "ok" => srv.pc = "done"
    PROVE  Closes'
<1>1. Clients' = Clients
  BY DEF Clients
<1>2. ASSUME NEW q \in Closers, q # p
      PROVE  Closing(q)'
  <2>1. Closing(q) /\ closer'[q] = closer[q]
    BY <1>2 DEF Pipe, Closes
  <2>2. \A c \in Clients : conn'[c].end = "open" => conn[c].end = "open"
    BY DEF Shuts
  <2> QED
    BY <1>1, <2>1, <2>2 DEF Closing
<1>3. \A q \in Closers : Closing(q)'
  BY <1>2
<1> QED
  BY <1>3 DEF Closes, Closers

(* Typing and framing of an attempt. *)
LEMMA Attempted ==
    ASSUME Pipe, NEW p \in Closers, NEW a \in Attempts, closer' = [closer EXCEPT ![p] = a]
    PROVE  /\ closer' \in [Closers -> Attempts] /\ closer'[p] = a
           /\ \A q \in Closers \ {p} : closer'[q] = closer[q]
  BY DEF Pipe, Typed, Attempts

(* notifyRuntime.Close begins a new attempt, and the first one starts that *)
(* of the AfterFunc: neither has come far. *)
LEMMA CloseStep ==
    ASSUME Pipe, Close
    PROVE  Pipe'
<1> DEFINE fresh == [pc |-> "lock", todo |-> {}, err |-> FALSE]
           next == IF rt.closed \/ srv.pc \in {"wait", "done"} THEN closer["after"].pc ELSE "lock"
           after == [closer["after"] EXCEPT !.pc = next]
<1>1. /\ UNCHANGED <<scene, srv, lis, conn, reader, slots, heard>>
      /\ closer' = [closer EXCEPT !["owner"] = fresh, !["after"].pc = next]
  BY DEF Close
<1>2. closer \in [Closers -> Attempts] /\ lis \in Listeners
  BY DEF Pipe, Typed, Attempts, Listeners
<1>3. fresh \in Attempts /\ fresh.pc = "lock"
  BY DEF Attempts
<1>4. /\ after \in Attempts /\ after.pc \in {closer["after"].pc, "lock"}
      /\ after.todo = closer["after"].todo /\ after.err = closer["after"].err
  <2>1. next \in {closer["after"].pc, "lock"} /\ closer["after"] \in Attempts
    BY <1>2 DEF Closers
  <2> HIDE DEF next
  <2> QED
    BY <2>1 DEF Attempts
<1>5. closer' = [closer EXCEPT !["owner"] = fresh, !["after"] = after]
  BY <1>1, <1>2 DEF Closers
<1> HIDE DEF fresh, after
<1>6. /\ closer' \in [Closers -> Attempts] /\ closer'["owner"] = fresh
      /\ closer'["after"] = after
  BY <1>2, <1>3, <1>4, <1>5 DEF Closers
<1>7. Closing("owner")'
  BY <1>3, <1>6 DEF Closing
<1>8. Closing("after")'
  <2>1. Closing("after") /\ Clients' = Clients
    BY <1>1 DEF Pipe, Closes, Closers, Clients
  <2> QED
    BY <1>1, <1>4, <1>6, <2>1 DEF Closing
<1>9. Closes'
  BY <1>1, <1>3, <1>6, <1>7, <1>8 DEF Pipe, Closes, Closers
<1> QED
  BY <1>1, <1>2, <1>6, <1>9, Unshut, CloserStep DEF Pipe

LEMMA CloseLockStep ==
    ASSUME Pipe, NEW p \in Closers, CloseLock(p)
    PROVE  Pipe'
<1> DEFINE a == [closer[p] EXCEPT !.pc = "native"]
<1>1. /\ UNCHANGED <<scene, srv, conn, reader, slots, heard>>
      /\ lis' = [lis EXCEPT !.mu = p, !.closing = TRUE]
      /\ closer' = [closer EXCEPT ![p].pc = "native"]
  BY DEF CloseLock
<1>2. closer \in [Closers -> Attempts] /\ lis \in Listeners
  BY DEF Pipe, Typed, Attempts, Listeners
<1>3. a \in Attempts /\ a.pc = "native" /\ closer' = [closer EXCEPT ![p] = a]
  BY <1>1, <1>2 DEF Attempts
<1> HIDE DEF a
<1>4. lis' \in Listeners /\ lis'.closing = TRUE /\ lis'.closed = lis.closed
  BY Zenon, <1>1, <1>2 DEF Listeners
<1>5. /\ closer' \in [Closers -> Attempts] /\ closer'[p] = a
      /\ \A q \in Closers \ {p} : closer'[q] = closer[q]
  BY ZenonT(60), <1>3, Attempted
<1>6. Closing(p)'
  BY <1>3, <1>4, <1>5 DEF Closing
<1>7. closer'["owner"].pc = "ok" => srv.pc = "done"
  BY <1>3, <1>5 DEF Pipe, Closes, Closers
<1>8. Shuts
  BY <1>1, Unshut DEF Pipe
<1>9. Closes'
  BY <1>1, <1>4, <1>5, <1>6, <1>7, <1>8, OneCloser
<1> QED
  BY <1>1, <1>4, <1>5, <1>8, <1>9, CloserStep

(* A close of the listener that reports no error has closed it. *)
LEMMA CloseNativeStep ==
    ASSUME Pipe, NEW p \in Closers, CloseNative(p)
    PROVE  Pipe'
<1>1. PICK ok \in BOOLEAN : /\ lis' = [lis EXCEPT !.closed = @ \/ ok]
                            /\ closer' = [closer EXCEPT ![p].pc = "accepts", ![p].err = ~ok]
  BY ZenonT(60) DEF CloseNative
<1> DEFINE bad == ~ok
           shut == lis.closed \/ ok
           a == [closer[p] EXCEPT !.pc = "accepts", !.err = bad]
<1>2. UNCHANGED <<scene, srv, conn, reader, slots, heard>> /\ closer[p].pc = "native"
  BY DEF CloseNative
<1>3. closer \in [Closers -> Attempts] /\ lis \in Listeners
  BY DEF Pipe, Typed, Attempts, Listeners
<1>4. bad \in BOOLEAN /\ shut \in BOOLEAN /\ (bad \/ shut)
      /\ (lis.closed => shut)
  BY <1>3 DEF Listeners
<1>5. lis' = [lis EXCEPT !.closed = shut] /\ closer' = [closer EXCEPT ![p] = a]
  BY ZenonT(60), <1>1, <1>3 DEF Listeners, Attempts
<1> HIDE DEF bad, shut
<1>6. lis' \in Listeners /\ lis'.closing = lis.closing /\ lis'.closed = shut
  BY Zenon, <1>3, <1>4, <1>5 DEF Listeners
<1>7. a \in Attempts /\ a.pc = "accepts" /\ a.err = bad
  BY Zenon, <1>3, <1>4 DEF Attempts
<1> HIDE DEF a
<1>8. /\ closer' \in [Closers -> Attempts] /\ closer'[p] = a
      /\ \A q \in Closers \ {p} : closer'[q] = closer[q]
  BY ZenonT(60), <1>5, <1>7, Attempted
<1>9. lis.closing
  BY <1>2 DEF Pipe, Closes, Closing
<1>10. Closing(p)'
  BY <1>4, <1>6, <1>7, <1>8 DEF Closing
<1>11. closer'["owner"].pc = "ok" => srv.pc = "done"
  BY <1>7, <1>8 DEF Pipe, Closes, Closers
<1>12. Shuts
  BY <1>2, Unshut DEF Pipe
<1>13. Closes'
  BY <1>2, <1>4, <1>6, <1>8, <1>9, <1>10, <1>11, <1>12, OneCloser
<1> QED
  BY <1>2, <1>6, <1>8, <1>12, <1>13, CloserStep

(* The list of clients to close is made after the last accept: it misses   *)
(* none. *)
LEMMA CloseClientsStep ==
    ASSUME Pipe, NEW p \in Closers, CloseClients(p)
    PROVE  Pipe'
<1> DEFINE todo == {c \in Clients : conn[c].owned}
           a == [closer[p] EXCEPT !.pc = "clients", !.todo = todo]
<1>1. /\ UNCHANGED <<scene, srv, lis, conn, reader, slots, heard>>
      /\ closer[p].pc = "accepts" /\ (lis.closed => srv.pc # "accept")
      /\ closer' = [closer EXCEPT ![p].pc = "clients", ![p].todo = todo]
  BY DEF CloseClients, AcceptsOver
<1>2. closer \in [Closers -> Attempts] /\ lis \in Listeners
  BY DEF Pipe, Typed, Attempts, Listeners
<1>3. todo \in SUBSET Clients /\ \A c \in Clients : conn[c].end = "open" => c \in todo
  BY DEF Pipe, Places
<1>4. closer' = [closer EXCEPT ![p] = a]
  BY ZenonT(60), <1>1, <1>2 DEF Attempts
<1> HIDE DEF todo
<1>5. a \in Attempts /\ a.pc = "clients" /\ a.todo = todo /\ a.err = closer[p].err
  BY Zenon, <1>2, <1>3 DEF Attempts
<1> HIDE DEF a
<1>6. /\ closer' \in [Closers -> Attempts] /\ closer'[p] = a
      /\ \A q \in Closers \ {p} : closer'[q] = closer[q]
  BY ZenonT(60), <1>4, <1>5, Attempted
<1>7. Closing(p)'
  <2>1. Closing(p) /\ Clients' = Clients
    BY <1>1 DEF Pipe, Closes, Clients
  <2> QED
    BY <1>1, <1>3, <1>5, <1>6, <2>1 DEF Closing
<1>8. closer'["owner"].pc = "ok" => srv.pc = "done"
  BY <1>5, <1>6 DEF Pipe, Closes, Closers
<1>9. Shuts
  BY <1>1, Unshut DEF Pipe
<1>10. Closes'
  BY ZenonT(60), <1>1, <1>2, <1>6, <1>7, <1>8, <1>9, OneCloser DEF Pipe, Closes
<1> QED
  BY <1>1, <1>2, <1>6, <1>9, <1>10, CloserStep

(* A client leaves the list closed, or the attempt has an error. *)
LEMMA CloseClientStep ==
    ASSUME Pipe, NEW p \in Closers, NEW c \in Clients, CloseClient(p, c)
    PROVE  Pipe'
<1>1. PICK ok \in BOOLEAN :
         /\ conn' = CloseConn(c, ok)
         /\ closer' = [closer EXCEPT ![p].todo = @ \ {c}, ![p].err = @ \/ ~ok]
  BY ZenonT(60) DEF CloseClient
<1> DEFINE bad == closer[p].err \/ ~ok
           todo == closer[p].todo \ {c}
           a == [closer[p] EXCEPT !.todo = todo, !.err = bad]
<1>2. /\ UNCHANGED <<scene, srv, lis, reader, slots, heard>> /\ closer[p].pc = "clients"
  BY DEF CloseClient
<1>3. closer \in [Closers -> Attempts] /\ lis \in Listeners
  BY DEF Pipe, Typed, Attempts, Listeners
<1>4. bad \in BOOLEAN /\ todo \in SUBSET Clients
  BY <1>3 DEF Attempts
<1>5. Shuts /\ (ok => conn'[c].end # "open")
  BY <1>1, Shut DEF Pipe
<1>6. closer' = [closer EXCEPT ![p] = a]
  BY ZenonT(60), <1>1, <1>3 DEF Attempts
<1>7. a \in Attempts /\ a.pc = closer[p].pc /\ a.todo = todo /\ a.err = bad
  <2> HIDE DEF bad, todo
  <2> QED
    BY Zenon, <1>3, <1>4 DEF Attempts
<1> HIDE DEF a
<1>8. /\ closer' \in [Closers -> Attempts] /\ closer'[p] = a
      /\ \A q \in Closers \ {p} : closer'[q] = closer[q]
  BY ZenonT(60), <1>6, <1>7, Attempted
<1>9. Closing(p)'
  <2>1. Closing(p) /\ Clients' = Clients
    BY <1>2 DEF Pipe, Closes, Clients
  <2>2. /\ bad \/ lis.closed
        /\ bad \/ srv.pc # "accept"
    BY <1>2, <2>1 DEF Closing
  <2>3. ASSUME ~bad, NEW k \in Clients, conn'[k].end = "open"
        PROVE  k \in todo
    <3>1. k # c /\ ~closer[p].err
      BY <1>5, <2>3
    <3>2. conn[k].end = "open"
      BY <1>5, <2>3 DEF Shuts
    <3> QED
      BY <1>2, <2>1, <3>1, <3>2 DEF Closing
  <2> HIDE DEF bad, todo
  <2>4. closer'[p].pc = "clients" /\ closer'[p].err = bad /\ closer'[p].todo = todo
    BY <1>2, <1>7, <1>8
  <2> QED
    BY <1>2, <2>1, <2>2, <2>3, <2>4 DEF Closing
<1>10. closer'["owner"].pc = "ok" => srv.pc = "done"
  BY <1>2, <1>7, <1>8 DEF Pipe, Closes, Closers
<1>11. Closes'
  BY <1>2, <1>3, <1>5, <1>8, <1>9, <1>10, OneCloser DEF Pipe, Closes
<1> QED
  BY <1>2, <1>3, <1>5, <1>8, <1>11, CloserStep

(* The attempt ends without error only with nothing open. *)
LEMMA CloseUnlockStep ==
    ASSUME Pipe, NEW p \in Closers, CloseUnlock(p)
    PROVE  Pipe'
<1> DEFINE next == CASE p = "after" -> "left" [] closer[p].err -> "failed" [] OTHER -> "wait"
           a == [closer[p] EXCEPT !.pc = next]
<1>1. /\ UNCHANGED <<scene, srv, conn, reader, slots, heard>>
      /\ lis' = [lis EXCEPT !.mu = "free"]
      /\ closer[p].pc = "clients" /\ closer[p].todo = {}
      /\ closer' = [closer EXCEPT ![p].pc = next]
  BY DEF CloseUnlock
<1>2. closer \in [Closers -> Attempts] /\ lis \in Listeners
  BY DEF Pipe, Typed, Attempts, Listeners
<1>3. next \in {"left", "failed", "wait"} /\ (next = "wait" => ~closer[p].err)
  OBVIOUS
<1>4. closer' = [closer EXCEPT ![p] = a]
  BY <1>1, <1>2 DEF Attempts
<1> HIDE DEF next
<1>5. a \in Attempts /\ a.pc = next
  BY <1>2, <1>3 DEF Attempts
<1> HIDE DEF a
<1>6. lis' \in Listeners /\ lis'.closing = lis.closing /\ lis'.closed = lis.closed
  BY Zenon, <1>1, <1>2 DEF Listeners
<1>7. /\ closer' \in [Closers -> Attempts] /\ closer'[p] = a
      /\ \A q \in Closers \ {p} : closer'[q] = closer[q]
  BY ZenonT(60), <1>4, <1>5, Attempted
<1>8. Closing(p)'
  <2>1. Closing(p) /\ Clients' = Clients
    BY <1>1 DEF Pipe, Closes, Clients
  <2> QED
    BY <1>1, <1>3, <1>5, <1>6, <1>7, <2>1 DEF Closing
<1>9. closer'["owner"].pc = "ok" => srv.pc = "done"
  BY <1>3, <1>5, <1>7 DEF Pipe, Closes, Closers
<1>10. Shuts
  BY <1>1, Unshut DEF Pipe
<1>11. Closes'
  BY <1>1, <1>6, <1>7, <1>8, <1>9, <1>10, OneCloser DEF Pipe, Closes
<1> QED
  BY <1>1, <1>6, <1>7, <1>10, <1>11, CloserStep

LEMMA CloseReturnsStep ==
    ASSUME Pipe, CloseReturns
    PROVE  Pipe'
<1> DEFINE a == [closer["owner"] EXCEPT !.pc = "ok"]
<1>1. /\ UNCHANGED <<scene, srv, lis, conn, reader, slots, heard>>
      /\ closer["owner"].pc = "wait" /\ srv.pc = "done"
      /\ closer' = [closer EXCEPT !["owner"].pc = "ok"]
  BY DEF CloseReturns
<1>2. closer \in [Closers -> Attempts] /\ lis \in Listeners /\ "owner" \in Closers
  BY DEF Pipe, Typed, Attempts, Listeners, Closers
<1>3. a \in Attempts /\ a.pc = "ok" /\ closer' = [closer EXCEPT !["owner"] = a]
  BY <1>1, <1>2 DEF Attempts
<1> HIDE DEF a
<1>4. /\ closer' \in [Closers -> Attempts] /\ closer'["owner"] = a
      /\ \A q \in Closers \ {"owner"} : closer'[q] = closer[q]
  BY <1>2, <1>3, Attempted
<1>5. Closing("owner")'
  <2>1. Closing("owner") /\ Clients' = Clients
    BY <1>1, <1>2 DEF Pipe, Closes, Clients
  <2> QED
    BY <1>1, <1>3, <1>4, <2>1 DEF Closing
<1>6. Shuts
  BY <1>1, Unshut DEF Pipe
<1>7. Closes'
  BY <1>1, <1>2, <1>4, <1>5, <1>6, OneCloser DEF Pipe, Closes
<1> QED
  BY <1>1, <1>2, <1>4, <1>6, <1>7, CloserStep

-----------------------------------------------------------------------------
LEMMA InitIInv ==
    ASSUME ScenariosSound, Init
    PROVE  IInv
<1>1. Sound(scene) /\ MaxConnections \in Nat /\ IsFiniteSet(Clients)
  BY DEF Init, ScenariosSound, Sound, Clients
<1>2. Typed
  <2>1. NoConn \in [end : Ends, owned : BOOLEAN, banner : BOOLEAN, buf : Seq(Lines),
                    peer : {"idle", "dialed", "idling", "sent", "failed"}]
    BY DEF NoConn, Ends
  <2>2. conn \in Conns
    BY <2>1 DEF Init, Conns
  <2>3. reader \in Readers
    BY DEF Init, Readers, Lines
  <2>4. lis \in Listeners /\ closer \in [Closers -> Attempts]
    BY SMTT(60) DEF Init, Listeners, Attempts, Closers
  <2>5. DOMAIN srv = {"pc", "held"} /\ srv.pc = "top"
    BY SMTT(60) DEF Init
  <2> QED
    BY <1>1, <2>2, <2>3, <2>4, <2>5 DEF Typed, Readers, Listeners, Attempts
<1>3. Places /\ Held /\ Closes /\ OnlyUnitHeard
  BY ZenonT(60) DEF Init, Places, Held, Closes, Closing, OnlyUnitHeard, NoConn, Closers
<1>4. Timed
  BY DEF Init, Timed, Dogs, TimeoutEarned
<1>5. SlotsExact
  <2>1. Cardinality({}) = 0
    BY FS_EmptySet
  <2> QED
    BY <1>1, <2>1 DEF Init, SlotsExact
<1> QED
  BY <1>2, <1>3, <1>4, <1>5 DEF IInv

(* The part about the pipe and the part about the watchdog together. *)
LEMMA NotifyStep ==
    ASSUME IInv, [Next]_vars
    PROVE  IInv'
<1>1. Pipe /\ Timed /\ Sound(scene)
  BY DEF IInv, Pipe, Typed
<1>2. Pipe' /\ Timed' => IInv'
  BY DEF IInv, Pipe
<1>3. CASE UNCHANGED vars
  BY <1>1, <1>2, <1>3, SamePipe, SameDog DEF vars
<1>4. ASSUME SetMain \/ startWatchdog \/ Tick \/ TakePulse \/ WatchdogExpires \/ Probe \/ stopWatchdog
      PROVE  IInv'
  <2>1. UNCHANGED <<scene, srv, lis, conn, reader, slots, closer, heard>>
    BY ZenonT(60), <1>4 DEF SetMain, startWatchdog, Tick, TakePulse,
       WatchdogExpires, Probe, stopWatchdog
  <2>2. Pipe'
    BY <1>1, <2>1, SamePipe
  <2>3. SetMain => UNCHANGED dog
    BY DEF SetMain
  <2>4. Timed'
    BY <1>1, <1>4, <2>1, <2>3, SameDog, StartDog, TickDog, PulseDog, ExpireDog, ProbeDog, StopDog
  <2> QED
    BY SMTT(60), <1>2, <2>2, <2>4
<1>5. ASSUME ServeTop \/ AcceptFails \/ Excess \/ TakeSlot \/ Refuse \/ Admit \/ ServeReturns
             \/ CloseReturns \/ Close
      PROVE  IInv'
  <2>1. Timed'
    BY <1>1, <1>5, SameDog
       DEF ServeTop, AcceptFails, Excess, TakeSlot, Refuse, Admit, ServeReturns, CloseReturns, Close
  <2>2. Pipe'
    BY <1>1, <1>5, ServeStep, TakeSlotStep, TurnAwayStep, AdmitStep, CloseReturnsStep, CloseStep
  <2> QED
    BY <1>2, <2>1, <2>2
<1>6. ASSUME NEW c \in Clients,
             \/ Accept(c) \/ WriteBanner(c) \/ ReadLine(c) \/ Emit(c) \/ ReadEnds(c)
             \/ ReaderLeaves(c) \/ CancelRead(c) \/ Dial(c) \/ Send(c) \/ GiveUp(c)
      PROVE  IInv'
  <2>1. Timed'
    BY ZenonT(60), <1>1, <1>6, SameDog
       DEF Accept, WriteBanner, ReadLine, Emit, ReadEnds, ReaderLeaves, CancelRead, Dial, Send, GiveUp
  <2>2. Pipe'
    BY <1>1, <1>6, AcceptStep, ReadStep, EmitStep, ReadEndsStep, ReaderLeavesStep,
       CancelReadStep, ClientStep
  <2> QED
    BY SMTT(60), <1>2, <2>1, <2>2
<1>7. ASSUME NEW p \in Closers,
             \/ CloseLock(p) \/ CloseNative(p) \/ CloseClients(p) \/ CloseUnlock(p)
             \/ \E c \in Clients : CloseClient(p, c)
      PROVE  IInv'
  <2>1. Timed'
    BY ZenonT(60), <1>1, <1>7, SameDog
       DEF CloseLock, CloseNative, CloseClients, CloseUnlock, CloseClient
  <2>2. Pipe'
    BY <1>1, <1>7, CloseLockStep, CloseNativeStep, CloseClientsStep, CloseUnlockStep,
       CloseClientStep
  <2> QED
    BY <1>2, <2>1, <2>2
<1>8. CASE Next
  BY <1>4, <1>5, <1>6, <1>7, <1>8 DEF Next, Progress
<1> QED
  BY <1>3, <1>8

(* A Close that has returned without error saw the accept loop end, and    *)
(* nothing opened since. *)
LEMMA InvariantSound ==
    ASSUME IInv
    PROVE  NotifySound
<1>1. ASSUME closer["owner"].pc = "ok"
      PROVE  /\ srv.pc = "done" /\ lis.closed /\ slots = {}
             /\ \A c \in Clients : conn[c].end # "open" /\ reader[c].pc \in {"none", "done"}
  <2>1. srv.pc = "done" /\ Closing("owner")
    BY <1>1 DEF IInv, Closes, Closers
  <2>2. lis.closed /\ \A c \in Clients : conn[c].end # "open"
    BY <1>1, <2>1 DEF Closing
  <2>3. \A c \in Clients : reader[c].pc \in {"none", "done"}
    BY <2>1 DEF IInv, Held
  <2>4. slots = {}
    BY <2>1, <2>3 DEF IInv, SlotsExact
  <2> QED
    BY <2>1, <2>2, <2>3, <2>4
<1>2. CloseProves
  BY <1>1 DEF CloseProves
<1> QED
  BY <1>2 DEF IInv, Timed, NotifySound

(* For all clients, slots, failing closes and watchdogs: only lines of     *)
(* admitted processes of the unit are applied, a slot is held exactly by a *)
(* client under authorization or being read, a Close of the endpoint that  *)
(* returns without error leaves no accept loop, reader or open client      *)
(* behind, and the watchdog fires only after the time without a sign of    *)
(* life its interval and threshold ask for (ServeAccept, onMessage,        *)
(* notifyCloseListener.Close, watchdogLoop, probeWatchdogLoop). *)
THEOREM NotifyIsSound ==
    ASSUME ScenariosSound
    PROVE  Spec => []NotifySound
<1>1. Init => IInv
  BY InitIInv
<1>2. IInv /\ [Next]_vars => IInv'
  BY NotifyStep
<1>3. IInv => NotifySound
  BY InvariantSound
<1> QED
  BY <1>1, <1>2, <1>3, PTL DEF Spec
=============================================================================
