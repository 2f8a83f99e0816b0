---------------------------- MODULE ControlPipe ----------------------------
(***************************************************************************)
(* The control protocol: the server's accept loop, connection and handler  *)
(* admission, authorization and dispatch (internal/protocol server.go,     *)
(* admission.go, auth.go, auth_windows.go, codec.go, message.go), and the  *)
(* client that callers of package client share (protocol client.go,        *)
(* client/client.go).                                                      *)
(*                                                                         *)
(* A message is what its reader can tell of it.  A connection is a stream  *)
(* each way.  A method stands for itself; "garbage" is a line that does    *)
(* not decode or is too long, "foreign" one of another protocol version,   *)
(* "unknown" a method the server does not know.                            *)
(***************************************************************************)
EXTENDS Integers, Sequences, FiniteSets

CONSTANT
  Scenarios  \* [conns, calls, limits, only, imp, waits, stop]: the identity of
             \* each connection, the calls (each on a connection), the server's
             \* limits, the one method of the maintenance endpoint ("" on the
             \* control endpoint), whether contexts end, idle connections
             \* time out, and the server is stopped

VARIABLES
  scene,
  serve,   \* the serving lifetime: [pc, ctx, listening]
  slots,   \* taken slots: connections, requests, stops, diagnostics
  srv,     \* each connection at the server: [pc, peer, req, resp]
  pipe,    \* each connection's streams: [up, down, open, closed]
  client,  \* each connection's Client: [turn, closed, deadline, next]
  call     \* the calls: [pc, id, ctx, fired, out, got]

vars == <<scene, serve, slots, srv, pipe, client, call>>
Conns == DOMAIN scene.conns
(* The requests, each by one of the client's helpers.                      *)
Calls == DOMAIN scene.calls
Of(r) == scene.calls[r].conn

-----------------------------------------------------------------------------
(* Identity.  A connection is opened with a token; the process that opened *)
(* it has another.                                                         *)
Nobody == [system |-> FALSE, admin |-> FALSE, owner |-> FALSE]
Peer(token) == [system |-> token = "system", admin |-> token = "admin", owner |-> token = "owner"]
Allowed(p) == p.system \/ p.admin \/ p.owner
CanLinger(p) == p.admin \/ p.system

(* peerFromLookups: once impersonation succeeded, a failure to query or to *)
(* revert is final; serveConn gives such a connection no rights.           *)
PeerFromLookups(c) ==
  CASE c.imp = "ok"       -> Peer(c.token)
    [] c.imp = "identity" -> Nobody
    [] OTHER              -> IF c.pid = "ok" THEN Peer(c.process) ELSE Nobody

-----------------------------------------------------------------------------
(* Methods and their handler slots.                                        *)
Known == {"start", "stop", "status", "logs", "enable-linger", "disable-linger", "maintenance"}
AdministrativeMethod(m) == m \in {"enable-linger", "disable-linger", "maintenance"}

(* admittedHandler.Handle.                                                 *)
Class(m) ==
  CASE m \in {"stop", "disable-linger", "maintenance"} -> "stops"
    [] m = "status" -> "diagnostics"
    [] OTHER -> "requests"

Response(id, out, tag) == [id |-> id, out |-> out, tag |-> tag]

(* dispatch, up to the handler: the refusal, or "handle".                  *)
Dispatch(p, req) ==
  CASE req.method = "foreign"  -> "mismatch"
    [] ~Allowed(p)             -> "denied"
    [] req.method \notin Known -> "no method"
    [] AdministrativeMethod(req.method) /\ ~CanLinger(p) -> "denied"
    [] OTHER                   -> "handle"

-----------------------------------------------------------------------------
Classes == {"connections", "requests", "stops", "diagnostics"}
Methods == Known \cup {"garbage", "foreign", "unknown", "none"}

(* What a scenario is: finitely many connections, each with one of the     *)
(* three outcomes of identifying its client, calls numbered from one on    *)
(* these connections, and limits that are numbers.                         *)
Sound(s) ==
  /\ IsFiniteSet(DOMAIN s.conns)
  /\ \A k \in DOMAIN s.conns : s.conns[k].imp \in {"ok", "identity", "noimp"}
  /\ DOMAIN s.calls \subseteq Nat \ {0}
  /\ \A r \in DOMAIN s.calls : /\ s.calls[r].conn \in DOMAIN s.conns
                               /\ s.calls[r].method \in Methods
                               /\ s.calls[r].deadline \in BOOLEAN
  /\ s.limits \in [Classes -> Nat]

ScenariosSound == \A s \in Scenarios : Sound(s)

-----------------------------------------------------------------------------
Init ==
  /\ scene \in Scenarios
  /\ serve = [pc |-> "accept", ctx |-> "live", listening |-> TRUE]
  /\ slots = [connections |-> 0, requests |-> 0, stops |-> 0, diagnostics |-> 0]
  /\ srv = [k \in DOMAIN scene.conns |->
             [pc |-> "backlog", peer |-> Nobody, req |-> [id |-> 0, method |-> "none", tag |-> 0],
              resp |-> Response(0, "none", 0), last |-> FALSE]]
  /\ pipe = [k \in DOMAIN scene.conns |-> [up |-> <<>>, down |-> <<>>, open |-> TRUE]]
  /\ client = [k \in DOMAIN scene.conns |->
                [turn |-> 0, closed |-> FALSE, deadline |-> "none", next |-> 0]]
  /\ call = [r \in DOMAIN scene.calls |->
              [pc |-> "idle", id |-> 0, ctx |-> "live", fired |-> "no", out |-> "none", got |-> 0]]

(* The server.                                                             *)
Taken(class, n) == [slots EXCEPT ![class] = @ + n]
Shut(k) == [pipe EXCEPT ![k].open = FALSE]

(* ServeWithLimits: a connection beyond the cap is closed undecoded.       *)
Accept(k) ==
  /\ serve.pc = "accept" /\ serve.listening /\ srv[k].pc = "backlog"
  /\ IF slots.connections < scene.limits.connections
     THEN /\ slots' = Taken("connections", 1)
          /\ srv' = [srv EXCEPT ![k].pc = "authorize"]
          /\ UNCHANGED pipe
     ELSE /\ srv' = [srv EXCEPT ![k].pc = "closed"]
          /\ pipe' = Shut(k) /\ UNCHANGED slots
  /\ UNCHANGED <<scene, serve, client, call>>

(* The caller cancels, or Accept fails by itself.                          *)
StopServing ==
  /\ scene.stop /\ serve.pc = "accept"
  /\ \/ serve.ctx = "live" /\ serve' = [serve EXCEPT !.ctx = "done"]
     \/ serve' = [serve EXCEPT !.pc = "leave"]
  /\ UNCHANGED <<scene, slots, srv, pipe, client, call>>

(* The loop ends: its deferred cancel, then the wait for the closer.       *)
LeaveLoop ==
  /\ \/ serve.pc = "leave"
     \/ serve.pc = "accept" /\ ~serve.listening
  /\ serve' = [serve EXCEPT !.pc = "closing", !.ctx = "done"]
  /\ UNCHANGED <<scene, slots, srv, pipe, client, call>>

CloseListener ==
  /\ serve.ctx = "done" /\ serve.listening
  /\ serve' = [serve EXCEPT !.listening = FALSE]
  /\ pipe' = [k \in Conns |-> IF srv[k].pc = "backlog" THEN Shut(k)[k] ELSE pipe[k]]
  /\ srv' = [k \in Conns |-> IF srv[k].pc = "backlog" THEN [srv[k] EXCEPT !.pc = "closed"] ELSE srv[k]]
  /\ UNCHANGED <<scene, slots, client, call>>

ServeReturns ==
  /\ serve.pc = "closing" /\ ~serve.listening
  /\ serve' = [serve EXCEPT !.pc = "returned"]
  /\ UNCHANGED <<scene, slots, srv, pipe, client, call>>

(* serveConnWithTimeouts.                                                  *)
Authorize(k) ==
  /\ srv[k].pc = "authorize"
  /\ srv' = [srv EXCEPT ![k].pc = "read", ![k].peer = PeerFromLookups(scene.conns[k])]
  /\ UNCHANGED <<scene, serve, slots, pipe, client, call>>

EndConn(k) ==
  /\ srv' = [srv EXCEPT ![k].pc = "closed"]
  /\ pipe' = Shut(k) /\ slots' = Taken("connections", -1)

Respond(k, out, last) ==
  srv' = [srv EXCEPT ![k].pc = "write", ![k].last = last,
            ![k].resp = Response(srv[k].req.id, out, srv[k].req.tag)]

(* The serving lifetime ended, the client left, or nothing comes: a read   *)
(* that timed out is answered like a malformed request.                    *)
ReadFails(k) ==
  /\ srv[k].pc = "read"
  /\ \/ (serve.ctx = "done" \/ (client[k].closed /\ pipe[k].up = <<>>)) /\ EndConn(k)
     \/ /\ scene.waits /\ pipe[k].up = <<>> /\ ~client[k].closed /\ serve.ctx = "live"
        /\ srv' = [srv EXCEPT ![k].pc = "write", ![k].last = TRUE,
                     ![k].resp = Response(0, "malformed", 0)]
        /\ UNCHANGED <<pipe, slots>>
  /\ UNCHANGED <<scene, serve, client, call>>

(* decodeMessage.                                                          *)
ReadRequest(k) ==
  LET req == Head(pipe[k].up)
  IN  /\ srv[k].pc = "read" /\ serve.ctx = "live" /\ pipe[k].up # <<>>
      /\ pipe' = [pipe EXCEPT ![k].up = Tail(@)]
      /\ srv' = IF req.method = "garbage"
                THEN [srv EXCEPT ![k].pc = "write", ![k].last = TRUE,
                        ![k].resp = Response(0, "malformed", 0)]
                ELSE [srv EXCEPT ![k].pc = "dispatch", ![k].req = req]
      /\ UNCHANGED <<scene, serve, slots, client, call>>

(* dispatch and the admission of its handler; the maintenance endpoint's   *)
(* own handler refuses every other method.                                 *)
Refused(k) ==
  LET to == Dispatch(srv[k].peer, srv[k].req)
  IN  IF to # "handle" THEN to
      ELSE IF slots[Class(srv[k].req.method)] >= scene.limits[Class(srv[k].req.method)]
      THEN "busy" ELSE "no"
Refuse(k) ==
  /\ srv[k].pc = "dispatch" /\ Refused(k) # "no"
  /\ Respond(k, Refused(k), ~Allowed(srv[k].peer))
  /\ UNCHANGED <<scene, serve, slots, pipe, client, call>>
Handle(k) ==
  /\ srv[k].pc = "dispatch" /\ Refused(k) = "no"
  /\ slots' = Taken(Class(srv[k].req.method), 1)
  /\ srv' = [srv EXCEPT ![k].pc = "handle"]
  /\ UNCHANGED <<scene, serve, pipe, client, call>>

(* Mutant: a handler that its lifetime's end kept from running keeps its slot. *)
FreedAfterRun(k, ran) == IF ran THEN Taken(Class(srv[k].req.method), -1) ELSE slots

Freed(k, ran) == Taken(Class(srv[k].req.method), -1)

HandlerReturns(k) ==
  /\ srv[k].pc = "handle"
  /\ \/ /\ serve.ctx = "done" /\ slots' = Freed(k, FALSE)
        /\ Respond(k, "failed", FALSE)
     \/ /\ slots' = Freed(k, TRUE)
        /\ \E out \in {"ok", "failed"} :
             Respond(k, IF scene.only \in {"", srv[k].req.method} THEN out ELSE "no method", FALSE)
  /\ UNCHANGED <<scene, serve, pipe, client, call>>

WriteResponse(k) ==
  /\ srv[k].pc = "write"
  /\ IF serve.ctx = "done" \/ client[k].closed THEN EndConn(k)
     ELSE /\ pipe' = [pipe EXCEPT ![k].down = Append(@, srv[k].resp), ![k].open = ~srv[k].last]
          /\ srv' = [srv EXCEPT ![k].pc = IF srv[k].last THEN "closed" ELSE "read"]
          /\ slots' = IF srv[k].last THEN Taken("connections", -1) ELSE slots
  /\ UNCHANGED <<scene, serve, client, call>>

-----------------------------------------------------------------------------
(* The client: do and Call.                                                *)
Ended(r, out) == [call EXCEPT ![r].pc = "done", ![r].out = out]
server == <<scene, serve, slots, srv>>

TakeTurn(r) ==
  /\ call[r].pc = "idle"
  /\ \/ /\ client[Of(r)].turn = 0
        /\ client' = [client EXCEPT ![Of(r)].turn = r]
        /\ call' = [call EXCEPT ![r].pc = "turn"]
     \/ call[r].ctx = "done" /\ call' = Ended(r, "context") /\ UNCHANGED client
  /\ UNCHANGED <<server, pipe>>

(* Mutant: a request refused by a closed client keeps its turn.            *)
TurnKept(k) == client

TurnGiven(k) == [client EXCEPT ![k].turn = 0]

(* Closed or ended already; otherwise the context's end will interrupt.    *)
Begin(r) ==
  LET k == Of(r)
  IN  /\ call[r].pc = "turn"
      /\ IF client[k].closed \/ call[r].ctx = "done"
         THEN /\ call' = Ended(r, IF client[k].closed THEN "closed" ELSE "context")
              /\ client' = TurnGiven(k)
         ELSE /\ call' = [call EXCEPT ![r].pc = "send", ![r].id = client[k].next + 1,
                                      ![r].fired = "armed"]
              /\ client' = [client EXCEPT ![k].next = @ + 1,
                              ![k].deadline = IF scene.calls[r].deadline THEN "set" ELSE @]
      /\ UNCHANGED <<server, pipe>>

Broken(k) == client[k].closed \/ client[k].deadline = "past"

(* What a typed helper sends.                                              *)
Request(r) == [id |-> call[r].id, method |-> scene.calls[r].method, tag |-> r]

Send(r) ==
  LET k == Of(r)
  IN  /\ call[r].pc = "send"
      /\ IF Broken(k) \/ ~pipe[k].open
         THEN /\ call' = [call EXCEPT ![r].pc = "stop", ![r].out = "io"]
              /\ UNCHANGED pipe
         ELSE /\ pipe' = [pipe EXCEPT ![k].up = Append(@, Request(r))]
              /\ call' = [call EXCEPT ![r].pc = "read"]
      /\ UNCHANGED <<server, client>>

(* The envelope's protocol and version are the server's own here; its id   *)
(* must be the request's.                                                  *)
Answers(r, resp) == resp.id = call[r].id

Receive(r) ==
  LET k == Of(r)
      resp == Head(pipe[k].down)
  IN  /\ call[r].pc = "read"
      /\ \/ /\ ~Broken(k) /\ pipe[k].down # <<>>
            /\ pipe' = [pipe EXCEPT ![k].down = Tail(@)]
            /\ call' = [call EXCEPT ![r].pc = "stop", ![r].got = resp.tag,
                 ![r].out = IF ~Answers(r, resp) THEN "io"
                            ELSE IF resp.out = "ok" THEN "ok" ELSE "refused"]
         \/ /\ Broken(k) \/ (pipe[k].down = <<>> /\ ~pipe[k].open)
            /\ call' = [call EXCEPT ![r].pc = "stop", ![r].out = "io"]
            /\ UNCHANGED pipe
      /\ UNCHANGED <<server, client>>

(* A context ends; context.AfterFunc starts its function if it still may.  *)
ContextEnds(r) ==
  /\ scene.imp /\ call[r].ctx = "live" /\ call[r].pc # "done"
  /\ call' = [call EXCEPT ![r].ctx = "done",
                          ![r].fired = IF @ = "armed" THEN "running" ELSE @]
  /\ UNCHANGED <<server, pipe, client>>
Interrupt(r) ==
  /\ call[r].fired = "running"
  /\ call' = [call EXCEPT ![r].fired = "fired"]
  /\ client' = [client EXCEPT ![Of(r)].deadline = "past"]
  /\ UNCHANGED <<server, pipe>>
(* The connection's deadline can pass before the context's own timer.      *)
DeadlinePasses(k) ==
  /\ client[k].deadline = "set" /\ client' = [client EXCEPT ![k].deadline = "past"]
  /\ UNCHANGED <<server, pipe, call>>

(* Mutant: a function that is already running is not waited for.           *)
InterruptIgnored(r) == TRUE

(* Unless stop() kept the function from starting, it is waited for.        *)
InterruptOver(r) == call[r].fired \in {"armed", "fired"}

(* What is not an answer leaves the stream's position unknown.             *)
ClosedAfter(r) == client[Of(r)].closed \/ call[r].out = "io"

Return(r) ==
  LET k == Of(r)
  IN  /\ call[r].pc = "stop" /\ InterruptOver(r)
      /\ client' = [client EXCEPT ![k].turn = 0, ![k].deadline = "none",
                                  ![k].closed = ClosedAfter(r)]
      /\ call' = [call EXCEPT ![r].pc = "done",
                              ![r].fired = IF @ = "armed" THEN "stopped" ELSE @]
      /\ UNCHANGED <<server, pipe>>

CloseClient(k) ==
  /\ scene.imp /\ ~client[k].closed
  /\ client' = [client EXCEPT ![k].closed = TRUE]
  /\ UNCHANGED <<server, pipe, call>>

-----------------------------------------------------------------------------
ServerStep(k) ==
  \/ Accept(k) \/ Authorize(k) \/ ReadFails(k) \/ ReadRequest(k)
  \/ Refuse(k) \/ Handle(k) \/ HandlerReturns(k) \/ WriteResponse(k)
ClientStep(r) == TakeTurn(r) \/ Begin(r) \/ Send(r) \/ Receive(r) \/ Interrupt(r) \/ Return(r)
Lifetime == LeaveLoop \/ CloseListener \/ ServeReturns

Next ==
  \/ \E k \in Conns : ServerStep(k) \/ DeadlinePasses(k) \/ CloseClient(k)
  \/ \E r \in Calls : ClientStep(r) \/ ContextEnds(r)
  \/ Lifetime \/ StopServing

Spec == Init /\ [][Next]_vars

(* The server and the clients run, handlers return (the manager bounds its *)
(* operations) and a reader's timeout fires; nobody has to stop the server, *)
(* cancel or close.                                                        *)
Progress ==
  (\E k \in Conns : ServerStep(k)) \/ (\E r \in Calls : ClientStep(r)) \/ Lifetime
FairSpec == Spec /\ WF_vars(Progress)

-----------------------------------------------------------------------------
Working(k) == srv[k].pc \notin {"backlog", "closed"}
Handlers(class) == {k \in Conns : srv[k].pc = "handle" /\ Class(srv[k].req.method) = class}

(* The slots taken are the connections and handlers there are, whatever    *)
(* ended them, so none is ever lost, and none is exceeded.                 *)
SlotsExact ==
  /\ slots.connections = Cardinality({k \in Conns : Working(k)})
  /\ \A c \in {"requests", "stops", "diagnostics"} : slots[c] = Cardinality(Handlers(c))
  /\ \A c \in DOMAIN slots : slots[c] <= scene.limits[c]

(* A stop or a status is refused as busy only when that many stops or      *)
(* statuses are being handled: starts cannot crowd them out.               *)
ClassesReserved ==
  [][\A k \in Conns :
       srv'[k].resp.out = "busy" /\ srv[k].pc = "dispatch" /\ srv'[k].pc = "write" =>
         LET same == IF srv[k].req.method = "stop" THEN {"stop", "disable-linger", "maintenance"}
                     ELSE IF srv[k].req.method = "status" THEN {"status"} ELSE Known
         IN  Cardinality({j \in Conns : srv[j].pc = "handle" /\ srv[j].req.method \in same})
               >= scene.limits[Class(srv[k].req.method)]]_vars

(* A handler runs only for a connection whose own token may use it; the    *)
(* process that opened the connection counts only when the connection has  *)
(* no token at all.                                                        *)
HandledForAllowed ==
  \A k \in Conns : srv[k].pc = "handle" =>
    LET c == scene.conns[k]
        who == IF c.imp = "noimp" THEN c.process ELSE c.token
    IN  /\ c.imp # "identity" /\ who \in {"system", "admin", "owner"}
        /\ AdministrativeMethod(srv[k].req.method) => who \in {"system", "admin"}

(* What a call returns as its result or refusal is the answer to the       *)
(* request it sent: not an earlier call's, nor a notice the server sent    *)
(* on its own when an idle connection timed out.                           *)
AnswersOwn == \A r \in Calls : call[r].pc = "done" /\ call[r].out \in {"ok", "refused"} => call[r].got = r

(* A call never meets the expired deadline of an earlier call's context on *)
(* the connection they share.                                              *)
DeadlineIsOwn ==
  \A r \in Calls : call[r].pc = "send" /\ client[Of(r)].deadline = "past" =>
    call[r].ctx = "done" \/ scene.calls[r].deadline

(* A call that was given up while its answer was on the way leaves nothing *)
(* of it for the next call: no later call reads the answer of an earlier   *)
(* one.                                                                    *)
StreamInStep ==
  \A r \in Calls : call[r].pc = "read" /\ ~Broken(Of(r)) /\ pipe[Of(r)].down # <<>> =>
    Head(pipe[Of(r)].down).tag \in {r, 0}

(* What a call returns as its result or refusal is the answer to the       *)
(* request it sent, not an earlier call's nor the notice of an idle        *)
(* timeout; no call reads the answer of an earlier one that was given up;  *)
(* and no call meets the expired deadline of an earlier call's context on  *)
(* the connection they share (Client.do).                                  *)
CallsAnswered == AnswersOwn /\ StreamInStep /\ DeadlineIsOwn

(* The slots taken are the connections and handlers there are, whatever    *)
(* ended them, so none is ever lost and none is exceeded; a stop or a      *)
(* status is refused as busy only when that many of them are handled; and  *)
(* a handler runs only for a connection whose own token may use it, the    *)
(* process that opened it counting only when it has no token at all.       *)
AdmissionSound == [](SlotsExact /\ HandledForAllowed) /\ ClassesReserved

(* Every call returns, though calls share a connection, contexts end,      *)
(* clients are closed and the server stops.                                *)
CallsReturn == []<>(\A r \in Calls : call[r].pc = "done")

(* When the serving lifetime ends for any reason, Serve returns, with its  *)
(* listener closed, and every connection it accepted is closed.            *)
ServingEnds ==
  []<>(serve.ctx = "done" \/ serve.pc # "accept" =>
         serve.pc = "returned" /\ ~serve.listening /\ \A k \in Conns : srv[k].pc = "closed")
=============================================================================
