------------------------ MODULE ControlPipeInvariant ------------------------
(***************************************************************************)
(* An inductive invariant of ControlPipe: the slots are exactly the work   *)
(* they stand for, and every message belongs to the call that sent it.     *)
(***************************************************************************)
EXTENDS ControlPipe, FiniteSetTheorems, TLAPS

Peers == [system : BOOLEAN, admin : BOOLEAN, owner : BOOLEAN]
Reqs == [id : Nat, method : Methods, tag : Nat]
Outs == {"none", "malformed", "mismatch", "denied", "no method", "busy", "ok", "failed"}
Resps == [id : Nat, out : Outs, tag : Nat]
Conversations == [pc : {"backlog", "authorize", "read", "dispatch", "handle", "write", "closed"},
                  peer : Peers, req : Reqs, resp : Resps, last : BOOLEAN]
Streams == [up : Seq(Reqs), down : Seq(Resps), open : BOOLEAN]
Clients == [turn : Nat, closed : BOOLEAN, deadline : {"none", "set", "past"}, next : Nat]
Requests == [pc : {"idle", "turn", "send", "read", "stop", "done"}, id : Nat,
             ctx : {"live", "done"}, fired : {"no", "armed", "running", "fired", "stopped"},
             out : {"none", "context", "closed", "io", "ok", "refused"}, got : Nat]

Typed ==
  /\ scene \in Scenarios
  /\ slots \in [Classes -> Int]
  /\ srv \in [Conns -> Conversations]
  /\ pipe \in [Conns -> Streams]
  /\ client \in [Conns -> Clients]
  /\ call \in [Calls -> Requests]

-----------------------------------------------------------------------------
(* A connection's rights are those its own identity gives, and a handler   *)
(* runs only where dispatch let it.                                        *)
Rights ==
  \A k \in Conns :
    /\ srv[k].peer \in {Nobody, PeerFromLookups(scene.conns[k])}
    /\ srv[k].pc = "handle" => Dispatch(srv[k].peer, srv[k].req) = "handle"

(* A message is the server's own notice, or carries the number of the call *)
(* that asked on this connection and that call's identifier.               *)
Belongs(k, m) ==
  \/ m.id = 0 /\ m.tag = 0
  \/ m.tag \in Calls /\ Of(m.tag) = k /\ m.id = call[m.tag].id /\ m.id # 0

Messages ==
  \A k \in Conns :
    /\ \A i \in DOMAIN pipe[k].up : Belongs(k, pipe[k].up[i])
    /\ \A i \in DOMAIN pipe[k].down : Belongs(k, pipe[k].down[i])
    /\ Belongs(k, srv[k].req) /\ Belongs(k, srv[k].resp)

Asking == {"send", "read", "stop"}

(* Calls of one client have different identifiers, and a call has one from *)
(* the time it begins.                                                     *)
Ids ==
  /\ \A r \in Calls : /\ call[r].id <= client[Of(r)].next
                      /\ call[r].pc \in {"idle", "turn"} => call[r].id = 0
                      /\ call[r].pc \in Asking => call[r].id # 0
  /\ \A r, q \in Calls :
       Of(r) = Of(q) /\ call[r].id = call[q].id /\ call[r].id # 0 => r = q

(* An accepted answer is the call's own.                                   *)
Got ==
  \A r \in Calls :
    /\ call[r].pc \in {"idle", "turn", "send", "read"} => call[r].out = "none"
    /\ call[r].out \in {"ok", "refused"} => call[r].got = r

(* The calls that have begun on a connection are the one whose turn it is. *)
Turns ==
  /\ \A k \in Conns : client[k].turn # 0 =>
       /\ client[k].turn \in Calls /\ Of(client[k].turn) = k
       /\ call[client[k].turn].pc \in Asking \cup {"turn"}
  /\ \A r \in Calls : call[r].pc \in Asking \cup {"turn"} => client[Of(r)].turn = r

(* A deadline on a connection is that of the call whose turn it is.        *)
Deadlines ==
  /\ \A k \in Conns : client[k].deadline # "none" =>
       /\ client[k].turn # 0 /\ call[client[k].turn].pc \in Asking
       /\ \/ scene.calls[client[k].turn].deadline
          \/ client[k].deadline = "past" /\ call[client[k].turn].ctx = "done"
  /\ \A r \in Calls : call[r].fired \in {"armed", "running"} => call[r].pc \in Asking
  /\ \A r \in Calls : call[r].fired = "running" => call[r].ctx = "done"

ServerInv == Rights /\ SlotsExact
ClientInv == Ids /\ Got /\ Turns /\ Deadlines
IInv == Typed /\ ServerInv /\ ClientInv /\ Messages

-----------------------------------------------------------------------------
(* Steps that do not touch a part's state keep what is said of it.         *)
LEMMA ServerFrame ==
  ASSUME ServerInv, UNCHANGED <<scene, slots, srv>>
  PROVE  ServerInv'
  BY DEF ServerInv, Rights, SlotsExact, Working, Handlers, Conns

LEMMA ClientFrame ==
  ASSUME ClientInv, UNCHANGED <<scene, client, call>>
  PROVE  ClientInv'
  BY DEF ClientInv, Ids, Got, Turns, Deadlines, Conns, Calls, Of

LEMMA Scene ==
  ASSUME ScenariosSound, Typed
  PROVE  Sound(scene)
  BY DEF ScenariosSound, Typed

LEMMA InitIInv ==
  ASSUME ScenariosSound, Init
  PROVE  IInv
<1>1. Typed
  <2>1. scene \in Scenarios
        /\ slots \in [Classes -> Int]
    BY DEF Init, Classes
  <2>2. Nobody \in Peers
    BY DEF Nobody, Peers
  <2>3. [id |-> 0, method |-> "none", tag |-> 0] \in Reqs
    BY DEF Reqs, Methods
  <2>4. Response(0, "none", 0) \in Resps
    BY DEF Response, Resps, Outs
  <2>5. srv \in [Conns -> Conversations]
    BY <2>2, <2>3, <2>4 DEF Init, Conns, Conversations
  <2>6. pipe \in [Conns -> Streams]
    BY DEF Init, Conns, Streams
  <2>7. client \in [Conns -> Clients]
    BY DEF Init, Conns, Clients
  <2>8. call \in [Calls -> Requests]
    BY DEF Init, Calls, Requests
  <2> QED
    BY <2>1, <2>5, <2>6, <2>7, <2>8 DEF Typed
<1>2. Rights
  BY DEF Init, Rights, Conns
<1>3. SlotsExact
  <2>1. {k \in Conns : Working(k)} = {} /\ \A c \in Classes : Handlers(c) = {}
    BY DEF Init, Working, Handlers, Conns
  <2>2. scene.limits \in [Classes -> Nat]
    BY <1>1, Scene DEF Sound
  <2>3. slots = [connections |-> 0, requests |-> 0, stops |-> 0, diagnostics |-> 0]
    BY DEF Init
  <2> QED
    BY <2>1, <2>2, <2>3, FS_EmptySet DEF SlotsExact, Classes
<1>4. Messages
  <2>1. \A k \in Conns : pipe[k].up = <<>> /\ pipe[k].down = <<>>
    BY DEF Init, Conns
  <2>2. \A k \in Conns : /\ srv[k].req.id = 0 /\ srv[k].req.tag = 0
                        /\ srv[k].resp.id = 0 /\ srv[k].resp.tag = 0
    BY DEF Init, Conns, Response
  <2> QED
    BY <2>1, <2>2 DEF Messages, Belongs
<1>5. ClientInv
  <2>1. /\ \A r \in Calls : /\ call[r].pc = "idle" /\ call[r].id = 0
                            /\ call[r].out = "none" /\ call[r].fired = "no"
        /\ \A k \in Conns : /\ client[k].turn = 0 /\ client[k].deadline = "none"
                            /\ client[k].next = 0
    BY DEF Init, Conns, Calls
  <2>2. \A r \in Calls : Of(r) \in Conns
    BY <1>1, Scene DEF Calls, Conns, Of, Sound
  <2>3. Ids
    BY <2>1, <2>2 DEF Ids, Asking
  <2>4. Got /\ Turns /\ Deadlines
    BY <2>1 DEF Got, Turns, Deadlines, Asking
  <2> QED
    BY <2>3, <2>4 DEF ClientInv
<1> QED
  BY <1>1, <1>2, <1>3, <1>4, <1>5 DEF IInv, ServerInv

-----------------------------------------------------------------------------
(* The server's steps.                                                     *)

(* Slots follow the sets they count.                                       *)
LEMMA SlotsKept ==
  ASSUME SlotsExact, UNCHANGED <<scene, slots>>,
         {j \in Conns : Working(j)}' = {j \in Conns : Working(j)},
         \A c \in Classes : Handlers(c)' = Handlers(c)
  PROVE  SlotsExact'
  BY DEF SlotsExact, Classes

LEMMA ConnectionTaken ==
  ASSUME ScenariosSound, Typed, SlotsExact, UNCHANGED scene, NEW k \in Conns, ~Working(k),
         slots.connections < scene.limits.connections,
         slots' = Taken("connections", 1),
         {j \in Conns : Working(j)}' = {j \in Conns : Working(j)} \cup {k},
         \A c \in Classes : Handlers(c)' = Handlers(c)
  PROVE  SlotsExact'
<1>1. scene.limits \in [Classes -> Nat]
  BY Scene DEF Sound
<1>2. IsFiniteSet({j \in Conns : Working(j)})
  BY Scene, FS_Subset DEF Sound, Conns
<1>3. Cardinality({j \in Conns : Working(j)} \cup {k}) = Cardinality({j \in Conns : Working(j)}) + 1
  BY <1>2, FS_AddElement
<1>4. /\ slots' \in [Classes -> Int] /\ slots'["connections"] = slots["connections"] + 1
      /\ \A d \in Classes \ {"connections"} : slots'[d] = slots[d]
  BY DEF Taken, Typed, Classes
<1>5. slots'["connections"] = Cardinality({j \in Conns : Working(j)}')
  BY ZenonT(60), <1>3, <1>4 DEF SlotsExact, Classes
<1>6. \A d \in {"requests", "stops", "diagnostics"} : slots'[d] = Cardinality(Handlers(d)')
  BY ZenonT(60), <1>3, <1>4 DEF SlotsExact, Classes
<1>7. \A d \in Classes : slots'[d] <= scene.limits[d]
  BY <1>1, <1>4 DEF SlotsExact, Typed, Classes
<1> QED
  BY <1>4, <1>5, <1>6, <1>7 DEF SlotsExact, Classes

LEMMA ConnectionFreed ==
  ASSUME ScenariosSound, Typed, SlotsExact, UNCHANGED scene, NEW k \in Conns, Working(k),
         slots' = Taken("connections", -1),
         {j \in Conns : Working(j)}' = {j \in Conns : Working(j)} \ {k},
         \A c \in Classes : Handlers(c)' = Handlers(c)
  PROVE  SlotsExact'
<1>1. scene.limits \in [Classes -> Nat]
  BY Scene DEF Sound
<1>2. IsFiniteSet({j \in Conns : Working(j)})
  BY Scene, FS_Subset DEF Sound, Conns
<1>3. Cardinality({j \in Conns : Working(j)} \ {k}) = Cardinality({j \in Conns : Working(j)}) - 1
  BY <1>2, FS_RemoveElement
<1> QED
  BY <1>1, <1>3 DEF SlotsExact, Classes, Taken, Typed

LEMMA HandlerTaken ==
  ASSUME ScenariosSound, Typed, SlotsExact, UNCHANGED scene, NEW k \in Conns,
         NEW c \in {"requests", "stops", "diagnostics"}, k \notin Handlers(c),
         slots[c] < scene.limits[c], slots' = Taken(c, 1),
         {j \in Conns : Working(j)}' = {j \in Conns : Working(j)},
         Handlers(c)' = Handlers(c) \cup {k},
         \A d \in Classes \ {c} : Handlers(d)' = Handlers(d)
  PROVE  SlotsExact'
<1>1. scene.limits \in [Classes -> Nat]
  BY Scene DEF Sound
<1>2. IsFiniteSet(Handlers(c))
  BY Scene, FS_Subset DEF Sound, Conns, Handlers
<1>3. Cardinality(Handlers(c) \cup {k}) = Cardinality(Handlers(c)) + 1
  BY ZenonT(60), <1>2, FS_AddElement
<1>4. /\ slots' \in [Classes -> Int] /\ slots'[c] = slots[c] + 1
      /\ \A d \in Classes \ {c} : slots'[d] = slots[d]
  BY DEF Taken, Typed, Classes
<1>5. slots'["connections"] = Cardinality({j \in Conns : Working(j)}')
  BY ZenonT(60), <1>3, <1>4 DEF SlotsExact, Classes
<1>6. \A d \in {"requests", "stops", "diagnostics"} : slots'[d] = Cardinality(Handlers(d)')
  BY ZenonT(60), <1>3, <1>4 DEF SlotsExact, Classes
<1>7. \A d \in Classes : slots'[d] <= scene.limits[d]
  BY <1>1, <1>4 DEF SlotsExact, Typed, Classes
<1> QED
  BY <1>4, <1>5, <1>6, <1>7 DEF SlotsExact, Classes

LEMMA HandlerFreed ==
  ASSUME ScenariosSound, Typed, SlotsExact, UNCHANGED scene, NEW k \in Conns,
         NEW c \in {"requests", "stops", "diagnostics"}, k \in Handlers(c),
         slots' = Taken(c, -1),
         {j \in Conns : Working(j)}' = {j \in Conns : Working(j)},
         Handlers(c)' = Handlers(c) \ {k},
         \A d \in Classes \ {c} : Handlers(d)' = Handlers(d)
  PROVE  SlotsExact'
<1>1. scene.limits \in [Classes -> Nat]
  BY Scene DEF Sound
<1>2. IsFiniteSet(Handlers(c))
  BY Scene, FS_Subset DEF Sound, Conns, Handlers
<1>3. Cardinality(Handlers(c) \ {k}) = Cardinality(Handlers(c)) - 1
  BY <1>2, FS_RemoveElement
<1>4. /\ slots' \in [Classes -> Int] /\ slots'[c] = slots[c] - 1
      /\ \A d \in Classes \ {c} : slots'[d] = slots[d]
  BY DEF Taken, Typed, Classes
<1>5. slots'["connections"] = Cardinality({j \in Conns : Working(j)}')
  BY ZenonT(60), <1>3, <1>4 DEF SlotsExact, Classes
<1>6. \A d \in {"requests", "stops", "diagnostics"} : slots'[d] = Cardinality(Handlers(d)')
  BY ZenonT(60), <1>3, <1>4 DEF SlotsExact, Classes
<1>7. \A d \in Classes : slots'[d] <= scene.limits[d]
  BY <1>1, <1>4 DEF SlotsExact, Typed, Classes
<1> QED
  BY <1>4, <1>5, <1>6, <1>7 DEF SlotsExact, Classes

LEMMA SlotsTyped ==
  ASSUME slots \in [Classes -> Int], NEW c \in Classes
  PROVE  Taken(c, -1) \in [Classes -> Int]
  BY DEF Taken

LEMMA PeerTyped ==
  ASSUME NEW c
  PROVE  PeerFromLookups(c) \in Peers
  BY DEF PeerFromLookups, Peer, Nobody, Peers

(* What a server step has to show.                                         *)
LEMMA ServerKeeps ==
  ASSUME IInv, UNCHANGED <<scene, client, call>>, Typed', Rights', SlotsExact', Messages'
  PROVE  IInv'
  BY ClientFrame DEF IInv, ServerInv

LEMMA MessagesKept ==
  ASSUME Messages, UNCHANGED <<scene, call>>,
         \A j \in Conns : /\ srv'[j].req = srv[j].req /\ srv'[j].resp = srv[j].resp
                         /\ pipe'[j].up = pipe[j].up /\ pipe'[j].down = pipe[j].down
  PROVE  Messages'
<1>1. Conns' = Conns /\ Calls' = Calls /\ (\A r : Of(r)' = Of(r))
  BY DEF Conns, Calls, Of
<1>2. ASSUME NEW k \in Conns, NEW i \in DOMAIN pipe[k].up
      PROVE  Belongs(k, pipe[k].up[i])'
  <2>1. Belongs(k, pipe[k].up[i])
    BY <1>2 DEF Messages
  <2> QED
    BY ZenonT(60), <1>1, <1>2, <2>1 DEF Belongs
<1>3. ASSUME NEW k \in Conns, NEW i \in DOMAIN pipe[k].down
      PROVE  Belongs(k, pipe[k].down[i])'
  <2>1. Belongs(k, pipe[k].down[i])
    BY <1>3 DEF Messages
  <2> QED
    BY ZenonT(60), <1>1, <1>3, <2>1 DEF Belongs
<1>4. ASSUME NEW k \in Conns
      PROVE  Belongs(k, srv[k].req)' /\ Belongs(k, srv[k].resp)'
  <2>1. Belongs(k, srv[k].req) /\ Belongs(k, srv[k].resp)
    BY <1>4 DEF Messages
  <2> QED
    BY ZenonT(60), <1>1, <1>4, <2>1 DEF Belongs
<1> QED
  BY <1>1, <1>2, <1>3, <1>4 DEF Messages

LEMMA AcceptStep ==
  ASSUME ScenariosSound, IInv, NEW k \in Conns, Accept(k)
  PROVE  IInv'
<1> USE DEF IInv, ServerInv
<1>1. UNCHANGED <<scene, serve, client, call>> /\ Conns' = Conns /\ srv[k].pc = "backlog"
  BY DEF Accept, Conns
<1>2. CASE slots.connections < scene.limits.connections
  <2>1. srv' = [srv EXCEPT ![k].pc = "authorize"] /\ slots' = Taken("connections", 1)
        /\ pipe' = pipe
    BY <1>2 DEF Accept
  <2>2. Typed'
    BY <1>1, <2>1 DEF Typed, Conversations, Taken, Classes, Conns, Calls
  <2>3. Rights'
    BY <1>1, <2>1 DEF Rights, Typed, Conversations
  <2>4. SlotsExact'
    <3>1. {j \in Conns : Working(j)}' = {j \in Conns : Working(j)} \cup {k}
      BY <1>1, <2>1 DEF Working, Typed, Conversations
    <3>2. \A c \in Classes : Handlers(c)' = Handlers(c)
      BY <1>1, <2>1 DEF Handlers, Typed, Conversations
    <3> QED
      BY <1>1, <1>2, <2>1, <3>1, <3>2, ConnectionTaken DEF Working
  <2>5. Messages'
    BY <1>1, <2>1, MessagesKept DEF Typed, Conversations
  <2> QED
    BY <1>1, <2>2, <2>3, <2>4, <2>5, ServerKeeps
<1>3. CASE ~(slots.connections < scene.limits.connections)
  <2>1. srv' = [srv EXCEPT ![k].pc = "closed"] /\ slots' = slots /\ pipe' = Shut(k)
    BY <1>3 DEF Accept
  <2>2. Typed'
    <3>1. srv' \in [Conns -> Conversations]
      BY <2>1 DEF Typed, Conversations
    <3>2. pipe' \in [Conns -> Streams]
      BY ZenonT(60), <2>1 DEF Typed, Shut, Streams
    <3> QED
      BY <1>1, <2>1, <3>1, <3>2 DEF Typed, Conns, Calls
  <2>3. Rights'
    BY <1>1, <2>1 DEF Rights, Typed, Conversations
  <2>4. SlotsExact'
    <3>1. {j \in Conns : Working(j)}' = {j \in Conns : Working(j)}
      BY <1>1, <2>1 DEF Working, Typed, Conversations
    <3>2. \A c \in Classes : Handlers(c)' = Handlers(c)
      BY <1>1, <2>1 DEF Handlers, Typed, Conversations
    <3> QED
      BY <1>1, <2>1, <3>1, <3>2, SlotsKept
  <2>5. Messages'
    BY <1>1, <2>1, MessagesKept DEF Typed, Conversations, Shut, Streams
  <2> QED
    BY <1>1, <2>2, <2>3, <2>4, <2>5, ServerKeeps
<1> QED
  BY <1>2, <1>3

LEMMA AuthorizeStep ==
  ASSUME ScenariosSound, IInv, NEW k \in Conns, Authorize(k)
  PROVE  IInv'
<1> USE DEF IInv, ServerInv
<1> DEFINE peer == PeerFromLookups(scene.conns[k])
<1>1. UNCHANGED <<scene, serve, slots, pipe, client, call>> /\ Conns' = Conns
      /\ srv[k].pc = "authorize"
      /\ srv' = [srv EXCEPT ![k].pc = "read", ![k].peer = peer]
  BY DEF Authorize, Conns
<1>2. peer \in Peers
  BY PeerTyped
<1> HIDE DEF peer
<1>3. Typed'
  BY <1>1, <1>2 DEF Typed, Conversations, Conns, Calls
<1>4. Rights'
  BY <1>1 DEF Rights, Typed, Conversations, peer
<1>5. SlotsExact'
  <2>1. {j \in Conns : Working(j)}' = {j \in Conns : Working(j)}
    BY <1>1 DEF Working, Typed, Conversations
  <2>2. \A c \in Classes : Handlers(c)' = Handlers(c)
    BY <1>1 DEF Handlers, Typed, Conversations
  <2> QED
    BY <1>1, <2>1, <2>2, SlotsKept
<1>6. Messages'
  BY <1>1, MessagesKept DEF Typed, Conversations
<1> QED
  BY <1>1, <1>3, <1>4, <1>5, <1>6, ServerKeeps

(* A conversation that ends, other than in its handler, gives back its     *)
(* connection's slot.                                                      *)
LEMMA EndConnStep ==
  ASSUME ScenariosSound, IInv, NEW k \in Conns, srv[k].pc \in {"read", "write"}, EndConn(k),
         UNCHANGED <<scene, client, call>>
  PROVE  IInv'
<1> USE DEF IInv, ServerInv
<1>1. srv' = [srv EXCEPT ![k].pc = "closed"] /\ slots' = Taken("connections", -1)
      /\ pipe' = Shut(k) /\ Conns' = Conns
  BY DEF EndConn, Conns
<1>2. Typed'
  <2>1. srv' \in [Conns -> Conversations] /\ slots' \in [Classes -> Int]
    BY <1>1 DEF Typed, Conversations, Taken, Classes
  <2>2. pipe' \in [Conns -> Streams]
    BY ZenonT(60), <1>1 DEF Typed, Shut, Streams
  <2> QED
    BY <1>1, <2>1, <2>2 DEF Typed, Conns, Calls
<1>3. Rights'
  BY <1>1 DEF Rights, Typed, Conversations
<1>4. SlotsExact'
  <2>1. {j \in Conns : Working(j)}' = {j \in Conns : Working(j)} \ {k}
    BY <1>1 DEF Working, Typed, Conversations
  <2>2. \A c \in Classes : Handlers(c)' = Handlers(c)
    BY <1>1 DEF Handlers, Typed, Conversations
  <2> QED
    BY <1>1, <2>1, <2>2, ConnectionFreed DEF Working
<1>5. Messages'
  BY <1>1, MessagesKept DEF Typed, Conversations, Shut, Streams
<1> QED
  BY <1>2, <1>3, <1>4, <1>5, ServerKeeps

(* A step of one connection's streams and conversation.                    *)
LEMMA MessagesMoved ==
  ASSUME Messages, UNCHANGED <<scene, call>>, NEW k \in Conns,
         \A j \in Conns \ {k} : /\ srv'[j].req = srv[j].req /\ srv'[j].resp = srv[j].resp
                                /\ pipe'[j].up = pipe[j].up /\ pipe'[j].down = pipe[j].down,
         \A i \in DOMAIN pipe'[k].up : Belongs(k, pipe'[k].up[i]),
         \A i \in DOMAIN pipe'[k].down : Belongs(k, pipe'[k].down[i]),
         Belongs(k, srv'[k].req), Belongs(k, srv'[k].resp)
  PROVE  Messages'
<1>1. SUFFICES ASSUME NEW j \in Conns
               PROVE  /\ \A i \in DOMAIN pipe'[j].up : Belongs(j, pipe'[j].up[i])
                      /\ \A i \in DOMAIN pipe'[j].down : Belongs(j, pipe'[j].down[i])
                      /\ Belongs(j, srv'[j].req) /\ Belongs(j, srv'[j].resp)
  BY ZenonT(60) DEF Messages, Belongs, Calls, Conns, Of
<1>2. CASE j = k
  BY <1>2
<1>3. CASE j # k
  BY <1>3 DEF Messages
<1> QED
  BY <1>2, <1>3

(* A conversation that goes on outside a handler, its streams and rights   *)
(* untouched.                                                              *)
LEMMA TalkStep ==
  ASSUME ScenariosSound, IInv, NEW k \in Conns, srv[k].pc \in {"read", "dispatch"},
         srv' \in [Conns -> Conversations], pipe' \in [Conns -> Streams],
         srv'[k].pc \in {"dispatch", "write"}, srv'[k].peer = srv[k].peer,
         \A j \in Conns \ {k} : srv'[j] = srv[j],
         UNCHANGED <<scene, slots, client, call>>, Messages'
  PROVE  IInv'
<1> USE DEF IInv, ServerInv
<1>1. Conns' = Conns
  BY DEF Conns
<1>2. Typed'
  BY <1>1 DEF Typed, Conns, Calls
<1>3. Rights'
  BY <1>1 DEF Rights, Typed, Conversations
<1>4. SlotsExact'
  <2>1. {j \in Conns : Working(j)}' = {j \in Conns : Working(j)}
    BY <1>1 DEF Working, Typed, Conversations
  <2>2. \A c \in Classes : Handlers(c)' = Handlers(c)
    BY <1>1 DEF Handlers, Typed, Conversations
  <2> QED
    BY <2>1, <2>2, SlotsKept
<1> QED
  BY <1>2, <1>3, <1>4, ServerKeeps

LEMMA ReadFailsStep ==
  ASSUME ScenariosSound, IInv, NEW k \in Conns, ReadFails(k)
  PROVE  IInv'
<1> USE DEF IInv
<1>1. srv[k].pc = "read" /\ UNCHANGED <<scene, client, call>>
  BY DEF ReadFails
<1>2. CASE EndConn(k)
  BY <1>1, <1>2, EndConnStep
<1>3. CASE /\ srv' = [srv EXCEPT ![k].pc = "write", ![k].last = TRUE,
                         ![k].resp = Response(0, "malformed", 0)]
           /\ UNCHANGED <<pipe, slots>>
  <2> DEFINE resp == Response(0, "malformed", 0)
  <2>1. resp \in Resps /\ resp.id = 0 /\ resp.tag = 0
    BY DEF Response, Resps, Outs
  <2> HIDE DEF resp
  <2>2. /\ srv' \in [Conns -> Conversations] /\ srv'[k].pc = "write"
        /\ srv'[k].peer = srv[k].peer /\ srv'[k].req = srv[k].req /\ srv'[k].resp = resp
        /\ \A j \in Conns \ {k} : srv'[j] = srv[j]
    BY ZenonT(60), <1>3, <2>1 DEF resp, Typed, Conversations
  <2>3. Messages'
    <3>1. Belongs(k, resp)
      BY <2>1 DEF Belongs
    <3> QED
      BY ZenonT(60), <1>1, <1>3, <2>2, <3>1, MessagesMoved DEF Messages
  <2>4. pipe' \in [Conns -> Streams]
    BY <1>3 DEF Typed
  <2> QED
    BY <1>1, <1>3, <2>2, <2>3, <2>4, TalkStep
<1> QED
  BY <1>2, <1>3 DEF ReadFails

LEMMA ReadRequestStep ==
  ASSUME ScenariosSound, IInv, NEW k \in Conns, ReadRequest(k)
  PROVE  IInv'
<1> USE DEF IInv
<1> DEFINE req == Head(pipe[k].up)
           resp == Response(0, "malformed", 0)
<1>1. /\ srv[k].pc = "read" /\ pipe[k].up # <<>> /\ UNCHANGED <<scene, slots, client, call>>
      /\ pipe' = [pipe EXCEPT ![k].up = Tail(@)]
  BY DEF ReadRequest
<1>2. pipe[k].up \in Seq(Reqs) /\ pipe[k] \in Streams
  BY DEF Typed, Streams
<1>3. req \in Reqs /\ Tail(pipe[k].up) \in Seq(Reqs) /\ Belongs(k, req)
      /\ \A i \in DOMAIN Tail(pipe[k].up) : Belongs(k, Tail(pipe[k].up)[i])
  <2>1. req = pipe[k].up[1] /\ 1 \in DOMAIN pipe[k].up /\ Tail(pipe[k].up) \in Seq(Reqs)
    BY <1>1, <1>2
  <2>2. \A i \in DOMAIN Tail(pipe[k].up) : /\ i + 1 \in DOMAIN pipe[k].up
                                           /\ Tail(pipe[k].up)[i] = pipe[k].up[i + 1]
    BY <1>1, <1>2
  <2> QED
    BY <1>2, <2>1, <2>2 DEF Messages
<1>4. pipe' \in [Conns -> Streams] /\ pipe'[k].up = Tail(pipe[k].up)
      /\ pipe'[k].down = pipe[k].down /\ \A j \in Conns \ {k} : pipe'[j] = pipe[j]
  BY ZenonT(60), <1>1, <1>2, <1>3 DEF Typed, Streams
<1>5. resp \in Resps /\ resp.id = 0 /\ resp.tag = 0
  BY DEF Response, Resps, Outs
<1>6. Belongs(k, srv[k].req) /\ Belongs(k, srv[k].resp) /\ Belongs(k, resp)
      /\ \A i \in DOMAIN pipe[k].down : Belongs(k, pipe[k].down[i])
  <2>1. Belongs(k, resp)
    BY <1>5 DEF Belongs
  <2> QED
    BY <2>1 DEF Messages
<1>7. CASE req.method = "garbage"
  <2>1. /\ srv' \in [Conns -> Conversations] /\ srv'[k].pc = "write"
        /\ srv'[k].peer = srv[k].peer /\ srv'[k].req = srv[k].req /\ srv'[k].resp = resp
        /\ \A j \in Conns \ {k} : srv'[j] = srv[j]
    <3>1. srv' = [srv EXCEPT ![k].pc = "write", ![k].last = TRUE, ![k].resp = resp]
      BY <1>7 DEF ReadRequest
    <3> HIDE DEF req, resp
    <3> QED
      BY ZenonT(60), <1>3, <1>5, <3>1 DEF Typed, Conversations
  <2> HIDE DEF req, resp
  <2>2. Messages'
    BY <1>1, <1>3, <1>4, <1>6, <2>1, MessagesMoved
  <2> QED
    BY <1>1, <1>4, <2>1, <2>2, TalkStep
<1>8. CASE req.method # "garbage"
  <2>1. /\ srv' \in [Conns -> Conversations] /\ srv'[k].pc = "dispatch"
        /\ srv'[k].peer = srv[k].peer /\ srv'[k].req = req /\ srv'[k].resp = srv[k].resp
        /\ \A j \in Conns \ {k} : srv'[j] = srv[j]
    <3>1. srv' = [srv EXCEPT ![k].pc = "dispatch", ![k].req = req]
      BY <1>8 DEF ReadRequest
    <3> HIDE DEF req, resp
    <3> QED
      BY ZenonT(60), <1>3, <1>5, <3>1 DEF Typed, Conversations
  <2> HIDE DEF req, resp
  <2>2. Messages'
    BY <1>1, <1>3, <1>4, <1>6, <2>1, MessagesMoved
  <2> QED
    BY ZenonT(60), <1>1, <1>4, <2>1, <2>2, TalkStep
<1> QED
  BY <1>7, <1>8

(* What dispatch, the admission of a handler and the handler answer.       *)
LEMMA Answered ==
  ASSUME Typed, Messages, NEW k \in Conns, NEW out \in Outs, NEW last \in BOOLEAN,
         Respond(k, out, last)
  PROVE  /\ srv' \in [Conns -> Conversations] /\ srv'[k].pc = "write"
         /\ srv'[k].peer = srv[k].peer /\ srv'[k].req = srv[k].req
         /\ Belongs(k, srv'[k].resp)
         /\ \A j \in Conns \ {k} : srv'[j] = srv[j]
<1> DEFINE resp == Response(srv[k].req.id, out, srv[k].req.tag)
<1>1. srv[k].req \in Reqs
  BY DEF Typed, Conversations
<1>2. resp \in Resps /\ resp.id = srv[k].req.id /\ resp.tag = srv[k].req.tag
  BY <1>1 DEF Response, Resps, Reqs
<1>3. Belongs(k, resp)
  BY ZenonT(60), <1>2 DEF Messages, Belongs
<1>4. srv' = [srv EXCEPT ![k].pc = "write", ![k].last = last, ![k].resp = resp]
  BY DEF Respond
<1> HIDE DEF resp
<1>5. srv'[k].resp = resp
  BY <1>4 DEF Typed, Conversations
<1> QED
  BY ZenonT(60), <1>2, <1>3, <1>4, <1>5 DEF Typed, Conversations

LEMMA RefuseStep ==
  ASSUME ScenariosSound, IInv, NEW k \in Conns, Refuse(k)
  PROVE  IInv'
<1> USE DEF IInv
<1>1. srv[k].pc = "dispatch" /\ UNCHANGED <<scene, slots, pipe, client, call>>
  BY DEF Refuse
<1>2. Refused(k) \in Outs
  BY ZenonT(60) DEF Refuse, Refused, Dispatch, Outs
<1>3. Allowed(srv[k].peer) \in BOOLEAN
  BY DEF Allowed, Typed, Conversations, Peers
<1>4. Respond(k, Refused(k), ~Allowed(srv[k].peer))
  BY DEF Refuse
<1>5. /\ srv' \in [Conns -> Conversations] /\ srv'[k].pc = "write"
      /\ srv'[k].peer = srv[k].peer /\ srv'[k].req = srv[k].req
      /\ Belongs(k, srv'[k].resp)
      /\ \A j \in Conns \ {k} : srv'[j] = srv[j]
  BY ZenonT(60), <1>2, <1>3, <1>4, Answered
<1>6. Messages'
  BY ZenonT(60), <1>1, <1>5, MessagesMoved DEF Messages
<1>7. pipe' \in [Conns -> Streams]
  BY <1>1 DEF Typed
<1> QED
  BY <1>1, <1>5, <1>6, <1>7, TalkStep

LEMMA HandleStep ==
  ASSUME ScenariosSound, IInv, NEW k \in Conns, Handle(k)
  PROVE  IInv'
<1> USE DEF IInv, ServerInv
<1>1. PICK c \in {"requests", "stops", "diagnostics"} : c = Class(srv[k].req.method)
  BY DEF Class
<1>2. /\ srv[k].pc = "dispatch" /\ UNCHANGED <<scene, pipe, client, call>> /\ Conns' = Conns
      /\ slots' = Taken(c, 1) /\ srv' = [srv EXCEPT ![k].pc = "handle"]
  BY <1>1 DEF Handle, Conns
<1>3. Dispatch(srv[k].peer, srv[k].req) = "handle" /\ ~(slots[c] >= scene.limits[c])
  <2>1. Dispatch(srv[k].peer, srv[k].req) # "no"
    BY DEF Dispatch
  <2> QED
    BY <1>1, <2>1 DEF Handle, Refused
<1>4. Typed'
  BY <1>2 DEF Typed, Conversations, Taken, Classes, Conns, Calls
<1>5. Rights'
  <2>1. srv'[k].peer = srv[k].peer /\ srv'[k].req = srv[k].req
        /\ \A j \in Conns \ {k} : srv'[j] = srv[j]
    BY <1>2 DEF Typed, Conversations
  <2> QED
    BY <1>2, <1>3, <2>1 DEF Rights
<1>6. SlotsExact'
  <2>1. {j \in Conns : Working(j)}' = {j \in Conns : Working(j)}
    BY <1>2 DEF Working, Typed, Conversations
  <2>2. Handlers(c)' = Handlers(c) \cup {k}
    BY <1>1, <1>2 DEF Handlers, Typed, Conversations
  <2>3. \A d \in Classes \ {c} : Handlers(d)' = Handlers(d)
    BY <1>1, <1>2 DEF Handlers, Typed, Conversations
  <2>4. k \notin Handlers(c)
    BY <1>1, <1>2 DEF Handlers
  <2>5. slots[c] < scene.limits[c]
    BY <1>3, Scene DEF Sound, Typed, Classes
  <2> QED
    BY <1>2, <2>1, <2>2, <2>3, <2>4, <2>5, HandlerTaken
<1>7. Messages'
  BY <1>2, MessagesKept DEF Typed, Conversations
<1> QED
  BY <1>2, <1>4, <1>5, <1>6, <1>7, ServerKeeps

LEMMA HandlerReturnsStep ==
  ASSUME ScenariosSound, IInv, NEW k \in Conns, HandlerReturns(k)
  PROVE  IInv'
<1> USE DEF IInv, ServerInv
<1>1. PICK c \in {"requests", "stops", "diagnostics"} : c = Class(srv[k].req.method)
  BY DEF Class
<1>2. /\ srv[k].pc = "handle" /\ UNCHANGED <<scene, pipe, client, call>> /\ Conns' = Conns
      /\ slots' = Taken(c, -1)
  BY <1>1 DEF HandlerReturns, Conns, Freed
<1>3. PICK out \in {"ok", "failed", "no method"} : Respond(k, out, FALSE)
  BY DEF HandlerReturns
<1>4. /\ srv' \in [Conns -> Conversations] /\ srv'[k].pc = "write"
      /\ srv'[k].peer = srv[k].peer /\ srv'[k].req = srv[k].req
      /\ Belongs(k, srv'[k].resp)
      /\ \A j \in Conns \ {k} : srv'[j] = srv[j]
  BY <1>3, Answered DEF Outs
<1>5. Typed'
  <2>1. slots' \in [Classes -> Int]
    BY ZenonT(60), <1>2, SlotsTyped DEF Typed, Classes
  <2> QED
    BY <1>2, <1>4, <2>1 DEF Typed, Conns, Calls
<1>6. Rights'
  BY ZenonT(60), <1>2, <1>4 DEF Rights
<1>7. SlotsExact'
  <2>1. {j \in Conns : Working(j)}' = {j \in Conns : Working(j)}
    BY ZenonT(60), <1>2, <1>4 DEF Working
  <2>2. Handlers(c)' = Handlers(c) \ {k}
    BY ZenonT(60), <1>1, <1>2, <1>4 DEF Handlers
  <2>3. \A d \in Classes \ {c} : Handlers(d)' = Handlers(d)
    BY ZenonT(60), <1>1, <1>2, <1>4 DEF Handlers
  <2>4. k \in Handlers(c)
    BY ZenonT(60), <1>1, <1>2 DEF Handlers
  <2> QED
    BY ZenonT(60), <1>2, <2>1, <2>2, <2>3, <2>4, HandlerFreed
<1>8. Messages'
  BY ZenonT(60), <1>2, <1>4, MessagesMoved DEF Messages
<1> QED
  BY ZenonT(60), <1>2, <1>5, <1>6, <1>7, <1>8, ServerKeeps

LEMMA WriteResponseStep ==
  ASSUME ScenariosSound, IInv, NEW k \in Conns, WriteResponse(k)
  PROVE  IInv'
<1> USE DEF IInv, ServerInv
<1>1. srv[k].pc = "write" /\ UNCHANGED <<scene, client, call>> /\ Conns' = Conns
  BY DEF WriteResponse, Conns
<1>2. CASE EndConn(k)
  BY <1>1, <1>2, EndConnStep
<1>3. CASE ~(serve.ctx = "done" \/ client[k].closed)
  <2>1. /\ pipe' = [pipe EXCEPT ![k].down = Append(@, srv[k].resp), ![k].open = ~srv[k].last]
        /\ srv' = [srv EXCEPT ![k].pc = IF srv[k].last THEN "closed" ELSE "read"]
        /\ slots' = IF srv[k].last THEN Taken("connections", -1) ELSE slots
    BY ZenonT(60), <1>3 DEF WriteResponse
  <2>2. /\ srv' \in [Conns -> Conversations]
        /\ srv'[k].pc = IF srv[k].last THEN "closed" ELSE "read"
        /\ srv'[k].peer = srv[k].peer /\ srv'[k].req = srv[k].req /\ srv'[k].resp = srv[k].resp
        /\ \A j \in Conns \ {k} : srv'[j] = srv[j]
    BY <2>1 DEF Typed, Conversations
  <2>3. pipe[k].down \in Seq(Resps) /\ srv[k].resp \in Resps /\ srv[k].last \in BOOLEAN
    BY DEF Typed, Streams, Conversations
  <2>4. pipe' \in [Conns -> Streams] /\ pipe'[k].up = pipe[k].up
        /\ pipe'[k].down = Append(pipe[k].down, srv[k].resp)
        /\ \A j \in Conns \ {k} : pipe'[j] = pipe[j]
    <3>1. Append(pipe[k].down, srv[k].resp) \in Seq(Resps)
      BY <2>3
    <3> QED
      BY ZenonT(60), <2>1, <2>3, <3>1 DEF Typed, Streams
  <2>5. Typed'
    <3>1. slots' \in [Classes -> Int]
      BY <2>1 DEF Typed, Taken, Classes
    <3> QED
      BY <1>1, <2>2, <2>4, <3>1 DEF Typed, Conns, Calls
  <2>6. Rights'
    BY <1>1, <2>2 DEF Rights
  <2>7. SlotsExact'
    <3>1. \A c \in Classes : Handlers(c)' = Handlers(c)
      BY <1>1, <2>2 DEF Handlers
    <3>2. CASE srv[k].last
      <4>1. {j \in Conns : Working(j)}' = {j \in Conns : Working(j)} \ {k}
        BY <1>1, <2>2, <3>2 DEF Working
      <4> QED
        BY <1>1, <2>1, <3>1, <3>2, <4>1, ConnectionFreed DEF Working
    <3>3. CASE ~srv[k].last
      <4>1. {j \in Conns : Working(j)}' = {j \in Conns : Working(j)}
        BY SMTT(60), <1>1, <2>2, <3>3 DEF Working
      <4> QED
        BY <1>1, <2>1, <3>1, <3>3, <4>1, SlotsKept
    <3> QED
      BY <3>2, <3>3
  <2>8. Messages'
    <3>1. \A i \in DOMAIN pipe'[k].down : Belongs(k, pipe'[k].down[i])
      <4>1. \A i \in DOMAIN Append(pipe[k].down, srv[k].resp) :
              \/ i \in DOMAIN pipe[k].down
                 /\ Append(pipe[k].down, srv[k].resp)[i] = pipe[k].down[i]
              \/ Append(pipe[k].down, srv[k].resp)[i] = srv[k].resp
        BY <2>3
      <4> QED
        BY <2>4, <4>1 DEF Messages
    <3> QED
      BY ZenonT(60), <1>1, <2>2, <2>4, <3>1, MessagesMoved DEF Messages
  <2> QED
    BY <1>1, <2>5, <2>6, <2>7, <2>8, ServerKeeps
<1> QED
  BY <1>2, <1>3 DEF WriteResponse

LEMMA CloseListenerStep ==
  ASSUME ScenariosSound, IInv, CloseListener
  PROVE  IInv'
<1> USE DEF IInv, ServerInv
<1>1. UNCHANGED <<scene, slots, client, call>> /\ Conns' = Conns
  BY DEF CloseListener, Conns
<1>2. /\ srv' \in [Conns -> Conversations]
      /\ \A j \in Conns : /\ srv'[j].peer = srv[j].peer /\ srv'[j].req = srv[j].req
                          /\ srv'[j].resp = srv[j].resp
                          /\ srv'[j].pc = IF srv[j].pc = "backlog" THEN "closed" ELSE srv[j].pc
  BY ZenonT(60) DEF CloseListener, Typed, Conversations
<1>3. /\ pipe' \in [Conns -> Streams]
      /\ \A j \in Conns : pipe'[j].up = pipe[j].up /\ pipe'[j].down = pipe[j].down
  BY ZenonT(60) DEF CloseListener, Shut, Typed, Streams
<1>4. Typed'
  BY <1>1, <1>2, <1>3 DEF Typed, Conns, Calls
<1>5. Rights'
  BY <1>1, <1>2 DEF Rights
<1>6. SlotsExact'
  <2>1. {j \in Conns : Working(j)}' = {j \in Conns : Working(j)}
    BY <1>1, <1>2 DEF Working
  <2>2. \A c \in Classes : Handlers(c)' = Handlers(c)
    BY <1>1, <1>2 DEF Handlers
  <2> QED
    BY <1>1, <2>1, <2>2, SlotsKept
<1>7. Messages'
  BY <1>1, <1>2, <1>3, MessagesKept
<1> QED
  BY <1>1, <1>4, <1>5, <1>6, <1>7, ServerKeeps

-----------------------------------------------------------------------------
(* The clients' steps.                                                     *)

LEMMA ClientKeeps ==
  ASSUME IInv, UNCHANGED server, Typed', Ids', Got', Turns', Deadlines', Messages'
  PROVE  IInv'
  BY ServerFrame DEF IInv, ServerInv, ClientInv, server

(* A message stays with its call while calls keep the identifiers they     *)
(* were given.                                                             *)
LEMMA MessagesAsked ==
  ASSUME Messages, UNCHANGED <<scene, srv>>,
         \A q \in Calls : call[q].id # 0 => call'[q].id = call[q].id,
         \A j \in Conns : /\ \A i \in DOMAIN pipe'[j].up : Belongs(j, pipe'[j].up[i])
                          /\ \A i \in DOMAIN pipe'[j].down : Belongs(j, pipe'[j].down[i])
  PROVE  Messages'
<1>1. Conns' = Conns /\ Calls' = Calls
  BY DEF Conns, Calls
<1>2. SUFFICES ASSUME NEW j \in Conns
               PROVE  /\ \A i \in DOMAIN pipe'[j].up : Belongs(j, pipe[j].up[i])'
                      /\ \A i \in DOMAIN pipe'[j].down : Belongs(j, pipe[j].down[i])'
                      /\ Belongs(j, srv[j].req)' /\ Belongs(j, srv[j].resp)'
  BY SMTT(60), <1>1 DEF Messages
<1>0. ASSUME NEW m, Belongs(j, m)
      PROVE  \/ m.id = 0 /\ m.tag = 0
             \/ /\ m.tag \in Calls' /\ scene'.calls[m.tag].conn = j
                /\ m.id = call'[m.tag].id /\ m.id # 0
  BY ZenonT(60), <1>0, <1>1 DEF Belongs, Of
<1>3. ASSUME NEW i \in DOMAIN pipe'[j].up
      PROVE  Belongs(j, pipe[j].up[i])'
  BY ZenonT(60), <1>0 DEF Belongs, Of
<1>4. ASSUME NEW i \in DOMAIN pipe'[j].down
      PROVE  Belongs(j, pipe[j].down[i])'
  BY ZenonT(60), <1>0 DEF Belongs, Of
<1>5. Belongs(j, srv[j].req) /\ Belongs(j, srv[j].resp)
  BY SMTT(60) DEF Messages
<1>6. Belongs(j, srv[j].req)' /\ Belongs(j, srv[j].resp)'
  BY ZenonT(60), <1>1, <1>5 DEF Belongs, Of
<1> QED
  BY <1>3, <1>4, <1>6

(* A step of one call, which moves that call and its connection's client   *)
(* only, keeps what is said of identifiers, turns and deadlines if it does *)
(* so for that call and that client.                                       *)
LEMMA IdsKept ==
  ASSUME Ids, NEW r \in Calls, Calls' = Calls, \A q \in Calls : Of(q)' = Of(q),
         \A q \in Calls : call'[q].id = call[q].id /\ client'[Of(q)].next = client[Of(q)].next,
         \A q \in Calls \ {r} : call'[q].pc = call[q].pc,
         call'[r].pc \in {"idle", "turn"} => call[r].id = 0,
         call'[r].pc \in Asking => call[r].id # 0
  PROVE  Ids'
<1>1. ASSUME NEW q \in Calls
      PROVE  /\ call'[q].id <= client'[Of(q)].next
             /\ call'[q].pc \in {"idle", "turn"} => call'[q].id = 0
             /\ call'[q].pc \in Asking => call'[q].id # 0
  BY DEF Ids
<1>2. ASSUME NEW p \in Calls, NEW q \in Calls, Of(p) = Of(q), call'[p].id = call'[q].id,
             call'[p].id # 0
      PROVE  p = q
  BY <1>2 DEF Ids
<1>3. \A q \in Calls' :
        /\ call'[q].id <= client'[Of(q)'].next
        /\ call'[q].pc \in {"idle", "turn"} => call'[q].id = 0
        /\ call'[q].pc \in Asking => call'[q].id # 0
  BY <1>1
<1>4. \A p, q \in Calls' : Of(p)' = Of(q)' /\ call'[p].id = call'[q].id /\ call'[p].id # 0
                           => p = q
  BY <1>2
<1> QED
  BY ONLY ZenonT(60), <1>3, <1>4 DEF Ids, Asking, Of

LEMMA TurnsKept ==
  ASSUME Turns, NEW r \in Calls, NEW k, k = Of(r), client[k].turn \in {0, r},
         Calls' = Calls, Conns' = Conns, \A q \in Calls : Of(q)' = Of(q),
         \A q \in Calls \ {r} : call'[q].pc = call[q].pc,
         \A j \in Conns \ {k} : client'[j].turn = client[j].turn,
         \A q \in Calls : Of(q) \in Conns /\ q # 0,
         client'[k].turn \in {0, r},
         call'[r].pc \in Asking \cup {"turn"} <=> client'[k].turn = r
  PROVE  Turns'
<1>1. ASSUME NEW j \in Conns, client'[j].turn # 0
      PROVE  /\ client'[j].turn \in Calls /\ Of(client'[j].turn) = j
             /\ call'[client'[j].turn].pc \in Asking \cup {"turn"}
  <2>1. CASE j = k
    BY <1>1, <2>1
  <2>2. CASE j # k
    <3>1. /\ client[j].turn \in Calls /\ Of(client[j].turn) = j
          /\ call[client[j].turn].pc \in Asking \cup {"turn"}
      BY <1>1, <2>2 DEF Turns
    <3> QED
      BY <2>2, <3>1
  <2> QED
    BY <2>1, <2>2
<1>2. ASSUME NEW q \in Calls, call'[q].pc \in Asking \cup {"turn"}
      PROVE  client'[Of(q)].turn = q
  <2>1. CASE q = r
    BY <1>2, <2>1
  <2>2. CASE q # r
    <3>1. client[Of(q)].turn = q
      BY <1>2, <2>2 DEF Turns
    <3>2. Of(q) # k
      BY <2>2, <3>1
    <3> QED
      BY <2>2, <3>1, <3>2
  <2> QED
    BY <2>1, <2>2
<1>3. \A j \in Conns' : client'[j].turn # 0 =>
        /\ client'[j].turn \in Calls' /\ scene'.calls[client'[j].turn].conn = j
        /\ call'[client'[j].turn].pc \in Asking \cup {"turn"}
  BY <1>1 DEF Of
<1>4. \A q \in Calls' : call'[q].pc \in Asking \cup {"turn"} => client'[Of(q)'].turn = q
  BY <1>2
<1> QED
  BY ONLY ZenonT(60), <1>3, <1>4 DEF Turns, Asking, Of

LEMMA DeadlinesKept ==
  ASSUME Deadlines, Turns, NEW r \in Calls, NEW k, k = Of(r),
         Calls' = Calls, Conns' = Conns, scene' = scene,
         \A q \in Calls \ {r} : call'[q] = call[q],
         \A j \in Conns \ {k} : client'[j] = client[j],
         client'[k].deadline # "none" =>
           /\ client'[k].turn # 0 /\ call'[client'[k].turn].pc \in Asking
           /\ \/ scene.calls[client'[k].turn].deadline
              \/ client'[k].deadline = "past" /\ call'[client'[k].turn].ctx = "done",
         call'[r].fired \in {"armed", "running"} => call'[r].pc \in Asking,
         call'[r].fired = "running" => call'[r].ctx = "done"
  PROVE  Deadlines'
<1>1. ASSUME NEW j \in Conns, client'[j].deadline # "none"
      PROVE  /\ client'[j].turn # 0 /\ call'[client'[j].turn].pc \in Asking
             /\ \/ scene.calls[client'[j].turn].deadline
                \/ client'[j].deadline = "past" /\ call'[client'[j].turn].ctx = "done"
  <2>1. CASE j = k
    BY <1>1, <2>1
  <2>2. CASE j # k
    <3>1. client'[j] = client[j]
      BY <2>2
    <3>2. /\ client[j].turn # 0 /\ call[client[j].turn].pc \in Asking
          /\ \/ scene.calls[client[j].turn].deadline
             \/ client[j].deadline = "past" /\ call[client[j].turn].ctx = "done"
      BY <1>1, <3>1 DEF Deadlines
    <3>3. client[j].turn \in Calls \ {r}
      BY <2>2, <3>2 DEF Turns
    <3> QED
      BY <3>1, <3>2, <3>3
  <2> QED
    BY <2>1, <2>2
<1>2. ASSUME NEW q \in Calls
      PROVE  /\ call'[q].fired \in {"armed", "running"} => call'[q].pc \in Asking
             /\ call'[q].fired = "running" => call'[q].ctx = "done"
  BY DEF Deadlines
<1> QED
  BY ZenonT(60), <1>1, <1>2 DEF Deadlines, Asking

LEMMA CallConn ==
  ASSUME ScenariosSound, Typed, NEW r \in Calls
  PROVE  Of(r) \in Conns /\ r \in Nat \ {0}
  BY Scene DEF Sound, Calls, Conns, Of

LEMMA TakeTurnStep ==
  ASSUME ScenariosSound, IInv, NEW r \in Calls, TakeTurn(r)
  PROVE  IInv'
<1> USE DEF IInv, ClientInv
<1>1. /\ call[r].pc = "idle" /\ UNCHANGED server /\ UNCHANGED pipe
      /\ Calls' = Calls /\ Conns' = Conns /\ \A q \in Calls : Of(q)' = Of(q)
  BY DEF TakeTurn, server, Calls, Conns, Of
<1>2. \A q \in Calls : Of(q) \in Conns /\ q \in Nat \ {0}
  BY CallConn
<1>3. CASE client[Of(r)].turn = 0 /\ client' = [client EXCEPT ![Of(r)].turn = r]
           /\ call' = [call EXCEPT ![r].pc = "turn"]
  <2>1. /\ call' \in [Calls -> Requests]
        /\ \A q \in Calls \ {r} : call'[q] = call[q]
        /\ call'[r].pc = "turn" /\ call'[r].id = call[r].id /\ call'[r].out = call[r].out
        /\ call'[r].got = call[r].got /\ call'[r].fired = call[r].fired /\ call'[r].ctx = call[r].ctx
    BY <1>3 DEF Typed, Requests
  <2>2. /\ client' \in [Conns -> Clients]
        /\ \A j \in Conns \ {Of(r)} : client'[j] = client[j]
        /\ client'[Of(r)].turn = r /\ client'[Of(r)].deadline = client[Of(r)].deadline
        /\ client'[Of(r)].next = client[Of(r)].next
    BY ZenonT(60), <1>2, <1>3 DEF Typed, Clients
  <2>3. Typed'
    BY ZenonT(60), <1>1, <2>1, <2>2 DEF Typed, server, Conns, Calls
  <2>4. Ids'
    <3>1. \A q \in Calls : call'[q].id = call[q].id /\ client'[Of(q)].next = client[Of(q)].next
      BY ZenonT(60), <1>2, <2>1, <2>2
    <3>2. call[r].id = 0
      BY ZenonT(60), <1>1 DEF Ids
    <3> QED
      BY ZenonT(60), <1>1, <2>1, <3>1, <3>2, IdsKept DEF Asking
  <2>5. Got'
    BY <1>1, <2>1 DEF Got
  <2>6. Turns'
    BY ZenonT(60), <1>1, <1>2, <1>3, <2>1, <2>2, TurnsKept DEF Asking
  <2>7. Deadlines'
    <3>1. client'[Of(r)].deadline = "none"
      BY ZenonT(60), <1>2, <1>3, <2>2 DEF Deadlines
    <3>2. call'[r].fired \notin {"armed", "running"}
      BY ZenonT(60), <1>1, <2>1 DEF Deadlines, Asking
    <3> QED
      BY ZenonT(60), <1>1, <2>1, <2>2, <3>1, <3>2, DeadlinesKept DEF server
  <2>8. Messages'
    BY ZenonT(60), <1>1, <2>1, MessagesAsked DEF Messages, server
  <2> QED
    BY <1>1, <2>3, <2>4, <2>5, <2>6, <2>7, <2>8, ClientKeeps
<1>4. CASE call' = Ended(r, "context") /\ UNCHANGED client
  <2>1. /\ call' \in [Calls -> Requests]
        /\ \A q \in Calls \ {r} : call'[q] = call[q]
        /\ call'[r].pc = "done" /\ call'[r].id = call[r].id /\ call'[r].out = "context"
        /\ call'[r].got = call[r].got /\ call'[r].fired = call[r].fired /\ call'[r].ctx = call[r].ctx
    BY ZenonT(60), <1>4 DEF Typed, Requests, Ended
  <2>2. Typed'
    BY <1>1, <1>4, <2>1 DEF Typed, server, Conns, Calls
  <2>3. Ids'
    BY ZenonT(60), <1>1, <1>4, <2>1, IdsKept DEF Asking
  <2>4. Got'
    BY <1>1, <2>1 DEF Got
  <2>5. Turns'
    <3>1. \A q \in Calls : call'[q].pc \in Asking \cup {"turn"}
                           <=> call[q].pc \in Asking \cup {"turn"}
      BY ZenonT(60), <1>1, <2>1 DEF Asking
    <3> QED
      BY ZenonT(60), <1>1, <1>4, <3>1 DEF Turns
  <2>6. Deadlines'
    <3>1. client[Of(r)].deadline # "none" => client[Of(r)].turn \in Calls \ {r}
      BY ZenonT(60), <1>1, <1>2 DEF Deadlines, Turns, Asking
    <3>2. client[Of(r)].deadline # "none" =>
            /\ client[Of(r)].turn # 0 /\ call'[client[Of(r)].turn].pc \in Asking
            /\ \/ scene.calls[client[Of(r)].turn].deadline
               \/ client[Of(r)].deadline = "past" /\ call'[client[Of(r)].turn].ctx = "done"
      BY ZenonT(60), <1>2, <2>1, <3>1 DEF Deadlines
    <3>3. call'[r].fired \notin {"armed", "running"}
      BY ZenonT(60), <1>1, <2>1 DEF Deadlines, Asking
    <3> QED
      BY ZenonT(60), <1>1, <1>4, <2>1, <3>2, <3>3, DeadlinesKept DEF server
  <2>7. Messages'
    BY ZenonT(60), <1>1, <2>1, MessagesAsked DEF Messages, server
  <2> QED
    BY <1>1, <2>2, <2>3, <2>4, <2>5, <2>6, <2>7, ClientKeeps
<1> QED
  BY <1>3, <1>4 DEF TakeTurn

LEMMA BeginStep ==
  ASSUME ScenariosSound, IInv, NEW r \in Calls, Begin(r)
  PROVE  IInv'
<1> USE DEF IInv, ClientInv
<1> DEFINE k == Of(r)
<1>1. /\ call[r].pc = "turn" /\ UNCHANGED server /\ UNCHANGED pipe
      /\ Calls' = Calls /\ Conns' = Conns /\ \A q \in Calls : Of(q)' = Of(q)
  BY ZenonT(60) DEF Begin, server, Calls, Conns, Of
<1>2. \A q \in Calls : Of(q) \in Conns /\ q \in Nat \ {0}
  BY CallConn
<1>3. client[k].turn = r /\ client[k].deadline = "none"
  BY ZenonT(60), <1>1, <1>2 DEF Turns, Deadlines, Asking, Typed, Clients
<1>4. CASE client[k].closed \/ call[r].ctx = "done"
  <2>1. PICK out \in {"closed", "context"} : call' = Ended(r, out)
    BY <1>4 DEF Begin
  <2>2. /\ call' \in [Calls -> Requests]
        /\ \A q \in Calls \ {r} : call'[q] = call[q]
        /\ call'[r].pc = "done" /\ call'[r].id = call[r].id /\ call'[r].out = out
        /\ call'[r].got = call[r].got /\ call'[r].fired = call[r].fired /\ call'[r].ctx = call[r].ctx
    BY ZenonT(60), <2>1 DEF Typed, Requests, Ended
  <2>3. client' = [client EXCEPT ![k].turn = 0]
    BY <1>4 DEF Begin, TurnGiven
  <2>4. /\ client' \in [Conns -> Clients]
        /\ \A j \in Conns \ {k} : client'[j] = client[j]
        /\ client'[k].turn = 0 /\ client'[k].deadline = client[k].deadline
        /\ client'[k].next = client[k].next
    BY ZenonT(60), <1>2, <2>3 DEF Typed, Clients
  <2> HIDE DEF k
  <2>5. Typed'
    BY ZenonT(60), <1>1, <2>2, <2>4 DEF Typed, server, Conns, Calls
  <2>6. Ids'
    <3>1. \A q \in Calls : call'[q].id = call[q].id /\ client'[Of(q)].next = client[Of(q)].next
      BY ZenonT(60), <1>2, <2>2, <2>4 DEF k
    <3> QED
      BY ZenonT(60), <1>1, <2>2, <3>1, IdsKept DEF Asking
  <2>7. Got'
    BY SMTT(60), <1>1, <2>2 DEF Got
  <2>8. Turns'
    BY ZenonT(60), <1>1, <1>2, <1>3, <2>2, <2>4, TurnsKept DEF Asking, k
  <2>9. Deadlines'
    <3>1. call'[r].fired \notin {"armed", "running"}
      BY ZenonT(60), <1>1, <2>2 DEF Deadlines, Asking
    <3> QED
      BY ZenonT(60), <1>1, <1>3, <2>2, <2>4, <3>1, DeadlinesKept DEF server, k
  <2>10. Messages'
    BY ZenonT(60), <1>1, <2>2, MessagesAsked DEF Messages, server
  <2> QED
    BY ZenonT(60), <1>1, <2>5, <2>6, <2>7, <2>8, <2>9, <2>10, ClientKeeps
<1>5. CASE ~(client[k].closed \/ call[r].ctx = "done")
  <2>1. /\ call' = [call EXCEPT ![r].pc = "send", ![r].id = client[k].next + 1,
                                ![r].fired = "armed"]
        /\ client' = [client EXCEPT ![k].next = @ + 1,
                        ![k].deadline = IF scene.calls[r].deadline THEN "set" ELSE @]
    BY <1>5 DEF Begin
  <2>2. client[k].next \in Nat /\ client[k].next + 1 \in Nat /\ client[k] \in Clients
    BY <1>2 DEF Typed, Clients
  <2>3. /\ call' \in [Calls -> Requests]
        /\ \A q \in Calls \ {r} : call'[q] = call[q]
        /\ call'[r].pc = "send" /\ call'[r].id = client[k].next + 1 /\ call'[r].out = call[r].out
        /\ call'[r].got = call[r].got /\ call'[r].fired = "armed" /\ call'[r].ctx = call[r].ctx
    BY ZenonT(60), <2>1, <2>2 DEF Typed, Requests
  <2>4. /\ client' \in [Conns -> Clients]
        /\ \A j \in Conns \ {k} : client'[j] = client[j]
        /\ client'[k].turn = r /\ client'[k].next = client[k].next + 1
        /\ client'[k].deadline = IF scene.calls[r].deadline THEN "set" ELSE "none"
    BY ZenonT(60), <1>2, <1>3, <2>1, <2>2 DEF Typed, Clients
  <2> HIDE DEF k
  <2>5. Typed'
    BY ZenonT(60), <1>1, <2>3, <2>4 DEF Typed, server, Conns, Calls
  <2>6. \A q \in Calls : call[q].id \in Nat /\ call'[q].id \in Nat
    BY <2>3 DEF Typed, Requests
  <2>7. Ids'
    <3>1. \A q \in Calls \ {r} : Of(q) = k => call[q].id < client[k].next + 1
      BY <2>2, <2>6 DEF Ids
    <3>2. ASSUME NEW q \in Calls
          PROVE  call'[q].id <= client'[Of(q)].next
      <4>1. call[q].id <= client[Of(q)].next
        BY DEF Ids
      <4>2. CASE q = r
        BY <2>2, <2>3, <2>4, <4>2 DEF k
      <4>3. CASE q # r /\ Of(q) = k
        BY SMTT(60), <2>2, <2>3, <2>4, <2>6, <4>1, <4>3
      <4>4. CASE q # r /\ Of(q) # k
        BY ZenonT(60), <1>2, <2>3, <2>4, <4>1, <4>4
      <4> QED
        BY <4>2, <4>3, <4>4
    <3>3. \A q \in Calls : /\ call'[q].pc \in {"idle", "turn"} => call'[q].id = 0
                           /\ call'[q].pc \in Asking => call'[q].id # 0
      BY <2>2, <2>3 DEF Ids, Asking
    <3>4. \A p, q \in Calls :
            Of(p) = Of(q) /\ call'[p].id = call'[q].id /\ call'[p].id # 0 => p = q
      BY <2>2, <2>3, <2>6, <3>1 DEF Ids, k
    <3> QED
      BY <1>1, <3>2, <3>3, <3>4 DEF Ids
  <2>8. Got'
    BY SMTT(60), <1>1, <2>3 DEF Got
  <2>9. Turns'
    BY ZenonT(60), <1>1, <1>2, <1>3, <2>3, <2>4, TurnsKept DEF Asking, k
  <2>10. Deadlines'
    <3>1. r # 0 /\ call'[r].pc \in Asking
          /\ (client'[k].deadline # "none" => scene.calls[r].deadline)
      BY ZenonT(60), <1>2, <2>3, <2>4 DEF Asking
    <3> QED
      BY ZenonT(60), <1>1, <2>3, <2>4, <3>1, DeadlinesKept DEF server, k
  <2>11. Messages'
    <3>1. call[r].id = 0
      BY ZenonT(60), <1>1 DEF Ids
    <3> QED
      BY ZenonT(60), <1>1, <2>3, <3>1, MessagesAsked DEF Messages, server
  <2> QED
    BY ZenonT(60), <1>1, <2>5, <2>7, <2>8, <2>9, <2>10, <2>11, ClientKeeps
<1> QED
  BY ZenonT(60), <1>4, <1>5

(* A call goes on, holding its turn.                                       *)
LEMMA AskingStep ==
  ASSUME ScenariosSound, IInv, NEW r \in Calls, call[r].pc \in {"send", "read"},
         call' \in [Calls -> Requests], pipe' \in [Conns -> Streams],
         \A q \in Calls \ {r} : call'[q] = call[q],
         call'[r].pc \in {"read", "stop"}, call'[r].id = call[r].id,
         call'[r].fired = call[r].fired, call'[r].ctx = call[r].ctx,
         call'[r].pc = "read" => call'[r].out = "none",
         call'[r].out \in {"ok", "refused"} => call'[r].got = r,
         UNCHANGED server, UNCHANGED client, Messages'
  PROVE  IInv'
<1> USE DEF IInv, ClientInv
<1>1. Calls' = Calls /\ Conns' = Conns /\ \A q \in Calls : Of(q)' = Of(q)
  BY ZenonT(60) DEF server, Calls, Conns, Of
<1>2. \A q \in Calls : Of(q) \in Conns /\ q \in Nat \ {0}
  BY ZenonT(60), CallConn
<1>3. Typed'
  BY ZenonT(60), <1>1 DEF Typed, server, Conns, Calls
<1>4. Ids'
  <2>1. call[r].id # 0
    BY ZenonT(60) DEF Ids, Asking
  <2>2. \A q \in Calls : call'[q].id = call[q].id
    BY ZenonT(60)
  <2> QED
    BY ZenonT(60), <1>1, <2>1, <2>2, IdsKept DEF Asking
<1>5. Got'
  BY SMTT(60), <1>1 DEF Got
<1>6. Turns'
  BY ZenonT(60), <1>1, <1>2 DEF Turns, Asking
<1>7. Deadlines'
  <2>1. r # 0 /\ client[Of(r)].turn = r /\ call'[r].pc \in Asking
    BY ZenonT(60), <1>2 DEF Turns, Asking
  <2>2. client[Of(r)].deadline # "none" =>
          \/ scene.calls[r].deadline
          \/ client[Of(r)].deadline = "past" /\ call'[r].ctx = "done"
    BY ZenonT(60), <1>2, <2>1 DEF Deadlines
  <2>3. call'[r].fired = "running" => call'[r].ctx = "done"
    BY ZenonT(60) DEF Deadlines
  <2>4. client'[Of(r)].deadline # "none" =>
          /\ client'[Of(r)].turn # 0 /\ call'[client'[Of(r)].turn].pc \in Asking
          /\ \/ scene.calls[client'[Of(r)].turn].deadline
             \/ client'[Of(r)].deadline = "past" /\ call'[client'[Of(r)].turn].ctx = "done"
    BY ZenonT(60), <2>1, <2>2
  <2>5. scene' = scene /\ (call'[r].fired \in {"armed", "running"} => call'[r].pc \in Asking)
    BY ZenonT(60), <2>1 DEF server
  <2> QED
    BY ZenonT(60), <1>1, <2>3, <2>4, <2>5, DeadlinesKept
<1> QED
  BY ZenonT(60), <1>3, <1>4, <1>5, <1>6, <1>7, ClientKeeps

LEMMA SendStep ==
  ASSUME ScenariosSound, IInv, NEW r \in Calls, Send(r)
  PROVE  IInv'
<1> USE DEF IInv, ClientInv
<1> DEFINE k == Of(r)
           req == Request(r)
<1>1. call[r].pc = "send" /\ UNCHANGED server /\ UNCHANGED client /\ k \in Conns /\ r \in Nat
  BY CallConn DEF Send
<1>2. call[r] \in Requests /\ call[r].id # 0 /\ call[r].out = "none"
  BY <1>1 DEF Typed, Ids, Got, Asking
<1>3. CASE call' = [call EXCEPT ![r].pc = "stop", ![r].out = "io"] /\ UNCHANGED pipe
  <2>1. /\ call' \in [Calls -> Requests] /\ pipe' \in [Conns -> Streams]
        /\ \A q \in Calls \ {r} : call'[q] = call[q]
        /\ call'[r].pc = "stop" /\ call'[r].id = call[r].id /\ call'[r].out = "io"
        /\ call'[r].fired = call[r].fired /\ call'[r].ctx = call[r].ctx
    BY ZenonT(60), <1>3 DEF Typed, Requests
  <2>2. Messages'
    BY <1>1, <1>3, <2>1, MessagesAsked DEF Messages, server
  <2> QED
    BY ZenonT(60), <1>1, <2>1, <2>2, AskingStep
<1>4. CASE /\ pipe' = [pipe EXCEPT ![k].up = Append(@, req)]
           /\ call' = [call EXCEPT ![r].pc = "read"]
  <2>1. /\ call' \in [Calls -> Requests]
        /\ \A q \in Calls \ {r} : call'[q] = call[q]
        /\ call'[r].pc = "read" /\ call'[r].id = call[r].id /\ call'[r].out = "none"
        /\ call'[r].fired = call[r].fired /\ call'[r].ctx = call[r].ctx
    BY ZenonT(60), <1>2, <1>4 DEF Typed, Requests
  <2>2. req \in Reqs /\ Belongs(k, req)
    <3>1. scene.calls[r].method \in Methods
      BY Scene DEF Sound, Calls
    <3> QED
      BY ZenonT(60), <1>1, <1>2, <3>1 DEF Request, Reqs, Requests, Belongs
  <2> HIDE DEF req, k
  <2>3. pipe[k] \in Streams /\ pipe[k].up \in Seq(Reqs)
    BY <1>1 DEF Typed, Streams
  <2>4. /\ pipe' \in [Conns -> Streams] /\ pipe'[k].up = Append(pipe[k].up, req)
        /\ pipe'[k].down = pipe[k].down /\ \A j \in Conns \ {k} : pipe'[j] = pipe[j]
    <3>1. Append(pipe[k].up, req) \in Seq(Reqs)
      BY <2>2, <2>3
    <3> QED
      BY ZenonT(60), <1>1, <1>4, <2>3, <3>1 DEF Typed, Streams
  <2>5. \A i \in DOMAIN pipe'[k].up : Belongs(k, pipe'[k].up[i])
    <3>1. \A i \in DOMAIN Append(pipe[k].up, req) :
            \/ i \in DOMAIN pipe[k].up /\ Append(pipe[k].up, req)[i] = pipe[k].up[i]
            \/ Append(pipe[k].up, req)[i] = req
      BY SMTT(60), <2>2, <2>3
    <3> QED
      BY ZenonT(60), <1>1, <2>2, <2>4, <3>1 DEF Messages
  <2>6. Messages'
    BY ZenonT(60), <1>1, <2>1, <2>4, <2>5, MessagesAsked DEF Messages, server
  <2> QED
    BY ZenonT(60), <1>1, <2>1, <2>4, <2>6, AskingStep
<1> QED
  BY <1>3, <1>4 DEF Send

LEMMA ReceiveStep ==
  ASSUME ScenariosSound, IInv, NEW r \in Calls, Receive(r)
  PROVE  IInv'
<1> USE DEF IInv, ClientInv
<1> DEFINE k == Of(r)
           resp == Head(pipe[k].down)
<1>1. call[r].pc = "read" /\ UNCHANGED server /\ UNCHANGED client /\ k \in Conns /\ r \in Nat
  BY CallConn DEF Receive
<1>2. call[r] \in Requests /\ call[r].id # 0
  BY <1>1 DEF Typed, Ids, Asking
<1>3. CASE call' = [call EXCEPT ![r].pc = "stop", ![r].out = "io"] /\ UNCHANGED pipe
  <2>1. /\ call' \in [Calls -> Requests] /\ pipe' \in [Conns -> Streams]
        /\ \A q \in Calls \ {r} : call'[q] = call[q]
        /\ call'[r].pc = "stop" /\ call'[r].id = call[r].id /\ call'[r].out = "io"
        /\ call'[r].fired = call[r].fired /\ call'[r].ctx = call[r].ctx
    BY ZenonT(60), <1>3 DEF Typed, Requests
  <2>2. Messages'
    BY <1>1, <1>3, <2>1, MessagesAsked DEF Messages, server
  <2> QED
    BY ZenonT(60), <1>1, <2>1, <2>2, AskingStep
<1>4. CASE /\ pipe[k].down # <<>> /\ pipe' = [pipe EXCEPT ![k].down = Tail(@)]
           /\ call' = [call EXCEPT ![r].pc = "stop", ![r].got = resp.tag,
                ![r].out = IF ~Answers(r, resp) THEN "io"
                           ELSE IF resp.out = "ok" THEN "ok" ELSE "refused"]
  <2>1. pipe[k] \in Streams /\ pipe[k].down \in Seq(Resps)
    BY <1>1 DEF Typed, Streams
  <2>2. resp = pipe[k].down[1] /\ 1 \in DOMAIN pipe[k].down /\ resp \in Resps
        /\ Tail(pipe[k].down) \in Seq(Resps)
    BY <1>4, <2>1
  <2>3. Belongs(k, resp)
    BY ZenonT(60), <1>1, <2>2 DEF Messages
  <2>4. PICK out \in {"io", "ok", "refused"} :
          /\ out # "io" => Answers(r, resp)
          /\ call' = [call EXCEPT ![r].pc = "stop", ![r].got = resp.tag, ![r].out = out]
    BY ZenonT(60), <1>4
  <2>5. out # "io" => resp.tag = r
    BY ZenonT(60), <1>1, <1>2, <2>3, <2>4 DEF Belongs, Answers, Ids
  <2> HIDE DEF resp, k
  <2>6. /\ call' \in [Calls -> Requests]
        /\ \A q \in Calls \ {r} : call'[q] = call[q]
        /\ call'[r].pc = "stop" /\ call'[r].id = call[r].id
        /\ call'[r].out = out /\ call'[r].got = resp.tag
        /\ call'[r].fired = call[r].fired /\ call'[r].ctx = call[r].ctx
    <3>1. resp.tag \in Nat
      BY <2>2 DEF Resps
    <3> QED
      BY ZenonT(60), <1>2, <2>4, <3>1 DEF Typed, Requests
  <2>7. /\ pipe' \in [Conns -> Streams] /\ pipe'[k].down = Tail(pipe[k].down)
        /\ pipe'[k].up = pipe[k].up /\ \A j \in Conns \ {k} : pipe'[j] = pipe[j]
    BY ZenonT(60), <1>1, <1>4, <2>1, <2>2 DEF Typed, Streams
  <2>8. \A i \in DOMAIN pipe'[k].down : Belongs(k, pipe'[k].down[i])
    <3>1. \A i \in DOMAIN Tail(pipe[k].down) : /\ i + 1 \in DOMAIN pipe[k].down
                                               /\ Tail(pipe[k].down)[i] = pipe[k].down[i + 1]
      BY SMTT(60), <1>4, <2>1
    <3> QED
      BY ZenonT(60), <1>1, <2>7, <3>1 DEF Messages
  <2>9. Messages'
    BY ZenonT(60), <1>1, <2>6, <2>7, <2>8, MessagesAsked DEF Messages, server
  <2> QED
    BY ZenonT(60), <1>1, <2>5, <2>6, <2>7, <2>9, AskingStep
<1> QED
  BY ZenonT(60), <1>3, <1>4 DEF Receive

(* A step of a context, a timer or a close, which moves no call.           *)
LEMMA ContextStep ==
  ASSUME ScenariosSound, IInv, UNCHANGED server, UNCHANGED pipe,
         call' \in [Calls -> Requests], client' \in [Conns -> Clients],
         \A q \in Calls : /\ call'[q].pc = call[q].pc /\ call'[q].id = call[q].id
                          /\ call'[q].out = call[q].out /\ call'[q].got = call[q].got,
         \A j \in Conns : client'[j].turn = client[j].turn /\ client'[j].next = client[j].next,
         Deadlines'
  PROVE  IInv'
<1> USE DEF IInv, ClientInv
<1>1. Calls' = Calls /\ Conns' = Conns /\ \A q \in Calls : Of(q)' = Of(q)
  BY DEF server, Calls, Conns, Of
<1>2. \A q \in Calls : Of(q) \in Conns /\ q \in Nat \ {0}
  BY CallConn
<1>3. Typed'
  BY SMTT(60), <1>1 DEF Typed, server, Conns, Calls
<1>4. Ids'
  BY <1>1, <1>2 DEF Ids, Asking
<1>5. Got'
  BY <1>1 DEF Got
<1>6. Turns'
  BY SMTT(60), <1>1, <1>2 DEF Turns, Asking
<1>7. Messages'
  BY ZenonT(60), <1>1, MessagesAsked DEF Messages, server
<1> QED
  BY <1>3, <1>4, <1>5, <1>6, <1>7, ClientKeeps

LEMMA ContextEndsStep ==
  ASSUME ScenariosSound, IInv, NEW r \in Calls, ContextEnds(r)
  PROVE  IInv'
<1> USE DEF IInv, ClientInv
<1>1. /\ UNCHANGED server /\ UNCHANGED pipe /\ UNCHANGED client
      /\ Calls' = Calls /\ Conns' = Conns /\ scene' = scene
  BY DEF ContextEnds, server, Calls, Conns
<1>2. call[r] \in Requests
  BY DEF Typed
<1>3. /\ call' \in [Calls -> Requests] /\ client' \in [Conns -> Clients]
      /\ \A q \in Calls \ {r} : call'[q] = call[q]
      /\ call'[r].pc = call[r].pc /\ call'[r].id = call[r].id
      /\ call'[r].out = call[r].out /\ call'[r].got = call[r].got
      /\ call'[r].ctx = "done"
      /\ call'[r].fired = IF call[r].fired = "armed" THEN "running" ELSE call[r].fired
  BY ZenonT(60), <1>1, <1>2 DEF ContextEnds, Typed, Requests
<1>4. Deadlines'
  <2>1. Of(r) \in Conns
    BY CallConn
  <2>2. client[Of(r)].deadline # "none" =>
          /\ client[Of(r)].turn # 0 /\ client[Of(r)].turn \in Calls
          /\ call[client[Of(r)].turn].pc \in Asking
          /\ \/ scene.calls[client[Of(r)].turn].deadline
             \/ client[Of(r)].deadline = "past" /\ call[client[Of(r)].turn].ctx = "done"
    BY ZenonT(60), <2>1 DEF Deadlines, Turns
  <2>3. \A q \in Calls : /\ call'[q].pc = call[q].pc
                        /\ call[q].ctx = "done" => call'[q].ctx = "done"
    BY ZenonT(60), <1>3
  <2>4. call'[r].fired \in {"armed", "running"} => call'[r].pc \in Asking
    BY ZenonT(60), <1>3 DEF Deadlines
  <2> QED
    BY ZenonT(60), <1>1, <1>3, <2>2, <2>3, <2>4, DeadlinesKept
<1>5. \A q \in Calls : /\ call'[q].pc = call[q].pc /\ call'[q].id = call[q].id
                      /\ call'[q].out = call[q].out /\ call'[q].got = call[q].got
  BY ZenonT(60), <1>3
<1> QED
  BY ONLY ZenonT(60), ScenariosSound, IInv, <1>1, <1>3, <1>4, <1>5, ContextStep

LEMMA InterruptStep ==
  ASSUME ScenariosSound, IInv, NEW r \in Calls, Interrupt(r)
  PROVE  IInv'
<1> USE DEF IInv, ClientInv
<1> DEFINE k == Of(r)
<1>1. /\ call[r].fired = "running" /\ UNCHANGED server /\ UNCHANGED pipe
      /\ Calls' = Calls /\ Conns' = Conns /\ scene' = scene
  BY DEF Interrupt, server, Calls, Conns
<1>2. call[r] \in Requests /\ k \in Conns /\ client[k] \in Clients /\ r # 0
  BY CallConn DEF Typed
<1>3. call[r].ctx = "done" /\ call[r].pc \in Asking /\ client[k].turn = r
  BY ZenonT(60), <1>1 DEF Deadlines, Turns
<1>4. /\ call' \in [Calls -> Requests]
      /\ \A q \in Calls \ {r} : call'[q] = call[q]
      /\ call'[r].pc = call[r].pc /\ call'[r].id = call[r].id
      /\ call'[r].out = call[r].out /\ call'[r].got = call[r].got
      /\ call'[r].ctx = call[r].ctx /\ call'[r].fired = "fired"
  BY <1>2 DEF Interrupt, Typed, Requests
<1>5. /\ client' \in [Conns -> Clients]
      /\ \A j \in Conns \ {k} : client'[j] = client[j]
      /\ client'[k].turn = client[k].turn /\ client'[k].next = client[k].next
      /\ client'[k].deadline = "past"
  BY SMTT(60), <1>2 DEF Interrupt, Typed, Clients
<1> HIDE DEF k
<1>6. Deadlines'
  <2>1. client'[Of(r)].deadline # "none" =>
          /\ client'[Of(r)].turn # 0 /\ call'[client'[Of(r)].turn].pc \in Asking
          /\ \/ scene.calls[client'[Of(r)].turn].deadline
             \/ client'[Of(r)].deadline = "past" /\ call'[client'[Of(r)].turn].ctx = "done"
    BY ZenonT(60), <1>2, <1>3, <1>4, <1>5 DEF k
  <2>2. call'[r].fired \notin {"armed", "running"}
    BY ZenonT(60), <1>4
  <2> QED
    BY ZenonT(60), <1>1, <1>4, <1>5, <2>1, <2>2, DeadlinesKept DEF k
<1> QED
  BY ZenonT(60), <1>1, <1>4, <1>5, <1>6, ContextStep

LEMMA DeadlinePassesStep ==
  ASSUME ScenariosSound, IInv, NEW k \in Conns, DeadlinePasses(k)
  PROVE  IInv'
<1> USE DEF IInv, ClientInv
<1>1. /\ client[k].deadline = "set" /\ UNCHANGED server /\ UNCHANGED pipe /\ UNCHANGED call
      /\ Calls' = Calls /\ Conns' = Conns /\ scene' = scene
  BY DEF DeadlinePasses, server, Calls, Conns
<1>2. /\ client' \in [Conns -> Clients] /\ call' \in [Calls -> Requests]
      /\ \A j \in Conns \ {k} : client'[j] = client[j]
      /\ client'[k].turn = client[k].turn /\ client'[k].next = client[k].next
      /\ client'[k].deadline = "past"
  BY SMTT(60), <1>1 DEF DeadlinePasses, Typed, Clients
<1>3. Deadlines'
  BY ZenonT(60), <1>1, <1>2 DEF Deadlines
<1> QED
  BY ZenonT(60), <1>1, <1>2, <1>3, ContextStep

LEMMA CloseClientStep ==
  ASSUME ScenariosSound, IInv, NEW k \in Conns, CloseClient(k)
  PROVE  IInv'
<1> USE DEF IInv, ClientInv
<1>1. /\ UNCHANGED server /\ UNCHANGED pipe /\ UNCHANGED call
      /\ Calls' = Calls /\ Conns' = Conns /\ scene' = scene
  BY DEF CloseClient, server, Calls, Conns
<1>2. /\ client' \in [Conns -> Clients] /\ call' \in [Calls -> Requests]
      /\ \A j \in Conns : /\ client'[j].turn = client[j].turn /\ client'[j].next = client[j].next
                          /\ client'[j].deadline = client[j].deadline
  BY ZenonT(60), <1>1 DEF CloseClient, Typed, Clients
<1>3. Deadlines'
  BY <1>1, <1>2 DEF Deadlines
<1> QED
  BY ZenonT(60), <1>1, <1>2, <1>3, ContextStep

LEMMA ReturnStep ==
  ASSUME ScenariosSound, IInv, NEW r \in Calls, Return(r)
  PROVE  IInv'
<1> USE DEF IInv, ClientInv
<1> DEFINE k == Of(r)
<1>1. /\ call[r].pc = "stop" /\ call[r].fired \in {"armed", "fired"}
      /\ UNCHANGED server /\ UNCHANGED pipe
      /\ Calls' = Calls /\ Conns' = Conns /\ \A q \in Calls : Of(q)' = Of(q)
  BY ZenonT(60) DEF Return, InterruptOver, server, Calls, Conns, Of
<1>2. \A q \in Calls : Of(q) \in Conns /\ q \in Nat \ {0}
  BY CallConn
<1>3. client[k].turn = r /\ call[r] \in Requests /\ client[k] \in Clients
  BY <1>1, <1>2 DEF Turns, Asking, Typed
<1>4. /\ call' \in [Calls -> Requests]
      /\ \A q \in Calls \ {r} : call'[q] = call[q]
      /\ call'[r].pc = "done" /\ call'[r].id = call[r].id
      /\ call'[r].out = call[r].out /\ call'[r].got = call[r].got
      /\ call'[r].ctx = call[r].ctx /\ call'[r].fired \in {"stopped", "fired"}
  BY ZenonT(60), <1>1, <1>3 DEF Return, Typed, Requests
<1>5. ClosedAfter(r) \in BOOLEAN
  BY <1>3 DEF ClosedAfter, Clients
<1>6. /\ client' \in [Conns -> Clients]
      /\ \A j \in Conns \ {k} : client'[j] = client[j]
      /\ client'[k].turn = 0 /\ client'[k].next = client[k].next
      /\ client'[k].deadline = "none"
  BY ZenonT(60), <1>2, <1>3, <1>5 DEF Return, Typed, Clients
<1> HIDE DEF k
<1>7. Typed'
  BY <1>1, <1>4, <1>6 DEF Typed, server, Conns, Calls
<1>8. Ids'
  <2>1. \A q \in Calls : call'[q].id = call[q].id /\ client'[Of(q)].next = client[Of(q)].next
    BY ZenonT(60), <1>2, <1>4, <1>6 DEF k
  <2> QED
    BY ZenonT(60), <1>1, <1>4, <2>1, IdsKept DEF Asking
<1>9. Got'
  BY SMTT(60), <1>1, <1>4 DEF Got
<1>10. Turns'
  BY ZenonT(60), <1>1, <1>2, <1>3, <1>4, <1>6, TurnsKept DEF Asking, k
<1>11. Deadlines'
  <2>1. call'[r].fired \notin {"armed", "running"}
    BY ZenonT(60), <1>4
  <2> QED
    BY ZenonT(60), <1>1, <1>4, <1>6, <2>1, DeadlinesKept DEF server, k
<1>12. Messages'
  BY ZenonT(60), <1>1, <1>4, MessagesAsked DEF Messages, server
<1> QED
  BY ZenonT(60), <1>1, <1>7, <1>8, <1>9, <1>10, <1>11, <1>12, ClientKeeps

(* Steps of the serving lifetime alone, and stuttering.                    *)
LEMMA QuietStep ==
  ASSUME IInv, UNCHANGED <<scene, slots, srv, pipe, client, call>>
  PROVE  IInv'
<1>1. Typed'
  BY DEF IInv, Typed, Conns, Calls
<1>2. Messages'
  BY MessagesKept DEF IInv
<1> QED
  BY <1>1, <1>2, ServerFrame, ClientFrame DEF IInv

LEMMA NextIInv ==
  ASSUME ScenariosSound, IInv, [Next]_vars
  PROVE  IInv'
<1>1. CASE \E k \in Conns : ServerStep(k)
  <2>1. PICK k \in Conns : ServerStep(k)
    BY <1>1
  <2>2. CASE Accept(k) \/ Authorize(k) \/ ReadFails(k) \/ ReadRequest(k)
    BY <2>2, AcceptStep, AuthorizeStep, ReadFailsStep, ReadRequestStep
  <2>3. CASE Refuse(k) \/ Handle(k) \/ HandlerReturns(k) \/ WriteResponse(k)
    BY <2>3, RefuseStep, HandleStep, HandlerReturnsStep, WriteResponseStep
  <2> QED
    BY <2>1, <2>2, <2>3 DEF ServerStep
<1>2. CASE \E k \in Conns : DeadlinePasses(k) \/ CloseClient(k)
  BY <1>2, DeadlinePassesStep, CloseClientStep
<1>3. CASE \E r \in Calls : ClientStep(r) \/ ContextEnds(r)
  <2>1. PICK r \in Calls : ClientStep(r) \/ ContextEnds(r)
    BY <1>3
  <2>2. CASE TakeTurn(r) \/ Begin(r) \/ Send(r) \/ Receive(r)
    BY <2>2, TakeTurnStep, BeginStep, SendStep, ReceiveStep
  <2>3. CASE Interrupt(r) \/ Return(r) \/ ContextEnds(r)
    BY <2>3, InterruptStep, ReturnStep, ContextEndsStep
  <2> QED
    BY <2>1, <2>2, <2>3 DEF ClientStep
<1>4. CASE CloseListener
  BY <1>4, CloseListenerStep
<1>5. CASE LeaveLoop \/ ServeReturns \/ StopServing \/ UNCHANGED vars
  <2>1. UNCHANGED <<scene, slots, srv, pipe, client, call>>
    BY <1>5 DEF LeaveLoop, ServeReturns, StopServing, vars
  <2> QED
    BY <2>1, QuietStep
<1> QED
  BY <1>1, <1>2, <1>3, <1>4, <1>5 DEF Next, Lifetime
=============================================================================
