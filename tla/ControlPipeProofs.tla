------------------------- MODULE ControlPipeProofs -------------------------
(***************************************************************************)
(* Proofs about ControlPipe, for any number of connections and calls, any  *)
(* limits and any end of contexts, clients and server.                     *)
(***************************************************************************)
EXTENDS ControlPipeInvariant, SequenceTheorems

-----------------------------------------------------------------------------
(* What is in flight on a connection: the request on its way, the one the  *)
(* server works on, and the answer on its way back.                        *)
AtServer(k) ==
  \/ srv[k].pc \in {"dispatch", "handle"}
  \/ srv[k].pc = "write" /\ srv[k].resp.tag # 0
InDown(k) == \E i \in DOMAIN pipe[k].down : pipe[k].down[i].tag # 0

(* Someone still waits for call t's answer, or will close the client.      *)
Awaited(k, t) ==
  \/ client[k].closed
  \/ /\ t = client[k].turn /\ t # 0
     /\ \/ call[t].pc = "read"
        \/ call[t].pc = "stop" /\ call[t].out = "io"

(* One message at most, in one place; and it is awaited.                   *)
OneInFlight(k) ==
  /\ Len(pipe[k].up) <= 1
  /\ pipe[k].up # <<>> => ~AtServer(k) /\ ~InDown(k)
  /\ AtServer(k) => ~InDown(k)
  /\ \A i, j \in DOMAIN pipe[k].down :
       pipe[k].down[i].tag # 0 /\ pipe[k].down[j].tag # 0 => i = j
FlightAwaited(k) ==
  /\ \A i \in DOMAIN pipe[k].up : Awaited(k, pipe[k].up[i].tag)
  /\ srv[k].pc \in {"dispatch", "handle"} => Awaited(k, srv[k].req.tag)
  /\ srv[k].pc = "write" /\ srv[k].resp.tag # 0 => Awaited(k, srv[k].resp.tag)
  /\ \A i \in DOMAIN pipe[k].down : pipe[k].down[i].tag # 0 => Awaited(k, pipe[k].down[i].tag)
Flight == \A k \in Conns : OneInFlight(k) /\ FlightAwaited(k)

LEMMA InitFlight ==
  ASSUME ScenariosSound, Init
  PROVE  Flight
<1> SUFFICES ASSUME NEW k \in Conns
             PROVE  OneInFlight(k) /\ FlightAwaited(k)
  BY SMTT(60) DEF Flight
<1>1. srv[k].pc = "backlog" /\ pipe[k].up = <<>> /\ pipe[k].down = <<>>
  BY DEF Init, Conns
<1>2. ~AtServer(k) /\ ~InDown(k)
  BY SMTT(60), <1>1 DEF AtServer, InDown
<1> QED
  BY <1>1, <1>2 DEF OneInFlight, FlightAwaited

(* A server's step that moves no message, or answers the one it has.       *)
Settles(k) ==
  /\ UNCHANGED <<scene, client, call>>
  /\ \A j \in Conns : pipe'[j].up = pipe[j].up /\ pipe'[j].down = pipe[j].down
  /\ \A j \in Conns \ {k} : srv'[j] = srv[j]
  /\ srv'[k].pc \in {"dispatch", "handle"} =>
       srv[k].pc \in {"dispatch", "handle"} /\ srv'[k].req = srv[k].req
  /\ srv'[k].pc = "write" /\ srv'[k].resp.tag # 0 =>
       srv[k].pc \in {"dispatch", "handle"} /\ srv'[k].resp.tag = srv[k].req.tag

LEMMA SettlesFlight ==
  ASSUME Flight, NEW k \in Conns, Settles(k)
  PROVE  Flight'
<1>1. /\ Conns' = Conns /\ UNCHANGED <<client, call>>
      /\ \A j \in Conns : pipe'[j].up = pipe[j].up /\ pipe'[j].down = pipe[j].down
  BY DEF Settles, Conns
<1>2. \A j \in Conns : AtServer(j)' => AtServer(j)
  BY SMTT(60) DEF Settles, AtServer
<1>3. \A j \in Conns : OneInFlight(j)'
  BY <1>1, <1>2 DEF Flight, OneInFlight, InDown
<1>4. ASSUME NEW j \in Conns
      PROVE  FlightAwaited(j)'
  <2>1. \A t : Awaited(j, t)' <=> Awaited(j, t)
    BY <1>1 DEF Awaited
  <2>2. FlightAwaited(j)
    BY SMTT(60) DEF Flight
  <2>3. CASE j # k
    BY SMTT(60), <1>1, <2>1, <2>2, <2>3 DEF Settles, FlightAwaited
  <2>4. CASE j = k
    BY <1>1, <2>1, <2>2, <2>4 DEF Settles, FlightAwaited
  <2> QED
    BY <2>3, <2>4
<1> QED
  BY <1>1, <1>3, <1>4 DEF Flight

LEMMA ServerSettles ==
  ASSUME Typed, NEW k \in Conns,
         \/ Accept(k) \/ Authorize(k) \/ ReadFails(k) \/ Refuse(k) \/ Handle(k)
         \/ HandlerReturns(k)
         \/ WriteResponse(k) /\ (serve.ctx = "done" \/ client[k].closed)
  PROVE  Settles(k)
<1>1. CASE Accept(k)
  <2>1. UNCHANGED <<scene, client, call>>
        /\ (pipe' = pipe \/ pipe' = [pipe EXCEPT ![k].open = FALSE])
        /\ (srv' = [srv EXCEPT ![k].pc = "authorize"] \/ srv' = [srv EXCEPT ![k].pc = "closed"])
    BY <1>1 DEF Accept, Shut
  <2>2. \A j \in Conns : pipe'[j].up = pipe[j].up /\ pipe'[j].down = pipe[j].down
    <3>1. CASE pipe' = [pipe EXCEPT ![k].open = FALSE]
      BY <3>1 DEF Typed, Streams
    <3> QED
      BY <2>1, <3>1
  <2>3. srv'[k].pc \in {"authorize", "closed"} /\ \A j \in Conns \ {k} : srv'[j] = srv[j]
    BY <2>1 DEF Typed, Conversations
  <2> QED
    BY <2>1, <2>2, <2>3 DEF Settles
<1>2. CASE Authorize(k)
  BY <1>2 DEF Authorize, Settles, Typed, Conversations
<1>3. ASSUME EndConn(k), UNCHANGED <<scene, client, call>>
      PROVE  Settles(k)
  BY <1>3 DEF EndConn, Settles, Typed, Conversations, Streams, Shut
<1>4. CASE ReadFails(k)
  <2>1. UNCHANGED <<scene, client, call>>
    BY <1>4 DEF ReadFails
  <2>2. CASE /\ srv' = [srv EXCEPT ![k].pc = "write", ![k].last = TRUE,
                           ![k].resp = Response(0, "malformed", 0)]
             /\ UNCHANGED <<pipe, slots>>
    BY <2>1, <2>2 DEF Settles, Typed, Conversations, Response
  <2> QED
    BY <1>3, <1>4, <2>1, <2>2 DEF ReadFails
<1>5. ASSUME NEW out, NEW last, Respond(k, out, last), srv[k].pc \in {"dispatch", "handle"},
             UNCHANGED <<scene, pipe, client, call>>
      PROVE  Settles(k)
  BY SMTT(60), <1>5 DEF Respond, Response, Settles, Typed, Conversations
<1>6. CASE Refuse(k)
  BY ZenonT(60), <1>5, <1>6 DEF Refuse
<1>7. CASE Handle(k)
  BY SMTT(60), <1>7 DEF Handle, Settles, Typed, Conversations
<1>8. CASE HandlerReturns(k)
  BY ZenonT(60), <1>5, <1>8 DEF HandlerReturns
<1>9. CASE WriteResponse(k) /\ (serve.ctx = "done" \/ client[k].closed)
  BY <1>3, <1>9 DEF WriteResponse
<1> QED
  BY <1>1, <1>2, <1>4, <1>6, <1>7, <1>8, <1>9

LEMMA ClosesListenerFlight ==
  ASSUME Typed, Flight, CloseListener
  PROVE  Flight'
<1>1. /\ Conns' = Conns /\ UNCHANGED <<client, call>>
      /\ \A j \in Conns : /\ pipe'[j].up = pipe[j].up /\ pipe'[j].down = pipe[j].down
                          /\ srv'[j].req = srv[j].req /\ srv'[j].resp = srv[j].resp
                          /\ srv'[j].pc \in {"dispatch", "handle", "write"} => srv'[j].pc = srv[j].pc
  BY DEF CloseListener, Conns, Shut, Typed, Conversations, Streams
<1>2. \A j \in Conns : AtServer(j)' => AtServer(j)
  BY SMTT(60), <1>1 DEF AtServer
<1>3. \A j \in Conns : OneInFlight(j)'
  BY SMTT(60), <1>1, <1>2 DEF Flight, OneInFlight, InDown
<1>4. ASSUME NEW j \in Conns
      PROVE  FlightAwaited(j)'
  <2>1. \A t : Awaited(j, t)' <=> Awaited(j, t)
    BY <1>1 DEF Awaited
  <2>2. FlightAwaited(j)
    BY DEF Flight
  <2> QED
    BY <1>1, <2>1, <2>2 DEF FlightAwaited
<1> QED
  BY <1>1, <1>3, <1>4 DEF Flight

(* A server's step of one connection that moves its message.               *)
LEMMA MovesFlight ==
  ASSUME Flight, UNCHANGED <<scene, client, call>>, NEW k \in Conns,
         \A j \in Conns \ {k} : srv'[j] = srv[j] /\ pipe'[j] = pipe[j],
         OneInFlight(k)', FlightAwaited(k)'
  PROVE  Flight'
<1>1. Conns' = Conns
  BY DEF Conns
<1>2. ASSUME NEW j \in Conns \ {k}
      PROVE  OneInFlight(j)' /\ FlightAwaited(j)'
  <2>1. OneInFlight(j) /\ FlightAwaited(j) /\ srv'[j] = srv[j] /\ pipe'[j] = pipe[j]
    BY <1>2 DEF Flight
  <2>2. \A t : Awaited(j, t)' <=> Awaited(j, t)
    BY SMTT(60) DEF Awaited
  <2>3. OneInFlight(j)'
    BY ZenonT(60), <2>1 DEF OneInFlight, AtServer, InDown
  <2>4. FlightAwaited(j)'
    BY ZenonT(60), <2>1, <2>2 DEF FlightAwaited
  <2> QED
    BY <2>3, <2>4
<1> QED
  BY <1>1, <1>2 DEF Flight

LEMMA LastOne ==
  ASSUME NEW S, NEW s \in Seq(S), s # <<>>, Len(s) <= 1
  PROVE  Len(s) = 1 /\ Tail(s) = <<>> /\ Head(s) = s[1] /\ 1 \in DOMAIN s
<1>1. Len(s) = 1
  <2>1. Len(s) # 0
    OBVIOUS
  <2>2. Len(s) \in Nat
    OBVIOUS
  <2> QED
    BY <2>1, <2>2
<1>2. Tail(s) \in Seq(S) /\ Len(Tail(s)) = 0
  BY <1>1
<1>3. Tail(s) = <<>>
  BY <1>2
<1> QED
  BY <1>1, <1>3

LEMMA ReadRequestFlight ==
  ASSUME Typed, Flight, NEW k \in Conns, ReadRequest(k)
  PROVE  Flight'
<1> DEFINE req == Head(pipe[k].up)
<1>1. /\ srv[k].pc = "read" /\ pipe[k].up # <<>> /\ UNCHANGED <<scene, client, call>>
      /\ pipe' = [pipe EXCEPT ![k].up = Tail(@)]
  BY DEF ReadRequest
<1>2. pipe[k] \in Streams /\ pipe[k].up \in Seq(Reqs)
  BY DEF Typed, Streams
<1>3. OneInFlight(k) /\ FlightAwaited(k)
  BY DEF Flight
<1>4. Len(pipe[k].up) = 1 /\ Tail(pipe[k].up) = <<>> /\ req = pipe[k].up[1]
      /\ 1 \in DOMAIN pipe[k].up
  <2>1. Len(pipe[k].up) <= 1
    BY <1>3 DEF OneInFlight
  <2> QED
    BY <1>1, <1>2, <2>1, LastOne
<1>5. /\ pipe'[k].up = <<>> /\ pipe'[k].down = pipe[k].down
      /\ \A j \in Conns \ {k} : pipe'[j] = pipe[j]
  BY <1>1, <1>2, <1>4 DEF Typed, Streams
<1>6. ~InDown(k) /\ Awaited(k, req.tag)
  BY <1>1, <1>3, <1>4 DEF OneInFlight, FlightAwaited
<1>7. /\ \A j \in Conns \ {k} : srv'[j] = srv[j]
      /\ \/ srv'[k].pc = "write" /\ srv'[k].resp.tag = 0
         \/ srv'[k].pc = "dispatch" /\ srv'[k].req = req
  <2>1. CASE req.method = "garbage"
    <3>1. srv' = [srv EXCEPT ![k].pc = "write", ![k].last = TRUE,
                     ![k].resp = Response(0, "malformed", 0)]
      BY <2>1 DEF ReadRequest
    <3> QED
      BY <3>1 DEF Typed, Conversations, Response
  <2>2. CASE req.method # "garbage"
    <3>1. srv' = [srv EXCEPT ![k].pc = "dispatch", ![k].req = req]
      BY <2>2 DEF ReadRequest
    <3> HIDE DEF req
    <3> QED
      BY <3>1 DEF Typed, Conversations
  <2> QED
    BY <2>1, <2>2
<1> HIDE DEF req
<1>8. ~InDown(k)' /\ \A i \in DOMAIN pipe'[k].down : pipe'[k].down[i].tag = 0
  BY SMTT(60), <1>5, <1>6 DEF InDown
<1>9. OneInFlight(k)'
  BY SMTT(60), <1>5, <1>8 DEF OneInFlight
<1>10. FlightAwaited(k)'
  <2>1. \A t : Awaited(k, t)' <=> Awaited(k, t)
    BY <1>1 DEF Awaited
  <2> QED
    BY <1>5, <1>6, <1>7, <1>8, <2>1 DEF FlightAwaited
<1> QED
  BY <1>1, <1>5, <1>7, <1>9, <1>10, MovesFlight

LEMMA WriteResponseFlight ==
  ASSUME Typed, Flight, NEW k \in Conns, WriteResponse(k),
         ~(serve.ctx = "done" \/ client[k].closed)
  PROVE  Flight'
<1> DEFINE resp == srv[k].resp
<1>1. /\ srv[k].pc = "write" /\ UNCHANGED <<scene, client, call>>
      /\ pipe' = [pipe EXCEPT ![k].down = Append(@, resp), ![k].open = ~srv[k].last]
      /\ srv' = [srv EXCEPT ![k].pc = IF srv[k].last THEN "closed" ELSE "read"]
  BY ZenonT(60) DEF WriteResponse
<1>2. pipe[k] \in Streams /\ pipe[k].down \in Seq(Resps) /\ resp \in Resps
  BY DEF Typed, Streams, Conversations
<1>3. OneInFlight(k) /\ FlightAwaited(k)
  BY DEF Flight
<1>4. /\ pipe'[k].up = pipe[k].up /\ pipe'[k].down = Append(pipe[k].down, resp)
      /\ \A j \in Conns \ {k} : pipe'[j] = pipe[j]
  BY <1>1, <1>2 DEF Typed, Streams
<1>5. /\ \A j \in Conns \ {k} : srv'[j] = srv[j]
      /\ srv'[k].pc \in {"closed", "read"}
  BY <1>1 DEF Typed, Conversations
<1>6. resp.tag # 0 => AtServer(k) /\ Awaited(k, resp.tag)
  BY SMTT(60), <1>1, <1>3 DEF AtServer, FlightAwaited
<1> HIDE DEF resp
<1>7. \A i \in DOMAIN Append(pipe[k].down, resp) :
        \/ /\ i \in DOMAIN pipe[k].down
           /\ Append(pipe[k].down, resp)[i] = pipe[k].down[i]
        \/ /\ i = Len(pipe[k].down) + 1
           /\ Append(pipe[k].down, resp)[i] = resp
  BY SMTT(60), <1>2
<1>8. resp.tag # 0 => \A i \in DOMAIN pipe[k].down : pipe[k].down[i].tag = 0
  BY <1>3, <1>6 DEF OneInFlight, InDown
<1>9. OneInFlight(k)'
  <2>1. ~AtServer(k)'
    BY <1>5 DEF AtServer
  <2>2. pipe'[k].up # <<>> => ~InDown(k)'
    <3>1. pipe[k].up # <<>> => resp.tag = 0 /\ ~InDown(k)
      BY SMTT(60), <1>3, <1>6 DEF OneInFlight
    <3> QED
      BY SMTT(60), <1>4, <1>7, <3>1 DEF InDown
  <2>3. \A i, j \in DOMAIN pipe'[k].down :
          pipe'[k].down[i].tag # 0 /\ pipe'[k].down[j].tag # 0 => i = j
    BY SMTT(60), <1>3, <1>4, <1>7, <1>8 DEF OneInFlight
  <2>4. Len(pipe'[k].up) <= 1
    BY SMTT(60), <1>3, <1>4 DEF OneInFlight
  <2> QED
    BY <2>1, <2>2, <2>3, <2>4 DEF OneInFlight
<1>10. FlightAwaited(k)'
  <2>1. \A t : Awaited(k, t)' <=> Awaited(k, t)
    BY SMTT(60), <1>1 DEF Awaited
  <2>2. \A i \in DOMAIN pipe'[k].down :
          pipe'[k].down[i].tag # 0 => Awaited(k, pipe'[k].down[i].tag)
    BY ZenonT(60), <1>3, <1>4, <1>6, <1>7 DEF FlightAwaited
  <2>3. \A i \in DOMAIN pipe'[k].up : Awaited(k, pipe'[k].up[i].tag)
    BY ZenonT(60), <1>3, <1>4 DEF FlightAwaited
  <2> QED
    BY <1>5, <2>1, <2>2, <2>3 DEF FlightAwaited
<1> QED
  BY ZenonT(60), <1>1, <1>4, <1>5, <1>9, <1>10, MovesFlight

(* A client's step that moves no message: nothing awaited is abandoned     *)
(* unless the client is closed.                                            *)
LEMMA AwaitedFlight ==
  ASSUME Typed, Flight, UNCHANGED <<scene, srv, pipe>>,
         \A j \in Conns : \A t \in Nat : Awaited(j, t) => Awaited(j, t)'
  PROVE  Flight'
<1>1. Conns' = Conns
  BY DEF Conns
<1>2. ASSUME NEW j \in Conns
      PROVE  OneInFlight(j)' /\ FlightAwaited(j)'
  <2>1. OneInFlight(j) /\ FlightAwaited(j)
    BY DEF Flight
  <2>2. /\ pipe[j].up \in Seq(Reqs) /\ pipe[j].down \in Seq(Resps)
        /\ srv[j].req.tag \in Nat /\ srv[j].resp.tag \in Nat
    BY ZenonT(60) DEF Typed, Streams, Conversations, Reqs, Resps
  <2>3. /\ \A i \in DOMAIN pipe[j].up : pipe[j].up[i].tag \in Nat
        /\ \A i \in DOMAIN pipe[j].down : pipe[j].down[i].tag \in Nat
    <3>1. ASSUME NEW i \in DOMAIN pipe[j].up
          PROVE  pipe[j].up[i].tag \in Nat
      <4>1. pipe[j].up[i] \in Reqs
        BY <2>2
      <4> QED
        BY <4>1 DEF Reqs
    <3>2. ASSUME NEW i \in DOMAIN pipe[j].down
          PROVE  pipe[j].down[i].tag \in Nat
      <4>1. pipe[j].down[i] \in Resps
        BY SMTT(60), <2>2
      <4> QED
        BY <4>1 DEF Resps
    <3> QED
      BY <3>1, <3>2
  <2>4. OneInFlight(j)'
    BY SMTT(60), <2>1 DEF OneInFlight, AtServer, InDown
  <2>5. FlightAwaited(j)'
    BY ZenonT(60), <2>1, <2>2, <2>3 DEF FlightAwaited
  <2> QED
    BY <2>4, <2>5
<1> QED
  BY <1>1, <1>2 DEF Flight

(* What is awaited on other connections is not touched by a call's step.   *)
LEMMA AwaitedElsewhere ==
  ASSUME ScenariosSound, Typed, Turns, NEW r \in Calls, NEW j \in Conns, j # Of(r),
         client'[j] = client[j], \A q \in Calls \ {r} : call'[q] = call[q], NEW t \in Nat
  PROVE  Awaited(j, t)' <=> Awaited(j, t)
<1>1. client[j].turn # 0 => client[j].turn \in Calls \ {r}
  BY DEF Turns
<1> QED
  BY <1>1 DEF Awaited

LEMMA FlightElsewhere ==
  ASSUME ScenariosSound, Typed, Turns, Flight, NEW r \in Calls, NEW j \in Conns, j # Of(r),
         UNCHANGED <<scene, srv>>, client'[j] = client[j], pipe'[j] = pipe[j],
         \A q \in Calls \ {r} : call'[q] = call[q]
  PROVE  OneInFlight(j)' /\ FlightAwaited(j)'
<1>1. OneInFlight(j) /\ FlightAwaited(j)
  BY DEF Flight
<1>2. client[j].turn # 0 => client[j].turn \in Calls \ {r}
  BY DEF Turns
<1>3. \A t : Awaited(j, t)' <=> Awaited(j, t)
  BY SMTT(60), <1>2 DEF Awaited
<1>4. OneInFlight(j)'
  BY SMTT(60), <1>1 DEF OneInFlight, AtServer, InDown
<1>5. FlightAwaited(j)'
  BY ZenonT(60), <1>1, <1>3 DEF FlightAwaited
<1> QED
  BY <1>4, <1>5

LEMMA TailShorter ==
  ASSUME NEW S, NEW s \in Seq(S), s # <<>>
  PROVE  Tail(s) # s
<1>1. Len(Tail(s)) = Len(s) - 1 /\ Len(s) \in Nat
  BY ZenonT(60), HeadTailProperties, LenProperties
<1>2. \A n \in Nat : n - 1 # n
  OBVIOUS
<1> QED
  BY ZenonT(60), <1>1, <1>2

LEMMA ClientFlight ==
  ASSUME ScenariosSound, IInv, Flight, NEW r \in Calls,
         \/ TakeTurn(r) \/ Begin(r) \/ Interrupt(r) \/ Return(r) \/ ContextEnds(r)
         \/ Send(r) /\ UNCHANGED pipe
         \/ Receive(r) /\ UNCHANGED pipe
  PROVE  Flight'
<1> USE DEF IInv, ClientInv
<1>1. PICK k \in Conns : k = Of(r)
  BY CallConn
<1>0. k = Of(r) /\ r \in Nat \ {0} /\ call[r] \in Requests /\ client[k] \in Clients
  BY SMTT(60), <1>1, CallConn DEF Typed
<1>2. /\ UNCHANGED <<scene, srv, pipe>>
      /\ \A j \in Conns \ {k} : client'[j] = client[j]
      /\ \A q \in Calls \ {r} : call'[q] = call[q]
  BY ZenonT(60), <1>0 DEF TakeTurn, Begin, Interrupt, Return, ContextEnds,
     Send, Receive, server, Ended,
              TurnGiven, Typed, Requests, Clients
<1>3. ASSUME NEW t \in Nat, Awaited(k, t)
      PROVE  Awaited(k, t)'
  <2>1. CASE TakeTurn(r)
    <3>1. client[k].turn = 0 \/ UNCHANGED client
      BY <1>0, <2>1 DEF TakeTurn
    <3>2. client'[k].closed = client[k].closed
      BY <1>0, <2>1 DEF TakeTurn, Typed, Clients
    <3>3. t = r => call[t].pc = "idle"
      BY <2>1 DEF TakeTurn
    <3>5. client[k].turn # 0 => client[k].turn \in Calls
      BY <1>0 DEF Turns
    <3>6. CASE client[k].closed
      BY <3>2, <3>6 DEF Awaited
    <3>7. CASE ~client[k].closed
      <4>1. t = client[k].turn /\ t # 0 /\ call[t].pc \in {"read", "stop"}
        BY SMTT(60), <1>3, <3>7 DEF Awaited
      <4>2. t \in Calls \ {r} /\ client' = client
        BY SMTT(60), <3>1, <3>3, <3>5, <4>1
      <4>3. call'[t] = call[t]
        BY SMTT(60), <1>2, <4>2
      <4> QED
        BY SMTT(60), <1>3, <4>2, <4>3 DEF Awaited
    <3> QED
      BY <3>6, <3>7
  <2>2. CASE Begin(r)
    <3>1. call[r].pc = "turn" /\ client[k].turn = r
      BY <1>0, <2>2 DEF Begin, Turns
    <3>2. client[k].closed
      BY <1>3, <3>1 DEF Awaited
    <3>3. client'[k].closed = client[k].closed
      BY SMTT(60), <1>0, <2>2 DEF Begin, TurnGiven, Typed, Clients
    <3> QED
      BY <3>2, <3>3 DEF Awaited
  <2>3. CASE Interrupt(r)
    <3>1. client'[k].closed = client[k].closed /\ client'[k].turn = client[k].turn
      BY <1>0, <2>3 DEF Interrupt, Typed, Clients
    <3>2. call'[r].pc = call[r].pc /\ call'[r].out = call[r].out
      BY SMTT(60), <1>0, <2>3 DEF Interrupt, Typed, Requests
    <3>3. client[k].turn # 0 => client[k].turn \in Calls
      BY <1>0 DEF Turns
    <3> QED
      BY ZenonT(60), <1>2, <1>3, <3>1, <3>2, <3>3 DEF Awaited
  <2>4. CASE Return(r)
    <3>1. call[r].pc = "stop" /\ client[k].turn = r
      BY <1>0, <2>4 DEF Return, Turns, Asking
    <3>2. client'[k].closed = (client[k].closed \/ call[r].out = "io")
      BY SMTT(60), <1>0, <2>4 DEF Return, ClosedAfter, Typed, Clients
    <3> QED
      BY ZenonT(60), <1>3, <3>1, <3>2 DEF Awaited
  <2>5. CASE ContextEnds(r)
    <3>1. UNCHANGED client
      BY <2>5 DEF ContextEnds
    <3>2. call'[r].pc = call[r].pc /\ call'[r].out = call[r].out
      BY SMTT(60), <1>0, <2>5 DEF ContextEnds, Typed, Requests
    <3>3. client[k].turn # 0 => client[k].turn \in Calls
      BY <1>0 DEF Turns
    <3> QED
      BY ZenonT(60), <1>2, <1>3, <3>1, <3>2, <3>3 DEF Awaited
  <2>6. CASE (Send(r) \/ Receive(r)) /\ UNCHANGED pipe
    <3>1. call[r].pc \in Asking /\ client[k].turn = r
      BY ZenonT(60), <1>0, <2>6 DEF Send, Receive, Turns, Asking
    <3>2. UNCHANGED client
      BY ZenonT(60), <2>6 DEF Send, Receive
    <3>3. client[k].closed \/ (call'[r].pc = "stop" /\ call'[r].out = "io")
          \/ call[r].pc = "send"
      <4>1. CASE Send(r)
        BY ZenonT(60), <4>1 DEF Send
      <4>2. CASE Receive(r)
        <5>1. pipe[k].down \in Seq(Resps)
          BY ZenonT(60), <1>0 DEF Typed, Streams
        <5>2. pipe[k].down # <<>> => Tail(pipe[k].down) # pipe[k].down
          BY ZenonT(60), <5>1, TailShorter
        <5>3. pipe[k].down # <<>> => pipe # [pipe EXCEPT ![k].down = Tail(@)]
          BY SMTT(60), <1>0, <5>2 DEF Typed, Streams
        <5>4. call' = [call EXCEPT ![r].pc = "stop", ![r].out = "io"]
          BY ZenonT(60), <1>0, <2>6, <4>2, <5>3 DEF Receive
        <5> QED
          BY SMTT(60), <1>0, <5>4 DEF Typed, Requests
      <4> QED
        BY ZenonT(60), <2>6, <4>1, <4>2
    <3> QED
      BY SMTT(60), <1>3, <3>1, <3>2, <3>3 DEF Awaited
  <2> QED
    BY <2>1, <2>2, <2>3, <2>4, <2>5, <2>6
<1>4. \A j \in Conns : \A t \in Nat : Awaited(j, t) => Awaited(j, t)'
  BY ZenonT(60), <1>0, <1>2, <1>3, AwaitedElsewhere
<1> QED
  BY ZenonT(60), <1>2, <1>4, AwaitedFlight

LEMMA SendFlight ==
  ASSUME ScenariosSound, IInv, Flight, NEW r \in Calls, Send(r), ~UNCHANGED pipe
  PROVE  Flight'
<1> USE DEF IInv, ClientInv
<1>1. PICK k \in Conns : k = Of(r)
  BY CallConn
<1>2. PICK req \in Reqs : req = Request(r) /\ req.tag = r
  <2>1. scene.calls[r].method \in Methods
    BY Scene DEF Sound, Calls
  <2>2. call[r].id \in Nat /\ r \in Nat
    BY CallConn DEF Typed, Requests
  <2>3. Request(r) \in Reqs /\ Request(r).tag = r
    BY <2>1, <2>2 DEF Request, Reqs
  <2> QED
    BY <2>3
<1>3. /\ call[r].pc = "send" /\ client[k].turn = r /\ ~client[k].closed
      /\ UNCHANGED <<scene, srv, client>>
      /\ pipe' = [pipe EXCEPT ![k].up = Append(@, req)]
      /\ call' = [call EXCEPT ![r].pc = "read"]
  BY <1>1, <1>2 DEF Send, Broken, Turns, Asking, server
<1>4. \A t : ~Awaited(k, t)
  BY <1>3 DEF Awaited
<1>5. OneInFlight(k) /\ FlightAwaited(k) /\ pipe[k] \in Streams /\ pipe[k].up \in Seq(Reqs)
  BY SMTT(60) DEF Flight, Typed, Streams
<1>6. ~AtServer(k) /\ ~InDown(k)
  BY <1>4, <1>5 DEF FlightAwaited, AtServer, InDown
<1>7. pipe[k].up = <<>>
  <2>1. Len(pipe[k].up) = 0
    <3>1. 1 \notin DOMAIN pipe[k].up
      BY <1>4, <1>5 DEF FlightAwaited
    <3> QED
      BY SMTT(60), <1>5, <3>1
  <2> QED
    BY <1>5, <2>1
<1>8. /\ pipe'[k].up = <<req>> /\ pipe'[k].down = pipe[k].down
      /\ \A j \in Conns \ {k} : pipe'[j] = pipe[j]
  <2>1. Append(pipe[k].up, req) = <<req>>
    BY <1>7
  <2> QED
    BY <1>3, <1>5, <2>1 DEF Typed, Streams
<1>9. call'[r].pc = "read" /\ \A q \in Calls \ {r} : call'[q] = call[q]
  BY SMTT(60), <1>3 DEF Typed, Requests
<1>10. OneInFlight(k)'
  BY SMTT(60), <1>3, <1>5, <1>6, <1>8 DEF OneInFlight, AtServer, InDown
<1>11. FlightAwaited(k)'
  <2>1. r # 0 /\ Awaited(k, r)'
    BY <1>3, <1>9, CallConn DEF Awaited
  <2> QED
    BY <1>2, <1>3, <1>6, <1>8, <2>1 DEF FlightAwaited, AtServer, InDown
<1>12. ASSUME NEW j \in Conns \ {k}
       PROVE  OneInFlight(j)' /\ FlightAwaited(j)'
  BY <1>1, <1>3, <1>8, <1>9, <1>12, FlightElsewhere
<1> QED
  BY <1>3, <1>10, <1>11, <1>12 DEF Flight, Conns

LEMMA ReceiveFlight ==
  ASSUME ScenariosSound, IInv, Flight, NEW r \in Calls, Receive(r), ~UNCHANGED pipe
  PROVE  Flight'
<1> USE DEF IInv, ClientInv
<1>1. PICK k \in Conns : k = Of(r)
  BY CallConn
<1>2. /\ call[r].pc = "read" /\ client[k].turn = r /\ ~client[k].closed /\ call[r].id # 0
      /\ UNCHANGED <<scene, srv, client>> /\ pipe[k].down # <<>>
      /\ pipe' = [pipe EXCEPT ![k].down = Tail(@)]
  BY ZenonT(60), <1>1 DEF Receive, Broken, Turns, Asking, server, Ids
<1>3. OneInFlight(k) /\ FlightAwaited(k) /\ pipe[k] \in Streams /\ pipe[k].down \in Seq(Resps)
  BY DEF Flight, Typed, Streams
<1>4. PICK resp \in Resps : resp = Head(pipe[k].down) /\ resp = pipe[k].down[1]
  BY <1>2, <1>3
<1>5. 1 \in DOMAIN pipe[k].down /\ Belongs(k, resp)
  BY <1>2, <1>3, <1>4 DEF Messages
<1>6. \A i \in DOMAIN Tail(pipe[k].down) : /\ i + 1 \in DOMAIN pipe[k].down /\ i + 1 # 1
                                           /\ Tail(pipe[k].down)[i] = pipe[k].down[i + 1]
                                           /\ i \in Nat
  BY <1>2, <1>3
<1>7. /\ pipe'[k].down = Tail(pipe[k].down) /\ pipe'[k].up = pipe[k].up
      /\ \A j \in Conns \ {k} : pipe'[j] = pipe[j]
  BY <1>2, <1>3 DEF Typed, Streams
<1>8. /\ call'[r].pc = "stop" /\ \A q \in Calls \ {r} : call'[q] = call[q]
      /\ call'[r].out # "io" => resp.id = call[r].id
  <2>1. PICK out : /\ call' = [call EXCEPT ![r].pc = "stop", ![r].got = resp.tag, ![r].out = out]
                   /\ out # "io" => resp.id = call[r].id
    BY ZenonT(60), <1>1, <1>2, <1>4 DEF Receive, Answers
  <2> QED
    BY SMTT(60), <2>1 DEF Typed, Requests
<1>9. OneInFlight(k)'
  <2>1. InDown(k)' => InDown(k)
    BY <1>6, <1>7 DEF InDown
  <2>2. \A i, j \in DOMAIN pipe'[k].down :
          pipe'[k].down[i].tag # 0 /\ pipe'[k].down[j].tag # 0 => i = j
    <3>1. SUFFICES ASSUME NEW i \in DOMAIN pipe'[k].down, NEW j \in DOMAIN pipe'[k].down,
                          pipe'[k].down[i].tag # 0, pipe'[k].down[j].tag # 0
                   PROVE  i = j
      OBVIOUS
    <3>2. i + 1 = j + 1
      BY <1>3, <1>6, <1>7, <3>1 DEF OneInFlight
    <3> QED
      BY <1>6, <1>7, <3>2
  <2>3. AtServer(k)' <=> AtServer(k)
    BY <1>2 DEF AtServer
  <2> QED
    BY ZenonT(60), <1>3, <1>7, <2>1, <2>2, <2>3 DEF OneInFlight
<1>10. FlightAwaited(k)'
  <2>1. CASE call'[r].out = "io"
    <3>1. \A t : Awaited(k, t) => Awaited(k, t)'
      BY <1>2, <1>8, <2>1 DEF Awaited
    <3> QED
      BY <1>2, <1>3, <1>6, <1>7, <3>1 DEF FlightAwaited
  <2>2. CASE call'[r].out # "io"
    <3>1. resp.tag # 0
      BY SMTT(60), <1>2, <1>5, <1>8, <2>2, CallConn DEF Belongs
    <3>2. InDown(k) /\ \A i \in DOMAIN pipe'[k].down : pipe'[k].down[i].tag = 0
      <4>1. InDown(k)
        BY ZenonT(60), <1>4, <1>5, <3>1 DEF InDown
      <4>2. \A i \in DOMAIN pipe[k].down : i # 1 => pipe[k].down[i].tag = 0
        <5> SUFFICES ASSUME NEW i \in DOMAIN pipe[k].down, pipe[k].down[i].tag # 0
                     PROVE  i = 1
          OBVIOUS
        <5>1. pipe[k].down[1].tag # 0
          BY ZenonT(60), <1>4, <3>1
        <5> QED
          BY ZenonT(60), <1>3, <1>5, <5>1 DEF OneInFlight
      <4>3. ASSUME NEW i \in DOMAIN pipe'[k].down
            PROVE  pipe'[k].down[i].tag = 0
        <5>1. i \in DOMAIN Tail(pipe[k].down)
          BY ZenonT(60), <1>7
        <5>2. i + 1 \in DOMAIN pipe[k].down /\ i + 1 # 1 /\ pipe'[k].down[i] = pipe[k].down[i + 1]
          BY ZenonT(60), <1>6, <1>7, <5>1
        <5> QED
          BY ZenonT(60), <4>2, <5>2
      <4> QED
        BY ZenonT(60), <4>1, <4>3
    <3>3. ~AtServer(k) /\ pipe[k].up = <<>>
      BY <1>3, <3>2 DEF OneInFlight
    <3> QED
      BY <1>2, <1>7, <3>2, <3>3 DEF FlightAwaited, AtServer
  <2> QED
    BY <2>1, <2>2
<1>11. ASSUME NEW j \in Conns \ {k}
       PROVE  OneInFlight(j)' /\ FlightAwaited(j)'
  BY <1>1, <1>2, <1>7, <1>8, <1>11, FlightElsewhere
<1> QED
  BY SMTT(60), <1>2, <1>9, <1>10, <1>11 DEF Flight, Conns

LEMMA NextFlight ==
  ASSUME ScenariosSound, IInv, Flight, [Next]_vars
  PROVE  Flight'
<1>1. Typed
  BY DEF IInv
<1>2. CASE \E k \in Conns : ServerStep(k)
  <2>1. PICK k \in Conns : ServerStep(k)
    BY <1>2
  <2>2. CASE ReadRequest(k)
    BY <1>1, <2>2, ReadRequestFlight
  <2>3. CASE WriteResponse(k) /\ ~(serve.ctx = "done" \/ client[k].closed)
    BY <1>1, <2>3, WriteResponseFlight
  <2>4. CASE \/ Accept(k) \/ Authorize(k) \/ ReadFails(k) \/ Refuse(k) \/ Handle(k)
             \/ HandlerReturns(k)
             \/ WriteResponse(k) /\ (serve.ctx = "done" \/ client[k].closed)
    BY SMTT(60), <1>1, <2>4, ServerSettles, SettlesFlight
  <2> QED
    BY <2>1, <2>2, <2>3, <2>4 DEF ServerStep
<1>3. CASE \E k \in Conns : DeadlinePasses(k) \/ CloseClient(k)
  <2>1. PICK k \in Conns : DeadlinePasses(k) \/ CloseClient(k)
    BY <1>3
  <2>2. /\ UNCHANGED <<scene, srv, pipe, call>>
        /\ \A j \in Conns : /\ client'[j].turn = client[j].turn
                            /\ client[j].closed => client'[j].closed
    BY <1>1, <2>1 DEF DeadlinePasses, CloseClient, server, Typed, Clients
  <2>3. \A j \in Conns : \A t \in Nat : Awaited(j, t) => Awaited(j, t)'
    BY <2>2 DEF Awaited
  <2> QED
    BY <1>1, <2>2, <2>3, AwaitedFlight
<1>4. CASE \E r \in Calls : ClientStep(r) \/ ContextEnds(r)
  <2>1. PICK r \in Calls : ClientStep(r) \/ ContextEnds(r)
    BY <1>4
  <2>2. CASE Send(r) /\ ~UNCHANGED pipe
    BY <2>2, SendFlight
  <2>3. CASE Receive(r) /\ ~UNCHANGED pipe
    BY <2>3, ReceiveFlight
  <2>4. CASE \/ TakeTurn(r) \/ Begin(r) \/ Interrupt(r) \/ Return(r) \/ ContextEnds(r)
             \/ Send(r) /\ UNCHANGED pipe
             \/ Receive(r) /\ UNCHANGED pipe
    BY <2>4, ClientFlight
  <2> QED
    BY <2>1, <2>2, <2>3, <2>4 DEF ClientStep
<1>5. CASE CloseListener
  BY <1>1, <1>5, ClosesListenerFlight
<1>6. CASE LeaveLoop \/ ServeReturns \/ StopServing \/ UNCHANGED vars
  <2>1. UNCHANGED <<scene, srv, pipe, client, call>>
    BY <1>6 DEF LeaveLoop, ServeReturns, StopServing, vars
  <2>2. \A j \in Conns : \A t \in Nat : Awaited(j, t) => Awaited(j, t)'
    BY <2>1 DEF Awaited
  <2> QED
    BY <1>1, <2>1, <2>2, AwaitedFlight
<1> QED
  BY <1>2, <1>3, <1>4, <1>5, <1>6 DEF Next, Lifetime

-----------------------------------------------------------------------------
(* Every reachable state has the invariant.                                *)
THEOREM PipeInvariant ==
  ASSUME ScenariosSound
  PROVE  Spec => [](IInv /\ Flight)
<1>1. Init => IInv /\ Flight
  BY InitIInv, InitFlight
<1>2. IInv /\ Flight /\ [Next]_vars => IInv' /\ Flight'
  BY SMTT(60), NextIInv, NextFlight
<1> QED
  BY <1>1, <1>2, PTL DEF Spec

(* Where dispatch lets a handler run, the caller's identity allows it.     *)
LEMMA DispatchAllows ==
  ASSUME ScenariosSound, Typed, Rights, NEW k \in Conns, srv[k].pc = "handle"
  PROVE  LET c == scene.conns[k]
             who == IF c.imp = "noimp" THEN c.process ELSE c.token
         IN  /\ c.imp # "identity" /\ who \in {"system", "admin", "owner"}
             /\ AdministrativeMethod(srv[k].req.method) => who \in {"system", "admin"}
<1> DEFINE c == scene.conns[k]
           who == IF c.imp = "noimp" THEN c.process ELSE c.token
           p == srv[k].peer
<1>1. Allowed(p) /\ (AdministrativeMethod(srv[k].req.method) => CanLinger(p))
  <2>1. Dispatch(p, srv[k].req) = "handle"
    BY SMTT(60) DEF Rights
  <2> QED
    BY <2>1 DEF Dispatch
<1>2. p = PeerFromLookups(c) /\ p # Nobody
  BY <1>1 DEF Rights, Allowed, Nobody
<1>3. c.imp \in {"ok", "identity", "noimp"}
  BY Scene DEF Sound, Conns
<1>4. c.imp # "identity" /\ p = Peer(who)
  BY SMTT(60), <1>2, <1>3 DEF PeerFromLookups
<1> HIDE DEF who, p
<1>5. /\ p.system => who = "system"
      /\ p.admin => who = "admin"
      /\ p.owner => who = "owner"
  BY ZenonT(60), <1>4 DEF Peer
<1>6. who \in {"system", "admin", "owner"} /\ (CanLinger(p) => who \in {"system", "admin"})
  BY <1>1, <1>5 DEF Allowed, CanLinger
<1> QED
  BY <1>1, <1>4, <1>6 DEF who, p

(* A request is refused as busy only when its class has no slot left.      *)
LEMMA BusyIsRefused ==
  ASSUME IInv, Next, NEW k \in Conns, srv[k].pc = "dispatch", srv'[k].pc = "write"
  PROVE  Refuse(k)
<1>1. Typed
  BY DEF IInv
<1>2. CASE \E j \in Conns : ServerStep(j)
  <2>1. PICK j \in Conns : ServerStep(j)
    BY SMTT(60), <1>2
  <2>2. j = k \/ srv'[k] = srv[k]
    BY ZenonT(60), <1>1, <2>1 DEF ServerStep, Accept, Authorize, ReadFails,
       ReadRequest, Refuse, Handle,
                      HandlerReturns, WriteResponse, EndConn, Respond, Typed
  <2>3. j = k
    BY <2>2
  <2>4. ~Accept(k) /\ ~Authorize(k) /\ ~ReadFails(k) /\ ~ReadRequest(k) /\ ~HandlerReturns(k)
        /\ ~WriteResponse(k)
    BY DEF Accept, Authorize, ReadFails, ReadRequest, HandlerReturns, WriteResponse
  <2>5. ~Handle(k)
    BY <1>1 DEF Handle, Typed, Conversations
  <2> QED
    BY <2>1, <2>3, <2>4, <2>5 DEF ServerStep
<1>3. CASE UNCHANGED srv
  BY <1>3
<1>4. CASE CloseListener
  BY SMTT(60), <1>1, <1>4 DEF CloseListener, Typed, Conversations
<1>5. ASSUME NEW r \in Calls, ClientStep(r) \/ ContextEnds(r)
      PROVE  UNCHANGED srv
  BY ZenonT(60), <1>5 DEF ClientStep, TakeTurn, Begin, Send, Receive,
     Interrupt, Return, ContextEnds, server
<1>6. ASSUME NEW j \in Conns, DeadlinePasses(j) \/ CloseClient(j)
      PROVE  UNCHANGED srv
  BY <1>6 DEF DeadlinePasses, CloseClient, server
<1>7. LeaveLoop \/ ServeReturns \/ StopServing => UNCHANGED srv
  BY DEF LeaveLoop, ServeReturns, StopServing
<1> QED
  BY <1>2, <1>3, <1>4, <1>5, <1>6, <1>7 DEF Next, Lifetime

LEMMA BusyMeansFull ==
  ASSUME ScenariosSound, IInv, NEW k \in Conns, Refuse(k), srv'[k].resp.out = "busy",
         NEW same, {m \in Known : Class(m) = Class(srv[k].req.method)} \subseteq same
  PROVE  Cardinality({j \in Conns : srv[j].pc = "handle" /\ srv[j].req.method \in same})
           >= scene.limits[Class(srv[k].req.method)]
<1> DEFINE busy == {j \in Conns : srv[j].pc = "handle" /\ srv[j].req.method \in same}
<1>1. PICK c \in {"requests", "stops", "diagnostics"} : c = Class(srv[k].req.method)
  BY SMTT(60) DEF Class
<1>2. Refused(k) = "busy"
  <2>1. srv'[k].resp = Response(srv[k].req.id, Refused(k), srv[k].req.tag)
    BY SMTT(60) DEF Refuse, Respond, IInv, Typed, Conversations
  <2> QED
    BY <2>1 DEF Response
<1>3. slots[c] >= scene.limits[c]
  <2>1. Dispatch(srv[k].peer, srv[k].req) # "busy"
    BY SMTT(60) DEF Dispatch
  <2> QED
    BY <1>1, <1>2, <2>1 DEF Refused
<1>4. slots[c] = Cardinality(Handlers(c))
  BY SMTT(60) DEF IInv, ServerInv, SlotsExact
<1>5. Handlers(c) \subseteq busy
  <2>1. ASSUME NEW j \in Handlers(c)
        PROVE  j \in Conns /\ srv[j].pc = "handle" /\ srv[j].req.method \in Known
               /\ Class(srv[j].req.method) = c
    BY SMTT(60) DEF Handlers, IInv, ServerInv, Rights, Dispatch
  <2> QED
    BY <1>1, <2>1
<1>6. IsFiniteSet(busy)
  BY SMTT(60), Scene, FS_Subset DEF IInv, Sound, Conns
<1>7. Cardinality(Handlers(c)) <= Cardinality(busy)
  BY SMTT(60), <1>5, <1>6, FS_Subset
<1>8. Cardinality(Handlers(c)) \in Nat /\ Cardinality(busy) \in Nat
  BY SMTT(60), <1>5, <1>6, FS_Subset, FS_CardinalityType
<1>9. scene.limits[c] \in Nat
  BY Scene DEF IInv, Sound, Classes
<1> HIDE DEF busy
<1>10. Cardinality(busy) >= scene.limits[c]
  BY <1>3, <1>4, <1>7, <1>8, <1>9
<1> QED
  BY <1>1, <1>10 DEF busy

(* Admission is sound on every endpoint, whatever its limits: the slots    *)
(* taken are the connections served and the handlers running, within the   *)
(* limits; starts cannot crowd out stops or statuses; and a handler runs   *)
(* only for a caller whose own token allows its method (admission.go,      *)
(* auth.go, serveConn).                                                    *)
THEOREM AdmissionIsSound ==
  ASSUME ScenariosSound
  PROVE  Spec => AdmissionSound
<1> DEFINE Same(k) == IF srv[k].req.method = "stop" THEN {"stop", "disable-linger", "maintenance"}
                      ELSE IF srv[k].req.method = "status" THEN {"status"} ELSE Known
           Reserved == \A k \in Conns :
             srv'[k].resp.out = "busy" /\ srv[k].pc = "dispatch" /\ srv'[k].pc = "write" =>
               Cardinality({j \in Conns : srv[j].pc = "handle" /\ srv[j].req.method \in Same(k)})
                 >= scene.limits[Class(srv[k].req.method)]
<1>1. IInv => SlotsExact /\ HandledForAllowed
  BY SMTT(60), DispatchAllows DEF IInv, ServerInv, HandledForAllowed
<1>2. IInv /\ [Next]_vars => [Reserved]_vars
  <2>1. SUFFICES ASSUME IInv, Next, NEW k \in Conns, srv'[k].resp.out = "busy",
                        srv[k].pc = "dispatch", srv'[k].pc = "write"
                 PROVE  Cardinality({j \in Conns : srv[j].pc = "handle"
                                                   /\ srv[j].req.method \in Same(k)})
                          >= scene.limits[Class(srv[k].req.method)]
    OBVIOUS
  <2>2. Refuse(k)
    BY <2>1, BusyIsRefused
  <2>3. srv[k].req.method \in Known
    <3>1. Refused(k) = "busy"
      <4>1. srv'[k].resp = Response(srv[k].req.id, Refused(k), srv[k].req.tag)
        BY <2>1, <2>2 DEF Refuse, Respond, IInv, Typed, Conversations
      <4> QED
        BY <2>1, <4>1 DEF Response
    <3>2. Dispatch(srv[k].peer, srv[k].req) = "handle"
      BY <3>1 DEF Refused, Dispatch
    <3> QED
      BY <3>2 DEF Dispatch
  <2>4. {m \in Known : Class(m) = Class(srv[k].req.method)} \subseteq Same(k)
    BY <2>3 DEF Class, Known
  <2> QED
    BY ZenonT(60), <2>1, <2>2, <2>4, BusyMeansFull
<1> QED
  BY <1>1, <1>2, PipeInvariant, PTL DEF Spec, AdmissionSound, ClassesReserved

(* However many calls share a client, and however contexts, deadlines,     *)
(* closes and the server's end fall: a call that returns a result or a     *)
(* refusal returns the answer to its own request, reads no answer of       *)
(* another, and meets no deadline but its own (Client.Call, Client.do).    *)
THEOREM CallsGetTheirAnswers ==
  ASSUME ScenariosSound
  PROVE  Spec => []CallsAnswered
<1>1. IInv => AnswersOwn
  BY SMTT(60) DEF IInv, ClientInv, Got, AnswersOwn
<1>2. IInv => DeadlineIsOwn
  <2>1. SUFFICES ASSUME IInv, NEW r \in Calls, call[r].pc = "send",
                        client[Of(r)].deadline = "past"
                 PROVE  call[r].ctx = "done" \/ scene.calls[r].deadline
    BY DEF DeadlineIsOwn
  <2>2. client[Of(r)].turn = r /\ Of(r) \in Conns
    BY SMTT(60), <2>1, CallConn DEF IInv, ClientInv, Turns, Asking
  <2> QED
    BY <2>1, <2>2 DEF IInv, ClientInv, Deadlines
<1>3. IInv /\ Flight => StreamInStep
  <2>1. SUFFICES ASSUME IInv, Flight, NEW r \in Calls, call[r].pc = "read", ~Broken(Of(r)),
                        pipe[Of(r)].down # <<>>
                 PROVE  Head(pipe[Of(r)].down).tag \in {r, 0}
    BY DEF StreamInStep
  <2>2. PICK k \in Conns : k = Of(r)
    BY <2>1, CallConn DEF IInv
  <2>3. client[k].turn = r /\ ~client[k].closed
    BY <2>1, <2>2 DEF IInv, ClientInv, Turns, Asking, Broken
  <2>4. pipe[k].down \in Seq(Resps)
    BY <2>1 DEF IInv, Typed, Streams
  <2>5. 1 \in DOMAIN pipe[k].down /\ Head(pipe[k].down) = pipe[k].down[1]
    BY SMTT(60), <2>1, <2>2, <2>4
  <2>6. pipe[k].down[1].tag # 0 => Awaited(k, pipe[k].down[1].tag)
    BY <2>1, <2>5 DEF Flight, FlightAwaited
  <2> QED
    BY ZenonT(60), <2>2, <2>3, <2>5, <2>6 DEF Awaited
<1>4. IInv /\ Flight => CallsAnswered
  BY <1>1, <1>2, <1>3 DEF CallsAnswered
<1> QED
  BY <1>4, PipeInvariant, PTL
=============================================================================
