------------------------------ MODULE UserHost ------------------------------
(***************************************************************************)
(* The user managers of internal/manager: sessions, admission, linger      *)
(* records and one process per user (userhost.go and the files beside it). *)
(* An action is one section under h.mu with the native call before it; a   *)
(* goroutine is a thread with its program counter.                         *)
(*                                                                         *)
(* Request numbers are compared for equality only, so a number out of use  *)
(* is taken again, and an enumeration's epoch is the flag `fresh` that     *)
(* every increment of nextSessionRequest clears.                           *)
(***************************************************************************)
EXTENDS Integers, Sequences, FiniteSets, SequencesExt, FiniteSetsExt

CONSTANTS
  Sessions,     \* session numbers
  Sids,         \* users
  Scenarios     \* [user, policy, linger, native, tracked, limit, hold, edits, bound]:
                \* the user of each session, the first policy and linger records,
                \* maxNativeUserWork, maxTrackedUserManagers, MaxInteractiveSessions,
                \* AdmissionHold, the policies an edit may install, and how many
                \* there are of each outside event

Logons == {"logon1", "logon2"}                    \* two of maxNativeUserWork
Stoppers == {"stop1", "stop2"}                    \* two of userShutdownWorkers
Threads == Logons \cup Stoppers \cup {"rec", "scan", "pol", "rpc", "idle", "shut"}
NoSid == "none"
NoInst == [id |-> 0, proc |-> FALSE, uncertain |-> FALSE, err |-> FALSE, delayed |-> FALSE]
Off == [pc |-> "off", session |-> 0, request |-> 0, rev |-> 0, lrev |-> 0, sid |-> NoSid,
        inst |-> 0, todo |-> <<>>, sids |-> {}, work |-> {}, token |-> FALSE, linger |-> FALSE,
        retain |-> FALSE, bad |-> FALSE, fresh |-> FALSE, mine |-> FALSE, wait |-> FALSE]

VARIABLES
  scene,
  bound,       \* what is left of scene.bound
  logged,      \* the sessions the system has
  mail,        \* session changes on their way to Listen
  policyFile, lingerDisk,
  closed, admission, arev, linger, lrev,
  sessions, requests, observed, cursor,
  bySID,       \* SID -> instance, NoInst where there is none
  gate,        \* unitOps: the thread that holds the SID's gate
  pending,     \* idleDispatch.pending: "no", "queued", "active", "again"
  retained,    \* works whose token did not close
  alive,       \* the processes, <<sid, instance>>
  thread,
  result       \* what the last Shutdown returned

world == <<scene, logged, mail, policyFile, lingerDisk>>
policy == <<closed, admission, arev, linger, lrev>>
seen == <<sessions, requests, observed, cursor>>
owned == <<bySID, gate, pending, retained, alive>>
vars == <<world, bound, policy, seen, owned, thread, result>>

-----------------------------------------------------------------------------
Tracked == {i \in Sids : bySID[i] # NoInst}
Requested == {s \in Sessions : requests[s] # 0}
Mapped == {s \in Sessions : sessions[s] # NoSid}
Observed == {s \in Sessions : observed[s].known}
Unseen == [known |-> FALSE, failed |-> FALSE, rev |-> 0]
Clear == [known |-> TRUE, failed |-> FALSE, rev |-> 0]
Have(what) == bound[what] > 0
Use(what) == Have(what) /\ bound' = [bound EXCEPT ![what] = @ - 1]
Set(t, r) == [thread EXCEPT ![t] = r]
In(t, pc) == thread[t].pc = pc

(* UserAdmission.decision: a policy maps a user to "enabled", "disabled"   *)
(* or "probe".                                                             *)
Allow(p, sid) == p[sid] = "enabled"
MayAllow(p, sid) == p[sid] \in {"enabled", "probe"}

(* acceptUserWorkClassLocked *)
Held(class) == {t \in Threads : class \in thread[t].work}
NativeWork == FoldSet(LAMBDA t, n : Cardinality(thread[t].work) + n, retained, Threads)
Accepts(class) ==
  /\ ~closed
  /\ ~(scene.hold /\ class \in {"admission", "reconcile", "scan"})
  /\ IF class = "admission" THEN Cardinality(Held(class)) + retained < scene.native
     ELSE Held(class) = {}

(* A number no request or thread has.                                      *)
FreshFrom(used, n) == Min((1..(Cardinality(used) + n)) \ used)
UsedRequests == {requests[s] : s \in Sessions} \cup {thread[t].request : t \in Logons}
                \cup IF In("rec", "dispatch") THEN {p[2] : p \in ToSet(thread["rec"].todo)}
                     ELSE {}
NewRequest == FreshFrom(UsedRequests \ {0}, 1)
Superseded(f) == [f EXCEPT !["rec"].fresh = FALSE]

(* queueIdleCleanup *)
Queued(sids) ==
  [i \in Sids |-> IF closed \/ i \notin sids \/ bySID[i] = NoInst THEN pending[i]
                  ELSE IF pending[i] \in {"active", "again"} THEN "again" ELSE "queued"]

-----------------------------------------------------------------------------
(* The system: sessions come and go; a notification may be lost.           *)
SessionChange(s) ==
  /\ Use("changes")
  /\ logged' = IF s \in logged THEN logged \ {s} ELSE logged \cup {s}
  /\ UNCHANGED <<scene, policyFile, lingerDisk, policy, seen, owned, thread, result>>
  /\ mail' = Append(mail, [session |-> s, logon |-> s \notin logged])

SessionChangeLost(s) ==
  /\ Have("changes") /\ Have("lost")
  /\ bound' = [bound EXCEPT !["changes"] = @ - 1, !["lost"] = @ - 1]
  /\ logged' = IF s \in logged THEN logged \ {s} ELSE logged \cup {s}
  /\ UNCHANGED <<scene, mail, policyFile, lingerDisk, policy, seen, owned, thread, result>>

EditPolicy ==
  /\ Use("edits")
  /\ policyFile' \in scene.edits \ {policyFile}
  /\ UNCHANGED <<scene, logged, mail, lingerDisk, policy, seen, owned, thread, result>>

(* A record is removed from the linger directory by hand.                  *)
RemoveRecord(sid) ==
  /\ Use("removals")
  /\ sid \in lingerDisk
  /\ lingerDisk' = lingerDisk \ {sid}
  /\ UNCHANGED <<scene, logged, mail, policyFile, policy, seen, owned, thread, result>>

ManagerExits(p) ==
  /\ Use("exits")
  /\ p \in alive /\ alive' = alive \ {p}
  /\ UNCHANGED <<world, policy, seen, bySID, gate, pending, retained, thread, result>>

(* The time of an instance's nextStart comes.                              *)
DelayPasses(sid) ==
  /\ bySID[sid].delayed
  /\ bySID' = [bySID EXCEPT ![sid].delayed = FALSE]
  /\ UNCHANGED <<world, bound, policy, seen, gate, pending, retained, alive, thread, result>>

-----------------------------------------------------------------------------
(* acceptSessionRequest, and the worker dispatchLogon starts.              *)
Admissible(s) ==
  /\ s \in Observed \/ Cardinality(Observed) < scene.limit
  /\ s \in Mapped \/ Cardinality(Mapped) < scene.limit
  /\ s \in Requested \/ Cardinality(Requested) < scene.limit

Spawned(f, s, r, mine) ==
  LET t == CHOOSE x \in Logons : In(x, "off")
  IN  [f EXCEPT ![t] = [Off EXCEPT !.pc = "query", !.session = s, !.request = r,
                                   !.work = {"admission"}, !.mine = mine]]

ListenLogon ==
  /\ mail # <<>> /\ Head(mail).logon /\ mail' = Tail(mail)
  /\ LET s == Head(mail).session
     IN  \/ /\ closed \/ ~Admissible(s)
            /\ UNCHANGED <<requests, observed, thread>>
         \/ /\ ~closed /\ Admissible(s) /\ ~Accepts("admission")
            /\ requests' = [requests EXCEPT ![s] = 0]
            /\ thread' = Superseded(thread)
            /\ UNCHANGED observed
         \/ /\ ~closed /\ Admissible(s) /\ Accepts("admission")
            /\ requests' = [requests EXCEPT ![s] = NewRequest]
            /\ observed' = [observed EXCEPT ![s] = IF @.known THEN @ ELSE Clear]
            /\ thread' = Superseded(Spawned(thread, s, NewRequest, FALSE))
  /\ UNCHANGED <<scene, logged, policyFile, lingerDisk, bound, policy, sessions, cursor,
                 owned, result>>

(* recordLogoff, then queueIdleCleanup.                                    *)
ListenLogoff ==
  /\ mail # <<>> /\ ~Head(mail).logon /\ mail' = Tail(mail)
  /\ LET s == Head(mail).session
     IN  /\ sessions' = [sessions EXCEPT ![s] = NoSid]
         /\ requests' = [requests EXCEPT ![s] = 0]
         /\ observed' = [observed EXCEPT ![s] = Unseen]
         /\ pending' = Queued({sessions[s]})
  /\ thread' = Superseded(thread)
  /\ UNCHANGED <<scene, logged, policyFile, lingerDisk, bound, policy, cursor, bySID, gate,
                 retained, alive, result>>

(* finishNativeUserWork and, for a logon, finishSessionRequest.            *)
Finished(t) ==
  /\ requests' = LET s == thread[t].session
                 IN  IF s # 0 /\ requests[s] = thread[t].request
                     THEN [requests EXCEPT ![s] = 0] ELSE requests
  /\ thread' = LET f == [thread EXCEPT ![t] = Off]
               IN  IF thread[t].mine THEN [f EXCEPT !["rec"].wait = FALSE] ELSE f

(* queryAcceptedUserLogon, up to QueryToken.                               *)
Query(t) ==
  /\ In(t, "query")
  /\ LET s == thread[t].session
         old == bySID[IF sessions[s] = NoSid THEN scene.user[s] ELSE sessions[s]]
     IN  IF \/ closed \/ requests[s] # thread[t].request
            \/ sessions[s] # NoSid /\ ~old.proc /\ old.delayed
         THEN Finished(t)
         ELSE /\ thread' = [thread EXCEPT ![t].pc = "token", ![t].rev = arev,
                                          ![t].todo = <<admission>>]
              /\ UNCHANGED requests
  /\ UNCHANGED <<world, bound, policy, sessions, observed, cursor, owned, result>>

(* userSessionOrigin.currentLocked *)
Current(t) == /\ requests[thread[t].session] = thread[t].request
              /\ arev = thread[t].rev

(* QueryToken and the probe, then recordSessionFailure; or                 *)
(* clearSessionFailure and acceptSessionIdentity.                          *)
TokenFails(t) ==
  LET s == thread[t].session
  IN  /\ In(t, "token")
      /\ IF s \in logged THEN Use("faults") ELSE UNCHANGED bound
      /\ observed' = IF ~closed /\ Current(t) /\ observed[s].known
                     THEN [observed EXCEPT ![s] = [known |-> TRUE, failed |-> TRUE,
                                                   rev |-> thread[t].rev]]
                     ELSE observed
      /\ Finished(t)
      /\ UNCHANGED <<world, policy, sessions, cursor, owned, result>>

TokenRead(t, present) ==
  LET s == thread[t].session
      p == thread[t].todo[1]
      allow == IF p[scene.user[s]] = "probe" THEN present ELSE Allow(p, scene.user[s])
      accept == /\ ~closed /\ Current(t) /\ allow
                /\ s \in Mapped \/ Cardinality(Mapped) < scene.limit
  IN  /\ In(t, "token") /\ s \in logged
      /\ observed' = IF ~closed /\ Current(t) /\ observed[s].known
                     THEN [observed EXCEPT ![s] = Clear] ELSE observed
      /\ sessions' = IF accept THEN [sessions EXCEPT ![s] = scene.user[s]] ELSE sessions
      /\ thread' = Set(t, [thread[t] EXCEPT !.pc = IF accept THEN "ensure" ELSE "finish",
                                            !.sid = scene.user[s], !.token = TRUE, !.todo = <<>>])
      /\ UNCHANGED <<world, bound, policy, requests, cursor, owned, result>>

-----------------------------------------------------------------------------
(* ensureRunning.  wanted(): the request or the record is still current.   *)
Wanted(t) == IF thread[t].linger
             THEN lrev = thread[t].lrev /\ thread[t].sid \in linger
             ELSE Current(t)

Room(sid) == sid \in Tracked \/ Cardinality(Tracked) < scene.tracked

GateFree(sid) == gate[sid] = NoSid

(* inspectUserLaunch *)
Inspect(t) == /\ ~closed /\ Wanted(t) /\ Room(thread[t].sid)
              /\ ~bySID[thread[t].sid].uncertain

Ensure(t) ==
  LET sid == thread[t].sid
  IN  /\ In(t, "ensure")
      /\ IF GateFree(sid) /\ Inspect(t)
         THEN /\ gate' = [gate EXCEPT ![sid] = t]
              /\ thread' = Set(t, [thread[t] EXCEPT !.inst = bySID[sid].id,
                             !.pc = IF bySID[sid].proc THEN "check" ELSE "accept"])
         ELSE /\ thread' = Set(t, [thread[t] EXCEPT !.pc = "finish"])
              /\ UNCHANGED gate
      /\ UNCHANGED <<world, bound, policy, seen, bySID, pending, retained, alive, result>>

(* Alive; of a dead process, acceptUserCleanup.                            *)
Check(t) ==
  LET sid == thread[t].sid
      dead == <<sid, thread[t].inst>> \notin alive
  IN  /\ In(t, "check")
      /\ bySID' = IF dead THEN [bySID EXCEPT ![sid].uncertain = TRUE] ELSE bySID
      /\ gate' = IF dead THEN gate ELSE [gate EXCEPT ![sid] = NoSid]
      /\ thread' = Set(t, [thread[t] EXCEPT !.pc = IF dead THEN "kill" ELSE "finish",
                                            !.retain = TRUE])
      /\ UNCHANGED <<world, bound, policy, seen, pending, retained, alive, result>>

InstIds(sid) == {bySID[sid].id} \cup {p[2] : p \in {q \in alive : q[1] = sid}}
                \cup {thread[t].inst : t \in {u \in Threads : thread[u].sid = sid}}
NewInst(sid) == FreshFrom(InstIds(sid) \ {0}, 1)

(* acceptUserLaunch *)
Launchable(t) == /\ ~closed /\ Wanted(t) /\ ~scene.hold
                 /\ Room(thread[t].sid) /\ ~bySID[thread[t].sid].delayed

AcceptLaunch(t) ==
  LET sid == thread[t].sid
      id == NewInst(sid)
  IN  /\ In(t, "accept")
      /\ IF Launchable(t)
         THEN /\ bySID' = [bySID EXCEPT ![sid] = [NoInst EXCEPT !.id = id, !.delayed = TRUE]]
              /\ thread' = Set(t, [thread[t] EXCEPT !.pc = "start", !.inst = id])
              /\ UNCHANGED gate
         ELSE /\ gate' = [gate EXCEPT ![sid] = NoSid]
              /\ thread' = Set(t, [thread[t] EXCEPT !.pc = "finish"])
              /\ UNCHANGED bySID
      /\ UNCHANGED <<world, bound, policy, seen, pending, retained, alive, result>>

(* applyUserLaunch: even a failed creation remains owned.                  *)
Applied(inst, made, failed) ==
  [inst EXCEPT !.proc = made, !.uncertain = made /\ failed,
               !.err = failed, !.delayed = TRUE]

(* cfg.Start and applyUserLaunch.  A superseded launch is cleaned up.      *)
Start(t, made, failed) ==
  LET sid == thread[t].sid
      superseded == closed \/ ~Wanted(t)
      kill == superseded /\ made /\ ~failed
      inst == Applied(bySID[sid], made, failed \/ ~made)
  IN  /\ In(t, "start")
      /\ IF made /\ ~failed THEN UNCHANGED bound ELSE Use("faults")
      /\ alive' = IF made THEN alive \cup {<<sid, thread[t].inst>>} ELSE alive
      /\ bySID' = [bySID EXCEPT ![sid] =
                     IF ~made /\ superseded THEN NoInst
                     ELSE IF kill THEN [inst EXCEPT !.uncertain = TRUE] ELSE inst]
      /\ gate' = IF kill THEN gate ELSE [gate EXCEPT ![sid] = NoSid]
      /\ thread' = Set(t, [thread[t] EXCEPT !.pc = IF kill THEN "kill" ELSE "finish",
                                            !.retain = FALSE])
      /\ UNCHANGED <<world, policy, seen, pending, retained, result>>

-----------------------------------------------------------------------------
(* stops.wait around Kill, and applyUserCleanup.  The wait may end before  *)
(* the kill does.  Then the caller's next step.                            *)
After(t, ok) ==
  LET th == thread[t]
      sid == th.sid
  IN  CASE th.retain /\ ok      -> [th EXCEPT !.pc = "accept", !.retain = FALSE]
        [] t \in Logons \/ th.token -> [th EXCEPT !.pc = "finish"]
        [] t = "rec"            -> [th EXCEPT !.pc = "sweep", !.sid = NoSid]
        [] t = "pol"            -> [th EXCEPT !.pc = "revoke", !.sid = NoSid]
        [] OTHER                -> Off

(* Mutant: a failed cleanup lets go of the instance.                       *)
CleanedAlways(inst, ok, retain) == NoInst

(* applyUserCleanup *)
Cleaned(inst, ok, retain) ==
  IF ~ok THEN [inst EXCEPT !.err = TRUE]
  ELSE IF retain /\ ~closed
  THEN [inst EXCEPT !.proc = FALSE, !.uncertain = FALSE, !.err = TRUE]
  ELSE NoInst

(* runIdleCleanup: how a worker leaves its entry.                          *)
Requeued(sid, ok, gone) ==
  IF gone \/ (ok /\ pending[sid] = "active") THEN "no" ELSE "queued"

KillEnds(t, ok) ==
  LET sid == thread[t].sid
      inst == Cleaned(bySID[sid], ok, thread[t].retain)
  IN  /\ In(t, "kill")
      /\ IF ok \/ (t \in Stoppers /\ thread["shut"].wait) \/ (t = "idle" /\ closed)
         THEN UNCHANGED bound       \* the caller's context has ended
         ELSE Use("faults")
      /\ alive' = IF ok THEN alive \ {<<sid, thread[t].inst>>} ELSE alive
      /\ bySID' = [bySID EXCEPT ![sid] = inst]
      /\ gate' = IF After(t, ok).pc = "accept" THEN gate ELSE [gate EXCEPT ![sid] = NoSid]
      /\ pending' = IF t = "idle"
                    THEN [pending EXCEPT ![sid] = Requeued(sid, ok, inst = NoInst)]
                    ELSE pending
      /\ thread' = LET f == Set(t, After(t, ok))
                   IN  IF t \in Stoppers /\ ~ok THEN [f EXCEPT !["shut"].bad = TRUE] ELSE f
      /\ UNCHANGED <<world, policy, seen, retained, result>>

(* stopUserLocked(onlyIdle): a session or a record keeps the manager,      *)
(* unless its cleanup already began.                                       *)
Stays(sid) == /\ ~closed /\ ~bySID[sid].uncertain
              /\ \/ \E s \in Mapped : sessions[s] = sid /\ MayAllow(admission, sid)
                 \/ sid \in linger

(* stopUser: the gate, the idle policy again, and the cleanup.             *)
StopBegins(t) ==
  LET sid == thread[t].sid
      keep == t \notin Stoppers /\ Stays(sid)
  IN  /\ In(t, "lock") /\ gate[sid] \in {NoSid, t}
      /\ IF keep \/ ~bySID[sid].proc
         THEN /\ bySID' = IF keep THEN bySID ELSE [bySID EXCEPT ![sid] = NoInst]
              /\ gate' = [gate EXCEPT ![sid] = NoSid]
              /\ pending' = IF t = "idle"
                            THEN [pending EXCEPT ![sid] = Requeued(sid, TRUE, bySID'[sid] = NoInst)]
                            ELSE pending
              /\ thread' = Set(t, After(t, TRUE))
         ELSE /\ bySID' = [bySID EXCEPT ![sid].uncertain = TRUE]
              /\ gate' = [gate EXCEPT ![sid] = t]
              /\ thread' = Set(t, [thread[t] EXCEPT !.pc = "kill", !.inst = bySID[sid].id,
                                                    !.retain = FALSE])
              /\ UNCHANGED pending
      /\ UNCHANGED <<world, bound, policy, seen, retained, alive, result>>

(* finishNativeUserWork of a worker with a token.                          *)
FinishWork(t, closes) ==
  /\ In(t, "finish")
  /\ IF closes THEN UNCHANGED bound ELSE Use("tokens")
  /\ retained' = IF closes THEN retained ELSE retained + 1
  /\ IF t \in Logons THEN Finished(t)
     ELSE /\ thread' = Set(t, IF t = "scan"
                              THEN [thread[t] EXCEPT !.pc = "records", !.sid = NoSid,
                                      !.token = FALSE, !.linger = FALSE, !.work = {"scan"}]
                              ELSE Off)
          /\ UNCHANGED requests
  /\ UNCHANGED <<world, policy, sessions, observed, cursor, bySID, gate, pending, alive,
                 result>>

-----------------------------------------------------------------------------
Up(sid) == bySID[sid].proc /\ <<sid, bySID[sid].id>> \in alive

Scans == linger # lingerDisk \/ \E sid \in linger : ~Up(sid)

(* Nothing for a pass to do: passes then are left out.                     *)
Settled == /\ retained = 0 /\ logged = Mapped /\ Requested = {}
           /\ \A sid \in Tracked : Up(sid) /\ ~bySID[sid].uncertain /\ Stays(sid)
           /\ \A s \in Mapped : Up(sessions[s])
           /\ ~Scans

Kept(closes) == IF closes THEN 0 ELSE retained

(* reconcileAccepted: retained tokens are closed, and the epoch is taken.  *)
Reconcile(closes) ==
  /\ In("rec", "off") /\ Accepts("reconcile") /\ ~Settled
  /\ IF closes \/ retained = 0 THEN UNCHANGED bound ELSE Use("tokens")
  /\ retained' = Kept(closes)
  /\ thread' = Set("rec", [Off EXCEPT !.pc = "enum", !.work = {"reconcile"},
                                      !.fresh = TRUE, !.rev = arev])
  /\ UNCHANGED <<world, policy, seen, bySID, gate, pending, alive, result>>

(* scheduleReconcile: StartLingering follows the pass, and may also have   *)
(* nothing to do.                                                          *)
ThenScan(f) ==
  [f EXCEPT !["rec"] = Off,
            !["scan"] = IF @.pc = "off" /\ Accepts("scan") /\ Scans
                        THEN [Off EXCEPT !.pc = "list", !.work = {"scan"}] ELSE @]

(* cfg.Sessions *)
Enumerate(fails) ==
  /\ In("rec", "enum")
  /\ IF fails THEN Use("faults") ELSE UNCHANGED bound
  /\ thread' = IF closed \/ fails \/ Cardinality(logged) > scene.limit
               THEN ThenScan(thread)
               ELSE Set("rec", [thread["rec"] EXCEPT !.pc = "admit",
                                  !.todo = SetToSortSeq(logged, LAMBDA a, b : a < b)])
  /\ UNCHANGED <<world, policy, seen, owned, result>>

Epoch == thread["rec"].fresh /\ arev = thread["rec"].rev

(* acceptUserSessions: the enumeration becomes the sessions, with a        *)
(* request for each; dispatchReconcileRequests orders them by the cursor.  *)
AcceptSessions ==
  LET rec == thread["rec"]
      ids == rec.todo
      here == ToSet(ids)
      base == UsedRequests \ {0}
      number == [i \in 1..Len(ids) |-> CHOOSE n \in 1..(Cardinality(base) + Len(ids)) :
                   n \notin base /\ Cardinality({m \in 1..n : m \notin base}) = i]
      pairs == [i \in 1..Len(ids) |-> <<ids[i], number[i]>>]
      later == SelectSeq(pairs, LAMBDA p : p[1] > cursor)
      earlier == SelectSeq(pairs, LAMBDA p : p[1] <= cursor)
  IN  /\ In("rec", "admit")
      /\ IF closed \/ ~Epoch
         THEN /\ thread' = ThenScan(thread)
              /\ UNCHANGED <<sessions, requests, observed>>
         ELSE /\ requests' = [s \in Sessions |-> IF s \in here
                               THEN number[CHOOSE i \in 1..Len(ids) : ids[i] = s] ELSE 0]
              /\ sessions' = [s \in Sessions |-> IF s \in here THEN sessions[s] ELSE NoSid]
              /\ observed' = [s \in Sessions |-> IF s \notin here THEN Unseen
                               ELSE IF observed[s].known THEN observed[s] ELSE Clear]
              /\ thread' = Set("rec", [rec EXCEPT !.pc = "dispatch", !.sids = Tracked,
                                                  !.todo = later \o earlier])
      /\ UNCHANGED <<world, bound, policy, cursor, owned, result>>

(* Its loop: a worker where there is a slot; without one, wait for one of  *)
(* its own or give the rest up.                                            *)
Active == {t \in Logons : thread[t].mine /\ ~In(t, "off")}
Dispatch ==
  LET rec == thread["rec"]
      next == Head(rec.todo)
      f == Set("rec", [rec EXCEPT !.todo = Tail(@)])
  IN  /\ In("rec", "dispatch") /\ ~rec.wait
      /\ \/ /\ rec.todo # <<>> /\ Accepts("admission")
            /\ thread' = Spawned(f, next[1], next[2], TRUE)
            /\ cursor' = next[1]
            /\ UNCHANGED requests
         \/ /\ rec.todo # <<>> /\ ~Accepts("admission") /\ Active # {}
            /\ thread' = [thread EXCEPT !["rec"].wait = TRUE]
            /\ UNCHANGED <<requests, cursor>>
         \/ /\ Active = {} /\ (rec.todo = <<>> \/ ~Accepts("admission"))
            /\ thread' = Set("rec", [rec EXCEPT !.todo = <<>>, !.pc = "sweep"])
            /\ requests' = [s \in Sessions |-> IF <<s, requests[s]>> \in ToSet(rec.todo) THEN 0
                                               ELSE requests[s]]
            /\ UNCHANGED cursor
      /\ UNCHANGED <<world, bound, policy, sessions, observed, owned, result>>

(* The stops at the end of a pass.                                         *)
Sweep ==
  LET rec == thread["rec"]
  IN  /\ In("rec", "sweep")
      /\ IF rec.sids = {} THEN thread' = ThenScan(thread)
         ELSE \E sid \in rec.sids :
                thread' = Set("rec", [rec EXCEPT !.pc = "lock", !.sid = sid,
                                                 !.sids = @ \ {sid}])
      /\ UNCHANGED <<world, bound, policy, seen, owned, result>>

-----------------------------------------------------------------------------
(* LingerStore.List, where reading the directory or its records may fail.  *)
Readings == {lingerDisk, {}}

(* refreshLingerRecords and acceptLingerSnapshot.  A record that cannot be *)
(* read counts as removed.                                                 *)
ListRecords(read) ==
  /\ In("scan", "list")
  /\ IF read = lingerDisk THEN UNCHANGED bound ELSE Use("faults")
  /\ linger' = IF closed THEN linger ELSE read
  /\ lrev' = IF closed \/ read = linger THEN lrev ELSE lrev + 1
  /\ pending' = Queued(linger \ read)
  /\ thread' = Set("scan", [thread["scan"] EXCEPT !.pc = "records", !.sids = read])
  /\ UNCHANGED <<world, closed, admission, arev, seen, bySID, gate, retained, alive, result>>

(* startLinger, up to the token.                                           *)
Lingers(th, sid) ==
  [th EXCEPT !.pc = "ltoken", !.sid = sid, !.linger = TRUE, !.lrev = lrev,
             !.work = @ \cup {"admission"}]
MayLinger(sid) == /\ sid \in linger
                  /\ ~(~bySID[sid].proc /\ bySID[sid].delayed)
                  /\ Accepts("admission")

(* StartLingering: the next record.                                        *)
NextRecord ==
  LET th == thread["scan"]
  IN  /\ In("scan", "records")
      /\ IF th.sids = {} THEN thread' = Set("scan", Off)
         ELSE \E sid \in th.sids :
                LET rest == [th EXCEPT !.sids = @ \ {sid}]
                IN  thread' = Set("scan", IF ~Up(sid) /\ MayLinger(sid) THEN Lingers(rest, sid)
                                          ELSE rest)
      /\ UNCHANGED <<world, bound, policy, seen, owned, result>>

LingerToken(t) ==
  /\ In(t, "ltoken")
  /\ thread' = Set(t, [thread[t] EXCEPT !.pc = "ensure", !.token = TRUE])
  /\ UNCHANGED <<world, bound, policy, seen, owned, result>>

(* recordLingerTokenFailure: an instance with no process, to be retried.   *)
LingerTokenFails(t) ==
  LET sid == thread[t].sid
      records == /\ gate[sid] = NoSid /\ ~closed /\ lrev = thread[t].lrev /\ sid \in linger
                 /\ Room(sid)
                 /\ bySID[sid] # NoInst => ~bySID[sid].proc /\ bySID[sid].err
  IN  /\ In(t, "ltoken")
      /\ Use("faults")
      /\ bySID' = IF records THEN [bySID EXCEPT ![sid] = [NoInst EXCEPT !.id = NewInst(sid),
                                                   !.err = TRUE, !.delayed = TRUE]]
                  ELSE bySID
      /\ thread' = Set(t, [thread[t] EXCEPT !.pc = "finish"])
      /\ UNCHANGED <<world, policy, seen, gate, pending, retained, alive, result>>

(* EnableLinger and DisableLinger: mutateLingerRecord with the lookup, the *)
(* store and acceptLingerMutation, then the start or the stop.             *)
Enable(sid) ==
  /\ Use("rpcs") /\ In("rpc", "off") /\ Accepts("admission")
  /\ thread' = Set("rpc", [Off EXCEPT !.pc = "put", !.sid = sid, !.work = {"admission"}])
  /\ UNCHANGED <<world, policy, seen, owned, result>>

(* LingerStore.Put *)
Storable(sid) == sid \in lingerDisk \/ Cardinality(lingerDisk) < scene.tracked

Put ==
  LET sid == thread["rpc"].sid
  IN  /\ In("rpc", "put")
      /\ IF Storable(sid)
         THEN /\ lingerDisk' = lingerDisk \cup {sid}
              /\ linger' = linger \cup {sid} /\ lrev' = lrev + 1
              /\ thread' = Set("rpc", [thread["rpc"] EXCEPT !.pc = "enabled", !.work = {}])
         ELSE /\ thread' = Set("rpc", Off)
              /\ UNCHANGED <<lingerDisk, linger, lrev>>
      /\ UNCHANGED <<scene, logged, mail, policyFile, bound, closed, admission, arev, seen,
                     owned, result>>

EnableStarts ==
  LET sid == thread["rpc"].sid
  IN  /\ In("rpc", "enabled")
      /\ thread' = Set("rpc", IF ~Up(sid) /\ MayLinger(sid) THEN Lingers(thread["rpc"], sid)
                              ELSE Off)
      /\ UNCHANGED <<world, bound, policy, seen, owned, result>>

Disable(sid) ==
  /\ Use("rpcs") /\ In("rpc", "off") /\ Accepts("revocation")
  /\ thread' = Set("rpc", [Off EXCEPT !.pc = "delete", !.sid = sid, !.work = {"revocation"}])
  /\ UNCHANGED <<world, policy, seen, owned, result>>

Delete ==
  LET sid == thread["rpc"].sid
  IN  /\ In("rpc", "delete")
      /\ lingerDisk' = lingerDisk \ {sid}
      /\ linger' = linger \ {sid} /\ lrev' = lrev + 1
      /\ thread' = Set("rpc", [thread["rpc"] EXCEPT !.pc = "lock", !.work = {}])
      /\ UNCHANGED <<scene, logged, mail, policyFile, bound, closed, admission, arev, seen,
                     owned, result>>

-----------------------------------------------------------------------------
(* scheduleAdmissionRefresh.  A refresh that would change nothing and      *)
(* revoke nobody is left out.                                              *)
Revocable(p) == {sid \in Tracked : ~MayAllow(p, sid) /\ sid \notin linger}
Refresh ==
  /\ In("pol", "off") /\ Accepts("policy")
  /\ policyFile # admission \/ Revocable(admission) # {}
  /\ thread' = Set("pol", [Off EXCEPT !.pc = "load", !.work = {"policy"}])
  /\ UNCHANGED <<world, bound, policy, seen, owned, result>>

Revised(p) == IF p = admission THEN arev ELSE arev + 1

(* LoadUserAdmission: a file that cannot be read, or is not a policy,      *)
(* leaves the policy in force.                                             *)
LoadedPolicy(fails) == IF fails THEN admission ELSE policyFile

(* acceptAdmissionPolicy *)
AcceptPolicy(fails) ==
  LET p == LoadedPolicy(fails)
  IN  /\ In("pol", "load")
      /\ IF fails THEN Use("faults") ELSE UNCHANGED bound
      /\ admission' = IF closed THEN admission ELSE p
      /\ arev' = IF closed THEN arev ELSE Revised(p)
      /\ observed' = IF closed \/ p = admission THEN observed
                     ELSE [s \in Sessions |-> IF observed[s].known THEN Clear ELSE Unseen]
      /\ thread' = Set("pol", [thread["pol"] EXCEPT !.pc = "revoke",
                                 !.sids = IF closed THEN {} ELSE Revocable(p)])
      /\ UNCHANGED <<world, closed, linger, lrev, sessions, requests, cursor, owned, result>>

(* SetUserAdmission, per user: the gate, which it waits for only so long,  *)
(* acceptAdmissionRevocation and the cleanup.                              *)
Revoke ==
  LET th == thread["pol"]
  IN  /\ In("pol", "revoke")
      /\ IF th.sids = {}
         THEN /\ thread' = Set("pol", Off)
              /\ UNCHANGED <<bySID, gate, sessions>>
         ELSE \E sid \in th.sids :
                LET revoke == ~MayAllow(admission, sid) /\ sid \notin linger
                    kill == revoke /\ bySID[sid].proc
                    rest == [th EXCEPT !.sids = @ \ {sid}]
                IN  \/ /\ gate[sid] # NoSid
                       /\ thread' = Set("pol", rest)
                       /\ UNCHANGED <<bySID, gate, sessions>>
                    \/ /\ gate[sid] = NoSid
                       /\ sessions' = [s \in Sessions |-> IF revoke /\ sessions[s] = sid
                                                          THEN NoSid ELSE sessions[s]]
                       /\ bySID' = IF kill THEN [bySID EXCEPT ![sid].uncertain = TRUE]
                                   ELSE IF revoke THEN [bySID EXCEPT ![sid] = NoInst] ELSE bySID
                       /\ gate' = IF kill THEN [gate EXCEPT ![sid] = "pol"] ELSE gate
                       /\ thread' = Set("pol", IF kill
                                      THEN [rest EXCEPT !.pc = "kill", !.sid = sid,
                                                        !.inst = bySID[sid].id, !.retain = FALSE]
                                      ELSE rest)
      /\ UNCHANGED <<world, bound, policy, requests, observed, cursor, pending, retained,
                     alive, result>>

(* runIdleCleanup: a worker for a user whose gate is free.                 *)
IdlePick(sid) ==
  /\ ~closed /\ In("idle", "off")
  /\ pending[sid] = "queued" /\ gate[sid] = NoSid
  /\ pending' = [pending EXCEPT ![sid] = "active"]
  /\ gate' = [gate EXCEPT ![sid] = "idle"]
  /\ thread' = Set("idle", [Off EXCEPT !.pc = "lock", !.sid = sid])
  /\ UNCHANGED <<world, bound, policy, seen, bySID, retained, alive, result>>

-----------------------------------------------------------------------------
(* Shutdown: sealShutdownLocked and acceptUserShutdown.                    *)
Shutdown ==
  /\ Use("shutdowns") /\ In("shut", "off") /\ result # "ok"
  /\ closed' = TRUE
  /\ sessions' = [s \in Sessions |-> NoSid]
  /\ requests' = [s \in Sessions |-> 0]
  /\ observed' = [s \in Sessions |-> Unseen]
  /\ thread' = Set("shut", [Off EXCEPT !.pc = "drain", !.sids = Tracked])
  /\ result' = "none"
  /\ UNCHANGED <<world, admission, arev, linger, lrev, cursor, owned>>

(* shutdownPass: its workers, drainNativeUserWork, and the join.           *)
StopperTakes(k, sid) ==
  /\ ~In("shut", "off") /\ In(k, "off") /\ sid \in thread["shut"].sids
  /\ thread' = [thread EXCEPT !["shut"].sids = @ \ {sid},
                              ![k] = [Off EXCEPT !.pc = "lock", !.sid = sid]]
  /\ UNCHANGED <<world, bound, policy, seen, owned, result>>

Drained == \A t \in Threads : thread[t].work = {}

Drain(closes) ==
  /\ In("shut", "drain") /\ Drained
  /\ IF closes \/ retained = 0 THEN UNCHANGED bound ELSE Use("tokens")
  /\ retained' = Kept(closes)
  /\ thread' = [thread EXCEPT !["shut"].pc = "join",
                              !["shut"].bad = @ \/ (~closes /\ retained > 0)]
  /\ UNCHANGED <<world, policy, seen, bySID, gate, pending, alive, result>>

Joined == /\ thread["shut"].sids = {} /\ \A k \in Stoppers : In(k, "off")
          /\ In("idle", "off") \/ thread["shut"].wait
ShutdownEnds ==
  /\ In("shut", "join") /\ Joined
  /\ result' = IF thread["shut"].bad THEN "failed" ELSE "ok"
  /\ thread' = Set("shut", Off)
  /\ UNCHANGED <<world, bound, policy, seen, owned>>

(* Its context ends.                                                       *)
ShutdownExpires ==
  /\ Use("expiries") /\ ~In("shut", "off")
  /\ thread' = [t \in Threads |->
       CASE t = "shut" -> [thread[t] EXCEPT !.pc = "join", !.sids = {}, !.bad = TRUE,
                                         !.wait = TRUE]
         [] t \in Stoppers /\ In(t, "lock") -> Off
         [] OTHER -> thread[t]]
  /\ UNCHANGED <<world, policy, seen, owned, result>>

-----------------------------------------------------------------------------
Init ==
  /\ scene \in Scenarios
  /\ bound = scene.bound
  /\ logged = {} /\ mail = <<>>
  /\ policyFile = scene.policy /\ admission = scene.policy
  /\ lingerDisk = scene.linger /\ linger = {}
  /\ closed = FALSE /\ arev = 0 /\ lrev = 0
  /\ sessions = [s \in Sessions |-> NoSid]
  /\ requests = [s \in Sessions |-> 0]
  /\ observed = [s \in Sessions |-> Unseen]
  /\ cursor = 0
  /\ bySID = [i \in Sids |-> NoInst]
  /\ gate = [i \in Sids |-> NoSid]
  /\ pending = [i \in Sids |-> "no"]
  /\ retained = 0 /\ alive = {}
  /\ thread = [t \in Threads |-> Off]
  /\ result = "none"

Outside ==
  \/ \E s \in DOMAIN scene.user : SessionChange(s) \/ SessionChangeLost(s)
  \/ EditPolicy
  \/ \E s \in DOMAIN scene.user : LET sid == scene.user[s]
                                   IN  RemoveRecord(sid) \/ Enable(sid) \/ Disable(sid)
  \/ \E p \in alive : ManagerExits(p)
  \/ Shutdown \/ ShutdownExpires

LogonStep(t) ==
  \/ Query(t) \/ TokenFails(t)
  \/ \E present \in BOOLEAN : TokenRead(t, present)

LaunchStep(t) ==
  \/ Ensure(t) \/ Check(t) \/ AcceptLaunch(t)
  \/ \E made, failed \in BOOLEAN : Start(t, made, failed)
  \/ LingerToken(t) \/ LingerTokenFails(t)
  \/ \E ok \in BOOLEAN : FinishWork(t, ok)

StopStep(t) == StopBegins(t) \/ \E ok \in BOOLEAN : KillEnds(t, ok)

ReconcileStep ==
  \/ \E x \in BOOLEAN : Reconcile(x) \/ Enumerate(x)
  \/ AcceptSessions \/ Dispatch \/ Sweep

ScanStep == NextRecord \/ \E read \in Readings : ListRecords(read)
RpcStep == Put \/ EnableStarts \/ Delete
PolicyStep == Refresh \/ Revoke \/ \E fails \in BOOLEAN : AcceptPolicy(fails)
ShutdownStep ==
  \/ \E k \in Stoppers, sid \in Sids : StopperTakes(k, sid)
  \/ \E closes \in BOOLEAN : Drain(closes)
  \/ ShutdownEnds

Next ==
  \/ Outside
  \/ \E sid \in Sids : DelayPasses(sid) \/ IdlePick(sid)
  \/ ListenLogon \/ ListenLogoff
  \/ \E t \in Logons : LogonStep(t)
  \/ \E t \in Logons \cup {"scan", "rpc"} : LaunchStep(t)
  \/ \E t \in Threads \ {"scan", "shut"} : StopStep(t)
  \/ \E ok \in BOOLEAN : KillEnds("scan", ok)
  \/ ReconcileStep \/ ScanStep \/ RpcStep \/ PolicyStep \/ ShutdownStep

Spec == Init /\ [][Next]_vars

(* Every goroutine goes on; the tickers tick; a gate, which is a channel,  *)
(* serves those that wait for it in turn.                                  *)
Fairness ==
  /\ \A sid \in Sids : WF_vars(DelayPasses(sid)) /\ WF_vars(IdlePick(sid))
  /\ WF_vars(ListenLogon) /\ WF_vars(ListenLogoff)
  /\ \A t \in Logons : WF_vars(LogonStep(t))
  /\ \A t \in Logons \cup {"scan", "rpc"} : WF_vars(LaunchStep(t))
  /\ \A t \in Threads \ {"shut"} : WF_vars(\E ok \in BOOLEAN : KillEnds(t, ok))
  /\ \A t \in Stoppers \cup {"rec", "rpc"} : WF_vars(StopBegins(t))
  /\ WF_vars(StopBegins("idle"))
  /\ WF_vars(ReconcileStep) /\ WF_vars(ScanStep) /\ WF_vars(RpcStep)
  /\ WF_vars(PolicyStep) /\ WF_vars(ShutdownStep)
FairSpec == Spec /\ Fairness

-----------------------------------------------------------------------------
(* One manager per user: two processes of one user never live at once,     *)
(* through failed launches, failed kills, recovery and reconnected         *)
(* sessions.                                                               *)
OneManagerPerUser ==
  \A sid \in Sids : Cardinality({p \in alive : p[1] = sid}) <= 1

(* decisionSnapshotLocked: an instance's state in the status.              *)
Status(sid) == CASE bySID[sid].uncertain -> "cleanup"
                 [] ~bySID[sid].uncertain /\ bySID[sid].proc -> "running"
                 [] ~bySID[sid].uncertain /\ ~bySID[sid].proc /\ bySID[sid].err -> "waiting"
                 [] OTHER -> "starting"

(* No process is lost: a live manager is its user's instance, so that a    *)
(* stop, a pass or the shutdown can still end it, and status shows it.     *)
ManagersOwned ==
  \A p \in alive : bySID[p[1]].id = p[2] /\ Status(p[1]) \in {"running", "cleanup"}

(* snapshotLocked never finds more records than were admitted; the linger  *)
(* records, which hand edits can make more, are left out.                  *)
SnapshotWithinBounds ==
  /\ Cardinality(Tracked) <= scene.tracked
  /\ \A S \in {Mapped, Requested, Observed} : Cardinality(S) <= scene.limit
  /\ NativeWork <= scene.native + 4

(* A failure status shows is one met under the policy in force.            *)
FailuresCurrent ==
  \A s \in Sessions : observed[s].failed => observed[s].rev = arev

(* Shutdown returns no error only when no manager, no token and no work    *)
(* that could make one is left.                                            *)
ShutdownProves ==
  result = "ok" => /\ alive = {} /\ Tracked = {} /\ retained = 0
                   /\ \A t \in Threads : thread[t].work = {} /\ ~In(t, "start")

Calls == /\ ~closed /\ ~scene.hold /\ Cardinality(logged) <= scene.limit
Entitled(sid) == \/ sid \in lingerDisk /\ Cardinality(logged) < scene.native
                 \/ \E s \in logged : scene.user[s] = sid /\ Allow(policyFile, sid)
MayRun(sid) == \/ sid \in lingerDisk
               \/ \E s \in logged : scene.user[s] = sid /\ MayAllow(policyFile, sid)

(* Lost notifications, failed launches, exits and edits are repaired: when *)
(* they cease, an entitled user has a manager and keeps it.  The launch of *)
(* a linger record gives way when the sessions take every slot.            *)
EntitledRun ==
  \A sid \in Sids : <>[](Calls /\ Entitled(sid)
                         /\ Cardinality({i \in Sids : MayRun(i)}) <= scene.tracked => Up(sid))

(* And a user with neither an admitted session nor a linger record has     *)
(* none.                                                                   *)
OthersStop ==
  \A sid \in Sids : <>[](Calls /\ ~MayRun(sid) => \A p \in alive : p[1] # sid)

(* Every Shutdown call returns.                                            *)
ShutdownReturns == []<>In("shut", "off")
=============================================================================
