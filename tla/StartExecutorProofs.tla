------------------------ MODULE StartExecutorProofs ------------------------
(***************************************************************************)
(* Proofs about StartExecutor, for every number of jobs, every worker      *)
(* limit and every plan whose ordering is acyclic.                         *)
(***************************************************************************)
EXTENDS StartExecutor, FiniteSetTheorems, TLAPS

(* What the executor's books say of one job.  A job is queued, in flight,  *)
(* settled (called and accounted for) or rejected, and its recorded state, *)
(* its error, its release and its rejection agree with that.               *)
Ledger(j) ==
  /\ j \in inflight => /\ j \in launched /\ j \notin released
                       /\ state[j] = IF j \in errs THEN "failed" ELSE "activating"
  /\ j \in launched /\ j \notin inflight =>
       /\ j \in released
       /\ state[j] # "activating"
  /\ j \in launched => rejected[j] = 0
  /\ j \notin launched /\ j \in errs =>
       /\ j \in released /\ rejected[j] = 1 /\ state[j] = "failed"
  /\ j \notin launched /\ j \notin errs =>
       /\ j \notin released /\ rejected[j] = 0 /\ state[j] = "inactive"
  /\ state[j] = "active" => j \notin errs
  /\ state[j] = "failed" => j \in errs

Books == \A j \in Jobs : Ledger(j)

(* remaining counts the predecessors that are not released yet.            *)
Counted == \A j \in Jobs : remaining[j] = Cardinality(waits[j] \ released)

(* What the scan has passed over cannot be launched in this round.         *)
Scanned == pc = "scan" => \A j \in Jobs : j < at => ~Ready(j)

(* The inductive invariant.                                                *)
IInv ==
  /\ TypeOK
  /\ Acyclic(waits)
  /\ Books
  /\ Counted
  /\ FailureSpreads
  /\ Scanned
  /\ NoneForgotten

-----------------------------------------------------------------------------
(* Sets of jobs are finite.                                                *)
LEMMA JobSets ==
  ASSUME NEW S \in SUBSET Jobs
  PROVE  IsFiniteSet(S) /\ Cardinality(S) \in Nat /\ (Cardinality(S) = 0 <=> S = {})
<1>1. IsFiniteSet(Jobs)
  BY JobsAssumption, FS_Interval DEF Jobs
<1>2. IsFiniteSet(S)
  BY <1>1, FS_Subset
<1> QED
  BY <1>2, FS_CardinalityType, FS_EmptySet

(* Removing the jobs of S from a set of jobs removes as many as it held.   *)
LEMMA CountDown ==
  ASSUME NEW W \in SUBSET Jobs, NEW R \in SUBSET Jobs, NEW S \in SUBSET Jobs
  PROVE  /\ Cardinality(W \ (R \cup S)) = Cardinality(W \ R) - Cardinality(W \cap (S \ R))
         /\ Cardinality(W \ R) - Cardinality(W \cap (S \ R)) >= 0
<1> DEFINE left == Cardinality(W \ (R \cup S))
           all == Cardinality(W \ R)
           cut == Cardinality(W \cap (S \ R))
<1>1. IsFiniteSet(W \ R)
  BY JobSets
<1>2. Cardinality((W \ R) \ S) = all - Cardinality((W \ R) \cap S)
  BY ZenonT(60), <1>1, FS_Difference
<1>3. (W \ R) \ S = W \ (R \cup S) /\ (W \ R) \cap S = W \cap (S \ R)
  OBVIOUS
<1>4. left = all - cut
  BY <1>2, <1>3
<1>5. left \in Nat /\ all \in Nat /\ cut \in Nat
  BY JobSets
<1> HIDE DEF left, all, cut
<1>6. left = all - cut /\ all - cut >= 0
  BY <1>4, <1>5
<1> QED
  BY <1>6 DEF left, all, cut

(* releaseAfter keeps the count of what a job still waits for; its clamp   *)
(* at zero never bites.                                                    *)
LEMMA ReleaseCounts ==
  ASSUME TypeOK, Counted, NEW S \in SUBSET Jobs, Release(S), waits' = waits
  PROVE  /\ Counted' /\ released' = released \cup S
         /\ remaining' \in [Jobs -> Nat]
<1>1. released' = released \cup S /\ released \in SUBSET Jobs
  BY DEF Release, TypeOK
<1> SUFFICES ASSUME NEW j \in Jobs
             PROVE  /\ remaining'[j] = Cardinality(waits[j] \ (released \cup S))
                    /\ remaining'[j] \in Nat
  BY ZenonT(60), <1>1 DEF Counted, Release
<1>2. waits[j] \in SUBSET Jobs
  BY DEF TypeOK, Plans
<1> DEFINE new == Cardinality(waits[j] \ (released \cup S))
           old == Cardinality(waits[j] \ released)
           cut == Cardinality(waits[j] \cap (S \ released))
<1>3. new = old - cut /\ old - cut >= 0
  BY ZenonT(60), <1>1, <1>2, CountDown
<1>4. remaining[j] = old
  BY DEF Counted
<1>5. remaining'[j] = IF remaining[j] - cut < 0 THEN 0 ELSE remaining[j] - cut
  BY DEF Release
<1>6. new \in Nat /\ old \in Nat /\ cut \in Nat
  BY <1>1, <1>2, JobSets
<1> HIDE DEF new, old, cut
<1>7. remaining'[j] = new /\ remaining'[j] \in Nat
  BY <1>3, <1>4, <1>5, <1>6
<1> QED
  BY <1>7 DEF new

-----------------------------------------------------------------------------
(* What markFailed reaches: the jobs it starts from, closed under "requires *)
(* it and has not started", and nothing else that has started.             *)
LEMMA DoomedFacts ==
  ASSUME NEW S \in SUBSET Jobs
  PROVE  /\ Doomed(S) \in SUBSET Jobs /\ S \subseteq Doomed(S)
         /\ Spreads(Doomed(S))
         /\ \A j \in Doomed(S) : j \in S \/ NotYetStarted(j)
         /\ S = {} => Doomed(S) = {}
<1>1. Doomed(S) \in SUBSET Jobs /\ S \subseteq Doomed(S)
  BY DEF Doomed
<1>2. Spreads(Doomed(S))
  BY DEF Doomed, Spreads
<1>3. ASSUME NEW j \in Doomed(S)
      PROVE  j \in S \/ NotYetStarted(j)
  <2> DEFINE C == S \cup {k \in Jobs : NotYetStarted(k)}
  <2>1. C \in SUBSET Jobs /\ S \subseteq C /\ Spreads(C)
    BY DEF Spreads
  <2>2. j \in C
    BY <1>3, <2>1 DEF Doomed
  <2> QED
    BY <2>2
<1>4. S = {} => Doomed(S) = {}
  <2>1. Spreads({})
    BY DEF Spreads
  <2> QED
    BY <2>1 DEF Doomed
<1> QED
  BY <1>1, <1>2, <1>3, <1>4

(* The part of the invariant that does not look at the executor's          *)
(* goroutine.                                                              *)
Core == TypeOK /\ Books /\ Counted /\ FailureSpreads

(* The jobs a step rejects are queued ones.                                *)
Refused == {j \in Jobs : rejected[j] > 0}
Waiting == Jobs \ (launched \cup Refused)
Refusing == \E L \in SUBSET Waiting : Refused' = Refused \cup L

(* A job the outcome calls active stays active and without an error.       *)
KeepsActive == \A j \in Jobs : state[j] = "active" => state'[j] = "active" /\ j \notin errs'

(* markFailed keeps the books, for the jobs F whose results were received  *)
(* and the jobs S it is called for.                                        *)
LEMMA FailKeeps ==
  ASSUME Core, NEW S \in SUBSET Jobs, NEW F \in SUBSET S,
         \A j \in S : state[j] # "active",
         F \subseteq inflight, inflight' = inflight \ F,
         waits' = waits, requires' = requires,
         Fail(S, F)
  PROVE  /\ Books' /\ Counted' /\ FailureSpreads'
         /\ state' \in [Jobs -> States] /\ errs' \in SUBSET Jobs
         /\ rejected' \in [Jobs -> Nat] /\ released' \in SUBSET Jobs
         /\ remaining' \in [Jobs -> Nat] /\ launched' = launched
         /\ Refusing /\ KeepsActive
         /\ \A j \in S : state'[j] = "failed"
         /\ \A j \in Jobs : state'[j] = "inactive" => state[j] = "inactive"
<1> DEFINE D == Doomed(S)
           lost == D \ (errs \cup launched)
<1>1. /\ D \in SUBSET Jobs /\ S \subseteq D /\ Spreads(D)
      /\ \A j \in D : j \in S \/ NotYetStarted(j)
  BY DoomedFacts
<1>2. /\ state' = [j \in Jobs |-> IF j \in D THEN "failed" ELSE state[j]]
      /\ errs' = errs \cup D
      /\ rejected' = [j \in Jobs |-> rejected[j] + (IF j \in lost THEN 1 ELSE 0)]
      /\ launched' = launched
      /\ Release(F \cup lost)
  BY DEF Fail
<1>3. /\ state \in [Jobs -> States] /\ errs \in SUBSET Jobs /\ launched \in SUBSET Jobs
      /\ released \in SUBSET Jobs /\ rejected \in [Jobs -> Nat] /\ inflight \in SUBSET Jobs
  BY DEF Core, TypeOK
<1> HIDE DEF D
<1>4. /\ Counted' /\ released' = released \cup (F \cup lost)
      /\ remaining' \in [Jobs -> Nat]
  BY <1>1, <1>2, ReleaseCounts DEF Core
<1>5. \A j \in Jobs : state[j] = "active" => j \notin D
  BY <1>1 DEF NotYetStarted
<1>6. /\ state' \in [Jobs -> States] /\ errs' \in SUBSET Jobs
      /\ rejected' \in [Jobs -> Nat] /\ released' \in SUBSET Jobs
  BY SMTT(60), <1>1, <1>2, <1>3, <1>4 DEF States
<1>7. Books'
  <2> SUFFICES ASSUME NEW j \in Jobs PROVE Ledger(j)'
    BY DEF Books
  <2>1. Ledger(j)
    BY DEF Core, Books
  <2>2. /\ state'[j] = (IF j \in D THEN "failed" ELSE state[j])
        /\ rejected'[j] = rejected[j] + (IF j \in lost THEN 1 ELSE 0)
        /\ rejected[j] \in Nat /\ F \subseteq D
    BY SMTT(60), <1>1, <1>2, <1>3
  <2> QED
    BY SMTT(60), <1>2, <1>4, <1>5, <2>1, <2>2 DEF Ledger
<1>8. FailureSpreads'
  <2> SUFFICES ASSUME NEW j \in Jobs, NEW r \in requires[j], r \in errs'
               PROVE  j \in errs' \/ state'[j] = "active"
    BY DEF FailureSpreads, RequiresFailed
  <2>1. CASE r \in errs
    <3>1. j \in errs \/ state[j] = "active"
      BY <2>1 DEF Core, FailureSpreads, RequiresFailed
    <3> QED
      BY <1>2, <1>5, <3>1
  <2>2. CASE r \in D /\ r \notin errs
    <3>1. NotYetStarted(j) => j \in D
      BY <1>1, <2>2 DEF Spreads
    <3>2. ~NotYetStarted(j) => state[j] = "active" \/ state[j] = "failed"
      BY <1>3 DEF NotYetStarted, States
    <3>3. state[j] = "failed" => j \in errs
      BY DEF Core, Books, Ledger
    <3> QED
      BY SMTT(60), <1>2, <1>5, <3>1, <3>2, <3>3
  <2> QED
    BY SMTT(60), <1>2, <2>1, <2>2
<1>9. Refusing
  <2>1. Refused' = Refused \cup lost
    BY SMTT(60), <1>1, <1>2, <1>3 DEF Refused
  <2>2. \A j \in lost : rejected[j] = 0
    BY <1>1 DEF Core, Books, Ledger
  <2>3. lost \in SUBSET Waiting
    BY SMTT(60), <1>1, <2>2 DEF Waiting, Refused
  <2> QED
    BY ZenonT(60), <2>1, <2>3 DEF Refusing
<1>10. KeepsActive
  BY <1>2, <1>5 DEF KeepsActive, Core, Books, Ledger
<1> QED
  BY SMTT(60), <1>1, <1>2, <1>4, <1>6, <1>7, <1>8, <1>9, <1>10

-----------------------------------------------------------------------------
(* What a step does to the outcome and, seen through the contract, to the  *)
(* jobs.                                                                   *)
Keeps == IInv' /\ KeepsActive /\ [Contract!CNext]_(Contract!cvars)

(* The contract's queue is the executor's.                                 *)
LEMMA QueueIsWaiting ==
  ASSUME Core
  PROVE  Contract!Queued = Waiting /\ inflight \subseteq launched
<1>1. inflight \subseteq launched
  BY DEF Core, TypeOK, Books, Ledger
<1> QED
  BY <1>1 DEF Contract!Queued, Waiting, Refused

(* A step that leaves the calls alone and rejects queued jobs refines.     *)
LEMMA RefuseRefines ==
  ASSUME Core, Refusing, UNCHANGED <<waits, inflight, launched>>
  PROVE  [Contract!CNext]_(Contract!cvars)
<1>1. Contract!Refuse
  BY QueueIsWaiting DEF Contract!Refuse, Refusing, Refused
<1> QED
  BY <1>1 DEF Contract!CNext

LEMMA InitIInv ==
  ASSUME Init
  PROVE  IInv
<1>1. TypeOK
  <2>1. \A j \in Jobs : waits[j] \in SUBSET Jobs
    BY DEF Init, Plans
  <2>2. \A j \in Jobs : Cardinality(waits[j]) \in Nat
    BY <2>1, JobSets
  <2>3. 1 \in 1..(N + 1)
    BY JobsAssumption
  <2> QED
    BY ZenonT(60), <2>2, <2>3 DEF Init, TypeOK, States
<1>2. Books
  BY DEF Init, Books, Ledger
<1>3. Counted
  <2>1. \A j \in Jobs : waits[j] \ {} = waits[j]
    OBVIOUS
  <2> QED
    BY <2>1 DEF Init, Counted
<1> QED
  BY <1>1, <1>2, <1>3
  DEF Init, IInv, FailureSpreads, RequiresFailed, Scanned, NoneForgotten

(* The end of the context touches nothing else.                            *)
LEMMA CancelStep ==
  ASSUME IInv, Cancel
  PROVE  Keeps
<1>1. UNCHANGED <<plan, books, inflight, finished, pc, at>> /\ cancelled' \in BOOLEAN
  BY SMTT(60) DEF Cancel
<1>2. IInv'
  BY SMTT(60), <1>1 DEF IInv, TypeOK, Books, Ledger, Counted, FailureSpreads,
     RequiresFailed,
    Scanned, Ready, NoneForgotten, Unstarted, plan, books
<1>3. KeepsActive
  BY <1>1 DEF KeepsActive, IInv, Books, Ledger, books
<1>4. UNCHANGED Contract!cvars
  BY <1>1 DEF Contract!cvars, plan, books
<1> QED
  BY <1>2, <1>3, <1>4 DEF Keeps

(* The top of the loop.                                                    *)
LEMMA CheckStep ==
  ASSUME IInv, Check
  PROVE  Keeps
<1>1. /\ UNCHANGED <<waits, requires, inflight, finished, cancelled>> /\ at' = 1
      /\ Core /\ 1 \in 1..(N + 1)
  BY JobsAssumption DEF Check, plan, IInv, Core
<1>2. CASE cancelled
  <2>1. Fail(Unstarted, {}) /\ pc' = "drain"
    BY <1>2 DEF Check
  <2>2. Unstarted \in SUBSET Jobs /\ \A j \in Unstarted : state[j] # "active"
    BY DEF Unstarted
  <2>3. inflight' = inflight \ {}
    BY <1>1
  <2>4. /\ Books' /\ Counted' /\ FailureSpreads'
        /\ state' \in [Jobs -> States] /\ errs' \in SUBSET Jobs
        /\ rejected' \in [Jobs -> Nat] /\ released' \in SUBSET Jobs
        /\ remaining' \in [Jobs -> Nat] /\ launched' = launched
        /\ Refusing /\ KeepsActive
        /\ \A j \in Unstarted : state'[j] = "failed"
        /\ \A j \in Jobs : state'[j] = "inactive" => state[j] = "inactive"
    BY ZenonT(60), <1>1, <2>1, <2>2, <2>3, FailKeeps
  <2>5. TypeOK'
    BY SMTT(60), <1>1, <2>1, <2>4 DEF IInv, TypeOK
  <2>6. Unstarted' = {}
    BY <2>4 DEF Unstarted
  <2>7. IInv'
    BY ZenonT(60), <1>1, <2>1, <2>4, <2>5, <2>6
       DEF IInv, Scanned, NoneForgotten, Acyclic
  <2>8. [Contract!CNext]_(Contract!cvars)
    BY <1>1, <2>4, RefuseRefines
  <2> QED
    BY <2>4, <2>7, <2>8 DEF Keeps
<1>3. CASE ~cancelled
  <2>1. pc' = "scan" /\ UNCHANGED books
    BY <1>3 DEF Check
  <2>2. IInv'
    <3>1. \A j \in Jobs : ~(j < 1)
      BY DEF Jobs
    <3>2. Scanned'
      BY SMTT(60), <1>1, <3>1 DEF Scanned
    <3> QED
      BY <1>1, <2>1, <3>2 DEF IInv, TypeOK, Books, Ledger, Counted, FailureSpreads,
        RequiresFailed, NoneForgotten, books
  <2>3. KeepsActive
    BY <2>1 DEF KeepsActive, IInv, Books, Ledger, books
  <2>4. UNCHANGED Contract!cvars
    BY <1>1, <2>1 DEF Contract!cvars, books
  <2> QED
    BY <2>2, <2>3, <2>4 DEF Keeps
<1> QED
  BY <1>2, <1>3

(* The scan: a job is launched only when nothing it waits for is left, and *)
(* by then no requirement of it can have failed.                           *)
LEMMA ScanStep ==
  ASSUME IInv, Scan
  PROVE  Keeps
<1>1. /\ UNCHANGED <<waits, requires, finished, cancelled, pc>> /\ at' = at + 1
      /\ pc = "scan" /\ at \in Jobs /\ at' \in 1..(N + 1) /\ Core
      /\ Cardinality(inflight) < Workers
  <2>1. /\ UNCHANGED <<waits, requires, finished, cancelled, pc>> /\ at' = at + 1
        /\ pc = "scan" /\ at <= N /\ Cardinality(inflight) < Workers
    BY DEF Scan, plan
  <2>2. at \in 1..(N + 1) /\ Core
    BY DEF IInv, TypeOK, Core
  <2>3. at \in Jobs /\ at + 1 \in 1..(N + 1)
    BY <2>1, <2>2, JobsAssumption DEF Jobs
  <2> QED
    BY <2>1, <2>2, <2>3
<1>2. \A j \in Jobs : j < at + 1 => j < at \/ j = at
  BY <1>1 DEF Jobs
<1>3. CASE ~Ready(at)
  <2>1. UNCHANGED <<books, inflight>>
    BY <1>3 DEF Scan
  <2>2. Scanned'
    BY SMTT(60), <1>1, <1>2, <1>3, <2>1 DEF IInv, Scanned, Ready, books
  <2>3. IInv'
    BY SMTT(60), <1>1, <2>1, <2>2
       DEF IInv, TypeOK, Books, Ledger, Counted, FailureSpreads,
      RequiresFailed, NoneForgotten, books
  <2>4. KeepsActive
    BY <2>1 DEF KeepsActive, IInv, Books, Ledger, books
  <2>5. UNCHANGED Contract!cvars
    BY <1>1, <2>1 DEF Contract!cvars, books
  <2> QED
    BY <2>3, <2>4, <2>5 DEF Keeps
<1>4. CASE Ready(at)
  <2>1. at \notin launched /\ state[at] = "inactive" /\ at \notin errs /\ rejected[at] = 0
    BY <1>1, <1>4 DEF Ready, Core, Books, Ledger
  <2>2. ~RequiresFailed(at)
    BY <1>1, <2>1 DEF Core, FailureSpreads
  <2>3. Launch(at) /\ inflight' = inflight \cup {at}
    BY <1>4, <2>2 DEF Scan
  <2>4. /\ launched' = launched \cup {at}
        /\ state' = [state EXCEPT ![at] = "activating"]
        /\ UNCHANGED <<errs, released, remaining, rejected>>
    BY <2>3 DEF Launch
  <2>5. TypeOK'
    BY SMTT(60), <1>1, <2>3, <2>4 DEF IInv, TypeOK, States
  <2>6. Books'
    <3> SUFFICES ASSUME NEW j \in Jobs PROVE Ledger(j)'
      BY DEF Books
    <3>1. Ledger(j) /\ state'[j] = IF j = at THEN "activating" ELSE state[j]
      BY SMTT(60), <2>4 DEF IInv, TypeOK, Books
    <3> QED
      BY <2>1, <2>3, <2>4, <3>1 DEF Ledger
  <2>7. Counted'
    BY SMTT(60), <1>1, <2>4 DEF IInv, Counted
  <2>8. FailureSpreads'
    BY <1>1, <2>1, <2>2, <2>4 DEF IInv, TypeOK, FailureSpreads, RequiresFailed
  <2>9. Scanned'
    <3> SUFFICES ASSUME NEW j \in Jobs, j < at + 1 PROVE ~Ready(j)'
      BY <1>1 DEF Scanned
    <3>1. CASE j = at
      BY <2>4, <3>1 DEF Ready
    <3>2. CASE j < at /\ j # at
      <4>1. ~Ready(j) /\ state'[j] = state[j]
        BY <1>1, <2>4, <3>2 DEF IInv, TypeOK, Scanned
      <4> QED
        BY SMTT(60), <2>4, <4>1 DEF Ready
    <3> QED
      BY <1>2, <3>1, <3>2
  <2>10. NoneForgotten'
    BY SMTT(60), <1>1 DEF NoneForgotten
  <2>11. IInv'
    BY ZenonT(60), <1>1, <2>5, <2>6, <2>7, <2>8, <2>9, <2>10 DEF IInv, Acyclic
  <2>12. KeepsActive
    BY <2>1, <2>4 DEF KeepsActive, IInv, TypeOK, Books, Ledger
  <2>13. Contract!Begin(at)
    <3>1. at \in Contract!Queued
      BY <1>1, <2>1, QueueIsWaiting DEF Waiting, Refused
    <3>2. waits[at] \in SUBSET Jobs /\ released \in SUBSET Jobs
      BY <1>1 DEF Core, TypeOK, Plans
    <3>3. waits[at] \ released = {}
      <4>1. remaining[at] = Cardinality(waits[at] \ released) /\ remaining[at] = 0
        BY SMTT(60), <1>1, <1>4 DEF Core, Counted, Ready
      <4> QED
        BY SMTT(60), <3>2, <4>1, JobSets
    <3>4. \A w \in released : w \in launched \ inflight \/ w \in Refused
      <4> SUFFICES ASSUME NEW w \in released PROVE w \in launched \ inflight \/ w \in Refused
        OBVIOUS
      <4>1. w \in Jobs /\ Ledger(w)
        BY <1>1, <3>2 DEF Core, Books
      <4> QED
        BY <4>1 DEF Ledger, Refused
    <3>5. waits[at] \subseteq (launched \ inflight) \cup Refused
      BY <3>3, <3>4
    <3>6. launched' \ inflight' = launched \ inflight
      BY SMTT(60), <2>1, <2>3, <2>4, <1>1, QueueIsWaiting
    <3> QED
      BY <1>1, <2>3, <2>4, <3>1, <3>5, <3>6 DEF Contract!Begin, Refused
  <2> QED
    BY SMTT(60), <1>1, <2>11, <2>12, <2>13 DEF Keeps, Contract!CNext
<1> QED
  BY <1>3, <1>4

(* The end of a scan: with nothing in flight nothing is left to launch.    *)
(* If jobs were left, one of them would wait for none of the others (the   *)
(* plan is acyclic) and so for released jobs only, and the scan would have *)
(* launched it.                                                            *)
LEMMA ScanDoneStep ==
  ASSUME IInv, ScanDone
  PROVE  Keeps
<1>1. /\ UNCHANGED <<plan, books, inflight, finished, cancelled, at>> /\ pc = "scan"
      /\ pc' = IF inflight = {} THEN "drain" ELSE "wait"
      /\ Core
  BY DEF ScanDone, IInv, Core
<1>2. ASSUME inflight = {}
      PROVE  Unstarted = {}
  <2>1. \A j \in Jobs : ~Ready(j)
    <3>1. Cardinality(inflight) = 0
      BY <1>2, FS_EmptySet
    <3>2. at > N
      BY <3>1, WorkersAssumption DEF ScanDone
    <3>3. \A j \in Jobs : j < at
      BY SMTT(60), <3>2, JobsAssumption DEF Jobs, IInv, TypeOK
    <3> QED
      BY <1>1, <3>3 DEF IInv, Scanned
  <2> DEFINE U == {j \in Jobs : j \notin launched /\ j \notin errs}
  <2>2. ASSUME U # {}
        PROVE  FALSE
    <3>1. PICK j \in U : waits[j] \cap U = {}
      BY ZenonT(60), <2>2 DEF IInv, Acyclic
    <3>2. waits[j] \in SUBSET Jobs /\ j \in Jobs
      BY <1>1 DEF Core, TypeOK, Plans
    <3>3. \A w \in waits[j] : w \in released
      <4> SUFFICES ASSUME NEW w \in waits[j] PROVE w \in released
        OBVIOUS
      <4>1. w \in Jobs /\ Ledger(w) /\ w \notin U
        BY <1>1, <3>1, <3>2 DEF Core, Books
      <4> QED
        BY <1>2, <4>1 DEF Ledger
    <3>4. remaining[j] = Cardinality(waits[j] \ released) /\ waits[j] \ released = {}
      BY <1>1, <3>2, <3>3 DEF Core, Counted
    <3>5. remaining[j] = 0
      BY <3>4, FS_EmptySet
    <3>6. Ledger(j)
      BY <1>1, <3>2 DEF Core, Books
    <3> QED
      BY SMTT(60), <2>1, <3>2, <3>5, <3>6 DEF Ready, Ledger
  <2>3. Unstarted \subseteq U
    BY <1>1 DEF Unstarted, Core, Books, Ledger
  <2> QED
    BY <2>2, <2>3
<1>3. NoneForgotten'
  BY <1>1, <1>2 DEF NoneForgotten, Unstarted, books
<1>4. TypeOK' /\ Scanned'
  BY <1>1 DEF IInv, TypeOK, Scanned, plan, books
<1>5. IInv'
  BY SMTT(60), <1>1, <1>3, <1>4 DEF IInv, Books, Ledger, Counted, FailureSpreads,
    RequiresFailed, plan, books
<1>6. KeepsActive
  BY <1>1 DEF KeepsActive, IInv, Books, Ledger, books
<1>7. UNCHANGED Contract!cvars
  BY <1>1 DEF Contract!cvars, plan, books
<1> QED
  BY <1>5, <1>6, <1>7 DEF Keeps

(* An adapter call returns: only the channel sees it.                      *)
LEMMA ReturnStep ==
  ASSUME IInv, NEW j \in Jobs, Return(j)
  PROVE  Keeps
<1>1. UNCHANGED <<plan, books, inflight, cancelled, pc, at>>
  BY DEF Return
<1>2. finished' \subseteq Jobs \X Results
  BY SMTT(60) DEF Return, IInv, TypeOK
<1>3. IInv'
  BY SMTT(60), <1>1, <1>2 DEF IInv, TypeOK, Books, Ledger, Counted, FailureSpreads,
    RequiresFailed, Scanned, Ready, NoneForgotten, Unstarted, plan, books
<1>4. KeepsActive
  BY ZenonT(60), <1>1 DEF KeepsActive, IInv, Books, Ledger, books
<1>5. UNCHANGED Contract!cvars
  BY SMTT(60), <1>1 DEF Contract!cvars, plan, books
<1> QED
  BY <1>3, <1>4, <1>5 DEF Keeps

(* A result that fails nobody: the job is released and gets its last state. *)
LEMMA QuietFinish ==
  ASSUME Core, NEW j \in inflight, NEW s \in {"inactive", "active", "failed"},
         s = "failed" => j \in errs, s = "active" => j \notin errs,
         inflight' = inflight \ {j}, waits' = waits, requires' = requires,
         state' = [state EXCEPT ![j] = s], Release({j}),
         UNCHANGED <<errs, launched, rejected>>
  PROVE  /\ Books' /\ Counted' /\ FailureSpreads'
         /\ state' \in [Jobs -> States] /\ errs' \in SUBSET Jobs
         /\ rejected' \in [Jobs -> Nat] /\ released' \in SUBSET Jobs
         /\ remaining' \in [Jobs -> Nat] /\ launched' = launched
         /\ Refusing /\ KeepsActive
<1>1. /\ j \in Jobs /\ state \in [Jobs -> States] /\ released \in SUBSET Jobs
      /\ errs \in SUBSET Jobs /\ rejected \in [Jobs -> Nat]
  BY DEF Core, TypeOK
<1>2. Counted' /\ released' = released \cup {j} /\ remaining' \in [Jobs -> Nat]
  BY <1>1, ReleaseCounts DEF Core
<1>3. state' \in [Jobs -> States]
  BY <1>1 DEF States
<1>4. Ledger(j)
  BY <1>1 DEF Core, Books
<1>5. Books'
  <2> SUFFICES ASSUME NEW k \in Jobs PROVE Ledger(k)'
    BY DEF Books
  <2>1. Ledger(k) /\ state'[k] = IF k = j THEN s ELSE state[k]
    BY SMTT(60), <1>1 DEF Core, Books
  <2>2. CASE k = j
    BY SMTT(60), <1>2, <1>4, <2>1, <2>2 DEF Ledger
  <2>3. CASE k # j
    BY SMTT(60), <1>2, <2>1, <2>3 DEF Ledger
  <2> QED
    BY <2>2, <2>3
<1>6. FailureSpreads'
  <2> SUFFICES ASSUME NEW k \in Jobs, RequiresFailed(k)
               PROVE  k \in errs \/ state'[k] = "active"
    BY DEF FailureSpreads, RequiresFailed
  <2>1. k \in errs \/ state[k] = "active"
    BY DEF Core, FailureSpreads
  <2>2. state[j] # "active"
    BY <1>4 DEF Ledger
  <2> QED
    BY SMTT(60), <1>1, <2>1, <2>2
<1>7. Refusing
  <2>1. Refused' = Refused \cup {}
    BY DEF Refused
  <2> QED
    BY ZenonT(60), <2>1 DEF Refusing
<1>8. KeepsActive
  <2>1. state[j] # "active"
    BY <1>4 DEF Ledger
  <2> QED
    BY <1>1, <2>1 DEF KeepsActive, Core, Books, Ledger
<1> QED
  BY SMTT(60), <1>1, <1>2, <1>3, <1>5, <1>6, <1>7, <1>8

(* A received result: onFinish accounts for the call.                      *)
LEMMA ReceiveStep ==
  ASSUME IInv, Receive
  PROVE  Keeps
<1>1. PICK j \in inflight, r \in Results :
        /\ <<j, r>> \in finished
        /\ finished' = finished \ {<<j, r>>}
        /\ inflight' = inflight \ {j}
        /\ OnFinish(j, r)
  BY DEF Receive
<1>2. /\ UNCHANGED <<waits, requires, cancelled, at>> /\ Core
      /\ pc \in {"wait", "drain"} /\ pc' = IF pc = "wait" THEN "check" ELSE "drain"
  BY DEF Receive, plan, IInv, Core
<1>3. j \in Jobs /\ Ledger(j) /\ j \in launched /\ state[j] # "active" /\ j \notin released
  BY <1>2 DEF Core, TypeOK, Books, Ledger
<1> DEFINE Done ==
        /\ Books' /\ Counted' /\ FailureSpreads'
        /\ state' \in [Jobs -> States] /\ errs' \in SUBSET Jobs
        /\ rejected' \in [Jobs -> Nat] /\ released' \in SUBSET Jobs
        /\ remaining' \in [Jobs -> Nat] /\ launched' = launched
        /\ Refusing /\ KeepsActive
        /\ \A k \in Jobs : state'[k] = "inactive" => k = j \/ state[k] = "inactive"
<1>4. ASSUME Fail({j}, {j})
      PROVE  Done
  <2>1. {j} \in SUBSET Jobs /\ {j} \in SUBSET {j} /\ {j} \subseteq inflight
    BY <1>3
  <2>2. \A k \in {j} : state[k] # "active"
    BY <1>3
  <2> QED
    BY ZenonT(60), <1>1, <1>2, <1>4, <2>1, <2>2, FailKeeps
<1>5. ASSUME NEW s \in {"inactive", "active", "failed"},
             s = "failed" => j \in errs, s = "active" => j \notin errs,
             state' = [state EXCEPT ![j] = s], Release({j}),
             UNCHANGED <<errs, launched, rejected>>
      PROVE  Done
  <2>1. /\ Books' /\ Counted' /\ FailureSpreads'
        /\ state' \in [Jobs -> States] /\ errs' \in SUBSET Jobs
        /\ rejected' \in [Jobs -> Nat] /\ released' \in SUBSET Jobs
        /\ remaining' \in [Jobs -> Nat] /\ launched' = launched
        /\ Refusing /\ KeepsActive
    BY ZenonT(60), <1>1, <1>2, <1>5, QuietFinish
  <2>2. \A k \in Jobs : state'[k] = "inactive" => k = j \/ state[k] = "inactive"
    BY <1>5 DEF IInv, TypeOK
  <2> QED
    BY <2>1, <2>2
<1>6. Done
  <2>1. CASE r = "skipped"
    <3>1. /\ state' = [state EXCEPT ![j] = "inactive"] /\ Release({j})
          /\ UNCHANGED <<errs, launched, rejected>>
      BY SMTT(60), <1>1, <2>1 DEF OnFinish
    <3> QED
      BY SMTT(60), <1>5, <3>1
  <2>2. CASE r = "failed"
    BY SMTT(60), <1>1, <1>4, <2>2 DEF OnFinish
  <2>3. CASE r = "ok"
    <3>1. CASE state[j] # "failed" /\ RequiresFailed(j)
      BY SMTT(60), <1>1, <1>4, <2>3, <3>1 DEF OnFinish
    <3>2. CASE state[j] = "failed"
      <4>1. /\ state' = [state EXCEPT ![j] = "failed"] /\ Release({j})
            /\ UNCHANGED <<errs, launched, rejected>>
        BY SMTT(60), <1>1, <1>2, <1>3, <2>3, <3>2 DEF OnFinish, Core, TypeOK
      <4>2. j \in errs
        BY SMTT(60), <1>3, <3>2 DEF Ledger
      <4> QED
        BY SMTT(60), <1>5, <4>1, <4>2
    <3>3. CASE state[j] # "failed" /\ ~RequiresFailed(j)
      <4>1. /\ state' = [state EXCEPT ![j] = "active"] /\ Release({j})
            /\ UNCHANGED <<errs, launched, rejected>>
        BY SMTT(60), <1>1, <1>2, <1>3, <2>3, <3>3 DEF OnFinish, Core, TypeOK
      <4>2. j \notin errs
        BY SMTT(60), <1>1, <1>3, <3>3 DEF Ledger
      <4> QED
        BY SMTT(60), <1>5, <4>1, <4>2
    <3> QED
      BY SMTT(60), <3>1, <3>2, <3>3
  <2> QED
    BY <1>1, <2>1, <2>2, <2>3 DEF Results
<1>7. TypeOK'
  BY <1>1, <1>2, <1>6 DEF IInv, TypeOK
<1>8. NoneForgotten' /\ Scanned'
  <2>1. CASE pc = "drain"
    <3>1. Unstarted = {}
      BY <2>1 DEF IInv, NoneForgotten
    <3> QED
      BY SMTT(60), <1>2, <1>3, <1>6, <2>1, <3>1 DEF NoneForgotten, Scanned, Unstarted
  <2>2. CASE pc = "wait"
    BY SMTT(60), <1>2, <2>2 DEF NoneForgotten, Scanned
  <2> QED
    BY SMTT(60), <1>2, <2>1, <2>2
<1>9. IInv'
  BY ZenonT(60), <1>2, <1>6, <1>7, <1>8 DEF IInv, Acyclic
<1>10. Contract!Settle(j)
  <2>1. launched' \ inflight' = (launched \ inflight) \cup {j}
    BY <1>1, <1>3, <1>6
  <2>2. \E S \in SUBSET Contract!Queued : Refused' = Refused \cup S
    BY <1>2, <1>6, QueueIsWaiting DEF Refusing
  <2> QED
    BY <1>1, <1>2, <2>1, <2>2 DEF Contract!Settle, Refused
<1> QED
  BY <1>3, <1>6, <1>9, <1>10 DEF Keeps, Contract!CNext

(* The closing sweep finds nothing to fail.                                *)
LEMMA FinishStep ==
  ASSUME IInv, Finish
  PROVE  Keeps
<1>1. /\ UNCHANGED <<waits, requires, inflight, finished, cancelled, at>> /\ Core
      /\ pc' = "done" /\ Fail(Unstarted, {}) /\ Unstarted = {}
  BY DEF Finish, plan, IInv, Core, NoneForgotten
<1>2. inflight' = inflight \ {} /\ {} \in SUBSET Unstarted /\ Unstarted \in SUBSET Jobs
      /\ (\A j \in Unstarted : state[j] # "active") /\ {} \subseteq inflight
  BY <1>1
<1>3. /\ Books' /\ Counted' /\ FailureSpreads'
      /\ state' \in [Jobs -> States] /\ errs' \in SUBSET Jobs
      /\ rejected' \in [Jobs -> Nat] /\ released' \in SUBSET Jobs
      /\ remaining' \in [Jobs -> Nat] /\ launched' = launched
      /\ Refusing /\ KeepsActive
  BY <1>1, <1>2, FailKeeps
<1>4. TypeOK'
  BY <1>1, <1>3 DEF IInv, TypeOK
<1>5. waits' = waits /\ Acyclic(waits) /\ pc' = "done"
  BY <1>1 DEF IInv
<1>6. Acyclic(waits)'
  BY ZenonT(60), <1>5 DEF Acyclic
<1>7. Scanned' /\ NoneForgotten'
  BY <1>5 DEF Scanned, NoneForgotten
<1>8. IInv'
  BY <1>3, <1>4, <1>6, <1>7 DEF IInv
<1>9. [Contract!CNext]_(Contract!cvars)
  BY <1>1, <1>3, RefuseRefines
<1> QED
  BY <1>3, <1>8, <1>9 DEF Keeps

-----------------------------------------------------------------------------
(* Every step of the executor keeps the invariant, leaves active jobs      *)
(* alone and is a step of the contract or changes nothing it sees.         *)
LEMMA ExecutorStep ==
  ASSUME IInv, [Next]_vars
  PROVE  Keeps
<1>1. CASE UNCHANGED vars
  <2>1. UNCHANGED <<plan, books, inflight, finished, cancelled, pc, at>>
    BY <1>1 DEF vars
  <2>2. IInv'
    BY SMTT(60), <2>1 DEF IInv, TypeOK, Books, Ledger, Counted,
       FailureSpreads, RequiresFailed,
      Scanned, Ready, NoneForgotten, Unstarted, plan, books
  <2>3. KeepsActive
    BY ZenonT(60), <2>1 DEF KeepsActive, IInv, Books, Ledger, books
  <2>4. UNCHANGED Contract!cvars
    BY <2>1 DEF Contract!cvars, plan, books
  <2> QED
    BY <2>2, <2>3, <2>4 DEF Keeps
<1>2. CASE Next
  BY SMTT(60), <1>2, CancelStep, CheckStep, ScanStep, ScanDoneStep, ReturnStep,
     ReceiveStep,
     FinishStep DEF Next
<1> QED
  BY <1>1, <1>2

(* The inductive invariant holds throughout.                               *)
LEMMA ExecutorInvariant == Spec => []IInv
<1>1. Init => IInv
  BY InitIInv
<1>2. IInv /\ [Next]_vars => IInv'
  BY ExecutorStep DEF Keeps
<1> QED
  BY <1>1, <1>2, PTL DEF Spec

(* The executor's books keep their types: no count goes below zero and no  *)
(* rejection is counted for a job outside the transaction.                 *)
THEOREM ExecutorTypes == Spec => []TypeOK
<1>1. IInv => TypeOK
  BY DEF IInv
<1> QED
  BY <1>1, ExecutorInvariant, PTL

(* For every plan, worker limit and order of results, a failure of a       *)
(* required job is recorded for every job that requires it and is not      *)
(* active.                                                                 *)
THEOREM FailuresSpread == Spec => []FailureSpreads
<1>1. IInv => FailureSpreads
  BY DEF IInv
<1> QED
  BY <1>1, ExecutorInvariant, PTL

(* For every acyclic plan the loop ends with nothing left queued: the      *)
(* closing sweep never has a job to report as not started.                 *)
THEOREM NothingForgotten == Spec => []NoneForgotten
<1>1. IInv => NoneForgotten
  BY DEF IInv
<1> QED
  BY <1>1, ExecutorInvariant, PTL

(* A job the outcome calls active is never failed afterwards.              *)
THEOREM ActiveStays == Spec => ActiveKept
<1>1. IInv /\ [Next]_vars =>
        [\A j \in Jobs : state[j] = "active" => state'[j] = "active" /\ j \notin errs']_vars
  BY ExecutorStep DEF Keeps, KeepsActive
<1> QED
  BY <1>1, ExecutorInvariant, PTL DEF Spec, ActiveKept

(* The executor implements the contract of a transaction: for every plan,  *)
(* each job is called or rejected at most once, never both, and called     *)
(* only when all it is ordered behind is settled.                          *)
THEOREM ExecutorImplements == Spec => ContractSpec
<1>1. Init => Contract!CInit
  <2> SUFFICES ASSUME Init PROVE Contract!CInit
    OBVIOUS
  <2>1. {j \in Jobs : rejected[j] > 0} = {}
    BY DEF Init
  <2>2. waits \in [Jobs -> SUBSET Jobs] /\ inflight = {} /\ launched \ inflight = {}
    BY DEF Init, Plans
  <2> QED
    BY SMTT(60), <2>1, <2>2 DEF Contract!CInit
<1>2. IInv /\ [Next]_vars => [Contract!CNext]_(Contract!cvars)
  BY ExecutorStep DEF Keeps
<1> QED
  BY <1>1, <1>2, ExecutorInvariant, PTL DEF Spec, ContractSpec, Contract!CSpec
=============================================================================
