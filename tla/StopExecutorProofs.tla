------------------------- MODULE StopExecutorProofs -------------------------
(***************************************************************************)
(* Proofs about StopExecutor, for every number of jobs, every worker limit *)
(* and every plan whose ordering is acyclic.                               *)
(***************************************************************************)
EXTENDS StopExecutor, FiniteSetTheorems, TLAPS

(* ExecuteStopWithLimit refuses a worker limit that is not positive.       *)
Limits == N \in Nat /\ Workers \in Nat \ {0}

States == {"active", "deactivating", "inactive"}

Typed ==
  /\ waits \in [Jobs -> SUBSET Jobs]
  /\ state \in [Jobs -> States] /\ errs \in SUBSET Jobs
  /\ launched \in SUBSET Jobs /\ inflight \in SUBSET launched
  /\ remaining \in [Jobs -> Nat]
  /\ pc \in {"planned", "scan", "wait", "sweep", "done"} /\ at \in 1..(N + 1)

(* The books agree: what was called and has returned is released, and the  *)
(* recorded state of a job tells how far it is.                            *)
Books ==
  /\ released = launched \ inflight
  /\ \A j \in Jobs : state[j] = IF j \in inflight THEN "deactivating"
                                ELSE IF j \in launched THEN "inactive" ELSE "active"

(* remaining counts the predecessors that are not released yet.            *)
Counted == \A j \in Jobs : remaining[j] = Cardinality(waits[j] \ released)

(* What the scan has passed over cannot be launched in this round; the     *)
(* first scan begins with the first job.                                   *)
Scanned ==
  /\ pc = "planned" => at = 1
  /\ pc = "scan" => \A j \in Jobs : j < at => ~Ready(j)

(* The inductive invariant.                                                *)
IInv == Typed /\ Acyclic(waits) /\ Books /\ Counted /\ Scanned /\ NoneLeft

(* A step keeps the invariant and is a step of the contract, or changes    *)
(* nothing the contract sees.                                              *)
Keeps == IInv' /\ [Contract!CNext]_(Contract!cvars)

-----------------------------------------------------------------------------
(* Sets of jobs are finite.                                                *)
LEMMA JobSets ==
  ASSUME Limits, NEW S \in SUBSET Jobs
  PROVE  IsFiniteSet(S) /\ Cardinality(S) \in Nat /\ (Cardinality(S) = 0 <=> S = {})
<1>1. IsFiniteSet(Jobs)
  BY FS_Interval DEF Jobs, Limits
<1>2. IsFiniteSet(S)
  BY <1>1, FS_Subset
<1> QED
  BY <1>2, FS_CardinalityType, FS_EmptySet

(* A job that returns is one predecessor less for the jobs that wait for   *)
(* it, and changes no other count.                                         *)
LEMMA OneLess ==
  ASSUME Limits, NEW W \in SUBSET Jobs, NEW R \in SUBSET Jobs, NEW S \in SUBSET Jobs
  PROVE  /\ Cardinality(W \ (R \cup S)) = Cardinality(W \ R) - Cardinality(W \cap (S \ R))
         /\ Cardinality(W \ R) - Cardinality(W \cap (S \ R)) >= 0
<1> DEFINE left == Cardinality(W \ (R \cup S))
           all == Cardinality(W \ R)
           cut == Cardinality(W \cap (S \ R))
<1>1. IsFiniteSet(W \ R)
  BY JobSets
<1>2. Cardinality((W \ R) \ S) = all - Cardinality((W \ R) \cap S)
  BY ZenonT(60), <1>1, FS_Difference
<1>3. (W \ R) \ S = W \ (R \cup S) /\ (W \ R) \cap S = W \cap (S \ R)
  OBVIOUS
<1>4. left = all - cut
  BY <1>2, <1>3
<1>5. left \in Nat /\ all \in Nat /\ cut \in Nat
  BY JobSets
<1> HIDE DEF left, all, cut
<1>6. left = all - cut /\ all - cut >= 0
  BY <1>4, <1>5
<1> QED
  BY <1>6 DEF left, all, cut

(* markDone keeps the count of what a job still waits for; the clamp of    *)
(* releaseAfter at zero never bites.                                       *)
LEMMA DoneCounts ==
  ASSUME Limits, Typed, Counted, released \in SUBSET Jobs, NEW S \in SUBSET Jobs,
         NEW E, MarkDone(S, E), waits' = waits
  PROVE  /\ Counted' /\ released' = released \cup S
         /\ remaining' \in [Jobs -> Nat]
<1>1. released' = released \cup S
  BY DEF MarkDone
<1> SUFFICES ASSUME NEW j \in Jobs
             PROVE  /\ remaining'[j] = Cardinality(waits[j] \ (released \cup S))
                    /\ remaining'[j] \in Nat
  BY ZenonT(60), <1>1 DEF Counted, MarkDone
<1>2. waits[j] \in SUBSET Jobs
  BY DEF Typed
<1> DEFINE new == Cardinality(waits[j] \ (released \cup S))
           old == Cardinality(waits[j] \ released)
           cut == Cardinality(waits[j] \cap (S \ released))
<1>3. new = old - cut /\ old - cut >= 0
  BY ZenonT(60), <1>2, OneLess
<1>4. remaining[j] = old
  BY DEF Counted
<1>5. remaining'[j] = IF remaining[j] - cut < 0 THEN 0 ELSE remaining[j] - cut
  BY DEF MarkDone
<1>6. new \in Nat /\ old \in Nat /\ cut \in Nat
  BY <1>2, JobSets
<1> HIDE DEF new, old, cut
<1>7. remaining'[j] = new /\ remaining'[j] \in Nat
  BY <1>3, <1>4, <1>5, <1>6
<1> QED
  BY <1>7 DEF new

-----------------------------------------------------------------------------
LEMMA InitIInv ==
  ASSUME Limits, Init
  PROVE  IInv
<1>1. waits \in [Jobs -> SUBSET Jobs] /\ Acyclic(waits) /\ Planned
  BY DEF Init
<1>2. \A j \in Jobs : Cardinality(waits[j]) \in Nat /\ waits[j] \ {} = waits[j]
  BY <1>1, JobSets
<1>3. 1 \in 1..(N + 1)
  BY DEF Limits
<1>4. Typed
  BY ZenonT(60), <1>1, <1>2, <1>3 DEF Typed, Planned, States
<1>5. Books /\ Counted /\ Scanned /\ NoneLeft
  BY <1>1, <1>2 DEF Planned, Books, Counted, Scanned, NoneLeft
<1> QED
  BY <1>1, <1>4, <1>5 DEF IInv

(* A step of the goroutine or of the channel that leaves the books alone.  *)
LEMMA QuietStep ==
  ASSUME IInv, UNCHANGED <<waits, books, launched, inflight>>,
         pc' \in {"planned", "scan", "wait", "sweep", "done"}, at' \in 1..(N + 1),
         Scanned', NoneLeft'
  PROVE  Keeps
<1>1. Typed' /\ Books' /\ Counted'
  BY SMTT(60) DEF IInv, Typed, Books, Counted, books
<1>2. Acyclic(waits)'
  BY ZenonT(60) DEF IInv, Acyclic
<1>3. UNCHANGED Contract!cvars
  BY DEF Contract!cvars
<1> QED
  BY <1>1, <1>2, <1>3 DEF Keeps, IInv

LEMMA ExecuteStep ==
  ASSUME Limits, IInv, Execute
  PROVE  Keeps
<1>1. /\ pc = "planned" /\ pc' = "scan" /\ UNCHANGED <<waits, books, launched, inflight, at>>
      /\ at \in 1..(N + 1)
  BY DEF Execute, IInv, Typed
<1>2. \A j \in Jobs : ~(j < at')
  BY <1>1 DEF IInv, Scanned, Jobs
<1>3. Scanned' /\ NoneLeft'
  BY <1>1, <1>2 DEF Scanned, NoneLeft
<1> QED
  BY <1>1, <1>3, QuietStep

(* The scan: a job is launched only when nothing it waits for is left.     *)
LEMMA ScanStep ==
  ASSUME Limits, IInv, Scan
  PROVE  Keeps
<1>1. /\ UNCHANGED <<waits, errs, released, remaining, pc>> /\ at' = at + 1
      /\ pc = "scan" /\ at \in Jobs /\ at' \in 1..(N + 1)
  BY DEF Scan, IInv, Typed, Jobs, Limits
<1>2. \A j \in Jobs : j < at + 1 => j < at \/ j = at
  BY <1>1 DEF Jobs
<1>3. NoneLeft'
  BY <1>1 DEF NoneLeft
<1>4. CASE ~Ready(at)
  <2>1. UNCHANGED <<state, launched, inflight>>
    BY <1>4 DEF Scan
  <2>2. Scanned'
    BY SMTT(60), <1>1, <1>2, <1>4, <2>1 DEF IInv, Scanned, Ready
  <2> QED
    BY <1>1, <1>3, <2>1, <2>2, QuietStep DEF books
<1>5. CASE Ready(at)
  <2>1. /\ launched' = launched \cup {at} /\ inflight' = inflight \cup {at}
        /\ state' = [state EXCEPT ![at] = "deactivating"]
        /\ at \notin launched /\ remaining[at] = 0
    BY <1>5 DEF Scan, Ready
  <2>2. Typed' /\ inflight \in SUBSET launched
    BY SMTT(60), <1>1, <2>1 DEF IInv, Typed, States
  <2>3. Books'
    <3>1. released' = launched' \ inflight'
      BY SMTT(60), <1>1, <2>1, <2>2 DEF IInv, Books
    <3>2. ASSUME NEW j \in Jobs
          PROVE  state'[j] = IF j \in inflight' THEN "deactivating"
                             ELSE IF j \in launched' THEN "inactive" ELSE "active"
      <4>1. state'[j] = IF j = at THEN "deactivating" ELSE state[j]
        BY SMTT(60), <2>1 DEF IInv, Typed
      <4> QED
        BY SMTT(60), <2>1, <4>1 DEF IInv, Books
    <3> QED
      BY <3>1, <3>2 DEF Books
  <2>4. Counted' /\ Acyclic(waits)'
    BY <1>1 DEF IInv, Counted, Acyclic
  <2>5. Scanned'
    BY SMTT(60), <1>1, <1>2, <2>1 DEF IInv, Scanned, Ready
  <2>6. Contract!Begin(at)
    <3>1. waits[at] \in SUBSET Jobs /\ released = launched \ inflight
      BY <1>1 DEF IInv, Typed, Books
    <3>2. Cardinality(waits[at] \ released) = 0
      BY <1>1, <2>1 DEF IInv, Counted
    <3>3. waits[at] \ released = {}
      BY <3>1, <3>2, JobSets
    <3>4. launched' \ inflight' = launched \ inflight
      BY <2>1, <2>2
    <3> QED
      BY <1>1, <2>1, <2>2, <3>1, <3>3, <3>4 DEF Contract!Begin, Contract!Queued
  <2> QED
    BY <1>1, <1>3, <2>2, <2>3, <2>4, <2>5, <2>6 DEF Keeps, IInv, Contract!CNext
<1> QED
  BY <1>4, <1>5

(* The end of a scan: with nothing in flight nothing is left to launch.    *)
(* Of the jobs left one would wait for none of the others (the plan is     *)
(* acyclic), hence for released jobs only, and the scan would have         *)
(* launched it.                                                            *)
LEMMA ScanDoneStep ==
  ASSUME Limits, IInv, ScanDone
  PROVE  Keeps
<1>1. /\ UNCHANGED <<waits, books, launched, inflight, at>> /\ pc = "scan"
      /\ pc' = (IF inflight = {} THEN "sweep" ELSE "wait") /\ at' \in 1..(N + 1)
  BY DEF ScanDone, IInv, Typed
<1>2. ASSUME inflight = {}
      PROVE  launched = Jobs
  <2>1. \A j \in Jobs : ~Ready(j)
    <3>1. Cardinality(inflight) = 0
      BY <1>2, FS_EmptySet
    <3>2. at > N
      BY <3>1 DEF ScanDone, Limits
    <3>3. \A j \in Jobs : j < at
      BY SMTT(60), <1>1, <3>2 DEF Jobs, Limits
    <3> QED
      BY <1>1, <3>3 DEF IInv, Scanned
  <2> DEFINE U == Jobs \ launched
  <2>2. ASSUME U # {}
        PROVE  FALSE
    <3>1. PICK j \in U : waits[j] \cap U = {}
      BY ZenonT(60), <2>2 DEF IInv, Acyclic
    <3>2. waits[j] \in SUBSET Jobs /\ released = launched
      BY <1>2 DEF IInv, Typed, Books
    <3>3. remaining[j] = Cardinality(waits[j] \ released) /\ waits[j] \ released = {}
      BY <3>1, <3>2 DEF IInv, Counted
    <3>4. remaining[j] = 0
      BY <3>3, FS_EmptySet
    <3> QED
      BY <2>1, <3>4 DEF Ready
  <2> QED
    BY ZenonT(60), <2>2 DEF IInv, Typed
<1>3. Scanned' /\ NoneLeft'
  BY <1>1, <1>2 DEF Scanned, NoneLeft
<1> QED
  BY <1>1, <1>3, QuietStep

(* An adapter call returns: only the channel sees it.                      *)
LEMMA ReturnStep ==
  ASSUME IInv, NEW j \in Jobs, Return(j)
  PROVE  Keeps
<1>1. UNCHANGED <<waits, books, launched, inflight, pc, at>>
  BY DEF Return
<1>2. Scanned' /\ NoneLeft' /\ pc' \in {"planned", "scan", "wait", "sweep", "done"}
      /\ at' \in 1..(N + 1)
  BY SMTT(60), <1>1 DEF IInv, Typed, Scanned, Ready, NoneLeft, books
<1> QED
  BY <1>1, <1>2, QuietStep

(* A received result: the job is down or given up, and what waits for it   *)
(* has one job less to wait for, whether its stop failed or not.           *)
LEMMA ReceiveStep ==
  ASSUME Limits, IInv, Receive
  PROVE  Keeps
<1>1. PICK j \in inflight, ok \in BOOLEAN :
        inflight' = inflight \ {j} /\ MarkDone({j}, IF ok THEN {} ELSE {j})
  BY ZenonT(60) DEF Receive
<1>2. /\ UNCHANGED <<waits, launched>> /\ pc' = "scan" /\ at' = 1 /\ 1 \in 1..(N + 1)
      /\ j \in Jobs /\ j \in launched /\ inflight \in SUBSET launched
      /\ released \in SUBSET Jobs /\ Typed /\ Counted
  BY <1>1 DEF Receive, IInv, Typed, Books, Limits
<1> DEFINE E == IF ok THEN {} ELSE {j}
<1>3. E \in SUBSET Jobs /\ MarkDone({j}, E)
  BY <1>1, <1>2
<1> HIDE DEF E
<1>4. Counted' /\ released' = released \cup {j} /\ remaining' \in [Jobs -> Nat]
  BY ZenonT(60), <1>2, <1>3, DoneCounts
<1>5. /\ errs' = errs \cup E
      /\ state' = [k \in Jobs |-> IF k \in {j} THEN "inactive" ELSE state[k]]
  BY <1>3 DEF MarkDone
<1>6. Typed'
  BY SMTT(60), <1>1, <1>2, <1>3, <1>4, <1>5 DEF Typed, States
<1>7. Books'
  <2>1. released' = launched' \ inflight'
    BY <1>1, <1>2, <1>4 DEF IInv, Books
  <2>2. ASSUME NEW k \in Jobs
        PROVE  state'[k] = IF k \in inflight' THEN "deactivating"
                           ELSE IF k \in launched' THEN "inactive" ELSE "active"
    BY SMTT(60), <1>1, <1>2, <1>5 DEF IInv, Books
  <2> QED
    BY <2>1, <2>2 DEF Books
<1>8. Scanned' /\ NoneLeft' /\ Acyclic(waits)'
  <2>1. \A k \in Jobs : ~(k < 1)
    BY DEF Jobs
  <2> QED
    BY <1>2, <2>1 DEF IInv, Scanned, NoneLeft, Acyclic
<1>9. Contract!Settle(j)
  <2>1. launched' \ inflight' = (launched \ inflight) \cup {j}
    BY <1>1, <1>2
  <2>2. {} \in SUBSET Contract!Queued /\ {} = {} \cup {}
    OBVIOUS
  <2> QED
    BY <1>1, <1>2, <2>1, <2>2 DEF Contract!Settle
<1> QED
  BY <1>2, <1>4, <1>6, <1>7, <1>8, <1>9 DEF Keeps, IInv, Contract!CNext

(* The closing sweep finds nothing to record.                              *)
LEMMA FinishStep ==
  ASSUME Limits, IInv, Finish
  PROVE  Keeps
<1>1. /\ UNCHANGED <<waits, launched, inflight, at>> /\ pc' = "done"
      /\ Jobs \ launched = {} /\ MarkDone(Jobs \ launched, Jobs \ launched)
      /\ launched = Jobs /\ inflight = {} /\ at \in 1..(N + 1)
      /\ released \in SUBSET Jobs /\ Typed /\ Counted
  BY DEF Finish, IInv, NoneLeft, Typed, Books
<1>2. MarkDone({}, {})
  BY <1>1
<1>3. Counted' /\ released' = released \cup {} /\ remaining' \in [Jobs -> Nat]
  BY ZenonT(60), <1>1, <1>2, DoneCounts
<1>4. errs' = errs /\ released' = released /\ state' = state
  BY SMTT(60), <1>1, <1>2, <1>3 DEF MarkDone, Typed
<1>5. Typed' /\ Books'
  BY <1>1, <1>3, <1>4 DEF IInv, Typed, Books
<1>6. Scanned' /\ NoneLeft' /\ Acyclic(waits)'
  BY ZenonT(60), <1>1 DEF IInv, Scanned, NoneLeft, Acyclic
<1>7. UNCHANGED Contract!cvars
  BY <1>1 DEF Contract!cvars
<1> QED
  BY <1>3, <1>5, <1>6, <1>7 DEF Keeps, IInv

-----------------------------------------------------------------------------
(* Every step of the executor keeps the invariant and is a step of the     *)
(* contract or changes nothing it sees.                                    *)
LEMMA ExecutorStep ==
  ASSUME Limits, IInv, [Next]_vars
  PROVE  Keeps
<1>1. CASE UNCHANGED vars
  <2>1. UNCHANGED <<waits, books, launched, inflight, pc, at>>
    BY <1>1 DEF vars
  <2>2. Scanned' /\ NoneLeft' /\ pc' \in {"planned", "scan", "wait", "sweep", "done"}
        /\ at' \in 1..(N + 1)
    BY SMTT(60), <2>1 DEF IInv, Typed, Scanned, Ready, NoneLeft, books
  <2> QED
    BY <2>1, <2>2, QuietStep
<1>2. CASE Next
  BY SMTT(60), <1>2, ExecuteStep, ScanStep, ScanDoneStep, ReturnStep, ReceiveStep,
     FinishStep DEF Next
<1> QED
  BY <1>1, <1>2

(* The inductive invariant holds throughout.                               *)
LEMMA ExecutorInvariant ==
  ASSUME Limits
  PROVE  Spec => []IInv
<1>1. Init => IInv
  BY InitIInv
<1>2. IInv /\ [Next]_vars => IInv'
  BY ExecutorStep DEF Keeps
<1> QED
  BY <1>1, <1>2, PTL DEF Spec

(* For every acyclic plan and positive worker limit the loop of            *)
(* ExecuteStopWithLimit ends with every member called and returned: its    *)
(* closing sweep never has a unit to report as not stopped.                *)
THEOREM StopForgetsNothing ==
  ASSUME Limits
  PROVE  Spec => []NoneLeft
<1>1. IInv => NoneLeft
  BY DEF IInv
<1> QED
  BY <1>1, ExecutorInvariant, PTL

(* A stop transaction that has ended leaves every member recorded          *)
(* inactive, whichever of the adapter calls failed.                        *)
THEOREM StopLeavesInactive ==
  ASSUME Limits
  PROVE  Spec => [](pc = "done" => \A j \in Jobs : state[j] = "inactive")
<1>1. IInv => (pc = "done" => \A j \in Jobs : state[j] = "inactive")
  BY DEF IInv, NoneLeft, Books
<1> QED
  BY <1>1, ExecutorInvariant, PTL

(* The stop executor implements the contract of a transaction: for every   *)
(* plan each member is stopped at most once, and only after every unit     *)
(* that must be down before it has been stopped or has failed to stop.     *)
THEOREM StopImplements ==
  ASSUME Limits
  PROVE  Spec => StopContractSpec
<1>1. Init => Contract!CInit
  BY DEF Init, Planned, Contract!CInit
<1>2. IInv /\ [Next]_vars => [Contract!CNext]_(Contract!cvars)
  BY ExecutorStep DEF Keeps
<1> QED
  BY <1>1, <1>2, ExecutorInvariant, PTL DEF Spec, StopContractSpec, Contract!CSpec
=============================================================================
