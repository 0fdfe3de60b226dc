---------------------------- MODULE OutboxProofs ----------------------------
(* Theorems about Outbox, for any number of events, rules, threads and runs. *)
EXTENDS Outbox, TLAPS

-----------------------------------------------------------------------------
(* Removing rows keeps their and the log's types. *)
LEMMA RemoveRowsType ==
  ASSUME NEW S, RemoveRows(S), TypeOK
  PROVE  /\ row' \in [Rows -> RowType]
         /\ log' \in [Rows -> Seq([sent : Nat, result : Results])]
  <1>1. GoneRow \in RowType
    BY DEF GoneRow, NoRow, RowType
  <1>2. <<>> \in Seq([sent : Nat, result : Results])
    OBVIOUS
  <1>3. QED
    BY <1>1, <1>2 DEF RemoveRows, TypeOK

(* An idle thread is a thread. *)
LEMMA IdleWorkerType == IdleWorker \in WorkerType /\ IdleWorker.pc = "idle"
  BY DEF IdleWorker, WorkerType, Results

(* Whatever a result makes of a row is a row. *)
LEMMA AppliedType ==
  ASSUME NEW old \in RowType, NEW res, NEW new \in Applied(old, res), now \in Nat
  PROVE  new \in RowType
  <1>1. \A s \in Unfinished \cup Finished, t \in Nat : Attempted(old, s, t) \in RowType
    BY DEF Attempted, RowType
  <1>2. \A d \in RetryDelays : now + d \in Nat
    BY LimitAssumption
  <1>3. QED
    BY <1>1, <1>2 DEF Applied, Unfinished, Finished

(* A thread that gets a row is a thread. *)
LEMMA AssignedType ==
  ASSUME NEW r \in Rows, NEW t \in Nat, NEW n \in Nat
  PROVE  /\ Assigned(r, t, n) \in WorkerType
         /\ Assigned(r, t, n).pc = "assigned" /\ Assigned(r, t, n).row = r
  BY DEF Assigned, WorkerType

(* Writing a lease keeps the rows' type. *)
LEMMA LeasedType ==
  ASSUME TypeOK, NEW r, NEW t \in Nat
  PROVE  [row EXCEPT ![r].lease = t] \in [Rows -> RowType]
  <1>1. \A q \in RowType : [q EXCEPT !.lease = t] \in RowType
    BY DEF RowType
  <1>2. [row EXCEPT ![r].lease = t]
          = [q \in Rows |-> IF q = r THEN [row[q] EXCEPT !.lease = t] ELSE row[q]]
    BY DEF TypeOK
  <1>3. QED
    BY <1>1, <1>2 DEF TypeOK

(* A crash of any set of threads keeps the type. *)
LEMMA ResetType ==
  ASSUME TypeOK, NEW D, worker' = [w \in Workers |-> IF w \in D THEN IdleWorker
                                                              ELSE worker[w]]
  PROVE  /\ worker' \in [Workers -> WorkerType]
         /\ \A w \in Workers : /\ worker'[w].pc # "idle" => worker'[w].row \in Rows
                               /\ worker'[w].pc = "applying" => worker'[w].result # "none"
  <1>1. \A w \in Workers : worker'[w] = IdleWorker \/ worker'[w] = worker[w]
    OBVIOUS
  <1>2. QED
    BY <1>1, IdleWorkerType DEF TypeOK

(* Every step keeps the types. *)
LEMMA TypeStep ==
  ASSUME TypeOK, [Next]_vars
  PROVE  TypeOK'
  <1>0. /\ IdleWorker \in WorkerType /\ IdleWorker.pc = "idle"
        /\ now \in Nat /\ MaxCrashes \in Nat /\ Lease \in Nat
        /\ IdleRun \in RunType
    BY IdleWorkerType, LimitAssumption DEF TypeOK, IdleRun, RunType
  <1>1. ASSUME NEW e \in Events, Emit(e) PROVE TypeOK'
    <2>1. NewRow \in RowType
      BY DEF NewRow, NoRow, RowType, Unfinished
    <2>2. queue' \subseteq Rows
      BY <1>1 DEF Emit, TypeOK, Rows
    <2>3. QED
      BY <1>1, <2>1, <2>2 DEF Emit, TypeOK
  <1>2. ASSUME NEW u \in Rules, NEW s \in {"enabled", "disabled"}, SetEnabled(u, s)
        PROVE TypeOK'
    BY <1>2 DEF SetEnabled, TypeOK
  <1>3. ASSUME NEW u \in Rules, DeleteRule(u) PROVE TypeOK'
    BY <1>3, RemoveRowsType DEF DeleteRule, TypeOK
  <1>4. CASE DeleteCompanyRows
    BY <1>4, RemoveRowsType DEF DeleteCompanyRows, TypeOK
  <1>5. ASSUME NEW S \in SUBSET Rows, PurgeSelect(S) PROVE TypeOK'
    BY <1>5 DEF PurgeSelect, TypeOK
  <1>6. CASE PurgeDelete
    BY <1>6, RemoveRowsType DEF PurgeDelete, TypeOK
  <1>7. ASSUME NEW r \in Rows, Requeue(r) PROVE TypeOK'
    <2>1. Requeued(row[r]) \in RowType
      BY DEF Requeued, TypeOK, RowType, Unfinished
    <2>2. QED
      BY <1>7, <2>1 DEF Requeue, TypeOK
  <1>8. ASSUME NEW w \in Dispatchers, NEW r \in Rows, PickUp(w, r) PROVE TypeOK'
    <2> DEFINE new == Assigned(r, 0, 0)
    <2>1. new \in WorkerType /\ new.pc = "assigned" /\ new.row = r
      BY AssignedType
    <2>2. /\ worker' = [worker EXCEPT ![w] = new]
          /\ queue' \subseteq Rows
          /\ UNCHANGED <<now, rule, row, log, receipt, run, purge, crashes>>
      BY <1>8 DEF PickUp, TypeOK
    <2> HIDE DEF new
    <2>3. QED
      BY <2>1, <2>2 DEF TypeOK
  <1>9. ASSUME NEW w \in Workers, Begin(w) PROVE TypeOK'
    <2>1. CASE BeginNothing(w)
      BY <1>0, <2>1 DEF BeginNothing, TypeOK
    <2>2. CASE BeginTerminal(w)
      <3>1. row[worker[w].row].attempts \in Nat
        BY <2>2 DEF BeginTerminal, TypeOK, RowType
      <3>2. worker' \in [Workers -> WorkerType]
        <4>1. /\ worker[w] \in WorkerType /\ "applying" \in {"idle", "assigned", "posting", "applying"}
              /\ "terminal" \in Results
          BY DEF TypeOK, Results
        <4>2. worker' = [worker EXCEPT ![w].pc = "applying", ![w].result = "terminal",
                                       ![w].seen = row[worker[w].row].attempts]
          BY <2>2 DEF BeginTerminal
        <4>3. QED
          BY <3>1, <4>1, <4>2 DEF TypeOK, WorkerType
      <3>3. \A v \in Workers : v # w => worker'[v] = worker[v]
        BY <2>2 DEF BeginTerminal, TypeOK
      <3>4. /\ worker'[w].row = worker[w].row /\ worker'[w].result = "terminal"
            /\ worker[w].row \in Rows
        BY <2>2 DEF BeginTerminal, TypeOK, WorkerType
      <3>5. QED
        BY <2>2, <3>2, <3>3, <3>4 DEF BeginTerminal, TypeOK
    <2>3. CASE BeginPost(w)
      <3>1. row[worker[w].row].attempts \in Nat /\ worker[w].row \in Rows
        BY <2>3 DEF BeginPost, TypeOK, RowType
      <3>2. worker' \in [Workers -> WorkerType]
        <4>1. /\ worker[w] \in WorkerType
              /\ "posting" \in {"idle", "assigned", "posting", "applying"}
          BY DEF TypeOK
        <4>2. worker' = [worker EXCEPT ![w].pc = "posting",
                                       ![w].seen = row[worker[w].row].attempts]
          BY <2>3 DEF BeginPost
        <4>3. QED
          BY <3>1, <4>1, <4>2 DEF TypeOK, WorkerType
      <3>3. \A v \in Workers : v # w => worker'[v] = worker[v]
        BY <2>3 DEF BeginPost, TypeOK
      <3>4. worker'[w].row = worker[w].row /\ worker'[w].pc = "posting"
        BY <2>3 DEF BeginPost, TypeOK, WorkerType
      <3>5. UNCHANGED <<now, rule, row, log, receipt, queue, run, purge, crashes>>
        BY <2>3 DEF BeginPost
      <3>6. QED
        BY <3>1, <3>2, <3>3, <3>4, <3>5 DEF TypeOK
    <2>4. QED
      BY <1>9, <2>1, <2>2, <2>3 DEF Begin
  <1>10. ASSUME NEW w \in Workers, Post(w) PROVE TypeOK'
    <2>1. PICK o \in Outcomes(worker[w].row) :
            /\ worker' = [worker EXCEPT ![w].pc = "applying", ![w].result = o[1]]
            /\ receipt' = [receipt EXCEPT ![worker[w].row] = @ \cup o[2]]
      BY <1>10 DEF Post
    <2>2. o[1] \in Results /\ o[1] # "none" /\ o[2] \in SUBSET Receipts
      BY DEF Outcomes, Answered, WebhookAnswered, EmailAnswered, Broken, Results, Receipts
    <2>3. /\ worker' \in [Workers -> WorkerType]
          /\ worker'[w].row = worker[w].row /\ worker'[w].result = o[1]
          /\ \A v \in Workers : v # w => worker'[v] = worker[v]
      <3>1. worker[w] \in WorkerType
        BY DEF TypeOK
      <3> DEFINE new == [worker[w] EXCEPT !.pc = "applying", !.result = o[1]]
      <3>2. new \in WorkerType /\ new.row = worker[w].row /\ new.result = o[1]
        BY <2>2, <3>1 DEF WorkerType
      <3>3. worker' = [worker EXCEPT ![w] = new]
        BY <2>1
      <3> HIDE DEF new
      <3>4. QED
        BY <3>2, <3>3 DEF TypeOK
    <2>4. receipt' \in [Rows -> SUBSET Receipts]
      BY <2>1, <2>2 DEF TypeOK
    <2>5. worker[w].row \in Rows
      BY <1>10 DEF Post, TypeOK
    <2>6. QED
      BY <1>10, <2>2, <2>3, <2>4, <2>5 DEF Post, TypeOK
  <1>11. ASSUME NEW w \in Workers, Settle(w) PROVE TypeOK'
    <2>1. CASE ApplyResult(w)
      <3> DEFINE r == worker[w].row
      <3>1. r \in Rows /\ worker[w].seen + 1 \in Nat /\ worker[w].result \in Results
        BY <2>1 DEF ApplyResult, TypeOK, WorkerType
      <3>2. PICK new \in Applied(row[r], worker[w].result) : row' = [row EXCEPT ![r] = new]
        BY <2>1 DEF ApplyResult
      <3>3. new \in RowType
        BY <3>1, <3>2, <1>0, AppliedType DEF TypeOK
      <3>4. log' \in [Rows -> Seq([sent : Nat, result : Results])]
        <4>1. \A x \in Seq([sent : Nat, result : Results]) :
                Append(x, [sent |-> worker[w].seen + 1, result |-> worker[w].result])
                  \in Seq([sent : Nat, result : Results])
          BY <3>1
        <4>2. QED
          BY <2>1, <3>1, <4>1 DEF ApplyResult, TypeOK
      <3>5. QED
        BY <1>0, <2>1, <3>1, <3>2, <3>3, <3>4 DEF ApplyResult, TypeOK
    <2>2. CASE DiscardResult(w)
      BY <1>0, <2>2 DEF DiscardResult, TypeOK
    <2>3. QED
      BY <1>11, <2>1, <2>2 DEF Settle
  <1>12. ASSUME NEW j \in Runs, StartRun(j) PROVE TypeOK'
    <2>1. \A d \in DryRunModes :
            [pc |-> "running", now |-> now, dry |-> d, held |-> <<>>] \in RunType
      BY <1>0, ThreadAssumption DEF RunType
    <2>2. run' \in [Runs -> RunType]
      BY <1>12, <2>1 DEF StartRun, TypeOK
    <2>3. QED
      BY <1>12, <2>2 DEF StartRun, TypeOK
  <1>13. ASSUME NEW j \in Runs, NEW w \in RetryThreads, NEW r \in Rows, Claim(j, w, r)
         PROVE TypeOK'
    <2>0. run[j].now \in Nat /\ row[r].attempts \in Nat
      <3>1. run[j] \in RunType /\ row[r] \in RowType
        BY DEF TypeOK
      <3>2. QED
        BY <3>1 DEF RunType, RowType
    <2>1. run[j].now + Lease \in Nat /\ row[r].attempts \in Nat /\ w \in Workers
      BY <1>0, <2>0 DEF Workers
    <2>2. row' \in [Rows -> RowType]
      <3>1. row' = [row EXCEPT ![r].lease = run[j].now + Lease]
        BY <1>13 DEF Claim
      <3>2. QED
        BY <2>1, <3>1, LeasedType
    <2>3. QED
      <3> DEFINE new == Assigned(r, run[j].now + Lease, row[r].attempts)
      <3>1. new \in WorkerType /\ new.pc = "assigned" /\ new.row = r
        BY <2>1, AssignedType
      <3>2. /\ worker' = [worker EXCEPT ![w] = new]
            /\ UNCHANGED <<now, rule, log, receipt, queue, run, purge, crashes>>
        BY <1>13 DEF Claim
      <3> HIDE DEF new
      <3>3. QED
        BY <2>1, <2>2, <3>1, <3>2 DEF TypeOK
  <1>14. ASSUME NEW j \in Runs, NEW r \in Rows, DryClaim(j, r) PROVE TypeOK'
    <2>1. run[j].now + Lease \in Nat
      <3>1. run[j] \in RunType
        BY DEF TypeOK
      <3>2. QED
        BY <1>0, <3>1 DEF RunType
    <2>2. row' \in [Rows -> RowType]
      <3>1. row' = [row EXCEPT ![r].lease = run[j].now + Lease]
        BY <1>14 DEF DryClaim
      <3>2. QED
        BY <2>1, <3>1, LeasedType
    <2>3. run' \in [Runs -> RunType]
      <3>1. run' = [run EXCEPT ![j].held = r]
        BY <1>14 DEF DryClaim
      <3>2. QED
        BY <3>1 DEF TypeOK, RunType
    <2>4. UNCHANGED <<now, rule, log, receipt, queue, worker, purge, crashes>>
      BY <1>14 DEF DryClaim
    <2>5. QED
      BY <2>2, <2>3, <2>4 DEF TypeOK
  <1>15. ASSUME NEW j \in Runs, DryRelease(j) PROVE TypeOK'
    <2>1. row' \in [Rows -> RowType]
      <3>1. row' = [row EXCEPT ![run[j].held].lease = 0] \/ row' = row
        BY <1>15 DEF DryRelease
      <3>2. [row EXCEPT ![run[j].held].lease = 0] \in [Rows -> RowType]
        BY LeasedType
      <3>3. QED
        BY <3>1, <3>2 DEF TypeOK
    <2>2. run' \in [Runs -> RunType]
      <3>1. run' = [run EXCEPT ![j].held = <<>>]
        BY <1>15 DEF DryRelease
      <3>2. QED
        BY <3>1 DEF TypeOK, RunType
    <2>3. UNCHANGED <<now, rule, log, receipt, queue, worker, purge, crashes>>
      BY <1>15 DEF DryRelease
    <2>4. QED
      BY <2>1, <2>2, <2>3 DEF TypeOK
  <1>16. ASSUME NEW j \in Runs, StopRun(j) \/ EndRun(j) PROVE TypeOK'
    <2>1. [IdleRun EXCEPT !.pc = "draining"] \in RunType
      BY DEF IdleRun, RunType
    <2>2. QED
      BY <1>0, <1>16, <2>1 DEF StopRun, EndRun, TypeOK
  <1>17. CASE CrashWeb
    <2>1. crashes' \in 0 .. MaxCrashes
      BY <1>0, <1>17 DEF CrashWeb, TypeOK
    <2>2. QED
      BY <1>17, <2>1, ResetType DEF CrashWeb, TypeOK
  <1>18. ASSUME NEW j \in Runs, CrashRun(j) PROVE TypeOK'
    <2>1. crashes' \in 0 .. MaxCrashes
      BY <1>0, <1>18 DEF CrashRun, TypeOK
    <2>2. worker' = [w \in Workers |->
                       IF w \in {v \in RetryThreads : RunOf[v] = j} THEN IdleWorker
                                                                  ELSE worker[w]]
      BY <1>18 DEF CrashRun
    <2>3. QED
      BY <1>0, <1>18, <2>1, <2>2, ResetType DEF CrashRun, TypeOK
  <1>19. CASE Tick
    <2>1. /\ now' \in Nat
          /\ UNCHANGED <<rule, row, log, receipt, queue, worker, run, purge, crashes>>
      BY <1>0, <1>19 DEF Tick
    <2>2. QED
      BY <2>1 DEF TypeOK
  <1>20. CASE UNCHANGED vars
    BY <1>20 DEF vars, TypeOK
  <1>21. QED
    BY <1>1, <1>2, <1>3, <1>4, <1>5, <1>6, <1>7, <1>8, <1>9, <1>10, <1>11, <1>12,
       <1>13, <1>14, <1>15, <1>16, <1>17, <1>18, <1>19, <1>20
       DEF Next, Administer, Deliver

(* Every variable keeps its type (all actions of Next). *)
THEOREM TypeCorrect == Spec => []TypeOK
  <1>1. Init => TypeOK
    <2> SUFFICES ASSUME Init PROVE TypeOK
      OBVIOUS
    <2>1. NoRow \in RowType
      BY DEF NoRow, RowType
    <2>2. IdleRun \in RunType
      BY DEF IdleRun, RunType
    <2>3. crashes \in 0 .. MaxCrashes
      BY LimitAssumption DEF Init
    <2>4. row \in [Rows -> RowType] /\ run \in [Runs -> RunType]
      BY <2>1, <2>2 DEF Init
    <2>5. worker \in [Workers -> WorkerType] /\ \A w \in Workers : worker[w].pc = "idle"
      BY IdleWorkerType DEF Init
    <2>6. log \in [Rows -> Seq([sent : Nat, result : Results])]
      BY DEF Init
    <2>7. QED
      BY <2>3, <2>4, <2>5, <2>6 DEF Init, TypeOK
  <1>2. TypeOK /\ [Next]_vars => TypeOK'
    BY TypeStep
  <1>3. QED
    BY <1>1, <1>2, PTL DEF Spec

-----------------------------------------------------------------------------
(* The delivery invariant.                                                 *)

(* A step that leaves status, attempt_count, log and answers alone, and in  *)
(* which a thread at most becomes idle or gets a row, keeps it.            *)
LEMMA QuietStep ==
  ASSUME TypeOK, DeliveryInv,
         \A r \in Rows : /\ row'[r].status = row[r].status
                         /\ row'[r].attempts = row[r].attempts
                         /\ row'[r].requeues = row[r].requeues
                         /\ row[r].status = "none" => row'[r] = row[r],
         log' = log, receipt' = receipt,
         \A w \in Workers : worker'[w] = worker[w] \/ worker'[w].pc \in {"idle", "assigned"}
  PROVE  DeliveryInv'
  <1>1. AttemptLogExact'
    BY DEF DeliveryInv, AttemptLogExact
  <1>2. AttemptBudget'
    BY DEF DeliveryInv, AttemptBudget, Open
  <1>3. DeliveredWasAnswered'
    BY DEF DeliveryInv, DeliveredWasAnswered
  <1>4. SnapshotInv'
    BY SMTT(60) DEF DeliveryInv, SnapshotInv, TypeOK, Exists, Open, Current
  <1>5. FreshRows'
    BY DEF DeliveryInv, FreshRows
  <1>6. QED
    BY <1>1, <1>2, <1>3, <1>4, <1>5 DEF DeliveryInv

(* Deleting rows keeps it: a deleted row starts over with an empty log. *)
LEMMA RemoveStep ==
  ASSUME TypeOK, DeliveryInv, NEW S, RemoveRows(S),
         UNCHANGED <<receipt, worker>>
  PROVE  DeliveryInv'
  <1>1. \A r \in Rows : \/ row'[r] = row[r] /\ log'[r] = log[r]
                        \/ row'[r] = GoneRow /\ log'[r] = <<>>
    BY DEF RemoveRows
  <1>2. /\ GoneRow.status = "gone" /\ GoneRow.attempts = 0 /\ GoneRow.requeues = 0
        /\ GoneRow.status \notin Unfinished \cup Finished
    BY DEF GoneRow, NoRow, Unfinished, Finished
  <1>3. AttemptLogExact'
    BY <1>1, <1>2 DEF DeliveryInv, AttemptLogExact
  <1>4. AttemptBudget'
    BY <1>1, <1>2, LimitAssumption DEF DeliveryInv, AttemptBudget, Open
  <1>5. DeliveredWasAnswered'
    BY <1>1, <1>2 DEF DeliveryInv, DeliveredWasAnswered
  <1>6. SnapshotInv'
    BY <1>1, <1>2 DEF DeliveryInv, SnapshotInv, TypeOK, Exists, Open, Current
  <1>7. FreshRows'
    BY <1>1, <1>2 DEF DeliveryInv, FreshRows
  <1>8. QED
    BY <1>3, <1>4, <1>5, <1>6, <1>7 DEF DeliveryInv

(* What a recorded result does to the row. *)
LEMMA AppliedEffect ==
  ASSUME NEW old \in RowType, NEW res \in Results, NEW new \in Applied(old, res)
  PROVE  /\ new.attempts = old.attempts + 1 /\ new.requeues = old.requeues
         /\ new.status \in {"delivered", "dead", "failed"}
         /\ new.status = "delivered" => res = "ok"
         /\ new.status = "failed" => new.attempts < MaxAttempts
  BY LimitAssumption DEF Applied, Attempted, RowType, Results

(* Emit creates rows that nobody works on yet. *)
LEMMA EmitStep ==
  ASSUME TypeOK, DeliveryInv, NEW e \in Events, Emit(e)
  PROVE  DeliveryInv'
  <1>1. \A r \in Rows : \/ row'[r] = row[r]
                        \/ row'[r] = NewRow /\ row[r].status = "none"
    BY DEF Emit
  <1>2. /\ NewRow.status = "pending" /\ NewRow.attempts = 0 /\ NewRow.requeues = 0
    BY DEF NewRow, NoRow
  <1>3. log' = log /\ receipt' = receipt /\ worker' = worker
    BY DEF Emit
  <1>4. \A r \in Rows : row[r].status = "none" => row[r].attempts = 0
    BY DEF DeliveryInv, FreshRows, NoRow
  <1>5. AttemptLogExact'
    BY <1>1, <1>2, <1>3, <1>4 DEF DeliveryInv, AttemptLogExact
  <1>6. AttemptBudget'
    BY <1>1, <1>2, LimitAssumption DEF DeliveryInv, AttemptBudget, Open
  <1>7. DeliveredWasAnswered'
    BY <1>1, <1>2, <1>3 DEF DeliveryInv, DeliveredWasAnswered
  <1>8. SnapshotInv'
    <2>1. \A w \in Workers : worker[w].pc \in {"posting", "applying"} =>
                             row'[worker[w].row] = row[worker[w].row]
      BY <1>1 DEF DeliveryInv, SnapshotInv, TypeOK
    <2>2. QED
      BY <1>3, <2>1 DEF DeliveryInv, SnapshotInv, TypeOK, Exists, Open, Current
  <1>9. FreshRows'
    BY <1>1, <1>2 DEF DeliveryInv, FreshRows
  <1>10. QED
    BY <1>5, <1>6, <1>7, <1>8, <1>9 DEF DeliveryInv

(* A requeue keeps attempt_count and buys one more attempt. *)
LEMMA RequeueStep ==
  ASSUME TypeOK, DeliveryInv, NEW q \in Rows, Requeue(q)
  PROVE  DeliveryInv'
  <1>1. /\ \A r \in Rows : r # q => row'[r] = row[r]
        /\ row'[q].status = "pending" /\ row'[q].attempts = row[q].attempts
        /\ row'[q].requeues = row[q].requeues + 1
        /\ row[q].requeues \in Nat /\ row[q].attempts \in Nat
        /\ Exists(q)
        /\ UNCHANGED <<log, receipt, worker>>
    BY DEF Requeue, Requeued, TypeOK, RowType
  <1>2. AttemptLogExact'
    BY <1>1 DEF DeliveryInv, AttemptLogExact
  <1>3. AttemptBudget'
    BY <1>1, LimitAssumption DEF DeliveryInv, AttemptBudget, Open
  <1>4. DeliveredWasAnswered'
    BY <1>1 DEF DeliveryInv, DeliveredWasAnswered
  <1>5. SnapshotInv'
    BY <1>1 DEF DeliveryInv, SnapshotInv, TypeOK, Exists, Open, Current, Unfinished
  <1>6. FreshRows'
    BY <1>1 DEF DeliveryInv, FreshRows
  <1>7. QED
    BY <1>2, <1>3, <1>4, <1>5, <1>6 DEF DeliveryInv

(* The first transaction takes a snapshot of an open row. *)
LEMMA BeginStep ==
  ASSUME TypeOK, DeliveryInv, NEW w \in Workers, BeginTerminal(w) \/ BeginPost(w)
  PROVE  DeliveryInv'
  <1>1. /\ worker'[w].row = worker[w].row
        /\ worker'[w].seen = row[worker[w].row].attempts
        /\ worker'[w].pc = "applying" => worker'[w].result = "terminal"
        /\ \A v \in Workers : v # w => worker'[v] = worker[v]
        /\ Open(worker[w].row) /\ worker[w].row \in Rows
        /\ UNCHANGED <<row, log, receipt>>
    BY DEF BeginTerminal, BeginPost, TypeOK, WorkerType
  <1>2. SnapshotInv'
    <2> SUFFICES ASSUME NEW v \in Workers, worker'[v].pc \in {"posting", "applying"}
                 PROVE  LET r == worker'[v].row IN
                          /\ row[r].status # "none"
                          /\ Exists(r) => worker'[v].seen <= row[r].attempts
                          /\ Exists(r) /\ row[r].attempts = worker'[v].seen => Open(r)
                          /\ worker'[v].pc = "applying" /\ worker'[v].result = "ok"
                               => Credits(receipt[r], r)
      BY <1>1 DEF SnapshotInv, Exists, Open, Current
    <2>1. CASE v = w
      BY <1>1, <2>1 DEF TypeOK, RowType, Open, Unfinished
    <2>2. CASE v # w
      BY <1>1, <2>2 DEF DeliveryInv, SnapshotInv, Current
    <2>3. QED
      BY <2>1, <2>2
  <1>3. AttemptLogExact' /\ AttemptBudget' /\ DeliveredWasAnswered' /\ FreshRows'
    BY <1>1 DEF DeliveryInv, AttemptLogExact, AttemptBudget, DeliveredWasAnswered,
                FreshRows, Open
  <1>4. QED
    BY <1>2, <1>3 DEF DeliveryInv

(* A POST only adds to what the POSTs of its row came to. *)
LEMMA PostStep ==
  ASSUME TypeOK, DeliveryInv, NEW w \in Workers, Post(w)
  PROVE  DeliveryInv'
  <1>1. PICK o \in Outcomes(worker[w].row) :
          /\ worker' = [worker EXCEPT ![w].pc = "applying", ![w].result = o[1]]
          /\ receipt' = [receipt EXCEPT ![worker[w].row] = @ \cup o[2]]
    BY DEF Post
  <1>2. o[1] = "ok" => Credits(o[2], worker[w].row)
    BY DEF Outcomes, Answered, WebhookAnswered, EmailAnswered, Broken, Credits
  <1>3. worker[w].row \in Rows /\ worker[w].pc = "posting" /\ UNCHANGED <<row, log>>
    BY DEF Post, TypeOK
  <1>4. /\ worker'[w].row = worker[w].row /\ worker'[w].seen = worker[w].seen
        /\ worker'[w].result = o[1]
        /\ \A v \in Workers : v # w => worker'[v] = worker[v]
    BY <1>1 DEF TypeOK, WorkerType
  <1>5. /\ \A r \in Rows : Credits(receipt[r], r) => Credits(receipt'[r], r)
        /\ o[1] = "ok" => Credits(receipt'[worker[w].row], worker[w].row)
    <2>1. /\ \A r \in Rows : receipt[r] \subseteq receipt'[r]
          /\ o[2] \subseteq receipt'[worker[w].row]
      BY <1>1, <1>3 DEF TypeOK
    <2>2. QED
      BY <1>2, <2>1 DEF Credits
  <1>6. SnapshotInv'
    <2> SUFFICES ASSUME NEW v \in Workers, worker'[v].pc \in {"posting", "applying"}
                 PROVE  LET r == worker'[v].row IN
                          /\ row[r].status # "none"
                          /\ Exists(r) => worker'[v].seen <= row[r].attempts
                          /\ Exists(r) /\ row[r].attempts = worker'[v].seen => Open(r)
                          /\ worker'[v].pc = "applying" /\ worker'[v].result = "ok"
                               => Credits(receipt'[r], r)
      BY <1>3 DEF SnapshotInv, Exists, Open, Current
    <2>1. CASE v = w
      BY <1>3, <1>4, <1>5, <2>1 DEF DeliveryInv, SnapshotInv, Current
    <2>2. CASE v # w
      <3>1. worker'[v] = worker[v] /\ worker[v].row \in Rows
        BY <1>4, <2>2 DEF TypeOK
      <3>2. QED
        BY <1>5, <3>1 DEF DeliveryInv, SnapshotInv, Current, TypeOK
    <2>3. QED
      BY <2>1, <2>2
  <1>7. DeliveredWasAnswered'
    BY <1>3, <1>5 DEF DeliveryInv, DeliveredWasAnswered, TypeOK
  <1>8. AttemptLogExact' /\ AttemptBudget' /\ FreshRows'
    BY <1>3 DEF DeliveryInv, AttemptLogExact, AttemptBudget, FreshRows, Open
  <1>9. QED
    BY <1>6, <1>7, <1>8 DEF DeliveryInv

(* A result is recorded only on an open row whose count is the snapshot's,  *)
(* so it becomes the next attempt; every other snapshot of it is now old.  *)
LEMMA ApplyStep ==
  ASSUME TypeOK, DeliveryInv, NEW w \in Workers, ApplyResult(w)
  PROVE  DeliveryInv'
  <1> DEFINE q == worker[w].row
             entry == [sent |-> worker[w].seen + 1, result |-> worker[w].result]
  <1>1. /\ q \in Rows /\ worker[w].result \in Results /\ row[q] \in RowType
        /\ worker[w].pc = "applying" /\ Exists(q)
        /\ worker[w].seen = row[q].attempts
        /\ worker' = [worker EXCEPT ![w] = IdleWorker] /\ receipt' = receipt
    BY DEF ApplyResult, TypeOK, WorkerType, Current
  <1>2. PICK new \in Applied(row[q], worker[w].result) : row' = [row EXCEPT ![q] = new]
    BY DEF ApplyResult
  <1>3. /\ new.attempts = row[q].attempts + 1 /\ new.requeues = row[q].requeues
        /\ new.status \in {"delivered", "dead", "failed"}
        /\ new.status = "delivered" => worker[w].result = "ok"
        /\ new.status = "failed" => new.attempts < MaxAttempts
    BY <1>1, AppliedEffect
  <1>4. /\ row'[q] = new
        /\ \A r \in Rows : r # q => row'[r] = row[r]
    BY <1>1, <1>2 DEF TypeOK
  <1>5. Open(q) /\ (worker[w].result = "ok" => Credits(receipt[q], q))
    BY <1>1 DEF DeliveryInv, SnapshotInv, Current
  <1>6. AttemptLogExact'
    <2>1. log[q] \in Seq([sent : Nat, result : Results]) /\ entry \in [sent : Nat, result : Results]
      <3>1. worker[w].seen + 1 \in Nat
        BY DEF TypeOK, WorkerType
      <3>2. log \in [Rows -> Seq([sent : Nat, result : Results])]
        BY DEF TypeOK
      <3>3. QED
        BY <1>1, <3>1, <3>2
    <2>2. /\ Len(Append(log[q], entry)) = Len(log[q]) + 1
          /\ \A i \in 1 .. Len(log[q]) : Append(log[q], entry)[i] = log[q][i]
          /\ Append(log[q], entry)[Len(log[q]) + 1] = entry
      BY <2>1
    <2>3. /\ log'[q] = Append(log[q], entry)
          /\ \A r \in Rows : r # q => log'[r] = log[r]
      BY <1>1 DEF ApplyResult, TypeOK
    <2>4. Len(log[q]) = row[q].attempts /\ \A i \in 1 .. Len(log[q]) : log[q][i].sent = i
      BY <1>1 DEF DeliveryInv, AttemptLogExact
    <2>5. entry.sent = Len(log[q]) + 1
      BY <1>1, <2>4
    <2> HIDE DEF entry, q
    <2>6. Len(log'[q]) = row'[q].attempts /\ \A i \in 1 .. Len(log'[q]) : log'[q][i].sent = i
      <3>1. Len(log'[q]) = row'[q].attempts /\ Len(log[q]) \in Nat
        BY <1>3, <1>4, <2>1, <2>2, <2>3, <2>4
      <3>2. ASSUME NEW i \in 1 .. Len(log'[q]) PROVE log'[q][i].sent = i
        <4>1. i \in 1 .. Len(log[q]) \/ i = Len(log[q]) + 1
          BY <2>2, <2>3, <3>1
        <4>2. QED
          BY <2>2, <2>3, <2>4, <2>5, <4>1
      <3>3. QED
        BY <3>1, <3>2
    <2>7. QED
      BY <1>4, <2>3, <2>6 DEF DeliveryInv, AttemptLogExact
  <1>7. AttemptBudget'
    <2>1. /\ row[q].attempts \in Nat /\ row[q].requeues \in Nat
          /\ row[q].attempts < MaxAttempts + row[q].requeues
      BY <1>1, <1>5 DEF DeliveryInv, AttemptBudget, RowType
    <2>2. /\ new.attempts <= MaxAttempts + new.requeues
          /\ new.status \in Unfinished => new.attempts < MaxAttempts + new.requeues
      BY <1>3, <2>1, LimitAssumption DEF Unfinished
    <2>3. QED
      BY <1>3, <1>4, <2>2 DEF DeliveryInv, AttemptBudget, Open
  <1>8. DeliveredWasAnswered'
    BY <1>1, <1>3, <1>4, <1>5 DEF DeliveryInv, DeliveredWasAnswered
  <1>9. SnapshotInv'
    <2> SUFFICES ASSUME NEW v \in Workers, worker'[v].pc \in {"posting", "applying"}
                 PROVE  LET r == worker'[v].row IN
                          /\ row'[r].status # "none"
                          /\ row'[r].status \in Unfinished \cup Finished
                               => worker'[v].seen <= row'[r].attempts
                          /\ row'[r].attempts = worker'[v].seen
                               => row'[r].status \notin Finished
                          /\ worker'[v].pc = "applying" /\ worker'[v].result = "ok"
                               => Credits(receipt'[r], r)
      BY DEF SnapshotInv, Exists, Open, Current, Unfinished, Finished
    <2>1. v # w /\ worker'[v] = worker[v] /\ worker[v].row \in Rows
          /\ worker[v].seen \in Nat
      BY <1>1, IdleWorkerType DEF TypeOK, WorkerType
    <2>a. LET r == worker[v].row IN
            /\ row[r].status # "none"
            /\ row[r].status \in Unfinished \cup Finished => worker[v].seen <= row[r].attempts
            /\ row[r].attempts = worker[v].seen => row[r].status \notin Finished
            /\ worker[v].pc = "applying" /\ worker[v].result = "ok" => Credits(receipt[r], r)
      BY <2>1 DEF DeliveryInv, SnapshotInv, Exists, Open, Current, Unfinished, Finished
    <2>2. CASE worker[v].row = q
      <3>1. worker[v].seen <= row[q].attempts
        BY <1>1, <2>a, <2>2 DEF Exists
      <3>2. worker[v].seen < new.attempts
        BY <1>1, <1>3, <2>1, <3>1 DEF RowType
      <3>3. QED
        <4>1. new.attempts \in Nat
          BY <1>1, <1>3 DEF RowType
        <4>2. ~(worker[v].seen = new.attempts) /\ worker[v].seen <= new.attempts
          BY <2>1, <3>2, <4>1
        <4>3. /\ worker'[v].row = q /\ row'[q] = new /\ receipt' = receipt
              /\ worker'[v] = worker[v] /\ new.status # "none"
          BY <1>1, <1>3, <1>4, <2>1, <2>2
        <4> HIDE DEF q
        <4>4. QED
          BY <2>a, <2>2, <4>2, <4>3
    <2>3. CASE worker[v].row # q
      <3>1. row'[worker[v].row] = row[worker[v].row] /\ receipt' = receipt
        BY <1>1, <1>4, <2>1, <2>3
      <3>2. QED
        BY <2>a, <2>1, <3>1
    <2>4. QED
      BY <2>2, <2>3
  <1>10. FreshRows'
    BY <1>3, <1>4 DEF DeliveryInv, FreshRows
  <1>11. QED
    BY <1>6, <1>7, <1>8, <1>9, <1>10 DEF DeliveryInv

(* Nothing has happened in the beginning. *)
LEMMA InitDelivery == Init => DeliveryInv
  <1> SUFFICES ASSUME Init PROVE DeliveryInv
    OBVIOUS
  <1>1. \A r \in Rows : row[r] = NoRow /\ log[r] = <<>>
    BY DEF Init
  <1>2. \A w \in Workers : worker[w].pc = "idle"
    BY IdleWorkerType DEF Init
  <1>3. NoRow.status = "none" /\ NoRow.attempts = 0 /\ NoRow.requeues = 0
    BY DEF NoRow
  <1>4. FreshRows /\ SnapshotInv
    BY <1>1, <1>2 DEF FreshRows, SnapshotInv
  <1>5. AttemptLogExact
    BY <1>1, <1>3 DEF AttemptLogExact
  <1>6. AttemptBudget /\ DeliveredWasAnswered
    BY <1>1, <1>3, LimitAssumption DEF AttemptBudget, DeliveredWasAnswered, Open, Unfinished
  <1>7. QED
    BY <1>4, <1>5, <1>6 DEF DeliveryInv

(* The actions that hand rows to threads, end runs or let time pass.        *)
LEMMA QuietActions ==
  ASSUME TypeOK, DeliveryInv,
         \/ \E u \in Rules, s \in {"enabled", "disabled"} : SetEnabled(u, s)
         \/ \E S \in SUBSET Rows : PurgeSelect(S)
         \/ \E w \in Dispatchers, r \in Rows : PickUp(w, r)
         \/ \E w \in Workers : BeginNothing(w) \/ DiscardResult(w)
         \/ \E j \in Runs : StartRun(j) \/ StopRun(j) \/ EndRun(j) \/ CrashRun(j)
         \/ CrashWeb \/ Tick \/ UNCHANGED vars
  PROVE  DeliveryInv'
  <1> DEFINE Calm == \A w \in Workers :
                       worker'[w] = worker[w] \/ worker'[w].pc \in {"idle", "assigned"}
  <1>1. UNCHANGED <<row, log, receipt>>
    BY DEF SetEnabled, PurgeSelect, PickUp, BeginNothing, DiscardResult, StartRun, StopRun,
           EndRun, CrashRun, CrashWeb, Tick, vars
  <1>2. Calm
    <2>1. ASSUME NEW w \in Dispatchers, NEW r \in Rows, PickUp(w, r) PROVE Calm
      <3>1. Assigned(r, 0, 0).pc = "assigned"
        BY DEF Assigned
      <3>2. QED
        BY <2>1, <3>1 DEF PickUp, TypeOK
    <2>2. ASSUME NEW w \in Workers, BeginNothing(w) \/ DiscardResult(w) PROVE Calm
      BY <2>2, IdleWorkerType DEF BeginNothing, DiscardResult, TypeOK
    <2>3. ASSUME NEW j \in Runs, CrashRun(j) PROVE Calm
      BY <2>3, IdleWorkerType DEF CrashRun
    <2>4. CASE CrashWeb
      BY <2>4, IdleWorkerType DEF CrashWeb
    <2>5. CASE worker' = worker
      BY <2>5
    <2>6. QED
      BY <2>1, <2>2, <2>3, <2>4, <2>5
         DEF SetEnabled, PurgeSelect, StartRun, StopRun, EndRun, Tick, vars
  <1>3. QED
    BY <1>1, <1>2, QuietStep

(* The actions that only move a lease.  They act on rows that exist.        *)
LEMMA LeaseActions ==
  ASSUME TypeOK, DeliveryInv, NEW j \in Runs,
         \/ \E w \in RetryThreads, r \in Rows : Claim(j, w, r)
         \/ \E r \in Rows : DryClaim(j, r)
         \/ DryRelease(j)
  PROVE  DeliveryInv'
  <1> DEFINE Calm  == \A w \in Workers :
                        worker'[w] = worker[w] \/ worker'[w].pc \in {"idle", "assigned"}
             Keeps == \A r \in Rows : /\ row'[r].status = row[r].status
                                      /\ row'[r].attempts = row[r].attempts
                                      /\ row'[r].requeues = row[r].requeues
                                      /\ row[r].status = "none" => row'[r] = row[r]
  <1>1. UNCHANGED <<log, receipt>>
    BY DEF Claim, DryClaim, DryRelease
  <1>2. Calm
    <2>1. ASSUME NEW w \in RetryThreads, NEW r \in Rows, Claim(j, w, r) PROVE Calm
      <3>1. Assigned(r, run[j].now + Lease, row[r].attempts).pc = "assigned"
        BY DEF Assigned
      <3>2. QED
        BY <2>1, <3>1 DEF Claim, TypeOK
    <2>2. CASE worker' = worker
      BY <2>2
    <2>3. QED
      BY <2>1, <2>2 DEF DryClaim, DryRelease
  <1>3. ASSUME NEW q \in Rows, NEW t, row[q].status # "none",
               row' = [row EXCEPT ![q].lease = t]
        PROVE  \A r \in Rows : /\ row'[r].status = row[r].status
                               /\ row'[r].attempts = row[r].attempts
                               /\ row'[r].requeues = row[r].requeues
                               /\ row[r].status = "none" => row'[r] = row[r]
    BY <1>3 DEF TypeOK, RowType
  <1>4. Keeps
    <2>1. ASSUME NEW w \in RetryThreads, NEW r \in Rows, Claim(j, w, r) PROVE Keeps
      BY <2>1, <1>3 DEF Claim, Claimable, Open, Unfinished
    <2>2. ASSUME NEW r \in Rows, DryClaim(j, r) PROVE Keeps
      BY <2>2, <1>3 DEF DryClaim, Claimable, Open, Unfinished
    <2>3. CASE DryRelease(j)
      <3>1. run[j].held \in Rows
        BY <2>3 DEF DryRelease, TypeOK, RunType
      <3>2. CASE Exists(run[j].held)
        BY <2>3, <3>1, <3>2, <1>3 DEF DryRelease, Exists, Unfinished, Finished
      <3>3. CASE ~Exists(run[j].held)
        BY <2>3, <3>3 DEF DryRelease
      <3>4. QED
        BY <3>2, <3>3
    <2>4. QED
      BY <2>1, <2>2, <2>3
  <1>5. QED
    BY <1>1, <1>2, <1>4, QuietStep

(* Every step of the service preserves the delivery invariant.              *)
LEMMA DeliveryStep ==
  ASSUME TypeOK, DeliveryInv, [Next]_vars
  PROVE  DeliveryInv'
  <1>1. ASSUME NEW e \in Events, Emit(e) PROVE DeliveryInv'
    BY <1>1, EmitStep
  <1>2. CASE (\E u \in Rules : DeleteRule(u)) \/ DeleteCompanyRows \/ PurgeDelete
    BY <1>2, RemoveStep DEF DeleteRule, DeleteCompanyRows, PurgeDelete
  <1>3. ASSUME NEW r \in Rows, Requeue(r) PROVE DeliveryInv'
    BY <1>3, RequeueStep
  <1>4. ASSUME NEW w \in Workers, Deliver(w) PROVE DeliveryInv'
    BY <1>4, BeginStep, PostStep, ApplyStep, QuietActions DEF Deliver, Begin, Settle
  <1>5. ASSUME NEW j \in Runs,
               \/ \E w \in RetryThreads, r \in Rows : Claim(j, w, r)
               \/ \E r \in Rows : DryClaim(j, r)
               \/ DryRelease(j)
        PROVE DeliveryInv'
    BY <1>5, LeaseActions
  <1>6. CASE \/ \E u \in Rules, s \in {"enabled", "disabled"} : SetEnabled(u, s)
             \/ \E S \in SUBSET Rows : PurgeSelect(S)
             \/ \E w \in Dispatchers, r \in Rows : PickUp(w, r)
             \/ \E j \in Runs : StartRun(j) \/ StopRun(j) \/ EndRun(j) \/ CrashRun(j)
             \/ CrashWeb \/ Tick \/ UNCHANGED vars
    BY <1>6, QuietActions
  <1>7. QED
    BY <1>1, <1>2, <1>3, <1>4, <1>5, <1>6 DEF Next, Administer

(* Whatever the interleaving of dispatch threads and retry runs, the        *)
(* delivery log is exact, attempts stay within their budget and a row is    *)
(* delivered only by an answer to a POST of its own, a 2xx or, for a        *)
(* webhook, any status below 400: deliver_outbox_row's attempt_count test   *)
(* suffices for it.                                                         *)
THEOREM DeliveryCorrect == Spec => []DeliveryInv
  <1>1. DeliveryInv /\ TypeOK /\ [Next]_vars => DeliveryInv'
    BY DeliveryStep
  <1>2. QED
    BY <1>1, InitDelivery, TypeCorrect, PTL DEF Spec

(* The DeliveryAttempt rows of a row are numbered 1 .. attempt_count, each  *)
(* the outcome of the POST that announced that number (_apply_delivery_result). *)
THEOREM LogCorrect == Spec => []AttemptLogExact
  <1>1. DeliveryInv => AttemptLogExact
    BY DEF DeliveryInv
  <1>2. QED
    BY <1>1, DeliveryCorrect, PTL

(* attempt_count exceeds ACTIONS_OUTBOX_MAX_ATTEMPTS by at most one attempt *)
(* per requeue, and an open row has one left.                               *)
THEOREM BudgetCorrect == Spec => []AttemptBudget
  <1>1. DeliveryInv => AttemptBudget
    BY DEF DeliveryInv
  <1>2. QED
    BY <1>1, DeliveryCorrect, PTL

(* A row marked delivered was answered: an e-mail was taken at least once,   *)
(* a webhook was taken or redirected (deliver_webhook_action fails from     *)
(* status 400 on).                                                         *)
THEOREM DeliveredCorrect == Spec => []DeliveredWasAnswered
  <1>1. DeliveryInv => DeliveredWasAnswered
    BY DEF DeliveryInv
  <1>2. QED
    BY <1>1, DeliveryCorrect, PTL

-----------------------------------------------------------------------------
(* A finished row carries no lease: recording an attempt clears it, and     *)
(* only open rows are claimed.  Without it a dry run's unlock could change  *)
(* a finished row.                                                         *)
FinishedUnleased == \A r \in Rows : row[r].status \in Finished => row[r].lease = 0

(* What a step may do to a row, and what keeps FinishedUnleased.            *)
Lawful(r) ==
  /\ row[r].status \in Finished =>
       \/ row'[r] = row[r] /\ log'[r] = log[r]
       \/ row'[r].status = "gone"
       \/ row'[r].requeues > row[r].requeues
  /\ row'[r] = row[r] \/ row'[r].status \notin Finished \/ row'[r].lease = 0

(* A result is recorded on an open row only, and clears its lease.          *)
LEMMA ApplyLawful ==
  ASSUME TypeOK, DeliveryInv, NEW w \in Workers, ApplyResult(w), NEW r \in Rows
  PROVE  Lawful(r)
  <1> DEFINE q == worker[w].row
  <1>1. q \in Rows /\ Open(q)
    BY DEF ApplyResult, TypeOK, DeliveryInv, SnapshotInv
  <1>2. PICK new \in Applied(row[q], worker[w].result) : row' = [row EXCEPT ![q] = new]
    BY DEF ApplyResult
  <1>3. new.lease = 0
    BY <1>2 DEF Applied, Attempted
  <1>4. row[q].status \notin Finished
    BY <1>1 DEF Open, Unfinished, Finished
  <1>5. r # q => row'[r] = row[r] /\ log'[r] = log[r]
    BY <1>1, <1>2 DEF ApplyResult, TypeOK
  <1>6. row'[q] = new
    BY <1>1, <1>2 DEF TypeOK
  <1>7. QED
    BY <1>3, <1>4, <1>5, <1>6 DEF Lawful

(* Moving a lease leaves a finished row as it is. *)
LEMMA LeaseLawful ==
  ASSUME TypeOK, FinishedUnleased, NEW j \in Runs, NEW r \in Rows,
         \/ \E w \in RetryThreads, x \in Rows : Claim(j, w, x)
         \/ \E x \in Rows : DryClaim(j, x)
         \/ DryRelease(j)
  PROVE  Lawful(r)
  <1>1. log' = log
    BY DEF Claim, DryClaim, DryRelease
  <1>2. ASSUME NEW x \in Rows, NEW t, Open(x), row' = [row EXCEPT ![x].lease = t]
        PROVE  Lawful(r)
    <2>1. row[x].status \notin Finished /\ row'[x].status = row[x].status
      BY <1>2 DEF Open, Unfinished, Finished, TypeOK, RowType
    <2>2. r # x => row'[r] = row[r]
      BY <1>2 DEF TypeOK
    <2>3. QED
      BY <1>1, <2>1, <2>2 DEF Lawful
  <1>3. CASE DryRelease(j)
    <2> DEFINE x == run[j].held
    <2>1. x \in Rows
      BY <1>3 DEF DryRelease, TypeOK, RunType
    <2>2. CASE row' = row
      BY <1>1, <2>2 DEF Lawful
    <2>3. CASE row' = [row EXCEPT ![x].lease = 0]
      <3>1. row[x] \in RowType
        BY <2>1 DEF TypeOK
      <3>2. row'[x] = [row[x] EXCEPT !.lease = 0]
        BY <2>1, <2>3 DEF TypeOK
      <3>3. row'[x].lease = 0
        BY <3>1, <3>2 DEF RowType
      <3>4. row[x].lease = 0 => row'[x] = row[x]
        BY <3>1, <3>2 DEF RowType
      <3>5. r # x => row'[r] = row[r]
        BY <2>1, <2>3 DEF TypeOK
      <3>6. QED
        BY <1>1, <2>1, <3>3, <3>4, <3>5 DEF Lawful, FinishedUnleased
    <2>4. QED
      BY <1>3, <2>2, <2>3 DEF DryRelease
  <1>4. QED
    BY <1>2, <1>3 DEF Claim, DryClaim, Claimable

(* Every step treats every row lawfully. *)
LEMMA LawfulStep ==
  ASSUME TypeOK, DeliveryInv, FinishedUnleased, [Next]_vars, NEW r \in Rows
  PROVE  Lawful(r)
  <1>1. ASSUME NEW e \in Events, Emit(e) PROVE Lawful(r)
    <2>1. /\ row'[r] = row[r] \/ (row[r].status = "none" /\ row'[r] = NewRow)
          /\ log' = log
      BY <1>1 DEF Emit
    <2>2. NewRow.status \notin Finished /\ "none" \notin Finished
      BY DEF NewRow, NoRow, Finished
    <2>3. QED
      BY <2>1, <2>2 DEF Lawful
  <1>2. ASSUME NEW S, RemoveRows(S) PROVE Lawful(r)
    <2>1. (row'[r] = row[r] /\ log'[r] = log[r]) \/ row'[r] = GoneRow
      BY <1>2 DEF RemoveRows
    <2>2. GoneRow.status = "gone" /\ "gone" \notin Finished
      BY DEF GoneRow, NoRow, Finished
    <2>3. QED
      BY <2>1, <2>2 DEF Lawful
  <1>3. ASSUME NEW q \in Rows, Requeue(q) PROVE Lawful(r)
    <2>1. row[q].requeues \in Nat
      BY DEF TypeOK, RowType
    <2>2. /\ row'[q].requeues = row[q].requeues + 1
          /\ row'[q].lease = 0
      BY <1>3 DEF Requeue, Requeued, TypeOK
    <2>3. r # q => row'[r] = row[r] /\ log'[r] = log[r]
      BY <1>3 DEF Requeue, TypeOK
    <2>4. QED
      BY <2>1, <2>2, <2>3 DEF Lawful
  <1>4. ASSUME NEW w \in Workers, Deliver(w) PROVE Lawful(r)
    <2>1. CASE ApplyResult(w)
      BY <2>1, ApplyLawful
    <2>2. CASE Begin(w) \/ Post(w) \/ DiscardResult(w)
      <3>1. UNCHANGED <<row, log>>
        BY <2>2 DEF Begin, BeginNothing, BeginTerminal, BeginPost, Post, DiscardResult
      <3>2. QED
        BY <3>1 DEF Lawful
    <2>3. QED
      BY <1>4, <2>1, <2>2 DEF Deliver, Settle
  <1>5. ASSUME NEW j \in Runs,
               \/ \E w \in RetryThreads, x \in Rows : Claim(j, w, x)
               \/ \E x \in Rows : DryClaim(j, x)
               \/ DryRelease(j)
        PROVE Lawful(r)
    BY <1>5, LeaseLawful
  <1>6. CASE UNCHANGED <<row, log>>
    BY <1>6 DEF Lawful
  <1>7. QED
    BY <1>1, <1>2, <1>3, <1>4, <1>5, <1>6
       DEF Next, Administer, DeleteRule, DeleteCompanyRows, PurgeDelete, SetEnabled,
           PurgeSelect, PickUp, StartRun, StopRun, EndRun, CrashRun, CrashWeb, Tick, vars

(* A finished row is final: no thread that answers late, no dry run and no  *)
(* overlapping run changes it; only a requeue or a deletion does.           *)
THEOREM FinishedCorrect == Spec => FinishedIsFinal
  <1>1. Init => FinishedUnleased
    BY DEF Init, FinishedUnleased, NoRow
  <1>2. TypeOK /\ DeliveryInv /\ FinishedUnleased /\ [Next]_vars => FinishedUnleased'
    BY LawfulStep DEF Lawful, FinishedUnleased
  <1>3. TypeOK /\ DeliveryInv /\ FinishedUnleased /\ [Next]_vars
          => [\A r \in Rows : row[r].status \in Finished =>
                \/ row'[r] = row[r] /\ log'[r] = log[r]
                \/ row'[r].status = "gone"
                \/ row'[r].requeues > row[r].requeues]_vars
    BY LawfulStep DEF Lawful
  <1>4. QED
    BY <1>1, <1>2, <1>3, TypeCorrect, DeliveryCorrect, PTL DEF Spec, FinishedIsFinal
-----------------------------------------------------------------------------
(* What a recorded result makes of the status, by the attempt it concludes. *)
LEMMA AppliedStatus ==
  ASSUME NEW old \in RowType, NEW res \in Results, NEW new \in Applied(old, res)
  PROVE  /\ new.status # "pending"
         /\ new.status = "delivered" <=> res = "ok"
         /\ new.status = "failed" <=> res = "retry" /\ old.attempts + 1 < MaxAttempts
  BY LimitAssumption DEF Applied, Attempted, RowType, Results

(* StatusFollowsLog for one row. *)
Follows(r) == LET n == Len(log[r]) IN
  Exists(r) /\ row[r].requeues = 0 =>
    /\ \A i \in 1 .. n - 1 : log[r][i].result = "retry" /\ i < MaxAttempts
    /\ row[r].status = "pending" <=> n = 0
    /\ row[r].status = "delivered" <=> n > 0 /\ log[r][n].result = "ok"
    /\ row[r].status = "failed" <=> /\ n > 0 /\ log[r][n].result = "retry"
                                   /\ n < MaxAttempts

(* Appending the entry of a result that was applied to an open row: the     *)
(* attempts before it were retryable failures, or the row was not open.    *)
LEMMA ApplyFollows ==
  ASSUME TypeOK, DeliveryInv, NEW w \in Workers, ApplyResult(w), NEW r \in Rows, Follows(r)
  PROVE  Follows(r)'
  <1> DEFINE q     == worker[w].row
             res   == worker[w].result
             entry == [sent |-> worker[w].seen + 1, result |-> res]
             n     == Len(log[r])
  <1>1. /\ q \in Rows /\ res \in Results /\ row[q] \in RowType /\ Exists(q)
        /\ Open(q)
    BY DEF ApplyResult, TypeOK, WorkerType, DeliveryInv, SnapshotInv
  <1>2. PICK new \in Applied(row[q], res) : row' = [row EXCEPT ![q] = new]
    BY DEF ApplyResult
  <1>3. CASE r # q
    <2>1. row'[r] = row[r] /\ log'[r] = log[r]
      BY <1>1, <1>2, <1>3 DEF ApplyResult, TypeOK
    <2>2. QED
      BY <2>1 DEF Follows, Exists
  <1>4. CASE r = q
    <2>1. /\ row'[r] = new /\ new.requeues = row[r].requeues
          /\ log'[r] = Append(log[r], entry)
      BY <1>1, <1>2, <1>4, AppliedEffect DEF ApplyResult, TypeOK
    <2>2. log[r] \in Seq([sent : Nat, result : Results]) /\ entry \in [sent : Nat, result : Results]
      <3>1. worker[w].seen + 1 \in Nat
        BY DEF TypeOK, WorkerType
      <3>2. QED
        BY <1>1, <3>1 DEF TypeOK
    <2>3. /\ n \in Nat /\ Len(log'[r]) = n + 1
          /\ \A i \in 1 .. n : log'[r][i] = log[r][i]
          /\ log'[r][n + 1] = entry
      BY <2>1, <2>2
    <2>4. row[r].attempts = n
      BY DEF DeliveryInv, AttemptLogExact
    <2>5. /\ new.status # "pending"
          /\ new.status = "delivered" <=> res = "ok"
          /\ new.status = "failed" <=> res = "retry" /\ n + 1 < MaxAttempts
      BY <1>1, <1>2, <1>4, <2>4, AppliedStatus
    <2>6. entry.result = res
      OBVIOUS
    <2>7. row[r].status \in {"pending", "failed"} /\ Exists(r)
      BY <1>1, <1>4 DEF Open, Unfinished
    <2>8. ASSUME row[r].requeues = 0
          PROVE  \A i \in 1 .. n : log[r][i].result = "retry" /\ i < MaxAttempts
      <3>1. /\ \A i \in 1 .. n - 1 : log[r][i].result = "retry" /\ i < MaxAttempts
            /\ n = 0 \/ (n > 0 /\ log[r][n].result = "retry" /\ n < MaxAttempts)
        BY <2>7, <2>8 DEF Follows
      <3>2. \A i \in 1 .. n : i \in 1 .. n - 1 \/ (i = n /\ n > 0)
        BY <2>3
      <3>3. QED
        BY <2>3, <3>1, <3>2
    <2> HIDE DEF q, res, entry, n
    <2>9. QED
      <3>1. SUFFICES ASSUME row'[r].requeues = 0
                     PROVE  /\ \A i \in 1 .. n : log'[r][i].result = "retry" /\ i < MaxAttempts
                            /\ row'[r].status # "pending"
                            /\ row'[r].status = "delivered" <=> log'[r][n + 1].result = "ok"
                            /\ row'[r].status = "failed" <=> /\ log'[r][n + 1].result = "retry"
                                                            /\ n + 1 < MaxAttempts
        BY <2>3 DEF Follows
      <3>2. row[r].requeues = 0
        BY <2>1, <3>1
      <3>3. \A i \in 1 .. n : log'[r][i].result = "retry" /\ i < MaxAttempts
        BY <2>3, <2>8, <3>2
      <3>4. QED
        BY <2>1, <2>3, <2>5, <2>6, <3>3
  <1>5. QED
    BY <1>3, <1>4

(* What a step of the service may do to one row and its delivery log.       *)
KeptRow(r)     == /\ row'[r].status = row[r].status
                  /\ row'[r].attempts = row[r].attempts
                  /\ row'[r].requeues = row[r].requeues
                  /\ log'[r] = log[r]
EmittedRow(r)  == row[r] = NoRow /\ row'[r] = NewRow /\ log'[r] = log[r]
RemovedRow(r)  == Exists(r) /\ row'[r] = GoneRow
RequeuedRow(r) == Exists(r) /\ row'[r] = Requeued(row[r]) /\ log'[r] = log[r]
RecordedRow(r) == \E w \in Workers : ApplyResult(w) /\ worker[w].row = r

RowStep(r) == \/ KeptRow(r) \/ EmittedRow(r) \/ RemovedRow(r) \/ RequeuedRow(r)
              \/ RecordedRow(r)

(* Writing a lease is keeping the row. *)
LEMMA LeaseKept ==
  ASSUME TypeOK, NEW q \in Rows, NEW t, row' = [row EXCEPT ![q].lease = t], log' = log,
         NEW r \in Rows
  PROVE  KeptRow(r)
  <1>1. row[r] \in RowType
    BY DEF TypeOK
  <1>2. row'[r] = IF r = q THEN [row[r] EXCEPT !.lease = t] ELSE row[r]
    BY DEF TypeOK
  <1>3. QED
    BY <1>1, <1>2 DEF KeptRow, RowType

(* Only these actions do more to rows and answers than move a lease.        *)
LEMMA OnlyMoves ==
  ASSUME TypeOK, [Next]_vars
  PROVE  \/ \E e \in Events : Emit(e)
         \/ \E S \in SUBSET Rows : RemoveRows(S) /\ receipt' = receipt
         \/ \E r \in Rows : Requeue(r)
         \/ \E w \in Workers : Post(w) \/ ApplyResult(w)
         \/ receipt' = receipt /\ \A r \in Rows : KeptRow(r)
  <1> DEFINE Quiet == receipt' = receipt /\ \A r \in Rows : KeptRow(r)
  <1>1. UNCHANGED <<row, log, receipt>> => Quiet
    BY DEF KeptRow
  <1>2. ASSUME NEW j \in Runs,
               \/ \E w \in RetryThreads, x \in Rows : Claim(j, w, x)
               \/ \E x \in Rows : DryClaim(j, x)
               \/ DryRelease(j)
        PROVE Quiet
    <2>1. log' = log /\ receipt' = receipt
      BY <1>2 DEF Claim, DryClaim, DryRelease
    <2>2. \/ \E x \in Rows, t \in {0, run[j].now + Lease} : row' = [row EXCEPT ![x].lease = t]
          \/ row' = row
      <3>1. DryRelease(j) => run[j].held \in Rows
        BY DEF DryRelease, TypeOK, RunType
      <3>2. QED
        BY <1>2, <3>1 DEF Claim, DryClaim, DryRelease
    <2>3. QED
      BY <2>1, <2>2, LeaseKept DEF KeptRow
  <1>3. ASSUME NEW w \in Workers, Deliver(w)
        PROVE  Post(w) \/ ApplyResult(w) \/ UNCHANGED <<row, log, receipt>>
    BY <1>3 DEF Deliver, Begin, BeginNothing, BeginTerminal, BeginPost, Settle, DiscardResult
  <1>4. ASSUME \/ \E u \in Rules : DeleteRule(u)
               \/ DeleteCompanyRows \/ PurgeDelete
        PROVE  \E S \in SUBSET Rows : RemoveRows(S) /\ receipt' = receipt
    <2>1. purge \in SUBSET Rows /\ Rows \in SUBSET Rows
          /\ \A u \in Rules : {r \in Rows : RuleOf(r) = u} \in SUBSET Rows
      BY DEF TypeOK
    <2>2. QED
      BY <1>4, <2>1 DEF DeleteRule, DeleteCompanyRows, PurgeDelete
  <1> HIDE DEF Quiet
  <1>5. \/ \E e \in Events : Emit(e)
        \/ \E u \in Rules : DeleteRule(u)
        \/ DeleteCompanyRows \/ PurgeDelete
        \/ \E r \in Rows : Requeue(r)
        \/ \E w \in Workers : Deliver(w)
        \/ \E j \in Runs : \/ \E w \in RetryThreads, x \in Rows : Claim(j, w, x)
                           \/ \E x \in Rows : DryClaim(j, x)
                           \/ DryRelease(j)
        \/ UNCHANGED <<row, log, receipt>>
    BY DEF Next, Administer, SetEnabled, PurgeSelect, PickUp, StartRun, StopRun, EndRun,
           CrashRun, CrashWeb, Tick, vars
  <1>6. QED
    BY <1>1, <1>2, <1>3, <1>4, <1>5 DEF Quiet

(* Every step does one of these things to every row. *)
LEMMA RowSteps ==
  ASSUME TypeOK, DeliveryInv, [Next]_vars, NEW r \in Rows
  PROVE  RowStep(r)
  <1>1. ASSUME NEW e \in Events, Emit(e) PROVE RowStep(r)
    <2>1. /\ row'[r] = row[r] \/ (row[r].status = "none" /\ row'[r] = NewRow)
          /\ log' = log
      BY <1>1 DEF Emit
    <2>2. row[r].status = "none" => row[r] = NoRow
      BY DEF DeliveryInv, FreshRows
    <2>3. QED
      BY <2>1, <2>2 DEF RowStep, KeptRow, EmittedRow
  <1>2. ASSUME NEW S, RemoveRows(S) PROVE RowStep(r)
    <2>1. (row'[r] = row[r] /\ log'[r] = log[r]) \/ RemovedRow(r)
      BY <1>2 DEF RemoveRows, RemovedRow
    <2>2. QED
      BY <2>1 DEF RowStep, KeptRow
  <1>3. ASSUME NEW q \in Rows, Requeue(q) PROVE RowStep(r)
    <2>1. row'[q] = Requeued(row[q]) /\ Exists(q) /\ log' = log
      BY <1>3 DEF Requeue, TypeOK
    <2>2. r # q => row'[r] = row[r]
      BY <1>3 DEF Requeue, TypeOK
    <2>3. QED
      BY <2>1, <2>2 DEF RowStep, KeptRow, RequeuedRow
  <1>4. ASSUME NEW w \in Workers, ApplyResult(w) PROVE RowStep(r)
    <2>1. worker[w].row \in Rows
      BY <1>4 DEF ApplyResult, TypeOK
    <2>2. r # worker[w].row => row'[r] = row[r] /\ log'[r] = log[r]
      BY <1>4, <2>1 DEF ApplyResult, TypeOK
    <2>3. QED
      BY <1>4, <2>2 DEF RowStep, KeptRow, RecordedRow
  <1>5. ASSUME NEW w \in Workers, Post(w) PROVE RowStep(r)
    BY <1>5 DEF Post, RowStep, KeptRow
  <1>6. QED
    BY <1>1, <1>2, <1>3, <1>4, <1>5, OnlyMoves DEF RowStep

(* The statuses of the rows a step may write. *)
LEMMA WrittenRows ==
  /\ NewRow.status = "pending" /\ NewRow.requeues = 0 /\ NewRow.attempts = 0
  /\ GoneRow.status = "gone"
  /\ NoRow.status = "none" /\ NoRow.attempts = 0
  /\ \A old : Requeued(old).status = "pending" /\ Requeued(old).requeues = old.requeues + 1
  BY DEF NewRow, GoneRow, NoRow, Requeued

(* A result is recorded on an open row and counts as one more attempt; it   *)
(* makes the row delivered only if one of its POSTs was answered so.        *)
LEMMA RecordedEffect ==
  ASSUME TypeOK, DeliveryInv, NEW r \in Rows, RecordedRow(r)
  PROVE  /\ Open(r)
         /\ row'[r].attempts = row[r].attempts + 1
         /\ row'[r].requeues = row[r].requeues
         /\ row'[r].status \in {"delivered", "dead", "failed"}
         /\ row'[r].status = "delivered" => Credits(receipt[r], r)
         /\ receipt' = receipt
  <1>1. PICK w \in Workers : ApplyResult(w) /\ worker[w].row = r
    BY DEF RecordedRow
  <1>2. /\ Open(r) /\ worker[w].result \in Results /\ row[r] \in RowType
        /\ worker[w].result = "ok" => Credits(receipt[r], r)
        /\ receipt' = receipt
    BY <1>1 DEF ApplyResult, DeliveryInv, SnapshotInv, TypeOK, WorkerType
  <1>3. PICK new \in Applied(row[r], worker[w].result) : row' = [row EXCEPT ![r] = new]
    BY <1>1 DEF ApplyResult
  <1>4. row'[r] = new
    BY <1>3 DEF TypeOK
  <1>5. QED
    BY <1>2, <1>3, <1>4, AppliedEffect

(* The status of a row nobody requeued is the verdict of its attempts,      *)
(* whichever threads recorded them: pending before the first, failed while  *)
(* all were retryable and below the limit, and then delivered or dead by    *)
(* the last one (_apply_delivery_result under deliver_outbox_row's test).   *)
THEOREM VerdictCorrect == Spec => []StatusFollowsLog
  <1> DEFINE All == \A r \in Rows : Follows(r)
  <1>1. Init => All
    BY WrittenRows DEF Init, Follows, Exists, Unfinished, Finished
  <1>2. TypeOK /\ DeliveryInv /\ All /\ [Next]_vars => All'
    <2> SUFFICES ASSUME TypeOK, DeliveryInv, [Next]_vars, NEW r \in Rows, Follows(r)
                 PROVE  Follows(r)'
      OBVIOUS
    <2>1. CASE KeptRow(r)
      BY <2>1 DEF KeptRow, Follows, Exists
    <2>2. CASE EmittedRow(r)
      <3>1. Len(log'[r]) = 0 /\ row'[r].status = "pending"
        BY <2>2, WrittenRows DEF EmittedRow, DeliveryInv, AttemptLogExact
      <3>2. QED
        BY <3>1 DEF Follows
    <2>3. CASE RemovedRow(r)
      BY <2>3, WrittenRows DEF RemovedRow, Follows, Exists, Unfinished, Finished
    <2>4. CASE RequeuedRow(r)
      <3>1. row'[r].requeues = row[r].requeues + 1 /\ row[r].requeues \in Nat
        BY <2>4, WrittenRows DEF RequeuedRow, TypeOK, RowType
      <3>2. row'[r].requeues # 0
        BY <3>1
      <3>3. QED
        BY <3>2 DEF Follows
    <2>5. CASE RecordedRow(r)
      BY <2>5, ApplyFollows DEF RecordedRow
    <2>6. QED
      BY <2>1, <2>2, <2>3, <2>4, <2>5, RowSteps DEF RowStep
  <1>3. All => StatusFollowsLog
    BY DEF Follows, StatusFollowsLog
  <1>4. QED
    BY <1>1, <1>2, <1>3, TypeCorrect, DeliveryCorrect, PTL DEF Spec

-----------------------------------------------------------------------------
(* Rows whose ids the purge has read: they exist or did, and an open one    *)
(* among them was requeued since.                                          *)
Reopened(r) == row[r].status # "none" /\ (Open(r) => row[r].requeues > 0)

(* Retention spares work in progress: deliveries never reopen a row between *)
(* purge_expired_data's two statements, only an administrator can.          *)
THEOREM PurgeCorrect == Spec => PurgeSparesOpen
  <1> DEFINE Inv == \A r \in purge : Reopened(r)
  <1>1. Init => Inv
    BY DEF Init
  <1>2. TypeOK /\ DeliveryInv /\ Inv /\ [Next]_vars => Inv'
    <2> SUFFICES ASSUME TypeOK, DeliveryInv, Inv, [Next]_vars, NEW r \in purge'
                 PROVE  Reopened(r)'
      OBVIOUS
    <2>1. purge' \subseteq purge \/ \E S \in SUBSET Rows : PurgeSelect(S)
      BY DEF Next, Administer, Emit, SetEnabled, DeleteRule, DeleteCompanyRows, PurgeDelete,
             Requeue, PickUp, Deliver, Begin, BeginNothing, BeginTerminal, BeginPost, Post,
             Settle, ApplyResult, DiscardResult, StartRun, StopRun, EndRun, Claim, DryClaim,
             DryRelease, CrashRun, CrashWeb, Tick, vars
    <2>2. ASSUME NEW S \in SUBSET Rows, PurgeSelect(S) PROVE Reopened(r)'
      <3>1. row[r].status \in Finished /\ row' = row
        BY <2>2 DEF PurgeSelect, Expirable
      <3>2. QED
        BY <3>1 DEF Reopened, Open, Unfinished, Finished
    <2>3. ASSUME r \in purge, r \in Rows, Reopened(r) PROVE Reopened(r)'
      <3>1. row[r].requeues \in Nat
        BY <2>3 DEF TypeOK, RowType
      <3>2. CASE KeptRow(r)
        BY <2>3, <3>2 DEF KeptRow, Reopened, Open
      <3>3. CASE EmittedRow(r)
        BY <2>3, <3>3, WrittenRows DEF EmittedRow, Reopened
      <3>4. CASE RemovedRow(r)
        BY <3>4, WrittenRows DEF RemovedRow, Reopened, Open, Unfinished
      <3>5. CASE RequeuedRow(r)
        <4>1. row'[r].requeues = row[r].requeues + 1 /\ row'[r].status = "pending"
          BY <3>5, WrittenRows DEF RequeuedRow
        <4>2. QED
          BY <3>1, <4>1 DEF Reopened
      <3>6. CASE RecordedRow(r)
        BY <2>3, <3>6, RecordedEffect DEF Reopened
      <3>7. QED
        BY <2>3, <3>2, <3>3, <3>4, <3>5, <3>6, RowSteps DEF RowStep
    <2>4. QED
      BY <2>1, <2>2, <2>3 DEF TypeOK
  <1>3. Inv => [\A r \in purge : Open(r) /\ purge' = {} => row[r].requeues > 0]_vars
    BY DEF Reopened
  <1>4. QED
    BY <1>1, <1>2, <1>3, TypeCorrect, DeliveryCorrect, PTL DEF Spec, PurgeSparesOpen

-----------------------------------------------------------------------------
(* The refinement of DeliveryContract.                                     *)

(* The outside status of a row, as its own status tells it. *)
LEMMA OutsideFacts ==
  ASSUME NEW r \in Rows
  PROVE  /\ OutsideStatus[r] = IF Open(r) THEN "open" ELSE row[r].status
         /\ Exists(r) => OutsideStatus[r] \in {"open", "delivered", "dead"}
         /\ row[r].status # "none" => OutsideStatus[r] # "none"
  BY DEF OutsideStatus, Exists, Open, Unfinished, Finished

(* A step that changes the outside status of the rows in S to one status,   *)
(* and nothing else outside, is a Move of the contract.                    *)
LEMMA OutsideMove ==
  ASSUME NEW S \in SUBSET Rows, NEW from, NEW to,
         \A r \in S : OutsideStatus[r] \in from /\ OutsideStatus'[r] = to,
         \A r \in Rows \ S : row'[r].status = row[r].status,
         receipt' = receipt
  PROVE  Contract!Move(S, from, to)
  <1>1. \A r \in Rows \ S : OutsideStatus'[r] = OutsideStatus[r]
    BY DEF OutsideStatus, Open
  <1>2. OutsideStatus' = [r \in Rows |-> IF r \in S THEN to ELSE OutsideStatus[r]]
    <2>1. OutsideStatus' = [r \in Rows |-> OutsideStatus'[r]]
      BY DEF OutsideStatus
    <2>2. QED
      BY <1>1, <2>1
  <1>3. QED
    BY <1>2 DEF Contract!Move

(* A result is a delivery, a give-up or, while attempts are left, nothing.  *)
LEMMA ApplyMoves ==
  ASSUME TypeOK, DeliveryInv, NEW w \in Workers, ApplyResult(w)
  PROVE  [Contract!ContractNext]_(Contract!cvars)
  <1> DEFINE q == worker[w].row
  <1>1. q \in Rows /\ RecordedRow(q)
    BY DEF ApplyResult, TypeOK, RecordedRow
  <1>2. /\ Open(q) /\ row'[q].status \in {"delivered", "dead", "failed"}
        /\ row'[q].status = "delivered" => Credits(receipt[q], q)
        /\ receipt' = receipt
    BY <1>1, RecordedEffect
  <1>3. \A r \in Rows \ {q} : row'[r].status = row[r].status
    BY <1>1 DEF ApplyResult, TypeOK
  <1>4. OutsideStatus[q] = "open"
    BY <1>1, <1>2, OutsideFacts
  <1>5. OutsideStatus'[q] = IF row'[q].status = "failed" THEN "open" ELSE row'[q].status
    BY <1>1, <1>2 DEF OutsideStatus, Open, Unfinished
  <1> HIDE DEF q
  <1>6. CASE row'[q].status = "delivered"
    <2>1. Contract!Move({q}, {"open"}, "delivered")
      BY <1>1, <1>2, <1>3, <1>4, <1>5, <1>6, OutsideMove
    <2>2. QED
      BY <1>1, <1>2, <1>6, <2>1 DEF Contract!ContractNext, Contract!Deliver, Credits
  <1>7. CASE row'[q].status = "dead"
    <2>1. Contract!Move({q}, {"open"}, "dead")
      BY <1>1, <1>2, <1>3, <1>4, <1>5, <1>7, OutsideMove
    <2>2. QED
      BY <1>1, <2>1 DEF Contract!ContractNext, Contract!GiveUp
  <1>8. CASE row'[q].status = "failed"
    <2>1. \A r \in Rows : Open(r)' = Open(r) /\ (~Open(r) => row'[r].status = row[r].status)
      BY <1>2, <1>3, <1>8 DEF Open, Unfinished
    <2>2. OutsideStatus' = OutsideStatus
      BY <2>1 DEF OutsideStatus
    <2>3. QED
      BY <1>2, <2>2 DEF Contract!cvars
  <1>9. QED
    BY <1>2, <1>6, <1>7, <1>8

(* A POST is taken or diverted, or nothing is seen of it outside.           *)
LEMMA PostMoves ==
  ASSUME TypeOK, DeliveryInv, NEW w \in Workers, Post(w)
  PROVE  [Contract!ContractNext]_(Contract!cvars)
  <1> DEFINE q == worker[w].row
  <1>1. q \in Rows /\ row' = row /\ row[q].status # "none"
    BY DEF Post, TypeOK, DeliveryInv, SnapshotInv
  <1>2. PICK o \in Outcomes(q) : receipt' = [receipt EXCEPT ![q] = @ \cup o[2]]
    BY DEF Post
  <1>3. o[2] \in {{}, {"taken"}, {"diverted"}}
    BY DEF Outcomes, Answered, WebhookAnswered, EmailAnswered, Broken
  <1>4. OutsideStatus' = OutsideStatus /\ OutsideStatus[q] # "none"
    BY <1>1, OutsideFacts DEF OutsideStatus, Open
  <1>5. ASSUME NEW c \in {"taken", "diverted"}, o[2] = {c}
        PROVE  Contract!ContractNext
    <2>1. Contract!Answer(q, c)
      BY <1>1, <1>2, <1>4, <1>5 DEF Contract!Answer
    <2>2. QED
      BY <1>1, <2>1 DEF Contract!ContractNext
  <1>6. CASE o[2] = {}
    <2>1. receipt' = [receipt EXCEPT ![q] = receipt[q]]
      BY <1>1, <1>2, <1>6 DEF TypeOK
    <2>2. receipt' = receipt
      BY <1>1, <2>1 DEF TypeOK
    <2>3. QED
      BY <1>4, <2>2 DEF Contract!cvars
  <1>7. QED
    BY <1>3, <1>5, <1>6

(* Whatever threads, leases, retries and crashes do inside, an administrator *)
(* and a receiver see a message published once, answered (an e-mail taken,  *)
(* a webhook taken or redirected) before it is reported delivered, and      *)
(* reopened by a requeue only.                                              *)
THEOREM ContractCorrect == Spec => ImplementsContract
  <1>1. Init => Contract!ContractInit
    <2> SUFFICES ASSUME Init PROVE Contract!ContractInit
      OBVIOUS
    <2>1. \A r \in Rows : row[r].status = "none" /\ ~Open(r)
      BY WrittenRows DEF Init, Open, Unfinished
    <2>2. OutsideStatus = [r \in Rows |-> "none"]
      BY <2>1 DEF OutsideStatus
    <2>3. QED
      BY <2>2 DEF Init, Contract!ContractInit
  <1>2. TypeOK /\ DeliveryInv /\ [Next]_vars => [Contract!ContractNext]_(Contract!cvars)
    <2> SUFFICES ASSUME TypeOK, DeliveryInv, [Next]_vars
                 PROVE  [Contract!ContractNext]_(Contract!cvars)
      OBVIOUS
    <2>1. ASSUME NEW e \in Events, Emit(e) PROVE Contract!ContractNext
      <3> DEFINE new == {r \in Rows : row[r].status = "none" /\ row'[r] = NewRow}
      <3>1. \A r \in Rows \ new : row'[r].status = row[r].status
        BY <2>1, WrittenRows DEF Emit
      <3>2. \A r \in new : OutsideStatus[r] = "none" /\ OutsideStatus'[r] = "open"
        BY WrittenRows DEF OutsideStatus, Open, Unfinished
      <3>3. receipt' = receipt
        BY <2>1 DEF Emit
      <3>4. Contract!Move(new, {"none"}, "open")
        BY <3>1, <3>2, <3>3, OutsideMove
      <3>5. QED
        BY <3>4 DEF Contract!ContractNext, Contract!Publish
    <2>2. ASSUME NEW S \in SUBSET Rows, RemoveRows(S), receipt' = receipt
          PROVE  Contract!ContractNext
      <3> DEFINE old == {r \in S : Exists(r)}
      <3>1. \A r \in Rows \ old : row'[r].status = row[r].status
        BY <2>2 DEF RemoveRows
      <3>2. \A r \in old : row'[r] = GoneRow
        BY <2>2 DEF RemoveRows
      <3>3. \A r \in old : /\ OutsideStatus[r] \in {"open", "delivered", "dead"}
                           /\ OutsideStatus'[r] = "gone"
        BY <3>2, OutsideFacts, WrittenRows DEF OutsideStatus, Open, Unfinished
      <3>4. Contract!Move(old, {"open", "delivered", "dead"}, "gone")
        BY <2>2, <3>1, <3>3, OutsideMove
      <3>5. QED
        BY <3>4 DEF Contract!ContractNext, Contract!Remove
    <2>3. ASSUME NEW q \in Rows, Requeue(q) PROVE Contract!ContractNext
      <3>1. /\ Exists(q) /\ row'[q].status = "pending" /\ receipt' = receipt
            /\ \A r \in Rows \ {q} : row'[r] = row[r]
        BY <2>3, WrittenRows DEF Requeue, TypeOK
      <3>2. /\ OutsideStatus[q] \in {"open", "delivered", "dead"}
            /\ OutsideStatus'[q] = "open"
        BY <3>1, OutsideFacts DEF OutsideStatus, Open, Unfinished
      <3>3. Contract!Move({q}, {"open", "delivered", "dead"}, "open")
        BY <3>1, <3>2, OutsideMove
      <3>4. QED
        BY <3>3 DEF Contract!ContractNext, Contract!Reopen
    <2>4. ASSUME receipt' = receipt, \A r \in Rows : KeptRow(r)
          PROVE  UNCHANGED Contract!cvars
      <3>1. OutsideStatus' = OutsideStatus
        BY <2>4 DEF OutsideStatus, Open, KeptRow
      <3>2. QED
        BY <2>4, <3>1 DEF Contract!cvars
    <2>5. QED
      BY <2>1, <2>2, <2>3, <2>4, PostMoves, ApplyMoves, OnlyMoves
  <1>3. QED
    BY <1>1, <1>2, TypeCorrect, DeliveryCorrect, PTL
       DEF Spec, ImplementsContract, Contract!Spec

-----------------------------------------------------------------------------
(* Leases.  Without dry runs, whose unlock clears the lease of whoever      *)
(* holds it by then, a lease is written by a claim and cleared by a result  *)
(* or a requeue only.                                                      *)
NoDryRun == \A j \in Runs : run[j].now <= now /\ ~run[j].dry /\ run[j].held = <<>>

(* A thread with a live lease, whose attempt is still the row's next one,   *)
(* has its lease in the row: nobody can claim the row before it expires.    *)
Holds(w) == LET r == worker[w].row IN
  worker[w].pc # "idle" =>
    /\ row[r].status # "none"
    /\ Exists(r) => worker[w].base <= row[r].attempts
    /\ /\ Exists(r) /\ row[r].requeues = 0
       /\ worker[w].base = row[r].attempts /\ now < worker[w].until
       => row[r].lease = worker[w].until

(* Two threads do not both work under a live lease on one attempt. *)
Excludes(v, w) ==
  /\ v # w /\ worker[v].pc # "idle" /\ worker[w].pc # "idle"
  /\ worker[v].row = worker[w].row /\ worker[v].base = worker[w].base
  /\ now < worker[v].until /\ now < worker[w].until
  => row[worker[v].row].requeues > 0 \/ ~Exists(worker[v].row)

LeaseInv == /\ NoDryRun
            /\ \A w \in RetryThreads : Holds(w)
            /\ \A v, w \in RetryThreads : Excludes(v, w)

(* What a retry thread does with its claim: keep it, drop it or take a new one. *)
KeepsClaim(w) == /\ worker[w].pc # "idle"
                 /\ worker'[w].row = worker[w].row
                 /\ worker'[w].until = worker[w].until
                 /\ worker'[w].base = worker[w].base
Claims(w) == \E j \in Runs, r \in Rows : Claim(j, w, r)

LEMMA ClaimSteps ==
  ASSUME TypeOK, [Next]_vars, NEW w \in RetryThreads
  PROVE  worker'[w].pc = "idle" \/ KeepsClaim(w) \/ Claims(w)
  <1> DEFINE Fine == worker'[w].pc = "idle" \/ KeepsClaim(w) \/ Claims(w)
  <1>0. w \in Workers /\ w \notin Dispatchers /\ worker[w] \in WorkerType
        /\ IdleWorker.pc = "idle"
    BY ThreadAssumption, IdleWorkerType DEF Workers, TypeOK
  <1>1. worker'[w] = worker[w] \/ worker'[w] = IdleWorker => Fine
    BY <1>0 DEF KeepsClaim
  <1>2. ASSUME NEW d \in Dispatchers, NEW r \in Rows, PickUp(d, r) PROVE worker'[w] = worker[w]
    BY <1>0, <1>2 DEF PickUp, TypeOK
  <1>3. ASSUME NEW v \in Workers, Deliver(v) PROVE Fine
    <2>1. v # w => worker'[w] = worker[w]
      BY <1>0, <1>3 DEF Deliver, Begin, BeginNothing, BeginTerminal, BeginPost, Post, Settle,
                   ApplyResult, DiscardResult, TypeOK
    <2>2. CASE v = w /\ (BeginNothing(w) \/ Settle(w))
      <3>1. worker'[w] = IdleWorker
        BY <1>0, <2>2 DEF BeginNothing, Settle, ApplyResult, DiscardResult, TypeOK
      <3>2. QED
        BY <1>1, <3>1
    <2>3. CASE v = w /\ (BeginTerminal(w) \/ BeginPost(w))
      BY <1>0, <2>3 DEF BeginTerminal, BeginPost, KeepsClaim, WorkerType, TypeOK
    <2>4. CASE v = w /\ Post(w)
      <3>1. worker[w].pc # "idle"
        BY <2>4 DEF Post
      <3>2. \E x : worker' = [worker EXCEPT ![w].pc = "applying", ![w].result = x]
        BY <2>4 DEF Post
      <3>3. QED
        BY <1>0, <3>1, <3>2 DEF KeepsClaim, WorkerType, TypeOK
    <2>5. QED
      BY <1>1, <1>3, <2>1, <2>2, <2>3, <2>4 DEF Deliver, Begin
  <1>4. ASSUME NEW j \in Runs, NEW v \in RetryThreads, NEW r \in Rows, Claim(j, v, r)
        PROVE  Fine
    <2>1. v # w => worker'[w] = worker[w]
      BY <1>0, <1>4 DEF Claim, TypeOK
    <2>2. v = w => Claims(w)
      BY <1>4 DEF Claims
    <2>3. QED
      BY <1>1, <2>1, <2>2
  <1>5. ASSUME NEW j \in Runs, CrashRun(j)
        PROVE  worker'[w] = worker[w] \/ worker'[w] = IdleWorker
    BY <1>0, <1>5 DEF CrashRun
  <1>6. CrashWeb => worker'[w] = worker[w]
    BY <1>0 DEF CrashWeb
  <1>7. \/ \E d \in Dispatchers, r \in Rows : PickUp(d, r)
        \/ \E v \in Workers : Deliver(v)
        \/ \E j \in Runs, v \in RetryThreads, r \in Rows : Claim(j, v, r)
        \/ \E j \in Runs : CrashRun(j)
        \/ CrashWeb
        \/ worker' = worker
    BY DEF Next, Administer, Emit, SetEnabled, DeleteRule, DeleteCompanyRows, PurgeSelect,
           PurgeDelete, Requeue, StartRun, StopRun, EndRun, DryClaim, DryRelease, Tick, vars
  <1> HIDE DEF Fine
  <1>8. Fine
    BY <1>1, <1>2, <1>3, <1>4, <1>5, <1>6, <1>7
  <1>9. QED
    BY <1>8 DEF Fine

(* No run becomes a dry one, and the clock never falls behind a run's. *)
LEMMA NoDryStep ==
  ASSUME TRUE \notin DryRunModes, TypeOK, NoDryRun, [Next]_vars
  PROVE  NoDryRun' /\ now' \in Nat /\ now <= now'
  <1>1. now \in Nat /\ run \in [Runs -> RunType] /\ \A j \in Runs : run[j].now \in Nat
    BY DEF TypeOK, RunType
  <1>2. now' = now \/ now' = now + 1
    BY DEF Next, Administer, Emit, SetEnabled, DeleteRule, DeleteCompanyRows, PurgeSelect,
           PurgeDelete, Requeue, PickUp, Deliver, Begin, BeginNothing, BeginTerminal, BeginPost,
           Post, Settle, ApplyResult, DiscardResult, StartRun, StopRun, EndRun, Claim, DryClaim,
           DryRelease, CrashRun, CrashWeb, Tick, vars
  <1>3. now' \in Nat /\ now <= now'
    BY <1>1, <1>2
  <1>4. ASSUME NEW i \in Runs
        PROVE  \/ run'[i] = run[i]
               \/ run'[i].now = now /\ ~run'[i].dry /\ run'[i].held = <<>>
               \/ run'[i].now = 0 /\ ~run'[i].dry /\ run'[i].held = <<>>
    <2> DEFINE Kept == run'[i] = run[i]
               Idle == run'[i].now = 0 /\ ~run'[i].dry /\ run'[i].held = <<>>
    <2>1. ASSUME NEW j \in Runs, StartRun(j)
          PROVE  Kept \/ (run'[i].now = now /\ ~run'[i].dry /\ run'[i].held = <<>>)
      <3>1. PICK d \in DryRunModes : run' = [run EXCEPT ![j] = [pc |-> "running", now |-> now,
                                                              dry |-> d, held |-> <<>>]]
        BY <2>1 DEF StartRun
      <3>2. d = FALSE
        BY ThreadAssumption
      <3>3. QED
        BY <1>1, <3>1, <3>2
    <2>2. ASSUME NEW j \in Runs, StopRun(j) \/ EndRun(j) \/ CrashRun(j) PROVE Kept \/ Idle
      BY <1>1, <2>2 DEF StopRun, EndRun, CrashRun, IdleRun
    <2>3. ASSUME NEW j \in Runs, DryRelease(j) \/ \E r \in Rows : DryClaim(j, r) PROVE FALSE
      BY <2>3 DEF DryRelease, DryClaim, NoDryRun
    <2>4. \/ \E j \in Runs : \/ StartRun(j) \/ StopRun(j) \/ EndRun(j) \/ CrashRun(j)
                             \/ DryRelease(j) \/ \E r \in Rows : DryClaim(j, r)
          \/ run' = run
      BY DEF Next, Administer, Emit, SetEnabled, DeleteRule, DeleteCompanyRows, PurgeSelect,
             PurgeDelete, Requeue, PickUp, Deliver, Begin, BeginNothing, BeginTerminal,
             BeginPost, Post, Settle, ApplyResult, DiscardResult, Claim, CrashWeb, Tick, vars
    <2> HIDE DEF Kept, Idle
    <2>5. QED
      BY <2>1, <2>2, <2>3, <2>4 DEF Kept, Idle
  <1>5. ASSUME NEW i \in Runs PROVE run'[i].now <= now' /\ ~run'[i].dry /\ run'[i].held = <<>>
    <2>1. run'[i].now \in {run[i].now, now, 0} /\ ~run'[i].dry /\ run'[i].held = <<>>
      BY <1>4 DEF NoDryRun
    <2>2. run[i].now <= now /\ run[i].now \in Nat
      BY <1>1 DEF NoDryRun
    <2>3. QED
      BY <1>1, <1>3, <2>1, <2>2
  <1>6. QED
    BY <1>3, <1>5 DEF NoDryRun

(* A row that exists after a step has existed before, or was emitted by it, *)
(* and neither its attempts nor its requeues went down.                    *)
LEMMA RowGrows ==
  ASSUME TypeOK, DeliveryInv, [Next]_vars, NEW r \in Rows, row[r].status # "none"
  PROVE  /\ row'[r].status # "none"
         /\ Exists(r)' => /\ Exists(r)
                          /\ row[r].attempts <= row'[r].attempts
                          /\ row[r].requeues <= row'[r].requeues
  <1>1. row[r].attempts \in Nat /\ row[r].requeues \in Nat
    BY DEF TypeOK, RowType
  <1>2. CASE KeptRow(r)
    BY <1>1, <1>2 DEF KeptRow, Exists
  <1>3. CASE EmittedRow(r)
    BY <1>3, WrittenRows DEF EmittedRow
  <1>4. CASE RemovedRow(r)
    BY <1>4, WrittenRows DEF RemovedRow, Exists, Unfinished, Finished
  <1>5. CASE RequeuedRow(r)
    <2>1. row'[r].attempts = row[r].attempts /\ row'[r].requeues = row[r].requeues + 1
          /\ row'[r].status = "pending" /\ Exists(r)
      BY <1>5 DEF RequeuedRow, Requeued
    <2>2. QED
      BY <1>1, <2>1
  <1>6. CASE RecordedRow(r)
    <2>1. /\ Open(r) /\ row'[r].attempts = row[r].attempts + 1
          /\ row'[r].requeues = row[r].requeues /\ row'[r].status # "none"
      BY <1>6, RecordedEffect
    <2>2. QED
      BY <1>1, <2>1 DEF Open, Exists
  <1>7. QED
    BY <1>2, <1>3, <1>4, <1>5, <1>6, RowSteps DEF RowStep

(* Without dry runs only a claim writes the lease of a row that keeps its   *)
(* attempts and was not requeued.                                          *)
LEMMA RowLease ==
  ASSUME TypeOK, DeliveryInv, NoDryRun, [Next]_vars, NEW r \in Rows,
         row[r].status # "none", Exists(r)',
         row'[r].requeues = 0, row'[r].attempts = row[r].attempts
  PROVE  \/ row'[r].lease = row[r].lease
         \/ \E j \in Runs, v \in RetryThreads : Claim(j, v, r)
  <1>1. ASSUME NEW e \in Events, Emit(e) PROVE row'[r] = row[r]
    BY <1>1 DEF Emit
  <1>2. ASSUME NEW S, RemoveRows(S) PROVE row'[r] = row[r]
    BY <1>2, WrittenRows DEF RemoveRows, Exists, Unfinished, Finished
  <1>3. ASSUME NEW q \in Rows, Requeue(q) PROVE row'[r] = row[r]
    <2>1. row[q].requeues \in Nat
      BY DEF TypeOK, RowType
    <2>2. row'[q].requeues = row[q].requeues + 1
      BY <1>3, WrittenRows DEF Requeue, TypeOK
    <2>3. r # q
      BY <2>1, <2>2
    <2>4. QED
      BY <1>3, <2>3 DEF Requeue, TypeOK
  <1>4. ASSUME NEW w \in Workers, ApplyResult(w) PROVE row'[r] = row[r]
    <2>1. CASE worker[w].row = r
      <3>1. row'[r].attempts = row[r].attempts + 1 /\ row[r].attempts \in Nat
        BY <1>4, <2>1, RecordedEffect DEF RecordedRow, TypeOK, RowType
      <3>2. QED
        BY <3>1
    <2>2. CASE worker[w].row # r
      BY <1>4, <2>2 DEF ApplyResult, TypeOK
    <2>3. QED
      BY <2>1, <2>2
  <1>5. ASSUME NEW j \in Runs, NEW v \in RetryThreads, NEW q \in Rows, Claim(j, v, q)
        PROVE  row'[r] = row[r] \/ Claim(j, v, r)
    BY <1>5 DEF Claim, TypeOK
  <1>6. ASSUME NEW j \in Runs, DryRelease(j) \/ \E x \in Rows : DryClaim(j, x) PROVE FALSE
    BY <1>6 DEF DryRelease, DryClaim, NoDryRun
  <1>7. \/ \E e \in Events : Emit(e)
        \/ \E S : RemoveRows(S)
        \/ \E q \in Rows : Requeue(q)
        \/ \E w \in Workers : ApplyResult(w)
        \/ \E j \in Runs : \/ \E v \in RetryThreads, q \in Rows : Claim(j, v, q)
                           \/ DryRelease(j) \/ \E x \in Rows : DryClaim(j, x)
        \/ row' = row
    BY DEF Next, Administer, SetEnabled, DeleteRule, DeleteCompanyRows, PurgeSelect,
           PurgeDelete, PickUp, Deliver, Begin, BeginNothing, BeginTerminal, BeginPost, Post,
           Settle, DiscardResult, StartRun, StopRun, EndRun, CrashRun, CrashWeb, Tick, vars
  <1>8. QED
    BY <1>1, <1>2, <1>3, <1>4, <1>5, <1>6, <1>7

(* What a claim finds and leaves: the row's lease had run out. *)
LEMMA ClaimEffect ==
  ASSUME TypeOK, NoDryRun, NEW j \in Runs, NEW w \in RetryThreads, NEW r \in Rows,
         Claim(j, w, r)
  PROVE  /\ Exists(r) /\ row[r].lease <= now
         /\ worker[w].pc = "idle"
         /\ \A v \in Workers : v # w => worker'[v] = worker[v]
         /\ worker'[w].row = r /\ worker'[w].base = row[r].attempts
         /\ worker'[w].until = row'[r].lease
         /\ row'[r].status = row[r].status
         /\ row'[r].attempts = row[r].attempts /\ row'[r].requeues = row[r].requeues
  <1>1. row[r] \in RowType /\ run[j] \in RunType /\ now \in Nat /\ w \in Workers
    BY DEF TypeOK, Workers
  <1>2. Exists(r) /\ worker[w].pc = "idle"
    BY DEF Claim, Claimable, Open, Exists
  <1>3. row[r].lease <= now
    <2>1. row[r].lease <= run[j].now /\ run[j].now <= now
      BY DEF Claim, Claimable, NoDryRun
    <2>2. row[r].lease \in Nat /\ run[j].now \in Nat
      BY <1>1 DEF RowType, RunType
    <2>3. QED
      BY <1>1, <2>1, <2>2
  <1>4. row'[r] = [row[r] EXCEPT !.lease = run[j].now + Lease]
    BY DEF Claim, TypeOK
  <1>5. /\ worker'[w] = Assigned(r, run[j].now + Lease, row[r].attempts)
        /\ \A v \in Workers : v # w => worker'[v] = worker[v]
    BY <1>1 DEF Claim, TypeOK
  <1>6. /\ row'[r].lease = run[j].now + Lease /\ row'[r].status = row[r].status
        /\ row'[r].attempts = row[r].attempts /\ row'[r].requeues = row[r].requeues
    BY <1>1, <1>4 DEF RowType
  <1>7. QED
    BY <1>2, <1>3, <1>5, <1>6 DEF Assigned

(* A held lease stays in its row until it runs out. *)
LEMMA HoldsStep ==
  ASSUME TRUE \notin DryRunModes, TypeOK, DeliveryInv, LeaseInv, [Next]_vars,
         NEW w \in RetryThreads
  PROVE  Holds(w)'
  <1> PICK r : r = worker[w].row
    OBVIOUS
  <1>0. now \in Nat /\ now' \in Nat /\ now <= now' /\ NoDryRun /\ Holds(w)
        /\ w \in Workers /\ worker[w] \in WorkerType
    BY NoDryStep DEF LeaseInv, TypeOK, Workers
  <1>1. CASE worker'[w].pc = "idle"
    BY <1>1 DEF Holds
  <1>2. CASE KeepsClaim(w)
    <2>1. /\ r \in Rows /\ row[r].status # "none"
          /\ Exists(r) => worker[w].base <= row[r].attempts
          /\ worker[w].until \in Nat /\ worker[w].base \in Nat /\ row[r] \in RowType
      BY <1>0, <1>2 DEF KeepsClaim, Holds, TypeOK, WorkerType
    <2>2. /\ row'[r].status # "none"
          /\ Exists(r)' => /\ Exists(r)
                           /\ row[r].attempts <= row'[r].attempts
                           /\ row[r].requeues <= row'[r].requeues
      BY <2>1, RowGrows
    <2>3. row'[r].attempts \in Nat /\ row[r].attempts \in Nat
          /\ row'[r].requeues \in Nat /\ row[r].requeues \in Nat
      <3>1. row' \in [Rows -> RowType]
        <4>1. TypeOK'
          BY TypeStep
        <4>2. QED
          BY <4>1 DEF TypeOK
      <3>2. QED
        BY <2>1, <3>1 DEF RowType
    <2>4. Exists(r)' => worker[w].base <= row'[r].attempts
      BY <2>1, <2>2, <2>3
    <2>5. ASSUME Exists(r)', row'[r].requeues = 0, worker[w].base = row'[r].attempts,
                 now' < worker[w].until
          PROVE  row'[r].lease = worker[w].until
      <3>1. /\ Exists(r) /\ row[r].requeues = 0 /\ row'[r].attempts = row[r].attempts
            /\ worker[w].base = row[r].attempts
        BY <2>1, <2>2, <2>3, <2>5
      <3>2. now < worker[w].until
        BY <1>0, <2>1, <2>5
      <3>3. row[r].lease = worker[w].until
        BY <1>0, <1>2, <3>1, <3>2 DEF Holds, KeepsClaim
      <3>4. ASSUME NEW j \in Runs, NEW v \in RetryThreads, Claim(j, v, r) PROVE FALSE
        <4>1. row[r].lease <= now
          BY <1>0, <2>1, <3>4, ClaimEffect
        <4>2. QED
          BY <1>0, <2>1, <3>2, <3>3, <4>1
      <3>5. QED
        BY <1>0, <2>1, <2>5, <3>1, <3>3, <3>4, RowLease
    <2>6. /\ worker'[w].row = r /\ worker'[w].until = worker[w].until
          /\ worker'[w].base = worker[w].base
      BY <1>2 DEF KeepsClaim
    <2>7. QED
      BY <2>2, <2>4, <2>5, <2>6 DEF Holds, Exists
  <1>3. ASSUME NEW j \in Runs, NEW q \in Rows, Claim(j, w, q) PROVE Holds(w)'
    <2>1. /\ Exists(q) /\ worker'[w].row = q /\ worker'[w].base = row[q].attempts
          /\ worker'[w].until = row'[q].lease /\ row'[q].status = row[q].status
          /\ row'[q].attempts = row[q].attempts
      BY <1>0, <1>3, ClaimEffect
    <2>2. row[q].attempts \in Nat /\ row[q].status # "none"
      BY <2>1 DEF TypeOK, RowType, Exists, Unfinished, Finished
    <2>3. QED
      BY <2>1, <2>2 DEF Holds
  <1>4. QED
    BY <1>1, <1>2, <1>3, ClaimSteps DEF Claims

(* A claim finds no live lease on the attempt it takes. *)
LEMMA ExcludesStep ==
  ASSUME TRUE \notin DryRunModes, TypeOK, DeliveryInv, LeaseInv, [Next]_vars,
         NEW v \in RetryThreads, NEW w \in RetryThreads
  PROVE  Excludes(v, w)'
  <1>0. /\ now \in Nat /\ now' \in Nat /\ now <= now' /\ NoDryRun
        /\ v \in Workers /\ w \in Workers
    BY NoDryStep DEF LeaseInv, TypeOK, Workers
  <1>1. ASSUME NEW x \in RetryThreads, KeepsClaim(x), now' < worker'[x].until
        PROVE  /\ worker[x].pc # "idle" /\ worker[x].row \in Rows
               /\ worker'[x].row = worker[x].row /\ worker'[x].base = worker[x].base
               /\ now < worker[x].until /\ row[worker[x].row].status # "none"
    <2>1. worker[x] \in WorkerType /\ worker[x].pc # "idle" /\ Holds(x)
      BY <1>1 DEF TypeOK, Workers, KeepsClaim, LeaseInv
    <2>2. worker[x].until \in Nat /\ worker[x].row \in Rows
      BY <2>1, <1>1 DEF WorkerType, TypeOK, Workers
    <2>3. now < worker[x].until
      BY <1>0, <1>1, <2>2 DEF KeepsClaim
    <2>4. QED
      BY <1>1, <2>1, <2>2, <2>3 DEF KeepsClaim, Holds
  <1>2. ASSUME NEW r \in Rows, row[r].status # "none",
               row[r].requeues > 0 \/ ~Exists(r)
        PROVE  row'[r].requeues > 0 \/ ~Exists(r)'
    <2>1. row[r].requeues \in Nat /\ (Exists(r)' => Exists(r) /\ row[r].requeues <= row'[r].requeues)
      BY <1>2, RowGrows DEF TypeOK, RowType
    <2>2. row'[r].requeues \in Nat
      <3>1. TypeOK'
        BY TypeStep
      <3>2. QED
        BY <3>1 DEF TypeOK, RowType
    <2>3. QED
      BY <1>2, <2>1, <2>2
  <1>3. ASSUME NEW x \in RetryThreads, NEW y \in RetryThreads, x # y,
               KeepsClaim(x), Claims(y), worker'[x].row = worker'[y].row,
               worker'[x].base = worker'[y].base, now' < worker'[x].until
        PROVE  row'[worker'[x].row].requeues > 0
    <2>1. PICK j \in Runs, r \in Rows : Claim(j, y, r)
      BY <1>3 DEF Claims
    <2>2. /\ Exists(r) /\ row[r].lease <= now /\ worker'[y].row = r
          /\ worker'[y].base = row[r].attempts /\ row'[r].requeues = row[r].requeues
      BY <1>0, <2>1, ClaimEffect
    <2>3. /\ worker[x].pc # "idle" /\ worker[x].row = r /\ worker[x].base = row[r].attempts
          /\ now < worker[x].until /\ worker'[x].row = r
      BY <1>1, <1>3, <2>2
    <2>4. row[r].requeues \in Nat /\ row[r].lease \in Nat
      BY DEF TypeOK, RowType
    <2>5. row[r].requeues = 0 => row[r].lease = worker[x].until
      BY <2>2, <2>3 DEF LeaseInv, Holds
    <2>6. row[r].requeues > 0
      BY <1>0, <2>2, <2>3, <2>4, <2>5
    <2>7. QED
      BY <2>2, <2>3, <2>6
  <1>4. ASSUME Claims(v), Claims(w), v # w PROVE worker'[v].pc = "idle"
    BY <1>0, <1>4, ClaimEffect DEF Claims
  <1>5. SUFFICES ASSUME v # w, worker'[v].pc # "idle", worker'[w].pc # "idle",
                        worker'[v].row = worker'[w].row, worker'[v].base = worker'[w].base,
                        now' < worker'[v].until, now' < worker'[w].until
                 PROVE  row'[worker'[v].row].requeues > 0 \/ ~Exists(worker[v].row)'
    BY DEF Excludes
  <1>6. CASE KeepsClaim(v) /\ KeepsClaim(w)
    <2>1. row[worker[v].row].requeues > 0 \/ ~Exists(worker[v].row)
      BY <1>1, <1>5, <1>6 DEF LeaseInv, Excludes
    <2>2. worker'[v].row = worker[v].row /\ row[worker[v].row].status # "none"
          /\ worker[v].row \in Rows
      BY <1>1, <1>5, <1>6
    <2>3. QED
      BY <1>2, <2>1, <2>2 DEF Exists
  <1>7. CASE KeepsClaim(v) /\ Claims(w)
    BY <1>3, <1>5, <1>7
  <1>8. CASE Claims(v) /\ KeepsClaim(w)
    BY <1>3, <1>5, <1>8
  <1>9. QED
    BY <1>4, <1>5, <1>6, <1>7, <1>8, ClaimSteps

(* Overlapping retry runs do not work on one attempt of a row under two     *)
(* live leases, however late their threads are: claim_next_pending_outbox   *)
(* tests locked_until at the time its run began, which is in the past.  The *)
(* theorem is about real runs: the unlock of a dry run clears a lease it    *)
(* may no longer hold.                                                     *)
THEOREM LeaseCorrect == (TRUE \notin DryRunModes) => (Spec => []LeaseExclusive)
  <1> SUFFICES ASSUME TRUE \notin DryRunModes PROVE Spec => []LeaseExclusive
    OBVIOUS
  <1>1. Init => LeaseInv
    <2> SUFFICES ASSUME Init PROVE LeaseInv
      OBVIOUS
    <2>1. \A w \in RetryThreads : worker[w].pc = "idle"
      BY IdleWorkerType DEF Init, Workers
    <2>2. NoDryRun
      BY DEF Init, NoDryRun, IdleRun
    <2>3. QED
      BY <2>1, <2>2 DEF LeaseInv, Holds, Excludes
  <1>2. TypeOK /\ DeliveryInv /\ LeaseInv /\ [Next]_vars => LeaseInv'
    BY NoDryStep, HoldsStep, ExcludesStep DEF LeaseInv
  <1>3. LeaseInv => LeaseExclusive
    BY DEF LeaseInv, Excludes, LeaseExclusive
  <1>4. QED
    BY <1>1, <1>2, <1>3, TypeCorrect, DeliveryCorrect, PTL DEF Spec
=============================================================================
