------------------------------- MODULE Outbox -------------------------------
(***************************************************************************)
(* The transactional outbox of apps/actions: an event commits one row per  *)
(* enabled webhook rule (and one email row), a thread of the web process   *)
(* POSTs each row right after the commit, and runs of retry_webhooks claim *)
(* what is left under a lease and POST it again until it is delivered or   *)
(* dead.  The threads share nothing but the database: every action below   *)
(* is one committed transaction, one POST, or one in-memory hand-over.     *)
(***************************************************************************)
EXTENDS Naturals, Sequences, FiniteSets

CONSTANTS
  Events,           \* domain events that may be emitted, each at most once
  Rules,            \* webhook rules of the company
  Email,            \* stands for the email-service target of an event
  EmailConfigured,  \* EMAIL_SERVICE_API_KEY is set
  Dispatchers,      \* threads of the web process's dispatch pool
  RetryThreads,     \* threads of the pools of retry_webhooks runs
  Runs,             \* retry_webhooks processes that may overlap
  RunOf,            \* the run each retry thread belongs to
  DryRunModes,      \* values --dry-run may have: {FALSE} or BOOLEAN
  MaxAttempts,      \* ACTIONS_OUTBOX_MAX_ATTEMPTS
  Lease,            \* ACTIONS_WEBHOOK_RETRY_LEASE_SECONDS, in ticks
  RetryDelays,      \* possible values of compute_retry_delay_seconds, in ticks
  MaxRequeues,      \* bound: requeues of one row
  MaxCrashes,       \* bound: process crashes
  MaxTime           \* bound: last tick of the clock

ASSUME TargetAssumption == Email \notin Rules /\ EmailConfigured \in BOOLEAN
ASSUME ThreadAssumption == /\ Dispatchers \cap RetryThreads = {}
                           /\ RunOf \in [RetryThreads -> Runs]
                           /\ DryRunModes \subseteq BOOLEAN
ASSUME LimitAssumption  == /\ MaxAttempts \in Nat \ {0}
                           /\ Lease \in Nat
                           /\ RetryDelays \subseteq Nat \ {0}
                           /\ MaxRequeues \in Nat
                           /\ MaxCrashes \in Nat
                           /\ MaxTime \in Nat

VARIABLES
  now,       \* the clock, in ticks; 0 as a timestamp is SQL NULL
  rule,      \* rule[u]: state of the ActionRule row
  row,       \* row[r]: the ActionOutbox row
  log,       \* log[r]: the DeliveryAttempt rows of r, oldest first
  receipt,   \* receipt[r]: what POSTs of r came to at the receiver (observer's)
  queue,     \* rows submitted to the dispatch pool and not yet picked up
  worker,    \* worker[w]: what delivery thread w is doing
  run,       \* run[j]: state of a retry_webhooks run
  purge,     \* rows purge_expired_data has selected and not yet deleted
  crashes    \* crashes so far

vars == <<now, rule, row, log, receipt, queue, worker, run, purge,
          crashes>>

-----------------------------------------------------------------------------
Rows    == Events \X (Rules \cup IF EmailConfigured THEN {Email} ELSE {})
Workers == Dispatchers \cup RetryThreads
RuleOf(r)  == r[2]
IsEmail(r) == r[2] = Email

Unfinished == {"pending", "failed"}
Finished   == {"delivered", "dead"}
RowType    == [status   : {"none", "gone"} \cup Unfinished \cup Finished,
               attempts : Nat,      \* attempt_count
               next     : Nat,      \* next_attempt_at
               lease    : Nat,      \* locked_until
               requeues : Nat]      \* observer's count of requeues
NoRow   == [status |-> "none", attempts |-> 0, next |-> 0, lease |-> 0,
            requeues |-> 0]
NewRow  == [NoRow EXCEPT !.status = "pending"]
GoneRow == [NoRow EXCEPT !.status = "gone"]

Exists(r) == row[r].status \in Unfinished \cup Finished
Open(r)   == row[r].status \in Unfinished

Results == {"ok", "retry", "permanent", "terminal"}

(* What a POST may come to: the receiver took it, or its address answered   *)
(* neither 2xx nor an error, with a redirect that nobody follows.          *)
Receipts == {"taken", "diverted"}

(* A delivery thread.  seen is snapshot_attempt, until and base are the     *)
(* lease its claim wrote and the attempt_count the claim saw.              *)
WorkerType ==
  [pc     : {"idle", "assigned", "posting", "applying"},
   row    : Rows \cup {<<>>},
   seen   : Nat,
   result : Results \cup {"none"},
   until  : Nat,
   base   : Nat]
IdleWorker == [pc |-> "idle", row |-> <<>>, seen |-> 0, result |-> "none",
               until |-> 0, base |-> 0]
Assigned(r, t, n) == [pc |-> "assigned", row |-> r, seen |-> 0,
                      result |-> "none", until |-> t, base |-> n]

(* A run.  now is the timestamp frozen when the run began; held is the row  *)
(* a dry run has claimed and not yet unlocked.                             *)
RunType == [pc : {"idle", "running", "draining"}, now : Nat, dry : BOOLEAN,
            held : Rows \cup {<<>>}]
IdleRun == [pc |-> "idle", now |-> 0, dry |-> FALSE, held |-> <<>>]

TypeOK ==
  /\ now \in Nat
  /\ rule \in [Rules -> {"enabled", "disabled", "deleted"}]
  /\ row \in [Rows -> RowType]
  /\ log \in [Rows -> Seq([sent : Nat, result : Results])]
  /\ receipt \in [Rows -> SUBSET Receipts]
  /\ queue \subseteq Rows
  /\ worker \in [Workers -> WorkerType]
  /\ \A w \in Workers : /\ worker[w].pc # "idle" => worker[w].row \in Rows
                        /\ worker[w].pc = "applying" => worker[w].result # "none"
  /\ run \in [Runs -> RunType]
  /\ purge \subseteq Rows
  /\ crashes \in 0 .. MaxCrashes

Init ==
  /\ now = 1
  /\ rule \in [Rules -> {"enabled", "disabled"}]
  /\ row = [r \in Rows |-> NoRow]
  /\ log = [r \in Rows |-> <<>>]
  /\ receipt = [r \in Rows |-> {}]
  /\ queue = {}
  /\ worker = [w \in Workers |-> IdleWorker]
  /\ run = [j \in Runs |-> IdleRun]
  /\ purge = {}
  /\ crashes = 0

-----------------------------------------------------------------------------
(* Emission and administration.                                            *)

(* emit_event inside the caller's transaction; the on_commit hook submits  *)
(* the new rows to the dispatch pool.  No lease is taken for them.         *)
Emit(e) ==
  LET targets == {u \in Rules : rule[u] = "enabled"}
                   \cup (IF EmailConfigured THEN {Email} ELSE {})
      new     == {e} \X targets
  IN  /\ new # {}
      /\ \A r \in Rows : r[1] = e => row[r].status = "none"
      /\ row' = [r \in Rows |-> IF r \in new THEN NewRow ELSE row[r]]
      /\ queue' = queue \cup new
      /\ UNCHANGED <<now, rule, log, receipt, worker, run, purge, crashes>>

(* PATCH of a rule saves the whole row it loaded: it may write back an old  *)
(* flag, or insert again a row that was deleted meanwhile.                  *)
SetEnabled(u, s) ==
  /\ rule' = [rule EXCEPT ![u] = s]
  /\ UNCHANGED <<now, row, log, receipt, queue, worker, run, purge, crashes>>

(* The rows in S are deleted, their DeliveryAttempt rows with them. *)
RemoveRows(S) ==
  /\ row' = [r \in Rows |-> IF r \in S /\ Exists(r) THEN GoneRow ELSE row[r]]
  /\ log' = [r \in Rows |-> IF r \in S /\ Exists(r) THEN <<>> ELSE log[r]]

(* DELETE of a rule; its outbox rows cascade whatever their status. *)
DeleteRule(u) ==
  /\ rule[u] # "deleted"
  /\ rule' = [rule EXCEPT ![u] = "deleted"]
  /\ RemoveRows({r \in Rows : RuleOf(r) = u})
  /\ UNCHANGED <<now, receipt, queue, worker, run, purge, crashes>>

(* delete_company_rows: every rule and every outbox row of the company. *)
DeleteCompanyRows ==
  /\ \E r \in Rows : Exists(r)
  /\ rule' = [u \in Rules |-> "deleted"]
  /\ RemoveRows(Rows)
  /\ UNCHANGED <<now, receipt, queue, worker, run, purge, crashes>>

(* Mutant: the purge forgets the status condition. *)
ExpirableAny(r) == Exists(r)

(* What purge_expired_data may delete once it is old enough. *)
Expirable(r) == row[r].status \in Finished

(* purge_expired_data: a batch of ids is read (the age of a row is left    *)
(* open), then those ids are deleted, whatever their rows are by then.     *)
PurgeSelect(S) ==
  /\ purge = {} /\ S # {}
  /\ \A r \in S : Expirable(r)
  /\ purge' = S
  /\ UNCHANGED <<now, rule, row, log, receipt, queue, worker, run, crashes>>

PurgeDelete ==
  /\ purge # {}
  /\ RemoveRows(purge)
  /\ purge' = {}
  /\ UNCHANGED <<now, rule, receipt, queue, worker, run, crashes>>

Requeued(old) == [status |-> "pending", attempts |-> old.attempts, next |-> 0,
                  lease |-> 0, requeues |-> old.requeues + 1]

(* POST .../deliveries/{id}/requeue.  attempt_count is left alone. *)
Requeue(r) ==
  /\ ~IsEmail(r)
  /\ Exists(r)
  /\ row[r].requeues < MaxRequeues
  /\ row' = [row EXCEPT ![r] = Requeued(@)]
  /\ UNCHANGED <<now, rule, log, receipt, queue, worker, run, purge, crashes>>

-----------------------------------------------------------------------------
(* One delivery: deliver_outbox_row, by a thread w that has a row.         *)

(* A dispatch thread takes the next submitted row. *)
PickUp(w, r) ==
  /\ worker[w].pc = "idle"
  /\ r \in queue
  /\ queue' = queue \ {r}
  /\ worker' = [worker EXCEPT ![w] = Assigned(r, 0, 0)]
  /\ UNCHANGED <<now, rule, row, log, receipt, run, purge, crashes>>

RuleError(r) == ~IsEmail(r) /\ rule[RuleOf(r)] # "enabled"

(* First transaction, row missing or already finished: nothing to do. *)
BeginNothing(w) ==
  /\ worker[w].pc = "assigned"
  /\ ~Open(worker[w].row)
  /\ worker' = [worker EXCEPT ![w] = IdleWorker]
  /\ UNCHANGED <<now, rule, row, log, receipt, queue, run, purge, crashes>>

(* First transaction, rule disabled: a terminal failure without a POST. *)
BeginTerminal(w) ==
  LET r == worker[w].row IN
  /\ worker[w].pc = "assigned"
  /\ Open(r) /\ RuleError(r)
  /\ worker' = [worker EXCEPT ![w].pc = "applying", ![w].result = "terminal",
                              ![w].seen = row[r].attempts]
  /\ UNCHANGED <<now, rule, row, log, receipt, queue, run, purge, crashes>>

(* First transaction: remember attempt_count, rule and envelope, unlock. *)
BeginPost(w) ==
  LET r == worker[w].row IN
  /\ worker[w].pc = "assigned"
  /\ Open(r) /\ ~RuleError(r)
  /\ worker' = [worker EXCEPT ![w].pc = "posting",
                              ![w].seen = row[r].attempts]
  /\ UNCHANGED <<now, rule, row, log, receipt, queue, run, purge, crashes>>

(* Mutant: a timeout is taken for a success. *)
OutcomesHopeful(r) == {<<"ok", {"taken"}>>, <<"ok", {}>>,
                       <<"retry", {"taken"}>>, <<"permanent", {}>>}

(* An answer in time: a success that the receiver took, a refusal, one to   *)
(* be retried, or a redirect, which nobody follows.  A webhook fails only   *)
(* from status 400 on, so its redirect is recorded as a success; the e-mail *)
(* channel takes 2xx alone for one, and tries a redirect again.            *)
WebhookAnswered == {<<"ok", {"taken"}>>, <<"permanent", {}>>, <<"retry", {}>>,
                    <<"ok", {"diverted"}>>}
EmailAnswered   == {<<"ok", {"taken"}>>, <<"permanent", {}>>, <<"retry", {}>>,
                    <<"retry", {"diverted"}>>}
AnsweredLax(r) == WebhookAnswered    \* mutant: e-mail judged like a webhook
Answered(r) == IF IsEmail(r) THEN EmailAnswered ELSE WebhookAnswered

(* A timeout or a broken connection: the receiver may have taken the POST. *)
Broken == {<<"retry", {}>>, <<"retry", {"taken"}>>}

(* What the sender concludes, and what the POST came to. *)
Outcomes(r) == Answered(r) \cup Broken

(* The HTTP request, outside any transaction. *)
Post(w) ==
  /\ worker[w].pc = "posting"
  /\ \E o \in Outcomes(worker[w].row) :
       /\ worker' = [worker EXCEPT ![w].pc = "applying", ![w].result = o[1]]
       /\ receipt' = [receipt EXCEPT ![worker[w].row] = @ \cup o[2]]
  /\ UNCHANGED <<now, rule, row, log, queue, run, purge, crashes>>

Attempted(old, s, t) ==
  [status |-> s, attempts |-> old.attempts + 1, next |-> t, lease |-> 0,
   requeues |-> old.requeues]

(* Mutant: the attempt limit is off by one. *)
AppliedOneMore(old, result) ==
  IF result = "ok" THEN {Attempted(old, "delivered", 0)}
  ELSE IF result # "retry" \/ old.attempts + 1 > MaxAttempts
    THEN {Attempted(old, "dead", 0)}
    ELSE {Attempted(old, "failed", now + d) : d \in RetryDelays}

(* The rows _apply_delivery_result may leave behind. *)
Applied(old, result) ==
  IF result = "ok" THEN {Attempted(old, "delivered", 0)}
  ELSE IF result # "retry" \/ old.attempts + 1 >= MaxAttempts
    THEN {Attempted(old, "dead", 0)}
    ELSE {Attempted(old, "failed", now + d) : d \in RetryDelays}

(* Mutant: the second transaction does not compare attempt_count. *)
CurrentAlways(w) == worker[w].seen = worker[w].seen

(* The result still belongs to the row: nobody recorded an attempt since. *)
Current(w) == row[worker[w].row].attempts = worker[w].seen

(* Second transaction: the result becomes attempt attempt_count + 1. *)
ApplyResult(w) ==
  LET r == worker[w].row IN
  /\ worker[w].pc = "applying"
  /\ Exists(r) /\ Current(w)
  /\ \E new \in Applied(row[r], worker[w].result) :
       row' = [row EXCEPT ![r] = new]
  /\ log' = [log EXCEPT ![r] = Append(@, [sent   |-> worker[w].seen + 1,
                                          result |-> worker[w].result])]
  /\ worker' = [worker EXCEPT ![w] = IdleWorker]
  /\ UNCHANGED <<now, rule, receipt, queue, run, purge, crashes>>

(* Second transaction: another thread recorded an attempt meanwhile, or the *)
(* row is gone (.get raises DoesNotExist, which the dispatcher swallows and *)
(* which at most ends the claiming of the thread's run: see StopRun).      *)
DiscardResult(w) ==
  /\ worker[w].pc = "applying"
  /\ ~(Exists(worker[w].row) /\ Current(w))
  /\ worker' = [worker EXCEPT ![w] = IdleWorker]
  /\ UNCHANGED <<now, rule, row, log, receipt, queue, run, purge, crashes>>

-----------------------------------------------------------------------------
(* retry_pending_webhooks.                                                 *)

StartRun(j) ==
  /\ run[j].pc = "idle"
  /\ \E d \in DryRunModes :
       run' = [run EXCEPT ![j] = [pc |-> "running", now |-> now, dry |-> d,
                                  held |-> <<>>]]
  /\ UNCHANGED <<now, rule, row, log, receipt, queue, worker, purge, crashes>>

(* Mutants: the filter ignores leases; it never takes an expired one over. *)
ClaimableLeased(r, t)  == Open(r) /\ row[r].next <= t
ClaimableUnlocked(r, t) == Open(r) /\ row[r].next <= t /\ row[r].lease = 0

(* _pending_outbox_filter at time t. *)
Claimable(r, t) == Open(r) /\ row[r].next <= t /\ row[r].lease <= t

(* claim_next_pending_outbox.  Rows another transaction has locked are      *)
(* skipped, so the first free one may be any claimable row.                *)
Claim(j, w, r) ==
  /\ run[j].pc = "running" /\ ~run[j].dry
  /\ RunOf[w] = j /\ worker[w].pc = "idle"
  /\ Claimable(r, run[j].now)
  /\ row' = [row EXCEPT ![r].lease = run[j].now + Lease]
  /\ worker' = [worker EXCEPT ![w] =
                  Assigned(r, run[j].now + Lease, row[r].attempts)]
  /\ UNCHANGED <<now, rule, log, receipt, queue, run, purge, crashes>>

(* --dry-run: claim a row, then clear its lease in a second transaction,   *)
(* whoever holds it by then.                                               *)
DryClaim(j, r) ==
  /\ run[j].pc = "running" /\ run[j].dry /\ run[j].held = <<>>
  /\ Claimable(r, run[j].now)
  /\ row' = [row EXCEPT ![r].lease = run[j].now + Lease]
  /\ run' = [run EXCEPT ![j].held = r]
  /\ UNCHANGED <<now, rule, log, receipt, queue, worker, purge, crashes>>

DryRelease(j) ==
  LET r == run[j].held IN
  /\ run[j].held # <<>>
  /\ row' = IF Exists(r) THEN [row EXCEPT ![r].lease = 0] ELSE row
  /\ run' = [run EXCEPT ![j].held = <<>>]
  /\ UNCHANGED <<now, rule, log, receipt, queue, worker, purge, crashes>>

(* The run stops claiming: batch size, deadline, nothing claimable, or an   *)
(* exception from one of its threads.                                      *)
StopRun(j) ==
  /\ run[j].pc = "running" /\ run[j].held = <<>>
  /\ run' = [run EXCEPT ![j] = [IdleRun EXCEPT !.pc = "draining"]]
  /\ UNCHANGED <<now, rule, row, log, receipt, queue, worker, purge, crashes>>

(* executor.shutdown(wait=True): the run ends when its threads are done. *)
EndRun(j) ==
  /\ run[j].pc = "draining"
  /\ \A w \in RetryThreads : RunOf[w] = j => worker[w].pc = "idle"
  /\ run' = [run EXCEPT ![j] = IdleRun]
  /\ UNCHANGED <<now, rule, row, log, receipt, queue, worker, purge, crashes>>

-----------------------------------------------------------------------------
(* Crashes and time.                                                       *)

(* The web process dies: its pool's backlog and its threads are lost. *)
CrashWeb ==
  /\ crashes < MaxCrashes
  /\ crashes' = crashes + 1
  /\ queue' = {}
  /\ worker' = [w \in Workers |-> IF w \in Dispatchers THEN IdleWorker
                                                       ELSE worker[w]]
  /\ UNCHANGED <<now, rule, row, log, receipt, run, purge>>

(* The process of a run dies: its leases stay in the database. *)
CrashRun(j) ==
  /\ crashes < MaxCrashes
  /\ run[j].pc # "idle"
  /\ crashes' = crashes + 1
  /\ worker' = [w \in Workers |-> IF w \in RetryThreads /\ RunOf[w] = j
                                    THEN IdleWorker ELSE worker[w]]
  /\ run' = [run EXCEPT ![j] = IdleRun]
  /\ UNCHANGED <<now, rule, row, log, receipt, queue, purge>>

(* Time passes.  It can matter only while a timestamp lies in the future.  *)
Tick ==
  /\ now < MaxTime
  /\ \E r \in Rows : now < row[r].next \/ now < row[r].lease
  /\ now' = now + 1
  /\ UNCHANGED <<rule, row, log, receipt, queue, worker, run, purge, crashes>>

-----------------------------------------------------------------------------
Administer ==
  \/ \E e \in Events : Emit(e)
  \/ \E u \in Rules : DeleteRule(u) \/ \E s \in {"enabled", "disabled"} :
                                         SetEnabled(u, s)
  \/ DeleteCompanyRows
  \/ \E S \in SUBSET Rows : PurgeSelect(S)
  \/ PurgeDelete
  \/ \E r \in Rows : Requeue(r)

Begin(w)   == BeginNothing(w) \/ BeginTerminal(w) \/ BeginPost(w)
Settle(w)  == ApplyResult(w) \/ DiscardResult(w)
Deliver(w) == Begin(w) \/ Post(w) \/ Settle(w)

Next ==
  \/ Administer
  \/ \E w \in Dispatchers, r \in Rows : PickUp(w, r)
  \/ \E w \in Workers : Deliver(w)
  \/ \E j \in Runs : \/ StartRun(j) \/ StopRun(j) \/ EndRun(j)
                     \/ \E w \in RetryThreads, r \in Rows : Claim(j, w, r)
                     \/ \E r \in Rows : DryClaim(j, r)
                     \/ DryRelease(j)
                     \/ CrashRun(j)
  \/ CrashWeb
  \/ Tick

Spec == Init /\ [][Next]_vars

(* What the deployment guarantees: pool threads run, a container starts a   *)
(* run every minute and a run looks for a claimable row before its          *)
(* deadline, and the clock advances.  Crashes and administration are not   *)
(* promised to happen, nor is a dispatch thread: its backlog may be lost.  *)
Fairness ==
  /\ WF_vars(Tick)
  /\ \A w \in Workers : WF_vars(Deliver(w))
  /\ \A j \in Runs : /\ WF_vars(StartRun(j)) /\ WF_vars(StopRun(j))
                     /\ WF_vars(EndRun(j))   /\ WF_vars(DryRelease(j))
                     /\ SF_vars(\E w \in RetryThreads, r \in Rows :
                                                         Claim(j, w, r))

FairSpec == Spec /\ Fairness

-----------------------------------------------------------------------------
(* Properties.                                                             *)

(* The delivery log of a row is exact: its DeliveryAttempt rows are numbered *)
(* 1, 2, ..., attempt_count, and attempt n is the outcome of a POST that    *)
(* announced itself as attempt n (X-Shellui-Delivery-Attempt), however many *)
(* threads were POSTing the row (deliver_outbox_row's attempt_count test).  *)
AttemptLogExact ==
  \A r \in Rows :
    /\ Len(log[r]) = row[r].attempts
    /\ \A i \in 1 .. Len(log[r]) : log[r][i].sent = i

(* The status of a row that nobody requeued is the verdict of its attempts: *)
(* every attempt but the last was a retryable failure below the limit, and  *)
(* the last one decides between failed, delivered and dead.                 *)
StatusFollowsLog ==
  \A r \in Rows : LET n == Len(log[r]) IN
    Exists(r) /\ row[r].requeues = 0 =>
      /\ \A i \in 1 .. n - 1 : log[r][i].result = "retry" /\ i < MaxAttempts
      /\ row[r].status = "pending" <=> n = 0
      /\ row[r].status = "delivered" <=> n > 0 /\ log[r][n].result = "ok"
      /\ row[r].status = "failed" <=> /\ n > 0 /\ log[r][n].result = "retry"
                                     /\ n < MaxAttempts

(* What c, the receipts of r's own POSTs, must hold for r to be delivered:  *)
(* a 2xx, or, for a webhook, any other status below 400.                   *)
Credits(c, r) == "taken" \in c \/ (~IsEmail(r) /\ "diverted" \in c)

(* A row is marked delivered only if one of its own POSTs was answered: an  *)
(* e-mail was taken by the service, a webhook was taken or redirected (the  *)
(* docs know only 2xx; deliver_webhook_action fails from 400 on).  Neither  *)
(* a timeout nor the answer to another thread's POST of another row counts. *)
DeliveredWasAnswered ==
  \A r \in Rows : row[r].status = "delivered" => Credits(receipt[r], r)

(* Attempts are limited by ACTIONS_OUTBOX_MAX_ATTEMPTS, plus one for each   *)
(* requeue, and a row that is still open has an attempt left.               *)
AttemptBudget ==
  \A r \in Rows :
    /\ row[r].attempts <= MaxAttempts + row[r].requeues
    /\ Open(r) => row[r].attempts < MaxAttempts + row[r].requeues
    /\ row[r].status = "failed" => row[r].attempts < MaxAttempts

(* The lease separates overlapping retry runs: two retry threads whose      *)
(* leases are both live never work on the same attempt of a row, unless the *)
(* row was requeued, which clears the lease under its holder.               *)
LeaseExclusive ==
  \A v, w \in RetryThreads :
    /\ v # w /\ worker[v].pc # "idle" /\ worker[w].pc # "idle"
    /\ worker[v].row = worker[w].row /\ worker[v].base = worker[w].base
    /\ now < worker[v].until /\ now < worker[w].until
    => row[worker[v].row].requeues > 0 \/ ~Exists(worker[v].row)

(* A finished row is final: a late answer of a slower thread changes        *)
(* neither its status nor its attempts; only an administrator's requeue     *)
(* reopens it, and deletion removes it.                                     *)
FinishedIsFinal ==
  [][\A r \in Rows : row[r].status \in Finished =>
       \/ row'[r] = row[r] /\ log'[r] = log[r]
       \/ row'[r].status = "gone"
       \/ row'[r].requeues > row[r].requeues]_vars

(* Retention spares work in progress: the purge job deletes by id, so the   *)
(* only pending or failed row it can ever hit is one an administrator       *)
(* requeued after the ids were read; deliveries alone never reopen one.     *)
PurgeSparesOpen ==
  [][\A r \in purge : Open(r) /\ purge' = {} => row[r].requeues > 0]_vars

(* Nothing is forgotten: every row an event committed is in the end         *)
(* delivered, dead or deleted, although its dispatch may be lost in a crash *)
(* and a run may die holding its lease.                                     *)
OpenRowsSettle == \A r \in Rows : Open(r) ~> ~Open(r)

(* What every thread between its two transactions may rely on.  It is the   *)
(* strengthening that makes the invariants above inductive: attempt_count   *)
(* only grows, a row whose count has not moved since the snapshot has not   *)
(* finished, and a success to be recorded was answered by the receiver.     *)
SnapshotInv ==
  \A w \in Workers : LET r == worker[w].row IN
    worker[w].pc \in {"posting", "applying"} =>
      /\ row[r].status # "none"
      /\ Exists(r) => worker[w].seen <= row[r].attempts
      /\ Exists(r) /\ Current(w) => Open(r)
      /\ worker[w].pc = "applying" /\ worker[w].result = "ok" => Credits(receipt[r], r)

FreshRows == \A r \in Rows : row[r].status = "none" => row[r] = NoRow

DeliveryInv == /\ FreshRows
               /\ AttemptLogExact
               /\ AttemptBudget
               /\ DeliveredWasAnswered
               /\ SnapshotInv

-----------------------------------------------------------------------------
(* The outbox seen from outside implements the delivery contract. *)
OutsideStatus ==
  [r \in Rows |-> IF Open(r) THEN "open" ELSE row[r].status]

Contract == INSTANCE DeliveryContract
              WITH Messages <- Rows, Checked <- {r \in Rows : IsEmail(r)},
                   status <- OutsideStatus

(* Every behaviour of the outbox is one the contract allows. *)
ImplementsContract == Contract!Spec
=============================================================================
