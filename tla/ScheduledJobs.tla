--------------------------- MODULE ScheduledJobs ---------------------------
(***************************************************************************)
(* One scheduled job: Celery workers that take the Redis lock of           *)
(* config/task_lock.py, operators who start the management command without *)
(* it, and what both record through apps/actions/scheduled_jobs.py: the     *)
(* ScheduledJobRun rows, the platform events, the ScheduledJobState row and *)
(* the counters, from which the job's health is computed.  Redis and the    *)
(* database are not one transaction; every action is one Redis command or  *)
(* one autocommitted statement, and a process may die between any two.     *)
(***************************************************************************)
EXTENDS Integers, FiniteSets

CONSTANTS
  Workers,     \* processes that may execute the job
  RunIds,      \* bound: primary keys of the runs that may be recorded
  LockTTL,     \* RETRY_WEBHOOKS_LOCK_TTL or PURGE_EXPIRED_DATA_LOCK_TTL
  MaxRuntime,  \* JobSpec.max_runtime_seconds
  Retention,   \* RUN_RETENTION_DAYS
  Overdue,     \* JobSpec.overdue_after_seconds
  MaxTime,     \* bound: last tick of the clock
  MaxSkips,    \* bound: skipped runs
  Nobody       \* no token in the lock, no run

ASSUME JobAssumption ==
  /\ LockTTL \in Nat \ {0} /\ MaxRuntime \in Nat /\ Retention \in Nat
  /\ Overdue \in Nat
  /\ MaxTime \in Nat /\ MaxSkips \in Nat
  /\ Nobody \notin Workers \cup RunIds
  /\ IsFiniteSet(RunIds)

VARIABLES
  now,        \* the clock
  lock,       \* the Redis key: whose token it holds and when it expires
  proc,       \* proc[w]: what worker w is doing
  run,        \* run[i]: the ScheduledJobRun row
  state,      \* the ScheduledJobState row; times are -1 before they are set
  event,      \* event[i]: the platform event that was recorded for run i
  counter,    \* ScheduledJobCounter values runs.<status>
  counted,    \* counted[i]: how often run i went into a counter (observer)
  overstayed, \* runs that were alive past MaxRuntime (observer)
  lastGood    \* when a run last did its work without an error (observer)

observed == <<counted, overstayed, lastGood>>
vars     == <<now, lock, proc, run, state, event, counter, observed>>

-----------------------------------------------------------------------------
Steps == {"idle", "skip", "create", "start", "mark", "countmarked", "work", "announce",
          "save", "stamp", "count", "release"}
RunType  == [status : {"none", "running", "succeeded", "failed", "gone"},
             started : Nat]
ProcType == [pc : Steps, run : RunIds \cup {Nobody},
             until  : Nat,                   \* expiry of the lock it took, or 0
             doomed : BOOLEAN,               \* Redis failed before the start
             ok     : BOOLEAN,               \* the work raised nothing
             at     : Nat,                   \* now, as _finish read it
             marked : SUBSET RunIds]         \* runs its UPDATE interrupted
IdleProc == [pc |-> "idle", run |-> Nobody, until |-> 0, doomed |-> FALSE,
             ok |-> FALSE, at |-> 0, marked |-> {}]
StateType == [created : Int,                 \* when the job began to be watched
              started : BOOLEAN,             \* last_started_at is set
              success : Int]                 \* last_success_at
Kinds    == {"succeeded", "failed", "skipped_locked"}

Inside(w) == proc[w].pc \notin {"idle", "skip"}
Alive(i)  == \E w \in Workers : proc[w].run = i

TypeOK ==
  /\ now \in 0 .. MaxTime
  /\ lock \in [owner : Workers \cup {Nobody}, expires : Nat]
  /\ proc \in [Workers -> ProcType]
  /\ run \in [RunIds -> RunType]
  /\ state \in StateType
  /\ event \in [RunIds -> {"none", "succeeded", "failed"}]
  /\ counter \in [Kinds -> Nat]
  /\ counted \in [RunIds -> Nat]
  /\ overstayed \subseteq RunIds
  /\ lastGood \in Int

Init ==
  /\ now = 0
  /\ lock = [owner |-> Nobody, expires |-> 0]
  /\ proc = [w \in Workers |-> IdleProc]
  /\ run = [i \in RunIds |-> [status |-> "none", started |-> 0]]
  /\ state = [created |-> -1, started |-> FALSE, success |-> -1]
  /\ event = [i \in RunIds |-> "none"]
  /\ counter = [k \in Kinds |-> 0]
  /\ counted = [i \in RunIds |-> 0]
  /\ overstayed = {}
  /\ lastGood = -1

At(w, pc)   == proc[w].pc = pc
GoTo(w, pc) == proc' = [proc EXCEPT ![w].pc = pc]
Leave(w)    == proc' = [proc EXCEPT ![w] = [IdleProc EXCEPT !.pc = "release",
                                                            !.until = proc[w].until]]

-----------------------------------------------------------------------------
(* The lock.                                                               *)

NeverHeld(w)   == FALSE                      \* mutant: SET without NX
HeldByOther(w) == lock.expires > now

(* A beat's message is executed: SET key token NX EX ttl. *)
Acquire(w) ==
  /\ At(w, "idle")
  /\ IF HeldByOther(w)
       THEN GoTo(w, "skip") /\ UNCHANGED lock
       ELSE /\ lock' = [owner |-> w, expires |-> now + LockTTL]
            /\ proc' = [proc EXCEPT ![w] =
                          [IdleProc EXCEPT !.pc = "create", !.until = now + LockTTL]]
  /\ UNCHANGED <<now, run, state, event, counter, observed>>

(* The command to Redis fails, perhaps after it was carried out: the run is *)
(* recorded as failed and nobody will release the lock.                    *)
AcquireError(w) ==
  /\ At(w, "idle")
  /\ lock' \in {lock, IF HeldByOther(w) THEN lock
                       ELSE [owner |-> w, expires |-> now + LockTTL]}
  /\ proc' = [proc EXCEPT ![w] = [IdleProc EXCEPT !.pc = "create", !.doomed = TRUE]]
  /\ UNCHANGED <<now, run, state, event, counter, observed>>

(* manage.py retry_webhooks by an operator or an external scheduler. *)
RunCommand(w) ==
  /\ At(w, "idle")
  /\ GoTo(w, "create")
  /\ UNCHANGED <<now, lock, run, state, event, counter, observed>>

(* ScheduledJobState.get_or_create: the row exists, created now if need be. *)
Ensured == [state EXCEPT !.created = IF @ = -1 THEN now ELSE @]

(* record_skipped; last_skipped_at is only displayed. *)
RecordSkipped(w) ==
  /\ At(w, "skip") /\ counter["skipped_locked"] < MaxSkips
  /\ state' = Ensured
  /\ counter' = [counter EXCEPT !["skipped_locked"] = @ + 1]
  /\ proc' = [proc EXCEPT ![w] = IdleProc]
  /\ UNCHANGED <<now, lock, run, event, observed>>

(* record_skipped raises: the task records a run that failed before it began. *)
SkipError(w) ==
  /\ At(w, "skip")
  /\ proc' = [proc EXCEPT ![w] = [IdleProc EXCEPT !.pc = "create", !.doomed = TRUE]]
  /\ UNCHANGED <<now, lock, run, state, event, counter, observed>>

MineAlways(w) == lock.owner # Nobody          \* mutant: DEL without comparing
Mine(w)       == lock.owner = w

(* The release script, or a Redis error that leaves the key to expire. *)
Release(w) ==
  /\ At(w, "release")
  /\ lock' \in {lock, IF proc[w].until > 0 /\ Mine(w)
                        THEN [owner |-> Nobody, expires |-> 0] ELSE lock}
  /\ proc' = [proc EXCEPT ![w] = IdleProc]
  /\ UNCHANGED <<now, run, state, event, counter, observed>>

-----------------------------------------------------------------------------
(* record_run.                                                             *)

Create(w, i) ==
  /\ At(w, "create")
  /\ run[i].status = "none"
  /\ run' = [run EXCEPT ![i] = [status |-> "running", started |-> now]]
  /\ proc' = [proc EXCEPT ![w].pc = "start", ![w].run = i]
  /\ UNCHANGED <<now, lock, state, event, counter, observed>>

(* _ensure_state and last_started_at. *)
Start(w) ==
  /\ At(w, "start")
  /\ state' = [Ensured EXCEPT !.started = TRUE]
  /\ GoTo(w, "mark")
  /\ UNCHANGED <<now, lock, run, event, counter, observed>>

(* Mutants: the cutoff is off by one; finished rows are taken; none is.     *)
InterruptedAny(i, s)      == run[i].status # "none" /\ run[i].started < s - MaxRuntime
InterruptedNever(i, s)    == run[i].status = "unknown"

(* A row the run started at s takes for one whose worker died. *)
Interrupted(i, s) == run[i].status = "running" /\ run[i].started < s - MaxRuntime

(* _mark_interrupted: one UPDATE ... *)
MarkInterrupted(w) ==
  LET s     == run[proc[w].run].started
      stale == {i \in RunIds \ {proc[w].run} : Interrupted(i, s)}
  IN  /\ At(w, "mark")
      /\ run' = [i \in RunIds |-> IF i \in stale THEN [run[i] EXCEPT !.status = "failed"]
                                                ELSE run[i]]
      /\ proc' = [proc EXCEPT ![w].pc = IF stale = {} THEN "work" ELSE "countmarked",
                              ![w].marked = stale]
      /\ UNCHANGED <<now, lock, state, event, counter, observed>>

Count(S, kind) ==
  /\ counter' = [counter EXCEPT ![kind] = @ + Cardinality(S)]
  /\ counted' = [i \in RunIds |-> IF i \in S THEN counted[i] + 1 ELSE counted[i]]

(* ... and one increment by its row count. *)
CountMarked(w) ==
  /\ At(w, "countmarked")
  /\ Count(proc[w].marked, "failed")
  /\ proc' = [proc EXCEPT ![w].pc = "work", ![w].marked = {}]
  /\ UNCHANGED <<now, lock, run, state, event, overstayed, lastGood>>

(* Mutant: the row is saved before the event is recorded. *)
FollowRowFirst(pc) ==
  CASE pc = "work" -> "save" [] pc = "save" -> "announce" [] pc = "announce" -> "stamp"
    [] pc = "stamp" -> "count"

(* The order in which _finish writes. *)
Follow(pc) ==
  CASE pc = "work" -> "announce" [] pc = "announce" -> "save" [] pc = "save" -> "stamp"
    [] pc = "stamp" -> "count"

(* The command's work ends, for better or worse, and _finish reads the clock. *)
Work(w) ==
  /\ At(w, "work")
  /\ \E b \in IF proc[w].doomed THEN {FALSE} ELSE BOOLEAN :
       /\ proc' = [proc EXCEPT ![w].pc = Follow("work"), ![w].ok = b, ![w].at = now]
       /\ lastGood' = IF b THEN now ELSE lastGood
  /\ UNCHANGED <<now, lock, run, state, event, counter, counted, overstayed>>

Verdict(w) == IF proc[w].ok THEN "succeeded" ELSE "failed"

(* _finish: record the platform event ... *)
Announce(w) ==
  /\ At(w, "announce")
  /\ event' = [event EXCEPT ![proc[w].run] = Verdict(w)]
  /\ GoTo(w, Follow("announce"))
  /\ UNCHANGED <<now, lock, run, state, counter, observed>>

(* ... save the row, whatever its status is by now, but not if it is gone ... *)
SaveRun(w) ==
  LET i == proc[w].run IN
  /\ At(w, "save")
  /\ run[i].status # "gone"
  /\ run' = [run EXCEPT ![i].status = Verdict(w)]
  /\ GoTo(w, Follow("save"))
  /\ UNCHANGED <<now, lock, state, event, counter, observed>>

StampedAlways(w) ==     \* mutant: a failure moves last_success_at as well
  [state EXCEPT !.success = proc[w].at]

Stamped(w) == IF proc[w].ok THEN [state EXCEPT !.success = proc[w].at] ELSE state

(* ... move last_success_at, perhaps back to an older time ... *)
Stamp(w) ==
  /\ At(w, "stamp")
  /\ state' = Stamped(w)
  /\ GoTo(w, Follow("stamp"))
  /\ UNCHANGED <<now, lock, run, event, counter, observed>>

(* Mutant: the increment is sent twice. *)
CountRunTwice(w) ==
  /\ At(w, "count")
  /\ Count({proc[w].run}, Verdict(w))
  /\ IF counted[proc[w].run] = 0 THEN UNCHANGED proc ELSE Leave(w)
  /\ UNCHANGED <<now, lock, run, state, event, overstayed, lastGood>>

(* ... and count the run. *)
CountRun(w) ==
  /\ At(w, "count")
  /\ Count({proc[w].run}, Verdict(w))
  /\ Leave(w)
  /\ UNCHANGED <<now, lock, run, state, event, overstayed, lastGood>>

(* A database error, or the row is gone: _finish gives up where it is, and  *)
(* a run that could not begin its work ends and leaves its row behind.     *)
Abandon(w) ==
  /\ proc[w].pc \in {"create", "start", "mark", "countmarked", "announce", "save",
                    "stamp", "count"}
  /\ Leave(w)
  /\ UNCHANGED <<now, lock, run, state, event, counter, observed>>

(* purge_old_runs deletes by age alone. *)
PurgeRuns ==
  LET old == {i \in RunIds : /\ run[i].status \notin {"none", "gone"}
                             /\ run[i].started < now - Retention}
  IN  /\ old # {}
      /\ run' = [i \in RunIds |-> IF i \in old THEN [run[i] EXCEPT !.status = "gone"]
                                               ELSE run[i]]
      /\ UNCHANGED <<now, lock, proc, state, event, counter, observed>>

-----------------------------------------------------------------------------
(* The overview or the metrics are asked for: ensure_states. *)
EnsureStates ==
  /\ state.created = -1
  /\ state' = Ensured
  /\ UNCHANGED <<now, lock, proc, run, event, counter, observed>>

(* compute_health.  Runs that started within one tick have no order here,  *)
(* so there may be several last ones and the health be one of several.     *)
Finished     == {i \in RunIds : run[i].status \in {"succeeded", "failed"}}
LastFinished == {i \in Finished : \A j \in Finished : run[j].started <= run[i].started}

IsOverdue == now - (IF state.success # -1 THEN state.success ELSE state.created) > Overdue

Health(enabled) ==
  IF ~enabled /\ ~state.started /\ Finished = {} THEN {"disabled"}
  ELSE {"failing" : i \in {j \in LastFinished : run[j].status = "failed"}} \cup
       (IF Finished # {} /\ \A i \in LastFinished : run[i].status = "failed" THEN {}
        ELSE IF IsOverdue THEN {"overdue"} ELSE {"healthy"})

Crash(w) ==
  /\ ~At(w, "idle")
  /\ proc' = [proc EXCEPT ![w] = IdleProc]
  /\ UNCHANGED <<now, lock, run, state, event, counter, observed>>

Tick ==
  /\ now < MaxTime
  /\ now' = now + 1
  /\ overstayed' = overstayed \cup
                     {i \in RunIds : Alive(i) /\ now + 1 > run[i].started + MaxRuntime}
  /\ UNCHANGED <<lock, proc, run, state, event, counter, counted, lastGood>>

Next ==
  \/ \E w \in Workers : \/ Acquire(w) \/ AcquireError(w) \/ RunCommand(w)
                        \/ RecordSkipped(w) \/ SkipError(w) \/ Release(w)
                        \/ \E i \in RunIds : Create(w, i)
                        \/ Start(w) \/ MarkInterrupted(w) \/ CountMarked(w) \/ Work(w)
                        \/ Announce(w) \/ SaveRun(w) \/ Stamp(w) \/ CountRun(w)
                        \/ Abandon(w) \/ Crash(w)
  \/ PurgeRuns \/ EnsureStates
  \/ Tick

Spec == Init /\ [][Next]_vars

-----------------------------------------------------------------------------
(* The lock keeps Celery runs apart: two workers that took it are inside    *)
(* together only if the lock of one has expired under it.                   *)
LockExcludes ==
  \A v, w \in Workers :
    v # w /\ Inside(v) /\ Inside(w) /\ now < proc[v].until => now >= proc[w].until

(* A run that outlived its lock never frees the lock of the next run: while *)
(* a lock has not expired only its owner removes it.                        *)
OwnerFrees ==
  [][\A w \in Workers : lock.owner = w /\ lock.expires > now /\ lock'.owner # w
       => At(w, "release")]_vars

(* A crashed run does not stay "running" for ever: once a later run begins  *)
(* its work, every row older than MaxRuntime before its start is closed.    *)
NoneLeftRunning ==
  \A w \in Workers : proc[w].pc \in {"countmarked", "work", "announce", "save"} =>
    \A i \in RunIds \ {proc[w].run} :
      run[i].status = "running" => run[i].started >= run[proc[w].run].started - MaxRuntime

(* A run is counted at most once, as interrupted or by itself, unless it    *)
(* stayed alive longer than max_runtime_seconds.                           *)
CountedOnce == \A i \in RunIds : counted[i] > 1 => i \in overstayed

(* The verdict of a finished run stays: no later run calls it interrupted,  *)
(* and only a run that overstayed may still overwrite that.                 *)
VerdictStays ==
  [][\A i \in RunIds :
       run[i].status \in {"succeeded", "failed"} /\ i \notin overstayed
         => run'[i].status \in {run[i].status, "gone"}]_vars

(* A run that reads as succeeded was announced to staff as succeeded, also  *)
(* when its process dies or the database fails while it is recorded.       *)
SuccessAnnounced == \A i \in RunIds : run[i].status = "succeeded" => event[i] = "succeeded"

(* A job is not shown as healthy when no run has done its work for longer   *)
(* than overdue_after_seconds, unless it has been watched for less: neither *)
(* crashed, failed, half recorded nor purged runs hide that.                *)
HealthyIsTrue ==
  state.created # -1 /\ (\E enabled \in BOOLEAN : "healthy" \in Health(enabled)) =>
    now - lastGood <= Overdue \/ now - state.created <= Overdue
=============================================================================
