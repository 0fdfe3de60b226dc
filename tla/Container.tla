----------------------------- MODULE Container -----------------------------
(***************************************************************************)
(* tools/docker-entrypoint.sh as PID 1 of a container under docker's        *)
(* `restart: unless-stopped`: the checks and migrations before anything     *)
(* runs, gunicorn and the Celery worker as two children in web mode, the    *)
(* trap and the two `wait`s that supervise them, and the modes in which the *)
(* script is replaced by its command.  A signal may arrive between any two  *)
(* of the script's steps, and a child may exit at any of them.              *)
(***************************************************************************)
EXTENDS ContainerState

vars == <<env, script, proc, ended, status, stopSignal, exitCode, signals,
          crashed, grace, starts>>

TypeOK ==
  /\ env \in [mode : {"web", "worker", "other"},
              debug : BOOLEAN, redis : BOOLEAN, broker : BOOLEAN,
              scheduler : BOOLEAN]
  /\ script \in Scripts
  /\ proc \in [Procs -> {"none", "running", "stopping", "done", "killed"}]
  /\ ended \in [Procs -> Codes]
  /\ status \in Codes /\ exitCode \in Codes
  /\ stopSignal \in BOOLEAN /\ grace \in BOOLEAN
  /\ signals \in 0 .. MaxSignals
  /\ crashed \subseteq Procs
  /\ starts \in 1 .. MaxStarts + 1

Init ==
  /\ env \in [mode : {"web", "worker", "other"},
              debug : BOOLEAN, redis : BOOLEAN, broker : BOOLEAN,
              scheduler : BOOLEAN]
  /\ script = "prepare"
  /\ proc = [p \in Procs |-> "none"]
  /\ ended = [p \in Procs |-> "none"]
  /\ status = "none" /\ exitCode = "none"
  /\ stopSignal = FALSE /\ grace = FALSE
  /\ signals = 0 /\ crashed = {} /\ starts = 1

-----------------------------------------------------------------------------
(* What PID 1's exit does to the container: the kernel kills the rest.     *)
ExitWith(code) ==
  /\ script' = "exited"
  /\ exitCode' = code
  /\ proc' = [p \in Procs |-> IF Alive(p) THEN "killed" ELSE proc[p]]

StopNone == proc   \* mutant: the other process is left running

(* kill -TERM to every pid in PIDS; it does nothing to one that has gone.  *)
StopChildren ==
  [p \in Procs |-> IF proc[p] = "running" THEN "stopping" ELSE proc[p]]

(* require_redis_in_production, and worker mode's own need of a broker.    *)
MayStart ==
  CASE env.mode = "web"    -> env.debug \/ env.redis
    [] env.mode = "worker" -> (env.debug \/ env.redis) /\ BrokerConfigured
    [] OTHER               -> TRUE

(* prepare_data_dir, migrate and check --deploy, any of which may fail     *)
(* under set -e; the modes other than web do not migrate.                  *)
Prepare ==
  /\ script = "prepare"
  /\ \/ /\ MayStart
        /\ script' = "launch"
        /\ UNCHANGED <<proc, exitCode>>
     \/ ExitWith("error")
  /\ UNCHANGED <<env, ended, status, stopSignal, signals, crashed, grace,
                 starts>>

Launch ==
  /\ script = "launch"
  /\ \/ /\ env.mode = "web" /\ Schedules
        /\ script' = "spawnGunicorn"
        /\ UNCHANGED proc
     \/ /\ ~(env.mode = "web" /\ Schedules)
        /\ script' = "replaced"                                    \* exec
        /\ proc' = [proc EXCEPT ![CASE env.mode = "web" -> "gunicorn"
                                    [] env.mode = "worker" -> "celery"
                                    [] OTHER -> "command"] = "running"]
  /\ UNCHANGED <<env, ended, status, stopSignal, exitCode, signals, crashed,
                 grace, starts>>

Spawn ==
  /\ \/ /\ script = "spawnGunicorn"
        /\ script' = "spawnCelery"
        /\ proc' = [proc EXCEPT !["gunicorn"] = "running"]
     \/ /\ script = "spawnCelery"
        /\ script' = "setTraps"
        /\ proc' = [proc EXCEPT !["celery"] = "running"]
  /\ UNCHANGED <<env, ended, status, stopSignal, exitCode, signals, crashed,
                 grace, starts>>

-----------------------------------------------------------------------------
(* supervise *)
SetTraps ==
  /\ script = "setTraps"
  /\ script' = "enterWait"
  /\ UNCHANGED <<env, proc, ended, status, stopSignal, exitCode, signals,
                 crashed, grace, starts>>

(* A signal handled before wait -n starts does not interrupt it.           *)
EnterWait ==
  /\ script = "enterWait"
  /\ script' = "waitFirst"
  /\ UNCHANGED <<env, proc, ended, status, stopSignal, exitCode, signals,
                 crashed, grace, starts>>

(* wait -n returns the status of a child that has exited.                  *)
WaitFirst ==
  /\ script = "waitFirst"
  /\ \E p \in Children :
       /\ proc[p] = "done"
       /\ status' = ended[p]
  /\ script' = "stopRest"
  /\ UNCHANGED <<env, proc, ended, stopSignal, exitCode, signals, crashed,
                 grace, starts>>

StopRest ==
  /\ script = "stopRest"
  /\ proc' = StopChildren
  /\ script' = "waitAll"
  /\ UNCHANGED <<env, ended, status, stopSignal, exitCode, signals, crashed,
                 grace, starts>>

NotAwaited == TRUE   \* mutant: the second wait is missing

AllDone == \A p \in Children : ~Alive(p)

WaitAll ==
  /\ script = "waitAll"
  /\ AllDone
  /\ script' = "leave"
  /\ UNCHANGED <<env, proc, ended, status, stopSignal, exitCode, signals,
                 crashed, grace, starts>>

VerdictAsIs ==   \* mutant: an unexpected status 0 is passed on
  IF stopSignal THEN "ok" ELSE status

(* The status the script leaves with: 0 only for a stop that was asked.    *)
Verdict ==
  IF stopSignal THEN "ok" ELSE IF status = "ok" THEN "error" ELSE status

Leave ==
  /\ script = "leave"
  /\ ExitWith(Verdict)
  /\ UNCHANGED <<env, ended, status, stopSignal, signals, crashed, grace,
                 starts>>

-----------------------------------------------------------------------------
(* The processes.  Each ends on its own, or some time after a SIGTERM.     *)
End(p) ==
  /\ Alive(p)
  /\ \E code \in {"ok", "error"} :
       /\ ended' = [ended EXCEPT ![p] = code]
       /\ \/ /\ script = "replaced"        \* it is PID 1
             /\ script' = "exited"
             /\ exitCode' = code
          \/ /\ script # "replaced"
             /\ UNCHANGED <<script, exitCode>>
  /\ proc' = [proc EXCEPT ![p] = "done"]
  /\ crashed' = IF proc[p] = "running" THEN crashed \cup {p} ELSE crashed
  /\ UNCHANGED <<env, status, stopSignal, signals, grace, starts>>

Crash(p) == proc[p] = "running" /\ End(p)
Finish(p) == proc[p] = "stopping" /\ End(p)

(* A trapped signal runs on_signal and interrupts a wait; PID 1 ignores    *)
(* one it has not trapped yet; a command that replaced the script gets it. *)
Trapped == script \in {"enterWait", "waitFirst", "stopRest", "waitAll",
                       "leave"}

Interrupted ==
  CASE script = "waitFirst" -> "stopRest"
    [] script = "waitAll"   -> "leave"
    [] OTHER                -> script

Signal ==
  /\ script # "exited"
  /\ ~grace
  /\ signals < MaxSignals
  /\ signals' = signals + 1
  /\ stopSignal' = (stopSignal \/ Trapped)
  /\ proc' = IF Trapped \/ script = "replaced" THEN StopChildren ELSE proc
  /\ script' = Interrupted
  /\ status' = IF script = "waitFirst" THEN "error" ELSE status  \* 128 + n
  /\ UNCHANGED <<env, ended, exitCode, crashed, grace, starts>>

(* docker: SIGKILL when the grace period of a stop is over, and a restart  *)
(* when the container exited and no one had stopped it.                    *)
Kill ==
  /\ signals > 0
  /\ script # "exited"
  /\ ExitWith("error")
  /\ grace' = TRUE
  /\ UNCHANGED <<env, ended, status, stopSignal, signals, crashed, starts>>

Restart ==
  /\ script = "exited"
  /\ signals = 0
  /\ starts <= MaxStarts
  /\ starts' = starts + 1
  /\ script' = "prepare"
  /\ proc' = [p \in Procs |-> "none"]
  /\ ended' = [p \in Procs |-> "none"]
  /\ status' = "none" /\ exitCode' = "none"
  /\ stopSignal' = FALSE
  /\ crashed' = {}
  /\ UNCHANGED <<env, signals, grace>>

-----------------------------------------------------------------------------
Step == Prepare \/ Launch \/ Spawn \/ SetTraps \/ EnterWait \/ WaitFirst
        \/ StopRest \/ WaitAll \/ Leave

Next ==
  \/ Step \/ Signal \/ Kill \/ Restart
  \/ \E p \in Procs : Crash(p) \/ Finish(p)

(* The script runs on, and a process told to stop stops: gunicorn within   *)
(* its graceful timeout, the worker after jobs bounded by --max-seconds.   *)
(* Nothing obliges a running process to end or anyone to stop it.          *)
Fairness == WF_vars(Step) /\ \A p \in Children : WF_vars(Finish(p))

Spec == Init /\ [][Next]_vars /\ Fairness

=============================================================================
