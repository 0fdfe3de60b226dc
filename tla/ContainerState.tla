--------------------------- MODULE ContainerState ---------------------------
(***************************************************************************)
(* The container that tools/docker-entrypoint.sh runs: the state of PID 1, *)
(* of the processes it starts and of docker, and what the container         *)
(* promises.  Container has its steps.                                     *)
(***************************************************************************)
EXTENDS Integers, FiniteSets

CONSTANTS
  MaxSignals,  \* bound: SIGTERMs and SIGINTs sent to PID 1
  MaxStarts    \* bound: times docker starts the container

ASSUME ContainerAssumption == MaxSignals \in Nat /\ MaxStarts \in Nat

VARIABLES
  env,         \* the mode argument and the variables the script reads
  script,      \* what PID 1 does next
  proc,        \* gunicorn, the worker, or the command given instead of them
  ended,       \* how each process ended
  status,      \* $? of the first wait
  stopSignal,  \* STOP_SIGNAL is set
  exitCode,    \* the container's exit status
  signals,     \* stop requests since docker started the container
  crashed,     \* processes that ended before anyone stopped them (observer)
  grace,       \* docker's grace period is over: SIGKILL was sent
  starts       \* times docker started it

Procs == {"gunicorn", "celery", "command"}
Codes == {"none", "ok", "error"}

Supervised == {"spawnGunicorn", "spawnCelery", "setTraps", "enterWait",
               "waitFirst", "stopRest", "waitAll", "leave"}
Scripts == {"prepare", "launch", "replaced", "exited"} \cup Supervised

Children == {"gunicorn", "celery"}

Alive(p) == proc[p] \in {"running", "stopping"}

BrokerConfigured == env.broker \/ env.redis
Schedules == env.scheduler /\ BrokerConfigured

-----------------------------------------------------------------------------
(* Status 0 means that a stop was asked for: a supervised child that exits *)
(* with status 0 by itself still makes the container fail, so that a       *)
(* restart policy that looks at the status starts it again.                *)
CleanExit ==
  (script = "exited" /\ exitCode = "ok" /\ env.mode = "web" /\ Schedules)
    => stopSignal /\ signals > 0

(* In-flight work finishes: a child is cut short only by docker's SIGKILL, *)
(* or by a second reason to stop that reached the script while it waited   *)
(* for the first to complete -- another signal, or a signal after a crash. *)
InFlightFinishes ==
  (\E p \in Procs : proc[p] = "killed")
    => \/ grace
       \/ signals >= 2
       \/ signals >= 1 /\ crashed # {}

(* If either process exits, the container does: it is never left with a    *)
(* web server and no scheduler, or the other way round.                    *)
FallTogether ==
  (\E p \in Procs : proc[p] = "done") ~> (script = "exited")
=============================================================================
