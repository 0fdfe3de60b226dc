------------------------ MODULE ScheduledJobsProofs ------------------------
(* Theorems about ScheduledJobs, for any number of workers and runs and any *)
(* lock expiry, maximal runtime, retention and overdue time.               *)
EXTENDS ScheduledJobs, FiniteSetTheorems, TLAPS

-----------------------------------------------------------------------------
(* What the steps of one worker do, field by field.                        *)

Others(w) == \A v \in Workers : v # w => proc'[v] = proc[v]

(* A worker that is not recording a run. *)
OutsidePc == {"idle", "skip", "create", "release"}

(* A worker whose run has not been saved yet. *)
EarlyPc == {"start", "mark", "countmarked", "work", "announce", "save"}

(* The worker is outside afterwards, and no run or event was touched. *)
MoveOut(w) ==
  /\ proc'[w].pc \in OutsidePc /\ proc'[w].run = Nobody /\ proc'[w].marked = {}
  /\ Others(w)
  /\ UNCHANGED <<now, run, event, counted, overstayed>>

MoveCreate(w, i) ==
  /\ proc[w].pc = "create" /\ run[i].status = "none"
  /\ proc'[w].pc = "start" /\ proc'[w].run = i /\ proc'[w].marked = proc[w].marked
  /\ run'[i].status = "running" /\ run'[i].started = now
  /\ \A j \in RunIds : j # i => run'[j] = run[j]
  /\ Others(w)
  /\ UNCHANGED <<now, event, counted, overstayed>>

(* Start, Work and Stamp touch neither the runs nor the events. *)
MoveOn(w) ==
  /\ \/ proc[w].pc = "start" /\ proc'[w].pc = "mark"
     \/ proc[w].pc = "work"  /\ proc'[w].pc = "announce"
     \/ proc[w].pc = "stamp" /\ proc'[w].pc = "count"
  /\ proc'[w].run = proc[w].run /\ proc'[w].marked = proc[w].marked
  /\ Others(w)
  /\ UNCHANGED <<now, run, event, counted, overstayed>>

Stale(w) == {i \in RunIds \ {proc[w].run} : Interrupted(i, run[proc[w].run].started)}

MoveMark(w) ==
  /\ proc[w].pc = "mark"
  /\ proc'[w].pc = (IF Stale(w) = {} THEN "work" ELSE "countmarked")
  /\ proc'[w].run = proc[w].run /\ proc'[w].marked = Stale(w)
  /\ \A i \in RunIds : /\ run'[i].started = run[i].started
                       /\ run'[i].status = IF i \in Stale(w) THEN "failed" ELSE run[i].status
  /\ Others(w)
  /\ UNCHANGED <<now, event, counted, overstayed>>

MoveCountMarked(w) ==
  /\ proc[w].pc = "countmarked" /\ proc'[w].pc = "work"
  /\ proc'[w].run = proc[w].run /\ proc'[w].marked = {}
  /\ \A i \in RunIds : counted'[i] = IF i \in proc[w].marked THEN counted[i] + 1
                                                            ELSE counted[i]
  /\ Others(w)
  /\ UNCHANGED <<now, run, event, overstayed>>

MoveAnnounce(w) ==
  /\ proc[w].pc = "announce" /\ proc'[w].pc = "save"
  /\ proc'[w].run = proc[w].run /\ proc'[w].marked = proc[w].marked
  /\ proc'[w].ok = proc[w].ok
  /\ \A i \in RunIds : event'[i] = IF i = proc[w].run THEN Verdict(w) ELSE event[i]
  /\ Others(w)
  /\ UNCHANGED <<now, run, counted, overstayed>>

MoveSave(w) ==
  /\ proc[w].pc = "save" /\ proc'[w].pc = "stamp"
  /\ proc'[w].run = proc[w].run /\ proc'[w].marked = proc[w].marked
  /\ run[proc[w].run].status # "gone"
  /\ \A i \in RunIds : /\ run'[i].started = run[i].started
                       /\ run'[i].status = IF i = proc[w].run THEN Verdict(w)
                                                             ELSE run[i].status
  /\ Others(w)
  /\ UNCHANGED <<now, event, counted, overstayed>>

MoveCountRun(w) ==
  /\ proc[w].pc = "count"
  /\ proc'[w].pc = "release" /\ proc'[w].run = Nobody /\ proc'[w].marked = {}
  /\ \A i \in RunIds : counted'[i] = IF i = proc[w].run THEN counted[i] + 1 ELSE counted[i]
  /\ Others(w)
  /\ UNCHANGED <<now, run, event, overstayed>>

MovePurge ==
  /\ \A i \in RunIds : /\ run'[i].started = run[i].started
                       /\ \/ run'[i].status = run[i].status
                          \/ run[i].status # "none" /\ run'[i].status = "gone"
  /\ UNCHANGED <<now, proc, event, counted, overstayed>>

MoveTime ==
  /\ now' = now + 1
  /\ overstayed' = overstayed \cup
                     {i \in RunIds : Alive(i) /\ now + 1 > run[i].started + MaxRuntime}
  /\ UNCHANGED <<proc, run, event, counted>>

MoveElse == UNCHANGED <<now, proc, run, event, counted, overstayed>>

Move == \/ \E w \in Workers :
             \/ MoveOut(w) \/ \E i \in RunIds : MoveCreate(w, i)
             \/ MoveOn(w) \/ MoveMark(w) \/ MoveCountMarked(w)
             \/ MoveAnnounce(w) \/ MoveSave(w) \/ MoveCountRun(w)
        \/ MovePurge \/ MoveTime \/ MoveElse

(* What a worker has in hand, by where it is. *)
ProcInv ==
  \A w \in Workers :
    /\ proc[w].pc \in OutsidePc => proc[w].run = Nobody
    /\ proc[w].pc \notin OutsidePc => /\ proc[w].run \in RunIds
                                      /\ run[proc[w].run].status # "none"
    /\ proc[w].pc # "countmarked" => proc[w].marked = {}

(* Constants and types that the steps below use all the time. *)
LEMMA Basics ==
  /\ LockTTL \in Nat /\ MaxRuntime \in Nat /\ MaxTime \in Nat
  /\ Nobody \notin RunIds /\ Nobody \notin Workers
  /\ IdleProc \in ProcType /\ [IdleProc EXCEPT !.pc = "release"] \in ProcType
  /\ IdleProc.pc = "idle" /\ IdleProc.run = Nobody /\ IdleProc.marked = {}
  /\ IdleProc.until = 0 /\ IdleProc.ok = FALSE
  BY JobAssumption DEF IdleProc, ProcType, Steps

(* A worker that leaves its run is on its way to release its lock. *)
LEMMA LeaveEffect ==
  ASSUME TypeOK, NEW w \in Workers, Leave(w)
  PROVE  /\ proc'[w].pc = "release" /\ proc'[w].run = Nobody /\ proc'[w].marked = {}
         /\ proc'[w].until = proc[w].until /\ proc'[w].ok = FALSE
         /\ Others(w) /\ proc' \in [Workers -> ProcType]
  <1> DEFINE new == [IdleProc EXCEPT !.pc = "release", !.until = proc[w].until]
  <1>1. proc[w].until \in Nat
    BY DEF TypeOK, ProcType
  <1>2. /\ new.pc = "release" /\ new.run = Nobody /\ new.marked = {}
        /\ new.until = proc[w].until /\ new.ok = FALSE /\ new \in ProcType
    BY <1>1 DEF IdleProc, ProcType, Steps
  <1>3. proc' = [proc EXCEPT ![w] = new]
    BY DEF Leave
  <1> HIDE DEF new
  <1>4. QED
    BY <1>2, <1>3 DEF TypeOK, Others

(* GoTo changes where a worker is and nothing else. *)
LEMMA GoToEffect ==
  ASSUME TypeOK, NEW w \in Workers, NEW pc \in Steps, GoTo(w, pc)
  PROVE  /\ proc'[w].pc = pc /\ proc'[w].run = proc[w].run
         /\ proc'[w].marked = proc[w].marked /\ proc'[w].ok = proc[w].ok
         /\ proc'[w].until = proc[w].until /\ proc'[w].at = proc[w].at
         /\ Others(w) /\ proc' \in [Workers -> ProcType]
  <1>1. proc[w] \in ProcType
    BY DEF TypeOK
  <1>2. [proc[w] EXCEPT !.pc = pc] \in ProcType
    BY <1>1 DEF ProcType
  <1>3. QED
    BY <1>1, <1>2 DEF GoTo, TypeOK, Others, ProcType

(* A worker that enters from nowhere is a worker. *)
LEMMA EnterEffect ==
  ASSUME TypeOK, NEW w \in Workers, NEW pc \in Steps, NEW t \in Nat,
         proc' = [proc EXCEPT ![w] = [IdleProc EXCEPT !.pc = pc, !.until = t]]
  PROVE  /\ proc'[w].pc = pc /\ proc'[w].run = Nobody
         /\ proc'[w].marked = {} /\ proc'[w].ok = FALSE /\ proc'[w].until = t
         /\ Others(w) /\ proc' \in [Workers -> ProcType]
  <1> DEFINE new == [IdleProc EXCEPT !.pc = pc, !.until = t]
  <1>1. /\ new.pc = pc /\ new.run = Nobody /\ new.marked = {} /\ new.ok = FALSE
        /\ new.until = t /\ new \in ProcType
    BY DEF IdleProc, ProcType, Steps
  <1>2. proc' = [proc EXCEPT ![w] = new]
    OBVIOUS
  <1> HIDE DEF new
  <1>3. QED
    BY <1>1, <1>2 DEF TypeOK, Others

(* A worker that becomes idle or fails before it holds anything. *)
LEMMA ResetEffect ==
  ASSUME TypeOK, NEW w \in Workers, NEW new,
         new \in {IdleProc, [IdleProc EXCEPT !.pc = "create", !.doomed = TRUE]},
         proc' = [proc EXCEPT ![w] = new]
  PROVE  /\ proc'[w].pc \in {"idle", "create"} /\ proc'[w].run = Nobody
         /\ proc'[w].marked = {} /\ proc'[w].ok = FALSE /\ proc'[w].until = 0
         /\ Others(w) /\ proc' \in [Workers -> ProcType]
  <1>1. CASE new = IdleProc
    BY <1>1, Basics DEF TypeOK, Others
  <1>2. CASE new = [IdleProc EXCEPT !.pc = "create", !.doomed = TRUE]
    <2>1. /\ new.pc = "create" /\ new.run = Nobody /\ new.marked = {}
          /\ new.ok = FALSE /\ new.until = 0 /\ new \in ProcType
      BY <1>2 DEF IdleProc, ProcType, Steps
    <2> HIDE <1>2
    <2>2. QED
      BY <2>1 DEF TypeOK, Others
  <1>3. QED
    BY <1>1, <1>2

(* The lock is taken for LockTTL or was held by another. *)
LEMMA AcquireEffect ==
  ASSUME TypeOK, NEW w \in Workers, Acquire(w)
  PROVE  /\ Others(w) /\ proc' \in [Workers -> ProcType]
         /\ proc[w].pc = "idle"
         /\ \/ /\ lock' = lock /\ proc'[w].pc = "skip" /\ proc'[w].run = proc[w].run
               /\ proc'[w].marked = proc[w].marked /\ proc'[w].until = proc[w].until
               /\ proc'[w].ok = proc[w].ok
            \/ /\ ~HeldByOther(w) /\ lock' = [owner |-> w, expires |-> now + LockTTL]
               /\ proc'[w].pc = "create" /\ proc'[w].run = Nobody
               /\ proc'[w].marked = {} /\ proc'[w].until = now + LockTTL
               /\ proc'[w].ok = FALSE
  <1>1. now + LockTTL \in Nat /\ "skip" \in Steps /\ "create" \in Steps
    BY Basics DEF TypeOK, Steps
  <1>2. CASE HeldByOther(w)
    BY <1>1, <1>2, GoToEffect DEF Acquire, At
  <1>3. CASE ~HeldByOther(w)
    <2>1. /\ proc' = [proc EXCEPT ![w] = [IdleProc EXCEPT !.pc = "create", !.until = now + LockTTL]]
          /\ lock' = [owner |-> w, expires |-> now + LockTTL] /\ proc[w].pc = "idle"
      BY <1>3 DEF Acquire, At
    <2>2. PICK pc \in Steps, u \in Nat : pc = "create" /\ u = now + LockTTL
      BY <1>1
    <2>3. proc' = [proc EXCEPT ![w] = [IdleProc EXCEPT !.pc = pc, !.until = u]]
      BY <2>1, <2>2
    <2>4. /\ proc'[w].pc = pc /\ proc'[w].run = Nobody
          /\ proc'[w].marked = {} /\ proc'[w].ok = FALSE /\ proc'[w].until = u
          /\ Others(w) /\ proc' \in [Workers -> ProcType]
      BY <2>3, EnterEffect
    <2>5. QED
      BY <1>3, <2>1, <2>2, <2>4
  <1>4. QED
    BY <1>2, <1>3

(* Every step keeps the types. *)
LEMMA TypeStep ==
  ASSUME TypeOK, [Next]_vars
  PROVE  TypeOK'
  <1>0. /\ now \in Nat /\ LockTTL \in Nat /\ Nobody \notin Workers
        /\ lock \in [owner : Workers \cup {Nobody}, expires : Nat]
        /\ \A w \in Workers : [owner |-> w, expires |-> now + LockTTL]
                                \in [owner : Workers \cup {Nobody}, expires : Nat]
        /\ [owner |-> Nobody, expires |-> 0] \in [owner : Workers \cup {Nobody}, expires : Nat]
        /\ now + LockTTL \in Nat
    <2>1. now \in Nat /\ LockTTL \in Nat
      BY Basics DEF TypeOK
    <2>2. now + LockTTL \in Nat
      BY <2>1
    <2>3. QED
      BY <2>1, <2>2, Basics DEF TypeOK
  <1>1. Ensured \in StateType
    <2>1. state \in StateType /\ now \in Int
      BY <1>0 DEF TypeOK
    <2>2. QED
      BY <2>1 DEF Ensured, StateType
  <1>2. ASSUME NEW w \in Workers,
               Acquire(w) \/ AcquireError(w) \/ RunCommand(w) \/ SkipError(w) \/ Release(w)
                 \/ Abandon(w) \/ Crash(w)
        PROVE TypeOK'
    <2>1. UNCHANGED <<now, run, state, event, counter, observed>>
      BY <1>2 DEF Acquire, AcquireError, RunCommand, SkipError, Release, Abandon, Crash
    <2>2. proc' \in [Workers -> ProcType]
      BY <1>2, AcquireEffect, GoToEffect, LeaveEffect, ResetEffect
         DEF AcquireError, RunCommand, SkipError, Release, Abandon, Crash, Steps
    <2>3. lock' \in [owner : Workers \cup {Nobody}, expires : Nat]
      BY <1>0, <1>2 DEF Acquire, AcquireError, RunCommand, SkipError, Release, Abandon, Crash
    <2>4. QED
      BY <2>1, <2>2, <2>3 DEF TypeOK, observed
  <1>3. ASSUME NEW w \in Workers, RecordSkipped(w) PROVE TypeOK'
    <2>1. proc' \in [Workers -> ProcType]
      BY <1>3, ResetEffect DEF RecordSkipped
    <2>2. counter' \in [Kinds -> Nat]
      <3>1. counter["skipped_locked"] + 1 \in Nat
        BY DEF TypeOK, Kinds
      <3>2. QED
        BY <1>3, <3>1 DEF RecordSkipped, TypeOK
    <2>3. QED
      BY <1>1, <1>3, <2>1, <2>2 DEF RecordSkipped, TypeOK, observed
  <1>4. ASSUME NEW w \in Workers, NEW i \in RunIds, Create(w, i) PROVE TypeOK'
    <2>1. [status |-> "running", started |-> now] \in RunType
      BY <1>0 DEF RunType
    <2>2. run' \in [RunIds -> RunType]
      <3>1. run' = [run EXCEPT ![i] = [status |-> "running", started |-> now]]
        BY <1>4 DEF Create
      <3>2. run \in [RunIds -> RunType]
        BY DEF TypeOK
      <3>3. QED
        BY <2>1, <3>1, <3>2
    <2>3. proc' \in [Workers -> ProcType]
      <3>1. [proc[w] EXCEPT !.pc = "start", !.run = i] \in ProcType
        <4>1. "start" \in Steps /\ proc[w] \in ProcType
          BY DEF TypeOK, Steps
        <4>2. QED
          BY <4>1 DEF ProcType
      <3>2. proc' = [proc EXCEPT ![w] = [proc[w] EXCEPT !.pc = "start", !.run = i]]
        BY <1>4 DEF Create
      <3>3. QED
        BY <3>1, <3>2 DEF TypeOK
    <2>4. QED
      BY <1>4, <2>2, <2>3 DEF Create, TypeOK, observed
  <1>5. ASSUME NEW w \in Workers, Start(w) \/ Stamp(w) PROVE TypeOK'
    <2>1. state' \in StateType
      <3>1. [Ensured EXCEPT !.started = TRUE] \in StateType
        BY <1>1 DEF StateType
      <3>2. Stamped(w) \in StateType
        <4>1. state \in StateType /\ proc[w].at \in Int
          BY DEF TypeOK, ProcType
        <4>2. QED
          BY <4>1 DEF Stamped, StateType
      <3>3. QED
        BY <1>5, <3>1, <3>2 DEF Start, Stamp
    <2>2. proc' \in [Workers -> ProcType]
      BY <1>5, GoToEffect DEF Start, Stamp, Follow, Steps
    <2>3. QED
      BY <1>5, <2>1, <2>2 DEF Start, Stamp, TypeOK, observed
  <1>6. ASSUME NEW w \in Workers, MarkInterrupted(w) PROVE TypeOK'
    <2> DEFINE s     == run[proc[w].run].started
               stale == {i \in RunIds \ {proc[w].run} : Interrupted(i, s)}
               new   == [proc[w] EXCEPT !.pc = IF stale = {} THEN "work" ELSE "countmarked",
                                        !.marked = stale]
    <2>1. run' \in [RunIds -> RunType]
      <3>1. \A i \in RunIds : [run[i] EXCEPT !.status = "failed"] \in RunType
        BY DEF TypeOK, RunType
      <3>2. QED
        BY <1>6, <3>1 DEF MarkInterrupted, TypeOK
    <2>2. new \in ProcType
      <3>1. stale \in SUBSET RunIds /\ (IF stale = {} THEN "work" ELSE "countmarked") \in Steps
        BY DEF Steps
      <3>2. proc[w] \in ProcType
        BY DEF TypeOK
      <3> HIDE DEF stale
      <3>3. QED
        BY <3>1, <3>2 DEF ProcType
    <2>3. proc' = [proc EXCEPT ![w] = new]
      BY <1>6 DEF MarkInterrupted
    <2> HIDE DEF new
    <2>4. UNCHANGED <<now, lock, state, event, counter, observed>>
      BY <1>6 DEF MarkInterrupted
    <2>5. proc' \in [Workers -> ProcType]
      BY <2>2, <2>3 DEF TypeOK
    <2>6. QED
      BY <2>1, <2>4, <2>5 DEF TypeOK, observed
  <1>7. ASSUME NEW S \in SUBSET RunIds, NEW k \in Kinds, Count(S, k)
        PROVE  counter' \in [Kinds -> Nat] /\ counted' \in [RunIds -> Nat]
    <2>1. Cardinality(S) \in Nat
      BY JobAssumption, FS_Subset, FS_CardinalityType
    <2>2. counter[k] + Cardinality(S) \in Nat
      BY <2>1 DEF TypeOK
    <2>3. QED
      BY <1>7, <2>2 DEF Count, TypeOK
  <1>8. ASSUME NEW w \in Workers, CountMarked(w) PROVE TypeOK'
    <2>1. proc[w] \in ProcType
      BY DEF TypeOK
    <2>2. counter' \in [Kinds -> Nat] /\ counted' \in [RunIds -> Nat]
      BY <1>7, <1>8, <2>1 DEF CountMarked, ProcType, Kinds
    <2>3. proc' \in [Workers -> ProcType]
      <3>1. [proc[w] EXCEPT !.pc = "work", !.marked = {}] \in ProcType
        BY <2>1 DEF ProcType, Steps
      <3>2. proc' = [proc EXCEPT ![w] = [proc[w] EXCEPT !.pc = "work", !.marked = {}]]
        BY <1>8 DEF CountMarked
      <3>3. QED
        BY <3>1, <3>2 DEF TypeOK
    <2>4. QED
      BY <1>8, <2>2, <2>3 DEF CountMarked, TypeOK
  <1>9. ASSUME NEW w \in Workers, Work(w) PROVE TypeOK'
    <2>1. PICK b \in BOOLEAN :
            /\ proc' = [proc EXCEPT ![w].pc = Follow("work"), ![w].ok = b, ![w].at = now]
            /\ lastGood' = IF b THEN now ELSE lastGood
      BY <1>9 DEF Work
    <2>2. proc' \in [Workers -> ProcType]
      <3>1. [proc[w] EXCEPT !.pc = Follow("work"), !.ok = b, !.at = now] \in ProcType
        <4>1. Follow("work") \in Steps /\ proc[w] \in ProcType
          BY DEF Follow, Steps, TypeOK
        <4>2. QED
          BY <1>0, <4>1 DEF ProcType
      <3>2. proc' = [proc EXCEPT ![w] = [proc[w] EXCEPT !.pc = Follow("work"), !.ok = b,
                                                        !.at = now]]
        BY <2>1
      <3>3. QED
        BY <3>1, <3>2 DEF TypeOK
    <2>3. lastGood' \in Int
      BY <1>0, <2>1 DEF TypeOK
    <2>4. QED
      BY <1>9, <2>2, <2>3 DEF Work, TypeOK
  <1>10. ASSUME NEW w \in Workers, Announce(w) \/ SaveRun(w) PROVE TypeOK'
    <2>1. Verdict(w) \in {"succeeded", "failed"}
      BY DEF Verdict
    <2>2. event' \in [RunIds -> {"none", "succeeded", "failed"}]
      BY <1>10, <2>1 DEF Announce, SaveRun, TypeOK
    <2>3. run' \in [RunIds -> RunType]
      <3>1. \A i \in RunIds : [run[i] EXCEPT !.status = Verdict(w)] \in RunType
        BY <2>1 DEF TypeOK, RunType
      <3>2. SaveRun(w) => \A i \in RunIds : \/ run'[i] = run[i]
                                            \/ run'[i] = [run[i] EXCEPT !.status = Verdict(w)]
        BY DEF SaveRun, TypeOK
      <3>3. SaveRun(w) => run' = [i \in RunIds |-> run'[i]]
        BY DEF SaveRun, TypeOK
      <3>4. QED
        BY <1>10, <3>1, <3>2, <3>3 DEF Announce, TypeOK
    <2>4. proc' \in [Workers -> ProcType]
      BY <1>10, GoToEffect DEF Announce, SaveRun, Follow, Steps
    <2>5. QED
      BY <1>10, <2>2, <2>3, <2>4 DEF Announce, SaveRun, TypeOK, observed
  <1>11. ASSUME NEW w \in Workers, CountRun(w) PROVE TypeOK'
    <2>1. proc' \in [Workers -> ProcType]
      BY <1>11, LeaveEffect DEF CountRun
    <2>2. counter' \in [Kinds -> Nat] /\ counted' \in [RunIds -> Nat]
      <3>1. counter[Verdict(w)] + Cardinality({proc[w].run}) \in Nat /\ Verdict(w) \in Kinds
        <4>1. Cardinality({proc[w].run}) = 1
          BY FS_Singleton
        <4>2. Verdict(w) \in Kinds
          BY DEF Verdict, Kinds
        <4>3. counter[Verdict(w)] \in Nat
          BY <4>2 DEF TypeOK
        <4>4. QED
          BY <4>1, <4>2, <4>3
      <3>2. QED
        BY <1>11, <3>1 DEF CountRun, Count, TypeOK
    <2>3. QED
      BY <1>11, <2>1, <2>2 DEF CountRun, TypeOK
  <1>12. CASE PurgeRuns
    <2>1. \A i \in RunIds : [run[i] EXCEPT !.status = "gone"] \in RunType
      BY DEF TypeOK, RunType
    <2>2. run' \in [RunIds -> RunType]
      BY <1>12, <2>1 DEF PurgeRuns, TypeOK
    <2>3. QED
      BY <1>12, <2>2 DEF PurgeRuns, TypeOK, observed
  <1>13. CASE EnsureStates
    BY <1>1, <1>13 DEF EnsureStates, TypeOK, observed
  <1>14. CASE Tick
    <2>1. now' \in 0 .. MaxTime
      BY <1>0, <1>14, Basics DEF Tick
    <2>2. overstayed' \subseteq RunIds
      BY <1>14 DEF Tick, TypeOK
    <2>3. QED
      BY <1>14, <2>1, <2>2 DEF Tick, TypeOK
  <1>15. CASE UNCHANGED vars
    BY <1>15 DEF vars, observed, TypeOK
  <1>16. QED
    BY <1>2, <1>3, <1>4, <1>5, <1>6, <1>8, <1>9, <1>10, <1>11, <1>12, <1>13, <1>14, <1>15
       DEF Next

(* Every variable keeps its type (all actions of Next). *)
THEOREM TypeCorrect == Spec => []TypeOK
  <1>1. Init => TypeOK
    BY Basics DEF Init, TypeOK, RunType, StateType, Kinds
  <1>2. QED
    BY <1>1, TypeStep, PTL DEF Spec

-----------------------------------------------------------------------------
(* Every step is one of the moves above. *)
LEMMA MoveSteps ==
  ASSUME TypeOK, ProcInv, [Next]_vars
  PROVE  Move
  <1>0. \A w \in Workers : proc[w].pc \in OutsidePc => proc[w].run = Nobody /\ proc[w].marked = {}
    BY DEF ProcInv, OutsidePc
  <1>1. ASSUME NEW w \in Workers,
               Acquire(w) \/ AcquireError(w) \/ RunCommand(w) \/ SkipError(w) \/ Release(w)
                 \/ RecordSkipped(w) \/ Abandon(w) \/ Crash(w)
        PROVE  MoveOut(w)
    <2>1. UNCHANGED <<now, run, event, counted, overstayed>>
      BY <1>1 DEF Acquire, AcquireError, RunCommand, SkipError, Release, RecordSkipped, Abandon,
                  Crash, observed
    <2>2. CASE Acquire(w)
      BY <1>0, <2>1, <2>2, AcquireEffect DEF MoveOut, OutsidePc
    <2>3. CASE RunCommand(w)
      <3>1. GoTo(w, "create") /\ proc[w].pc = "idle" /\ "create" \in Steps
        BY <2>3 DEF RunCommand, At, Steps
      <3>2. QED
        BY <1>0, <2>1, <3>1, GoToEffect DEF MoveOut, OutsidePc
    <2>4. CASE Abandon(w)
      BY <2>1, <2>4, LeaveEffect DEF Abandon, MoveOut, OutsidePc
    <2>5. CASE AcquireError(w) \/ SkipError(w) \/ Release(w) \/ RecordSkipped(w) \/ Crash(w)
      <3>1. /\ proc'[w].pc \in {"idle", "create"} /\ proc'[w].run = Nobody
            /\ proc'[w].marked = {} /\ Others(w)
        BY <2>5, ResetEffect DEF AcquireError, SkipError, Release, RecordSkipped, Crash
      <3>2. QED
        BY <2>1, <3>1 DEF MoveOut, OutsidePc
    <2>6. QED
      BY <1>1, <2>2, <2>3, <2>4, <2>5
  <1>2. ASSUME NEW w \in Workers, NEW i \in RunIds, Create(w, i) PROVE MoveCreate(w, i)
    <2>1. /\ proc'[w].pc = "start" /\ proc'[w].run = i /\ proc'[w].marked = proc[w].marked
          /\ Others(w)
      BY <1>2 DEF Create, TypeOK, ProcType, Others
    <2>2. /\ run'[i].status = "running" /\ run'[i].started = now
          /\ \A j \in RunIds : j # i => run'[j] = run[j]
      BY <1>2 DEF Create, TypeOK
    <2>3. QED
      BY <1>2, <2>1, <2>2 DEF Create, MoveCreate, At, observed
  <1>3. ASSUME NEW w \in Workers, Start(w) \/ Work(w) \/ Stamp(w) PROVE MoveOn(w)
    <2>1. CASE Start(w) \/ Stamp(w)
      <3>1. "mark" \in Steps /\ "count" \in Steps /\ Follow("stamp") = "count"
        BY DEF Steps, Follow
      <3>2. QED
        BY <2>1, <3>1, GoToEffect DEF Start, Stamp, MoveOn, At, observed
    <2>2. CASE Work(w)
      <3>1. PICK b \in BOOLEAN :
              proc' = [proc EXCEPT ![w].pc = Follow("work"), ![w].ok = b, ![w].at = now]
        BY <2>2 DEF Work
      <3>2. /\ proc'[w].pc = Follow("work") /\ proc'[w].run = proc[w].run
            /\ proc'[w].marked = proc[w].marked /\ Others(w)
        BY <3>1 DEF TypeOK, ProcType, Others
      <3>3. Follow("work") = "announce"
        BY DEF Follow
      <3>4. QED
        BY <2>2, <3>2, <3>3 DEF Work, MoveOn, At
    <2>3. QED
      BY <1>3, <2>1, <2>2
  <1>4. ASSUME NEW w \in Workers, MarkInterrupted(w) PROVE MoveMark(w)
    <2>1. /\ run' = [i \in RunIds |-> IF i \in Stale(w) THEN [run[i] EXCEPT !.status = "failed"]
                                                       ELSE run[i]]
          /\ proc' = [proc EXCEPT ![w].pc = IF Stale(w) = {} THEN "work" ELSE "countmarked",
                                  ![w].marked = Stale(w)]
      BY <1>4 DEF MarkInterrupted, Stale
    <2>2. \A i \in RunIds : /\ run'[i].started = run[i].started
                            /\ run'[i].status = IF i \in Stale(w) THEN "failed" ELSE run[i].status
      BY <2>1 DEF TypeOK, RunType
    <2>3. /\ proc'[w].pc = (IF Stale(w) = {} THEN "work" ELSE "countmarked")
          /\ proc'[w].run = proc[w].run /\ proc'[w].marked = Stale(w) /\ Others(w)
      BY <2>1 DEF TypeOK, ProcType, Others
    <2>4. QED
      BY <1>4, <2>2, <2>3 DEF MarkInterrupted, MoveMark, At, observed
  <1>5. ASSUME NEW w \in Workers, CountMarked(w) PROVE MoveCountMarked(w)
    <2>1. /\ proc'[w].pc = "work" /\ proc'[w].run = proc[w].run /\ proc'[w].marked = {}
          /\ Others(w)
      BY <1>5 DEF CountMarked, TypeOK, ProcType, Others
    <2>2. QED
      BY <1>5, <2>1 DEF CountMarked, Count, MoveCountMarked, At
  <1>6. ASSUME NEW w \in Workers, Announce(w) PROVE MoveAnnounce(w)
    <2>1. "save" \in Steps /\ Follow("announce") = "save"
      BY DEF Steps, Follow
    <2>2. \A i \in RunIds : event'[i] = IF i = proc[w].run THEN Verdict(w) ELSE event[i]
      BY <1>6 DEF Announce, TypeOK
    <2>3. QED
      BY <1>6, <2>1, <2>2, GoToEffect DEF Announce, MoveAnnounce, At, observed
  <1>7. ASSUME NEW w \in Workers, SaveRun(w) PROVE MoveSave(w)
    <2>1. "stamp" \in Steps /\ Follow("save") = "stamp"
      BY DEF Steps, Follow
    <2>2. \A i \in RunIds : /\ run'[i].started = run[i].started
                            /\ run'[i].status = IF i = proc[w].run THEN Verdict(w)
                                                                  ELSE run[i].status
      BY <1>7 DEF SaveRun, TypeOK, RunType
    <2>3. QED
      BY <1>7, <2>1, <2>2, GoToEffect DEF SaveRun, MoveSave, At, observed
  <1>8. ASSUME NEW w \in Workers, CountRun(w) PROVE MoveCountRun(w)
    <2>1. \A i \in RunIds : counted'[i] = IF i = proc[w].run THEN counted[i] + 1 ELSE counted[i]
      BY <1>8 DEF CountRun, Count
    <2>2. QED
      BY <1>8, <2>1, LeaveEffect DEF CountRun, MoveCountRun, At
  <1>9. PurgeRuns => MovePurge
    BY DEF PurgeRuns, MovePurge, TypeOK, RunType, observed
  <1>10. Tick => MoveTime
    BY DEF Tick, MoveTime
  <1>11. EnsureStates \/ UNCHANGED vars => MoveElse
    BY DEF EnsureStates, MoveElse, vars, observed
  <1>12. QED
    BY <1>1, <1>2, <1>3, <1>4, <1>5, <1>6, <1>7, <1>8, <1>9, <1>10, <1>11 DEF Next, Move

-----------------------------------------------------------------------------
(* The invariant of the runs.                                              *)

(* Two workers never record the same run: a primary key is used once. *)
UniqueRun ==
  \A v, w \in Workers : v # w /\ proc[v].run \in RunIds => proc[w].run # proc[v].run

(* Runs begin in the past, and one that is alive too long has overstayed. *)
StartedInv ==
  \A i \in RunIds : /\ run[i].started <= now
                    /\ Alive(i) /\ now > run[i].started + MaxRuntime => i \in overstayed

(* What a run's row says while its worker records it. *)
RecordInv ==
  \A w \in Workers :
    /\ proc[w].pc \in {"stamp", "count"} => run[proc[w].run].status # "running"
    /\ proc[w].pc \in EarlyPc => run[proc[w].run].status # "succeeded"
    /\ proc[w].pc = "save" => event[proc[w].run] = Verdict(w)

(* Nobody works on the run any more, and its row is closed or purged. *)
Closed(i) == ~Alive(i) /\ run[i].status \in {"succeeded", "failed", "gone"}

(* A run that did not overstay is counted once: by itself, when its row is  *)
(* closed, or by the one run that marked it interrupted, when it is dead.  *)
CountInv ==
  \A i \in RunIds : i \notin overstayed =>
    /\ counted[i] <= 1
    /\ counted[i] > 0 => Closed(i) /\ \A w \in Workers : i \notin proc[w].marked
    /\ \A w \in Workers :
         /\ i \in proc[w].marked => /\ Closed(i)
                                    /\ \A v \in Workers : v # w => i \notin proc[v].marked
         /\ proc[w].run = i /\ proc[w].pc \in EarlyPc => run[i].status \in {"running", "gone"}

(* No step takes a row back to the state before it was created. *)
LEMMA KeepsCreated ==
  ASSUME TypeOK, Move, NEW i \in RunIds, run[i].status # "none"
  PROVE  run'[i].status # "none" /\ run'[i].started = run[i].started
  <1>1. ASSUME NEW w \in Workers, MoveSave(w)
        PROVE  run'[i].status # "none" /\ run'[i].started = run[i].started
    BY <1>1 DEF MoveSave, Verdict
  <1>2. ASSUME NEW w \in Workers, NEW j \in RunIds, MoveCreate(w, j) PROVE run'[i] = run[i]
    BY <1>2 DEF MoveCreate
  <1>3. ASSUME NEW w \in Workers,
               MoveOut(w) \/ MoveOn(w) \/ MoveCountMarked(w) \/ MoveAnnounce(w) \/ MoveCountRun(w)
        PROVE  run' = run
    BY <1>3 DEF MoveOut, MoveOn, MoveCountMarked, MoveAnnounce, MoveCountRun
  <1>4. ASSUME NEW w \in Workers, MoveMark(w)
        PROVE  run'[i].status # "none" /\ run'[i].started = run[i].started
    BY <1>4 DEF MoveMark
  <1>5. MovePurge => run'[i].status # "none" /\ run'[i].started = run[i].started
    BY DEF MovePurge
  <1>6. MoveTime \/ MoveElse => run' = run
    BY DEF MoveTime, MoveElse
  <1>7. QED
    BY <1>1, <1>2, <1>3, <1>4, <1>5, <1>6 DEF Move

(* ProcInv for one worker. *)
HoldsRun(w) ==
  /\ proc[w].pc \in OutsidePc => proc[w].run = Nobody
  /\ proc[w].pc \notin OutsidePc => proc[w].run \in RunIds /\ run[proc[w].run].status # "none"
  /\ proc[w].pc # "countmarked" => proc[w].marked = {}

LEMMA ProcStep ==
  ASSUME TypeOK, ProcInv, Move
  PROVE  ProcInv'
  <1>1. ASSUME NEW v \in Workers, proc'[v] = proc[v] PROVE HoldsRun(v)'
    <2>1. HoldsRun(v)
      BY DEF ProcInv, HoldsRun
    <2>2. QED
      BY <1>1, <2>1, KeepsCreated DEF HoldsRun
  <1>2. ASSUME NEW w \in Workers, Others(w), HoldsRun(w)' PROVE ProcInv'
    BY <1>1, <1>2 DEF Others, ProcInv, HoldsRun
  <1>3. ASSUME NEW w \in Workers, MoveOut(w) PROVE ProcInv'
    <2>1. HoldsRun(w)'
      BY <1>3 DEF MoveOut, HoldsRun
    <2>2. QED
      BY <1>2, <1>3, <2>1 DEF MoveOut
  <1>4. ASSUME NEW w \in Workers, NEW i \in RunIds, MoveCreate(w, i) PROVE ProcInv'
    <2>1. HoldsRun(w)'
      BY <1>4 DEF MoveCreate, HoldsRun, OutsidePc, ProcInv
    <2>2. QED
      BY <1>2, <1>4, <2>1 DEF MoveCreate
  <1>5. ASSUME NEW w \in Workers,
               \/ MoveOn(w) \/ MoveCountMarked(w) \/ MoveAnnounce(w)
               \/ MoveMark(w) \/ MoveSave(w)
        PROVE ProcInv'
    <2>1. proc[w].run \in RunIds /\ run[proc[w].run].status # "none" /\ proc'[w].run = proc[w].run
      BY <1>5 DEF MoveOn, MoveCountMarked, MoveAnnounce, MoveMark, MoveSave, ProcInv, OutsidePc
    <2>2. proc'[w].pc \notin OutsidePc /\ (proc'[w].pc # "countmarked" => proc'[w].marked = {})
      BY <1>5 DEF MoveOn, MoveCountMarked, MoveAnnounce, MoveMark, MoveSave, ProcInv, OutsidePc
    <2>3. HoldsRun(w)'
      BY <2>1, <2>2, KeepsCreated DEF HoldsRun
    <2>4. Others(w)
      BY <1>5 DEF MoveOn, MoveCountMarked, MoveAnnounce, MoveMark, MoveSave
    <2>5. QED
      BY <1>2, <2>3, <2>4
  <1>6. ASSUME NEW w \in Workers, MoveCountRun(w) PROVE ProcInv'
    <2>1. HoldsRun(w)'
      BY <1>6 DEF MoveCountRun, HoldsRun, OutsidePc
    <2>2. QED
      BY <1>2, <1>6, <2>1 DEF MoveCountRun
  <1>7. CASE MovePurge \/ MoveTime \/ MoveElse
    <2>1. proc' = proc
      BY <1>7 DEF MovePurge, MoveTime, MoveElse
    <2>2. QED
      BY <1>1, <2>1 DEF ProcInv, HoldsRun
  <1>8. QED
    BY <1>3, <1>4, <1>5, <1>6, <1>7 DEF Move

(* A worker takes up a run only by creating its row. *)
LEMMA RunsOf ==
  ASSUME TypeOK, ProcInv, Move, NEW v \in Workers
  PROVE  \/ proc'[v].run \in {proc[v].run, Nobody}
         \/ /\ proc'[v].run \in RunIds /\ run[proc'[v].run].status = "none"
            /\ run'[proc'[v].run].started = now
            /\ Others(v)
            /\ now' = now
  BY DEF Move, MoveOut, MoveCreate, MoveOn, MoveMark, MoveCountMarked, MoveAnnounce, MoveSave,
         MoveCountRun, MovePurge, MoveTime, MoveElse, Others

LEMMA UniqueStep ==
  ASSUME TypeOK, ProcInv, UniqueRun, Move
  PROVE  UniqueRun'
  <1> SUFFICES ASSUME NEW v \in Workers, NEW w \in Workers, v # w, proc'[v].run \in RunIds,
                      proc'[w].run = proc'[v].run
               PROVE  FALSE
    BY DEF UniqueRun
  <1>1. Nobody \notin RunIds
    BY Basics
  <1>2. \A u \in Workers : proc[u].run \in RunIds => run[proc[u].run].status # "none"
    BY <1>1 DEF ProcInv
  <1>3. ASSUME NEW u \in Workers, NEW x \in Workers, u # x, proc'[u].run \in RunIds,
               proc'[u].run = proc'[x].run, run[proc'[u].run].status = "none", Others(u)
        PROVE  FALSE
    BY <1>2, <1>3 DEF Others
  <1>4. proc'[v].run = proc[v].run /\ proc'[w].run = proc[w].run
    BY <1>1, <1>3, RunsOf
  <1>5. QED
    BY <1>4 DEF UniqueRun

(* Who is alive was, or has just been created. *)
LEMMA AliveStep ==
  ASSUME TypeOK, ProcInv, Move, NEW i \in RunIds, Alive(i)'
  PROVE  Alive(i) \/ (run[i].status = "none" /\ run'[i].started = now /\ now' = now)
  <1>1. PICK v \in Workers : proc'[v].run = i
    BY DEF Alive
  <1>2. i # Nobody
    BY Basics
  <1>3. QED
    BY <1>1, <1>2, RunsOf DEF Alive

LEMMA StartedStep ==
  ASSUME TypeOK, ProcInv, StartedInv, Move
  PROVE  StartedInv'
  <1> SUFFICES ASSUME NEW i \in RunIds
               PROVE  /\ run'[i].started <= now'
                      /\ Alive(i)' /\ now' > run'[i].started + MaxRuntime => i \in overstayed'
    BY DEF StartedInv
  <1>1. /\ run[i].started \in Nat /\ now \in Nat /\ MaxRuntime \in Nat
        /\ run[i].started <= now
        /\ Alive(i) /\ now > run[i].started + MaxRuntime => i \in overstayed
    BY Basics DEF TypeOK, RunType, StartedInv
  <1>2. CASE MoveTime
    <2>1. /\ run' = run /\ proc' = proc /\ now' = now + 1
          /\ Alive(i) /\ now + 1 > run[i].started + MaxRuntime => i \in overstayed'
      BY <1>2 DEF MoveTime
    <2>2. QED
      BY <1>1, <2>1 DEF Alive
  <1>3. CASE ~MoveTime
    <2>1. now' = now /\ overstayed' = overstayed
      BY <1>3 DEF Move, MoveOut, MoveCreate, MoveOn, MoveMark, MoveCountMarked, MoveAnnounce,
                  MoveSave, MoveCountRun, MovePurge, MoveElse
    <2>2. run'[i].started = run[i].started \/ (run'[i].started = now)
      BY <1>3 DEF Move, MoveOut, MoveCreate, MoveOn, MoveMark, MoveCountMarked, MoveAnnounce,
                  MoveSave, MoveCountRun, MovePurge, MoveElse
    <2>3. Alive(i)' => Alive(i) \/ run'[i].started = now
      BY AliveStep
    <2>4. QED
      BY <1>1, <2>1, <2>2, <2>3
  <1>4. QED
    BY <1>2, <1>3

(* CountInv for one run. *)
CountOne(i) ==
  /\ counted[i] <= 1
  /\ counted[i] > 0 => Closed(i) /\ \A w \in Workers : i \notin proc[w].marked
  /\ \A w \in Workers :
       /\ i \in proc[w].marked => /\ Closed(i)
                                  /\ \A v \in Workers : v # w => i \notin proc[v].marked
       /\ proc[w].run = i /\ proc[w].pc \in EarlyPc => run[i].status \in {"running", "gone"}

(* A run that is taken for interrupted is dead or has overstayed: it began  *)
(* more than MaxRuntime before the run that says so.                       *)
LEMMA StaleDead ==
  ASSUME TypeOK, ProcInv, StartedInv, NEW w \in Workers, proc[w].pc = "mark",
         NEW i \in Stale(w)
  PROVE  /\ i \in RunIds /\ run[i].status = "running"
         /\ Alive(i) => i \in overstayed
  <1> DEFINE s == run[proc[w].run].started
  <1>1. i \in RunIds /\ run[i].status = "running" /\ run[i].started < s - MaxRuntime
    BY DEF Stale, Interrupted
  <1>2. proc[w].run \in RunIds
    BY DEF ProcInv, OutsidePc
  <1>3. /\ s \in Nat /\ run[i].started \in Nat /\ now \in Nat /\ MaxRuntime \in Nat /\ s <= now
    BY <1>1, <1>2, Basics DEF TypeOK, RunType, StartedInv
  <1> HIDE DEF s
  <1>4. now > run[i].started + MaxRuntime
    BY <1>1, <1>3
  <1>5. QED
    BY <1>1, <1>4 DEF StartedInv

LEMMA CountOneStep ==
  ASSUME TypeOK, ProcInv, UniqueRun, StartedInv, RecordInv, Move,
         NEW i \in RunIds, i \notin overstayed, CountOne(i)
  PROVE  CountOne(i)'
  <1>0. /\ counted[i] \in Nat /\ i # Nobody
        /\ run[i].status \in {"none", "running", "succeeded", "failed", "gone"}
    BY Basics DEF TypeOK, RunType
  <1>1. ASSUME NEW w \in Workers, MoveOut(w) PROVE CountOne(i)'
    <2>1. /\ counted' = counted /\ run' = run
          /\ \A v \in Workers : \/ proc'[v] = proc[v]
                                \/ /\ proc'[v].run = Nobody /\ proc'[v].marked = {}
      BY <1>1 DEF MoveOut, Others
    <2>2. Alive(i)' => Alive(i)
      BY <1>0, <2>1 DEF Alive
    <2>3. Closed(i) => Closed(i)'
      BY <2>1, <2>2 DEF Closed
    <2>4. QED
      BY <1>0, <2>1, <2>3 DEF CountOne
  <1>2. ASSUME NEW w \in Workers, NEW j \in RunIds, MoveCreate(w, j) PROVE CountOne(i)'
    <2>1. /\ counted' = counted
          /\ \A v \in Workers : /\ proc'[v].marked = proc[v].marked
                                /\ proc'[v] = proc[v] \/ (v = w /\ proc'[v].run = j)
      BY <1>2 DEF MoveCreate, Others
    <2>2. CASE i = j
      <3>1. run[i].status = "none" /\ run'[i].status = "running"
        BY <1>2, <2>2 DEF MoveCreate
      <3>2. ~Closed(i)
        BY <3>1 DEF Closed
      <3>3. counted[i] = 0 /\ \A v \in Workers : i \notin proc[v].marked
        BY <1>0, <3>2 DEF CountOne
      <3>4. QED
        BY <2>1, <3>1, <3>3 DEF CountOne
    <2>3. CASE i # j
      <3>1. run'[i] = run[i] /\ \A v \in Workers : proc'[v].run = i => proc'[v] = proc[v]
        BY <1>2, <2>1, <2>3 DEF MoveCreate
      <3>2. Closed(i) => Closed(i)'
        BY <3>1 DEF Closed, Alive
      <3>3. QED
        BY <2>1, <3>1, <3>2 DEF CountOne
    <2>4. QED
      BY <2>2, <2>3
  <1>3. ASSUME NEW w \in Workers, MoveOn(w) \/ MoveAnnounce(w) PROVE CountOne(i)'
    <2>1. /\ counted' = counted /\ run' = run
          /\ \A v \in Workers : /\ proc'[v].marked = proc[v].marked
                                /\ proc'[v].run = proc[v].run
                                /\ proc'[v].pc \in EarlyPc => proc[v].pc \in EarlyPc
      BY <1>3 DEF MoveOn, MoveAnnounce, Others, EarlyPc
    <2>2. Closed(i)' = Closed(i)
      BY <2>1 DEF Closed, Alive
    <2>3. QED
      BY <2>1, <2>2 DEF CountOne
  <1>4. ASSUME NEW w \in Workers, MoveMark(w) PROVE CountOne(i)'
    <2>1. /\ counted' = counted /\ proc[w].pc = "mark"
          /\ run'[i].status = IF i \in Stale(w) THEN "failed" ELSE run[i].status
          /\ \A v \in Workers : /\ proc'[v].run = proc[v].run
                                /\ v # w => proc'[v] = proc[v]
          /\ proc'[w].marked = Stale(w)
      BY <1>4 DEF MoveMark, Others
    <2>2. Alive(i)' = Alive(i)
      BY <2>1 DEF Alive
    <2>3. CASE i \in Stale(w)
      <3>1. run[i].status = "running" /\ ~Alive(i)
        BY <2>1, <2>3, StaleDead
      <3>2. ~Closed(i) /\ Closed(i)'
        BY <2>1, <2>2, <2>3, <3>1 DEF Closed
      <3>3. counted[i] = 0 /\ \A v \in Workers : i \notin proc[v].marked
        BY <1>0, <3>2 DEF CountOne
      <3>4. \A v \in Workers : proc'[v].run # i
        BY <2>1, <3>1 DEF Alive
      <3>5. QED
        BY <2>1, <3>2, <3>3, <3>4 DEF CountOne
    <2>4. CASE i \notin Stale(w)
      <3>1. run'[i].status = run[i].status /\ (Closed(i) => Closed(i)')
        BY <2>1, <2>2, <2>4 DEF Closed
      <3>2. \A v \in Workers : /\ i \in proc'[v].marked => v # w /\ i \in proc[v].marked
                               /\ v # w => proc'[v] = proc[v]
        BY <2>1, <2>4
      <3>3. proc[w].pc \in EarlyPc
        BY <2>1 DEF EarlyPc
      <3>4. QED
        BY <2>1, <3>1, <3>2, <3>3 DEF CountOne
    <2>5. QED
      BY <2>3, <2>4
  <1>5. ASSUME NEW w \in Workers, MoveCountMarked(w) PROVE CountOne(i)'
    <2>1. /\ run' = run /\ proc'[w].marked = {} /\ proc[w].pc \in EarlyPc
          /\ counted'[i] = IF i \in proc[w].marked THEN counted[i] + 1 ELSE counted[i]
          /\ \A v \in Workers : /\ proc'[v].run = proc[v].run
                                /\ v # w => proc'[v] = proc[v]
      BY <1>5 DEF MoveCountMarked, Others, EarlyPc
    <2>2. Closed(i)' = Closed(i)
      BY <2>1 DEF Closed, Alive
    <2>3. CASE i \in proc[w].marked
      <3>1. counted[i] = 0 /\ Closed(i) /\ \A v \in Workers : v # w => i \notin proc[v].marked
        BY <1>0, <2>3 DEF CountOne
      <3>2. counted'[i] = 1 /\ \A v \in Workers : i \notin proc'[v].marked
        BY <2>1, <2>3, <3>1
      <3>3. \A v \in Workers : proc'[v].run # i
        BY <2>1, <3>1 DEF Closed, Alive
      <3>4. QED
        BY <2>2, <3>1, <3>2, <3>3 DEF CountOne
    <2>4. CASE i \notin proc[w].marked
      <3>1. /\ counted'[i] = counted[i]
            /\ \A v \in Workers : i \in proc'[v].marked => i \in proc[v].marked
        BY <2>1, <2>4
      <3>2. QED
        BY <2>1, <2>2, <3>1 DEF CountOne
    <2>5. QED
      BY <2>3, <2>4
  <1>6. ASSUME NEW w \in Workers, MoveSave(w) PROVE CountOne(i)'
    <2>1. /\ counted' = counted /\ proc'[w].pc \notin EarlyPc
          /\ run'[i].status = IF i = proc[w].run THEN Verdict(w) ELSE run[i].status
          /\ \A v \in Workers : /\ proc'[v].run = proc[v].run
                                /\ proc'[v].marked = proc[v].marked
                                /\ v # w => proc'[v] = proc[v]
      BY <1>6 DEF MoveSave, Others, EarlyPc
    <2>2. Alive(i)' = Alive(i)
      BY <2>1 DEF Alive
    <2>3. CASE i = proc[w].run
      <3>1. Alive(i) /\ \A v \in Workers : v # w => proc[v].run # i
        BY <2>3 DEF Alive, UniqueRun
      <3>2. ~Closed(i)
        BY <3>1 DEF Closed
      <3>3. counted[i] = 0 /\ \A v \in Workers : i \notin proc[v].marked
        BY <1>0, <3>2 DEF CountOne
      <3>4. QED
        BY <2>1, <3>1, <3>3 DEF CountOne
    <2>4. CASE i # proc[w].run
      <3>1. run'[i].status = run[i].status
        BY <2>1, <2>4
      <3>2. Closed(i)' = Closed(i)
        BY <2>2, <3>1 DEF Closed
      <3>3. QED
        BY <2>1, <3>1, <3>2 DEF CountOne
    <2>5. QED
      BY <2>3, <2>4
  <1>7. ASSUME NEW w \in Workers, MoveCountRun(w) PROVE CountOne(i)'
    <2>1. /\ run' = run /\ proc'[w].marked = {} /\ proc'[w].run = Nobody /\ proc[w].pc = "count"
          /\ counted'[i] = IF i = proc[w].run THEN counted[i] + 1 ELSE counted[i]
          /\ \A v \in Workers : v # w => proc'[v] = proc[v]
      BY <1>7 DEF MoveCountRun, Others
    <2>2. Alive(i)' => Alive(i)
      BY <1>0, <2>1 DEF Alive
    <2>3. CASE i = proc[w].run
      <3>1. Alive(i) /\ \A v \in Workers : v # w => proc[v].run # i
        BY <2>3 DEF Alive, UniqueRun
      <3>2. counted[i] = 0 /\ \A v \in Workers : i \notin proc[v].marked
        BY <1>0, <3>1 DEF CountOne, Closed
      <3>3. \A v \in Workers : proc'[v].run # i /\ i \notin proc'[v].marked
        BY <1>0, <2>1, <3>1, <3>2
      <3>4. run[i].status # "none" /\ run[i].status # "running"
        BY <2>1, <2>3 DEF ProcInv, RecordInv, OutsidePc
      <3>5. Closed(i)' /\ counted'[i] = 1
        BY <1>0, <2>1, <2>3, <3>2, <3>3, <3>4 DEF Closed, Alive
      <3>6. QED
        BY <3>3, <3>5 DEF CountOne
    <2>4. CASE i # proc[w].run
      <3>1. /\ counted'[i] = counted[i] /\ (Closed(i) => Closed(i)')
            /\ \A v \in Workers : i \in proc'[v].marked => i \in proc[v].marked
            /\ \A v \in Workers : proc'[v].run = i => proc'[v] = proc[v]
        BY <1>0, <2>1, <2>2, <2>4 DEF Closed
      <3>2. QED
        BY <2>1, <3>1 DEF CountOne
    <2>5. QED
      BY <2>3, <2>4
  <1>8. CASE MovePurge
    <2>1. /\ proc' = proc /\ counted' = counted
          /\ \/ run'[i].status = run[i].status
             \/ run[i].status # "none" /\ run'[i].status = "gone"
      BY <1>8 DEF MovePurge
    <2>2. Closed(i) => Closed(i)'
      BY <2>1 DEF Closed, Alive
    <2>3. QED
      BY <2>1, <2>2 DEF CountOne
  <1>9. CASE MoveTime \/ MoveElse
    <2>1. proc' = proc /\ counted' = counted /\ run' = run
      BY <1>9 DEF MoveTime, MoveElse
    <2>2. QED
      BY <2>1 DEF CountOne, Closed, Alive
  <1>10. QED
    BY <1>1, <1>2, <1>3, <1>4, <1>5, <1>6, <1>7, <1>8, <1>9 DEF Move

(* Runs that overstayed stay in the set. *)
LEMMA OverstayedGrows == ASSUME Move PROVE overstayed \subseteq overstayed'
  BY DEF Move, MoveOut, MoveCreate, MoveOn, MoveMark, MoveCountMarked, MoveAnnounce, MoveSave,
         MoveCountRun, MovePurge, MoveTime, MoveElse

LEMMA CountStep ==
  ASSUME TypeOK, ProcInv, UniqueRun, StartedInv, RecordInv, CountInv, Move
  PROVE  CountInv'
  <1>1. \A i \in RunIds : i \notin overstayed => CountOne(i)
    BY DEF CountInv, CountOne
  <1>2. \A i \in RunIds : i \notin overstayed => CountOne(i)'
    BY <1>1, CountOneStep
  <1>3. QED
    BY <1>2, OverstayedGrows DEF CountInv, CountOne

(* RecordInv for one worker. *)
Records(w) ==
  /\ proc[w].pc \in {"stamp", "count"} => run[proc[w].run].status # "running"
  /\ proc[w].pc \in EarlyPc => run[proc[w].run].status # "succeeded"
  /\ proc[w].pc = "save" => event[proc[w].run] = Verdict(w)

(* What others do to the run of a worker: they neither create nor save it,  *)
(* nor announce it.                                                        *)
LEMMA OthersRun ==
  ASSUME TypeOK, ProcInv, UniqueRun, Move, NEW v \in Workers, proc[v].pc \notin OutsidePc,
         proc'[v] = proc[v]
  PROVE  LET i == proc[v].run IN
         /\ i \in RunIds
         /\ \/ run'[i].status \in {run[i].status, "gone"}
            \/ run[i].status = "running" /\ run'[i].status = "failed"
            \/ proc[v].pc = "save"
         /\ event'[i] = event[i] \/ proc[v].pc = "announce"
  <1> DEFINE i == proc[v].run
  <1>1. i \in RunIds /\ run[i].status # "none"
    BY DEF ProcInv
  <1>2. \A w \in Workers : w # v => proc[w].run # i
    BY <1>1 DEF UniqueRun
  <1>3. ASSUME NEW w \in Workers, MoveSave(w)
        PROVE  /\ event' = event
               /\ run'[i].status = run[i].status \/ proc[v].pc = "save"
    BY <1>1, <1>2, <1>3 DEF MoveSave
  <1>4. ASSUME NEW w \in Workers, MoveAnnounce(w)
        PROVE  /\ run' = run
               /\ event'[i] = event[i] \/ proc[v].pc = "announce"
    BY <1>1, <1>2, <1>4 DEF MoveAnnounce
  <1>5. ASSUME NEW w \in Workers, MoveMark(w)
        PROVE  /\ event' = event
               /\ \/ run'[i].status = run[i].status
                  \/ run[i].status = "running" /\ run'[i].status = "failed"
    BY <1>1, <1>5 DEF MoveMark, Stale, Interrupted
  <1>6. ASSUME NEW w \in Workers, NEW j \in RunIds, MoveCreate(w, j)
        PROVE  event' = event /\ run'[i] = run[i]
    BY <1>1, <1>6 DEF MoveCreate
  <1>7. ASSUME NEW w \in Workers,
               MoveOut(w) \/ MoveOn(w) \/ MoveCountMarked(w) \/ MoveCountRun(w)
        PROVE  event' = event /\ run' = run
    BY <1>7 DEF MoveOut, MoveOn, MoveCountMarked, MoveCountRun
  <1>8. MovePurge => event' = event /\ run'[i].status \in {run[i].status, "gone"}
    BY <1>1 DEF MovePurge
  <1>9. MoveTime \/ MoveElse => event' = event /\ run' = run
    BY DEF MoveTime, MoveElse
  <1>10. QED
    BY <1>1, <1>3, <1>4, <1>5, <1>6, <1>7, <1>8, <1>9 DEF Move

LEMMA RecordStep ==
  ASSUME TypeOK, ProcInv, UniqueRun, RecordInv, Move
  PROVE  RecordInv'
  <1>0. \A v \in Workers : proc[v].pc \in EarlyPc \cup {"stamp", "count"}
                             => proc[v].run \in RunIds /\ run[proc[v].run].status # "none"
    BY DEF ProcInv, EarlyPc, OutsidePc
  <1>1. ASSUME NEW v \in Workers, proc'[v] = proc[v], proc[v].pc \notin {"save", "announce"}
        PROVE  Records(v)'
    <2>1. CASE proc[v].pc \in OutsidePc
      BY <1>1, <2>1 DEF Records, OutsidePc, EarlyPc
    <2>2. CASE proc[v].pc \notin OutsidePc
      BY <1>1, <2>2, OthersRun DEF Records, RecordInv
    <2>3. QED
      BY <2>1, <2>2
  <1>2. ASSUME NEW v \in Workers, proc'[v] = proc[v], proc[v].pc \in {"save", "announce"},
               \A i \in RunIds : i = proc[v].run => /\ run'[i].status # "succeeded"
                                                   /\ event'[i] = event[i]
        PROVE  Records(v)'
    <2>1. proc[v].run \in RunIds
      BY <1>0, <1>2 DEF EarlyPc
    <2>2. Verdict(v)' = Verdict(v)
      BY <1>2 DEF Verdict
    <2>3. QED
      BY <1>2, <2>1, <2>2 DEF Records, RecordInv
  <1>3. ASSUME NEW v \in Workers, proc'[v] = proc[v],
               \/ ~ \E w \in Workers : MoveSave(w) \/ MoveAnnounce(w)
               \/ \E w \in Workers : w # v /\ (MoveSave(w) \/ MoveAnnounce(w))
        PROVE  Records(v)'
    <2>1. CASE proc[v].pc \notin {"save", "announce"}
      BY <1>1, <1>3, <2>1
    <2>2. CASE proc[v].pc \in {"save", "announce"}
      <3>1. /\ proc[v].run \in RunIds /\ run[proc[v].run].status \notin {"none", "succeeded"}
            /\ \A w \in Workers : w # v => proc[w].run # proc[v].run
        BY <1>0, <2>2 DEF EarlyPc, RecordInv, UniqueRun
      <3>2. ASSUME NEW w \in Workers, w # v, MoveSave(w) \/ MoveAnnounce(w)
            PROVE  /\ run'[proc[v].run].status = run[proc[v].run].status
                   /\ event'[proc[v].run] = event[proc[v].run]
        BY <3>1, <3>2 DEF MoveSave, MoveAnnounce
      <3>3. ASSUME ~ \E w \in Workers : MoveSave(w) \/ MoveAnnounce(w)
            PROVE  /\ run'[proc[v].run].status \in {run[proc[v].run].status, "gone", "failed"}
                   /\ event' = event
        BY <3>1, <3>3 DEF Move, MoveOut, MoveCreate, MoveOn, MoveMark, MoveCountMarked,
                          MoveCountRun, MovePurge, MoveTime, MoveElse
      <3>4. QED
        BY <1>2, <1>3, <2>2, <3>1, <3>2, <3>3
    <2>3. QED
      BY <2>1, <2>2
  <1>4. ASSUME NEW w \in Workers, Others(w), Records(w)',
               \/ ~ \E x \in Workers : MoveSave(x) \/ MoveAnnounce(x)
               \/ MoveSave(w) \/ MoveAnnounce(w)
        PROVE  RecordInv'
    BY <1>3, <1>4 DEF Others, RecordInv, Records
  <1>5. ASSUME NEW w \in Workers, MoveSave(w) PROVE RecordInv'
    <2>1. proc[w].run \in RunIds
      BY <1>0, <1>5 DEF MoveSave, EarlyPc
    <2>2. Records(w)'
      BY <1>5, <2>1 DEF MoveSave, Records, EarlyPc, Verdict
    <2>3. QED
      BY <1>4, <1>5, <2>2 DEF MoveSave
  <1>6. ASSUME NEW w \in Workers, MoveAnnounce(w) PROVE RecordInv'
    <2>1. proc[w].run \in RunIds /\ run[proc[w].run].status # "succeeded"
      BY <1>0, <1>6 DEF MoveAnnounce, EarlyPc, RecordInv
    <2>2. Records(w)'
      BY <1>6, <2>1 DEF MoveAnnounce, Records, EarlyPc, Verdict
    <2>3. QED
      BY <1>4, <1>6, <2>2 DEF MoveAnnounce
  <1>7. ASSUME ~ \E x \in Workers : MoveSave(x) \/ MoveAnnounce(x) PROVE RecordInv'
    <2>1. ASSUME NEW w \in Workers, MoveOut(w) \/ MoveCountRun(w) PROVE RecordInv'
      <3>1. Records(w)' /\ Others(w)
        BY <2>1 DEF MoveOut, MoveCountRun, Records, OutsidePc, EarlyPc
      <3>2. QED
        BY <1>4, <1>7, <3>1
    <2>2. ASSUME NEW w \in Workers, NEW i \in RunIds, MoveCreate(w, i) PROVE RecordInv'
      <3>1. Records(w)' /\ Others(w)
        BY <2>2 DEF MoveCreate, Records, EarlyPc
      <3>2. QED
        BY <1>4, <1>7, <3>1
    <2>3. ASSUME NEW w \in Workers, MoveOn(w) \/ MoveCountMarked(w) \/ MoveMark(w)
          PROVE  RecordInv'
      <3>1. /\ proc'[w].run = proc[w].run /\ proc[w].run \in RunIds /\ Others(w)
            /\ proc'[w].pc # "save"
        BY <1>0, <2>3 DEF MoveOn, MoveCountMarked, MoveMark, EarlyPc
      <3>2. run'[proc[w].run].status = run[proc[w].run].status
        BY <2>3, <3>1 DEF MoveOn, MoveCountMarked, MoveMark, Stale
      <3>3. /\ proc'[w].pc \in EarlyPc => proc[w].pc \in EarlyPc
            /\ proc'[w].pc \in {"stamp", "count"} => proc[w].pc \in {"stamp", "count"}
        BY <2>3 DEF MoveOn, MoveCountMarked, MoveMark, EarlyPc
      <3>4. Records(w)'
        BY <3>1, <3>2, <3>3 DEF Records, RecordInv
      <3>5. QED
        BY <1>4, <1>7, <3>1, <3>4
    <2>4. CASE MovePurge \/ MoveTime \/ MoveElse
      <3>1. proc' = proc
        BY <2>4 DEF MovePurge, MoveTime, MoveElse
      <3>2. QED
        BY <1>3, <1>7, <3>1 DEF RecordInv, Records
    <2>5. QED
      BY <1>7, <2>1, <2>2, <2>3, <2>4 DEF Move
  <1>8. QED
    BY <1>5, <1>6, <1>7

(* The row of a run reads "succeeded" only after its event does. *)
LEMMA AnnouncedStep ==
  ASSUME TypeOK, ProcInv, UniqueRun, RecordInv, SuccessAnnounced, Move
  PROVE  SuccessAnnounced'
  <1> SUFFICES ASSUME NEW i \in RunIds, run'[i].status = "succeeded"
               PROVE  event'[i] = "succeeded"
    BY DEF SuccessAnnounced
  <1>1. ASSUME NEW w \in Workers, MoveSave(w) PROVE event'[i] = "succeeded"
    <2>1. CASE i = proc[w].run
      <3>1. event[i] = Verdict(w) /\ Verdict(w) = "succeeded" /\ event' = event
        BY <1>1, <2>1 DEF MoveSave, RecordInv
      <3>2. QED
        BY <3>1
    <2>2. CASE i # proc[w].run
      BY <1>1, <2>2 DEF MoveSave, SuccessAnnounced
    <2>3. QED
      BY <2>1, <2>2
  <1>2. ASSUME NEW w \in Workers, MoveAnnounce(w) PROVE event'[i] = "succeeded"
    <2>1. run[i].status = "succeeded" /\ run[proc[w].run].status # "succeeded"
      BY <1>2 DEF MoveAnnounce, RecordInv, EarlyPc
    <2>2. QED
      BY <1>2, <2>1 DEF MoveAnnounce, SuccessAnnounced
  <1>3. ASSUME ~ \E w \in Workers : MoveSave(w) \/ MoveAnnounce(w) PROVE event'[i] = "succeeded"
    <2>1. event' = event /\ run[i].status = "succeeded"
      BY <1>3 DEF Move, MoveOut, MoveCreate, MoveOn, MoveMark, MoveCountMarked, MoveCountRun,
                  MovePurge, MoveTime, MoveElse
    <2>2. QED
      BY <2>1 DEF SuccessAnnounced
  <1>4. QED
    BY <1>1, <1>2, <1>3

(* After its _mark_interrupted a run sees no older row left running: rows   *)
(* that are created later begin later.                                     *)
LEMMA NoneLeftStep ==
  ASSUME TypeOK, ProcInv, StartedInv, NoneLeftRunning, Move
  PROVE  NoneLeftRunning'
  <1> SUFFICES ASSUME NEW w \in Workers,
                      proc'[w].pc \in {"countmarked", "work", "announce", "save"},
                      NEW i \in RunIds, i # proc'[w].run, run'[i].status = "running"
               PROVE  run'[i].started >= run'[proc'[w].run].started - MaxRuntime
    BY DEF NoneLeftRunning
  <1> DEFINE m == proc[w].run
  <1>1. /\ proc'[w].run = m
        /\ proc[w].pc \in {"mark", "countmarked", "work", "announce", "save"}
        /\ proc[w].pc # "mark" \/ MoveMark(w)
    BY DEF Move, MoveOut, MoveCreate, MoveOn, MoveMark, MoveCountMarked, MoveAnnounce, MoveSave,
           MoveCountRun, MovePurge, MoveTime, MoveElse, Others, OutsidePc
  <1>2. m \in RunIds /\ run[m].status # "none"
    BY <1>1 DEF ProcInv, OutsidePc
  <1>3. run'[m].started = run[m].started
    BY <1>2, KeepsCreated
  <1>4. /\ run[m].started \in Nat /\ run[i].started \in Nat /\ now \in Nat /\ MaxRuntime \in Nat
        /\ run[m].started <= now
    BY <1>2, Basics DEF TypeOK, RunType, StartedInv
  <1>5. \/ run[i].status = "running" /\ run'[i].started = run[i].started
        \/ run'[i].started = now
    BY DEF Move, MoveOut, MoveCreate, MoveOn, MoveMark, MoveCountMarked, MoveAnnounce, MoveSave,
           MoveCountRun, MovePurge, MoveTime, MoveElse, Verdict
  <1>6. CASE run'[i].started = now
    BY <1>1, <1>3, <1>4, <1>6
  <1>7. CASE run[i].status = "running" /\ run'[i].started = run[i].started /\ MoveMark(w)
    <2>1. i \notin Stale(w)
      BY <1>7 DEF MoveMark
    <2>2. ~(run[i].started < run[m].started - MaxRuntime)
      BY <1>1, <1>7, <2>1 DEF Stale, Interrupted
    <2>3. QED
      BY <1>1, <1>3, <1>4, <1>7, <2>2
  <1>8. CASE run[i].status = "running" /\ run'[i].started = run[i].started /\ proc[w].pc # "mark"
    <2>1. run[i].started >= run[m].started - MaxRuntime
      BY <1>1, <1>8 DEF NoneLeftRunning
    <2>2. QED
      BY <1>1, <1>3, <1>8, <2>1
  <1>9. QED
    BY <1>1, <1>5, <1>6, <1>7, <1>8

-----------------------------------------------------------------------------
(* What the steps above preserve together. *)
JobInv == ProcInv /\ UniqueRun /\ StartedInv /\ RecordInv /\ CountInv /\ SuccessAnnounced
            /\ NoneLeftRunning

(* However workers overlap, crash and give up, and whichever statements of  *)
(* record_run the database refuses, the rows, events and counters of the    *)
(* runs stay consistent.                                                   *)
THEOREM JobsCorrect == Spec => []JobInv
  <1>1. Init => JobInv
    <2> SUFFICES ASSUME Init PROVE JobInv
      OBVIOUS
    <2>1. /\ \A w \in Workers : /\ proc[w].pc = "idle" /\ proc[w].run = Nobody
                                /\ proc[w].marked = {}
          /\ \A i \in RunIds : run[i].status = "none" /\ run[i].started = 0 /\ counted[i] = 0
          /\ now = 0 /\ Nobody \notin RunIds
      BY Basics DEF Init
    <2>2. ProcInv /\ UniqueRun /\ RecordInv /\ NoneLeftRunning
      BY <2>1 DEF ProcInv, UniqueRun, RecordInv, NoneLeftRunning, OutsidePc, EarlyPc
    <2>3. StartedInv /\ CountInv /\ SuccessAnnounced
      BY <2>1 DEF StartedInv, CountInv, SuccessAnnounced, Alive, EarlyPc
    <2>4. QED
      BY <2>2, <2>3 DEF JobInv
  <1>2. TypeOK /\ JobInv /\ [Next]_vars => JobInv'
    <2> SUFFICES ASSUME TypeOK, JobInv, [Next]_vars PROVE JobInv'
      OBVIOUS
    <2>1. Move
      BY MoveSteps DEF JobInv
    <2>2. QED
      BY <2>1, ProcStep, UniqueStep, StartedStep, RecordStep, CountStep, AnnouncedStep,
         NoneLeftStep DEF JobInv
  <1>3. QED
    BY <1>1, <1>2, TypeCorrect, PTL DEF Spec

(* A run goes into a counter at most once, as interrupted or by itself,     *)
(* unless it stayed alive longer than max_runtime_seconds (_finish, and the *)
(* increment after _mark_interrupted).                                     *)
THEOREM CountCorrect == Spec => []CountedOnce
  <1>1. TypeOK /\ JobInv => CountedOnce
    <2> SUFFICES ASSUME TypeOK, CountInv, NEW i \in RunIds, counted[i] > 1, i \notin overstayed
                 PROVE  FALSE
      BY DEF JobInv, CountedOnce
    <2>1. counted[i] <= 1 /\ counted[i] \in Nat
      BY DEF CountInv, TypeOK
    <2>2. QED
      BY <2>1
  <1>2. QED
    BY <1>1, JobsCorrect, TypeCorrect, PTL

(* A row that reads "succeeded" was announced as such (_finish records the  *)
(* platform event before it saves the row).                                *)
THEOREM AnnouncedCorrect == Spec => []SuccessAnnounced
  <1>1. JobInv => SuccessAnnounced
    BY DEF JobInv
  <1>2. QED
    BY <1>1, JobsCorrect, PTL

(* No crashed run stays "running" beside a later one (_mark_interrupted).   *)
THEOREM NoneLeftCorrect == Spec => []NoneLeftRunning
  <1>1. JobInv => NoneLeftRunning
    BY DEF JobInv
  <1>2. QED
    BY <1>1, JobsCorrect, PTL

(* The verdict of a finished run is not overwritten, unless it overstayed:  *)
(* _mark_interrupted takes only rows of dead runs.                         *)
THEOREM VerdictCorrect == Spec => VerdictStays
  <1>1. TypeOK /\ JobInv /\ [Next]_vars =>
          [\A i \in RunIds :
             run[i].status \in {"succeeded", "failed"} /\ i \notin overstayed
               => run'[i].status \in {run[i].status, "gone"}]_vars
    <2> SUFFICES ASSUME TypeOK, JobInv, [Next]_vars, NEW i \in RunIds,
                        run[i].status \in {"succeeded", "failed"}, i \notin overstayed
                 PROVE  run'[i].status \in {run[i].status, "gone"}
      OBVIOUS
    <2>1. Move
      BY MoveSteps DEF JobInv
    <2>2. ASSUME NEW w \in Workers, MoveSave(w) PROVE run'[i].status = run[i].status
      <3>1. i # proc[w].run
        BY <2>2 DEF MoveSave, JobInv, CountInv, EarlyPc
      <3>2. QED
        BY <2>2, <3>1 DEF MoveSave
    <2>3. ASSUME NEW w \in Workers, MoveMark(w) PROVE run'[i].status = run[i].status
      BY <2>3 DEF MoveMark, Stale, Interrupted
    <2>4. QED
      BY <2>1, <2>2, <2>3 DEF Move, MoveOut, MoveCreate, MoveOn, MoveCountMarked, MoveAnnounce,
                              MoveCountRun, MovePurge, MoveTime, MoveElse
  <1>2. QED
    BY <1>1, JobsCorrect, TypeCorrect, PTL DEF Spec, VerdictStays

-----------------------------------------------------------------------------
(* The lock.                                                               *)

(* A worker whose lock has not expired is the one whose token Redis holds.  *)
LockOne(w) ==
  /\ proc[w].pc \in {"idle", "skip"} => proc[w].until = 0
  /\ now < proc[w].until => lock.owner = w /\ lock.expires = proc[w].until

LockInv == \A w \in Workers : LockOne(w)

LEMMA LockStep ==
  ASSUME TypeOK, LockInv, [Next]_vars
  PROVE  LockInv'
  <1>0. now \in Nat /\ \A w \in Workers : proc[w].until \in Nat
    BY DEF TypeOK, ProcType
  <1>1. ASSUME NEW w \in Workers, Others(w), LockOne(w)', now' = now,
               \/ lock' = lock
               \/ lock.expires <= now
               \/ lock.owner = w
        PROVE  LockInv'
    <2> SUFFICES ASSUME NEW v \in Workers, v # w PROVE LockOne(v)'
      BY <1>1 DEF LockInv
    <2>1. proc'[v] = proc[v] /\ LockOne(v)
      BY <1>1 DEF Others, LockInv
    <2>2. now < proc[v].until => lock' = lock
      <3>1. now < proc[v].until => lock.owner = v /\ ~(lock.expires <= now)
        BY <1>0, <2>1 DEF LockOne
      <3>2. QED
        BY <1>1, <3>1
    <2>3. QED
      BY <1>1, <2>1, <2>2 DEF LockOne
  <1>2. ASSUME NEW w \in Workers, Acquire(w) PROVE LockInv'
    <2>1. /\ Others(w) /\ proc[w].pc = "idle" /\ now' = now
          /\ \/ lock' = lock /\ proc'[w].pc = "skip" /\ proc'[w].until = proc[w].until
             \/ /\ ~HeldByOther(w) /\ lock' = [owner |-> w, expires |-> now + LockTTL]
                /\ proc'[w].pc = "create" /\ proc'[w].until = now + LockTTL
      BY <1>2, AcquireEffect DEF Acquire
    <2>2. proc[w].until = 0
      BY <2>1 DEF LockInv, LockOne
    <2>3. LockOne(w)'
      BY <1>0, <2>1, <2>2 DEF LockOne
    <2>4. lock' = lock \/ lock.expires <= now
      BY <1>0, <2>1 DEF HeldByOther, TypeOK
    <2>5. QED
      BY <1>1, <2>1, <2>3, <2>4
  <1>3. ASSUME NEW w \in Workers,
               AcquireError(w) \/ SkipError(w) \/ RecordSkipped(w) \/ Release(w) \/ Crash(w)
        PROVE  LockInv'
    <2>1. Others(w) /\ proc'[w].until = 0
      BY <1>3, ResetEffect DEF AcquireError, SkipError, RecordSkipped, Release, Crash
    <2>2. now' = now
      BY <1>3 DEF AcquireError, SkipError, RecordSkipped, Release, Crash
    <2>3. lock' = lock \/ lock.expires <= now \/ lock.owner = w
      BY <1>0, <1>3 DEF AcquireError, SkipError, RecordSkipped, Release, Crash, HeldByOther, Mine,
                        TypeOK
    <2>4. LockOne(w)'
      BY <1>0, <2>1, <2>2 DEF LockOne
    <2>5. QED
      BY <1>1, <2>1, <2>2, <2>3, <2>4
  <1>4. ASSUME NEW w \in Workers, Others(w), proc'[w].until = proc[w].until,
               proc'[w].pc \notin {"idle", "skip"}, now' = now, lock' = lock
        PROVE  LockInv'
    <2>1. LockOne(w)'
      BY <1>4 DEF LockInv, LockOne
    <2>2. QED
      BY <1>1, <1>4, <2>1
  <1>5. ASSUME NEW w \in Workers,
               \/ RunCommand(w) \/ Start(w) \/ Announce(w) \/ SaveRun(w) \/ Stamp(w)
        PROVE  LockInv'
    <2>1. \E pc \in Steps \ {"idle", "skip"} : GoTo(w, pc)
      BY <1>5 DEF RunCommand, Start, Announce, SaveRun, Stamp, Follow, Steps
    <2>2. /\ Others(w) /\ proc'[w].until = proc[w].until
          /\ proc'[w].pc \notin {"idle", "skip"}
      BY <2>1, GoToEffect
    <2>3. now' = now /\ lock' = lock
      BY <1>5 DEF RunCommand, Start, Announce, SaveRun, Stamp
    <2>4. QED
      BY <1>4, <2>2, <2>3
  <1>6. ASSUME NEW w \in Workers, Abandon(w) \/ CountRun(w) PROVE LockInv'
    <2>1. now' = now /\ lock' = lock /\ Leave(w)
      BY <1>6 DEF Abandon, CountRun
    <2>2. QED
      BY <1>4, <2>1, LeaveEffect
  <1>7. ASSUME NEW w \in Workers,
               MarkInterrupted(w) \/ CountMarked(w) \/ Work(w) \/ \E i \in RunIds : Create(w, i)
        PROVE  LockInv'
    <2>1. now' = now /\ lock' = lock
      BY <1>7 DEF MarkInterrupted, CountMarked, Work, Create
    <2>2. CASE MarkInterrupted(w)
      <3> DEFINE pc == IF Stale(w) = {} THEN "work" ELSE "countmarked"
      <3>1. proc' = [proc EXCEPT ![w].pc = pc, ![w].marked = Stale(w)]
        BY <2>2 DEF MarkInterrupted, Stale
      <3>2. pc \notin {"idle", "skip"}
        OBVIOUS
      <3> HIDE DEF pc
      <3>3. Others(w) /\ proc'[w].until = proc[w].until /\ proc'[w].pc = pc
        BY <3>1 DEF TypeOK, ProcType, Others
      <3>4. QED
        BY <1>4, <2>1, <3>2, <3>3
    <2>3. CASE CountMarked(w)
      BY <1>4, <2>1, <2>3 DEF CountMarked, TypeOK, ProcType, Others
    <2>4. CASE Work(w)
      <3>1. \E b : proc' = [proc EXCEPT ![w].pc = "announce", ![w].ok = b, ![w].at = now]
        BY <2>4 DEF Work, Follow
      <3>2. QED
        BY <1>4, <2>1, <3>1 DEF TypeOK, ProcType, Others
    <2>5. ASSUME NEW i \in RunIds, Create(w, i) PROVE LockInv'
      BY <1>4, <2>1, <2>5 DEF Create, TypeOK, ProcType, Others
    <2>6. QED
      BY <1>7, <2>2, <2>3, <2>4, <2>5
  <1>8. CASE PurgeRuns \/ EnsureStates \/ Tick \/ UNCHANGED vars
    <2>1. UNCHANGED <<lock, proc>> /\ (now' = now \/ now' = now + 1)
      BY <1>8 DEF PurgeRuns, EnsureStates, Tick, vars
    <2>2. \A w \in Workers : now' < proc[w].until => now < proc[w].until
      BY <1>0, <2>1
    <2>3. QED
      BY <2>1, <2>2 DEF LockInv, LockOne
  <1>9. QED
    BY <1>2, <1>3, <1>5, <1>6, <1>7, <1>8 DEF Next

(* Two Celery runs are inside together only after a lock has expired under  *)
(* one of them (task_lock: SET NX EX, released by its owner's token only).  *)
THEOREM LockCorrect == Spec => []LockExcludes
  <1>1. Init => LockInv
    BY Basics DEF Init, LockInv, LockOne
  <1>2. TypeOK /\ LockInv => LockExcludes
    BY DEF TypeOK, ProcType, LockInv, LockOne, LockExcludes
  <1>3. QED
    BY <1>1, <1>2, LockStep, TypeCorrect, PTL DEF Spec

(* A run that outlived its lock does not free the next one's. *)
THEOREM OwnerCorrect == Spec => OwnerFrees
  <1>1. TypeOK /\ [Next]_vars =>
          [\A w \in Workers : lock.owner = w /\ lock.expires > now /\ lock'.owner # w
             => At(w, "release")]_vars
    <2> SUFFICES ASSUME TypeOK, [Next]_vars, NEW w \in Workers, lock.owner = w,
                        lock.expires > now, lock'.owner # w
                 PROVE  At(w, "release")
      OBVIOUS
    <2>1. ASSUME NEW v \in Workers, Acquire(v) \/ AcquireError(v) PROVE lock' = lock
      BY <2>1 DEF Acquire, AcquireError, HeldByOther
    <2>2. ASSUME NEW v \in Workers, Release(v) PROVE lock' = lock \/ (v = w /\ At(w, "release"))
      BY <2>2 DEF Release, Mine
    <2>3. \/ \E v \in Workers : Acquire(v) \/ AcquireError(v) \/ Release(v)
          \/ lock' = lock
      BY DEF Next, RunCommand, RecordSkipped, SkipError, Create, Start, MarkInterrupted,
             CountMarked, Work, Announce, SaveRun, Stamp, CountRun, Abandon, Crash, PurgeRuns,
             EnsureStates, Tick, vars
    <2>4. QED
      BY <2>1, <2>2, <2>3
  <1>2. QED
    BY <1>1, TypeCorrect, PTL DEF Spec, OwnerFrees

-----------------------------------------------------------------------------
(* Health.                                                                 *)

(* last_success_at never runs ahead of the last run that did its work. *)
GoodInv ==
  /\ lastGood <= now /\ state.success <= lastGood
  /\ \A w \in Workers : proc[w].ok => proc[w].at <= lastGood

(* A success on its way to the ScheduledJobState row was read off the clock *)
(* when the work ended.                                                    *)
Dated(v) == proc'[v].ok => \/ proc[v].ok /\ proc'[v].at = proc[v].at
                           \/ proc'[v].at = now /\ lastGood' = now

LEMMA OkSteps ==
  ASSUME TypeOK, [Next]_vars, NEW v \in Workers
  PROVE  Dated(v)
  <1>0. proc[v] \in ProcType
    BY DEF TypeOK
  <1>1. proc'[v] = proc[v] => Dated(v)
    BY DEF Dated
  <1>2. ASSUME NEW w \in Workers,
               \/ Acquire(w) \/ AcquireError(w) \/ SkipError(w) \/ RecordSkipped(w)
               \/ Release(w) \/ Crash(w) \/ Abandon(w) \/ CountRun(w)
        PROVE  Dated(v)
    <2>1. CASE v # w
      <3>1. Others(w)
        BY <1>2, AcquireEffect, ResetEffect, LeaveEffect
           DEF AcquireError, SkipError, RecordSkipped, Release, Crash, Abandon, CountRun
      <3>2. QED
        BY <1>1, <2>1, <3>1 DEF Others
    <2>2. CASE v = w /\ ~Acquire(w)
      <3>1. proc'[w].ok = FALSE
        BY <1>2, <2>2, ResetEffect, LeaveEffect
           DEF AcquireError, SkipError, RecordSkipped, Release, Crash, Abandon, CountRun
      <3>2. QED
        BY <2>2, <3>1 DEF Dated
    <2>3. CASE v = w /\ Acquire(w)
      <3>1. CASE HeldByOther(w)
        <4>1. GoTo(w, "skip")
          BY <2>3, <3>1 DEF Acquire
        <4>2. QED
          BY <2>3, <4>1, GoToEffect DEF Steps, Dated
      <3>2. CASE ~HeldByOther(w)
        <4>1. proc'[w].ok = FALSE
          <5>1. proc' = [proc EXCEPT ![w] = [IdleProc EXCEPT !.pc = "create",
                                                             !.until = now + LockTTL]]
            BY <2>3, <3>2 DEF Acquire
          <5>2. proc'[w] = [IdleProc EXCEPT !.pc = "create", !.until = now + LockTTL]
            BY <5>1 DEF TypeOK
          <5>3. QED
            BY <5>2 DEF IdleProc
        <4>2. QED
          BY <2>3, <4>1 DEF Dated
      <3>3. QED
        BY <3>1, <3>2
    <2>4. QED
      BY <2>1, <2>2, <2>3
  <1>3. ASSUME NEW w \in Workers,
               \/ RunCommand(w) \/ Start(w) \/ Announce(w) \/ SaveRun(w) \/ Stamp(w)
        PROVE  Dated(v)
    <2>1. \E pc \in Steps : GoTo(w, pc)
      BY <1>3 DEF RunCommand, Start, Announce, SaveRun, Stamp, Follow, Steps
    <2>2. Others(w) /\ proc'[w].ok = proc[w].ok /\ proc'[w].at = proc[w].at
      BY <2>1, GoToEffect
    <2>3. QED
      BY <2>2 DEF Others, Dated
  <1>4. ASSUME NEW w \in Workers, MarkInterrupted(w) PROVE Dated(v)
    <2> DEFINE pc == IF Stale(w) = {} THEN "work" ELSE "countmarked"
    <2>1. proc' = [proc EXCEPT ![w].pc = pc, ![w].marked = Stale(w)]
      BY <1>4 DEF MarkInterrupted, Stale
    <2> HIDE DEF pc
    <2>2. QED
      BY <1>0, <2>1 DEF TypeOK, ProcType, Dated
  <1>5. ASSUME NEW w \in Workers, CountMarked(w) \/ \E i \in RunIds : Create(w, i) PROVE Dated(v)
    <2>1. proc'[v].ok = proc[v].ok /\ proc'[v].at = proc[v].at
      <3>1. CASE CountMarked(w)
        BY <1>0, <3>1 DEF CountMarked, TypeOK, ProcType
      <3>2. ASSUME NEW i \in RunIds, Create(w, i)
            PROVE  proc'[v].ok = proc[v].ok /\ proc'[v].at = proc[v].at
        BY <1>0, <3>2 DEF Create, TypeOK, ProcType
      <3>3. QED
        BY <1>5, <3>1, <3>2
    <2>2. QED
      BY <2>1 DEF Dated
  <1>6. ASSUME NEW w \in Workers, Work(w) PROVE Dated(v)
    <2>1. PICK b \in BOOLEAN :
            /\ proc' = [proc EXCEPT ![w].pc = "announce", ![w].ok = b, ![w].at = now]
            /\ lastGood' = IF b THEN now ELSE lastGood
      BY <1>6 DEF Work, Follow
    <2>2. CASE v = w
      <3>1. proc'[w].ok = b /\ proc'[w].at = now
        BY <1>0, <2>1, <2>2 DEF TypeOK, ProcType
      <3>2. QED
        BY <2>1, <2>2, <3>1 DEF Dated
    <2>3. CASE v # w
      BY <2>1, <2>3 DEF TypeOK, Dated
    <2>4. QED
      BY <2>2, <2>3
  <1>7. CASE PurgeRuns \/ EnsureStates \/ Tick \/ UNCHANGED vars
    BY <1>1, <1>7 DEF PurgeRuns, EnsureStates, Tick, vars
  <1>8. \/ PurgeRuns \/ EnsureStates \/ Tick \/ UNCHANGED vars
        \/ \E w \in Workers :
             \/ \/ Acquire(w) \/ AcquireError(w) \/ SkipError(w) \/ RecordSkipped(w)
                \/ Release(w) \/ Crash(w) \/ Abandon(w) \/ CountRun(w)
             \/ RunCommand(w) \/ Start(w) \/ Announce(w) \/ SaveRun(w) \/ Stamp(w)
             \/ MarkInterrupted(w)
             \/ CountMarked(w) \/ \E i \in RunIds : Create(w, i)
             \/ Work(w)
    BY DEF Next
  <1>9. QED
    BY <1>2, <1>3, <1>4, <1>5, <1>6, <1>7, <1>8

LEMMA GoodStep ==
  ASSUME TypeOK, GoodInv, [Next]_vars
  PROVE  GoodInv'
  <1>0. /\ now \in Nat /\ lastGood \in Int /\ state \in StateType /\ state.success \in Int
        /\ \A w \in Workers : proc[w].at \in Nat
    BY DEF TypeOK, StateType, ProcType
  <1>1. /\ now' = now \/ now' = now + 1
        /\ lastGood' = lastGood \/ lastGood' = now
    BY DEF Next, Acquire, AcquireError, RunCommand, RecordSkipped, SkipError, Release, Create,
           Start, MarkInterrupted, CountMarked, Work, Announce, SaveRun, Stamp, CountRun,
           Abandon, Crash, PurgeRuns, EnsureStates, Tick, vars, observed
  <1>2. /\ lastGood' \in Int /\ lastGood <= lastGood' /\ lastGood' <= now'
    BY <1>0, <1>1 DEF GoodInv
  <1>3. state'.success = state.success \/ \E w \in Workers : proc[w].ok /\ state'.success = proc[w].at
    <2>1. Ensured.success = state.success /\ [Ensured EXCEPT !.started = TRUE].success = state.success
      BY <1>0 DEF Ensured, StateType
    <2>2. ASSUME NEW w \in Workers
          PROVE  \/ Stamped(w).success = state.success
                 \/ proc[w].ok /\ Stamped(w).success = proc[w].at
      BY <1>0 DEF Stamped, StateType
    <2>3. \/ state' = state \/ state' = Ensured \/ state' = [Ensured EXCEPT !.started = TRUE]
          \/ \E w \in Workers : state' = Stamped(w)
      BY DEF Next, Acquire, AcquireError, RunCommand, RecordSkipped, SkipError, Release, Create,
             Start, MarkInterrupted, CountMarked, Work, Announce, SaveRun, Stamp, CountRun,
             Abandon, Crash, PurgeRuns, EnsureStates, Tick, vars
    <2>4. QED
      BY <2>1, <2>2, <2>3
  <1>4. state'.success <= lastGood'
    <2>1. \A w \in Workers : proc[w].ok => proc[w].at <= lastGood
      BY DEF GoodInv
    <2>2. state'.success <= lastGood /\ state'.success \in Int
      BY <1>0, <1>3, <2>1 DEF GoodInv
    <2>3. QED
      BY <1>0, <1>2, <2>2
  <1>5. ASSUME NEW w \in Workers, proc'[w].ok PROVE proc'[w].at <= lastGood'
    <2>1. CASE proc[w].ok /\ proc'[w].at = proc[w].at
      BY <1>0, <1>2, <2>1 DEF GoodInv
    <2>2. CASE proc'[w].at = now /\ lastGood' = now
      BY <1>0, <2>2
    <2>3. QED
      BY <1>5, <2>1, <2>2, OkSteps DEF Dated
  <1>6. QED
    BY <1>2, <1>4, <1>5 DEF GoodInv

(* compute_health never calls a job healthy that has not done its work for  *)
(* overdue_after_seconds, unless it has been watched for less.             *)
THEOREM HealthCorrect == Spec => []HealthyIsTrue
  <1>1. Init => GoodInv
    BY Basics DEF Init, GoodInv
  <1>2. TypeOK /\ GoodInv => HealthyIsTrue
    <2> SUFFICES ASSUME TypeOK, GoodInv, NEW enabled \in BOOLEAN, "healthy" \in Health(enabled)
                 PROVE  now - lastGood <= Overdue \/ now - state.created <= Overdue
      BY DEF HealthyIsTrue
    <2>1. ~IsOverdue
      BY DEF Health
    <2>2. /\ now \in Nat /\ lastGood \in Int /\ state.success \in Int /\ state.created \in Int
          /\ Overdue \in Nat /\ state.success <= lastGood
      BY JobAssumption DEF TypeOK, StateType, GoodInv
    <2>3. QED
      BY <2>1, <2>2 DEF IsOverdue
  <1>3. QED
    BY <1>1, <1>2, GoodStep, TypeCorrect, PTL DEF Spec
=============================================================================
