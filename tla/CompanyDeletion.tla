-------------------------- MODULE CompanyDeletion --------------------------
(***************************************************************************)
(* The deletion of one company, which identity-service asks for: the flag  *)
(* (CompanyDeletion row), the sweeps of actions.purge_deleted_companies    *)
(* that remove the company's files and rows every minute while it stands,  *)
(* and the company's users, whose access tokens stay valid for a while and *)
(* who may delete apps themselves.                                         *)
(* Sweeps may overlap, since the task's lock may expire under a long one.  *)
(***************************************************************************)
EXTENDS Naturals

CONSTANTS
  Apps,           \* apps the company may have
  Sweepers,       \* workers that may be sweeping at once
  Window,         \* SWEEP_WINDOW, in ticks
  TokenLife,      \* lifetime of an access token of identity-service
  MaxRequests,    \* bound: deletion requests
  MaxFailures,    \* bound: failed storage calls, failed queries, dead workers
  MaxTime         \* bound: last tick of the clock

ASSUME DeletionAssumption ==
  /\ Window \in Nat /\ TokenLife \in Nat /\ TokenLife <= Window
  /\ MaxRequests \in Nat /\ MaxFailures \in Nat /\ MaxTime \in Nat

VARIABLES
  now,       \* the clock; 0 as a timestamp is SQL NULL
  flag,      \* the CompanyDeletion row; key 0 if there is none
  asking,    \* key of the row a second request has loaded and will update
  app,       \* app[a]: the App row, with all rows that cascade
  files,     \* apps with files in storage, stored before the request
  upload,    \* apps whose row an upload has loaded
  dropping,  \* apps that a delete_app call has wiped and not yet dropped
  orphans,   \* apps it dropped with files left, or on their way (observer)
  sweep,     \* sweep[s]: what sweeper s is doing
  deleted,   \* when the company was deleted, 0 if it was not (observer)
  old,       \* apps that existed then (observer)
  swallowed, \* a file was not removed, and the error swallowed (observer)
  requests, failures  \* so far

vars == <<now, flag, asking, app, files, upload, dropping, orphans, sweep, deleted,
          old, swallowed, requests, failures>>

(* What the users' own requests have under way. *)
work == <<upload, dropping, orphans>>

-----------------------------------------------------------------------------
NoFlag    == [key |-> 0, completed |-> 0]
IdleSweep == [pc |-> "idle", key |-> 0, seen |-> 0, asOf |-> 0, todo |-> {}, cur |-> {}]
SweepType == [pc   : {"idle", "release", "list", "wipe", "drop", "rows", "complete"},
              key  : Nat, seen : Nat,  \* the row it loaded, with completed_at
              asOf : Nat,              \* the run's timestamp
              todo : SUBSET Apps,      \* apps it read, and the one it is deleting
              cur  : SUBSET Apps]
Live == {a \in Apps : app[a] = "live"}

TypeOK ==
  /\ now \in Nat /\ deleted \in 0 .. now
  /\ flag \in [key : 0 .. MaxRequests, completed : 0 .. now]
  /\ asking \in 0 .. MaxRequests
  /\ app \in [Apps -> {"none", "live", "gone"}]
  /\ files \subseteq Apps
  /\ upload \subseteq Apps /\ dropping \subseteq Apps /\ orphans \subseteq Apps
  /\ old \subseteq Apps /\ swallowed \in BOOLEAN
  /\ sweep \in [Sweepers -> SweepType]
  /\ requests \in 0 .. MaxRequests /\ failures \in 0 .. MaxFailures

Init ==
  /\ now = 1 /\ flag = NoFlag /\ asking = 0
  /\ app = [a \in Apps |-> "none"] /\ files = {} /\ upload = {}
  /\ dropping = {} /\ orphans = {}
  /\ sweep = [s \in Sweepers |-> IdleSweep]
  /\ deleted = 0 /\ old = {} /\ swallowed = FALSE /\ requests = 0 /\ failures = 0

-----------------------------------------------------------------------------
(* The company's users, while a token issued before the deletion is valid. *)

TokenValid == deleted = 0 \/ now <= deleted + TokenLife

CreateApp(a) ==
  /\ TokenValid /\ app[a] = "none"
  /\ app' = [app EXCEPT ![a] = "live"]
  /\ UNCHANGED <<now, flag, asking, files, work, sweep, deleted, old, swallowed,
                 requests, failures>>

(* An upload loads its row, and stores the archive whatever became of it.   *)
(* Of one stored after the request nothing is claimed, and nothing kept.   *)
BeginUpload(a) ==
  /\ TokenValid /\ app[a] = "live"
  /\ upload' = upload \cup {a}
  /\ UNCHANGED <<now, flag, asking, app, files, dropping, orphans, sweep,
                 deleted, old, swallowed, requests, failures>>

StoreUpload(a) ==
  /\ a \in upload
  /\ files' = IF deleted = 0 THEN files \cup {a} ELSE files
  /\ upload' = upload \ {a}
  /\ UNCHANGED <<now, flag, asking, app, dropping, orphans, sweep, deleted, old,
                 swallowed, requests, failures>>

(* delete_app, by a user or in the Django admin: the files that its rows    *)
(* lead to, and then the rows.  An error of the storage is swallowed; an    *)
(* upload may store an archive in between; the transaction may fail.       *)
WipeOwn(a) ==
  /\ app[a] = "live"
  /\ files' \in {files, files \ {a}}
  /\ dropping' = dropping \cup {a}
  /\ UNCHANGED <<now, flag, asking, app, upload, orphans, sweep, deleted, old,
                 swallowed, requests, failures>>

DropOwn(a) ==
  /\ a \in dropping
  /\ dropping' = dropping \ {a}
  /\ \/ UNCHANGED <<app, orphans>>
     \/ /\ app[a] = "live"
        /\ app' = [app EXCEPT ![a] = "gone"]
        /\ orphans' = IF a \in files \/ (deleted = 0 /\ a \in upload)
                        THEN orphans \cup {a} ELSE orphans
  /\ UNCHANGED <<now, flag, asking, files, upload, sweep, deleted, old, swallowed,
                 requests, failures>>

-----------------------------------------------------------------------------
(* get_or_create, and then an UPDATE of a row found completed. *)
Flagged == IF flag.key = 0 THEN [key |-> requests + 1, completed |-> 0] ELSE flag

Ask ==
  /\ requests < MaxRequests /\ asking = 0
  /\ requests' = requests + 1
  /\ flag' = Flagged
  /\ asking' = IF flag.completed # 0 THEN flag.key ELSE 0
  /\ IF deleted = 0 THEN deleted' = now /\ old' = Live ELSE UNCHANGED <<deleted, old>>
  /\ UNCHANGED <<now, app, files, work, sweep, failures, swallowed>>

AskAgain ==
  /\ asking # 0
  /\ flag' = IF flag.key = asking THEN [flag EXCEPT !.completed = 0] ELSE flag
  /\ asking' = 0
  /\ UNCHANGED <<now, app, files, work, sweep, deleted, old, swallowed, requests,
                 failures>>

-----------------------------------------------------------------------------
(* purge_deleted_companies, for this company.                              *)

At(s, pc)   == sweep[s].pc = pc
GoTo(s, pc) == sweep' = [sweep EXCEPT ![s].pc = pc]
EndSweep(s) == sweep' = [sweep EXCEPT ![s] = IdleSweep]

LapsedAtOnce(done, t) == done # 0 /\ done < t    \* mutant: the window is forgotten

(* A flag completed more than SWEEP_WINDOW before t is released. *)
Lapsed(done, t) == done # 0 /\ done + Window < t

(* Mutant: a sweep looks at the flags that are not completed only. *)
LoadOpen(s) ==
  /\ At(s, "idle") /\ flag.key # 0 /\ flag.completed = 0
  /\ sweep' = [sweep EXCEPT ![s] = [IdleSweep EXCEPT !.pc = "list", !.key = flag.key,
                                                    !.asOf = now]]
  /\ UNCHANGED <<now, flag, asking, app, files, work, deleted, old, swallowed,
                 requests, failures>>

Load(s) ==
  /\ At(s, "idle") /\ flag.key # 0
  /\ sweep' = [sweep EXCEPT ![s] =
       [IdleSweep EXCEPT !.pc = IF Lapsed(flag.completed, now) THEN "release" ELSE "list",
                         !.key = flag.key, !.seen = flag.completed, !.asOf = now]]
  /\ UNCHANGED <<now, flag, asking, app, files, work, deleted, old, swallowed,
                 requests, failures>>

(* row.delete(), whatever completed_at is by now. *)
Release(s) ==
  /\ At(s, "release")
  /\ flag' = IF flag.key = sweep[s].key THEN NoFlag ELSE flag
  /\ EndSweep(s)
  /\ UNCHANGED <<now, asking, app, files, work, deleted, old, swallowed, requests,
                 failures>>

(* delete_company_artifacts reads the apps ... *)
List(s) ==
  /\ At(s, "list")
  /\ sweep' = [sweep EXCEPT ![s].pc = "wipe", ![s].todo = Live]
  /\ UNCHANGED <<now, flag, asking, app, files, work, deleted, old, swallowed,
                 requests, failures>>

(* ... and removes each one's files, found through its rows, swallowing     *)
(* the errors of the storage ...                                           *)
Wipe(s, a) ==
  /\ At(s, "wipe") /\ a \in sweep[s].todo
  /\ files' = IF app[a] = "live" THEN files \ {a} ELSE files
  /\ sweep' = [sweep EXCEPT ![s].pc = "drop", ![s].todo = @ \ {a}, ![s].cur = {a}]
  /\ UNCHANGED <<now, flag, asking, app, work, deleted, old, swallowed, requests,
                 failures>>

WipeSwallowed(s, a) ==
  /\ At(s, "wipe") /\ a \in sweep[s].todo /\ failures < MaxFailures
  /\ failures' = failures + 1 /\ swallowed' = TRUE
  /\ sweep' = [sweep EXCEPT ![s].pc = "drop", ![s].todo = @ \ {a}, ![s].cur = {a}]
  /\ UNCHANGED <<now, flag, asking, app, files, work, deleted, old, requests>>

Gone(S) == app' = [a \in Apps |-> IF a \in S /\ app[a] = "live" THEN "gone" ELSE app[a]]

(* ... and then its rows. *)
DropApp(s) ==
  /\ At(s, "drop")
  /\ Gone(sweep[s].cur)
  /\ sweep' = [sweep EXCEPT ![s].pc = "wipe", ![s].cur = {}]
  /\ UNCHANGED <<now, flag, asking, files, work, deleted, old, swallowed, requests,
                 failures>>

Wiped(s) ==
  /\ At(s, "wipe") /\ sweep[s].todo = {}
  /\ GoTo(s, "rows")
  /\ UNCHANGED <<now, flag, asking, app, files, work, deleted, old, swallowed,
                 requests, failures>>

(* Mutant: a failed sweep sets completed_at, too.  *)
FailCompletes(s) ==
  /\ sweep[s].pc \in {"list", "wipe", "drop", "rows"} /\ failures < MaxFailures
  /\ failures' = failures + 1
  /\ IF sweep[s].seen = 0 THEN GoTo(s, "complete") ELSE EndSweep(s)
  /\ UNCHANGED <<now, flag, asking, app, files, work, deleted, old, swallowed, requests>>

(* delete_company_rows, with the apps that were created meanwhile. *)
DeleteRows(s) ==
  /\ At(s, "rows")
  /\ Gone(Live)
  /\ IF sweep[s].seen = 0 THEN GoTo(s, "complete") ELSE EndSweep(s)
  /\ UNCHANGED <<now, flag, asking, files, work, deleted, old, swallowed, requests,
                 failures>>

Complete(s) ==
  /\ At(s, "complete")
  /\ flag' = IF flag.key = sweep[s].key THEN [flag EXCEPT !.completed = sweep[s].asOf]
                                        ELSE flag
  /\ EndSweep(s)
  /\ UNCHANGED <<now, asking, app, files, work, deleted, old, swallowed, requests,
                 failures>>

(* An exception in the purge, a deadline or a dead worker ends the sweep.  *)
Fail(s) ==
  /\ ~At(s, "idle") /\ failures < MaxFailures
  /\ failures' = failures + 1
  /\ EndSweep(s)
  /\ UNCHANGED <<now, flag, asking, app, files, work, deleted, old, swallowed, requests>>

-----------------------------------------------------------------------------
(* Time passes while it can matter to a token or to the flag. *)
Tick ==
  /\ now < MaxTime
  /\ \/ deleted # 0 /\ TokenValid
     \/ flag.completed # 0 /\ ~Lapsed(flag.completed, now)
  /\ now' = now + 1
  /\ UNCHANGED <<flag, asking, app, files, work, sweep, deleted, old, swallowed,
                 requests, failures>>

Purge(s) == \/ List(s) \/ DropApp(s) \/ Wiped(s) \/ DeleteRows(s) \/ Complete(s)
            \/ \E a \in Apps : Wipe(s, a)
Sweep(s) == Load(s) \/ Release(s) \/ Purge(s)

Next ==
  \/ \E a \in Apps : CreateApp(a) \/ BeginUpload(a) \/ StoreUpload(a)
                     \/ WipeOwn(a) \/ DropOwn(a)
  \/ Ask \/ AskAgain
  \/ \E s \in Sweepers : \/ Sweep(s) \/ Fail(s)
                         \/ \E a \in Apps : WipeSwallowed(s, a)
  \/ Tick

Spec == Init /\ [][Next]_vars

(* Beat sends the task every minute and a worker runs it; no user and no   *)
(* identity-service has to do anything.                                    *)
FairSpec == Spec /\ WF_vars(Tick) /\ \A s \in Sweepers : WF_vars(Sweep(s))

-----------------------------------------------------------------------------
(* Every row the company had when its deletion was asked for is gone before *)
(* the flag is ever marked completed or released, and so is every file that *)
(* a row led to then, however many sweeps overlapped, failed or died half   *)
(* way.  Files may stay for three reasons: a sweep's error was swallowed,   *)
(* or delete_app had dropped the row of a file it failed to remove, or of   *)
(* one that was just being uploaded: no sweep finds these.                  *)
OldDataGone ==
  deleted # 0 /\ (flag.key = 0 \/ flag.completed # 0) =>
    /\ old \cap Live = {}
    /\ swallowed \/ files \subseteq orphans

(* The flag outlives every access token issued before the deletion, so what *)
(* such a token wrote last still had a flag that asks for a sweep.          *)
FlagOutlivesTokens == deleted # 0 /\ TokenValid => flag.key # 0

(* Every flag is released in the end: failed sweeps are retried, and a      *)
(* sweep inside the window does not prolong it.                            *)
FlagReleased == flag.key # 0 ~> flag.key = 0
=============================================================================
