----------------------- MODULE CompanyDeletionProofs -----------------------
(***************************************************************************)
(* Proofs about CompanyDeletion.  Two things are monotone once a company is *)
(* deleted: its old files and apps only become fewer, and time passes.      *)
(* What one sweep established therefore survives whatever the others and    *)
(* the company's users do before it records the result.                    *)
(***************************************************************************)
EXTENDS CompanyDeletion, TLAPS

USE DEF work

(* A file of app a that was there before the deletion is still to be        *)
(* removed; a storage error that was swallowed excuses it, and so does a    *)
(* delete_app that dropped the row which led to it.                        *)
OldFile(a) == ~swallowed /\ a \in files /\ a \notin orphans

OldGone == old \cap Live = {} /\ \A a \in Apps : ~OldFile(a)

(* A sweep finds old files by the rows of their apps. *)
DataInv ==
  /\ \A a \in Apps : OldFile(a) => app[a] = "live"
  /\ deleted = 0 => upload \subseteq Live \cup orphans
  /\ \A a \in old : app[a] # "none"

FlagInv ==
  /\ now # 0
  /\ flag.key = 0 => flag.completed = 0
  /\ flag.key # 0 => deleted # 0
  /\ flag.completed # 0 => deleted <= flag.completed
  /\ FlagOutlivesTokens
  /\ OldDataGone

(* How far sweep s has come. *)
SweepOK(s) ==
  /\ sweep[s].pc # "idle" => /\ deleted # 0 /\ sweep[s].key # 0
                             /\ deleted <= sweep[s].asOf /\ sweep[s].asOf <= now
  /\ sweep[s].pc = "release" => deleted + Window < now /\ OldGone
  /\ sweep[s].pc \in {"wipe", "drop"} => \A a \in Apps : OldFile(a) => a \in sweep[s].todo
  /\ sweep[s].pc = "drop" => \A a \in sweep[s].cur : ~OldFile(a)
  /\ sweep[s].pc = "rows" => \A a \in Apps : ~OldFile(a)
  /\ sweep[s].pc = "complete" => OldGone

DeletionInv == TypeOK /\ DataInv /\ FlagInv /\ \A s \in Sweepers : SweepOK(s)

-----------------------------------------------------------------------------
(* The actions of one sweep, and of everybody else. *)
SweepBy(s) == Sweep(s) \/ Fail(s) \/ \E a \in Apps : WipeSwallowed(s, a)
Users      == \E a \in Apps : \/ CreateApp(a) \/ BeginUpload(a) \/ StoreUpload(a)
                              \/ WipeOwn(a) \/ DropOwn(a)

LEMMA Steps ==
  ASSUME [Next]_vars
  PROVE  \/ Users \/ Ask \/ AskAgain \/ Tick \/ UNCHANGED vars
         \/ \E s \in Sweepers :
              \/ Load(s) \/ Release(s) \/ List(s) \/ DropApp(s) \/ Wiped(s) \/ DeleteRows(s)
              \/ Complete(s) \/ Fail(s) \/ \E a \in Apps : Wipe(s, a) \/ WipeSwallowed(s, a)
  BY DEF Next, Users, Sweep, Purge

LEMMA Basics ==
  ASSUME TypeOK
  PROVE  /\ now \in Nat /\ deleted \in Nat /\ deleted <= now
         /\ flag.key \in Nat /\ flag.completed \in Nat /\ flag.completed <= now
         /\ Window \in Nat /\ TokenLife \in Nat /\ TokenLife <= Window
         /\ MaxRequests \in Nat /\ requests \in Nat
         /\ \A s \in Sweepers : /\ sweep[s] \in SweepType
                                /\ sweep[s].asOf \in Nat /\ sweep[s].key \in Nat
  BY DeletionAssumption DEF TypeOK, SweepType

(* Once the company is deleted its old files and rows only become fewer;    *)
(* a row that is gone never comes back.                                    *)
Onward ==
  /\ now' \in Nat /\ now <= now'
  /\ deleted # 0 => /\ deleted' = deleted /\ old' = old
                    /\ \A a \in Apps : OldFile(a)' => OldFile(a)
  /\ \A a \in Apps : /\ app'[a] = "live" => app[a] \in {"none", "live"}
                     /\ app[a] # "none" => app'[a] # "none"

LEMMA OnwardStep ==
  ASSUME TypeOK, [Next]_vars
  PROVE  Onward
  <1>0. /\ now \in Nat /\ app \in [Apps -> {"none", "live", "gone"}]
        /\ files \subseteq Apps
    BY DEF TypeOK
  <1>1. now' = now \/ now' = now + 1
    BY Steps DEF Users, CreateApp, BeginUpload, StoreUpload, WipeOwn, DropOwn, Ask,
                 AskAgain, Load, Release, List, Wipe, WipeSwallowed, DropApp, Wiped,
                 DeleteRows, Complete, Fail, Tick, vars
  <1>2. deleted # 0 => deleted' = deleted /\ old' = old
    BY Steps DEF Users, CreateApp, BeginUpload, StoreUpload, WipeOwn, DropOwn, Ask,
                 AskAgain, Load, Release, List, Wipe, WipeSwallowed, DropApp, Wiped,
                 DeleteRows, Complete, Fail, Tick, vars
  <1>3. (swallowed => swallowed') /\ orphans \subseteq orphans'
    <2>1. swallowed' = swallowed \/ swallowed'
      BY Steps DEF Users, CreateApp, BeginUpload, StoreUpload, WipeOwn, DropOwn, Ask,
                   AskAgain, Load, Release, List, Wipe, WipeSwallowed, DropApp, Wiped,
                   DeleteRows, Complete, Fail, Tick, vars
    <2>2. orphans' = orphans \/ \E a \in Apps : orphans' = orphans \cup {a}
      BY Steps DEF Users, CreateApp, BeginUpload, StoreUpload, WipeOwn, DropOwn, Ask,
                   AskAgain, Load, Release, List, Wipe, WipeSwallowed, DropApp, Wiped,
                   DeleteRows, Complete, Fail, Tick, vars
    <2>3. QED
      BY <2>1, <2>2
  <1>4. deleted # 0 => files' \subseteq files
    BY Steps DEF Users, CreateApp, BeginUpload, StoreUpload, WipeOwn, DropOwn, Ask,
                 AskAgain, Load, Release, List, Wipe, WipeSwallowed, DropApp, Wiped,
                 DeleteRows, Complete, Fail, Tick, vars
  <1>5. deleted # 0 => \A a \in Apps : OldFile(a)' => OldFile(a)
    BY <1>3, <1>4 DEF OldFile
  <1>6. \/ app' = app
        \/ \E a \in Apps : app[a] = "none" /\ app' = [app EXCEPT ![a] = "live"]
        \/ \E a \in Apps : app[a] = "live" /\ app' = [app EXCEPT ![a] = "gone"]
        \/ \E S : Gone(S)
    BY Steps DEF Users, CreateApp, BeginUpload, StoreUpload, WipeOwn, DropOwn, Ask,
                 AskAgain, Load, Release, List, Wipe, WipeSwallowed, DropApp, Wiped,
                 DeleteRows, Complete, Fail, Tick, vars
  <1>7. \A a \in Apps : /\ app'[a] = "live" => app[a] \in {"none", "live"}
                        /\ app[a] # "none" => app'[a] # "none"
    BY <1>0, <1>6 DEF Gone
  <1>8. QED
    BY <1>0, <1>1, <1>2, <1>5, <1>7 DEF Onward

(* OldGone is final. *)
LEMMA GoneStays ==
  ASSUME TypeOK, DataInv, Onward, deleted # 0, OldGone
  PROVE  OldGone'
  <1>1. \A a \in Apps : ~OldFile(a)'
    BY DEF Onward, OldGone
  <1>2. old \subseteq Apps /\ old' = old
    BY DEF TypeOK, Onward
  <1>3. ASSUME NEW a \in old, app'[a] = "live" PROVE FALSE
    BY <1>2, <1>3 DEF Onward, DataInv, OldGone, Live
  <1>4. old' \cap Live' = {}
    BY <1>2, <1>3 DEF Live
  <1>5. QED
    BY <1>1, <1>4 DEF OldGone

(* The others do not disturb a sweep. *)
LEMMA SweepKept ==
  ASSUME TypeOK, DataInv, Onward, NEW s \in Sweepers, SweepOK(s), sweep'[s] = sweep[s]
  PROVE  SweepOK(s)'
  <1>0. /\ now \in Nat /\ now' \in Nat /\ now <= now' /\ deleted \in Nat /\ Window \in Nat
        /\ sweep[s].asOf \in Nat /\ sweep[s].cur \subseteq Apps
    BY Basics DEF Onward, SweepType
  <1>1. CASE sweep[s].pc = "idle"
    BY <1>1 DEF SweepOK
  <1>2. CASE sweep[s].pc # "idle"
    <2>1. /\ deleted # 0 /\ deleted' = deleted
          /\ \A a \in Apps : OldFile(a)' => OldFile(a)
          /\ sweep[s].key # 0 /\ deleted <= sweep[s].asOf /\ sweep[s].asOf <= now
      BY <1>2 DEF SweepOK, Onward
    <2>2. sweep[s].asOf <= now'
      BY <1>0, <2>1
    <2>3. sweep[s].pc = "release" => deleted + Window < now'
      BY <1>0 DEF SweepOK
    <2>4. OldGone => OldGone'
      BY <2>1, GoneStays
    <2>5. QED
      BY <1>0, <2>1, <2>2, <2>3, <2>4 DEF SweepOK
  <1>3. QED
    BY <1>1, <1>2

-----------------------------------------------------------------------------
(* Types.                                                                  *)

LEMMA IdleType == IdleSweep \in SweepType /\ IdleSweep.pc = "idle"
  BY DEF IdleSweep, SweepType

LEMMA SweepTypes ==
  ASSUME TypeOK, [Next]_vars
  PROVE  sweep' \in [Sweepers -> SweepType]
  <1>0. /\ sweep \in [Sweepers -> SweepType] /\ Live \subseteq Apps
        /\ \A s \in Sweepers : sweep[s] \in SweepType
    BY DEF TypeOK, Live
  <1>1. ASSUME NEW s \in Sweepers, EndSweep(s) PROVE sweep' \in [Sweepers -> SweepType]
    BY <1>0, <1>1, IdleType DEF EndSweep
  <1>2. ASSUME NEW s \in Sweepers, NEW pc \in {"rows", "complete"}, GoTo(s, pc)
        PROVE  sweep' \in [Sweepers -> SweepType]
    <2>1. sweep' = [sweep EXCEPT ![s] = [sweep[s] EXCEPT !.pc = pc]]
      BY <1>2 DEF GoTo
    <2>2. [sweep[s] EXCEPT !.pc = pc] \in SweepType
      BY <1>0 DEF SweepType
    <2>3. QED
      BY <1>0, <2>1, <2>2
  <1>3. ASSUME NEW s \in Sweepers, Load(s) PROVE sweep' \in [Sweepers -> SweepType]
    <2> DEFINE r == [IdleSweep EXCEPT !.pc = IF Lapsed(flag.completed, now) THEN "release"
                                                                           ELSE "list",
                                      !.key = flag.key, !.seen = flag.completed, !.asOf = now]
    <2>1. flag.key \in Nat /\ flag.completed \in Nat /\ now \in Nat
      BY Basics
    <2>2. r \in SweepType
      BY <2>1 DEF IdleSweep, SweepType
    <2>3. sweep' = [sweep EXCEPT ![s] = r]
      BY <1>3 DEF Load
    <2> HIDE DEF r
    <2>4. QED
      BY <1>0, <2>2, <2>3
  <1>4. ASSUME NEW s \in Sweepers, List(s) PROVE sweep' \in [Sweepers -> SweepType]
    <2>1. sweep' = [sweep EXCEPT ![s] = [sweep[s] EXCEPT !.pc = "wipe", !.todo = Live]]
      BY <1>4 DEF List
    <2>2. [sweep[s] EXCEPT !.pc = "wipe", !.todo = Live] \in SweepType
      BY <1>0 DEF SweepType
    <2>3. QED
      BY <1>0, <2>1, <2>2
  <1>5. ASSUME NEW s \in Sweepers, NEW a \in Apps, Wipe(s, a) \/ WipeSwallowed(s, a)
        PROVE  sweep' \in [Sweepers -> SweepType]
    <2> DEFINE r == [sweep[s] EXCEPT !.pc = "drop", !.todo = sweep[s].todo \ {a}, !.cur = {a}]
    <2>1. sweep' = [sweep EXCEPT ![s] = r]
      BY <1>0, <1>5 DEF Wipe, WipeSwallowed
    <2>2. r \in SweepType
      BY <1>0 DEF SweepType
    <2> HIDE DEF r
    <2>3. QED
      BY <1>0, <2>1, <2>2
  <1>6. ASSUME NEW s \in Sweepers, DropApp(s) PROVE sweep' \in [Sweepers -> SweepType]
    <2>1. sweep' = [sweep EXCEPT ![s] = [sweep[s] EXCEPT !.pc = "wipe", !.cur = {}]]
      BY <1>6 DEF DropApp
    <2>2. [sweep[s] EXCEPT !.pc = "wipe", !.cur = {}] \in SweepType
      BY <1>0 DEF SweepType
    <2>3. QED
      BY <1>0, <2>1, <2>2
  <1>7. ASSUME NEW s \in Sweepers,
               Release(s) \/ Wiped(s) \/ DeleteRows(s) \/ Complete(s) \/ Fail(s)
        PROVE  EndSweep(s) \/ \E pc \in {"rows", "complete"} : GoTo(s, pc)
    BY <1>7 DEF Release, Wiped, DeleteRows, Complete, Fail
  <1>8. ASSUME Users \/ Ask \/ AskAgain \/ Tick \/ UNCHANGED vars
        PROVE  sweep' = sweep
    BY <1>8 DEF Users, CreateApp, BeginUpload, StoreUpload, WipeOwn, DropOwn, Ask, AskAgain,
                Tick, vars
  <1>9. QED
    BY <1>0, <1>1, <1>2, <1>3, <1>4, <1>5, <1>6, <1>7, <1>8, Steps

LEMMA FlagTypes ==
  ASSUME TypeOK, [Next]_vars, \A s \in Sweepers : SweepOK(s)
  PROVE  /\ now' \in Nat /\ deleted' \in 0 .. now'
         /\ flag' \in [key : 0 .. MaxRequests, completed : 0 .. now']
         /\ asking' \in 0 .. MaxRequests /\ requests' \in 0 .. MaxRequests
  <1> DEFINE FlagType == [key : 0 .. MaxRequests, completed : 0 .. now']
  <1>0. /\ now \in Nat /\ deleted \in 0 .. now /\ asking \in 0 .. MaxRequests
        /\ requests \in 0 .. MaxRequests /\ MaxRequests \in Nat
        /\ flag \in [key : 0 .. MaxRequests, completed : 0 .. now]
        /\ flag.key \in 0 .. MaxRequests /\ flag.completed \in 0 .. now
    BY DeletionAssumption DEF TypeOK
  <1>1. now' \in Nat /\ now <= now'
    BY OnwardStep DEF Onward
  <1>2. deleted' \in 0 .. now'
    <2>1. deleted' = deleted \/ (deleted' = now /\ now' = now)
      BY Steps DEF Users, CreateApp, BeginUpload, StoreUpload, WipeOwn, DropOwn, Ask,
                   AskAgain, Load, Release, List, Wipe, WipeSwallowed, DropApp, Wiped,
                   DeleteRows, Complete, Fail, Tick, vars
    <2>2. QED
      BY <1>0, <1>1, <2>1
  <1>3. requests' \in 0 .. MaxRequests /\ asking' \in 0 .. MaxRequests
    <2>1. /\ requests' = requests \/ (requests < MaxRequests /\ requests' = requests + 1)
          /\ asking' \in {asking, flag.key, 0}
      BY Steps DEF Users, CreateApp, BeginUpload, StoreUpload, WipeOwn, DropOwn, Ask,
                   AskAgain, Load, Release, List, Wipe, WipeSwallowed, DropApp, Wiped,
                   DeleteRows, Complete, Fail, Tick, vars
    <2>2. QED
      BY <1>0, <2>1
  <1>4. flag \in FlagType /\ 0 \in 0 .. MaxRequests /\ 0 \in 0 .. now'
    BY <1>0, <1>1
  <1>5. ASSUME Ask PROVE flag' \in FlagType
    <2>1. requests + 1 \in 0 .. MaxRequests
      BY <1>0, <1>5 DEF Ask
    <2>2. QED
      BY <1>4, <1>5, <2>1 DEF Ask, Flagged
  <1>6. ASSUME AskAgain PROVE flag' \in FlagType
    BY <1>4, <1>6 DEF AskAgain
  <1>7. ASSUME NEW s \in Sweepers, Release(s) PROVE flag' \in FlagType
    BY <1>4, <1>7 DEF Release, NoFlag
  <1>8. ASSUME NEW s \in Sweepers, Complete(s) PROVE flag' \in FlagType
    <2>1. sweep[s].asOf \in Nat /\ sweep[s].asOf <= now
      BY <1>8, Basics DEF SweepOK, Complete, At
    <2>2. sweep[s].asOf \in 0 .. now'
      BY <1>0, <1>1, <2>1
    <2>3. QED
      BY <1>4, <1>8, <2>2 DEF Complete
  <1>9. ASSUME \/ Users \/ Tick \/ UNCHANGED vars
               \/ \E s \in Sweepers :
                    \/ Load(s) \/ List(s) \/ DropApp(s) \/ Wiped(s) \/ DeleteRows(s)
                    \/ Fail(s) \/ \E a \in Apps : Wipe(s, a) \/ WipeSwallowed(s, a)
        PROVE  flag' = flag
    BY <1>9 DEF Users, CreateApp, BeginUpload, StoreUpload, WipeOwn, DropOwn, Load, List,
                Wipe, WipeSwallowed, DropApp, Wiped, DeleteRows, Fail, Tick, vars
  <1>10. flag' \in FlagType
    BY <1>4, <1>5, <1>6, <1>7, <1>8, <1>9, Steps
  <1>11. QED
    BY <1>1, <1>2, <1>3, <1>10

LEMMA DataTypes ==
  ASSUME TypeOK, [Next]_vars
  PROVE  /\ app' \in [Apps -> {"none", "live", "gone"}]
         /\ files' \subseteq Apps /\ dropping' \subseteq Apps /\ orphans' \subseteq Apps
         /\ upload' \subseteq Apps /\ old' \subseteq Apps /\ swallowed' \in BOOLEAN
         /\ failures' \in 0 .. MaxFailures
  <1>0. /\ app \in [Apps -> {"none", "live", "gone"}] /\ files \subseteq Apps
        /\ dropping \subseteq Apps /\ orphans \subseteq Apps
        /\ upload \subseteq Apps /\ old \subseteq Apps /\ swallowed \in BOOLEAN
        /\ failures \in 0 .. MaxFailures /\ MaxFailures \in Nat /\ Live \subseteq Apps
    BY DeletionAssumption DEF TypeOK, Live
  <1>1. app' \in [Apps -> {"none", "live", "gone"}]
    <2>1. \/ app' = app
          \/ \E a \in Apps, x \in {"live", "gone"} : app' = [app EXCEPT ![a] = x]
          \/ \E S : Gone(S)
      BY Steps DEF Users, CreateApp, BeginUpload, StoreUpload, WipeOwn, DropOwn, Ask,
                   AskAgain, Load, Release, List, Wipe, WipeSwallowed, DropApp, Wiped,
                   DeleteRows, Complete, Fail, Tick, vars
    <2>2. QED
      BY <1>0, <2>1 DEF Gone
  <1>2. files' \subseteq Apps /\ dropping' \subseteq Apps /\ orphans' \subseteq Apps
    <2> DEFINE Near(X, Y) == Y \subseteq X \/ \E a \in Apps : Y = X \cup {a}
    <2>1. Near(files, files') /\ Near(dropping, dropping') /\ Near(orphans, orphans')
      BY Steps DEF Users, CreateApp, BeginUpload, StoreUpload, WipeOwn, DropOwn, Ask,
                   AskAgain, Load, Release, List, Wipe, WipeSwallowed, DropApp, Wiped,
                   DeleteRows, Complete, Fail, Tick, vars
    <2>2. QED
      BY <1>0, <2>1
  <1>3. /\ upload' \in {upload} \cup {upload \cup {a} : a \in Apps} \cup {upload \ {a} : a \in Apps}
        /\ old' \in {old, Live} /\ swallowed' \in {swallowed, TRUE}
        /\ failures' = failures \/ (failures < MaxFailures /\ failures' = failures + 1)
    BY Steps DEF Users, CreateApp, BeginUpload, StoreUpload, WipeOwn, DropOwn, Ask,
                 AskAgain, Load, Release, List, Wipe, WipeSwallowed, DropApp, Wiped,
                 DeleteRows, Complete, Fail, Tick, vars
  <1>4. upload' \subseteq Apps /\ old' \subseteq Apps /\ swallowed' \in BOOLEAN
    BY <1>0, <1>3
  <1>5. failures' \in 0 .. MaxFailures
    BY <1>0, <1>3
  <1>6. QED
    BY <1>1, <1>2, <1>4, <1>5

LEMMA TypeStep ==
  ASSUME TypeOK, [Next]_vars, \A s \in Sweepers : SweepOK(s)
  PROVE  TypeOK'
  BY SweepTypes, FlagTypes, DataTypes DEF TypeOK

-----------------------------------------------------------------------------
(* The data.                                                               *)

(* Before the deletion there is no flag, and so no sweep. *)
LEMMA Quiet ==
  ASSUME FlagInv, \A s \in Sweepers : SweepOK(s), deleted = 0, [Next]_vars
  PROVE  Users \/ Ask \/ AskAgain \/ Tick \/ UNCHANGED vars
  <1>1. \A s \in Sweepers : sweep[s].pc = "idle"
    BY DEF SweepOK
  <1>2. flag.key = 0
    BY DEF FlagInv
  <1>3. ASSUME NEW s \in Sweepers,
               \/ Load(s) \/ Release(s) \/ List(s) \/ DropApp(s) \/ Wiped(s) \/ DeleteRows(s)
               \/ Complete(s) \/ Fail(s) \/ \E a \in Apps : Wipe(s, a) \/ WipeSwallowed(s, a)
        PROVE  FALSE
    BY <1>1, <1>2, <1>3 DEF Load, Release, List, Wipe, WipeSwallowed, DropApp, Wiped,
                            DeleteRows, Complete, Fail, At
  <1>4. QED
    BY <1>3, Steps

LEMMA DataStep ==
  ASSUME TypeOK, DataInv, FlagInv, \A s \in Sweepers : SweepOK(s), [Next]_vars
  PROVE  DataInv'
  <1>0. /\ app \in [Apps -> {"none", "live", "gone"}] /\ upload \subseteq Apps
        /\ Onward /\ \A s \in Sweepers : sweep[s].cur \subseteq Apps
    BY OnwardStep, Basics DEF TypeOK, SweepType
  <1>1. CASE deleted = 0
    <2>1. Users \/ Ask \/ AskAgain \/ Tick \/ UNCHANGED vars
      BY <1>1, Quiet
    <2>2. upload \subseteq Live \cup orphans
      BY <1>1 DEF DataInv
    <2>3. ASSUME NEW a \in Apps, CreateApp(a) PROVE DataInv'
      <3>1. /\ app' = [app EXCEPT ![a] = "live"] /\ upload' = upload /\ old' = old
            /\ files' = files /\ swallowed' = swallowed /\ orphans' = orphans
        BY <2>3 DEF CreateApp
      <3>2. Live \subseteq Live' /\ \A b \in Apps : app[b] # "none" => app'[b] # "none"
        BY <1>0, <3>1 DEF Live
      <3>3. QED
        BY <1>0, <2>2, <3>1, <3>2 DEF DataInv, OldFile, Live, TypeOK
    <2>4. ASSUME NEW a \in Apps, BeginUpload(a) PROVE DataInv'
      BY <2>2, <2>4 DEF BeginUpload, DataInv, OldFile, Live
    <2>5. ASSUME NEW a \in Apps, StoreUpload(a) PROVE DataInv'
      <3>1. /\ a \in Live \cup orphans /\ files' = files \cup {a} /\ upload' = upload \ {a}
            /\ app' = app /\ old' = old /\ swallowed' = swallowed /\ orphans' = orphans
        BY <1>1, <2>2, <2>5 DEF StoreUpload
      <3>2. QED
        BY <2>2, <3>1 DEF DataInv, OldFile, Live
    <2>8. ASSUME NEW a \in Apps, WipeOwn(a) PROVE DataInv'
      BY <2>2, <2>8 DEF WipeOwn, DataInv, OldFile, Live
    <2>9. ASSUME NEW a \in Apps, DropOwn(a) PROVE DataInv'
      <3>1. CASE app' = app /\ orphans' = orphans
        BY <2>2, <2>9, <3>1 DEF DropOwn, DataInv, OldFile, Live
      <3>2. CASE /\ app' = [app EXCEPT ![a] = "gone"]
                 /\ orphans' = IF a \in files \/ (deleted = 0 /\ a \in upload)
                                 THEN orphans \cup {a} ELSE orphans
        <4>1. /\ files' = files /\ upload' = upload /\ old' = old /\ swallowed' = swallowed
              /\ orphans \subseteq orphans' /\ deleted' = deleted
          BY <2>9, <3>2 DEF DropOwn
        <4>2. \A b \in Apps \ {a} : app'[b] = app[b]
          BY <1>0, <3>2
        <4>3. app'[a] = "gone" /\ (a \in files \cup upload => a \in orphans')
          BY <1>0, <1>1, <3>2
        <4>4. \A b \in Apps : OldFile(b)' => OldFile(b) /\ b # a
          BY <4>1, <4>3 DEF OldFile
        <4>5. \A b \in Apps : OldFile(b)' => app'[b] = "live"
          BY <4>2, <4>4 DEF DataInv
        <4>6. upload' \subseteq Live' \cup orphans'
          BY <1>0, <2>2, <4>1, <4>2, <4>3 DEF Live
        <4>7. \A b \in old' : app'[b] # "none"
          BY <1>0, <4>1, <4>2, <4>3 DEF DataInv, TypeOK
        <4>8. QED
          BY <4>5, <4>6, <4>7 DEF DataInv
      <3>3. QED
        BY <2>9, <3>1, <3>2 DEF DropOwn
    <2>6. CASE Ask
      <3>1. /\ app' = app /\ files' = files /\ upload' = upload /\ swallowed' = swallowed
            /\ old' = Live /\ orphans' = orphans
        BY <1>1, <2>6 DEF Ask
      <3>2. QED
        BY <2>2, <3>1 DEF DataInv, OldFile, Live
    <2>7. CASE AskAgain \/ Tick \/ UNCHANGED vars
      BY <2>2, <2>7 DEF AskAgain, Tick, vars, DataInv, OldFile, Live
    <2>10. QED
      BY <2>1, <2>3, <2>4, <2>5, <2>6, <2>7, <2>8, <2>9 DEF Users
  <1>2. CASE deleted # 0
    <2>1. /\ deleted' # 0 /\ old' = old /\ \A a \in Apps : OldFile(a)' => OldFile(a)
      BY <1>0, <1>2 DEF Onward
    <2>2. \A a \in old' : app'[a] # "none"
      BY <1>0, <2>1 DEF DataInv, Onward, TypeOK
    <2>3. ASSUME NEW a \in Apps, OldFile(a)' PROVE app'[a] = "live"
      <3>1. OldFile(a) /\ app[a] = "live"
        BY <2>1, <2>3 DEF DataInv
      <3>2. \/ app' = app
            \/ \E b \in Apps : app' = [app EXCEPT ![b] = "live"]
            \/ \E b \in Apps : DropOwn(b) /\ app' = [app EXCEPT ![b] = "gone"]
            \/ \E s \in Sweepers : sweep[s].pc = "drop" /\ Gone(sweep[s].cur)
            \/ \E s \in Sweepers : sweep[s].pc = "rows"
        BY Steps DEF Users, CreateApp, BeginUpload, StoreUpload, WipeOwn, DropOwn, Ask,
                     AskAgain, Load, Release, List, Wipe, WipeSwallowed, DropApp, Wiped,
                     DeleteRows, Complete, Fail, Tick, vars, At
      <3>3. ASSUME NEW s \in Sweepers, sweep[s].pc = "drop", Gone(sweep[s].cur)
            PROVE  app'[a] = "live"
        <4>1. a \notin sweep[s].cur
          BY <3>1, <3>3 DEF SweepOK
        <4>2. QED
          BY <3>1, <3>3, <4>1 DEF Gone
      <3>4. ASSUME NEW s \in Sweepers, sweep[s].pc = "rows" PROVE FALSE
        BY <3>1, <3>4 DEF SweepOK
      <3>5. ASSUME NEW b \in Apps, DropOwn(b), app' = [app EXCEPT ![b] = "gone"]
            PROVE  app'[a] = "live"
        <4>1. CASE a # b
          BY <1>0, <3>1, <3>5, <4>1
        <4>2. CASE a = b
          <5>1. app'[a] = "gone" /\ app' # app
            BY <1>0, <3>1, <3>5, <4>2
          <5>2. a \in orphans'
            BY <3>1, <3>5, <4>2, <5>1 DEF DropOwn, OldFile
          <5>3. QED
            BY <2>3, <5>2 DEF OldFile
        <4>3. QED
          BY <4>1, <4>2
      <3>6. QED
        BY <1>0, <3>1, <3>2, <3>3, <3>4, <3>5
    <2>4. QED
      BY <2>1, <2>2, <2>3 DEF DataInv
  <1>3. QED
    BY <1>1, <1>2

-----------------------------------------------------------------------------
(* The sweeps.                                                             *)

LEMMA LastFlag ==
  ASSUME TypeOK, FlagInv, deleted # 0, flag.key = 0 \/ flag.completed # 0
  PROVE  OldGone
  BY DEF FlagInv, OldDataGone, OldGone, OldFile

(* What a sweep has established when it is done with a step of its own. *)
LEMMA OwnStep ==
  ASSUME DeletionInv, Onward, NEW s \in Sweepers, sweep'[s] \in SweepType,
         \/ Load(s) \/ Release(s) \/ List(s) \/ DropApp(s) \/ Wiped(s) \/ DeleteRows(s)
         \/ Complete(s) \/ Fail(s) \/ \E a \in Apps : Wipe(s, a) \/ WipeSwallowed(s, a)
  PROVE  SweepOK(s)'
  <1>0. /\ TypeOK /\ DataInv /\ FlagInv /\ SweepOK(s)
        /\ sweep \in [Sweepers -> SweepType] /\ sweep[s] \in SweepType
    BY DEF DeletionInv, TypeOK
  <1>1. /\ now \in Nat /\ now' \in Nat /\ now <= now' /\ deleted \in Nat /\ deleted <= now
        /\ Window \in Nat /\ flag.completed \in Nat
    BY <1>0, Basics DEF Onward
  <1>2. ASSUME EndSweep(s) PROVE SweepOK(s)'
    <2>1. sweep'[s] = IdleSweep
      BY <1>0, <1>2 DEF EndSweep
    <2>2. QED
      BY <2>1, IdleType DEF SweepOK
  <1>3. ASSUME Load(s) PROVE SweepOK(s)'
    <2> DEFINE pc == IF Lapsed(flag.completed, now) THEN "release" ELSE "list"
    <2>1. sweep'[s] = [IdleSweep EXCEPT !.pc = pc, !.key = flag.key, !.seen = flag.completed,
                                        !.asOf = now]
      BY <1>0, <1>3 DEF Load
    <2>2. /\ sweep'[s].pc = pc /\ sweep'[s].key = flag.key /\ sweep'[s].asOf = now
      BY <2>1 DEF IdleSweep
    <2>3. /\ flag.key # 0 /\ deleted # 0 /\ deleted' = deleted /\ now' = now
      BY <1>0, <1>3 DEF Load, FlagInv
    <2>4. ASSUME pc = "release" PROVE deleted + Window < now /\ OldGone
      <3>1. flag.completed # 0 /\ flag.completed + Window < now
        BY <2>4 DEF Lapsed
      <3>2. deleted <= flag.completed
        BY <1>0, <3>1 DEF FlagInv
      <3>3. QED
        BY <1>0, <1>1, <2>3, <3>1, <3>2, LastFlag
    <2>5. OldGone => OldGone'
      BY <1>0, <2>3, GoneStays
    <2>6. pc \in {"release", "list"}
      OBVIOUS
    <2> HIDE DEF pc
    <2>7. QED
      BY <1>1, <2>2, <2>3, <2>4, <2>5, <2>6 DEF SweepOK
  (* From here on the sweep was under way already. *)
  <1>4. ASSUME sweep[s].pc # "idle"
        PROVE  /\ deleted # 0 /\ deleted' = deleted
               /\ \A a \in Apps : OldFile(a)' => OldFile(a)
               /\ sweep[s].key # 0 /\ deleted <= sweep[s].asOf /\ sweep[s].asOf <= now'
    BY <1>0, <1>1, <1>4, Basics DEF SweepOK, Onward
  <1>5. ASSUME List(s) PROVE SweepOK(s)'
    <2>1. sweep'[s] = [sweep[s] EXCEPT !.pc = "wipe", !.todo = Live] /\ sweep[s].pc = "list"
      BY <1>0, <1>5 DEF List, At
    <2>2. /\ sweep'[s].pc = "wipe" /\ sweep'[s].todo = Live
          /\ sweep'[s].key = sweep[s].key /\ sweep'[s].asOf = sweep[s].asOf
      BY <1>0, <2>1 DEF SweepType
    <2>3. \A a \in Apps : OldFile(a)' => a \in Live
      BY <1>0, <1>4, <2>1 DEF DataInv, Live
    <2>4. QED
      BY <1>4, <2>1, <2>2, <2>3 DEF SweepOK
  <1>6. ASSUME NEW a \in Apps, Wipe(s, a) \/ WipeSwallowed(s, a) PROVE SweepOK(s)'
    <2>1. /\ sweep'[s] = [sweep[s] EXCEPT !.pc = "drop", !.todo = sweep[s].todo \ {a},
                                          !.cur = {a}]
          /\ sweep[s].pc = "wipe"
      BY <1>0, <1>6 DEF Wipe, WipeSwallowed, At
    <2>2. /\ sweep'[s].pc = "drop" /\ sweep'[s].todo = sweep[s].todo \ {a} /\ sweep'[s].cur = {a}
          /\ sweep'[s].key = sweep[s].key /\ sweep'[s].asOf = sweep[s].asOf
      BY <1>0, <2>1 DEF SweepType
    <2>3. ~OldFile(a)'
      <3>1. CASE WipeSwallowed(s, a)
        BY <3>1 DEF WipeSwallowed, OldFile
      <3>2. CASE Wipe(s, a) /\ app[a] = "live"
        BY <3>2 DEF Wipe, OldFile
      <3>3. CASE Wipe(s, a) /\ app[a] # "live"
        BY <1>0, <1>4, <2>1, <3>3 DEF DataInv
      <3>4. QED
        BY <1>6, <3>1, <3>2, <3>3
    <2>4. \A b \in Apps : OldFile(b)' => b \in sweep[s].todo \ {a}
      BY <1>0, <1>4, <2>1, <2>3 DEF SweepOK
    <2>5. QED
      BY <1>4, <2>1, <2>2, <2>3, <2>4 DEF SweepOK
  <1>7. ASSUME DropApp(s) PROVE SweepOK(s)'
    <2>1. sweep'[s] = [sweep[s] EXCEPT !.pc = "wipe", !.cur = {}] /\ sweep[s].pc = "drop"
      BY <1>0, <1>7 DEF DropApp, At
    <2>2. /\ sweep'[s].pc = "wipe" /\ sweep'[s].todo = sweep[s].todo
          /\ sweep'[s].key = sweep[s].key /\ sweep'[s].asOf = sweep[s].asOf
      BY <1>0, <2>1 DEF SweepType
    <2>3. \A a \in Apps : OldFile(a)' => a \in sweep[s].todo
      BY <1>0, <1>4, <2>1 DEF SweepOK
    <2>4. QED
      BY <1>4, <2>1, <2>2, <2>3 DEF SweepOK
  <1>8. ASSUME NEW pc, GoTo(s, pc)
        PROVE  /\ sweep'[s].pc = pc /\ sweep'[s].key = sweep[s].key
               /\ sweep'[s].asOf = sweep[s].asOf
    <2>1. sweep'[s] = [sweep[s] EXCEPT !.pc = pc]
      BY <1>0, <1>8 DEF GoTo
    <2>2. QED
      BY <1>0, <2>1 DEF SweepType
  <1>9. ASSUME Wiped(s) PROVE SweepOK(s)'
    <2>1. sweep[s].pc = "wipe" /\ sweep[s].todo = {} /\ GoTo(s, "rows")
      BY <1>9 DEF Wiped, At
    <2>2. \A a \in Apps : ~OldFile(a)'
      BY <1>0, <1>4, <2>1 DEF SweepOK
    <2>3. QED
      BY <1>4, <1>8, <2>1, <2>2 DEF SweepOK
  <1>10. ASSUME DeleteRows(s), GoTo(s, "complete") PROVE SweepOK(s)'
    <2>1. sweep[s].pc = "rows" /\ Gone(Live)
      BY <1>10 DEF DeleteRows, At
    <2>2. \A a \in Apps : ~OldFile(a)'
      BY <1>0, <1>4, <2>1 DEF SweepOK
    <2>3. Live' = {}
      BY <2>1 DEF Gone, Live
    <2>4. OldGone'
      BY <2>2, <2>3 DEF OldGone
    <2>5. QED
      BY <1>4, <1>8, <1>10, <2>1, <2>4 DEF SweepOK
  <1>11. Release(s) \/ Complete(s) \/ Fail(s) => EndSweep(s)
    BY DEF Release, Complete, Fail
  <1>12. DeleteRows(s) => EndSweep(s) \/ GoTo(s, "complete")
    BY DEF DeleteRows
  <1>13. QED
    BY <1>2, <1>3, <1>5, <1>6, <1>7, <1>9, <1>10, <1>11, <1>12

LEMMA SweepStep ==
  ASSUME DeletionInv, [Next]_vars
  PROVE  \A s \in Sweepers : SweepOK(s)'
  <1>0. /\ TypeOK /\ DataInv /\ \A s \in Sweepers : SweepOK(s)
    BY DEF DeletionInv
  <1>1. Onward /\ sweep' \in [Sweepers -> SweepType] /\ sweep \in [Sweepers -> SweepType]
    BY <1>0, OnwardStep, SweepTypes DEF TypeOK
  <1> DEFINE Own(s) ==
        \/ Load(s) \/ Release(s) \/ List(s) \/ DropApp(s) \/ Wiped(s) \/ DeleteRows(s)
        \/ Complete(s) \/ Fail(s) \/ \E a \in Apps : Wipe(s, a) \/ WipeSwallowed(s, a)
  <1>2. ASSUME NEW s \in Sweepers, Own(s) PROVE \A v \in Sweepers : SweepOK(v)'
    <2>1. \A v \in Sweepers \ {s} : sweep'[v] = sweep[v]
      BY <1>1, <1>2 DEF Load, Release, List, Wipe, WipeSwallowed, DropApp, Wiped,
                        DeleteRows, Complete, Fail, EndSweep, GoTo
    <2>2. SweepOK(s)'
      BY <1>1, <1>2, OwnStep
    <2>3. ASSUME NEW v \in Sweepers, v # s PROVE SweepOK(v)'
      BY <1>0, <1>1, <2>1, <2>3, SweepKept
    <2>4. QED
      BY <2>2, <2>3
  <1>3. ASSUME Users \/ Ask \/ AskAgain \/ Tick \/ UNCHANGED vars
        PROVE  sweep' = sweep
    BY <1>3 DEF Users, CreateApp, BeginUpload, StoreUpload, WipeOwn, DropOwn, Ask, AskAgain,
                Tick, vars
  <1>4. CASE sweep' = sweep
    BY <1>0, <1>1, <1>4, SweepKept
  <1>5. Users \/ Ask \/ AskAgain \/ Tick \/ UNCHANGED vars \/ \E s \in Sweepers : Own(s)
    BY Steps
  <1> HIDE DEF Own
  <1>6. QED
    BY <1>2, <1>3, <1>4, <1>5

-----------------------------------------------------------------------------
(* The flag.                                                               *)

(* What a step does to the flag: it is raised, reopened, released by a      *)
(* sweep that found it lapsed, or completed by one that is done.           *)
Raised   == /\ flag.key = 0
            /\ flag'.key = requests + 1 /\ flag'.completed = 0
Reopened == flag'.key = flag.key /\ flag'.completed = 0
Released(s) == sweep[s].pc = "release" /\ flag'.key = 0 /\ flag'.completed = 0
Completed(s) == /\ sweep[s].pc = "complete" /\ flag'.key = sweep[s].key
                /\ flag'.key = flag.key /\ flag'.completed = sweep[s].asOf

LEMMA FlagMoves ==
  ASSUME TypeOK, [Next]_vars
  PROVE  \/ flag' = flag \/ Raised \/ Reopened
         \/ \E s \in Sweepers : Released(s) \/ Completed(s)
  <1>0. flag \in [key : 0 .. MaxRequests, completed : 0 .. now]
    BY DEF TypeOK
  <1>1. CASE Ask
    BY <1>1 DEF Ask, Flagged, Raised
  <1>2. CASE AskAgain
    BY <1>0, <1>2 DEF AskAgain, Reopened
  <1>3. ASSUME NEW s \in Sweepers, Release(s) PROVE flag' = flag \/ Released(s)
    BY <1>3 DEF Release, Released, NoFlag, At
  <1>4. ASSUME NEW s \in Sweepers, Complete(s) PROVE flag' = flag \/ Completed(s)
    <2>1. \/ flag' = flag
          \/ flag.key = sweep[s].key /\ flag' = [flag EXCEPT !.completed = sweep[s].asOf]
      BY <1>4 DEF Complete
    <2>2. sweep[s].pc = "complete"
      BY <1>4 DEF Complete, At
    <2>3. QED
      BY <1>0, <2>1, <2>2 DEF Completed
  <1>5. ASSUME \/ Users \/ Tick \/ UNCHANGED vars
               \/ \E s \in Sweepers :
                    \/ Load(s) \/ List(s) \/ DropApp(s) \/ Wiped(s) \/ DeleteRows(s)
                    \/ Fail(s) \/ \E a \in Apps : Wipe(s, a) \/ WipeSwallowed(s, a)
        PROVE  flag' = flag
    BY <1>5 DEF Users, CreateApp, BeginUpload, StoreUpload, WipeOwn, DropOwn, Load, List,
                Wipe, WipeSwallowed, DropApp, Wiped, DeleteRows, Fail, Tick, vars
  <1>6. QED
    BY <1>1, <1>2, <1>3, <1>4, <1>5, Steps

(* The deletion begins with the first request, which raises the flag. *)
LEMMA Begun ==
  ASSUME TypeOK, FlagInv, [Next]_vars, deleted = 0, deleted' # 0
  PROVE  flag'.key # 0 /\ flag'.completed = 0
  <1>1. Ask
    BY Steps DEF Users, CreateApp, BeginUpload, StoreUpload, WipeOwn, DropOwn, AskAgain,
                 Load, Release, List, Wipe, WipeSwallowed, DropApp, Wiped, DeleteRows,
                 Complete, Fail, Tick, vars
  <1>2. flag.key = 0 /\ requests \in Nat
    BY Basics DEF FlagInv
  <1>3. flag' = [key |-> requests + 1, completed |-> 0]
    BY <1>1, <1>2 DEF Ask, Flagged
  <1>4. requests + 1 # 0
    BY <1>2
  <1>5. QED
    BY <1>3, <1>4

LEMMA FlagStep ==
  ASSUME DeletionInv, [Next]_vars
  PROVE  FlagInv'
  <1>0. /\ TypeOK /\ DataInv /\ FlagInv /\ Onward /\ TypeOK'
        /\ \A s \in Sweepers : SweepOK(s)
    BY OnwardStep, TypeStep DEF DeletionInv
  <1>1. /\ now \in Nat /\ now' \in Nat /\ now <= now' /\ deleted \in Nat /\ deleted' \in Nat
        /\ Window \in Nat /\ TokenLife \in Nat /\ TokenLife <= Window /\ requests \in Nat
        /\ flag.key \in Nat /\ flag.completed \in Nat /\ flag'.completed \in Nat
        /\ now # 0
    BY <1>0, Basics DEF Onward, TypeOK, FlagInv
  <1>2. now' # 0
    BY <1>1
  <1>3. flag'.key = 0 => flag'.completed = 0
    <2>1. ASSUME NEW s \in Sweepers, Completed(s) PROVE flag'.key # 0
      BY <1>0, <2>1 DEF Completed, SweepOK
    <2>2. QED
      BY <1>0, <2>1, FlagMoves DEF Raised, Reopened, Released, FlagInv
  <1>4. flag'.key # 0 => deleted' # 0
    <2>1. CASE deleted # 0
      BY <1>0, <2>1 DEF Onward
    <2>2. CASE Ask /\ deleted = 0
      BY <1>1, <2>2 DEF Ask
    <2>3. CASE deleted = 0 /\ ~Ask
      <3>1. flag.key = 0
        BY <1>0, <2>3 DEF FlagInv
      <3>2. Users \/ AskAgain \/ Tick \/ UNCHANGED vars
        BY <1>0, <2>3, Quiet
      <3>3. flag'.key = flag.key
        BY <1>0, <3>2 DEF Users, CreateApp, BeginUpload, StoreUpload, WipeOwn, DropOwn,
                          AskAgain, Tick, vars, TypeOK
      <3>4. QED
        BY <3>1, <3>3
    <2>4. QED
      BY <2>1, <2>2, <2>3
  <1>5. flag'.completed # 0 => deleted' <= flag'.completed
    <2>1. ASSUME NEW s \in Sweepers, Completed(s)
          PROVE  deleted' <= flag'.completed
      BY <1>0, <2>1 DEF Completed, SweepOK, Onward
    <2>2. ASSUME flag' = flag, flag'.completed # 0 PROVE deleted' <= flag'.completed
      BY <1>0, <2>2 DEF FlagInv, Onward
    <2>3. QED
      BY <1>0, <2>1, <2>2, FlagMoves DEF Raised, Reopened, Released
  <1>6. FlagOutlivesTokens'
    <2> SUFFICES ASSUME deleted' # 0, TokenValid' PROVE flag'.key # 0
      BY DEF FlagOutlivesTokens
    <2>1. CASE deleted = 0
      BY <1>0, <2>1, Begun
    <2>2. CASE deleted # 0
      <3>1. deleted' = deleted /\ now <= deleted + TokenLife
        BY <1>0, <1>1, <2>2 DEF Onward, TokenValid
      <3>2. flag.key # 0
        BY <1>0, <2>2, <3>1 DEF FlagInv, FlagOutlivesTokens, TokenValid
      <3>3. ASSUME NEW s \in Sweepers, Released(s) PROVE FALSE
        <4>1. deleted + Window < now
          BY <1>0, <3>3 DEF Released, SweepOK
        <4>2. QED
          BY <1>1, <3>1, <4>1
      <3>4. QED
        BY <1>0, <3>2, <3>3, FlagMoves DEF Raised, Reopened, Completed
    <2>3. QED
      BY <2>1, <2>2
  <1>7. OldDataGone'
    <2>1. OldGone' => OldDataGone'
      BY <1>0 DEF TypeOK, OldGone, OldFile, OldDataGone
    <2> SUFFICES ASSUME deleted' # 0, flag'.key = 0 \/ flag'.completed # 0 PROVE OldGone'
      BY <2>1 DEF OldDataGone
    <2>2. deleted # 0
      BY <1>0, <1>3, Begun
    <2>3. OldGone
      <3>1. CASE flag' = flag
        BY <1>0, <2>2, <3>1, LastFlag
      <3>2. CASE Raised
        BY <1>0, <2>2, <3>2, LastFlag DEF Raised
      <3>3. CASE Reopened
        BY <1>0, <2>2, <3>3, LastFlag DEF Reopened
      <3>4. ASSUME NEW s \in Sweepers, Released(s) \/ Completed(s) PROVE OldGone
        BY <1>0, <3>4 DEF Released, Completed, SweepOK
      <3>5. QED
        BY <1>0, <3>1, <3>2, <3>3, <3>4, FlagMoves
    <2>4. QED
      BY <1>0, <2>2, <2>3, GoneStays
  <1>8. QED
    BY <1>2, <1>3, <1>4, <1>5, <1>6, <1>7 DEF FlagInv

-----------------------------------------------------------------------------
(* A sweep never claims more than it removed, whatever ran beside it. *)
THEOREM DeletionCorrect == Spec => []DeletionInv
  <1>1. Init => DeletionInv
    <2> SUFFICES ASSUME Init PROVE DeletionInv
      OBVIOUS
    <2>1. \A s \in Sweepers : sweep[s] = IdleSweep
      BY DEF Init
    <2>2. /\ flag.key = 0 /\ flag.completed = 0 /\ deleted = 0 /\ now = 1
          /\ files = {} /\ upload = {} /\ old = {}
      BY DEF Init, NoFlag
    <2>3. TypeOK
      <3>1. flag \in [key : 0 .. MaxRequests, completed : 0 .. now]
        BY DeletionAssumption DEF Init, NoFlag
      <3>2. sweep \in [Sweepers -> SweepType]
        BY IdleType DEF Init
      <3>3. /\ now \in Nat /\ deleted \in 0 .. now /\ asking \in 0 .. MaxRequests
            /\ requests \in 0 .. MaxRequests /\ failures \in 0 .. MaxFailures
        BY DeletionAssumption DEF Init
      <3>4. QED
        BY <3>1, <3>2, <3>3 DEF Init, TypeOK
    <2>4. DataInv
      BY <2>2 DEF DataInv, OldFile
    <2>5. FlagInv
      BY <2>2 DEF FlagInv, FlagOutlivesTokens, OldDataGone
    <2>6. \A s \in Sweepers : SweepOK(s)
      BY <2>1, IdleType DEF SweepOK
    <2>7. QED
      BY <2>3, <2>4, <2>5, <2>6 DEF DeletionInv
  <1>2. DeletionInv /\ [Next]_vars => DeletionInv'
    <2> SUFFICES ASSUME DeletionInv, [Next]_vars PROVE DeletionInv'
      OBVIOUS
    <2>1. TypeOK' /\ DataInv'
      BY TypeStep, DataStep DEF DeletionInv
    <2>2. FlagInv' /\ \A s \in Sweepers : SweepOK(s)'
      BY FlagStep, SweepStep
    <2>3. QED
      BY <2>1, <2>2 DEF DeletionInv
  <1>3. QED
    BY <1>1, <1>2, PTL DEF Spec

(* The variables have their types. *)
THEOREM TypeCorrect == Spec => []TypeOK
  <1>1. DeletionInv => TypeOK
    BY DEF DeletionInv
  <1>2. QED
    BY <1>1, DeletionCorrect, PTL

(* When the flag is completed or released, everything the company had when *)
(* it was deleted has been removed, unless an error was swallowed.         *)
THEOREM GoneCorrect == Spec => []OldDataGone
  <1>1. DeletionInv => OldDataGone
    BY DEF DeletionInv, FlagInv
  <1>2. QED
    BY <1>1, DeletionCorrect, PTL

(* The flag is up as long as a token of the company may still be used. *)
THEOREM OutlivesCorrect == Spec => []FlagOutlivesTokens
  <1>1. DeletionInv => FlagOutlivesTokens
    BY DEF DeletionInv, FlagInv
  <1>2. QED
    BY <1>1, DeletionCorrect, PTL
=============================================================================
