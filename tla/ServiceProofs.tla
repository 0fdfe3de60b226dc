--------------------------- MODULE ServiceProofs ---------------------------
(***************************************************************************)
(* Proofs about Deployments, for any number of deployments, requests and   *)
(* processes, and about Container (here Box), for any number of signals,   *)
(* crashes and restarts.  In Deployments a request keeps the row it loaded  *)
(* across its steps; what it may still rely on, when clients do not share a *)
(* deployment, is AloneFacts, on which all but the expiry of previews rests.*)
(***************************************************************************)
EXTENDS Deployments, ContainerState, TLAPS

-----------------------------------------------------------------------------
(* What requests do to their records.                                      *)

(* Each step of a request belongs to its operation. *)
StepsOf(op) ==
  CASE op = "create"   -> {"insert", "sync"}
    [] op = "upload"   -> {"store", "save"}
    [] op = "finalize" -> {"clear", "extract", "prepare", "commit", "fail", "sync"}
    [] op = "rollback" -> {"prepare", "commit"}
    [] op = "delete"   -> {"wipe", "collect", "unsync", "drop"}
    [] op = "register" -> {"sync"}
    [] OTHER           -> {"idle"}

ReqOK(r) == /\ r \in ReqType /\ r.pc \in StepsOf(r.op)
            /\ r.op \notin {"none", "delete", "register"} <=> r.dep # Null
StepInv  == \A q \in Requests : ReqOK(req[q])

Others(q) == \A x \in Requests \ {q} : req'[x] = req[x]

(* A request ends, or moves on within its operation. *)
Ends(q)      == req' = [req EXCEPT ![q] = IdleReq]
Moves(q, pc) == /\ pc \in StepsOf(req[q].op)
                /\ \E kind \in AllArchives \cup {Null, "stripped"},
                      rows \in SUBSET Deployments :
                     req' = [req EXCEPT ![q].pc = pc, ![q].kind = kind, ![q].rows = rows]
Starts(q, op, d, pc) == /\ Start(q, op, d, pc) /\ pc \in StepsOf(op)
                        /\ d \in Deployments \cup {Null}
                        /\ op \in {"create", "upload", "finalize", "rollback"}
                             <=> d \in Deployments
                        /\ op \in {"create", "upload", "finalize", "rollback",
                                   "delete", "register"}

LEMMA Constants ==
  /\ \A d \in Deployments : d # Null
  /\ \A n \in Nat : n # Null
  /\ PreviewTTL \in Nat \ {0} /\ CacheTTL \in Nat \ {0}
  /\ Archives \subseteq AllArchives /\ Null \notin Archives
  /\ ProcessOf \in [Requests -> Processes]
  BY HostingAssumption DEF AllArchives

LEMMA EndEffect ==
  ASSUME TypeOK, NEW q \in Requests, Ends(q)
  PROVE  /\ req'[q].pc = "idle" /\ req'[q].op = "none" /\ req'[q].dep = Null
         /\ ReqOK(req'[q]) /\ Others(q)
  BY DEF TypeOK, Ends, Others, IdleReq, ReqOK, ReqType, StepsOf

LEMMA MoveEffect ==
  ASSUME TypeOK, StepInv, NEW q \in Requests, NEW pc, Moves(q, pc)
  PROVE  /\ req'[q].pc = pc /\ req'[q].op = req[q].op /\ req'[q].dep = req[q].dep
         /\ ReqOK(req'[q]) /\ Others(q)
  <1>1. PICK kind \in AllArchives \cup {Null, "stripped"}, rows \in SUBSET Deployments :
          req' = [req EXCEPT ![q].pc = pc, ![q].kind = kind, ![q].rows = rows]
    BY DEF Moves
  <1>2. pc \in StepsOf(req[q].op) /\ req[q] \in ReqType
    BY DEF Moves, TypeOK
  <1>3. /\ req'[q].pc = pc /\ req'[q].op = req[q].op /\ req'[q].dep = req[q].dep
        /\ Others(q)
    BY <1>1, <1>2 DEF TypeOK, ReqType, Others
  <1>4. pc \in {"idle", "insert", "store", "save", "clear", "extract",
                "prepare", "commit", "fail", "sync", "wipe", "collect",
                "unsync", "drop"}
    BY <1>2 DEF StepsOf
  <1>5. req'[q] \in ReqType
    <2>1. req'[q] = [req[q] EXCEPT !.pc = pc, !.kind = kind, !.rows = rows]
      BY <1>1, <1>2 DEF TypeOK, ReqType
    <2>2. QED
      BY <1>2, <1>4, <2>1 DEF ReqType
  <1>6. QED
    BY <1>2, <1>3, <1>5 DEF StepInv, ReqOK

LEMMA StartEffect ==
  ASSUME TypeOK, NEW q \in Requests, NEW op, NEW d, NEW pc, Starts(q, op, d, pc)
  PROVE  /\ req'[q].pc = pc /\ req'[q].op = op /\ req'[q].dep = d
         /\ req[q].pc = "idle" /\ site.exists
         /\ ReqOK(req'[q]) /\ Others(q)
  <1>1. req' = [req EXCEPT ![q] = [IdleReq EXCEPT !.pc = pc, !.op = op, !.dep = d]]
    BY DEF Starts, Start
  <1>2. /\ req'[q].pc = pc /\ req'[q].op = op /\ req'[q].dep = d /\ Others(q)
    BY <1>1 DEF TypeOK, Others, IdleReq
  <1>3. pc \in {"idle", "insert", "store", "save", "clear", "extract",
                "prepare", "commit", "fail", "sync", "wipe", "collect",
                "unsync", "drop"}
    BY DEF Starts, StepsOf
  <1>4. req'[q] \in ReqType
    BY <1>1, <1>3 DEF TypeOK, ReqType, IdleReq, Starts
  <1>5. QED
    BY <1>2, <1>4, Constants DEF Starts, Start, ReqOK

(* The step that may follow a step. *)
After(pc) ==
  CASE pc = "insert"  -> {"sync"}
    [] pc = "store"   -> {"save"}
    [] pc = "clear"   -> {"extract"}
    [] pc = "extract" -> {"fail", "prepare"}
    [] pc = "prepare" -> {"commit"}
    [] pc = "commit"  -> {"sync"}
    [] pc = "wipe"    -> {"collect"}
    [] pc = "collect" -> {"unsync"}
    [] pc = "unsync"  -> {"drop"}
    [] OTHER          -> {}

(* Every step starts, moves or ends one request, or ends those of a process *)
(* that crashed.                                                           *)
Began(q, d) ==
  \/ /\ Starts(q, "create", d, "insert")
     /\ row[d].status = "none" /\ \A x \in Requests : req[x].dep # d
  \/ Starts(q, "upload", d, "store") /\ row[d].status \in Uploadable /\ Unshared(d)
  \/ Starts(q, "finalize", d, "clear") /\ row[d].status \in Finalizable /\ Unshared(d)
  \/ Starts(q, "rollback", d, "prepare") /\ row[d].status \in Restorable /\ Unshared(d)
ReqMove ==
  \/ \E q \in Requests, d \in Deployments : Began(q, d)
  \/ \E q \in Requests : \/ Starts(q, "register", Null, "sync")
                          \/ Starts(q, "delete", Null, "wipe")
  \/ \E q \in Requests : \E pc \in After(req[q].pc) : Moves(q, pc)
  \/ \E q \in Requests : Ends(q)
  \/ \E p \in Processes :
       req' = [q \in Requests |-> IF ProcessOf[q] = p THEN IdleReq ELSE req[q]]
  \/ req' = req

LEMMA GoToMoves ==
  ASSUME TypeOK, NEW q \in Requests, NEW pc \in StepsOf(req[q].op), GoTo(q, pc)
  PROVE  Moves(q, pc)
  <1>1. req[q] \in ReqType
    BY DEF TypeOK
  <1>2. req' = [req EXCEPT ![q].pc = pc, ![q].kind = Null, ![q].rows = {}]
    BY <1>1 DEF GoTo, TypeOK, ReqType
  <1>3. QED
    BY <1>2 DEF Moves

LEMMA Followed ==
  ASSUME NEW q \in Requests, NEW pc, pc \in After(req[q].pc), Moves(q, pc)
  PROVE  ReqMove
  BY DEF ReqMove

LEMMA Left ==
  ASSUME TypeOK, NEW q \in Requests, EndReq(q) \/ GoTo(q, "sync")
  PROVE  req'[q].pc \in {"idle", "sync"}
  BY DEF TypeOK, ReqType, EndReq, GoTo, IdleReq

LEMMA ReqMoves ==
  ASSUME TypeOK, StepInv, [Next]_vars
  PROVE  ReqMove
  <1> USE DEF At
  <1>1. ASSUME NEW q \in Requests, Create(q) PROVE ReqMove
    <2>1. ASSUME NEW d \in Deployments, StartCreate(q, d) PROVE ReqMove
      <3>1. Starts(q, "create", d, "insert")
        BY <2>1 DEF StartCreate, Starts, StepsOf
      <3>2. QED
        BY <2>1, <3>1 DEF StartCreate, ReqMove, Began, Exists
    <2>2. CASE Insert(q)
      <3>1. "sync" \in StepsOf(req[q].op)
        BY <2>2 DEF Insert, StepInv, ReqOK, StepsOf
      <3>2. CASE GoTo(q, "sync")
        BY <2>2, <3>1, <3>2, GoToMoves, Followed DEF Insert, After
      <3>3. CASE EndReq(q)
        BY <3>3 DEF EndReq, Ends, ReqMove
      <3>4. QED
        BY <2>2, <3>2, <3>3 DEF Insert
    <2>3. QED
      BY <1>1, <2>1, <2>2 DEF Create
  <1>2. ASSUME NEW q \in Requests, Upload(q) PROVE ReqMove
    <2>1. ASSUME NEW d \in Deployments, StartUpload(q, d) PROVE ReqMove
      <3>1. Starts(q, "upload", d, "store")
        BY <2>1 DEF StartUpload, Starts, StepsOf
      <3>2. QED
        BY <2>1, <3>1 DEF StartUpload, ReqMove, Began
    <2>2. CASE Store(q)
      <3>1. "save" \in StepsOf(req[q].op)
        BY <2>2 DEF Store, StepInv, ReqOK, StepsOf
      <3>2. PICK a \in Archives : req' = [req EXCEPT ![q].pc = "save", ![q].kind = a]
        BY <2>2 DEF Store
      <3>3. a \in AllArchives /\ req[q] \in ReqType /\ req[q].rows \in SUBSET Deployments
        BY Constants DEF TypeOK, ReqType
      <3>4. req' = [req EXCEPT ![q].pc = "save", ![q].kind = a, ![q].rows = req[q].rows]
        BY <3>2, <3>3 DEF TypeOK, ReqType
      <3>5. Moves(q, "save")
        BY <3>1, <3>3, <3>4 DEF Moves
      <3>6. QED
        BY <2>2, <3>5, Followed DEF Store, After
    <2>3. CASE SaveUpload(q)
      BY <2>3 DEF SaveUpload, EndReq, Ends, ReqMove
    <2>4. QED
      BY <1>2, <2>1, <2>2, <2>3 DEF Upload
  <1>3. ASSUME NEW q \in Requests, Activate(q) PROVE ReqMove
    <2>1. ASSUME NEW d \in Deployments, StartFinalize(q, d) PROVE ReqMove
      <3>1. Starts(q, "finalize", d, "clear")
        BY <2>1 DEF StartFinalize, Starts, StepsOf
      <3>2. QED
        BY <2>1, <3>1 DEF StartFinalize, ReqMove, Began
    <2>2. ASSUME NEW d \in Deployments, StartRollback(q, d) PROVE ReqMove
      <3>1. Starts(q, "rollback", d, "prepare")
        BY <2>2 DEF StartRollback, Starts, StepsOf
      <3>2. QED
        BY <2>2, <3>1 DEF StartRollback, ReqMove, Began
    <2>3. CASE StartRegister(q)
      <3>1. Starts(q, "register", Null, "sync")
        BY <2>3, Constants DEF StartRegister, Starts, StepsOf
      <3>2. QED
        BY <3>1 DEF ReqMove
    <2>4. CASE MarkFailed(q) \/ Sync(q)
      BY <2>4 DEF MarkFailed, Sync, EndReq, Ends, ReqMove
    <2>5. CASE Clear(q)
      <3>1. CASE EndReq(q)
        BY <3>1 DEF EndReq, Ends, ReqMove
      <3>2. CASE ~EndReq(q)
        <4> DEFINE a == store[req[q].dep].artifact
        <4>1. /\ a # Null /\ req' = [req EXCEPT ![q].pc = "extract", ![q].kind = a]
          BY <2>5, <3>2 DEF Clear
        <4>2. req[q].op = "finalize" /\ req[q] \in ReqType /\ req[q].dep # Null
          BY <2>5 DEF Clear, StepInv, ReqOK, StepsOf
        <4>3. store[req[q].dep] \in StoreType
          BY <4>2 DEF TypeOK, ReqType
        <4>4. a \in AllArchives /\ req[q].rows \in SUBSET Deployments
          BY <4>1, <4>2, <4>3, Constants DEF StoreType, ReqType
        <4> HIDE DEF a
        <4>5. req' = [req EXCEPT ![q].pc = "extract", ![q].kind = a, ![q].rows = req[q].rows]
          BY <4>1, <4>2 DEF TypeOK, ReqType
        <4>6. Moves(q, "extract")
          BY <4>2, <4>4, <4>5 DEF Moves, StepsOf
        <4>7. QED
          BY <2>5, <4>6, Followed DEF Clear, After
      <3>3. QED
        BY <3>1, <3>2
    <2>6. CASE Extract(q)
      <3>1. "fail" \in StepsOf(req[q].op) /\ "prepare" \in StepsOf(req[q].op)
        BY <2>6 DEF Extract, StepInv, ReqOK, StepsOf
      <3>2. EndReq(q) \/ GoTo(q, "fail") \/ GoTo(q, "prepare")
        BY <2>6 DEF Extract
      <3>3. QED
        BY <2>6, <3>1, <3>2, GoToMoves, Followed DEF Extract, After, ReqMove, EndReq, Ends
    <2>7. CASE Prepare(q)
      <3> DEFINE S == OtherActive(req[q].dep)
      <3>1. S \in SUBSET Deployments
        BY DEF OtherActive
      <3>2. req' = [req EXCEPT ![q].pc = "commit", ![q].rows = S]
        BY <2>7 DEF Prepare
      <3> HIDE DEF S
      <3>3. /\ req[q] \in ReqType /\ req[q].kind \in AllArchives \cup {Null, "stripped"}
            /\ "commit" \in StepsOf(req[q].op)
        BY <2>7 DEF Prepare, TypeOK, ReqType, StepInv, ReqOK, StepsOf
      <3>4. req' = [req EXCEPT ![q].pc = "commit", ![q].kind = req[q].kind, ![q].rows = S]
        BY <3>2, <3>3 DEF TypeOK, ReqType
      <3>5. Moves(q, "commit")
        BY <3>1, <3>3, <3>4 DEF Moves
      <3>6. QED
        BY <2>7, <3>5, Followed DEF Prepare, After
    <2>8. CASE Commit(q)
      <3>1. EndReq(q) \/ (req[q].op = "finalize" /\ GoTo(q, "sync"))
        BY <2>8 DEF Commit
      <3>2. QED
        BY <2>8, <3>1, GoToMoves, Followed DEF Commit, After, ReqMove, EndReq, Ends, StepsOf
    <2>9. QED
      BY <1>3, <2>1, <2>2, <2>3, <2>4, <2>5, <2>6, <2>7, <2>8 DEF Activate
  <1>4. ASSUME NEW q \in Requests, Delete(q) PROVE ReqMove
    <2>0. req[q].pc \in {"wipe", "collect", "unsync", "drop"} => req[q].op = "delete"
      BY DEF StepInv, ReqOK, StepsOf
    <2>1. CASE StartDelete(q)
      <3>1. Starts(q, "delete", Null, "wipe")
        BY <2>1, Constants DEF StartDelete, Starts, StepsOf
      <3>2. QED
        BY <3>1 DEF ReqMove
    <2>2. CASE Wipe(q)
      <3>1. "collect" \in StepsOf(req[q].op)
        BY <2>0, <2>2 DEF Wipe, StepsOf
      <3>2. GoTo(q, "collect") \/ EndReq(q)
        BY <2>2 DEF Wipe
      <3>3. CASE GoTo(q, "collect")
        BY <2>2, <3>1, <3>3, GoToMoves, Followed DEF Wipe, After
      <3>4. CASE EndReq(q)
        BY <3>4 DEF EndReq, Ends, ReqMove
      <3>5. QED
        BY <3>2, <3>3, <3>4
    <2>3. CASE Collect(q)
      <3> DEFINE S == Existing
      <3>1. S \in SUBSET Deployments /\ req' = [req EXCEPT ![q].pc = "unsync", ![q].rows = S]
        BY <2>3 DEF Collect, Existing
      <3> HIDE DEF S
      <3>2. /\ req[q] \in ReqType /\ req[q].kind \in AllArchives \cup {Null, "stripped"}
            /\ "unsync" \in StepsOf(req[q].op)
        BY <2>0, <2>3 DEF Collect, TypeOK, ReqType, StepsOf
      <3>3. req' = [req EXCEPT ![q].pc = "unsync", ![q].kind = req[q].kind, ![q].rows = S]
        BY <3>1, <3>2 DEF TypeOK, ReqType
      <3>4. Moves(q, "unsync")
        BY <3>1, <3>2, <3>3 DEF Moves
      <3>5. QED
        BY <2>3, <3>4, Followed DEF Collect, After
    <2>4. CASE Unsync(q)
      <3>1. PICK k \in {"stripped", Null} : req' = [req EXCEPT ![q].pc = "drop", ![q].kind = k]
        BY <2>4 DEF Unsync
      <3>2. /\ req[q] \in ReqType /\ req[q].rows \in SUBSET Deployments
            /\ "drop" \in StepsOf(req[q].op) /\ k \in AllArchives \cup {Null, "stripped"}
        BY <2>0, <2>4 DEF Unsync, TypeOK, ReqType, StepsOf
      <3>3. req' = [req EXCEPT ![q].pc = "drop", ![q].kind = k, ![q].rows = req[q].rows]
        BY <3>1, <3>2 DEF TypeOK, ReqType
      <3>4. Moves(q, "drop")
        BY <3>2, <3>3 DEF Moves
      <3>5. QED
        BY <2>4, <3>4, Followed DEF Unsync, After
    <2>5. CASE Drop(q)
      BY <2>5 DEF Drop, EndReq, Ends, ReqMove
    <2>6. QED
      BY <1>4, <2>1, <2>2, <2>3, <2>4, <2>5 DEF Delete
  <1>5. ASSUME NEW p \in Processes, Load(p) \/ Keep(p) \/ Crash(p) PROVE ReqMove
    BY <1>5 DEF Load, Keep, Crash, ReqMove
  <1>6. Renew \/ Tick \/ UNCHANGED vars => ReqMove
    BY DEF Renew, Tick, vars, ReqMove
  <1>7. QED
    BY <1>1, <1>2, <1>3, <1>4, <1>5, <1>6 DEF Next

(* The records of requests stay records of requests. *)
LEMMA StepKept ==
  ASSUME TypeOK, StepInv, [Next]_vars
  PROVE  req' \in [Requests -> ReqType] /\ StepInv'
  <1>1. \A q \in Requests : ReqOK(req[q])
    BY DEF StepInv
  <1>2. ReqOK(IdleReq)
    BY DEF ReqOK, IdleReq, ReqType, StepsOf
  <1>3. \A q \in Requests : ReqOK(req'[q])
    <2>1. ASSUME NEW q \in Requests, NEW d \in Deployments, Began(q, d)
          PROVE  \A x \in Requests : ReqOK(req'[x])
      BY <1>1, <2>1, StartEffect DEF Began, Others
    <2>2. ASSUME NEW q \in Requests,
                 Starts(q, "register", Null, "sync") \/ Starts(q, "delete", Null, "wipe")
          PROVE  \A x \in Requests : ReqOK(req'[x])
      BY <1>1, <2>2, StartEffect DEF Others
    <2>3. ASSUME NEW q \in Requests, NEW pc, Moves(q, pc)
          PROVE  \A x \in Requests : ReqOK(req'[x])
      BY <1>1, <2>3, MoveEffect DEF Others
    <2>4. ASSUME NEW q \in Requests, Ends(q) PROVE \A x \in Requests : ReqOK(req'[x])
      BY <1>1, <2>4, EndEffect DEF Others
    <2>5. QED
      BY <1>1, <1>2, <2>1, <2>2, <2>3, <2>4, ReqMoves DEF ReqMove
  <1>4. req' = [q \in Requests |-> req'[q]]
    BY ReqMoves DEF ReqMove, Began, Starts, Start, Moves, Ends, TypeOK
  <1>5. QED
    BY <1>3, <1>4 DEF StepInv, ReqOK

-----------------------------------------------------------------------------
(* Types.                                                                  *)

(* The deployment a request works on. *)
LEMMA HasDep ==
  ASSUME TypeOK, StepInv, NEW q \in Requests,
         req[q].pc \in {"insert", "store", "save", "clear", "extract", "prepare", "commit", "fail"}
  PROVE  /\ req[q].dep \in Deployments
         /\ req[q].pc \in {"prepare", "commit"} => req[q].op \in {"finalize", "rollback"}
  BY DEF StepInv, ReqOK, ReqType, StepsOf

(* What a step does to the App row: nothing, a commit's or a delete's work, *)
(* a renewal, or a tick.                                                   *)
SiteMove ==
  \/ site' = site
  \/ \E q \in Requests :
       /\ At(q, "commit") /\ Exists(req[q].dep) /\ row' = Activated(req[q].dep, req[q].rows)
       /\ site' = [site EXCEPT !.current = req[q].dep, !.expires = Renewed(q)]
  \/ /\ row' = [d \in Deployments |-> NoRow]
     /\ site' = [site EXCEPT !.exists = FALSE, !.current = Null]
  \/ site.preview /\ site' = [site EXCEPT !.expires = PreviewTTL] /\ row' = row
  \/ Tick

LEMMA SiteMoves ==
  ASSUME [Next]_vars
  PROVE  SiteMove
  BY DEF Next, Create, StartCreate, Insert, Upload, StartUpload, Store, SaveUpload, Activate,
         StartFinalize, Clear, Extract, MarkFailed, StartRollback, Prepare, Commit, Sync,
         StartRegister, Delete, StartDelete, Wipe, Collect, Unsync, Drop, Renew, Load, Keep,
         Crash, vars, SiteMove

LEMMA SoonerType ==
  ASSUME NEW t \in Expiries
  PROVE  Sooner(t) \in Expiries /\ (Sooner(t) = Null <=> t = Null)
  BY Constants DEF Sooner, Expiries

LEMMA SiteTypes ==
  ASSUME TypeOK, StepInv, [Next]_vars
  PROVE  /\ site' \in [exists : BOOLEAN, preview : BOOLEAN,
                       current : Deployments \cup {Null}, expires : Expiries]
         /\ site'.preview = site.preview
  <1>1. PreviewTTL \in Expiries /\ site.expires \in Expiries
    BY Constants DEF Expiries, TypeOK
  <1>2. ASSUME NEW q \in Requests, At(q, "commit"),
               site' = [site EXCEPT !.current = req[q].dep, !.expires = Renewed(q)]
        PROVE  /\ site' \in [exists : BOOLEAN, preview : BOOLEAN,
                             current : Deployments \cup {Null}, expires : Expiries]
               /\ site'.preview = site.preview
    <2>1. req[q].dep \in Deployments
      BY <1>2, HasDep DEF At
    <2>2. Renewed(q) \in Expiries
      BY <1>1 DEF Renewed
    <2>3. QED
      BY <1>2, <2>1, <2>2 DEF TypeOK
  <1>3. Tick => /\ site' \in [exists : BOOLEAN, preview : BOOLEAN,
                              current : Deployments \cup {Null}, expires : Expiries]
                /\ site'.preview = site.preview
    <2>1. Sooner(site.expires) \in Expiries
      BY <1>1, SoonerType
    <2>2. QED
      BY <2>1 DEF Tick, TypeOK
  <1>4. QED
    BY <1>1, <1>2, <1>3, SiteMoves DEF SiteMove, TypeOK

(* What a step does to the status of a row. *)
RowMove(d) ==
  \/ row'[d].status \in {row[d].status, "none"}
  \/ \E q \in Requests :
       /\ req[q].dep = d /\ req'[q].pc \in {"idle", "sync"}
       /\ \/ At(q, "insert") /\ row'[d].status = "draft"
          \/ At(q, "save") /\ row'[d].status = "uploading"
          \/ At(q, "fail") /\ row'[d].status = "failed"
          \/ At(q, "commit") /\ row'[d].status = "active"
  \/ row[d].status = "active" /\ row'[d].status = "superseded"

LEMMA RowMoves ==
  ASSUME TypeOK, StepInv, [Next]_vars
  PROVE  row' \in [Deployments -> RowType] /\ \A d \in Deployments : RowMove(d)
  <1> DEFINE Fine == row' \in [Deployments -> RowType] /\ \A d \in Deployments : RowMove(d)
  <1>0. row \in [Deployments -> RowType]
    BY DEF TypeOK
  <1>1. row' = row => Fine
    BY <1>0 DEF RowMove
  <1>2. ASSUME NEW q \in Requests, Insert(q) PROVE Fine
    <2>1. row' = row \/ row' = [row EXCEPT ![req[q].dep] = Draft]
      BY <1>2 DEF Insert
    <2>2. Draft \in RowType /\ Draft.status = "draft"
      BY DEF Draft, RowType, Statuses
    <2>3. QED
      BY <1>0, <1>1, <1>2, <2>1, <2>2, Left DEF Insert, RowMove
  <1>3. ASSUME NEW q \in Requests, SaveUpload(q) PROVE Fine
    <2> DEFINE new == [status |-> "uploading", sized |-> req[q].kind # "empty"]
    <2>1. row' = row \/ row' = [row EXCEPT ![req[q].dep] = new]
      BY <1>3 DEF SaveUpload
    <2>2. new \in RowType /\ new.status = "uploading"
      BY DEF RowType, Statuses
    <2> HIDE DEF new
    <2>3. QED
      BY <1>0, <1>1, <1>3, <2>1, <2>2, Left DEF SaveUpload, RowMove
  <1>4. ASSUME NEW q \in Requests, MarkFailed(q) PROVE Fine
    <2>1. row' = row \/ row' = [row EXCEPT ![req[q].dep].status = "failed"]
      BY <1>4 DEF MarkFailed
    <2>2. CASE row' = [row EXCEPT ![req[q].dep].status = "failed"]
      <3>1. row' \in [Deployments -> RowType]
        BY <1>0, <2>2 DEF RowType, Statuses
      <3>2. \A d \in Deployments : row'[d].status = IF d = req[q].dep THEN "failed"
                                                    ELSE row[d].status
        BY <1>0, <2>2 DEF RowType
      <3>3. QED
        BY <1>4, <3>1, <3>2, Left DEF MarkFailed, RowMove
    <2>3. QED
      BY <1>1, <2>1, <2>2
  <1>5. ASSUME NEW q \in Requests, Commit(q) PROVE Fine
    <2>1. CASE row' = Activated(req[q].dep, req[q].rows)
      <3>1. \A x \in Deployments : /\ row'[x] \in RowType
                                   /\ \/ x = req[q].dep /\ row'[x].status = "active"
                                      \/ row[x].status = "active" /\ row'[x].status = "superseded"
                                      \/ row'[x] = row[x]
        BY <1>0, <2>1 DEF Activated, RowType, Statuses
      <3>2. row' \in [Deployments -> RowType]
        BY <2>1, <3>1 DEF Activated
      <3>3. QED
        BY <1>5, <3>1, <3>2, Left DEF Commit, RowMove
    <2>2. QED
      BY <1>1, <1>5, <2>1 DEF Commit
  <1>6. ASSUME NEW q \in Requests, Drop(q) PROVE Fine
    <2>1. CASE row' = [d \in Deployments |-> NoRow]
      BY <2>1 DEF NoRow, RowType, RowMove
    <2>2. QED
      BY <1>1, <1>6, <2>1 DEF Drop
  <1>7. QED
    BY <1>1, <1>2, <1>3, <1>4, <1>5, <1>6
       DEF Next, Create, StartCreate, Upload, StartUpload, Store, Activate,
           StartFinalize, Clear, Extract, StartRollback, Prepare, Sync,
           StartRegister, Delete, StartDelete, Wipe, Collect, Unsync, Renew, Load, Keep,
           Crash, Tick, vars

LEMMA StoreTypes ==
  ASSUME TypeOK, StepInv, [Next]_vars
  PROVE  store' \in [Deployments -> StoreType]
  <1>0. store \in [Deployments -> StoreType]
    BY DEF TypeOK
  <1>1. ASSUME NEW q \in Requests, Store(q) \/ Clear(q) \/ Extract(q)
        PROVE  store' \in [Deployments -> StoreType]
    <2> DEFINE d == req[q].dep
    <2>1. d \in Deployments /\ store[d] \in StoreType
      BY <1>0, <1>1, HasDep DEF Store, Clear, Extract, At
    <2>2. CASE Store(q)
      <3>1. PICK a \in Archives : store' = [store EXCEPT ![d].artifact = a,
                                                         ![d].files = Older(@)]
        BY <2>2 DEF Store
      <3>2. Older(store[d].files) \in SUBSET Origins
        BY DEF Older, Origins
      <3> DEFINE new == [store[d] EXCEPT !.artifact = a, !.files = Older(store[d].files)]
      <3>3. new \in StoreType
        BY <2>1, <3>2 DEF StoreType
      <3>4. store' = [store EXCEPT ![d] = new]
        BY <1>0, <2>1, <3>1 DEF StoreType
      <3> HIDE DEF new
      <3>5. QED
        BY <1>0, <3>3, <3>4
    <2>3. CASE Clear(q) \/ Extract(q)
      <3>1. store' = store \/ \E F \in SUBSET Origins : store' = [store EXCEPT ![d].files = F]
        BY <1>0, <2>1, <2>3 DEF Clear, Extract, Extracted, Removed, Older, Origins, StoreType
      <3>2. QED
        BY <1>0, <2>1, <3>1 DEF StoreType
    <2>4. QED
      BY <1>1, <2>2, <2>3
  <1>2. ASSUME NEW q \in Requests, Wipe(q) PROVE store' \in [Deployments -> StoreType]
    <2>1. PICK A \in SUBSET Existing, T \in SUBSET Existing :
            store' = [d \in Deployments |->
                        IF ~Exists(d) THEN store[d]
                        ELSE [artifact |-> IF d \in A THEN store[d].artifact ELSE Null,
                              files    |-> IF d \in T THEN Older(store[d].files) ELSE {}]]
      BY <1>2 DEF Wipe
    <2>2. ASSUME NEW d \in Deployments PROVE store'[d] \in StoreType
      <3>1. store[d] \in StoreType
        BY <1>0
      <3>2. store[d].artifact \in Archives \cup {Null} /\ Older(store[d].files) \in SUBSET Origins
        BY <3>1 DEF StoreType, Older, Origins
      <3>3. QED
        BY <2>1, <3>1, <3>2 DEF StoreType
    <2>3. QED
      BY <2>1, <2>2
  <1>3. QED
    BY <1>0, <1>1, <1>2
       DEF Next, Create, StartCreate, Insert, Upload, StartUpload, SaveUpload, Activate,
           StartFinalize, MarkFailed, StartRollback, Prepare, Commit, Sync,
           StartRegister, Delete, StartDelete, Collect, Unsync, Drop, Renew, Load, Keep,
           Crash, Tick, vars

(* What a step does to the cache entry of a process, and to what it loads. *)
CacheMove(p) ==
  \/ cache'[p] = cache[p]
  \/ cache'[p] = NoEntry
  \/ loader[p] # Null /\ cache'[p] = [ttl |-> CacheTTL, obj |-> loader[p]] /\ site' = site
  \/ Tick
LoaderMove(p) ==
  \/ loader'[p] = loader[p]
  \/ loader'[p] = Null
  \/ loader'[p] = Snapshot /\ site' = site
  \/ Tick

LEMMA CopyMoves ==
  ASSUME TypeOK, [Next]_vars, NEW p \in Processes
  PROVE  CacheMove(p) /\ LoaderMove(p)
  <1>0. /\ cache \in [Processes -> [ttl : 0 .. CacheTTL, obj : ObjType \cup {Null}]]
        /\ loader \in [Processes -> ObjType \cup {Null}]
    BY DEF TypeOK
  <1>1. ASSUME NEW q \in Requests, Prepare(q) PROVE CacheMove(p) /\ LoaderMove(p)
    BY <1>0, <1>1 DEF Prepare, CacheMove, LoaderMove
  <1>2. ASSUME NEW o \in Processes, Load(o) \/ Keep(o) \/ Crash(o)
        PROVE  CacheMove(p) /\ LoaderMove(p)
    BY <1>0, <1>2 DEF Load, Keep, Crash, CacheMove, LoaderMove
  <1>3. QED
    BY <1>1, <1>2
       DEF Next, Create, StartCreate, Insert, Upload, StartUpload, Store, SaveUpload, Activate,
           StartFinalize, Clear, Extract, MarkFailed, StartRollback, Commit, Sync,
           StartRegister, Delete, StartDelete, Wipe, Collect, Unsync, Drop, Renew,
           vars, CacheMove, LoaderMove

LEMMA ObjTypes ==
  ASSUME TypeOK
  PROVE  /\ Snapshot \in ObjType
         /\ \A o \in ObjType : /\ AgedObj(o) \in ObjType /\ AgedObj(o).current = o.current
                               /\ AgedObj(o).expires = Sooner(o.expires)
  <1>1. Snapshot \in ObjType
    BY DEF TypeOK, Snapshot, ObjType, RowType
  <1>2. ASSUME NEW o \in ObjType
        PROVE  /\ AgedObj(o) \in ObjType /\ AgedObj(o).current = o.current
               /\ AgedObj(o).expires = Sooner(o.expires)
    <2>1. Sooner(o.expires) \in Expiries
      BY SoonerType DEF ObjType
    <2>2. AgedObj(o) = [o EXCEPT !.expires = Sooner(o.expires)]
      BY DEF AgedObj, ObjType
    <2>3. QED
      BY <2>1, <2>2 DEF ObjType
  <1>3. QED
    BY <1>1, <1>2

(* A tick takes one from the time of each entry. *)
LEMMA TickEffect ==
  ASSUME TypeOK, Tick, NEW p \in Processes
  PROVE  /\ site'.expires = Sooner(site.expires) /\ site'.current = site.current
         /\ \/ cache'[p] = NoEntry
            \/ /\ cache[p].ttl > 1 /\ cache'[p].ttl = cache[p].ttl - 1
               /\ cache'[p].obj = AgedObj(cache[p].obj)
               /\ cache'[p] = [ttl |-> cache'[p].ttl, obj |-> cache'[p].obj]
         /\ loader'[p] = Null \/ (loader[p] # Null /\ loader'[p] = AgedObj(loader[p]))
  <1>1. site'.expires = Sooner(site.expires) /\ site'.current = site.current
    BY DEF Tick, TypeOK
  <1>2. cache'[p] = Aged(cache[p]) /\ cache[p].ttl \in 0 .. CacheTTL
    BY DEF Tick, TypeOK
  <1>3. \/ cache'[p] = NoEntry
        \/ /\ cache[p].ttl > 1 /\ cache'[p].ttl = cache[p].ttl - 1
           /\ cache'[p].obj = AgedObj(cache[p].obj)
           /\ cache'[p] = [ttl |-> cache'[p].ttl, obj |-> cache'[p].obj]
    BY <1>2, Constants DEF Aged
  <1>4. loader'[p] = Null \/ (loader[p] # Null /\ loader'[p] = AgedObj(loader[p]))
    <2>1. loader'[p] = IF loader[p] = Null THEN Null ELSE AgedObj(loader[p])
      BY DEF Tick
    <2>2. QED
      BY <2>1
  <1>5. QED
    BY <1>1, <1>3, <1>4

LEMMA CopyTypes ==
  ASSUME TypeOK, [Next]_vars
  PROVE  /\ cache' \in [Processes -> [ttl : 0 .. CacheTTL, obj : ObjType \cup {Null}]]
         /\ \A p \in Processes : cache'[p].ttl > 0 => cache'[p].obj \in ObjType
         /\ loader' \in [Processes -> ObjType \cup {Null}]
  <1>1. /\ cache' = [p \in Processes |-> cache'[p]]
        /\ loader' = [p \in Processes |-> loader'[p]]
    BY DEF TypeOK, Next, Create, StartCreate, Insert, Upload, StartUpload, Store, SaveUpload,
           Activate, StartFinalize, Clear, Extract, MarkFailed, StartRollback, Prepare, Commit,
           Sync, StartRegister, Delete, StartDelete, Wipe, Collect, Unsync, Drop, Renew, Load,
           Keep, Crash, Tick, vars
  <1>2. ASSUME NEW p \in Processes
        PROVE  /\ cache'[p] \in [ttl : 0 .. CacheTTL, obj : ObjType \cup {Null}]
               /\ cache'[p].ttl > 0 => cache'[p].obj \in ObjType
    <2>1. /\ cache[p] \in [ttl : 0 .. CacheTTL, obj : ObjType \cup {Null}]
          /\ cache[p].ttl > 0 => cache[p].obj \in ObjType
          /\ loader[p] \in ObjType \cup {Null}
      BY DEF TypeOK
    <2>2. NoEntry \in [ttl : 0 .. CacheTTL, obj : ObjType \cup {Null}] /\ NoEntry.ttl = 0
      BY Constants DEF NoEntry
    <2>3. ASSUME Tick
          PROVE  /\ cache'[p] \in [ttl : 0 .. CacheTTL, obj : ObjType \cup {Null}]
                 /\ cache'[p].ttl > 0 => cache'[p].obj \in ObjType
      <3>1. CASE cache'[p] = NoEntry
        BY <2>2, <3>1
      <3>2. CASE cache'[p] # NoEntry
        <4>1. /\ cache[p].ttl > 1 /\ cache'[p].ttl = cache[p].ttl - 1
              /\ cache'[p].obj = AgedObj(cache[p].obj)
              /\ cache'[p] = [ttl |-> cache'[p].ttl, obj |-> cache'[p].obj]
          BY <2>3, <3>2, TickEffect
        <4>2. cache'[p].ttl \in 0 .. CacheTTL
          BY <2>1, <4>1, Constants
        <4>3. cache'[p].obj \in ObjType
          BY <2>1, <4>1, ObjTypes, Constants
        <4>4. QED
          BY <4>1, <4>2, <4>3
      <3>3. QED
        BY <3>1, <3>2
    <2>4. CASE loader[p] # Null /\ cache'[p] = [ttl |-> CacheTTL, obj |-> loader[p]]
      BY <2>1, <2>4, Constants
    <2>5. QED
      BY <2>1, <2>2, <2>3, <2>4, CopyMoves DEF CacheMove
  <1>3. ASSUME NEW p \in Processes PROVE loader'[p] \in ObjType \cup {Null}
    <2>1. loader[p] \in ObjType \cup {Null}
      BY DEF TypeOK
    <2>2. CASE Tick
      BY <2>1, <2>2, TickEffect, ObjTypes
    <2>3. QED
      BY <2>1, <2>2, CopyMoves, ObjTypes DEF LoaderMove
  <1>4. QED
    BY <1>1, <1>2, <1>3

LEMMA FlagTypes ==
  ASSUME TypeOK, [Next]_vars
  PROVE  allowed' \in BOOLEAN /\ wiped' \subseteq Deployments /\ wiped \subseteq wiped'
  BY DEF TypeOK, Existing, Next, Create, StartCreate, Insert, Upload, StartUpload, Store, SaveUpload,
         Activate, StartFinalize, Clear, Extract, MarkFailed, StartRollback, Prepare, Commit,
         Sync, StartRegister, Delete, StartDelete, Wipe, Collect, Unsync, Drop, Renew, Load,
         Keep, Crash, Tick, vars

LEMMA InitTypes ==
  ASSUME Init
  PROVE  TypeOK /\ StepInv
  <1>1. Null \in Expiries /\ ReqOK(IdleReq) /\ NoRow \in RowType /\ NoFiles \in StoreType
    BY DEF Expiries, ReqOK, IdleReq, ReqType, StepsOf, NoRow, RowType, NoFiles, StoreType
  <1>2. NoEntry \in [ttl : 0 .. CacheTTL, obj : ObjType \cup {Null}] /\ NoEntry.ttl = 0
    BY Constants DEF NoEntry
  <1>3. StepInv /\ req \in [Requests -> ReqType]
    BY <1>1 DEF Init, StepInv, ReqOK
  <1>4. \A q \in Requests : req[q].op \notin {"none", "delete", "register"} <=> req[q].dep # Null
    BY <1>3 DEF StepInv, ReqOK
  <1>5. site \in [exists : BOOLEAN, preview : BOOLEAN,
                  current : Deployments \cup {Null}, expires : Expiries]
    BY <1>1 DEF Init
  <1>6. row \in [Deployments -> RowType] /\ store \in [Deployments -> StoreType]
    BY <1>1 DEF Init
  <1>7. /\ cache \in [Processes -> [ttl : 0 .. CacheTTL, obj : ObjType \cup {Null}]]
        /\ \A p \in Processes : cache[p].ttl > 0 => cache[p].obj \in ObjType
        /\ loader \in [Processes -> ObjType \cup {Null}]
    BY <1>2 DEF Init
  <1>8. allowed \in BOOLEAN /\ wiped \subseteq Deployments
    BY DEF Init
  <1>9. QED
    BY <1>3, <1>4, <1>5, <1>6, <1>7, <1>8 DEF TypeOK

(* The variables have their types, and each request a step of its operation. *)
THEOREM DeploymentsTypes == Spec => [](TypeOK /\ StepInv)
  <1>1. Init => TypeOK /\ StepInv
    BY InitTypes
  <1>2. TypeOK /\ StepInv /\ [Next]_vars => (TypeOK /\ StepInv)'
    <2> SUFFICES ASSUME TypeOK, StepInv, [Next]_vars PROVE TypeOK' /\ StepInv'
      OBVIOUS
    <2>1. StepInv' /\ req' \in [Requests -> ReqType]
      BY StepKept
    <2>2. \A q \in Requests : req'[q].op \notin {"none", "delete", "register"} <=>
                                req'[q].dep # Null
      BY <2>1 DEF StepInv, ReqOK
    <2>3. QED
      BY <2>1, <2>2, SiteTypes, RowMoves, StoreTypes, CopyTypes, FlagTypes DEF TypeOK
  <1>3. QED
    BY <1>1, <1>2, PTL DEF Spec

(* Every variable keeps its type (all actions of Next). *)
THEOREM DeploymentsTyped == Spec => []TypeOK
  BY DeploymentsTypes, PTL

-----------------------------------------------------------------------------
(* Clients that do not share a deployment.                                 *)

(* Two requests never work on the same deployment. *)
AloneInv ==
  \A q, x \in Requests : q # x /\ req[q].dep # Null => req[x].dep # req[q].dep

(* What the request that holds a deployment knows of its row, as long as a *)
(* delete has not removed it.                                              *)
HeldStatuses(pc) ==
  CASE pc = "insert"                       -> {}
    [] pc \in {"store", "save"}            -> Uploadable
    [] pc \in {"clear", "extract", "fail"} -> Finalizable
    [] OTHER                               -> Statuses
HoldInv ==
  \A q \in Requests : req[q].dep # Null =>
    row[req[q].dep].status \in HeldStatuses(req[q].pc) \cup {"none"}

(* No step leaves a row "ready". *)
NeverReady == \A d \in Deployments : row[d].status # "ready"

AloneFacts == AloneInv /\ HoldInv /\ NeverReady

LEMMA AloneStep ==
  ASSUME TypeOK, StepInv, Exclusive, AloneInv, [Next]_vars
  PROVE  AloneInv'
  <1>1. ASSUME NEW q \in Requests, NEW d \in Deployments, Began(q, d) PROVE AloneInv'
    <2>1. \A x \in Requests : req[x].dep # d
      BY <1>1 DEF Began, Unshared
    <2>2. req'[q].dep = d /\ Others(q)
      BY <1>1, StartEffect DEF Began
    <2>3. QED
      BY <2>1, <2>2 DEF AloneInv, Others
  <1>2. ASSUME \A x \in Requests : req'[x].dep \in {req[x].dep, Null} PROVE AloneInv'
    BY <1>2 DEF AloneInv
  <1>3. ASSUME NEW q \in Requests,
               Starts(q, "register", Null, "sync") \/ Starts(q, "delete", Null, "wipe")
        PROVE  \A x \in Requests : req'[x].dep \in {req[x].dep, Null}
    BY <1>3, StartEffect DEF Others
  <1>4. ASSUME NEW q \in Requests, NEW pc, Moves(q, pc)
        PROVE  \A x \in Requests : req'[x].dep \in {req[x].dep, Null}
    BY <1>4, MoveEffect DEF Others
  <1>5. ASSUME NEW q \in Requests, Ends(q)
        PROVE  \A x \in Requests : req'[x].dep \in {req[x].dep, Null}
    BY <1>5, EndEffect DEF Others
  <1>6. ASSUME NEW p \in Processes,
               req' = [q \in Requests |-> IF ProcessOf[q] = p THEN IdleReq ELSE req[q]]
        PROVE  \A x \in Requests : req'[x].dep \in {req[x].dep, Null}
    BY <1>6 DEF IdleReq
  <1>7. req' = req => \A x \in Requests : req'[x].dep \in {req[x].dep, Null}
    OBVIOUS
  <1>8. QED
    BY <1>1, <1>2, <1>3, <1>4, <1>5, <1>6, <1>7, ReqMoves DEF ReqMove

(* A request that holds a deployment afterwards held it before, or has just *)
(* begun.                                                                  *)
LEMMA Holders ==
  ASSUME TypeOK, StepInv, [Next]_vars, NEW x \in Requests, req'[x].dep # Null
  PROVE  \/ req'[x] = req[x]
         \/ \E d \in Deployments : Began(x, d)
         \/ \E pc \in After(req[x].pc) : Moves(x, pc)
  <1>1. ASSUME NEW q \in Requests, NEW d \in Deployments, Began(q, d), q # x
        PROVE  req'[x] = req[x]
    BY <1>1, StartEffect DEF Began, Others
  <1>2. ASSUME NEW q \in Requests,
               Starts(q, "register", Null, "sync") \/ Starts(q, "delete", Null, "wipe")
        PROVE  req'[x] = req[x]
    BY <1>2, StartEffect DEF Others
  <1>3. ASSUME NEW q \in Requests, NEW pc, Moves(q, pc), q # x PROVE req'[x] = req[x]
    BY <1>3, MoveEffect DEF Others
  <1>4. ASSUME NEW q \in Requests, Ends(q) PROVE req'[x] = req[x]
    BY <1>4, EndEffect DEF Others
  <1>5. ASSUME NEW p \in Processes,
               req' = [q \in Requests |-> IF ProcessOf[q] = p THEN IdleReq ELSE req[q]]
        PROVE  req'[x] = req[x]
    BY <1>5 DEF IdleReq
  <1>6. QED
    BY <1>1, <1>2, <1>3, <1>4, <1>5, ReqMoves DEF ReqMove

LEMMA HoldStep ==
  ASSUME TypeOK, TypeOK', StepInv, Exclusive, AloneFacts, [Next]_vars
  PROVE  HoldInv' /\ NeverReady'
  <1>1. NeverReady'
    BY RowMoves DEF AloneFacts, NeverReady, RowMove
  <1>2. ASSUME NEW x \in Requests, req'[x].dep # Null
        PROVE  row'[req'[x].dep].status \in HeldStatuses(req'[x].pc) \cup {"none"}
    <2> DEFINE d == req'[x].dep
    <2>1. d \in Deployments /\ row'[d].status \in Statuses \cup {"none"}
      BY <1>2 DEF TypeOK, ReqType, RowType
    <2>2. req'[x].pc \notin {"insert", "store", "save", "clear", "extract", "fail"}
            => HeldStatuses(req'[x].pc) = Statuses
      BY DEF HeldStatuses
    <2>3. CASE req'[x] = req[x]
      <3>1. row[d].status \in HeldStatuses(req[x].pc) \cup {"none"}
        BY <1>2, <2>3 DEF AloneFacts, HoldInv
      <3>2. \A q \in Requests : req[q].dep = d => q = x
        BY <1>2, <2>3 DEF AloneFacts, AloneInv
      <3>3. CASE row'[d].status \in {row[d].status, "none"}
        BY <2>3, <3>1, <3>3
      <3>4. CASE row[d].status = "active" /\ row'[d].status = "superseded"
        BY <2>1, <2>3, <3>1, <3>4 DEF HeldStatuses, Uploadable, Finalizable
      <3>5. CASE req'[x].pc \in {"idle", "sync"}
        BY <2>1, <2>2, <3>5
      <3>6. QED
        BY <2>1, <3>2, <3>3, <3>4, <3>5, RowMoves DEF RowMove
    <2>4. ASSUME NEW e \in Deployments, Began(x, e)
          PROVE  row'[d].status \in HeldStatuses(req'[x].pc) \cup {"none"}
      <3>1. d = e /\ \A q \in Requests : req[q].dep # d
        BY <2>4, StartEffect DEF Began, Unshared
      <3>2. row[d].status \in HeldStatuses(req'[x].pc) \cup {"none"}
        <4>1. CASE Starts(x, "rollback", e, "prepare")
          <5>1. req'[x].pc = "prepare"
            BY <4>1, StartEffect
          <5>2. row[d].status \in Statuses \cup {"none"}
            BY <2>1 DEF TypeOK, RowType
          <5>3. QED
            BY <5>1, <5>2 DEF HeldStatuses
        <4>2. QED
          BY <2>4, <3>1, <4>1, StartEffect DEF Began, HeldStatuses
      <3>3. row'[d].status \in {row[d].status, "none"}
              \/ (row[d].status = "active" /\ row'[d].status = "superseded")
        BY <2>1, <3>1, RowMoves DEF RowMove
      <3>4. QED
        BY <2>1, <3>2, <3>3 DEF HeldStatuses, Uploadable, Finalizable
    <2>5. ASSUME NEW pc \in After(req[x].pc), Moves(x, pc)
          PROVE  row'[d].status \in HeldStatuses(req'[x].pc) \cup {"none"}
      <3>1. req'[x].pc = pc /\ req[x].dep = d
        BY <2>5, MoveEffect
      <3>2. row[d].status \in HeldStatuses(req[x].pc) \cup {"none"}
        BY <1>2, <3>1 DEF AloneFacts, HoldInv
      <3>3. HeldStatuses(pc) \in {Statuses, HeldStatuses(req[x].pc)}
        BY DEF After, HeldStatuses
      <3>4. CASE HeldStatuses(pc) = Statuses
        BY <2>1, <3>1, <3>4
      <3>5. CASE HeldStatuses(pc) = HeldStatuses(req[x].pc) /\ HeldStatuses(pc) # Statuses
        <4>1. \A q \in Requests : req[q].dep = d => q = x
          BY <1>2, <3>1 DEF AloneFacts, AloneInv
        <4>2. pc \notin {"idle", "sync"}
          BY <3>5 DEF HeldStatuses
        <4>3. row'[d].status \in {row[d].status, "none"}
                \/ (row[d].status = "active" /\ row'[d].status = "superseded")
          BY <2>1, <3>1, <4>1, <4>2, RowMoves DEF RowMove
        <4>4. QED
          BY <2>1, <3>1, <3>2, <3>5, <4>3 DEF HeldStatuses, Uploadable, Finalizable
      <3>6. QED
        BY <3>3, <3>4, <3>5
    <2>6. QED
      BY <1>2, <2>3, <2>4, <2>5, Holders
  <1>3. QED
    BY <1>1, <1>2 DEF HoldInv

(* Clients that keep to themselves never hold a deployment in common, and   *)
(* the row a request loaded still allows the step that it is about to take. *)
THEOREM DeploymentsAlone == Exclusive => (Spec => []AloneFacts)
  <1> SUFFICES ASSUME Exclusive PROVE Spec => []AloneFacts
    OBVIOUS
  <1>1. Init => AloneFacts
    BY Constants DEF Init, AloneFacts, AloneInv, HoldInv, NeverReady, IdleReq, NoRow
  <1>2. TypeOK /\ StepInv /\ (TypeOK /\ StepInv)' /\ AloneFacts /\ [Next]_vars => AloneFacts'
    BY AloneStep, HoldStep DEF AloneFacts
  <1>3. QED
    BY <1>1, <1>2, DeploymentsTypes, PTL DEF Spec

-----------------------------------------------------------------------------
(* The app's current deployment.                                           *)

LEMMA CurrentStep ==
  ASSUME TypeOK, StepInv, Exclusive, AloneFacts, CurrentIsActive, [Next]_vars
  PROVE  CurrentIsActive'
  <1>0. /\ site.current # Null => row[site.current].status = "active"
        /\ site.current \in Deployments \cup {Null}
        /\ row \in [Deployments -> RowType]
    BY DEF CurrentIsActive, TypeOK
  <1>1. ASSUME row' = row, site'.current = site.current PROVE CurrentIsActive'
    BY <1>0, <1>1 DEF CurrentIsActive
  <1>2. ASSUME NEW q \in Requests, Commit(q) PROVE CurrentIsActive'
    <2>1. CASE ~Exists(req[q].dep)
      BY <1>1, <1>2, <2>1 DEF Commit
    <2>2. CASE Exists(req[q].dep)
      <3>1. req[q].dep \in Deployments
        BY <1>2, HasDep DEF Commit, At
      <3>2. /\ row' = Activated(req[q].dep, req[q].rows)
            /\ site' = [site EXCEPT !.current = req[q].dep, !.expires = Renewed(q)]
        BY <1>2, <2>2 DEF Commit
      <3>3. row'[req[q].dep].status = "active"
        BY <1>0, <3>1, <3>2 DEF Activated, RowType
      <3>4. site'.current = req[q].dep
        BY <3>2 DEF TypeOK
      <3>5. QED
        BY <3>3, <3>4 DEF CurrentIsActive
    <2>3. QED
      BY <2>1, <2>2
  <1>3. ASSUME NEW q \in Requests, Drop(q) PROVE CurrentIsActive'
    <2>1. site'.current = Null \/ (row' = row /\ site' = site)
      BY <1>3 DEF Drop, TypeOK
    <2>2. QED
      BY <1>1, <2>1 DEF CurrentIsActive
  <1>4. ASSUME NEW q \in Requests, Insert(q) \/ SaveUpload(q) \/ MarkFailed(q)
        PROVE  CurrentIsActive'
    <2>1. /\ req[q].pc \in {"insert", "save", "fail"} /\ site' = site
          /\ \A d \in Deployments \ {req[q].dep} : row'[d] = row[d]
      BY <1>0, <1>4 DEF Insert, SaveUpload, MarkFailed, At
    <2>2. req[q].dep \in Deployments
      BY <2>1, HasDep
    <2>3. row[req[q].dep].status \in HeldStatuses(req[q].pc) \cup {"none"}
      BY <2>2, Constants DEF AloneFacts, HoldInv
    <2>4. row[req[q].dep].status # "active"
      BY <2>1, <2>3 DEF HeldStatuses, Uploadable, Finalizable
    <2>5. QED
      BY <1>0, <2>1, <2>4 DEF CurrentIsActive
  <1>5. Tick => row' = row /\ site'.current = site.current
    BY DEF Tick, TypeOK
  <1>6. Renew => row' = row /\ site'.current = site.current
    BY DEF Renew, TypeOK
  <1>7. QED
    BY <1>1, <1>2, <1>3, <1>4, <1>5, <1>6
       DEF Next, Create, StartCreate, Upload, StartUpload, Store, Activate,
           StartFinalize, Clear, Extract, StartRollback, Prepare, Sync,
           StartRegister, Delete, StartDelete, Wipe, Collect, Unsync, Load, Keep,
           Crash, vars

(* Whatever deploys and rollbacks interleave, the app points at a row that  *)
(* is active (the supersede and set_current_deployment of                   *)
(* finalize_deployment and rollback_deployment).                           *)
THEOREM PointsAtActive == Spec => []CurrentIsActive
  <1>1. CASE ~Exclusive
    <2>1. CurrentIsActive
      BY <1>1 DEF CurrentIsActive
    <2>2. QED
      BY <2>1, PTL
  <1>2. CASE Exclusive
    <2>1. Init => CurrentIsActive
      BY DEF Init, CurrentIsActive
    <2>2. TypeOK /\ StepInv /\ AloneFacts /\ CurrentIsActive /\ [Next]_vars => CurrentIsActive'
      BY <1>2, CurrentStep
    <2>3. Spec => []AloneFacts
      BY <1>2, DeploymentsAlone
    <2>4. QED
      BY <2>1, <2>2, <2>3, DeploymentsTypes, PTL DEF Spec
  <1>3. QED
    BY <1>1, <1>2

(* An active deployment takes no upload as long as clients do not share one *)
(* (the status test of upload_deployment_artifact).  Shared, it can: see   *)
(* the run deployments_upload.                                             *)
THEOREM ActiveKept == Exclusive => (Spec => ActiveTakesNoUpload)
  <1> SUFFICES ASSUME Exclusive PROVE Spec => ActiveTakesNoUpload
    OBVIOUS
  <1> DEFINE Kept == \A d \in Deployments :
                       row[d].status = "active" => row'[d].status # "uploading"
  <1>1. TypeOK /\ StepInv /\ AloneFacts /\ [Next]_vars => [Kept]_vars
    <2> SUFFICES ASSUME TypeOK, StepInv, AloneFacts, [Next]_vars,
                        NEW d \in Deployments, row[d].status = "active",
                        row'[d].status = "uploading"
                 PROVE  FALSE
      OBVIOUS
    <2>1. PICK q \in Requests : req[q].dep = d /\ At(q, "save")
      BY RowMoves DEF RowMove
    <2>2. row[d].status \in HeldStatuses("save") \cup {"none"}
      BY <2>1, Constants DEF AloneFacts, HoldInv, At
    <2>3. QED
      BY <2>2 DEF HeldStatuses, Uploadable
  <1>2. Spec => []AloneFacts
    BY DeploymentsAlone
  <1>3. QED
    BY <1>1, <1>2, DeploymentsTypes, PTL DEF Spec, ActiveTakesNoUpload

-----------------------------------------------------------------------------
(* The extracted trees.                                                    *)

TreeOK(d) == "own" \in store[d].files <=> store[d].artifact = "site"

(* A request about to extract has cleared the tree of the archive it read;  *)
(* one that activates a deployment has its whole tree.                     *)
TreeOf(q) ==
  /\ req[q].pc = "extract" => /\ req[q].kind = store[req[q].dep].artifact
                              /\ "own" \notin store[req[q].dep].files
  /\ req[q].pc \in {"prepare", "commit"} => TreeOK(req[q].dep)
TreeInv ==
  /\ \A d \in Deployments \ wiped : row[d].status \in Restorable => TreeOK(d)
  /\ \A q \in Requests : req[q].dep \in Deployments \ wiped => TreeOf(q)

LEMMA TreeKept ==
  ASSUME TreeInv, wiped \subseteq wiped',
         \A d \in Deployments \ wiped' : store'[d] = store[d],
         \A d \in Deployments : row'[d].status \in Restorable => row[d].status \in Restorable,
         \A x \in Requests : req'[x].pc \in {"extract", "prepare", "commit"}
                               => req'[x] = req[x]
  PROVE  TreeInv'
  BY DEF TreeInv, TreeOf, TreeOK

(* A step that rewrites the files of the deployment its request holds. *)
LEMMA TreeHeld ==
  ASSUME TypeOK, StepInv, Exclusive, AloneFacts, TreeInv, NEW q \in Requests,
         Store(q) \/ Clear(q) \/ Extract(q)
  PROVE  TreeInv'
  <1> DEFINE d == req[q].dep
  <1>1. /\ d \in Deployments /\ row' = row /\ Others(q) /\ wiped' = wiped
        /\ req[q].pc \in {"store", "clear", "extract"}
    BY HasDep DEF Store, Clear, Extract, At, TypeOK, Others, EndReq, GoTo
  <1>2. row[d].status \notin Restorable
    <2>1. row[d].status \in HeldStatuses(req[q].pc) \cup {"none"}
      BY <1>1, Constants DEF AloneFacts, HoldInv
    <2>2. row[d].status # "ready"
      BY <1>1 DEF AloneFacts, NeverReady
    <2>3. QED
      BY <1>1, <2>1, <2>2 DEF HeldStatuses, Uploadable, Finalizable, Restorable
  <1>3. store \in [Deployments -> StoreType] /\ req[q] \in ReqType
    BY DEF TypeOK
  <1>4. \A e \in Deployments \ {d} : store'[e] = store[e]
    BY <1>1, <1>3 DEF Store, Clear, Extract
  <1>5. ASSUME NEW x \in Requests, x # q, req[x].dep \in Deployments \ wiped
        PROVE  TreeOf(x)'
    <2>1. req'[x] = req[x] /\ TreeOf(x)
      BY <1>1, <1>5 DEF Others, TreeInv
    <2>2. req[x].pc \in {"extract", "prepare", "commit"} => req[x].dep \in Deployments \ {d}
      BY <1>1, <1>5, HasDep, Constants DEF AloneFacts, AloneInv
    <2>3. QED
      BY <1>4, <2>1, <2>2 DEF TreeOf, TreeOK
  <1>6. ASSUME Store(q) PROVE TreeOf(q)'
    <2>1. PICK a \in Archives : req' = [req EXCEPT ![q].pc = "save", ![q].kind = a]
      BY <1>6 DEF Store
    <2>2. req'[q].pc = "save"
      BY <1>3, <2>1 DEF TypeOK, ReqType
    <2>3. QED
      BY <2>2 DEF TreeOf
  <1>7. ASSUME Clear(q) PROVE TreeOf(q)'
    <2>1. CASE EndReq(q)
      BY <2>1 DEF EndReq, TypeOK, IdleReq, TreeOf
    <2>2. CASE ~EndReq(q)
      <3>1. PICK F \in Removed(store[d].files) :
              /\ store' = [store EXCEPT ![d].files = F]
              /\ req' = [req EXCEPT ![q].pc = "extract", ![q].kind = store[d].artifact]
        BY <1>7, <2>2 DEF Clear
      <3>2. "own" \notin F
        BY <3>1 DEF Removed, Older
      <3>3. /\ store'[d].files = F /\ store'[d].artifact = store[d].artifact
            /\ req'[q].pc = "extract" /\ req'[q].dep = d /\ req'[q].kind = store[d].artifact
        BY <1>1, <1>3, <3>1 DEF StoreType, ReqType, TypeOK
      <3>4. QED
        BY <3>2, <3>3 DEF TreeOf
    <2>3. QED
      BY <2>1, <2>2
  <1>8. ASSUME Extract(q), d \notin wiped PROVE TreeOf(q)'
    <2>1. CASE EndReq(q)
      BY <2>1 DEF EndReq, TypeOK, IdleReq, TreeOf
    <2>2. CASE GoTo(q, "fail")
      <3>1. req'[q].pc = "fail"
        BY <2>2 DEF GoTo, TypeOK, ReqType
      <3>2. QED
        BY <3>1 DEF TreeOf
    <2>3. CASE GoTo(q, "prepare") /\ req[q].kind \notin {"broken", "oversized"}
      <3>1. req'[q].pc = "prepare" /\ req'[q].dep = d
        BY <2>3 DEF GoTo, TypeOK, ReqType
      <3>2. req[q].kind = store[d].artifact /\ "own" \notin store[d].files
        BY <1>1, <1>8 DEF Extract, At, TreeInv, TreeOf
      <3>3. PICK F \in Extracted(store[d].files, req[q].kind) :
              store' = [store EXCEPT ![d].files = F]
        BY <1>8 DEF Extract
      <3>4. "own" \in F <=> req[q].kind = "site"
        BY <2>3, <3>2, <3>3 DEF Extracted
      <3>5. /\ store'[d].artifact = store[d].artifact
            /\ "own" \in store'[d].files <=> req[q].kind = "site"
        BY <1>1, <1>3, <3>3, <3>4 DEF StoreType
      <3>6. QED
        BY <3>1, <3>2, <3>5 DEF TreeOf, TreeOK
    <2>4. QED
      BY <1>8, <2>1, <2>2, <2>3 DEF Extract
  <1>9. d \notin wiped => TreeOf(q)'
    BY <1>6, <1>7, <1>8
  <1>10. \A e \in Deployments \ wiped : row'[e].status \in Restorable => TreeOK(e)'
    BY <1>1, <1>2, <1>4 DEF TreeInv, TreeOK
  <1>11. req'[q].dep \in {d, Null}
    <2>1. \/ EndReq(q) \/ \E pc : GoTo(q, pc)
          \/ \E pc, a : req' = [req EXCEPT ![q].pc = pc, ![q].kind = a]
      BY DEF Store, Clear, Extract
    <2>2. EndReq(q) => req'[q].dep = Null
      BY DEF EndReq, IdleReq, TypeOK
    <2>3. \A pc : GoTo(q, pc) => req'[q].dep = d
      BY <1>3 DEF GoTo, TypeOK, ReqType
    <2>4. \A pc, a : req' = [req EXCEPT ![q].pc = pc, ![q].kind = a] => req'[q].dep = d
      BY <1>3 DEF TypeOK, ReqType
    <2>5. QED
      BY <2>1, <2>2, <2>3, <2>4
  <1>12. \A x \in Requests : req'[x].dep \in Deployments \ wiped => TreeOf(x)'
    BY <1>1, <1>5, <1>9, <1>11, Constants DEF Others
  <1>13. QED
    BY <1>1, <1>10, <1>12 DEF TreeInv

LEMMA TreeStep ==
  ASSUME TypeOK, StepInv, Exclusive, AloneFacts, TreeInv, [Next]_vars
  PROVE  TreeInv'
  <1> DEFINE NoNewRow == \A d \in Deployments : row'[d].status \in Restorable
                                                  => row[d].status \in Restorable
             NoNewTree == \A x \in Requests : req'[x].pc \in {"extract", "prepare", "commit"}
                                                => req'[x] = req[x]
  <1>0. row' = row => NoNewRow
    OBVIOUS
  <1>1. ASSUME NEW q \in Requests, Others(q), req'[q].pc \notin {"extract", "prepare", "commit"}
        PROVE  NoNewTree
    BY <1>1 DEF Others
  <1>2. ASSUME NEW q \in Requests, EndReq(q) \/ GoTo(q, "sync") PROVE NoNewTree
    BY <1>1, <1>2, Left DEF EndReq, GoTo, TypeOK, Others
  <1>3. ASSUME NEW q \in Requests, Create(q) PROVE TreeInv'
    <2>1. ASSUME NEW d \in Deployments, StartCreate(q, d) PROVE TreeInv'
      <3>1. Starts(q, "create", d, "insert")
        BY <2>1 DEF StartCreate, Starts, StepsOf
      <3>2. NoNewTree
        BY <1>1, <3>1, StartEffect
      <3>3. QED
        BY <1>0, <2>1, <3>2, TreeKept DEF StartCreate
    <2>2. CASE Insert(q)
      <3>1. NoNewTree
        BY <1>2, <2>2 DEF Insert
      <3>2. row' = row \/ row' = [row EXCEPT ![req[q].dep] = Draft]
        BY <2>2 DEF Insert
      <3>3. NoNewRow
        BY <1>0, <3>2 DEF Draft, Restorable, TypeOK
      <3>4. QED
        BY <2>2, <3>1, <3>3, TreeKept DEF Insert
    <2>3. QED
      BY <1>3, <2>1, <2>2 DEF Create
  <1>4. ASSUME NEW q \in Requests, Upload(q) PROVE TreeInv'
    <2>1. ASSUME NEW d \in Deployments, StartUpload(q, d) PROVE TreeInv'
      <3>1. Starts(q, "upload", d, "store")
        BY <2>1 DEF StartUpload, Starts, StepsOf
      <3>2. NoNewTree
        BY <1>1, <3>1, StartEffect
      <3>3. QED
        BY <1>0, <2>1, <3>2, TreeKept DEF StartUpload
    <2>2. CASE SaveUpload(q)
      <3>1. NoNewTree
        BY <1>2, <2>2 DEF SaveUpload
      <3>2. \A e \in Deployments : row'[e] = row[e] \/ row'[e].status = "uploading"
        BY <2>2 DEF SaveUpload, TypeOK
      <3>3. NoNewRow
        BY <3>2 DEF Restorable
      <3>4. QED
        BY <2>2, <3>1, <3>3, TreeKept DEF SaveUpload
    <2>3. QED
      BY <1>4, <2>1, <2>2, TreeHeld DEF Upload
  <1>5. ASSUME NEW q \in Requests, Activate(q) PROVE TreeInv'
    <2>1. ASSUME NEW d \in Deployments, StartFinalize(q, d) PROVE TreeInv'
      <3>1. Starts(q, "finalize", d, "clear")
        BY <2>1 DEF StartFinalize, Starts, StepsOf
      <3>2. NoNewTree
        BY <1>1, <3>1, StartEffect
      <3>3. QED
        BY <1>0, <2>1, <3>2, TreeKept DEF StartFinalize
    <2>2. ASSUME NEW d \in Deployments, StartRollback(q, d) PROVE TreeInv'
      <3>1. Starts(q, "rollback", d, "prepare")
        BY <2>2 DEF StartRollback, Starts, StepsOf
      <3>2. req'[q].pc = "prepare" /\ req'[q].dep = d /\ Others(q)
        BY <3>1, StartEffect
      <3>3. /\ row' = row /\ store' = store /\ wiped' = wiped
            /\ d \notin wiped => TreeOK(d)
        BY <2>2 DEF StartRollback, TreeInv
      <3>4. QED
        BY <3>2, <3>3 DEF Others, TreeInv, TreeOf, TreeOK
    <2>3. CASE Prepare(q)
      <3>1. /\ row' = row /\ store' = store /\ wiped' = wiped
            /\ req[q].dep \in Deployments \ wiped => TreeOK(req[q].dep)
        BY <2>3 DEF Prepare, At, TreeInv, TreeOf
      <3>2. req'[q].pc = "commit" /\ req'[q].dep = req[q].dep /\ Others(q)
        BY <2>3 DEF Prepare, TypeOK, ReqType, Others
      <3>3. QED
        BY <3>1, <3>2 DEF Others, TreeInv, TreeOf, TreeOK
    <2>4. CASE Commit(q)
      <3>1. /\ store' = store /\ wiped' = wiped
            /\ req[q].dep \in Deployments \ wiped => TreeOK(req[q].dep)
        BY <2>4 DEF Commit, At, TreeInv, TreeOf
      <3>2. NoNewTree
        BY <1>2, <2>4 DEF Commit
      <3>3. CASE row' = row
        BY <1>0, <3>1, <3>2, <3>3, TreeKept
      <3>4. CASE row' = Activated(req[q].dep, req[q].rows)
        <4>1. \A e \in Deployments : row'[e].status \in Restorable =>
                                       row[e].status \in Restorable \/ e = req[q].dep
          BY <3>4 DEF Activated, TypeOK, RowType, Restorable
        <4>2. QED
          BY <3>1, <3>2, <4>1 DEF TreeInv, TreeOf, TreeOK
      <3>5. QED
        BY <2>4, <3>3, <3>4 DEF Commit
    <2>5. CASE MarkFailed(q)
      <3>1. NoNewTree
        BY <1>2, <2>5 DEF MarkFailed
      <3>2. \A e \in Deployments : row'[e].status \in {row[e].status, "failed"}
        BY <2>5 DEF MarkFailed, TypeOK, RowType
      <3>3. NoNewRow
        BY <3>2 DEF Restorable
      <3>4. QED
        BY <2>5, <3>1, <3>3, TreeKept DEF MarkFailed
    <2>6. CASE Sync(q)
      BY <1>0, <1>2, <2>6, TreeKept DEF Sync
    <2>7. CASE StartRegister(q)
      <3>1. Starts(q, "register", Null, "sync")
        BY <2>7, Constants DEF StartRegister, Starts, StepsOf
      <3>2. NoNewTree
        BY <1>1, <3>1, StartEffect
      <3>3. QED
        BY <1>0, <2>7, <3>2, TreeKept DEF StartRegister
    <2>8. QED
      BY <1>5, <2>1, <2>2, <2>3, <2>4, <2>5, <2>6, <2>7, TreeHeld DEF Activate
  <1>6. ASSUME NEW q \in Requests, Delete(q) PROVE TreeInv'
    <2>1. CASE StartDelete(q)
      <3>1. Starts(q, "delete", Null, "wipe")
        BY <2>1, Constants DEF StartDelete, Starts, StepsOf
      <3>2. NoNewTree
        BY <1>1, <3>1, StartEffect
      <3>3. QED
        BY <1>0, <2>1, <3>2, TreeKept DEF StartDelete
    <2>2. CASE Collect(q) \/ Unsync(q)
      <3>1. req'[q].pc \in {"unsync", "drop"} /\ Others(q)
        <4>1. \/ \E S : req' = [req EXCEPT ![q].pc = "unsync", ![q].rows = S]
              \/ \E k : req' = [req EXCEPT ![q].pc = "drop", ![q].kind = k]
          BY <2>2 DEF Collect, Unsync
        <4>2. req \in [Requests -> ReqType]
          BY DEF TypeOK
        <4>3. QED
          BY <4>1, <4>2 DEF ReqType, Others
      <3>2. NoNewTree
        BY <1>1, <3>1
      <3>3. QED
        BY <1>0, <2>2, <3>2, TreeKept DEF Collect, Unsync
    <2>3. CASE Drop(q)
      <3>1. NoNewTree
        BY <1>2, <2>3 DEF Drop
      <3>2. NoNewRow
        BY <1>0, <2>3 DEF Drop, NoRow, Restorable
      <3>3. QED
        BY <2>3, <3>1, <3>2, TreeKept DEF Drop
    <2>4. CASE Wipe(q)
      <3>1. EndReq(q) \/ GoTo(q, "collect")
        BY <2>4 DEF Wipe
      <3>2. req'[q].pc \in {"idle", "collect"} /\ Others(q)
        BY <3>1 DEF EndReq, GoTo, IdleReq, TypeOK, ReqType, Others
      <3>3. NoNewTree
        BY <1>1, <3>2
      <3>4. /\ row' = row /\ wiped \subseteq wiped'
            /\ \A d \in Deployments \ wiped' : store'[d] = store[d]
        BY <2>4 DEF Wipe, Existing
      <3>5. QED
        BY <1>0, <3>3, <3>4, TreeKept
    <2>5. QED
      BY <1>6, <2>1, <2>2, <2>3, <2>4 DEF Delete
  <1>7. ASSUME NEW p \in Processes, Load(p) \/ Keep(p) \/ Crash(p) PROVE TreeInv'
    <2>1. NoNewTree
      BY <1>7 DEF Load, Keep, Crash, IdleReq
    <2>2. QED
      BY <1>0, <1>7, <2>1, TreeKept DEF Load, Keep, Crash
  <1>8. ASSUME Renew \/ Tick \/ UNCHANGED vars PROVE TreeInv'
    BY <1>0, <1>8, TreeKept DEF Renew, Tick, vars
  <1>9. QED
    BY <1>3, <1>4, <1>5, <1>6, <1>7, <1>8 DEF Next

(* An active or superseded deployment has the tree of its own archive until *)
(* a delete removes files, whatever delete_extracted_prefix leaves of older *)
(* ones (extract_deployment_artifact, under finalize_deployment and         *)
(* rollback_deployment).                                                   *)
THEOREM RollbacksFindTheirTree == Spec => []TreesIntact
  <1>1. CASE ~Exclusive
    <2>1. TreesIntact
      BY <1>1 DEF TreesIntact
    <2>2. QED
      BY <2>1, PTL
  <1>2. CASE Exclusive
    <2>1. Init => TreeInv
      BY DEF Init, TreeInv, TreeOf, TreeOK, IdleReq, NoRow, Restorable
    <2>2. TypeOK /\ StepInv /\ AloneFacts /\ TreeInv /\ [Next]_vars => TreeInv'
      BY <1>2, TreeStep
    <2>3. TreeInv => TreesIntact
      BY DEF TreeInv, TreeOK, TreesIntact, Restorable
    <2>4. Spec => []AloneFacts
      BY <1>2, DeploymentsAlone
    <2>5. QED
      BY <2>1, <2>2, <2>3, <2>4, DeploymentsTypes, PTL DEF Spec
  <1>3. QED
    BY <1>1, <1>2

-----------------------------------------------------------------------------
(* What visitors get.                                                      *)

(* Deployment d was active, and nobody works on its files. *)
Seasoned(d) ==
  /\ site.exists => row[d].status \in {"active", "superseded"}
  /\ \A q \in Requests : req[q].pc \in {"clear", "extract"} => req[q].dep # d

(* So is every deployment that a process has a copy of. *)
SeasonedCopies ==
  \A p \in Processes :
    /\ cache[p].ttl > 0 /\ cache[p].obj.current # Null => Seasoned(cache[p].obj.current)
    /\ loader[p] # Null /\ loader[p].current # Null => Seasoned(loader[p].current)

(* A row goes only with its app. *)
LEMMA RowsGoTogether ==
  ASSUME TypeOK, [Next]_vars, NEW d \in Deployments,
         row[d].status \in {"active", "superseded"}, row'[d].status = "none"
  PROVE  ~site'.exists
  <1>0. row \in [Deployments -> RowType] /\ row' # row
    BY DEF TypeOK
  <1>1. ASSUME NEW q \in Requests, Insert(q) \/ SaveUpload(q) \/ MarkFailed(q) PROVE FALSE
    <2>1. row'[d] = row[d] \/ row'[d].status \in {"draft", "uploading", "failed"}
      BY <1>0, <1>1 DEF Insert, SaveUpload, MarkFailed, Draft, RowType
    <2>2. QED
      BY <2>1
  <1>2. ASSUME NEW q \in Requests, Commit(q) PROVE FALSE
    <2>1. row'[d].status \in {row[d].status, "active", "superseded"}
      BY <1>0, <1>2 DEF Commit, Activated, RowType
    <2>2. QED
      BY <2>1
  <1>3. ASSUME NEW q \in Requests, Drop(q) PROVE ~site'.exists
    BY <1>0, <1>3 DEF Drop, TypeOK
  <1>4. QED
    BY <1>0, <1>1, <1>2, <1>3
       DEF Next, Create, StartCreate, Upload, StartUpload, Store, Activate,
           StartFinalize, Clear, Extract, StartRollback, Prepare, Sync,
           StartRegister, Delete, StartDelete, Wipe, Collect, Unsync, Renew, Load, Keep,
           Crash, Tick, vars

LEMMA SeasonedKept ==
  ASSUME TypeOK, StepInv, AloneFacts, [Next]_vars, NEW d \in Deployments, Seasoned(d)
  PROVE  Seasoned(d)'
  <1>1. site'.exists => site.exists
    BY SiteMoves DEF SiteMove, TypeOK, Tick
  <1>2. ASSUME site'.exists PROVE row'[d].status \in {"active", "superseded"}
    <2>1. row[d].status \in {"active", "superseded"}
      BY <1>1, <1>2 DEF Seasoned
    <2>2. row'[d].status # "none"
      BY <1>2, <2>1, RowsGoTogether
    <2>3. ASSUME NEW q \in Requests, req[q].dep = d PROVE ~(At(q, "insert") \/ At(q, "save")
                                                            \/ At(q, "fail"))
      <3>1. row[d].status \in HeldStatuses(req[q].pc) \cup {"none"}
        BY <2>3, Constants DEF AloneFacts, HoldInv
      <3>2. QED
        BY <2>1, <3>1 DEF HeldStatuses, Uploadable, Finalizable, At
    <2>4. QED
      BY <2>1, <2>2, <2>3, RowMoves DEF RowMove
  <1>3. ASSUME NEW x \in Requests, req'[x].pc \in {"clear", "extract"}, req'[x].dep = d
        PROVE  FALSE
    <2>1. req'[x] # req[x]
      BY <1>3 DEF Seasoned
    <2>2. ASSUME NEW e \in Deployments, Began(x, e) PROVE FALSE
      <3>1. e = d /\ site.exists
        BY <1>3, <2>2, StartEffect DEF Began
      <3>2. row[d].status \in {"active", "superseded"}
        BY <3>1 DEF Seasoned
      <3>3. Starts(x, "finalize", d, "clear") /\ row[d].status \in Finalizable
        BY <1>3, <2>2, <3>1, StartEffect DEF Began
      <3>4. QED
        BY <3>2, <3>3 DEF Finalizable
    <2>3. ASSUME NEW pc \in After(req[x].pc), Moves(x, pc) PROVE FALSE
      <3>1. req'[x].pc = pc /\ req[x].dep = d
        BY <1>3, <2>3, MoveEffect
      <3>2. req[x].pc = "clear"
        BY <1>3, <2>3, <3>1 DEF After
      <3>3. QED
        BY <3>1, <3>2 DEF Seasoned
    <2>4. QED
      BY <1>3, <2>1, <2>2, <2>3, Holders, Constants
  <1>4. QED
    BY <1>2, <1>3 DEF Seasoned

(* The current deployment is active, so nobody may work on its files. *)
LEMMA SeasonedCurrent ==
  ASSUME TypeOK, Exclusive, AloneFacts, CurrentIsActive, site.current # Null
  PROVE  site.current \in Deployments /\ Seasoned(site.current)
  <1>1. site.current \in Deployments /\ row[site.current].status = "active"
    BY DEF TypeOK, CurrentIsActive
  <1>2. ASSUME NEW q \in Requests, req[q].pc \in {"clear", "extract"},
               req[q].dep = site.current
        PROVE  FALSE
    <2>1. row[site.current].status \in HeldStatuses(req[q].pc) \cup {"none"}
      BY <1>1, <1>2, Constants DEF AloneFacts, HoldInv
    <2>2. QED
      BY <1>1, <1>2, <2>1 DEF HeldStatuses, Finalizable
  <1>3. QED
    BY <1>1, <1>2 DEF Seasoned

LEMMA SeasonedStep ==
  ASSUME TypeOK, StepInv, Exclusive, AloneFacts, CurrentIsActive, SeasonedCopies,
         [Next]_vars
  PROVE  SeasonedCopies'
  <1>1. ASSUME NEW o \in ObjType, NEW d, d # Null, d = o.current,
               o.current # Null => Seasoned(o.current)
        PROVE  Seasoned(d)'
    BY <1>1, SeasonedKept DEF ObjType
  <1>2. ASSUME NEW p \in Processes, cache'[p].ttl > 0,
               NEW d, d # Null, d = cache'[p].obj.current
        PROVE  Seasoned(d)'
    <2>0. /\ cache[p].ttl > 0 => /\ cache[p].obj \in ObjType
                                 /\ cache[p].obj.current # Null
                                      => Seasoned(cache[p].obj.current)
          /\ loader[p] # Null => /\ loader[p] \in ObjType
                                 /\ loader[p].current # Null => Seasoned(loader[p].current)
          /\ cache[p].ttl \in Nat
      BY DEF TypeOK, SeasonedCopies
    <2>1. cache'[p] # NoEntry
      <3>1. NoEntry.ttl = 0
        BY DEF NoEntry
      <3>2. QED
        BY <1>2, <3>1
    <2>2. CASE Tick
      <3>1. cache[p].ttl > 1 /\ cache'[p].obj = AgedObj(cache[p].obj)
        BY <2>1, <2>2, TickEffect
      <3>2. cache[p].ttl > 0
        BY <2>0, <3>1
      <3>3. cache'[p].obj.current = cache[p].obj.current
        BY <2>0, <3>1, <3>2, ObjTypes
      <3>4. QED
        BY <1>1, <1>2, <2>0, <3>2, <3>3
    <2>3. CASE cache'[p] = cache[p]
      BY <1>1, <1>2, <2>0, <2>3
    <2>4. CASE loader[p] # Null /\ cache'[p] = [ttl |-> CacheTTL, obj |-> loader[p]]
      BY <1>1, <1>2, <2>0, <2>4
    <2>5. QED
      BY <2>1, <2>2, <2>3, <2>4, CopyMoves DEF CacheMove
  <1>3. ASSUME NEW p \in Processes, loader'[p] # Null,
               NEW d, d # Null, d = loader'[p].current
        PROVE  Seasoned(d)'
    <2>0. loader[p] # Null => /\ loader[p] \in ObjType
                              /\ loader[p].current # Null => Seasoned(loader[p].current)
      BY DEF TypeOK, SeasonedCopies
    <2>1. CASE Tick
      <3>1. loader[p] # Null /\ loader'[p] = AgedObj(loader[p])
        BY <1>3, <2>1, TickEffect
      <3>2. loader'[p].current = loader[p].current
        BY <2>0, <3>1, ObjTypes
      <3>3. QED
        BY <1>1, <1>3, <2>0, <3>1, <3>2
    <2>2. CASE loader'[p] = loader[p]
      BY <1>1, <1>3, <2>0, <2>2
    <2>3. CASE loader'[p] = Snapshot
      <3>1. loader'[p].current = site.current
        BY <2>3 DEF Snapshot
      <3>2. QED
        BY <1>3, <3>1, SeasonedCurrent, SeasonedKept
    <2>4. QED
      BY <1>3, <2>1, <2>2, <2>3, CopyMoves DEF LoaderMove
  <1>4. QED
    BY <1>2, <1>3 DEF SeasonedCopies, Seasoned

(* If clients do not share a deployment, every process serves one that was  *)
(* active, and that nobody uploads or extracts again, however stale its     *)
(* copy is (_load_app and invalidate_serve_cache, which leaves other        *)
(* processes' entries alone).                                              *)
THEOREM ServedWhole == Spec => []ServedIsWhole
  <1>1. CASE ~Exclusive
    <2>1. ServedIsWhole
      BY <1>1 DEF ServedIsWhole
    <2>2. QED
      BY <2>1, PTL
  <1>2. CASE Exclusive
    <2>1. Init => SeasonedCopies
      BY DEF Init, SeasonedCopies, NoEntry
    <2>2. TypeOK /\ StepInv /\ AloneFacts /\ CurrentIsActive /\ SeasonedCopies /\ [Next]_vars
            => SeasonedCopies'
      BY <1>2, SeasonedStep
    <2>3. TypeOK /\ AloneFacts /\ CurrentIsActive /\ SeasonedCopies => ServedIsWhole
      <3> SUFFICES ASSUME TypeOK, AloneFacts, CurrentIsActive, SeasonedCopies,
                          NEW p \in Processes, Serves(p) # Null
                   PROVE  Seasoned(Serves(p))
        BY DEF ServedIsWhole, Seasoned
      <3>1. Serves(p) = Seen(p).current
        BY DEF Serves
      <3>2. CASE cache[p].ttl > 0
        BY <3>1, <3>2 DEF Seen, SeasonedCopies
      <3>3. CASE ~(cache[p].ttl > 0)
        <4>1. Seen(p) \in {Snapshot, Null} /\ Seen(p) # Null
          BY <3>3 DEF Seen, Serves
        <4>2. Serves(p) = site.current
          BY <3>1, <4>1 DEF Snapshot
        <4>3. QED
          BY <1>2, <4>2, SeasonedCurrent
      <3>4. QED
        BY <3>2, <3>3
    <2>4. Spec => []AloneFacts
      BY <1>2, DeploymentsAlone
    <2>5. QED
      BY <2>1, <2>2, <2>3, <2>4, DeploymentsTypes, PointsAtActive, PTL DEF Spec
  <1>3. QED
    BY <1>1, <1>2

-----------------------------------------------------------------------------
(* Expired previews.                                                       *)

(* A preview has an expiry as soon as something could be served from it: it *)
(* is set by the first activation, which is no rollback.                   *)
ExpiryInv ==
  /\ site.expires # Null => site.preview
  /\ site.preview /\ site.expires = Null =>
       /\ site.current = Null
       /\ \A d \in Deployments : row[d].status \notin Restorable
       /\ \A q \in Requests : req[q].op # "rollback"

(* A copy o of a preview's App row s is dark no later than the row is. *)
Fades(o, s) ==
  s.preview => \/ o.expires = Null /\ o.current = Null
               \/ o.expires # Null /\ s.expires # Null /\ o.expires <= s.expires
CopyInv ==
  \A p \in Processes : /\ cache[p].ttl > 0 => Fades(cache[p].obj, site)
                       /\ loader[p] # Null => Fades(loader[p], site)

(* Only a commit gives an app a deployment to serve. *)
LEMMA Activation ==
  ASSUME TypeOK, [Next]_vars, NEW d \in Deployments,
         row[d].status \notin Restorable, row'[d].status \in Restorable
  PROVE  \E q \in Requests :
           /\ At(q, "commit") /\ Exists(req[q].dep)
           /\ site' = [site EXCEPT !.current = req[q].dep, !.expires = Renewed(q)]
  <1>0. row \in [Deployments -> RowType] /\ row' # row
    BY DEF TypeOK
  <1>1. ASSUME NEW q \in Requests, Insert(q) PROVE FALSE
    <2>1. row' = [row EXCEPT ![req[q].dep] = Draft]
      BY <1>0, <1>1 DEF Insert
    <2>2. QED
      BY <1>0, <2>1 DEF Draft, Restorable
  <1>2. ASSUME NEW q \in Requests, SaveUpload(q) PROVE FALSE
    <2>1. row'[d] = row[d] \/ row'[d].status = "uploading"
      BY <1>0, <1>2 DEF SaveUpload
    <2>2. QED
      BY <2>1 DEF Restorable
  <1>3. ASSUME NEW q \in Requests, MarkFailed(q) PROVE FALSE
    <2>1. row'[d].status \in {row[d].status, "failed"}
      BY <1>0, <1>3 DEF MarkFailed, RowType
    <2>2. QED
      BY <2>1 DEF Restorable
  <1>4. ASSUME NEW q \in Requests, Drop(q) PROVE FALSE
    BY <1>0, <1>4 DEF Drop, NoRow, Restorable
  <1>5. ASSUME NEW q \in Requests, Commit(q)
        PROVE  /\ At(q, "commit") /\ Exists(req[q].dep)
               /\ site' = [site EXCEPT !.current = req[q].dep, !.expires = Renewed(q)]
    BY <1>0, <1>5 DEF Commit
  <1>6. QED
    BY <1>0, <1>1, <1>2, <1>3, <1>4, <1>5
       DEF Next, Create, StartCreate, Upload, StartUpload, Store, Activate,
           StartFinalize, Clear, Extract, StartRollback, Prepare, Sync,
           StartRegister, Delete, StartDelete, Wipe, Collect, Unsync, Renew, Load, Keep,
           Crash, Tick, vars

(* What a commit makes of the expiry of a preview. *)
LEMMA CommitExpiry ==
  ASSUME TypeOK, StepInv, ExpiryInv, NEW q \in Requests, At(q, "commit"),
         site' = [site EXCEPT !.current = req[q].dep, !.expires = Renewed(q)]
  PROVE  /\ site'.preview = site.preview
         /\ site'.expires \in {site.expires, PreviewTTL}
         /\ site'.expires # Null => site'.preview
         /\ site.preview => site'.expires # Null
  <1>1. site'.expires = Renewed(q) /\ site'.preview = site.preview
    BY DEF TypeOK
  <1>2. PreviewTTL # Null
    BY Constants
  <1>3. req[q].op \in {"finalize", "rollback"}
    BY HasDep DEF At
  <1>4. QED
    BY <1>1, <1>2, <1>3 DEF Renewed, ExpiryInv

LEMMA ExpiryStep ==
  ASSUME TypeOK, StepInv, ExpiryInv, [Next]_vars
  PROVE  ExpiryInv'
  <1>1. site'.preview = site.preview
    BY SiteTypes
  <1>2. site'.expires # Null => site'.preview
    <2>1. CASE site' = site
      BY <2>1 DEF ExpiryInv
    <2>2. ASSUME NEW q \in Requests, At(q, "commit"),
                 site' = [site EXCEPT !.current = req[q].dep, !.expires = Renewed(q)]
          PROVE  site'.expires # Null => site'.preview
      BY <2>2, CommitExpiry
    <2>3. CASE site' = [site EXCEPT !.exists = FALSE, !.current = Null]
      BY <2>3 DEF ExpiryInv, TypeOK
    <2>4. CASE Tick
      <3>1. site'.expires = Sooner(site.expires) /\ site.expires \in Expiries
        BY <2>4 DEF Tick, TypeOK
      <3>2. QED
        BY <1>1, <3>1, SoonerType DEF ExpiryInv
    <2>5. QED
      BY <1>1, <2>1, <2>2, <2>3, <2>4, SiteMoves DEF SiteMove
  <1>3. ASSUME site'.preview, site'.expires = Null
        PROVE  /\ site'.current = Null
               /\ \A d \in Deployments : row'[d].status \notin Restorable
               /\ \A q \in Requests : req'[q].op # "rollback"
    <2>1. ~ \E q \in Requests :
              /\ At(q, "commit")
              /\ site' = [site EXCEPT !.current = req[q].dep, !.expires = Renewed(q)]
      BY <1>1, <1>3, CommitExpiry
    <2>2. site.expires = Null /\ site'.current \in {site.current, Null}
      <3>1. CASE Tick
        <4>1. /\ site'.expires = Sooner(site.expires) /\ site.expires \in Expiries
              /\ site'.current = site.current
          BY <3>1 DEF Tick, TypeOK
        <4>2. QED
          BY <1>3, <4>1, SoonerType
      <3>2. site' # [site EXCEPT !.expires = PreviewTTL]
        BY <1>3, Constants DEF TypeOK
      <3>3. QED
        BY <1>3, <2>1, <3>1, <3>2, SiteMoves DEF SiteMove, TypeOK
    <2>3. /\ site.current = Null
          /\ \A d \in Deployments : row[d].status \notin Restorable
          /\ \A q \in Requests : req[q].op # "rollback"
      BY <1>1, <1>3, <2>2 DEF ExpiryInv
    <2>4. \A d \in Deployments : row'[d].status \notin Restorable
      BY <2>1, <2>3, Activation
    <2>5. ASSUME NEW x \in Requests, req'[x].op = "rollback" PROVE FALSE
      <3>1. req'[x].dep # Null
        BY <2>5, StepKept DEF StepInv, ReqOK
      <3>2. ASSUME NEW d \in Deployments, Began(x, d) PROVE FALSE
        BY <2>3, <2>5, <3>2, StartEffect DEF Began
      <3>3. ASSUME NEW pc \in After(req[x].pc), Moves(x, pc) PROVE FALSE
        BY <2>3, <2>5, <3>3, MoveEffect
      <3>4. QED
        BY <2>3, <2>5, <3>1, <3>2, <3>3, Holders
    <2>6. QED
      BY <2>2, <2>3, <2>4, <2>5
  <1>4. QED
    BY <1>2, <1>3 DEF ExpiryInv

(* What has been copied before stays dark in time: only time shortens the   *)
(* life of the row.                                                        *)
LEMMA FadesKept ==
  ASSUME TypeOK, StepInv, ExpiryInv, [Next]_vars, ~Tick, NEW o \in ObjType, Fades(o, site)
  PROVE  Fades(o, site')
  <1>1. site'.preview = site.preview
    BY SiteTypes
  <1>2. site'.expires \in {site.expires, PreviewTTL}
    <2>1. ASSUME NEW q \in Requests, At(q, "commit"),
                 site' = [site EXCEPT !.current = req[q].dep, !.expires = Renewed(q)]
          PROVE  site'.expires \in {site.expires, PreviewTTL}
      BY <2>1, CommitExpiry
    <2>2. QED
      BY <2>1, SiteMoves DEF SiteMove, TypeOK
  <1>3. PreviewTTL \in Nat \ {0} /\ PreviewTTL # Null
    BY Constants
  <1>4. o.expires # Null => o.expires <= PreviewTTL
    BY <1>3 DEF ObjType, Expiries
  <1>5. QED
    BY <1>1, <1>2, <1>3, <1>4 DEF Fades

LEMMA FadesAged ==
  ASSUME TypeOK, StepInv, Tick, NEW o \in ObjType, Fades(o, site)
  PROVE  Fades(AgedObj(o), site')
  <1>1. site'.preview = site.preview /\ site'.expires = Sooner(site.expires)
    BY DEF Tick, TypeOK
  <1>2. AgedObj(o).current = o.current /\ AgedObj(o).expires = Sooner(o.expires)
    BY ObjTypes
  <1>3. site.expires \in Expiries /\ o.expires \in Expiries
    BY DEF TypeOK, ObjType
  <1>4. \A t \in Expiries : Sooner(t) = Null <=> t = Null
    BY SoonerType
  <1>5. \A s, t \in Expiries : s # Null /\ t # Null /\ s <= t => Sooner(s) <= Sooner(t)
    BY Constants DEF Sooner, Expiries
  <1>6. QED
    BY <1>1, <1>2, <1>3, <1>4, <1>5 DEF Fades

LEMMA CopyStep ==
  ASSUME TypeOK, StepInv, ExpiryInv, CopyInv, [Next]_vars
  PROVE  CopyInv'
  <1>1. ASSUME NEW p \in Processes, cache'[p].ttl > 0 PROVE Fades(cache'[p].obj, site')
    <2>0. /\ cache[p].ttl > 0 => cache[p].obj \in ObjType /\ Fades(cache[p].obj, site)
          /\ loader[p] # Null => loader[p] \in ObjType /\ Fades(loader[p], site)
          /\ cache[p].ttl \in Nat
      BY DEF TypeOK, CopyInv
    <2>1. cache'[p] # NoEntry
      <3>1. NoEntry.ttl = 0
        BY DEF NoEntry
      <3>2. QED
        BY <1>1, <3>1
    <2>2. ASSUME Tick PROVE Fades(cache'[p].obj, site')
      <3>1. cache[p].ttl > 1 /\ cache'[p].obj = AgedObj(cache[p].obj)
        BY <2>2, <2>1, TickEffect
      <3>2. cache[p].ttl > 0
        BY <2>0, <3>1
      <3>3. QED
        BY <2>0, <2>2, <3>1, <3>2, FadesAged
    <2>3. ASSUME cache'[p] = cache[p], ~Tick PROVE Fades(cache'[p].obj, site')
      BY <1>1, <2>0, <2>3, FadesKept
    <2>4. ASSUME loader[p] # Null, cache'[p] = [ttl |-> CacheTTL, obj |-> loader[p]], ~Tick
          PROVE  Fades(cache'[p].obj, site')
      BY <2>0, <2>4, FadesKept
    <2>5. QED
      BY <2>2, <2>3, <2>1, <2>4, CopyMoves DEF CacheMove
  <1>2. ASSUME NEW p \in Processes, loader'[p] # Null PROVE Fades(loader'[p], site')
    <2>0. loader[p] # Null => loader[p] \in ObjType /\ Fades(loader[p], site)
      BY DEF TypeOK, CopyInv
    <2>1. ASSUME Tick PROVE Fades(loader'[p], site')
      <3>1. loader[p] # Null /\ loader'[p] = AgedObj(loader[p])
        BY <1>2, <2>1, TickEffect
      <3>2. QED
        BY <2>0, <2>1, <3>1, FadesAged
    <2>2. ASSUME loader'[p] = loader[p], ~Tick PROVE Fades(loader'[p], site')
      BY <1>2, <2>0, <2>2, FadesKept
    <2>3. ASSUME loader'[p] = Snapshot, site' = site PROVE Fades(loader'[p], site')
      BY <2>3, Constants DEF Snapshot, Fades, ExpiryInv, TypeOK, Expiries
    <2>4. QED
      BY <1>2, <2>1, <2>2, <2>3, CopyMoves DEF LoaderMove
  <1>3. QED
    BY <1>1, <1>2 DEF CopyInv

LEMMA DarkCopies ==
  ASSUME TypeOK, ExpiryInv, CopyInv
  PROVE  ExpiredIsDark
  <1> SUFFICES ASSUME NEW p \in Processes, site.exists, site.expires = 0
               PROVE  Serves(p) = Null
    BY DEF ExpiredIsDark, Expired
  <1>1. site.expires # Null /\ site.preview
    BY Constants DEF ExpiryInv
  <1>2. CASE cache[p].ttl > 0
    <2>1. Seen(p) = cache[p].obj /\ cache[p].obj \in ObjType /\ Fades(cache[p].obj, site)
      BY <1>2 DEF Seen, TypeOK, CopyInv
    <2>2. cache[p].obj.current = Null
            \/ (cache[p].obj.expires # Null /\ cache[p].obj.expires <= 0)
      BY <1>1, <2>1 DEF Fades
    <2>3. cache[p].obj.current = Null \/ cache[p].obj.expires = 0
      BY <2>1, <2>2, Constants DEF ObjType, Expiries
    <2>4. QED
      BY <2>1, <2>3 DEF Serves
  <1>3. CASE ~(cache[p].ttl > 0)
    <2>1. Seen(p) = Snapshot /\ Snapshot.expires = 0
      BY <1>3 DEF Seen, Snapshot
    <2>2. QED
      BY <2>1 DEF Serves
  <1>4. QED
    BY <1>2, <1>3

(* No process answers from an expired preview, whatever it has cached       *)
(* (is_preview_expired in serve_view, after _load_app).                    *)
THEOREM ExpiredNotServed == Spec => []ExpiredIsDark
  <1>1. Init => ExpiryInv /\ CopyInv
    BY DEF Init, ExpiryInv, CopyInv, NoRow, IdleReq, NoEntry, Restorable
  <1>2. TypeOK /\ StepInv /\ (ExpiryInv /\ CopyInv) /\ [Next]_vars => (ExpiryInv /\ CopyInv)'
    BY ExpiryStep, CopyStep
  <1>3. TypeOK /\ ExpiryInv /\ CopyInv => ExpiredIsDark
    BY DarkCopies
  <1>4. QED
    BY <1>1, <1>2, <1>3, DeploymentsTypes, PTL DEF Spec

-----------------------------------------------------------------------------
(* The container: types, the meaning of exit status 0, and that nothing is  *)
(* cut short by fewer than two reasons to stop.                            *)

Box == INSTANCE Container

(* Every reachable state of the entrypoint is well typed. *)
THEOREM ContainerTypes == Box!Spec => []Box!TypeOK
<1>1. Box!Init => Box!TypeOK
  <2> SUFFICES ASSUME Box!Init PROVE Box!TypeOK OBVIOUS
  <2>1. signals \in 0 .. MaxSignals /\ starts \in 1 .. MaxStarts + 1
    BY ContainerAssumption DEF Box!Init
  <2>2. /\ proc \in [Box!Procs -> {"none", "running", "stopping", "done", "killed"}]
        /\ ended \in [Box!Procs -> Box!Codes]
    BY DEF Box!Init, Box!Codes
  <2> QED BY <2>1, <2>2 DEF Box!Init, Box!TypeOK, Box!Codes, Box!Scripts
<1>2. Box!TypeOK /\ [Box!Next]_Box!vars => Box!TypeOK'
  <2> SUFFICES ASSUME Box!TypeOK, [Box!Next]_Box!vars PROVE Box!TypeOK' OBVIOUS
  <2> USE DEF Box!TypeOK, Box!Codes, Box!Scripts, Box!Supervised
  <2>0. ASSUME NEW code \in Box!Codes, Box!ExitWith(code)
        PROVE  /\ script' \in Box!Scripts /\ exitCode' \in Box!Codes
               /\ proc' \in [Box!Procs -> {"none", "running", "stopping", "done",
                                       "killed"}]
    BY <2>0 DEF Box!ExitWith
  <2>s. Box!StopChildren \in [Box!Procs -> {"none", "running", "stopping", "done",
                                    "killed"}]
    BY DEF Box!StopChildren
  <2>1. CASE UNCHANGED Box!vars
    BY <2>1 DEF Box!vars
  <2>2. CASE Box!Prepare
    BY <2>0, <2>2 DEF Box!Prepare
  <2>3. CASE Box!Launch
    <3>1. proc' = proc \/ \E p \in Box!Procs : proc' = [proc EXCEPT ![p] = "running"]
      BY <2>3 DEF Box!Launch, Box!Procs
    <3>2. script' \in Box!Scripts
      BY <2>3 DEF Box!Launch
    <3> QED BY <2>3, <3>1, <3>2 DEF Box!Launch
  <2>4. CASE Box!Spawn
    BY <2>4 DEF Box!Spawn, Box!Procs
  <2>5. CASE Box!SetTraps \/ Box!EnterWait \/ Box!WaitAll
    BY <2>5 DEF Box!SetTraps, Box!EnterWait, Box!WaitAll
  <2>6. CASE Box!WaitFirst
    BY <2>6 DEF Box!WaitFirst, Box!Children, Box!Procs
  <2>7. CASE Box!StopRest
    BY <2>s, <2>7 DEF Box!StopRest
  <2>8. CASE Box!Leave
    <3>1. Box!Verdict \in Box!Codes
      BY DEF Box!Verdict
    <3> QED BY <2>0, <2>8, <3>1 DEF Box!Leave
  <2>9. ASSUME NEW p \in Box!Procs, Box!Crash(p) \/ Box!Finish(p) PROVE Box!TypeOK'
    <3>1. Box!End(p)
      BY <2>9 DEF Box!Crash, Box!Finish
    <3>2. proc' \in [Box!Procs -> {"none", "running", "stopping", "done", "killed"}]
      BY <3>1 DEF Box!End
    <3>3. /\ ended' \in [Box!Procs -> Box!Codes] /\ script' \in Box!Scripts
          /\ exitCode' \in Box!Codes
      BY <3>1 DEF Box!End
    <3>4. crashed' \subseteq Box!Procs
      BY <3>1 DEF Box!End
    <3> QED BY <3>1, <3>2, <3>3, <3>4 DEF Box!End
  <2>10. CASE Box!Signal
    <3>1. Box!Interrupted \in Box!Scripts
      BY DEF Box!Interrupted
    <3>2. signals' \in 0 .. MaxSignals
      BY <2>10, ContainerAssumption DEF Box!Signal
    <3>3. stopSignal' \in BOOLEAN
      BY <2>10 DEF Box!Signal, Box!Trapped
    <3>4. proc' \in [Box!Procs -> {"none", "running", "stopping", "done", "killed"}]
      BY <2>s, <2>10 DEF Box!Signal
    <3> QED BY <2>10, <3>1, <3>2, <3>3, <3>4 DEF Box!Signal
  <2>11. CASE Box!Kill
    BY <2>0, <2>11 DEF Box!Kill
  <2>12. CASE Box!Restart
    <3>1. starts' \in 1 .. MaxStarts + 1
      BY <2>12, ContainerAssumption DEF Box!Restart
    <3>2. proc' \in [Box!Procs -> {"none", "running", "stopping", "done", "killed"}]
          /\ ended' \in [Box!Procs -> Box!Codes]
      BY <2>12 DEF Box!Restart
    <3> QED BY <2>12, <3>1, <3>2 DEF Box!Restart
  <2> QED BY <2>1, <2>2, <2>3, <2>4, <2>5, <2>6, <2>7, <2>8, <2>9, <2>10,
             <2>11, <2>12 DEF Box!Next, Box!Step
<1> QED BY <1>1, <1>2, PTL DEF Box!Spec

-----------------------------------------------------------------------------
(* The inductive invariant. *)

(* A stop was asked for, or something ended by itself. *)
Reason == signals >= 1 \/ crashed # {}

(* A second reason came after the first. *)
TwoReasons == signals >= 2 \/ (signals >= 1 /\ crashed # {})

(* Why a process may be stopping or gone, and why PID 1 may leave.          *)
Supervision ==
  /\ stopSignal => signals >= 1
  /\ script = "replaced" => ~(env.mode = "web" /\ Box!Schedules)
  /\ script = "prepare" => \A p \in Box!Procs : ~Box!Alive(p)
  /\ script \in {"prepare", "launch"} \cup Box!Supervised => ~Box!Alive("command")
  /\ (\E p \in Box!Procs : proc[p] \in {"stopping", "done"}) => Reason
  /\ script \in {"stopRest", "waitAll", "leave"} => Reason
  /\ script = "leave" /\ (\E p \in Box!Procs : Box!Alive(p)) => TwoReasons

(* Steps that start or await processes give no new reason.                  *)
LEMMA ScriptSteps ==
  ASSUME Box!TypeOK, Supervision, Box!CleanExit, Box!InFlightFinishes,
         Box!Prepare \/ Box!Launch \/ Box!Spawn \/ Box!SetTraps \/ Box!EnterWait
  PROVE  Supervision' /\ Box!CleanExit' /\ Box!InFlightFinishes'
<1> USE DEF Supervision, Reason, TwoReasons, Box!Alive, Box!Schedules, Box!BrokerConfigured,
            Box!Supervised
<1>t. proc \in [Box!Procs -> {"none", "running", "stopping", "done", "killed"}]
  BY DEF Box!TypeOK
<1>1. CASE Box!Prepare
  <2>1. proc' = proc
    <3>1. CASE Box!ExitWith("error")
      BY <1>1, <1>t, <3>1 DEF Box!Prepare, Box!ExitWith
    <3>2. CASE ~Box!ExitWith("error")
      BY <1>1, <3>2 DEF Box!Prepare
    <3> QED BY <3>1, <3>2
  <2>2. script' = "launch" \/ (script' = "exited" /\ exitCode' = "error")
    BY <1>1 DEF Box!Prepare, Box!ExitWith
  <2>3. UNCHANGED <<env, stopSignal, signals, crashed, grace>>
    BY <1>1 DEF Box!Prepare
  <2>4. script = "prepare"
    BY <1>1 DEF Box!Prepare
  <2>5. Supervision'
    BY <2>1, <2>2, <2>3, <2>4
  <2>6. Box!CleanExit'
    BY <2>2 DEF Box!CleanExit
  <2>7. Box!InFlightFinishes'
    BY <2>1, <2>3 DEF Box!InFlightFinishes
  <2> QED BY <2>5, <2>6, <2>7
<1>2. CASE Box!Launch
  <2>1. UNCHANGED <<env, stopSignal, signals, crashed, grace>>
    BY <1>2 DEF Box!Launch
  <2>2. \/ script' = "spawnGunicorn" /\ proc' = proc
        \/ /\ script' = "replaced" /\ ~(env.mode = "web" /\ Box!Schedules)
           /\ \E q \in Box!Procs : proc' = [proc EXCEPT ![q] = "running"]
    BY <1>2 DEF Box!Launch, Box!Procs
  <2>3. \A p \in Box!Procs : proc'[p] \in {"stopping", "done", "killed"} =>
                           proc'[p] = proc[p]
    BY <1>t, <2>2
  <2>4. Supervision'
    BY <1>2, <2>1, <2>2, <2>3 DEF Box!Launch, Box!Procs
  <2>5. Box!CleanExit'
    BY <2>2 DEF Box!CleanExit
  <2>6. Box!InFlightFinishes'
    BY <2>1, <2>3 DEF Box!InFlightFinishes
  <2> QED BY <2>4, <2>5, <2>6
<1>3. CASE Box!Spawn
  <2>1. UNCHANGED <<env, stopSignal, signals, crashed, grace>>
    BY <1>3 DEF Box!Spawn
  <2>2. /\ script \in {"spawnGunicorn", "spawnCelery"}
        /\ script' \in {"spawnCelery", "setTraps"}
        /\ \E q \in Box!Children : proc' = [proc EXCEPT ![q] = "running"]
    BY <1>3 DEF Box!Spawn, Box!Children
  <2>3. \A p \in Box!Procs : proc'[p] \in {"stopping", "done", "killed"} =>
                           proc'[p] = proc[p]
    BY <1>t, <2>2
  <2>4. proc'["command"] = proc["command"]
    BY <1>t, <2>2 DEF Box!Children, Box!Procs
  <2>5. Supervision'
    BY <2>1, <2>2, <2>3, <2>4
  <2>6. Box!CleanExit'
    BY <2>2 DEF Box!CleanExit
  <2>7. Box!InFlightFinishes'
    BY <2>1, <2>3 DEF Box!InFlightFinishes
  <2> QED BY <2>5, <2>6, <2>7
<1>4. CASE Box!SetTraps \/ Box!EnterWait
  <2>1. UNCHANGED <<env, proc, stopSignal, signals, crashed, grace>>
    BY <1>4 DEF Box!SetTraps, Box!EnterWait
  <2>2. /\ script \in {"setTraps", "enterWait"}
        /\ script' \in {"enterWait", "waitFirst"}
    BY <1>4 DEF Box!SetTraps, Box!EnterWait
  <2>3. Supervision'
    BY <2>1, <2>2
  <2>4. Box!CleanExit' /\ Box!InFlightFinishes'
    BY <2>1, <2>2 DEF Box!CleanExit, Box!InFlightFinishes
  <2> QED BY <2>3, <2>4
<1> QED BY <1>1, <1>2, <1>3, <1>4

(* The waits: one returns because a child ended, and what it leads to       *)
(* happens for that reason.                                                 *)
LEMMA WaitSteps ==
  ASSUME Box!TypeOK, Supervision, Box!CleanExit, Box!InFlightFinishes,
         Box!WaitFirst \/ Box!StopRest \/ Box!WaitAll \/ Box!Leave
  PROVE  Supervision' /\ Box!CleanExit' /\ Box!InFlightFinishes'
<1> USE DEF Supervision, Reason, TwoReasons, Box!Alive, Box!Schedules, Box!BrokerConfigured,
            Box!Supervised
<1>t. /\ proc \in [Box!Procs -> {"none", "running", "stopping", "done", "killed"}]
      /\ signals \in Nat
  BY ContainerAssumption DEF Box!TypeOK
<1>c. Box!Children \subseteq Box!Procs /\ Box!Procs = Box!Children \cup {"command"}
  BY DEF Box!Children, Box!Procs
<1>1. CASE Box!WaitFirst
  <2>1. UNCHANGED <<env, proc, stopSignal, signals, crashed, grace>>
    BY <1>1 DEF Box!WaitFirst
  <2>2. script = "waitFirst" /\ script' = "stopRest"
    BY <1>1 DEF Box!WaitFirst
  <2>3. Reason
    BY <1>1, <1>c DEF Box!WaitFirst
  <2>4. Supervision'
    BY <2>1, <2>2, <2>3
  <2>5. Box!CleanExit' /\ Box!InFlightFinishes'
    BY <2>1, <2>2 DEF Box!CleanExit, Box!InFlightFinishes
  <2> QED BY <2>4, <2>5
<1>2. CASE Box!StopRest
  <2>1. UNCHANGED <<env, stopSignal, signals, crashed, grace>>
    BY <1>2 DEF Box!StopRest
  <2>2. script = "stopRest" /\ script' = "waitAll" /\ proc' = Box!StopChildren
    BY <1>2 DEF Box!StopRest
  <2>3. \A p \in Box!Procs : /\ Box!Alive(p)' <=> Box!Alive(p)
                             /\ proc'[p] = "killed" => proc[p] = "killed"
    BY <1>t, <2>2 DEF Box!StopChildren
  <2>4. Supervision'
    BY <2>1, <2>2, <2>3, <1>c
  <2>5. Box!CleanExit' /\ Box!InFlightFinishes'
    BY <2>1, <2>2, <2>3 DEF Box!CleanExit, Box!InFlightFinishes
  <2> QED BY <2>4, <2>5
<1>3. CASE Box!WaitAll
  <2>1. UNCHANGED <<env, proc, stopSignal, signals, crashed, grace>>
    BY <1>3 DEF Box!WaitAll
  <2>2. script = "waitAll" /\ script' = "leave"
    BY <1>3 DEF Box!WaitAll
  <2>3. \A p \in Box!Procs : ~Box!Alive(p)
    BY <1>3, <1>c, <2>2 DEF Box!WaitAll, Box!AllDone
  <2>4. Supervision'
    BY <2>1, <2>2, <2>3
  <2>5. Box!CleanExit' /\ Box!InFlightFinishes'
    BY <2>1, <2>2 DEF Box!CleanExit, Box!InFlightFinishes
  <2> QED BY <2>4, <2>5
<1>4. CASE Box!Leave
  <2>1. UNCHANGED <<env, stopSignal, signals, crashed, grace>>
    BY <1>4 DEF Box!Leave
  <2>2. script = "leave" /\ script' = "exited" /\ exitCode' = Box!Verdict
    BY <1>4 DEF Box!Leave, Box!ExitWith
  <2>3. \A p \in Box!Procs : proc'[p] = IF Box!Alive(p) THEN "killed" ELSE proc[p]
    BY <1>4 DEF Box!Leave, Box!ExitWith
  <2>4. Supervision'
    BY <2>1, <2>2, <2>3
  <2>5. Box!CleanExit'
    <3>1. Box!Verdict = "ok" => stopSignal
      BY DEF Box!Verdict
    <3>2. stopSignal => signals > 0
      BY <1>t
    <3>3. exitCode' = "ok" => stopSignal' /\ signals' > 0
      BY <2>1, <2>2, <3>1, <3>2
    <3> QED BY <3>3 DEF Box!CleanExit
  <2>6. Box!InFlightFinishes'
    BY <1>t, <2>1, <2>2, <2>3 DEF Box!InFlightFinishes
  <2> QED BY <2>4, <2>5, <2>6
<1> QED BY <1>1, <1>2, <1>3, <1>4

(* A process that ends is a reason of its own, or was told to stop for one. *)
LEMMA ProcessSteps ==
  ASSUME Box!TypeOK, Supervision, Box!CleanExit, Box!InFlightFinishes,
         NEW q \in Box!Procs, Box!End(q)
  PROVE  Supervision' /\ Box!CleanExit' /\ Box!InFlightFinishes'
<1> USE DEF Supervision, Reason, TwoReasons, Box!Alive, Box!Schedules, Box!BrokerConfigured,
            Box!Supervised
<1>t. /\ proc \in [Box!Procs -> {"none", "running", "stopping", "done", "killed"}]
      /\ signals \in Nat /\ "command" \in Box!Procs
  BY ContainerAssumption DEF Box!TypeOK, Box!Procs
<1>1. UNCHANGED <<env, stopSignal, signals, grace>>
  BY DEF Box!End
<1>2. /\ Box!Alive(q) /\ proc' = [proc EXCEPT ![q] = "done"]
      /\ crashed' = IF proc[q] = "running" THEN crashed \cup {q} ELSE crashed
  BY DEF Box!End
<1>3. \/ script = "replaced" /\ script' = "exited"
      \/ script # "replaced" /\ script' = script /\ exitCode' = exitCode
  BY DEF Box!End
<1>4. crashed \subseteq crashed' /\ Reason'
  <2>1. CASE proc[q] = "running"
    <3>1. q \in crashed' /\ crashed \subseteq crashed'
      BY <1>2, <2>1
    <3>2. crashed' # {}
      BY <3>1
    <3> QED BY <3>1, <3>2
  <2>2. CASE proc[q] # "running"
    <3>1. proc[q] = "stopping" /\ crashed' = crashed
      BY <1>2, <2>2
    <3> QED BY <1>1, <3>1
  <2> QED BY <2>1, <2>2
<1>5. \A p \in Box!Procs : /\ Box!Alive(p)' => Box!Alive(p)
                           /\ proc'[p] = "killed" => proc[p] = "killed"
  BY <1>t, <1>2
<1>6. TwoReasons => TwoReasons'
  BY <1>1, <1>4
<1>7. Supervision'
  BY <1>t, <1>1, <1>2, <1>3, <1>4, <1>5, <1>6
<1>8. Box!CleanExit'
  BY <1>1, <1>3 DEF Box!CleanExit
<1>9. Box!InFlightFinishes'
  BY <1>1, <1>4, <1>5 DEF Box!InFlightFinishes
<1> QED BY <1>7, <1>8, <1>9

(* Signals, docker's SIGKILL and its restarts.                              *)
LEMMA StopSteps ==
  ASSUME Box!TypeOK, Supervision, Box!CleanExit, Box!InFlightFinishes,
         Box!Signal \/ Box!Kill \/ Box!Restart
  PROVE  Supervision' /\ Box!CleanExit' /\ Box!InFlightFinishes'
<1> USE DEF Supervision, Reason, TwoReasons, Box!Alive, Box!Schedules, Box!BrokerConfigured,
            Box!Supervised
<1>t. /\ proc \in [Box!Procs -> {"none", "running", "stopping", "done", "killed"}]
      /\ signals \in Nat /\ "command" \in Box!Procs
  BY ContainerAssumption DEF Box!TypeOK, Box!Procs
<1>1. CASE Box!Signal
  <2>1. UNCHANGED <<env, exitCode, crashed, grace>> /\ signals' = signals + 1
    BY <1>1 DEF Box!Signal
  <2>2. script # "exited" /\ script' = Box!Interrupted
    BY <1>1 DEF Box!Signal
  <2>3. \A p \in Box!Procs : /\ Box!Alive(p)' <=> Box!Alive(p)
                             /\ proc'[p] = "killed" => proc[p] = "killed"
    BY <1>t, <1>1 DEF Box!Signal, Box!StopChildren
  <2>4. /\ script' = "leave" => script \in {"waitAll", "leave"}
        /\ script' = "prepare" => script = "prepare"
        /\ script' = "replaced" => script = "replaced"
        /\ script' \in {"prepare", "launch"} \cup Box!Supervised =>
             script \in {"prepare", "launch"} \cup Box!Supervised
        /\ script' # "exited"
    BY <2>2 DEF Box!Interrupted
  <2>5. signals' >= 1 /\ (Reason => TwoReasons')
    BY <1>t, <2>1
  <2>6. Supervision'
    BY <1>t, <2>1, <2>3, <2>4, <2>5
  <2>7. Box!CleanExit'
    BY <2>4 DEF Box!CleanExit
  <2>8. Box!InFlightFinishes'
    BY <1>t, <2>1, <2>3 DEF Box!InFlightFinishes
  <2> QED BY <2>6, <2>7, <2>8
<1>2. CASE Box!Kill
  <2>1. UNCHANGED <<env, stopSignal, signals, crashed>> /\ signals > 0
    BY <1>2 DEF Box!Kill
  <2>2. script' = "exited" /\ exitCode' = "error" /\ grace' = TRUE
    BY <1>2 DEF Box!Kill, Box!ExitWith
  <2>3. Supervision'
    BY <1>t, <2>1, <2>2
  <2>4. Box!CleanExit' /\ Box!InFlightFinishes'
    BY <2>2 DEF Box!CleanExit, Box!InFlightFinishes
  <2> QED BY <2>3, <2>4
<1>3. CASE Box!Restart
  <2>1. /\ script' = "prepare" /\ stopSignal' = FALSE
        /\ \A p \in Box!Procs : proc'[p] = "none"
    BY <1>3 DEF Box!Restart
  <2>2. Supervision'
    BY <1>t, <2>1
  <2>3. Box!CleanExit' /\ Box!InFlightFinishes'
    BY <2>1 DEF Box!CleanExit, Box!InFlightFinishes
  <2> QED BY <2>2, <2>3
<1> QED BY <1>1, <1>2, <1>3

(* The inductive invariant of supervise: nothing is told to stop, and PID 1 *)
(* does not leave, without the reasons that CleanExit and InFlightFinishes  *)
(* are about.                                                               *)
THEOREM SupervisionCorrect ==
  Box!Spec => [](Supervision /\ Box!CleanExit /\ Box!InFlightFinishes)
<1>1. Box!Init => Supervision /\ Box!CleanExit /\ Box!InFlightFinishes
  BY DEF Box!Init, Supervision, Reason, TwoReasons, Box!Alive, Box!CleanExit,
         Box!InFlightFinishes, Box!Supervised, Box!Procs
<1>2. Box!TypeOK /\ (Supervision /\ Box!CleanExit /\ Box!InFlightFinishes)
      /\ [Box!Next]_Box!vars
        => (Supervision /\ Box!CleanExit /\ Box!InFlightFinishes)'
  <2> SUFFICES ASSUME Box!TypeOK, Supervision, Box!CleanExit, Box!InFlightFinishes,
                      [Box!Next]_Box!vars
               PROVE  Supervision' /\ Box!CleanExit' /\ Box!InFlightFinishes'
    OBVIOUS
  <2>1. CASE UNCHANGED Box!vars
    <3>1. Supervision'
      BY <2>1 DEF Box!vars, Supervision, Reason, TwoReasons, Box!Alive, Box!Schedules,
                  Box!BrokerConfigured
    <3>2. Box!CleanExit' /\ Box!InFlightFinishes'
      BY <2>1
         DEF Box!vars, Box!CleanExit, Box!InFlightFinishes, Box!Schedules, Box!BrokerConfigured
    <3> QED BY <3>1, <3>2
  <2>2. CASE Box!Step
    BY <2>2, ScriptSteps, WaitSteps DEF Box!Step
  <2>3. CASE Box!Signal \/ Box!Kill \/ Box!Restart
    BY <2>3, StopSteps
  <2>4. ASSUME NEW p \in Box!Procs, Box!Crash(p) \/ Box!Finish(p)
        PROVE  Supervision' /\ Box!CleanExit' /\ Box!InFlightFinishes'
    BY <2>4, ProcessSteps DEF Box!Crash, Box!Finish
  <2> QED BY <2>1, <2>2, <2>3, <2>4 DEF Box!Next
<1> QED BY <1>1, <1>2, ContainerTypes, PTL DEF Box!Spec

(* Status 0 of the supervised container means a stop that was asked for     *)
(* (the end of supervise), under any interleaving of signals and exits.     *)
THEOREM ExitCorrect == Box!Spec => []CleanExit
<1>1. Box!CleanExit => CleanExit
  BY DEF Box!CleanExit, Box!Schedules, Box!BrokerConfigured,
         CleanExit, Schedules, BrokerConfigured
<1> QED BY <1>1, SupervisionCorrect, PTL

(* A child is cut short only by SIGKILL or by a second reason to stop that  *)
(* came while the script waited because of the first (wait in supervise).   *)
THEOREM FinishCorrect == Box!Spec => []InFlightFinishes
<1>1. Box!InFlightFinishes => InFlightFinishes
  BY DEF Box!InFlightFinishes, Box!Procs, InFlightFinishes, Procs
<1> QED BY <1>1, SupervisionCorrect, PTL
=============================================================================
