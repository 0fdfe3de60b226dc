---------------------------- MODULE Deployments ----------------------------
(***************************************************************************)
(* One hosted app of apps/hosting: its Deployment rows, the artifacts and  *)
(* extracted trees in storage, the serve caches of the web processes and   *)
(* the app's origin on the login allowlist of identity-service.  A request *)
(* loads a Deployment row once and decides on that copy; nothing locks the *)
(* row before the transaction that changes it.  Every action below is a    *)
(* query, a storage operation, a call to identity-service or a commit.     *)
(***************************************************************************)
EXTENDS Naturals, FiniteSets

CONSTANTS
  Deployments,     \* ids (uuid4) a deployment may get
  Requests,        \* request threads
  Processes,       \* web worker processes, each with a serve cache
  ProcessOf,       \* the process each request thread belongs to
  Archives,        \* kinds of uploaded archives, a subset of AllArchives
  MaxDeployments,  \* HOSTING_MAX_DEPLOYMENTS_PER_APP
  CacheTTL,        \* HOSTING_SERVE_CACHE_TTL_SECONDS, in ticks
  PreviewTTL,      \* HOSTING_PREVIEW_TTL_DAYS, in ticks
  MayCrash,        \* worker processes may die
  Exclusive,       \* TRUE: clients never share a deployment, as the CLI does
  Null             \* SQL NULL, and "nothing"

(* A site with an index page; a file that is no tar archive, which extracts *)
(* to nothing; one over an extraction limit; a truncated one, whose reading *)
(* raises something else than ExtractError; one of zero bytes.             *)
AllArchives == {"site", "junk", "oversized", "broken", "empty"}

ASSUME HostingAssumption ==
  /\ ProcessOf \in [Requests -> Processes]
  /\ Archives \subseteq AllArchives
  /\ MaxDeployments \in Nat \ {0}
  /\ CacheTTL \in Nat \ {0} /\ PreviewTTL \in Nat \ {0}
  /\ Exclusive \in BOOLEAN /\ MayCrash \in BOOLEAN
  /\ Null \notin Deployments \cup AllArchives \cup Nat

VARIABLES
  site,     \* the App row; expires counts down the ticks to expires_at
  row,      \* row[d]: the Deployment row; sized is artifact_size > 0
  store,    \* store[d]: what storage holds under d's prefix
  req,      \* req[q]: what request thread q is doing
  cache,    \* cache[p]: process p's entry for the slug, and its ticks to live
  loader,   \* loader[p]: a row p has read and not yet cached
  allowed,  \* identity-service lets the site's origin log in
  wiped     \* observer: the deployments whose files a delete has removed

vars == <<site, row, store, req, cache, loader, allowed, wiped>>

-----------------------------------------------------------------------------
Statuses   == {"draft", "uploading", "ready", "active", "superseded", "failed"}
UploadableAgain == {"draft", "uploading", "failed", "active"}  \* mutant
Uploadable == {"draft", "uploading", "failed"}
FinalizableAgain == {"draft", "uploading", "ready", "active"}  \* mutant
Finalizable == {"draft", "uploading", "ready"}
Restorable  == {"ready", "active", "superseded"}
Servable    == {"active", "ready", "superseded"}

RowType   == [status : Statuses \cup {"none"}, sized : BOOLEAN]
NoRow     == [status |-> "none", sized |-> FALSE]
DraftNew  == [status |-> "new", sized |-> FALSE]         \* mutant: unknown status
Draft     == [status |-> "draft", sized |-> FALSE]
Exists(d) == row[d].status # "none"
Existing  == {d \in Deployments : Exists(d)}

Expiries  == 0 .. PreviewTTL \cup {Null}

(* What is under d's prefix: the archive, and whose files its extracted     *)
(* tree holds: its own, and old ones of an earlier archive or extraction.  *)
Origins   == {"own", "old"}
StoreType == [artifact : Archives \cup {Null}, files : SUBSET Origins]
NoFiles   == [artifact |-> Null, files |-> {}]
Older(F)  == IF F = {} THEN {} ELSE {"old"}

(* The App row with its current deployment, as _load_app reads it. *)
ObjType  == [current : Deployments \cup {Null},
             status  : Statuses \cup {"none"}, expires : Expiries]
Snapshot == [current |-> site.current,
             status  |-> IF site.current = Null THEN "none"
                         ELSE row[site.current].status,
             expires |-> site.expires]
NoEntry  == [ttl |-> 0, obj |-> Null]

(* A request: its operation's next step, the deployment it loaded, the      *)
(* archive it handles, the rows a query returned.                          *)
ReqType == [pc   : {"idle", "insert", "store", "save", "clear", "extract",
                    "prepare", "commit", "fail", "sync", "wipe", "collect",
                    "unsync", "drop"},
            op   : {"none", "create", "upload", "finalize", "rollback", "delete",
                    "register"},
            dep  : Deployments \cup {Null},
            kind : AllArchives \cup {Null, "stripped"},
            rows : SUBSET Deployments]
IdleReq == [pc |-> "idle", op |-> "none", dep |-> Null, kind |-> Null, rows |-> {}]

TypeOK ==
  /\ site \in [exists : BOOLEAN, preview : BOOLEAN,
               current : Deployments \cup {Null}, expires : Expiries]
  /\ row \in [Deployments -> RowType]
  /\ store \in [Deployments -> StoreType]
  /\ req \in [Requests -> ReqType]
  /\ \A q \in Requests : req[q].op \notin {"none", "delete", "register"} <=>
                           req[q].dep # Null
  /\ cache \in [Processes -> [ttl : 0 .. CacheTTL, obj : ObjType \cup {Null}]]
  /\ \A p \in Processes : cache[p].ttl > 0 => cache[p].obj \in ObjType
  /\ loader \in [Processes -> ObjType \cup {Null}]
  /\ allowed \in BOOLEAN /\ wiped \subseteq Deployments

Init ==
  /\ \E b \in BOOLEAN :
       site = [exists |-> TRUE, preview |-> b, current |-> Null, expires |-> Null]
  /\ row = [d \in Deployments |-> NoRow]
  /\ store = [d \in Deployments |-> NoFiles]
  /\ req = [q \in Requests |-> IdleReq]
  /\ cache = [p \in Processes |-> NoEntry]
  /\ loader = [p \in Processes |-> Null]
  /\ allowed \in BOOLEAN
  /\ wiped = {}

-----------------------------------------------------------------------------
(* Requests: how they begin, go on and end.                                *)

Expired == site.expires = 0

Unshared(d) == Exclusive => \A x \in Requests : req[x].dep # d

(* A view loads the app and row d, and the service's checks pass. *)
Start(q, op, d, pc) ==
  /\ req[q].pc = "idle"
  /\ site.exists
  /\ req' = [req EXCEPT ![q] = [IdleReq EXCEPT !.pc = pc, !.op = op, !.dep = d]]

At(q, pc)  == req[q].pc = pc
GoTo(q, pc) == req' = [req EXCEPT ![q].pc = pc, ![q].kind = Null, ![q].rows = {}]
EndReq(q)  == req' = [req EXCEPT ![q] = IdleReq]

(* delete_app holds the app's row locks from its DELETEs to its commit. *)
Locked == \E q \in Requests : At(q, "drop")

-----------------------------------------------------------------------------
(* create_deployment: count, then insert.                                  *)

StartCreate(q, d) ==
  /\ Cardinality(Existing) < MaxDeployments
  /\ ~Exists(d) /\ \A x \in Requests : req[x].dep # d
  /\ Start(q, "create", d, "insert")
  /\ UNCHANGED <<site, row, store, cache, loader, allowed, wiped>>

(* The row's foreign key is checked against the app; prepare_preview_deploy *)
(* then registers the origin.                                              *)
Insert(q) ==
  /\ At(q, "insert") /\ ~Locked
  /\ row' = IF site.exists THEN [row EXCEPT ![req[q].dep] = Draft] ELSE row
  /\ IF site.exists /\ site.preview THEN GoTo(q, "sync") ELSE EndReq(q)
  /\ UNCHANGED <<site, store, cache, loader, allowed, wiped>>

-----------------------------------------------------------------------------
(* upload_deployment_artifact: store the archive, then save the row.       *)

StartUpload(q, d) ==
  /\ row[d].status \in Uploadable /\ Unshared(d)
  /\ Start(q, "upload", d, "store")
  /\ UNCHANGED <<site, row, store, cache, loader, allowed, wiped>>

Store(q) ==
  /\ At(q, "store")
  /\ \E a \in Archives :
       /\ store' = [store EXCEPT ![req[q].dep].artifact = a,
                                 ![req[q].dep].files = Older(@)]
       /\ req' = [req EXCEPT ![q].pc = "save", ![q].kind = a]
  /\ UNCHANGED <<site, row, cache, loader, allowed, wiped>>

(* The status the request loaded is not looked at again. *)
SaveUpload(q) ==
  LET d == req[q].dep IN
  /\ At(q, "save") /\ ~Locked
  /\ row' = IF Exists(d)
              THEN [row EXCEPT ![d] = [status |-> "uploading",
                                       sized  |-> req[q].kind # "empty"]]
              ELSE row
  /\ EndReq(q)
  /\ UNCHANGED <<site, store, cache, loader, allowed, wiped>>

-----------------------------------------------------------------------------
(* finalize_deployment and rollback_deployment.                            *)

StartFinalize(q, d) ==
  /\ row[d].status \in Finalizable /\ row[d].sized /\ Unshared(d)
  /\ Start(q, "finalize", d, "clear")
  /\ UNCHANGED <<site, row, store, cache, loader, allowed, wiped>>

(* What delete_extracted_prefix may leave of the files F: none or, since a  *)
(* storage error ends it silently and it looks for nested directories       *)
(* under the wrong name (S3), or raises half way (filesystem), some.       *)
Removed(F) == {{}, Older(F)}

(* Extraction first removes the extracted tree and reads the archive; when  *)
(* the filesystem's removal raises, the request is over.                   *)
Clear(q) ==
  LET d == req[q].dep IN
  /\ At(q, "clear")
  /\ IF store[d].artifact = Null
       THEN EndReq(q) /\ UNCHANGED store
       ELSE \E F \in Removed(store[d].files) :
              /\ store' = [store EXCEPT ![d].files = F]
              /\ \/ req' = [req EXCEPT ![q].pc = "extract",
                                       ![q].kind = store[d].artifact]
                 \/ F # {} /\ EndReq(q)
  /\ UNCHANGED <<site, row, cache, loader, allowed, wiped>>

(* The files F once archive a is extracted over them: what a truncated one  *)
(* held before the error stays, one over a limit is removed again.         *)
Extracted(F, a) ==
  CASE a = "site"      -> {F \cup {"own"}}
    [] a = "broken"    -> {F, F \cup {"own"}}
    [] a = "oversized" -> Removed(F \cup {"own"})
    [] OTHER           -> {F}

Extract(q) ==
  LET d == req[q].dep
      a == req[q].kind
  IN  /\ At(q, "extract")
      /\ \E F \in Extracted(store[d].files, a) :
           /\ store' = [store EXCEPT ![d].files = F]
           /\ CASE a = "broken"    -> EndReq(q)
                [] a = "oversized" -> GoTo(q, "fail") \/ (F # {} /\ EndReq(q))
                [] OTHER           -> GoTo(q, "prepare")
      /\ UNCHANGED <<site, row, cache, loader, allowed, wiped>>

(* _mark_deployment_failed, after the activation has rolled back. *)
MarkFailed(q) ==
  LET d == req[q].dep IN
  /\ At(q, "fail") /\ ~Locked
  /\ row' = IF Exists(d) THEN [row EXCEPT ![d].status = "failed"] ELSE row
  /\ EndReq(q)
  /\ UNCHANGED <<site, store, cache, loader, allowed, wiped>>

StartRollback(q, d) ==
  /\ row[d].status \in Restorable /\ row[d].sized /\ Unshared(d)
  /\ Start(q, "rollback", d, "prepare")
  /\ UNCHANGED <<site, row, store, cache, loader, allowed, wiped>>

OtherActive(d) == {x \in Deployments \ {d} : row[x].status = "active"}

(* Inside the transaction: the UPDATE finds the rows to supersede, and the  *)
(* process drops its cache entry.                                          *)
Prepare(q) ==
  /\ At(q, "prepare")
  /\ req' = [req EXCEPT ![q].pc = "commit", ![q].rows = OtherActive(req[q].dep)]
  /\ cache' = [cache EXCEPT ![ProcessOf[q]] = NoEntry]
  /\ UNCHANGED <<site, row, store, loader, allowed, wiped>>

(* The rows once d is active and those of S still active are superseded.   *)
Activated(d, S) ==
  [x \in Deployments |->
     IF x = d THEN [row[x] EXCEPT !.status = "active"]
     ELSE IF x \in S /\ row[x].status = "active"
       THEN [row[x] EXCEPT !.status = "superseded"] ELSE row[x]]

Renewed(q) == IF req[q].op = "finalize" /\ site.preview THEN PreviewTTL
                                                        ELSE site.expires

(* The commit of an activation; it fails when the row is gone. *)
Commit(q) ==
  LET d == req[q].dep IN
  /\ At(q, "commit") /\ ~Locked
  /\ IF Exists(d)
       THEN /\ row' = Activated(d, req[q].rows)
            /\ site' = [site EXCEPT !.current = d, !.expires = Renewed(q)]
            /\ IF req[q].op = "finalize" THEN GoTo(q, "sync") ELSE EndReq(q)
       ELSE UNCHANGED <<row, site>> /\ EndReq(q)
  /\ UNCHANGED <<store, cache, loader, allowed, wiped>>

(* upsert_hosting_oauth_redirect, best effort. *)
Sync(q) ==
  /\ At(q, "sync")
  /\ allowed' \in {allowed, TRUE}
  /\ EndReq(q)
  /\ UNCHANGED <<site, row, store, cache, loader, wiped>>

(* manage.py sync_oauth_redirects: the apps it listed are registered again, *)
(* whatever became of them meanwhile.                                      *)
StartRegister(q) ==
  /\ Start(q, "register", Null, "sync")
  /\ UNCHANGED <<site, row, store, cache, loader, allowed, wiped>>

-----------------------------------------------------------------------------
(* delete_app: files, then rows, then the origin, then the commit.         *)

StartDelete(q) ==
  /\ Start(q, "delete", Null, "wipe")
  /\ UNCHANGED <<site, row, store, cache, loader, allowed, wiped>>

(* delete_app_artifacts: errors are swallowed, so the archives of A and     *)
(* some of the trees of T stay; the filesystem's removal may also raise.   *)
Wipe(q) ==
  /\ At(q, "wipe")
  /\ \E A, T \in SUBSET Existing :
       /\ store' = [d \in Deployments |->
                      IF ~Exists(d) THEN store[d]
                      ELSE [artifact |-> IF d \in A THEN store[d].artifact ELSE Null,
                            files    |-> IF d \in T THEN Older(store[d].files) ELSE {}]]
       /\ GoTo(q, "collect") \/ (T # {} /\ EndReq(q))
  /\ wiped' = wiped \cup Existing
  /\ UNCHANGED <<site, row, cache, loader, allowed>>

(* app.delete() reads the rows that cascade. *)
Collect(q) ==
  /\ At(q, "collect")
  /\ req' = [req EXCEPT ![q].pc = "unsync", ![q].rows = Existing]
  /\ UNCHANGED <<site, row, store, cache, loader, allowed, wiped>>

(* The DELETEs, then the call that takes the origin off the allowlist. *)
Unsync(q) ==
  /\ At(q, "unsync") /\ ~Locked
  /\ \E a \in {allowed, FALSE} :
       /\ allowed' = a
       /\ req' = [req EXCEPT ![q].pc = "drop",
                             ![q].kind = IF allowed /\ ~a THEN "stripped" ELSE Null]
  /\ UNCHANGED <<site, row, store, cache, loader, wiped>>

(* The commit; a row inserted meanwhile breaks its foreign key. *)
Drop(q) ==
  /\ At(q, "drop")
  /\ IF Existing \subseteq req[q].rows
       THEN /\ row' = [d \in Deployments |-> NoRow]
            /\ site' = [site EXCEPT !.exists = FALSE, !.current = Null]
       ELSE UNCHANGED <<row, site>>
  /\ EndReq(q)
  /\ UNCHANGED <<store, cache, loader, allowed, wiped>>

-----------------------------------------------------------------------------
(* renew_app_expiry. *)
Renew ==
  /\ site.exists /\ site.preview /\ ~Expired
  /\ site' = [site EXCEPT !.expires = PreviewTTL]
  /\ UNCHANGED <<row, store, req, cache, loader, allowed, wiped>>

(* _load_app: on a miss the row is read, and then put into the cache. *)
Load(p) ==
  /\ cache[p].ttl = 0 /\ loader[p] = Null /\ site.exists
  /\ loader' = [loader EXCEPT ![p] = Snapshot]
  /\ UNCHANGED <<site, row, store, req, cache, allowed, wiped>>

Keep(p) ==
  /\ loader[p] # Null
  /\ cache' = [cache EXCEPT ![p] = [ttl |-> CacheTTL, obj |-> loader[p]]]
  /\ loader' = [loader EXCEPT ![p] = Null]
  /\ UNCHANGED <<site, row, store, req, allowed, wiped>>

(* A worker process dies: uncommitted work and its memory are lost. *)
Crash(p) ==
  /\ MayCrash
  /\ \/ cache[p].ttl > 0 \/ loader[p] # Null
     \/ \E q \in Requests : ProcessOf[q] = p /\ ~At(q, "idle")
  /\ req' = [q \in Requests |-> IF ProcessOf[q] = p THEN IdleReq ELSE req[q]]
  /\ cache' = [cache EXCEPT ![p] = NoEntry]
  /\ loader' = [loader EXCEPT ![p] = Null]
  /\ UNCHANGED <<site, row, store, allowed, wiped>>

(* A cache entry a tick later; an expired one is dropped. *)
Sooner(t)  == IF t \in {Null, 0} THEN t ELSE t - 1
AgedObj(o) == [o EXCEPT !.expires = Sooner(@)]
Aged(e)    == IF e.ttl <= 1 THEN NoEntry
              ELSE [ttl |-> e.ttl - 1, obj |-> AgedObj(e.obj)]

Tick ==
  /\ \/ site.expires \notin {Null, 0}
     \/ \E p \in Processes : cache[p].ttl > 0
  /\ site' = [site EXCEPT !.expires = Sooner(@)]
  /\ cache' = [p \in Processes |-> Aged(cache[p])]
  /\ loader' = [p \in Processes |-> IF loader[p] = Null THEN Null
                                    ELSE AgedObj(loader[p])]
  /\ UNCHANGED <<row, store, req, allowed, wiped>>

-----------------------------------------------------------------------------
Create(q)   == (\E d \in Deployments : StartCreate(q, d)) \/ Insert(q)
Upload(q)   == (\E d \in Deployments : StartUpload(q, d)) \/ Store(q) \/ SaveUpload(q)
Activate(q) == \/ \E d \in Deployments : StartFinalize(q, d) \/ StartRollback(q, d)
               \/ Clear(q) \/ Extract(q) \/ MarkFailed(q)
               \/ Prepare(q) \/ Commit(q) \/ Sync(q) \/ StartRegister(q)
Delete(q)   == StartDelete(q) \/ Wipe(q) \/ Collect(q) \/ Unsync(q) \/ Drop(q)

Next ==
  \/ \E q \in Requests : Create(q) \/ Upload(q) \/ Activate(q) \/ Delete(q)
  \/ Renew
  \/ \E p \in Processes : Load(p) \/ Keep(p) \/ Crash(p)
  \/ Tick

(* No client has to call again, and nothing promises that a request ends.  *)
Spec == Init /\ [][Next]_vars

-----------------------------------------------------------------------------
(* The App that process p answers from, cached or not. *)
Seen(p) == IF cache[p].ttl > 0 THEN cache[p].obj
           ELSE IF site.exists THEN Snapshot ELSE Null

(* Mutant: a cached site's expiry is not looked at. *)
ServesExpired(p) ==
  LET o == Seen(p) IN
  IF o # Null /\ o.current # Null /\ o.status \in Servable /\ store[o.current].files # {}
  THEN o.current ELSE Null

(* The deployment whose files process p serves. *)
Serves(p) ==
  LET o == Seen(p) IN
  IF o # Null /\ o.expires # 0 /\ o.current # Null /\ o.status \in Servable
    /\ store[o.current].files # {}
  THEN o.current ELSE Null

(* With clients that do not share a deployment, no interleaving of deploys  *)
(* and rollbacks leaves the app pointing at a row that is not active.       *)
CurrentIsActive ==
  Exclusive /\ site.current # Null => row[site.current].status = "active"

(* What a rollback may need is still there: unless a delete has removed its *)
(* files, an active or superseded deployment has the tree of the archive    *)
(* that is stored for it, whatever was uploaded and extracted before.  Old  *)
(* files that delete_extracted_prefix left may lie beside it.              *)
TreesIntact ==
  Exclusive =>
    \A d \in Deployments \ wiped : row[d].status \in {"active", "superseded"} =>
      "own" \in store[d].files <=> store[d].artifact = "site"

(* A cached App never keeps an expired preview online.                     *)
ExpiredIsDark ==
  \A p \in Processes : site.exists /\ Expired => Serves(p) = Null

(* A stale copy is a whole site: a process may go on answering from a       *)
(* deployment that is no longer current (another worker's cache, or a page  *)
(* loaded between invalidate_serve_cache and the commit), but no visitor    *)
(* sees a deployment that was never active or is being uploaded or          *)
(* extracted again.                                                        *)
ServedIsWhole ==
  Exclusive => \A p \in Processes : LET d == Serves(p) IN d # Null =>
    /\ site.exists => row[d].status \in {"active", "superseded"}
    /\ \A q \in Requests : req[q].pc \in {"clear", "extract"} => req[q].dep # d

(* The docs say an active deployment cannot accept another upload: none     *)
(* goes back to uploading (the status test of upload_deployment_artifact).  *)
ActiveTakesNoUpload ==
  [][\A d \in Deployments :
       row[d].status = "active" => row'[d].status # "uploading"]_vars

(* delete_app says a failed delete does not strip login while the site      *)
(* still exists: the origin leaves the allowlist only with the site.        *)
FailedDeleteKeepsLogin ==
  [][\A q \in Requests :
       At(q, "drop") /\ req[q].kind = "stripped" /\ req'[q].pc = "idle"
         => ~site'.exists]_vars
=============================================================================
