--------------------------- MODULE HostingAccess ---------------------------
(***************************************************************************)
(* What one company may do on the hosting service: its row on the access   *)
(* waitlist, its apps and preview sites with their quota and expiry, and   *)
(* its deploy tokens.  A request reads a row or counts rows, decides, and   *)
(* then writes without a lock; every action below is one query or one      *)
(* commit.  What becomes of an app's deployments is in Deployments.        *)
(***************************************************************************)
EXTENDS Naturals, FiniteSets

CONSTANTS
  Apps,        \* apps the company may ever have, each with its name and slug
  Tokens,      \* deploy tokens the company may mint
  Requests,    \* request threads and shell commands
  MaxApps,     \* HOSTING_MAX_APPS_PER_COMPANY
  PreviewTTL,  \* HOSTING_PREVIEW_TTL_DAYS, in ticks
  Null         \* SQL NULL, and "nothing"

ASSUME AccessAssumption ==
  /\ IsFiniteSet(Apps) /\ IsFiniteSet(Requests) /\ Requests # {}
  /\ MaxApps \in Nat /\ PreviewTTL \in Nat \ {0}
  /\ Null \notin Nat \cup Apps \cup Tokens
  /\ Null \notin {"pending", "approved", "denied", "named", "preview"}

VARIABLES
  access,   \* status of the CompanyHostingAccess row
  app,      \* app[a]: the App row; expires counts down to expires_at
  revived,  \* previews that came back after they had expired (observer)
  token,    \* token[t]: the DeployToken row
  req       \* req[q]: what request q is doing

vars == <<access, app, revived, token, req>>

-----------------------------------------------------------------------------
Statuses == {"pending", "approved", "denied"}
AppType  == [kind    : {"none", "named", "preview", "gone"},
             expires : 0 .. PreviewTTL \cup {Null},
             draft   : BOOLEAN]             \* a deployment that can be finalized
NoApp    == [kind |-> "none", expires |-> Null, draft |-> FALSE]
GoneApp  == [NoApp EXCEPT !.kind = "gone"]
Named    == [NoApp EXCEPT !.kind = "named"]
Preview  == [kind |-> "preview", expires |-> Null, draft |-> TRUE]
IsPreview(a) == app[a].kind = "preview"
Existing == {a \in Apps : app[a].kind \in {"named", "preview"}}
Active   == {a \in Existing : app[a].expires # 0}

(* last_used_at and revoked_at, set or not; an expired token is neither    *)
(* live nor revoked.                                                       *)
TokenType == [state : {"none", "live", "expired", "revoked"}, used : BOOLEAN]
NoToken   == [state |-> "none", used |-> FALSE]
NewToken  == [state |-> "live", used |-> FALSE]

ReqType == [pc    : {"idle", "reask", "save", "count", "recheck", "insert", "draft",
                     "renew", "revoke", "touch", "ready"},
            app   : Apps \cup {Null},
            kind  : {"named", "preview", Null},   \* of the app it creates
            saw   : Statuses \cup {Null},         \* status it loaded, or will save
            staff : BOOLEAN,                      \* a staff member's, or a shell's
            token : Tokens \cup {Null},
            row   : TokenType]                    \* the token row it loaded
IdleReq == [pc |-> "idle", app |-> Null, kind |-> Null, saw |-> Null, staff |-> FALSE,
            token |-> Null, row |-> NoToken]

TypeOK ==
  /\ access \in Statuses \cup {"none"}
  /\ app \in [Apps -> AppType]
  /\ revived \subseteq Apps
  /\ token \in [Tokens -> TokenType]
  /\ req \in [Requests -> ReqType]
  /\ \A q \in Requests :
       /\ req[q].pc \in {"recheck", "insert"} => req[q].kind # Null
       /\ req[q].pc \in {"insert", "draft", "renew"} => req[q].app # Null
       /\ req[q].pc \in {"touch", "ready", "revoke"} => req[q].token # Null

Init ==
  /\ access = "none"
  /\ app = [a \in Apps |-> NoApp]
  /\ revived = {}
  /\ token = [t \in Tokens |-> NoToken]
  /\ req = [q \in Requests |-> IdleReq]

At(q, pc) == req[q].pc = pc
Begin(q, r) == At(q, "idle") /\ req' = [req EXCEPT ![q] = r]
GoTo(q, pc) == req' = [req EXCEPT ![q].pc = pc]
End(q)      == req' = [req EXCEPT ![q] = IdleReq]

-----------------------------------------------------------------------------
(* The waitlist.                                                           *)

(* request_access, get_or_create without a row. *)
AskFirst ==
  /\ access = "none"
  /\ access' = "pending"
  /\ UNCHANGED <<app, revived, token, req>>

(* Mutant: the row is saved whatever its status was. *)
AskAny(q) ==
  /\ access # "none"
  /\ Begin(q, [IdleReq EXCEPT !.pc = "reask", !.saw = access])
  /\ UNCHANGED <<access, app, revived, token>>

(* request_access of a company it finds denied. *)
AskAgain(q) ==
  /\ access = "denied"
  /\ Begin(q, [IdleReq EXCEPT !.pc = "reask", !.saw = access])
  /\ UNCHANGED <<access, app, revived, token>>

Reasked(s) == IF s = "denied" THEN "pending" ELSE s

(* The whole row is saved as it was loaded, but for what was changed.      *)
SaveAsk(q) ==
  /\ At(q, "reask")
  /\ access' = Reasked(req[q].saw)
  /\ End(q)
  /\ UNCHANGED <<app, revived, token>>

(* update_access: staff decides, an owner may only say pending.            *)
Review(q, staff, s) ==
  /\ s # "pending" => staff
  /\ access' = IF access = "none" THEN "pending" ELSE access
  /\ Begin(q, [IdleReq EXCEPT !.pc = "save", !.saw = s, !.staff = staff])
  /\ UNCHANGED <<app, revived, token>>

(* manage.py approve_hosting_access, which saves again what it inserted. *)
Approve(q) ==
  /\ access # "approved"
  /\ access' = IF access = "none" THEN "approved" ELSE access
  /\ Begin(q, [IdleReq EXCEPT !.pc = "save", !.saw = "approved", !.staff = TRUE])
  /\ UNCHANGED <<app, revived, token>>

SaveReview(q) ==
  /\ At(q, "save")
  /\ access' = req[q].saw
  /\ End(q)
  /\ UNCHANGED <<app, revived, token>>

-----------------------------------------------------------------------------
(* Deploy tokens.                                                          *)

Mint(t) ==
  /\ token[t].state = "none"
  /\ token' = [token EXCEPT ![t] = NewToken]
  /\ UNCHANGED <<access, app, revived, req>>

TokenExpires(t) ==
  /\ token[t].state = "live"
  /\ token' = [token EXCEPT ![t].state = "expired"]
  /\ UNCHANGED <<access, app, revived, req>>

(* The revocation loads the row, and saves revoked_at alone. *)
BeginRevoke(q, t) ==
  /\ token[t].state \in {"live", "expired"}
  /\ Begin(q, [IdleReq EXCEPT !.pc = "revoke", !.token = t])
  /\ UNCHANGED <<access, app, revived, token>>

SaveRevoke(q) ==
  /\ At(q, "revoke")
  /\ token' = [token EXCEPT ![req[q].token].state = "revoked"]
  /\ End(q)
  /\ UNCHANGED <<access, app, revived>>

(* resolve_deploy_token; last_used_at is touched when it is older than a    *)
(* minute, or NULL.                                                        *)
Authenticate(q, t) ==
  /\ token[t].state = "live"
  /\ \E pc \in IF token[t].used THEN {"touch", "ready"} ELSE {"touch"} :
       Begin(q, [IdleReq EXCEPT !.pc = pc, !.token = t, !.row = token[t]])
  /\ UNCHANGED <<access, app, revived, token>>

(* Mutant: the touch saves the row that was loaded. *)
TouchedRow(q) == [req[q].row EXCEPT !.used = TRUE]

(* The row after UPDATE ... SET last_used_at. *)
Touched(q) == [token[req[q].token] EXCEPT !.used = TRUE]

Touch(q) ==
  /\ At(q, "touch")
  /\ token' = [token EXCEPT ![req[q].token] = Touched(q)]
  /\ GoTo(q, "ready")
  /\ UNCHANGED <<access, app, revived>>

-----------------------------------------------------------------------------
(* Apps and previews.                                                      *)

(* assert_hosting_access. *)
HasAccess == access = "approved"

(* create_app: access, then the count and the name's check, then the insert. *)
CreateApp(q) ==
  /\ HasAccess
  /\ Begin(q, [IdleReq EXCEPT !.pc = "count", !.kind = "named"])
  /\ UNCHANGED <<access, app, revived, token>>

(* create_preview_app, by a user or with a deploy token. *)
CreatePreview(q) ==
  /\ HasAccess
  /\ \/ Begin(q, [IdleReq EXCEPT !.pc = "count", !.kind = "preview"])
     \/ /\ At(q, "ready")
        /\ req' = [req EXCEPT ![q] = [IdleReq EXCEPT !.pc = "count", !.kind = "preview"]]
  /\ UNCHANGED <<access, app, revived, token>>

(* Mutant: the limit is off by one. *)
RoomForMore(kind) ==
  Cardinality(IF kind = "named" THEN Existing ELSE Active) <= MaxApps

(* The quota: create_app counts every row, a preview only what is up. *)
Room(kind) == Cardinality(IF kind = "named" THEN Existing ELSE Active) < MaxApps

Count(q, a) ==
  /\ At(q, "count")
  /\ IF Room(req[q].kind) /\ app[a].kind = "none"
       THEN req' = [req EXCEPT ![q].app = a,
                               ![q].pc = IF req[q].kind = "named" THEN "insert"
                                                                  ELSE "recheck"]
       ELSE End(q)
  /\ UNCHANGED <<access, app, revived, token>>

(* create_deployment asks for access again, in the same transaction. *)
Recheck(q) ==
  /\ At(q, "recheck")
  /\ IF HasAccess THEN GoTo(q, "insert") ELSE End(q)
  /\ UNCHANGED <<access, app, revived, token>>

(* An app appears; its name is free or the unique constraint refuses it.   *)
InsertApp(q) ==
  /\ At(q, "insert") /\ req[q].kind = "named"
  /\ app' = IF app[req[q].app].kind = "none" THEN [app EXCEPT ![req[q].app] = Named]
                                             ELSE app
  /\ End(q)
  /\ UNCHANGED <<access, revived, token>>

(* Mutant: the app is committed before its draft. *)
InsertBare(q) ==
  /\ At(q, "insert") /\ req[q].kind = "preview"
  /\ app' = IF app[req[q].app].kind = "none"
              THEN [app EXCEPT ![req[q].app] = [Preview EXCEPT !.draft = FALSE]] ELSE app
  /\ End(q)
  /\ UNCHANGED <<access, revived, token>>

(* The commit of _prepare_preview_deploy, or its rollback: a bad version    *)
(* number is found after the app was inserted.                             *)
InsertPreview(q) ==
  /\ At(q, "insert") /\ req[q].kind = "preview"
  /\ app' \in {app, IF app[req[q].app].kind = "none"
                      THEN [app EXCEPT ![req[q].app] = Preview] ELSE app}
  /\ End(q)
  /\ UNCHANGED <<access, revived, token>>

(* A deploy to an existing preview, expired or not: resolve_preview_app and *)
(* the checks of create_deployment, then the insert.                       *)
Redeploy(q, a) ==
  /\ IsPreview(a) /\ HasAccess
  /\ req[q].pc \in {"idle", "ready"}
  /\ req' = [req EXCEPT ![q] = [IdleReq EXCEPT !.pc = "draft", !.app = a]]
  /\ UNCHANGED <<access, app, revived, token>>

InsertDraft(q) ==
  LET a == req[q].app IN
  /\ At(q, "draft")
  /\ app' = IF IsPreview(a) THEN [app EXCEPT ![a].draft = TRUE] ELSE app
  /\ End(q)
  /\ UNCHANGED <<access, revived, token>>

(* expires_at is a full lifetime away again. *)
Prolong(a, more) ==
  /\ app' = [app EXCEPT ![a].expires = PreviewTTL, ![a].draft = more]
  /\ revived' = IF app[a].expires = 0 THEN revived \cup {a} ELSE revived

(* The commit of a finalize.  Neither access nor the quota is asked for.   *)
Finalize(a) ==
  /\ IsPreview(a) /\ app[a].draft
  /\ \E more \in BOOLEAN : Prolong(a, more)
  /\ UNCHANGED <<access, token, req>>

(* renew_app_expiry of a preview that is up when it is loaded. *)
BeginRenew(q, a) ==
  /\ IsPreview(a) /\ a \in Active
  /\ Begin(q, [IdleReq EXCEPT !.pc = "renew", !.app = a])
  /\ UNCHANGED <<access, app, revived, token>>

SaveRenew(q) ==
  LET a == req[q].app IN
  /\ At(q, "renew")
  /\ IF IsPreview(a) THEN Prolong(a, app[a].draft) ELSE UNCHANGED <<app, revived>>
  /\ End(q)
  /\ UNCHANGED <<access, token>>

DeleteApp(a) ==
  /\ a \in Existing
  /\ app' = [app EXCEPT ![a] = GoneApp]
  /\ revived' = revived \ {a}
  /\ UNCHANGED <<access, token, req>>

-----------------------------------------------------------------------------
(* A worker dies, or an error ends the request. *)
Abort(q) ==
  /\ ~At(q, "idle")
  /\ End(q)
  /\ UNCHANGED <<access, app, revived, token>>

Sooner(t) == IF t \in {Null, 0} THEN t ELSE t - 1

Tick ==
  /\ \E a \in Apps : app[a].expires \notin {Null, 0}
  /\ app' = [a \in Apps |-> [app[a] EXCEPT !.expires = Sooner(@)]]
  /\ UNCHANGED <<access, revived, token, req>>

Waitlist(q) == \/ AskAgain(q) \/ SaveAsk(q) \/ Approve(q) \/ SaveReview(q)
               \/ \E staff \in BOOLEAN, s \in Statuses : Review(q, staff, s)
TokenUse(q) == \/ SaveRevoke(q) \/ Touch(q)
               \/ \E t \in Tokens : BeginRevoke(q, t) \/ Authenticate(q, t)
AppWork(q)  == \/ CreateApp(q) \/ CreatePreview(q) \/ Recheck(q)
               \/ InsertApp(q) \/ InsertPreview(q) \/ InsertDraft(q) \/ SaveRenew(q)
               \/ \E a \in Apps : Count(q, a) \/ Redeploy(q, a) \/ BeginRenew(q, a)

Next ==
  \/ AskFirst
  \/ \E q \in Requests : Waitlist(q) \/ TokenUse(q) \/ AppWork(q) \/ Abort(q)
  \/ \E t \in Tokens : Mint(t) \/ TokenExpires(t)
  \/ \E a \in Apps : Finalize(a) \/ DeleteApp(a)
  \/ Tick

Spec == Init /\ [][Next]_vars

-----------------------------------------------------------------------------
(* How far the quota may be passed: requests count before they insert, so   *)
(* the company can have one app more than its limit for each other request *)
(* in flight, and any number of previews that expired and were deployed    *)
(* again, but never more.                                                  *)
OverQuotaBounded ==
  Cardinality(Active \ revived) <= MaxApps + Cardinality(Requests) - 1

(* No preview is left without anything to deploy: until its first finalize  *)
(* or renewal it has the draft it was created with, whatever failed.       *)
NoBarePreview ==
  \A a \in Apps : IsPreview(a) /\ app[a].expires = Null => app[a].draft

(* Only staff grants access: no request of the company turns its status     *)
(* to approved, not even by writing back a row it loaded earlier.          *)
GrantedByStaff ==
  [][access # "approved" /\ access' = "approved"
       => \E q \in Requests : req'[q] # req[q] /\ (req[q].staff \/ req'[q].staff)]_vars

(* A revocation is final, although tokens are touched by the requests that  *)
(* were authenticated before it.                                           *)
RevokedStays ==
  [][\A t \in Tokens : token[t].state = "revoked" => token'[t].state = "revoked"]_vars
=============================================================================
