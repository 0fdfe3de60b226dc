------------------------ MODULE HostingAccessProofs ------------------------
(***************************************************************************)
(* Proofs about HostingAccess.  Requests decide first and write later, so   *)
(* each proof says what is true of a request between its two steps: what    *)
(* RecordOK says of its record, and that it is counted against the quota    *)
(* from the moment it found room.                                          *)
(***************************************************************************)
EXTENDS HostingAccess, FiniteSetTheorems, TLAPS

(* What holds of a request between its decision and its write. *)
RecordOK(r) ==
  /\ r \in ReqType
  /\ r.pc \in {"count", "recheck", "insert"} => r.kind # Null
  /\ r.pc \in {"recheck", "insert", "draft", "renew"} => r.app # Null
  /\ r.pc \in {"touch", "ready", "revoke"} => r.token # Null
  /\ r.pc = "reask" => r.saw = "denied"
  /\ r.pc = "save" => r.saw # Null /\ (r.saw # "pending" => r.staff)

AccessInv == TypeOK /\ \A q \in Requests : RecordOK(req[q])

(* The requests that found room and have not inserted their app. *)
Inserting == {q \in Requests : req[q].pc \in {"recheck", "insert"}}

(* They take their share of the quota in advance. *)
QuotaInv == Cardinality(Active \ revived) + Cardinality(Inserting)
              <= MaxApps + Cardinality(Requests) - 1

-----------------------------------------------------------------------------
(* Records of requests.                                                    *)

LEMMA IdleOK == RecordOK(IdleReq)
  BY DEF RecordOK, IdleReq, ReqType, TokenType, NoToken

LEMMA AskOK == RecordOK([IdleReq EXCEPT !.pc = "reask", !.saw = "denied"])
  BY DEF RecordOK, IdleReq, ReqType, TokenType, NoToken, Statuses

LEMMA SaveOK ==
  ASSUME NEW s \in Statuses, NEW staff \in BOOLEAN, s # "pending" => staff
  PROVE  RecordOK([IdleReq EXCEPT !.pc = "save", !.saw = s, !.staff = staff])
  <1> DEFINE r == [IdleReq EXCEPT !.pc = "save", !.saw = s, !.staff = staff]
  <1>1. r \in ReqType
    BY DEF IdleReq, ReqType, TokenType, NoToken
  <1>2. r.pc = "save" /\ r.saw = s /\ (s # "pending" => r.staff)
    BY DEF IdleReq
  <1>3. s # Null
    BY AccessAssumption DEF Statuses
  <1> HIDE DEF r
  <1>4. RecordOK(r)
    BY <1>1, <1>2, <1>3 DEF RecordOK
  <1>5. QED
    BY <1>4 DEF r

LEMMA RevokeOK ==
  ASSUME NEW t \in Tokens
  PROVE  RecordOK([IdleReq EXCEPT !.pc = "revoke", !.token = t])
  BY AccessAssumption DEF RecordOK, IdleReq, ReqType, TokenType, NoToken

LEMMA TokenOK ==
  ASSUME NEW t \in Tokens, NEW row \in TokenType, NEW pc \in {"touch", "ready"}
  PROVE  RecordOK([IdleReq EXCEPT !.pc = pc, !.token = t, !.row = row])
  <1> DEFINE r == [IdleReq EXCEPT !.pc = pc, !.token = t, !.row = row]
  <1>1. r \in ReqType
    BY DEF IdleReq, ReqType
  <1>2. r.pc = pc /\ r.token = t
    BY DEF IdleReq
  <1> HIDE DEF r
  <1>3. RecordOK(r)
    BY <1>1, <1>2, AccessAssumption DEF RecordOK
  <1>4. QED
    BY <1>3 DEF r

LEMMA CreateOK ==
  ASSUME NEW kind \in {"named", "preview"}
  PROVE  RecordOK([IdleReq EXCEPT !.pc = "count", !.kind = kind])
  BY AccessAssumption DEF RecordOK, IdleReq, ReqType, TokenType, NoToken

LEMMA OnAppOK ==
  ASSUME NEW a \in Apps, NEW pc \in {"draft", "renew"}
  PROVE  RecordOK([IdleReq EXCEPT !.pc = pc, !.app = a])
  BY AccessAssumption DEF RecordOK, IdleReq, ReqType, TokenType, NoToken

LEMMA CountOK ==
  ASSUME NEW r, RecordOK(r), r.pc = "count", NEW a \in Apps, NEW pc \in {"insert", "recheck"}
  PROVE  RecordOK([r EXCEPT !.app = a, !.pc = pc])
  <1> DEFINE s == [r EXCEPT !.app = a, !.pc = pc]
  <1>1. s \in ReqType
    BY DEF RecordOK, ReqType
  <1>2. s.pc = pc /\ s.app = a /\ s.kind = r.kind
    BY DEF RecordOK, ReqType
  <1> HIDE DEF s
  <1>3. RecordOK(s)
    BY <1>1, <1>2, AccessAssumption DEF RecordOK
  <1>4. QED
    BY <1>3 DEF s

LEMMA GoToOK ==
  ASSUME NEW r, RecordOK(r), NEW pc,
         (r.pc = "recheck" /\ pc = "insert") \/ (r.pc = "touch" /\ pc = "ready")
  PROVE  RecordOK([r EXCEPT !.pc = pc])
  <1> DEFINE s == [r EXCEPT !.pc = pc]
  <1>1. s \in ReqType
    BY DEF RecordOK, ReqType
  <1>2. s.pc = pc /\ s.app = r.app /\ s.kind = r.kind /\ s.token = r.token
    BY DEF RecordOK, ReqType
  <1> HIDE DEF s
  <1>3. RecordOK(s)
    BY <1>1, <1>2 DEF RecordOK
  <1>4. QED
    BY <1>3 DEF s

(* Request q has the record r from now on, and r is right. *)
Becomes(q, r) == RecordOK(r) /\ req' = [req EXCEPT ![q] = r]

(* A step changes the record of at most one request; only one that counted  *)
(* the apps and found room begins to insert.                               *)
Took(q) == \E r : /\ Becomes(q, r)
                  /\ r.pc \in {"recheck", "insert"} => req[q].pc = "recheck"

Counted(q) == /\ \E a \in Apps, pc \in {"insert", "recheck"} :
                   Becomes(q, [req[q] EXCEPT !.app = a, !.pc = pc])
              /\ req[q].pc = "count" /\ Room(req[q].kind) /\ app' = app /\ revived' = revived

LEMMA EndTook ==
  ASSUME NEW q \in Requests, End(q)
  PROVE  Took(q)
  <1>1. IdleReq.pc = "idle"
    BY DEF IdleReq
  <1>2. QED
    BY <1>1, IdleOK DEF End, Took, Becomes

LEMMA ReqStep ==
  ASSUME AccessInv, [Next]_vars
  PROVE  req' = req \/ \E q \in Requests : Took(q) \/ Counted(q)
  <1>0. /\ \A q \in Requests : RecordOK(req[q]) /\ req[q] \in ReqType
        /\ \A t \in Tokens : token[t] \in TokenType
        /\ access \in Statuses \cup {"none"}
    BY DEF AccessInv, TypeOK
  <1>1. ASSUME NEW q \in Requests, AskAgain(q) PROVE Took(q)
    <2> DEFINE r == [IdleReq EXCEPT !.pc = "reask", !.saw = "denied"]
    <2>1. req' = [req EXCEPT ![q] = r]
      BY <1>1 DEF AskAgain, Begin
    <2>2. r.pc = "reask"
      BY DEF IdleReq
    <2> HIDE DEF r
    <2>3. QED
      BY <2>1, <2>2, AskOK DEF Took, Becomes, r
  <1>2. ASSUME NEW q \in Requests,
               Approve(q) \/ \E staff \in BOOLEAN, s \in Statuses : Review(q, staff, s)
        PROVE  Took(q)
    <2>1. PICK s \in Statuses, staff \in BOOLEAN :
             /\ s # "pending" => staff
             /\ req' = [req EXCEPT ![q] = [IdleReq EXCEPT !.pc = "save", !.saw = s,
                                                          !.staff = staff]]
      <3>1. CASE Approve(q)
        <4>1. "approved" \in Statuses /\ TRUE \in BOOLEAN
          BY DEF Statuses
        <4>2. QED
          BY <3>1, <4>1 DEF Approve, Begin
      <3>2. CASE \E staff \in BOOLEAN, s \in Statuses : Review(q, staff, s)
        BY <3>2 DEF Review, Begin
      <3>3. QED
        BY <1>2, <3>1, <3>2
    <2> DEFINE r == [IdleReq EXCEPT !.pc = "save", !.saw = s, !.staff = staff]
    <2>2. r.pc = "save" /\ RecordOK(r)
      BY <2>1, SaveOK DEF IdleReq
    <2>3. req' = [req EXCEPT ![q] = r]
      BY <2>1
    <2> HIDE DEF r
    <2>4. QED
      BY <2>2, <2>3 DEF Took, Becomes
  <1>3. ASSUME NEW q \in Requests, NEW t \in Tokens, BeginRevoke(q, t) PROVE Took(q)
    <2> DEFINE r == [IdleReq EXCEPT !.pc = "revoke", !.token = t]
    <2>1. req' = [req EXCEPT ![q] = r] /\ r.pc = "revoke" /\ RecordOK(r)
      BY <1>3, RevokeOK DEF BeginRevoke, Begin, IdleReq
    <2> HIDE DEF r
    <2>2. QED
      BY <2>1 DEF Took, Becomes
  <1>4. ASSUME NEW q \in Requests, NEW t \in Tokens, Authenticate(q, t) PROVE Took(q)
    <2>1. PICK pc \in {"touch", "ready"} :
             req' = [req EXCEPT ![q] = [IdleReq EXCEPT !.pc = pc, !.token = t, !.row = token[t]]]
      BY <1>4 DEF Authenticate, Begin
    <2> DEFINE r == [IdleReq EXCEPT !.pc = pc, !.token = t, !.row = token[t]]
    <2>2. r.pc = pc /\ RecordOK(r)
      BY <1>0, TokenOK DEF IdleReq
    <2>3. req' = [req EXCEPT ![q] = r]
      BY <2>1
    <2> HIDE DEF r
    <2>4. QED
      BY <2>2, <2>3 DEF Took, Becomes
  <1>5. ASSUME NEW q \in Requests, CreateApp(q) \/ CreatePreview(q) PROVE Took(q)
    <2>1. PICK kind \in {"named", "preview"} :
             req' = [req EXCEPT ![q] = [IdleReq EXCEPT !.pc = "count", !.kind = kind]]
      BY <1>5 DEF CreateApp, CreatePreview, Begin
    <2> DEFINE r == [IdleReq EXCEPT !.pc = "count", !.kind = kind]
    <2>2. r.pc = "count" /\ RecordOK(r)
      BY CreateOK DEF IdleReq
    <2>3. req' = [req EXCEPT ![q] = r]
      BY <2>1
    <2> HIDE DEF r
    <2>4. QED
      BY <2>2, <2>3 DEF Took, Becomes
  <1>6. ASSUME NEW q \in Requests, NEW a \in Apps, Redeploy(q, a) \/ BeginRenew(q, a)
        PROVE  Took(q)
    <2>1. PICK pc \in {"draft", "renew"} :
             req' = [req EXCEPT ![q] = [IdleReq EXCEPT !.pc = pc, !.app = a]]
      BY <1>6 DEF Redeploy, BeginRenew, Begin
    <2> DEFINE r == [IdleReq EXCEPT !.pc = pc, !.app = a]
    <2>2. r.pc = pc /\ RecordOK(r)
      BY OnAppOK DEF IdleReq
    <2>3. req' = [req EXCEPT ![q] = r]
      BY <2>1
    <2> HIDE DEF r
    <2>4. QED
      BY <2>2, <2>3 DEF Took, Becomes
  <1>7. ASSUME NEW q \in Requests, NEW a \in Apps, Count(q, a) PROVE Took(q) \/ Counted(q)
    <2>1. CASE End(q)
      BY <2>1, EndTook
    <2>2. CASE ~End(q)
      <3>1. PICK pc \in {"insert", "recheck"} :
               req' = [req EXCEPT ![q].app = a, ![q].pc = pc]
        BY <1>7, <2>2 DEF Count
      <3>2. req' = [req EXCEPT ![q] = [req[q] EXCEPT !.app = a, !.pc = pc]]
        BY <3>1 DEF AccessInv, TypeOK
      <3>3. /\ req[q].pc = "count" /\ Room(req[q].kind) /\ app' = app /\ revived' = revived
        BY <1>7, <2>2 DEF Count, At
      <3>4. RecordOK([req[q] EXCEPT !.app = a, !.pc = pc])
        BY <1>0, <3>3, CountOK
      <3>5. QED
        BY <3>2, <3>3, <3>4 DEF Counted, Becomes
    <2>3. QED
      BY <2>1, <2>2
  <1>8. ASSUME NEW q \in Requests, Recheck(q) \/ Touch(q) PROVE Took(q)
    <2>1. CASE End(q)
      BY <2>1, EndTook
    <2>2. CASE ~End(q)
      <3>1. PICK pc \in {"insert", "ready"} :
                  /\ \/ req[q].pc = "recheck" /\ pc = "insert"
                     \/ req[q].pc = "touch" /\ pc = "ready"
                  /\ req' = [req EXCEPT ![q].pc = pc]
        <4>1. CASE Recheck(q)
          BY <2>2, <4>1 DEF Recheck, GoTo, At
        <4>2. CASE Touch(q)
          BY <4>2 DEF Touch, GoTo, At
        <4>3. QED
          BY <1>8, <4>1, <4>2
      <3> DEFINE r == [req[q] EXCEPT !.pc = pc]
      <3>2. RecordOK(r) /\ r.pc = pc
        BY <1>0, <3>1, GoToOK DEF ReqType
      <3>3. req' = [req EXCEPT ![q] = r]
        BY <3>1
      <3> HIDE DEF r
      <3>4. QED
        BY <3>1, <3>2, <3>3 DEF Took, Becomes
    <2>3. QED
      BY <2>1, <2>2
  <1>9. ASSUME NEW q \in Requests,
               \/ SaveAsk(q) \/ SaveReview(q) \/ SaveRevoke(q) \/ InsertApp(q)
               \/ InsertPreview(q) \/ InsertDraft(q) \/ SaveRenew(q) \/ Abort(q)
        PROVE  Took(q)
    <2>1. End(q)
      BY <1>9 DEF SaveAsk, SaveReview, SaveRevoke, InsertApp, InsertPreview, InsertDraft,
                  SaveRenew, Abort
    <2>2. QED
      BY <2>1, EndTook
  <1>10. CASE \/ AskFirst \/ Tick \/ UNCHANGED vars
              \/ \E t \in Tokens : Mint(t) \/ TokenExpires(t)
              \/ \E a \in Apps : Finalize(a) \/ DeleteApp(a)
    BY <1>10 DEF AskFirst, Tick, vars, Mint, TokenExpires, Finalize, DeleteApp
  <1>11. ASSUME NEW q \in Requests, Waitlist(q) PROVE Took(q)
    BY <1>1, <1>2, <1>9, <1>11 DEF Waitlist
  <1>12. ASSUME NEW q \in Requests, TokenUse(q) PROVE Took(q)
    BY <1>3, <1>4, <1>8, <1>9, <1>12 DEF TokenUse
  <1>13. ASSUME NEW q \in Requests, AppWork(q) PROVE Took(q) \/ Counted(q)
    BY <1>5, <1>6, <1>7, <1>8, <1>9, <1>13 DEF AppWork
  <1>14. QED
    BY <1>9, <1>10, <1>11, <1>12, <1>13 DEF Next

(* Of every request it holds what RecordOK says. *)
LEMMA RecordStep ==
  ASSUME AccessInv, [Next]_vars
  PROVE  req' \in [Requests -> ReqType] /\ \A q \in Requests : RecordOK(req'[q])
  <1>1. req \in [Requests -> ReqType] /\ \A q \in Requests : RecordOK(req[q])
    BY DEF AccessInv, TypeOK
  <1>2. req' = req \/ \E q \in Requests : \E r : RecordOK(r) /\ req' = [req EXCEPT ![q] = r]
    BY ReqStep DEF Took, Counted, Becomes
  <1>3. ASSUME NEW q \in Requests, NEW r, RecordOK(r), req' = [req EXCEPT ![q] = r]
        PROVE  req' \in [Requests -> ReqType] /\ \A o \in Requests : RecordOK(req'[o])
    <2>1. r \in ReqType
      BY <1>3 DEF RecordOK
    <2>2. QED
      BY <1>1, <1>3, <2>1
  <1>4. QED
    BY <1>1, <1>2, <1>3

-----------------------------------------------------------------------------
(* The rows.                                                               *)

(* What a step does to an app: nothing, it appears, it gets a draft, its    *)
(* expiry is set anew, it goes, or time passes.                            *)
Appears(q) == \E row \in {Named, Preview} :
                /\ app[req[q].app].kind = "none" /\ app' = [app EXCEPT ![req[q].app] = row]
                /\ req[q].pc = "insert" /\ End(q) /\ revived' = revived
Drafted(a) == app' = [app EXCEPT ![a].draft = TRUE] /\ revived' = revived
Prolonged(a) == \E more \in BOOLEAN : Prolong(a, more)
Gone(a)    == a \in Existing /\ app' = [app EXCEPT ![a] = GoneApp] /\ revived' = revived \ {a}
Aged       == /\ app' = [a \in Apps |-> [app[a] EXCEPT !.expires = Sooner(app[a].expires)]]
              /\ revived' = revived

LEMMA AppStep ==
  ASSUME AccessInv, [Next]_vars
  PROVE  \/ app' = app /\ revived' = revived
         \/ \E q \in Requests : req[q].app \in Apps /\ Appears(q)
         \/ \E a \in Apps : Drafted(a) \/ Prolonged(a) \/ Gone(a)
         \/ Aged
  <1>0. ASSUME NEW q \in Requests, req[q].pc \in {"insert", "draft", "renew"}
        PROVE  req[q].app \in Apps
    BY <1>0 DEF AccessInv, TypeOK, RecordOK, ReqType
  <1>1. ASSUME NEW q \in Requests, InsertApp(q) \/ InsertPreview(q)
        PROVE  \/ app' = app /\ revived' = revived
               \/ req[q].app \in Apps /\ Appears(q)
    <2>1. req[q].app \in Apps /\ req[q].pc = "insert" /\ End(q) /\ revived' = revived
      BY <1>0, <1>1 DEF InsertApp, InsertPreview, At
    <2>2. \/ app' = app
          \/ /\ app[req[q].app].kind = "none"
             /\ \E row \in {Named, Preview} : app' = [app EXCEPT ![req[q].app] = row]
      BY <1>1 DEF InsertApp, InsertPreview
    <2>3. QED
      BY <2>1, <2>2 DEF Appears
  <1>2. ASSUME NEW q \in Requests, InsertDraft(q)
        PROVE  (app' = app /\ revived' = revived) \/ \E a \in Apps : Drafted(a)
    BY <1>0, <1>2 DEF InsertDraft, At, Drafted
  <1>3. ASSUME NEW q \in Requests, SaveRenew(q)
        PROVE  (app' = app /\ revived' = revived) \/ \E a \in Apps : Prolonged(a)
    <2>1. PICK a \in Apps : a = req[q].app
      BY <1>0, <1>3 DEF SaveRenew, At
    <2>2. app[a].draft \in BOOLEAN
      BY DEF AccessInv, TypeOK, AppType
    <2>3. Prolong(a, app[a].draft) \/ (app' = app /\ revived' = revived)
      BY <1>3, <2>1 DEF SaveRenew
    <2>4. QED
      BY <2>2, <2>3 DEF Prolonged
  <1>4. ASSUME NEW a \in Apps, Finalize(a) \/ DeleteApp(a)
        PROVE  Prolonged(a) \/ Gone(a)
    BY <1>4 DEF Finalize, DeleteApp, Prolonged, Gone
  <1>5. CASE Tick
    BY <1>5 DEF Tick, Aged
  <1>6. ASSUME NEW q \in Requests,
               Waitlist(q) \/ TokenUse(q) \/ Abort(q) \/ CreateApp(q) \/ CreatePreview(q)
                 \/ Recheck(q) \/ \E a \in Apps : Count(q, a) \/ Redeploy(q, a) \/ BeginRenew(q, a)
        PROVE  app' = app /\ revived' = revived
    BY <1>6 DEF Waitlist, AskAgain, SaveAsk, Approve, SaveReview, Review, TokenUse, SaveRevoke,
                Touch, BeginRevoke, Authenticate, Abort, CreateApp, CreatePreview, Recheck,
                Count, Redeploy, BeginRenew
  <1>7. CASE AskFirst \/ UNCHANGED vars \/ \E t \in Tokens : Mint(t) \/ TokenExpires(t)
    BY <1>7 DEF AskFirst, vars, Mint, TokenExpires
  <1>8. \/ AskFirst \/ UNCHANGED vars \/ Tick
        \/ \E t \in Tokens : Mint(t) \/ TokenExpires(t)
        \/ \E a \in Apps : Finalize(a) \/ DeleteApp(a)
        \/ \E q \in Requests :
             \/ InsertApp(q) \/ InsertPreview(q) \/ InsertDraft(q) \/ SaveRenew(q)
             \/ Waitlist(q) \/ TokenUse(q) \/ Abort(q) \/ CreateApp(q) \/ CreatePreview(q)
             \/ Recheck(q) \/ \E a \in Apps : Count(q, a) \/ Redeploy(q, a) \/ BeginRenew(q, a)
    BY DEF Next, AppWork
  <1>9. QED
    BY <1>1, <1>2, <1>3, <1>4, <1>5, <1>6, <1>7, <1>8

LEMMA AppTypes ==
  /\ Named \in AppType /\ Preview \in AppType /\ GoneApp \in AppType /\ NoApp \in AppType
  /\ PreviewTTL \in 0 .. PreviewTTL /\ PreviewTTL # 0 /\ PreviewTTL # Null
  /\ \A t \in 0 .. PreviewTTL : t # Null
  <1>1. PreviewTTL \in Nat /\ PreviewTTL # 0 /\ Null \notin Nat
    BY AccessAssumption
  <1>2. PreviewTTL \in 0 .. PreviewTTL /\ \A t \in 0 .. PreviewTTL : t # Null
    BY <1>1
  <1>3. NoApp \in AppType
    BY DEF NoApp, AppType
  <1>4. Named \in AppType /\ GoneApp \in AppType
    BY <1>3 DEF Named, GoneApp, AppType
  <1>5. Preview \in AppType
    BY DEF Preview, AppType
  <1>6. QED
    BY <1>1, <1>2, <1>3, <1>4, <1>5

LEMMA SoonerType ==
  ASSUME NEW t \in 0 .. PreviewTTL \cup {Null}
  PROVE  /\ Sooner(t) \in 0 .. PreviewTTL \cup {Null}
         /\ Sooner(t) = Null <=> t = Null
         /\ t = 0 => Sooner(t) = 0
  <1>1. CASE t \in {Null, 0}
    BY <1>1 DEF Sooner
  <1>2. CASE t \notin {Null, 0}
    <2>1. t \in 0 .. PreviewTTL /\ t # 0 /\ PreviewTTL \in Nat
      BY <1>2, AccessAssumption
    <2>2. t - 1 \in 0 .. PreviewTTL /\ Sooner(t) = t - 1
      BY <1>2, <2>1 DEF Sooner
    <2>3. QED
      BY <1>2, <2>2, AppTypes
  <1>3. QED
    BY <1>1, <1>2

(* The apps keep their types, and no preview is left without a draft. *)
LEMMA RowStep ==
  ASSUME AccessInv, [Next]_vars
  PROVE  /\ app' \in [Apps -> AppType] /\ revived' \subseteq Apps
         /\ NoBarePreview => NoBarePreview'
  <1> DEFINE Fine == /\ app' \in [Apps -> AppType] /\ revived' \subseteq Apps
                     /\ NoBarePreview => NoBarePreview'
  <1>0. /\ app \in [Apps -> AppType] /\ revived \subseteq Apps
        /\ \A a \in Apps : app[a] \in AppType /\ app[a].expires \in 0 .. PreviewTTL \cup {Null}
    BY DEF AccessInv, TypeOK, AppType
  <1>1. ASSUME NEW q \in Requests, req[q].app \in Apps, Appears(q) PROVE Fine
    <2>1. PICK row \in {Named, Preview} : app' = [app EXCEPT ![req[q].app] = row]
      BY <1>1 DEF Appears
    <2>2. row \in AppType /\ (row.kind = "preview" => row.draft)
      <3>1. CASE row = Named
        BY <3>1, AppTypes DEF Named, NoApp
      <3>2. CASE row = Preview
        BY <3>2, AppTypes DEF Preview
      <3>3. QED
        BY <3>1, <3>2
    <2>3. QED
      BY <1>0, <1>1, <2>1, <2>2 DEF Appears, NoBarePreview, IsPreview
  <1>2. ASSUME NEW a \in Apps, Drafted(a) PROVE Fine
    <2>1. app' = [app EXCEPT ![a] = [app[a] EXCEPT !.draft = TRUE]] /\ revived' = revived
      BY <1>2 DEF Drafted
    <2>2. [app[a] EXCEPT !.draft = TRUE] \in AppType /\ [app[a] EXCEPT !.draft = TRUE].draft
      BY <1>0 DEF AppType
    <2>3. QED
      BY <1>0, <2>1, <2>2 DEF NoBarePreview, IsPreview
  <1>3. ASSUME NEW a \in Apps, Prolonged(a) PROVE Fine
    <2>1. PICK more \in BOOLEAN : Prolong(a, more)
      BY <1>3 DEF Prolonged
    <2> DEFINE row == [app[a] EXCEPT !.expires = PreviewTTL, !.draft = more]
    <2>2. app' = [app EXCEPT ![a] = row]
      BY <1>0, <2>1 DEF Prolong
    <2>3. row \in AppType /\ row.expires = PreviewTTL
      BY <1>0, AppTypes DEF AppType
    <2> HIDE DEF row
    <2>4. app' \in [Apps -> AppType] /\ app'[a] = row /\ \A b \in Apps \ {a} : app'[b] = app[b]
      BY <1>0, <2>2, <2>3
    <2>5. revived' \subseteq Apps
      BY <1>0, <2>1 DEF Prolong
    <2>6. NoBarePreview => NoBarePreview'
      BY <2>3, <2>4, AppTypes DEF NoBarePreview, IsPreview
    <2>7. QED
      BY <2>4, <2>5, <2>6
  <1>4. ASSUME NEW a \in Apps, Gone(a) PROVE Fine
    <2>1. app' = [app EXCEPT ![a] = GoneApp] /\ revived' = revived \ {a}
      BY <1>4 DEF Gone
    <2>2. GoneApp \in AppType /\ GoneApp.kind = "gone"
      BY AppTypes DEF GoneApp, NoApp
    <2>3. QED
      BY <1>0, <2>1, <2>2 DEF NoBarePreview, IsPreview
  <1>5. CASE Aged
    <2>1. /\ app' = [a \in Apps |-> [app[a] EXCEPT !.expires = Sooner(app[a].expires)]]
          /\ revived' = revived
      BY <1>5 DEF Aged
    <2>2. ASSUME NEW a \in Apps
          PROVE  /\ app'[a] \in AppType /\ app'[a].kind = app[a].kind
                 /\ app'[a].draft = app[a].draft
                 /\ app'[a].expires = Null => app[a].expires = Null
      <3>1. /\ Sooner(app[a].expires) \in 0 .. PreviewTTL \cup {Null}
            /\ Sooner(app[a].expires) = Null <=> app[a].expires = Null
        BY <1>0, SoonerType
      <3>2. app'[a] = [app[a] EXCEPT !.expires = Sooner(app[a].expires)]
        BY <2>1
      <3>3. app[a] \in AppType
        BY <1>0
      <3>4. QED
        BY <3>1, <3>2, <3>3 DEF AppType
    <2>3. app' \in [Apps -> AppType]
      BY <2>1, <2>2
    <2>4. QED
      BY <1>0, <2>1, <2>2, <2>3 DEF NoBarePreview, IsPreview
  <1>6. CASE app' = app /\ revived' = revived
    BY <1>0, <1>6 DEF NoBarePreview, IsPreview
  <1>7. QED
    BY <1>1, <1>2, <1>3, <1>4, <1>5, <1>6, AppStep

(* Tokens: only a revocation ends one for good, and nothing undoes it. *)
LEMMA TokenStep ==
  ASSUME AccessInv, [Next]_vars
  PROVE  /\ token' \in [Tokens -> TokenType]
         /\ \A t \in Tokens : token[t].state = "revoked" => token'[t].state = "revoked"
  <1> DEFINE Fine == /\ token' \in [Tokens -> TokenType]
                     /\ \A t \in Tokens : token[t].state = "revoked"
                                            => token'[t].state = "revoked"
  <1>0. token \in [Tokens -> TokenType]
    BY DEF AccessInv, TypeOK
  <1>1. ASSUME NEW t \in Tokens, Mint(t) PROVE Fine
    <2>1. NewToken \in TokenType
      BY DEF NewToken, TokenType
    <2>2. QED
      BY <1>0, <1>1, <2>1 DEF Mint
  <1>2. ASSUME NEW t \in Tokens, NEW row \in TokenType, token' = [token EXCEPT ![t] = row],
               token[t].state = "revoked" => row.state = "revoked"
        PROVE  Fine
    BY <1>0, <1>2
  <1>3. ASSUME NEW t \in Tokens, TokenExpires(t) PROVE Fine
    <2>1. [token[t] EXCEPT !.state = "expired"] \in TokenType
      BY <1>0 DEF TokenType
    <2>2. token' = [token EXCEPT ![t] = [token[t] EXCEPT !.state = "expired"]]
          /\ token[t].state # "revoked"
      BY <1>3 DEF TokenExpires
    <2>3. QED
      BY <1>2, <2>1, <2>2
  <1>4. ASSUME NEW q \in Requests, req[q].pc \in {"touch", "revoke"}
        PROVE  req[q].token \in Tokens
    BY <1>4 DEF AccessInv, TypeOK, RecordOK, ReqType
  <1>5. ASSUME NEW q \in Requests, SaveRevoke(q) PROVE Fine
    <2>1. PICK t \in Tokens : t = req[q].token
      BY <1>4, <1>5 DEF SaveRevoke, At
    <2>2. token' = [token EXCEPT ![t] = [token[t] EXCEPT !.state = "revoked"]]
      BY <1>5, <2>1 DEF SaveRevoke
    <2>3. /\ [token[t] EXCEPT !.state = "revoked"] \in TokenType
          /\ [token[t] EXCEPT !.state = "revoked"].state = "revoked"
      BY <1>0 DEF TokenType
    <2>4. QED
      BY <1>2, <2>2, <2>3
  <1>6. ASSUME NEW q \in Requests, Touch(q) PROVE Fine
    <2>1. PICK t \in Tokens : t = req[q].token
      BY <1>4, <1>6 DEF Touch, At
    <2>2. token' = [token EXCEPT ![t] = [token[t] EXCEPT !.used = TRUE]]
      BY <1>6, <2>1 DEF Touch, Touched
    <2>3. /\ [token[t] EXCEPT !.used = TRUE] \in TokenType
          /\ [token[t] EXCEPT !.used = TRUE].state = token[t].state
      BY <1>0 DEF TokenType
    <2>4. QED
      BY <1>2, <2>2, <2>3
  <1>7. CASE token' = token
    BY <1>0, <1>7
  <1>8. ASSUME NEW q \in Requests, Waitlist(q) \/ AppWork(q) \/ Abort(q)
                                     \/ \E t \in Tokens : BeginRevoke(q, t) \/ Authenticate(q, t)
        PROVE  token' = token
    BY <1>8 DEF Waitlist, AskAgain, SaveAsk, Approve, SaveReview, Review, BeginRevoke,
                Authenticate, Abort, AppWork, CreateApp, CreatePreview, Recheck, InsertApp,
                InsertPreview, InsertDraft, SaveRenew, Count, Redeploy, BeginRenew
  <1>9. ASSUME AskFirst \/ Tick \/ UNCHANGED vars \/ \E a \in Apps : Finalize(a) \/ DeleteApp(a)
        PROVE  token' = token
    BY <1>9 DEF AskFirst, Tick, vars, Finalize, DeleteApp
  <1>10. \/ AskFirst \/ Tick \/ UNCHANGED vars \/ \E a \in Apps : Finalize(a) \/ DeleteApp(a)
         \/ \E t \in Tokens : Mint(t) \/ TokenExpires(t)
         \/ \E q \in Requests :
              \/ SaveRevoke(q) \/ Touch(q)
              \/ Waitlist(q) \/ AppWork(q) \/ Abort(q)
                   \/ \E t \in Tokens : BeginRevoke(q, t) \/ Authenticate(q, t)
    BY DEF Next, TokenUse
  <1>11. QED
    BY <1>1, <1>3, <1>5, <1>6, <1>7, <1>8, <1>9, <1>10

-----------------------------------------------------------------------------
(* The waitlist.                                                           *)

(* Whoever writes the status: a first request, a save of what was loaded,   *)
(* or staff.  Only the last of them can approve.                           *)
LEMMA StatusStep ==
  ASSUME AccessInv, [Next]_vars
  PROVE  /\ access' \in Statuses \cup {"none"}
         /\ access # "approved" /\ access' = "approved" =>
              \E q \in Requests : req'[q] # req[q] /\ (req[q].staff \/ req'[q].staff)
  <1> DEFINE Granted == \E q \in Requests : req'[q] # req[q] /\ (req[q].staff \/ req'[q].staff)
             Fine    == /\ access' \in Statuses \cup {"none"}
                        /\ access # "approved" /\ access' = "approved" => Granted
  <1>0. /\ access \in Statuses \cup {"none"} /\ req \in [Requests -> ReqType]
        /\ \A q \in Requests : RecordOK(req[q])
    BY DEF AccessInv, TypeOK
  <1>1. CASE access' = access
    BY <1>0, <1>1
  <1>2. CASE access' = "pending"
    BY <1>2 DEF Statuses
  <1>3. ASSUME NEW q \in Requests, SaveAsk(q) PROVE access' = "pending"
    BY <1>0, <1>3 DEF SaveAsk, At, RecordOK, Reasked
  <1>4. ASSUME NEW q \in Requests, Approve(q) PROVE Fine
    <2> DEFINE r == [IdleReq EXCEPT !.pc = "save", !.saw = "approved", !.staff = TRUE]
    <2>1. req' = [req EXCEPT ![q] = r] /\ req[q].pc = "idle"
      BY <1>4 DEF Approve, Begin, At
    <2>2. r.pc = "save" /\ r.staff
      BY DEF IdleReq
    <2> HIDE DEF r
    <2>3. req'[q].pc = "save" /\ req'[q].staff
      BY <1>0, <2>1, <2>2
    <2>4. Granted
      BY <2>1, <2>3
    <2>5. access' \in Statuses \cup {"none"}
      BY <1>0, <1>4 DEF Approve, Statuses
    <2>6. QED
      BY <2>4, <2>5
  <1>5. ASSUME NEW q \in Requests, NEW staff \in BOOLEAN, NEW s \in Statuses, Review(q, staff, s)
        PROVE  access' = access \/ access' = "pending"
    BY <1>5 DEF Review
  <1>6. ASSUME NEW q \in Requests, SaveReview(q) PROVE Fine
    <2>1. access' = req[q].saw /\ req[q].pc = "save" /\ req' = [req EXCEPT ![q] = IdleReq]
      BY <1>6 DEF SaveReview, At, End
    <2>2. req[q].saw \in Statuses /\ (req[q].saw # "pending" => req[q].staff)
      BY <1>0, <2>1 DEF RecordOK, ReqType
    <2>3. req'[q] = IdleReq /\ IdleReq.pc = "idle"
      BY <1>0, <2>1 DEF IdleReq
    <2>4. req'[q] # req[q]
      BY <2>1, <2>3
    <2>5. QED
      BY <2>1, <2>2, <2>4
  <1>7. CASE AskFirst
    BY <1>2, <1>7 DEF AskFirst
  <1>8. ASSUME \/ Tick \/ UNCHANGED vars
               \/ \E t \in Tokens : Mint(t) \/ TokenExpires(t)
               \/ \E a \in Apps : Finalize(a) \/ DeleteApp(a)
        PROVE  access' = access
    BY <1>8 DEF Tick, vars, Mint, TokenExpires, Finalize, DeleteApp
  <1>9. ASSUME NEW q \in Requests, AskAgain(q) \/ TokenUse(q) \/ AppWork(q) \/ Abort(q)
        PROVE  access' = access
    BY <1>9 DEF AskAgain, TokenUse, SaveRevoke, Touch, BeginRevoke, Authenticate, Abort, AppWork,
                CreateApp, CreatePreview, Recheck, InsertApp, InsertPreview, InsertDraft,
                SaveRenew, Count, Redeploy, BeginRenew
  <1>10. \/ AskFirst
         \/ \/ Tick \/ UNCHANGED vars
            \/ \E t \in Tokens : Mint(t) \/ TokenExpires(t)
            \/ \E a \in Apps : Finalize(a) \/ DeleteApp(a)
         \/ \E q \in Requests :
              \/ SaveAsk(q) \/ Approve(q) \/ SaveReview(q)
              \/ \E staff \in BOOLEAN, s \in Statuses : Review(q, staff, s)
              \/ AskAgain(q) \/ TokenUse(q) \/ AppWork(q) \/ Abort(q)
    BY DEF Next, Waitlist
  <1>11. QED
    BY <1>1, <1>2, <1>3, <1>4, <1>5, <1>6, <1>7, <1>8, <1>9, <1>10

-----------------------------------------------------------------------------
(* The variables have their types, and a request that decided something     *)
(* has what it needs to write it.                                          *)
THEOREM AccessCorrect == Spec => []AccessInv
  <1>1. Init => AccessInv
    <2> SUFFICES ASSUME Init PROVE AccessInv
      OBVIOUS
    <2>1. \A q \in Requests : RecordOK(req[q]) /\ IdleReq.pc = "idle"
      BY IdleOK DEF Init, IdleReq
    <2>2. req \in [Requests -> ReqType]
      BY IdleOK DEF Init, RecordOK
    <2>3. NoApp \in AppType /\ NoToken \in TokenType
      BY AppTypes DEF NoToken, TokenType
    <2>4. QED
      BY <2>1, <2>2, <2>3 DEF Init, AccessInv, TypeOK, RecordOK
  <1>2. AccessInv /\ [Next]_vars => AccessInv'
    <2> SUFFICES ASSUME AccessInv, [Next]_vars PROVE AccessInv'
      OBVIOUS
    <2>1. access' \in Statuses \cup {"none"}
      BY StatusStep
    <2>2. app' \in [Apps -> AppType] /\ revived' \subseteq Apps
      BY RowStep
    <2>3. token' \in [Tokens -> TokenType]
      BY TokenStep
    <2>4. req' \in [Requests -> ReqType] /\ \A q \in Requests : RecordOK(req'[q])
      BY RecordStep
    <2>5. QED
      BY <2>1, <2>2, <2>3, <2>4 DEF AccessInv, TypeOK, RecordOK
  <1>3. QED
    BY <1>1, <1>2, PTL DEF Spec

(* The variables have their types. *)
THEOREM TypeCorrect == Spec => []TypeOK
  <1>1. AccessInv => TypeOK
    BY DEF AccessInv
  <1>2. QED
    BY <1>1, AccessCorrect, PTL

(* No row written back by a request of the company turns its status to      *)
(* approved: request_access saves what it found denied, and an owner's      *)
(* review can only say pending.                                            *)
THEOREM GrantCorrect == Spec => GrantedByStaff
  <1>1. AccessInv /\ [Next]_vars =>
          [access # "approved" /\ access' = "approved"
             => \E q \in Requests : req'[q] # req[q] /\ (req[q].staff \/ req'[q].staff)]_vars
    BY StatusStep
  <1>2. QED
    BY <1>1, AccessCorrect, PTL DEF Spec, GrantedByStaff

(* No save of a request that loaded a deploy token before its revocation    *)
(* undoes the revocation.                                                  *)
THEOREM RevokeCorrect == Spec => RevokedStays
  <1>1. AccessInv /\ [Next]_vars =>
          [\A t \in Tokens : token[t].state = "revoked" => token'[t].state = "revoked"]_vars
    BY TokenStep
  <1>2. QED
    BY <1>1, AccessCorrect, PTL DEF Spec, RevokedStays

(* A preview that was never finalized keeps its draft. *)
THEOREM DraftCorrect == Spec => []NoBarePreview
  <1>1. Init => NoBarePreview
    BY DEF Init, NoBarePreview, IsPreview, NoApp
  <1>2. AccessInv /\ NoBarePreview /\ [Next]_vars => NoBarePreview'
    BY RowStep
  <1>3. QED
    BY <1>1, <1>2, AccessCorrect, PTL DEF Spec

-----------------------------------------------------------------------------
(* The quota.                                                              *)

LEMMA Finite ==
  ASSUME AccessInv
  PROVE  /\ IsFiniteSet(Active) /\ Cardinality(Active) \in Nat
         /\ IsFiniteSet(Active \ revived) /\ Cardinality(Active \ revived) \in Nat
         /\ IsFiniteSet(Inserting) /\ Cardinality(Inserting) \in Nat
         /\ IsFiniteSet(Requests) /\ Cardinality(Requests) \in Nat /\ MaxApps \in Nat
  <1>1. Active \subseteq Apps /\ Active \ revived \subseteq Apps /\ Inserting \subseteq Requests
    BY DEF Active, Existing, Inserting
  <1>2. IsFiniteSet(Apps) /\ IsFiniteSet(Requests) /\ MaxApps \in Nat
    BY AccessAssumption
  <1>3. IsFiniteSet(Active) /\ IsFiniteSet(Active \ revived) /\ IsFiniteSet(Inserting)
    BY <1>1, <1>2, FS_Subset
  <1>4. QED
    BY <1>2, <1>3, FS_CardinalityType

LEMMA PlusOne ==
  ASSUME NEW S, NEW a, IsFiniteSet(S)
  PROVE  IsFiniteSet(S \cup {a}) /\ Cardinality(S \cup {a}) <= Cardinality(S) + 1
  <1>1. Cardinality(S) \in Nat
    BY FS_CardinalityType
  <1>2. /\ IsFiniteSet(S \cup {a})
        /\ Cardinality(S \cup {a}) = IF a \in S THEN Cardinality(S) ELSE Cardinality(S) + 1
    BY FS_AddElement
  <1>3. QED
    BY <1>1, <1>2

(* Fewer apps that count and no more requests under way: nothing is lost. *)
LEMMA QuotaKept ==
  ASSUME AccessInv, AccessInv', QuotaInv,
         (Active \ revived)' \subseteq Active \ revived, Inserting' \subseteq Inserting
  PROVE  QuotaInv'
  <1>1. /\ Cardinality((Active \ revived)') <= Cardinality(Active \ revived)
        /\ Cardinality(Inserting') <= Cardinality(Inserting)
    BY Finite, FS_Subset
  <1>2. /\ Cardinality((Active \ revived)') \in Nat /\ Cardinality(Inserting') \in Nat
    <2>1. /\ IsFiniteSet((Active \ revived)') /\ IsFiniteSet(Inserting')
      BY Finite, FS_Subset
    <2>2. QED
      BY <2>1, FS_CardinalityType
  <1>3. QED
    BY <1>1, <1>2, Finite DEF QuotaInv

(* No step but an insert makes an app count that did not count before: one  *)
(* that had expired is among the revived ones when it is up again.         *)
LEMMA CountsLess ==
  ASSUME AccessInv, NEW a \in Apps,
         (app' = app /\ revived' = revived) \/ Drafted(a) \/ Prolonged(a) \/ Gone(a) \/ Aged,
         NEW b \in Apps, b \in (Active \ revived)'
  PROVE  b \in Active \ revived
  <1>0. /\ app \in [Apps -> AppType] /\ revived \subseteq Apps
        /\ \A c \in Apps : app[c] \in AppType /\ app[c].expires \in 0 .. PreviewTTL \cup {Null}
    BY DEF AccessInv, TypeOK, AppType
  <1>1. app'[b].kind \in {"named", "preview"} /\ app'[b].expires # 0 /\ b \notin revived'
    BY DEF Active, Existing
  <1>2. SUFFICES /\ app[b].kind \in {"named", "preview"} /\ app[b].expires # 0
                 /\ b \notin revived
    BY DEF Active, Existing
  <1>3. CASE app' = app /\ revived' = revived
    BY <1>1, <1>3
  <1>4. CASE Drafted(a)
    <2>1. app'[b].kind = app[b].kind /\ app'[b].expires = app[b].expires
      BY <1>0, <1>4 DEF Drafted, AppType
    <2>2. QED
      BY <1>1, <1>4, <2>1 DEF Drafted
  <1>5. CASE Prolonged(a)
    <2>1. PICK more \in BOOLEAN : Prolong(a, more)
      BY <1>5 DEF Prolonged
    <2>2. app'[b].kind = app[b].kind /\ (b # a => app'[b].expires = app[b].expires)
      BY <1>0, <2>1 DEF Prolong, AppType
    <2>3. revived \subseteq revived' /\ (app[a].expires = 0 => a \in revived')
      BY <2>1 DEF Prolong
    <2>4. QED
      BY <1>1, <2>2, <2>3
  <1>6. CASE Gone(a)
    <2>1. app' = [app EXCEPT ![a] = GoneApp] /\ revived' = revived \ {a} /\ GoneApp.kind = "gone"
      BY <1>6 DEF Gone, GoneApp, NoApp
    <2>2. b # a
      BY <1>0, <1>1, <2>1
    <2>3. QED
      BY <1>0, <1>1, <2>1, <2>2
  <1>7. CASE Aged
    <2>1. app'[b] = [app[b] EXCEPT !.expires = Sooner(app[b].expires)] /\ revived' = revived
      BY <1>7 DEF Aged
    <2>2. app'[b].kind = app[b].kind /\ app'[b].expires = Sooner(app[b].expires)
      BY <1>0, <2>1 DEF AppType
    <2>3. app[b].expires = 0 => Sooner(app[b].expires) = 0
      BY <1>0, SoonerType
    <2>4. QED
      BY <1>1, <2>1, <2>2, <2>3
  <1>8. QED
    BY <1>3, <1>4, <1>5, <1>6, <1>7

LEMMA QuotaStep ==
  ASSUME AccessInv, AccessInv', QuotaInv, [Next]_vars
  PROVE  QuotaInv'
  <1>0. /\ req \in [Requests -> ReqType] /\ app \in [Apps -> AppType] /\ req' \in [Requests -> ReqType]
    BY DEF AccessInv, TypeOK
  <1>1. ASSUME NEW q \in Requests, Took(q) PROVE Inserting' \subseteq Inserting
    <2>1. PICK r : /\ req' = [req EXCEPT ![q] = r]
                   /\ r.pc \in {"recheck", "insert"} => req[q].pc = "recheck"
      BY <1>1 DEF Took, Becomes
    <2>2. QED
      BY <1>0, <2>1 DEF Inserting
  <1>2. ASSUME NEW q \in Requests, Counted(q) PROVE QuotaInv'
    <2>1. Room(req[q].kind) /\ app' = app /\ revived' = revived
      BY <1>2 DEF Counted
    <2>2. Active \subseteq Existing /\ Existing \subseteq Apps
      BY DEF Active, Existing
    <2>3. Cardinality(Existing) \in Nat /\ Cardinality(Active) <= Cardinality(Existing)
      <3>1. IsFiniteSet(Existing)
        BY <2>2, AccessAssumption, FS_Subset
      <3>2. QED
        BY <2>2, <3>1, FS_Subset, FS_CardinalityType
    <2>4. Cardinality(Active) < MaxApps
      BY <2>1, <2>3, Finite DEF Room
    <2>5. (Active \ revived)' = Active \ revived
      BY <2>1 DEF Active, Existing
    <2>6. Cardinality(Active \ revived) <= Cardinality(Active)
      BY Finite, FS_Subset
    <2>7. Cardinality(Inserting') <= Cardinality(Requests) /\ Cardinality(Inserting') \in Nat
      <3>1. Inserting' \subseteq Requests
        BY DEF Inserting
      <3>2. IsFiniteSet(Inserting')
        BY <3>1, Finite, FS_Subset
      <3>3. QED
        BY <3>1, <3>2, Finite, FS_Subset, FS_CardinalityType
    <2>8. Cardinality(Active \ revived) + Cardinality(Inserting')
            <= MaxApps + Cardinality(Requests) - 1
      BY <2>4, <2>6, <2>7, Finite
    <2>9. QED
      BY <2>5, <2>8 DEF QuotaInv
  <1>3. ASSUME NEW q \in Requests, req[q].app \in Apps, Appears(q) PROVE QuotaInv'
    <2> DEFINE a == req[q].app
    <2>1. /\ app' = [app EXCEPT ![a] = app'[a]] /\ revived' = revived
          /\ req[q].pc = "insert" /\ req' = [req EXCEPT ![q] = IdleReq] /\ IdleReq.pc = "idle"
      BY <1>0, <1>3 DEF Appears, End, IdleReq
    <2>2. Inserting' = Inserting \ {q} /\ q \in Inserting
      BY <1>0, <2>1 DEF Inserting
    <2>3. (Active \ revived)' \subseteq (Active \ revived) \cup {a}
      <3>1. \A b \in Apps \ {a} : app'[b] = app[b]
        BY <1>0, <2>1
      <3>2. QED
        BY <2>1, <3>1 DEF Active, Existing
    <2>4. /\ Cardinality((Active \ revived)') \in Nat
          /\ Cardinality((Active \ revived)') <= Cardinality(Active \ revived) + 1
      <3> DEFINE S == (Active \ revived) \cup {a}
      <3>1. IsFiniteSet(S) /\ Cardinality(S) <= Cardinality(Active \ revived) + 1
        BY Finite, PlusOne
      <3>2. IsFiniteSet((Active \ revived)') /\ Cardinality((Active \ revived)') <= Cardinality(S)
        BY <2>3, <3>1, FS_Subset
      <3>3. Cardinality(S) \in Nat /\ Cardinality((Active \ revived)') \in Nat
        BY <3>1, <3>2, FS_CardinalityType
      <3> HIDE DEF S
      <3>4. QED
        BY <3>1, <3>2, <3>3, Finite
    <2>5. Cardinality(Inserting') = Cardinality(Inserting) - 1
      BY <2>2, Finite, FS_RemoveElement
    <2>6. QED
      BY <2>4, <2>5, Finite DEF QuotaInv
  <1>4. ASSUME (app' = app /\ revived' = revived)
                 \/ (\E a \in Apps : Drafted(a) \/ Prolonged(a) \/ Gone(a)) \/ Aged
        PROVE  (Active \ revived)' \subseteq Active \ revived
    <2>1. (Active \ revived)' \subseteq Apps
      BY DEF Active, Existing
    <2>2. QED
      BY <1>4, <2>1, CountsLess
  <1>5. CASE req' = req
    BY <1>5, <1>3, <1>4, AppStep, QuotaKept DEF Inserting
  <1>6. QED
    BY <1>1, <1>2, <1>3, <1>4, <1>5, AppStep, ReqStep, QuotaKept

(* However many requests count before they insert, what is up beyond the    *)
(* limit is at most one app for every other request, apart from previews    *)
(* that were deployed again after they had expired.                        *)
THEOREM QuotaCorrect == Spec => []OverQuotaBounded
  <1>1. Init => QuotaInv
    <2> SUFFICES ASSUME Init PROVE QuotaInv
      OBVIOUS
    <2>1. Active \ revived = {} /\ Inserting = {}
      BY DEF Init, Active, Existing, NoApp, Inserting, IdleReq
    <2>2. Cardinality({}) = 0
      BY FS_EmptySet
    <2>3. Cardinality(Requests) \in Nat /\ Cardinality(Requests) # 0
      BY AccessAssumption, FS_EmptySet, FS_CardinalityType
    <2>4. MaxApps \in Nat /\ 0 <= MaxApps + Cardinality(Requests) - 1
      BY <2>3, AccessAssumption
    <2>5. Cardinality(Active \ revived) = 0 /\ Cardinality(Inserting) = 0
      BY <2>1, <2>2
    <2>6. QED
      BY <2>4, <2>5 DEF QuotaInv
  <1>2. AccessInv /\ AccessInv' /\ QuotaInv /\ [Next]_vars => QuotaInv'
    BY QuotaStep
  <1>3. AccessInv /\ QuotaInv => OverQuotaBounded
    BY Finite DEF QuotaInv, OverQuotaBounded
  <1>4. QED
    BY <1>1, <1>2, <1>3, AccessCorrect, PTL DEF Spec
=============================================================================
