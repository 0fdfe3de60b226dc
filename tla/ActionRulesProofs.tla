------------------------- MODULE ActionRulesProofs -------------------------
(***************************************************************************)
(* Proofs about ActionRules.  What has to be carried along is the copy each *)
(* request loaded: it may be old when it is saved or sent, but everything   *)
(* in it was once in the row, and what was approved or told of a rule is    *)
(* never taken back.                                                       *)
(***************************************************************************)
EXTENDS ActionRules, TLAPS

(* A rule that was created has a URL and a secret that a client knows, the  *)
(* last one unless an older one was put back; its permission belongs to the *)
(* URL it was approved with.                                                *)
RuleOK(r) ==
  /\ rule[r].config.private => rule[r].config.url \in approved[r]
  /\ rule[r].state # "none" =>
       /\ rule[r].config.url # NoUrl /\ rule[r].config.secret # 0
       /\ rule[r].config.secret \in told[r]
       /\ rule[r].config.secret = latest[r] \/ lapped[r]

(* The same of the copy of a request, apart from being the last. *)
CopyOK(q) ==
  req[q].pc # "idle" =>
    /\ rule[req[q].rule].state # "none" /\ req[q].seen.state = "live"
    /\ req[q].seen.config.url # NoUrl /\ req[q].seen.config.secret # 0
    /\ req[q].seen.config.secret \in told[req[q].rule]
    /\ req[q].seen.config.private => req[q].seen.config.url \in approved[req[q].rule]

RuleInv ==
  /\ TypeOK
  /\ \A r \in Rules : RuleOK(r)
  /\ \A q \in Requests : CopyOK(q)

-----------------------------------------------------------------------------
(* Configurations.                                                         *)

LEMMA EmptyTypes == Empty \in Config /\ NoRow \in Row
  BY RuleAssumption DEF Empty, Config, Secrets, NoRow, Row

LEMMA BuiltType ==
  ASSUME NEW old \in Config, NEW in \in Input, NEW fresh \in Secrets,
         NEW staff \in BOOLEAN, NEW partial \in BOOLEAN
  PROVE  Built(old, in, fresh, staff, partial) \in Config
  <1>1. BuiltUrl(old, in) \in Urls \cup {NoUrl}
    BY DEF BuiltUrl, Config, Input
  <1>2. BuiltSecret(old, in, fresh, partial) \in Secrets
    BY DEF BuiltSecret, Config, Input
  <1>3. BuiltPrivate(old, in, staff) \in BOOLEAN
    BY DEF BuiltPrivate, Config, Input
  <1>4. QED
    BY <1>1, <1>2, <1>3 DEF Built, Config

(* Without staff a permission is kept only together with its URL. *)
LEMMA BuiltPermission ==
  ASSUME NEW old \in Config, NEW in \in Input, NEW fresh, NEW partial,
         BuiltPrivate(old, in, FALSE)
  PROVE  old.private /\ BuiltUrl(old, in) = old.url
  BY DEF BuiltPrivate, BuiltUrl

(* A PATCH keeps the secret it loaded unless the client sent another. *)
LEMMA PatchedSecret ==
  ASSUME NEW old \in Config, NEW in \in Input, NEW fresh
  PROVE  BuiltSecret(old, in, fresh, TRUE) = IF in.secret # 0 THEN in.secret ELSE old.secret
  BY DEF BuiltSecret

(* A created rule has a secret: the one sent or the fresh one. *)
LEMMA CreatedSecret ==
  ASSUME NEW in \in Input, NEW fresh \in Secrets, fresh # 0
  PROVE  BuiltSecret(Empty, in, fresh, FALSE) # 0
  BY DEF BuiltSecret, Empty

(* What Observe does to one rule, and that it leaves the others alone. *)
LEMMA Observed ==
  ASSUME TypeOK, NEW r \in Rules, NEW config \in Config, NEW staff \in BOOLEAN,
         NEW in \in Input, NEW answered \in BOOLEAN,
         Observe(r, config, staff, in, answered)
  PROVE  /\ approved' \in [Rules -> SUBSET Urls] /\ told' \in [Rules -> SUBSET Secrets]
         /\ latest' \in [Rules -> Secrets] /\ lapped' \in [Rules -> BOOLEAN]
         /\ \A s \in Rules : approved[s] \subseteq approved'[s] /\ told[s] \subseteq told'[s]
         /\ \A s \in Rules \ {r} : latest'[s] = latest[s] /\ lapped'[s] = lapped[s]
         /\ staff /\ config.private /\ config.url # NoUrl => config.url \in approved'[r]
         /\ answered \/ in.secret # 0 =>
              config.secret \in told'[r] /\ config.secret = latest'[r]
         /\ ~(answered \/ in.secret # 0) /\ ~lapped'[r] =>
              /\ latest'[r] = latest[r] /\ ~lapped[r]
              /\ config.secret = rule[r].config.secret
  <1> DEFINE known == answered \/ in.secret # 0
  <1>1. /\ config.url \in Urls \cup {NoUrl} /\ config.secret \in Secrets
        /\ approved \in [Rules -> SUBSET Urls] /\ told \in [Rules -> SUBSET Secrets]
        /\ latest \in [Rules -> Secrets] /\ lapped \in [Rules -> BOOLEAN]
    BY DEF TypeOK, Config
  <1>2. /\ approved' = IF staff /\ config.private
                         THEN [approved EXCEPT ![r] = approved[r] \cup ({config.url} \cap Urls)]
                         ELSE approved
        /\ told' = IF known THEN [told EXCEPT ![r] = told[r] \cup {config.secret}] ELSE told
        /\ latest' = IF known THEN [latest EXCEPT ![r] = config.secret] ELSE latest
        /\ lapped' = [lapped EXCEPT ![r] = ~known /\ (lapped[r]
                                             \/ config.secret # rule[r].config.secret)]
    BY DEF Observe
  <1>3. known \in BOOLEAN
    OBVIOUS
  <1> HIDE DEF known
  <1>4. /\ approved' \in [Rules -> SUBSET Urls]
        /\ \A s \in Rules : approved[s] \subseteq approved'[s]
        /\ staff /\ config.private /\ config.url # NoUrl => config.url \in approved'[r]
    BY <1>1, <1>2
  <1>5. /\ told' \in [Rules -> SUBSET Secrets]
        /\ \A s \in Rules : told[s] \subseteq told'[s]
        /\ known => config.secret \in told'[r]
    BY <1>1, <1>2, <1>3
  <1>6. /\ latest' \in [Rules -> Secrets]
        /\ \A s \in Rules \ {r} : latest'[s] = latest[s]
        /\ IF known THEN latest'[r] = config.secret ELSE latest'[r] = latest[r]
    BY <1>1, <1>2, <1>3
  <1>7. /\ lapped' \in [Rules -> BOOLEAN]
        /\ \A s \in Rules \ {r} : lapped'[s] = lapped[s]
        /\ ~known /\ ~lapped'[r] => ~lapped[r] /\ config.secret = rule[r].config.secret
    BY <1>1, <1>2, <1>3
  <1>8. QED
    BY <1>4, <1>5, <1>6, <1>7 DEF known

-----------------------------------------------------------------------------
(* Requests.                                                               *)

(* Request q ends, the others keep what they have. *)
LEMMA DoneEffect ==
  ASSUME TypeOK, NEW q \in Requests, Done(q)
  PROVE  /\ req' \in [Requests -> Request] /\ req'[q].pc = "idle"
         /\ \A o \in Requests \ {q} : req'[o] = req[o]
  <1>1. req' = [req EXCEPT ![q] = [req[q] EXCEPT !.pc = "idle", !.staff = FALSE, !.seen = NoRow]]
    BY DEF Done
  <1>2. req \in [Requests -> Request] /\ req[q] \in Request
    BY DEF TypeOK
  <1>3. /\ [req[q] EXCEPT !.pc = "idle", !.staff = FALSE, !.seen = NoRow] \in Request
        /\ [req[q] EXCEPT !.pc = "idle", !.staff = FALSE, !.seen = NoRow].pc = "idle"
    BY <1>2, EmptyTypes DEF Request
  <1>4. QED
    BY <1>1, <1>2, <1>3

(* Nothing that the invariant says of a copy is taken back. *)
Kept == \A r \in Rules : /\ approved[r] \subseteq approved'[r] /\ told[r] \subseteq told'[r]
                         /\ rule[r].state # "none" => rule'[r].state # "none"

LEMMA CopyKept ==
  ASSUME RuleInv, Kept, NEW o \in Requests,
         \/ req'[o] = req[o]
         \/ req'[o].pc = "idle"
         \/ /\ req[o].pc # "idle"
            /\ req'[o].rule = req[o].rule /\ req'[o].seen = req[o].seen
  PROVE  CopyOK(o)'
  <1>1. CopyOK(o) /\ req[o].rule \in Rules
    BY DEF RuleInv, TypeOK, Request
  <1>2. QED
    BY <1>1 DEF CopyOK, Kept

(* A rule whose row and observers stay stays right. *)
LEMMA RuleKept ==
  ASSUME RuleInv, NEW r \in Rules, rule'[r] = rule[r],
         approved[r] \subseteq approved'[r], told[r] \subseteq told'[r],
         latest'[r] = latest[r], lapped'[r] = lapped[r]
  PROVE  RuleOK(r)'
  BY DEF RuleInv, RuleOK

(* A handler that only reads: it loads a live rule, sends, or ends. *)
LEMMA ReadStep ==
  ASSUME RuleInv, UNCHANGED <<rule, minted, approved, told, latest, lapped>>,
         req' \in [Requests -> Request], \A o \in Requests : CopyOK(o)'
  PROVE  RuleInv'
  <1>1. TypeOK'
    BY DEF RuleInv, TypeOK
  <1>2. \A r \in Rules : RuleOK(r)'
    BY DEF RuleInv, RuleOK
  <1>3. QED
    BY <1>1, <1>2 DEF RuleInv

LEMMA LoadStep ==
  ASSUME RuleInv, NEW q \in Requests, NEW r \in Rules, NEW staff \in BOOLEAN,
         rule[r].state = "live",
         req' = [req EXCEPT ![q] = [pc |-> "loaded", rule |-> r, staff |-> staff,
                                    seen |-> rule[r]]],
         UNCHANGED <<rule, minted, approved, told, latest, lapped>>
  PROVE  RuleInv'
  <1> DEFINE copy == [pc |-> "loaded", rule |-> r, staff |-> staff, seen |-> rule[r]]
  <1>1. req \in [Requests -> Request] /\ rule[r] \in Row
    BY DEF RuleInv, TypeOK
  <1>2. copy \in Request /\ copy.pc = "loaded" /\ copy.rule = r /\ copy.seen = rule[r]
    BY <1>1 DEF Request
  <1> HIDE DEF copy
  <1>3. req' = [req EXCEPT ![q] = copy]
    BY DEF copy
  <1>4. req' \in [Requests -> Request] /\ req'[q] = copy /\ \A o \in Requests \ {q} : req'[o] = req[o]
    BY <1>1, <1>2, <1>3
  <1>5. CopyOK(q)'
    BY <1>2, <1>4 DEF RuleInv, RuleOK, CopyOK
  <1>6. \A o \in Requests : CopyOK(o)'
    BY <1>4, <1>5, CopyKept DEF Kept
  <1>7. QED
    BY <1>4, <1>6, ReadStep

-----------------------------------------------------------------------------
(* Handlers that save.                                                     *)

LEMMA CreateStep ==
  ASSUME RuleInv, NEW p \in Principal, NEW r \in Rules, NEW in \in Input,
         NEW e \in BOOLEAN, Create(p, r, in, e)
  PROVE  RuleInv'
  <1> DEFINE config == Built(Empty, in, minted + 1, p.staff, FALSE)
             row    == [rule[r] EXCEPT !.state = "live", !.enabled = e, !.config = config]
  <1>1. TypeOK /\ rule \in [Rules -> Row] /\ minted \in Secrets /\ p.staff \in BOOLEAN
    BY DEF RuleInv, TypeOK, Principal
  <1>2. minted + 1 \in Secrets /\ minted + 1 # 0
    BY <1>1, RuleAssumption DEF Create, Secrets
  <1>3. config \in Config
    BY <1>1, <1>2, EmptyTypes, BuiltType
  <1>4. config.url # NoUrl /\ config.secret # 0 /\ (config.private => p.staff)
    <2>1. config.url # NoUrl
      BY DEF Create, Built, BuiltUrl
    <2>2. config.secret # 0
      BY <1>2, CreatedSecret DEF Built
    <2>3. config.private => p.staff
      BY DEF Built, BuiltPrivate, Empty
    <2>4. QED
      BY <2>1, <2>2, <2>3
  <1>5. /\ rule' = [rule EXCEPT ![r].state = "live", ![r].enabled = e, ![r].config = config]
        /\ minted' = minted + 1 /\ req' = req
        /\ Observe(r, config, p.staff, in, TRUE)
    BY DEF Create
  <1> HIDE DEF config
  <1>6. rule' = [rule EXCEPT ![r] = row]
    BY <1>1, <1>5
  <1>7. row \in Row /\ row.state = "live" /\ row.config = config
    BY <1>1, <1>3 DEF Row
  <1> HIDE DEF row
  <1>8. rule' \in [Rules -> Row] /\ rule'[r] = row /\ \A s \in Rules \ {r} : rule'[s] = rule[s]
    BY <1>1, <1>6, <1>7
  <1>9. /\ approved' \in [Rules -> SUBSET Urls] /\ told' \in [Rules -> SUBSET Secrets]
        /\ latest' \in [Rules -> Secrets] /\ lapped' \in [Rules -> BOOLEAN]
        /\ \A s \in Rules : approved[s] \subseteq approved'[s] /\ told[s] \subseteq told'[s]
        /\ \A s \in Rules \ {r} : latest'[s] = latest[s] /\ lapped'[s] = lapped[s]
        /\ p.staff /\ config.private /\ config.url # NoUrl => config.url \in approved'[r]
        /\ config.secret \in told'[r] /\ config.secret = latest'[r]
    BY <1>1, <1>3, <1>5, Observed
  <1>10. RuleOK(r)'
    BY <1>4, <1>7, <1>8, <1>9 DEF RuleOK
  <1>11. \A s \in Rules : RuleOK(s)'
    BY <1>8, <1>9, <1>10, RuleKept
  <1>12. \A o \in Requests : CopyOK(o)'
    <2>1. Kept
      BY <1>7, <1>8, <1>9 DEF Kept
    <2>2. QED
      BY <1>5, <2>1, CopyKept
  <1>13. TypeOK'
    BY <1>1, <1>2, <1>5, <1>8, <1>9, <1>11 DEF TypeOK, RuleOK
  <1>14. QED
    BY <1>11, <1>12, <1>13 DEF RuleInv

LEMMA PatchStep ==
  ASSUME RuleInv, NEW q \in Requests, NEW in \in Input, NEW e \in BOOLEAN, Patch(q, in, e)
  PROVE  RuleInv'
  <1> DEFINE r      == req[q].rule
             seen   == req[q].seen
             staff  == req[q].staff
             config == Built(seen.config, in, minted, staff, TRUE)
             row    == [seen EXCEPT !.enabled = e, !.config = config]
  <1>1. /\ TypeOK /\ rule \in [Rules -> Row] /\ minted \in Secrets
        /\ r \in Rules /\ seen \in Row /\ seen.config \in Config /\ staff \in BOOLEAN
    BY DEF RuleInv, TypeOK, Request, Row
  <1>2. /\ rule[r].state # "none" /\ seen.state = "live"
        /\ seen.config.secret # 0 /\ seen.config.secret \in told[r]
        /\ seen.config.private => seen.config.url \in approved[r]
    BY DEF RuleInv, CopyOK, Patch, At
  <1>3. config \in Config
    BY <1>1, BuiltType
  <1>4. /\ config.url = BuiltUrl(seen.config, in) /\ config.url # NoUrl
        /\ config.private = BuiltPrivate(seen.config, in, staff)
        /\ config.secret = IF in.secret # 0 THEN in.secret ELSE seen.config.secret
    BY <1>1, PatchedSecret DEF Patch, Built
  <1>5. config.private /\ ~staff => seen.config.private /\ config.url = seen.config.url
    BY <1>1, <1>4, BuiltPermission
  <1>6. /\ rule' = [rule EXCEPT ![r] = row]
        /\ minted' = IF in.secret > minted THEN in.secret ELSE minted
        /\ Observe(r, config, staff, in, FALSE)
        /\ Done(q)
    BY DEF Patch
  <1>7. row \in Row /\ row.state = "live" /\ row.config = config
    BY <1>1, <1>2, <1>3 DEF Row
  <1> HIDE DEF r, seen, staff, config, row
  <1>8. /\ approved' \in [Rules -> SUBSET Urls] /\ told' \in [Rules -> SUBSET Secrets]
        /\ latest' \in [Rules -> Secrets] /\ lapped' \in [Rules -> BOOLEAN]
        /\ \A s \in Rules : approved[s] \subseteq approved'[s] /\ told[s] \subseteq told'[s]
        /\ \A s \in Rules \ {r} : latest'[s] = latest[s] /\ lapped'[s] = lapped[s]
        /\ staff /\ config.private /\ config.url # NoUrl => config.url \in approved'[r]
        /\ in.secret # 0 => config.secret \in told'[r] /\ config.secret = latest'[r]
        /\ in.secret = 0 /\ ~lapped'[r] => /\ latest'[r] = latest[r] /\ ~lapped[r]
                                           /\ config.secret = rule[r].config.secret
    <2>1. PICK answered \in BOOLEAN : answered = FALSE
      OBVIOUS
    <2>2. Observe(r, config, staff, in, answered)
      BY <1>6, <2>1
    <2>3. TypeOK /\ r \in Rules /\ config \in Config /\ staff \in BOOLEAN
      BY <1>1, <1>3
    <2>4. /\ approved' \in [Rules -> SUBSET Urls] /\ told' \in [Rules -> SUBSET Secrets]
          /\ latest' \in [Rules -> Secrets] /\ lapped' \in [Rules -> BOOLEAN]
          /\ \A s \in Rules : approved[s] \subseteq approved'[s] /\ told[s] \subseteq told'[s]
          /\ \A s \in Rules \ {r} : latest'[s] = latest[s] /\ lapped'[s] = lapped[s]
          /\ staff /\ config.private /\ config.url # NoUrl => config.url \in approved'[r]
          /\ answered \/ in.secret # 0 =>
               config.secret \in told'[r] /\ config.secret = latest'[r]
          /\ ~(answered \/ in.secret # 0) /\ ~lapped'[r] =>
               /\ latest'[r] = latest[r] /\ ~lapped[r]
               /\ config.secret = rule[r].config.secret
      BY <2>2, <2>3, Observed
    <2>5. QED
      BY <2>1, <2>4
  <1>9. minted' \in Secrets
    BY <1>1, <1>6 DEF Input
  <1>10. req' \in [Requests -> Request] /\ req'[q].pc = "idle"
         /\ \A o \in Requests \ {q} : req'[o] = req[o]
    BY <1>1, <1>6, DoneEffect
  <1>11. RuleOK(r)
    BY <1>1 DEF RuleInv
  <1>12. rule' \in [Rules -> Row] /\ rule'[r] = row /\ \A s \in Rules \ {r} : rule'[s] = rule[s]
    BY <1>1, <1>6, <1>7
  <1>13. config.private => config.url \in approved'[r]
    BY <1>1, <1>2, <1>4, <1>5, <1>8
  <1>14. config.secret # 0 /\ config.secret \in told'[r]
    BY <1>1, <1>2, <1>4, <1>8
  <1>15. config.secret = latest'[r] \/ lapped'[r]
    BY <1>2, <1>8, <1>11 DEF RuleOK
  <1>16. \A s \in Rules : RuleOK(s)'
    <2>1. ASSUME NEW s \in Rules, s = r PROVE RuleOK(s)'
      BY <1>4, <1>7, <1>12, <1>13, <1>14, <1>15, <2>1 DEF RuleOK
    <2>2. ASSUME NEW s \in Rules, s # r PROVE RuleOK(s)'
      BY <1>8, <1>12, <2>2, RuleKept
    <2>3. QED
      BY <2>1, <2>2
  <1>17. \A o \in Requests : CopyOK(o)'
    <2>1. Kept
      BY <1>7, <1>8, <1>12 DEF Kept
    <2>2. QED
      BY <1>10, <2>1, CopyKept
  <1>18. TypeOK'
    BY <1>8, <1>9, <1>10, <1>12, <1>16 DEF TypeOK, RuleOK
  <1>19. QED
    BY <1>16, <1>17, <1>18 DEF RuleInv

LEMMA RotateStep ==
  ASSUME RuleInv, NEW q \in Requests, Rotate(q)
  PROVE  RuleInv'
  <1> DEFINE r      == req[q].rule
             seen   == req[q].seen
             config == [seen.config EXCEPT !.secret = minted + 1]
             row    == [rule[r] EXCEPT !.config = config]
  <1>1. /\ TypeOK /\ rule \in [Rules -> Row] /\ minted \in Secrets /\ rule[r] \in Row
        /\ r \in Rules /\ seen \in Row /\ seen.config \in Config
        /\ approved \in [Rules -> SUBSET Urls] /\ told \in [Rules -> SUBSET Secrets]
        /\ latest \in [Rules -> Secrets] /\ lapped \in [Rules -> BOOLEAN]
    BY DEF RuleInv, TypeOK, Request, Row
  <1>2. /\ seen.config.url # NoUrl
        /\ seen.config.private => seen.config.url \in approved[r]
    BY DEF RuleInv, CopyOK, Rotate, At
  <1>3. /\ minted' = minted + 1 /\ minted' \in Secrets /\ minted' # 0
    BY <1>1, RuleAssumption DEF Rotate, Secrets
  <1>4. /\ config \in Config /\ config.secret = minted'
        /\ config.url = seen.config.url /\ config.private = seen.config.private
    BY <1>1, <1>3 DEF Config
  <1>5. approved' = approved /\ Done(q)
    BY DEF Rotate
  <1>6. req' \in [Requests -> Request] /\ req'[q].pc = "idle"
        /\ \A o \in Requests \ {q} : req'[o] = req[o]
    BY <1>1, <1>5, DoneEffect
  <1>7. CASE rule[r].state = "live"
    <2>1. /\ rule' = [rule EXCEPT ![r] = row]
          /\ told' = [told EXCEPT ![r] = told[r] \cup {config.secret}]
          /\ latest' = [latest EXCEPT ![r] = config.secret]
          /\ lapped' = [lapped EXCEPT ![r] = FALSE]
      BY <1>7 DEF Rotate, Rotated
    <2>2. row \in Row /\ row.state = "live" /\ row.config = config
      BY <1>1, <1>4, <1>7 DEF Row
    <2> HIDE DEF r, seen, config, row
    <2>3. rule' \in [Rules -> Row] /\ rule'[r] = row /\ \A s \in Rules \ {r} : rule'[s] = rule[s]
      BY <1>1, <2>1, <2>2
    <2>4. config.secret \in Secrets
      BY <1>3, <1>4
    <2>5. /\ told' \in [Rules -> SUBSET Secrets] /\ \A s \in Rules : told[s] \subseteq told'[s]
          /\ config.secret \in told'[r]
      BY <1>1, <2>1, <2>4
    <2>6. /\ latest' \in [Rules -> Secrets] /\ lapped' \in [Rules -> BOOLEAN]
          /\ \A s \in Rules \ {r} : latest'[s] = latest[s] /\ lapped'[s] = lapped[s]
          /\ config.secret = latest'[r]
      BY <1>1, <2>1, <2>4
    <2>7. \A s \in Rules : RuleOK(s)'
      <3>1. ASSUME NEW s \in Rules, s = r PROVE RuleOK(s)'
        BY <1>2, <1>3, <1>4, <1>5, <2>2, <2>3, <2>5, <2>6, <3>1 DEF RuleOK
      <3>2. ASSUME NEW s \in Rules, s # r PROVE RuleOK(s)'
        BY <1>5, <2>3, <2>5, <2>6, <3>2, RuleKept
      <3>3. QED
        BY <3>1, <3>2
    <2>8. \A o \in Requests : CopyOK(o)'
      <3>1. Kept
        BY <1>5, <2>2, <2>3, <2>5 DEF Kept
      <3>2. QED
        BY <1>6, <3>1, CopyKept
    <2>9. TypeOK'
      BY <1>1, <1>3, <1>5, <1>6, <2>3, <2>5, <2>6, <2>7 DEF TypeOK, RuleOK
    <2>10. QED
      BY <2>7, <2>8, <2>9 DEF RuleInv
  <1>8. CASE rule[r].state # "live"
    <2>1. rule' = rule
      BY <1>1, <1>8 DEF Rotate, Rotated
    <2>2. told' = told /\ latest' = latest /\ lapped' = lapped
      BY <1>8 DEF Rotate
    <2>3. \A s \in Rules : RuleOK(s)'
      BY <1>5, <2>1, <2>2, RuleKept
    <2>4. \A o \in Requests : CopyOK(o)'
      <3>1. Kept
        BY <1>5, <2>1, <2>2 DEF Kept
      <3>2. QED
        BY <1>6, <3>1, CopyKept
    <2>5. TypeOK'
      BY <1>1, <1>3, <1>5, <1>6, <2>1, <2>2, <2>3 DEF TypeOK, RuleOK
    <2>6. QED
      BY <2>3, <2>4, <2>5 DEF RuleInv
  <1>9. QED
    BY <1>7, <1>8

LEMMA DeleteStep ==
  ASSUME RuleInv, NEW q \in Requests, Delete(q)
  PROVE  RuleInv'
  <1> DEFINE r   == req[q].rule
             row == [rule[r] EXCEPT !.state = "deleted"]
  <1>1. /\ TypeOK /\ rule \in [Rules -> Row] /\ r \in Rules /\ rule[r] \in Row
        /\ RuleOK(r) /\ rule[r].state # "none"
    BY DEF RuleInv, TypeOK, Request, CopyOK, Delete, At
  <1>2. /\ rule' = [rule EXCEPT ![r] = row] /\ Done(q)
        /\ UNCHANGED <<minted, approved, told, latest, lapped>>
    BY DEF Delete
  <1>3. row \in Row /\ row.state = "deleted" /\ row.config = rule[r].config
    BY <1>1 DEF Row
  <1> HIDE DEF r, row
  <1>4. rule' \in [Rules -> Row] /\ rule'[r] = row /\ \A s \in Rules \ {r} : rule'[s] = rule[s]
    BY <1>1, <1>2, <1>3
  <1>5. req' \in [Requests -> Request] /\ req'[q].pc = "idle"
        /\ \A o \in Requests \ {q} : req'[o] = req[o]
    BY <1>1, <1>2, DoneEffect
  <1>6. \A s \in Rules : RuleOK(s)'
    <2>1. ASSUME NEW s \in Rules, s = r PROVE RuleOK(s)'
      BY <1>1, <1>2, <1>3, <1>4, <2>1 DEF RuleOK
    <2>2. ASSUME NEW s \in Rules, s # r PROVE RuleOK(s)'
      BY <1>2, <1>4, <2>2, RuleKept
    <2>3. QED
      BY <2>1, <2>2
  <1>7. \A o \in Requests : CopyOK(o)'
    <2>1. Kept
      BY <1>2, <1>3, <1>4 DEF Kept
    <2>2. QED
      BY <1>5, <2>1, CopyKept
  <1>8. TypeOK'
    BY <1>1, <1>2, <1>4, <1>5, <1>6 DEF TypeOK, RuleOK
  <1>9. QED
    BY <1>6, <1>7, <1>8 DEF RuleInv

-----------------------------------------------------------------------------
LEMMA RuleStep ==
  ASSUME RuleInv, [Next]_vars
  PROVE  RuleInv'
  <1>0. TypeOK
    BY DEF RuleInv
  <1>1. ASSUME NEW p \in Principal, NEW r \in Rules, NEW in \in Input, NEW e \in BOOLEAN,
               Create(p, r, in, e)
        PROVE  RuleInv'
    BY <1>1, CreateStep
  <1>2. ASSUME NEW q \in Requests, NEW r \in Rules,
               LoadDelivery(q, r) \/ \E p \in Principal : Load(q, p, r)
        PROVE  RuleInv'
    <2>1. \E staff \in BOOLEAN :
             req' = [req EXCEPT ![q] = [pc |-> "loaded", rule |-> r, staff |-> staff,
                                        seen |-> rule[r]]]
      BY <1>2 DEF Load, LoadDelivery, Principal
    <2>2. /\ rule[r].state = "live"
          /\ UNCHANGED <<rule, minted, approved, told, latest, lapped>>
      BY <1>2 DEF Load, LoadDelivery
    <2>3. QED
      BY <2>1, <2>2, LoadStep
  <1>3. ASSUME NEW q \in Requests, NEW in \in Input, NEW e \in BOOLEAN, Patch(q, in, e)
        PROVE  RuleInv'
    BY <1>3, PatchStep
  <1>4. ASSUME NEW q \in Requests, Rotate(q) PROVE RuleInv'
    BY <1>4, RotateStep
  <1>5. ASSUME NEW q \in Requests, Delete(q) PROVE RuleInv'
    BY <1>5, DeleteStep
  <1>6. ASSUME NEW q \in Requests, Refuse(q) \/ Answered(q) PROVE RuleInv'
    <2>1. Done(q) /\ UNCHANGED <<rule, minted, approved, told, latest, lapped>>
      BY <1>6 DEF Refuse, Answered
    <2>2. req' \in [Requests -> Request] /\ req'[q].pc = "idle"
          /\ \A o \in Requests \ {q} : req'[o] = req[o]
      BY <1>0, <2>1, DoneEffect
    <2>3. \A o \in Requests : CopyOK(o)'
      BY <2>1, <2>2, CopyKept DEF Kept
    <2>4. QED
      BY <2>1, <2>2, <2>3, ReadStep
  <1>7. ASSUME NEW q \in Requests, Send(q) PROVE RuleInv'
    <2>1. /\ req[q].pc = "loaded" /\ req' = [req EXCEPT ![q].pc = "posting"]
          /\ UNCHANGED <<rule, minted, approved, told, latest, lapped>>
      BY <1>7 DEF Send, At
    <2>2. /\ req' \in [Requests -> Request] /\ \A o \in Requests \ {q} : req'[o] = req[o]
          /\ req'[q].rule = req[q].rule /\ req'[q].seen = req[q].seen
      BY <1>0, <2>1 DEF TypeOK, Request
    <2>3. \A o \in Requests : CopyOK(o)'
      BY <2>1, <2>2, CopyKept DEF Kept
    <2>4. QED
      BY <2>1, <2>2, <2>3, ReadStep
  <1>8. CASE UNCHANGED vars
    BY <1>8 DEF RuleInv, TypeOK, RuleOK, CopyOK, vars
  <1>9. QED
    BY <1>1, <1>2, <1>3, <1>4, <1>5, <1>6, <1>7, <1>8 DEF Next

(* Every created rule has a URL and a known secret, and so has every copy   *)
(* that a request of the views or a delivery works on.                     *)
THEOREM RulesCorrect == Spec => []RuleInv
  <1>1. Init => RuleInv
    <2> SUFFICES ASSUME Init PROVE RuleInv
      OBVIOUS
    <2>1. \A r \in Rules : rule[r] = NoRow
      BY DEF Init
    <2>2. /\ req \in [Requests -> Request]
          /\ \A q \in Requests : req[q].pc = "idle"
      BY EmptyTypes DEF Init, Request
    <2>3. TypeOK
      <3>1. 0 \in Secrets
        BY RuleAssumption DEF Secrets
      <3>2. rule \in [Rules -> Row] /\ \A r \in Rules : rule[r].state = "none"
        BY EmptyTypes DEF Init, NoRow
      <3>3. QED
        BY <2>2, <3>1, <3>2 DEF Init, TypeOK
    <2>4. QED
      BY <2>1, <2>2, <2>3 DEF RuleInv, RuleOK, CopyOK, NoRow, Empty
  <1>2. QED
    BY <1>1, RuleStep, PTL DEF Spec

(* The variables have their types and no created rule lacks URL or secret. *)
THEOREM TypeCorrect == Spec => []TypeOK
  <1>1. RuleInv => TypeOK
    BY DEF RuleInv
  <1>2. QED
    BY <1>1, RulesCorrect, PTL

(* A rule or a webhook under way reaches private addresses only at a URL    *)
(* that staff approved, for any number of requests in any order.           *)
THEOREM PrivateCorrect == Spec => []PrivateUrlApproved
  <1>1. RuleInv => PrivateUrlApproved
    BY DEF RuleInv, RuleOK, CopyOK, PrivateUrlApproved, At
  <1>2. QED
    BY <1>1, RulesCorrect, PTL

(* Webhooks are signed with a secret a client was told, and a rule holds    *)
(* the last one unless a stale PATCH put an older one back.                *)
THEOREM SignedCorrect == Spec => []SignedBySharedSecret
  <1>1. RuleInv => SignedBySharedSecret
    BY DEF RuleInv, RuleOK, CopyOK, SignedBySharedSecret, At
  <1>2. QED
    BY <1>1, RulesCorrect, PTL
=============================================================================
