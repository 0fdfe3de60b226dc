---------------------------- MODULE ActionRules ----------------------------
(***************************************************************************)
(* Administration of webhook rules (apps/actions/admin_api_views.py and     *)
(* rule_config.py) while their webhooks are sent.  Every handler loads the  *)
(* ActionRule, works on that copy and then saves it: a PATCH writes every   *)
(* column back, a rotation only config, and nothing locks the row.  The     *)
(* views run in autocommit, so others act between a load and its save.      *)
(* Outbox has the deliveries; here a rule is what they are sent with.       *)
(***************************************************************************)
EXTENDS Integers

CONSTANTS
  Rules,      \* primary keys rules are created with
  Urls,       \* webhook URLs that URLField accepts, without the empty one
  Companies,  \* company ids
  CompanyOf,  \* CompanyOf[r]: the company_id that rule r is created for
  Requests,   \* requests and deliveries in progress at once
  MaxSecrets, \* bound: signing secrets made or sent by clients
  NoUrl, NoCompany

ASSUME RuleAssumption ==
  /\ MaxSecrets \in Nat
  /\ CompanyOf \in [Rules -> Companies]
  /\ NoUrl \notin Urls /\ NoCompany \notin Companies

VARIABLES
  rule,     \* rule[r]: the row of r, in every state it may have had
  req,      \* req[q]: what request q has in memory
  minted,   \* secrets made so far; they are numbered, 0 is none
  approved, \* URLs of each rule stored with the permission by staff (observer)
  told,     \* secrets of each rule a client sent or was answered (observer)
  latest,   \* the last of them (observer)
  lapped    \* a PATCH has put an older secret back since (observer)

vars == <<rule, req, minted, approved, told, latest, lapped>>

-----------------------------------------------------------------------------
Secrets == 0 .. MaxSecrets

(* ActionRule.config; the authorization header is carried like a secret. *)
Config == [url : Urls \cup {NoUrl}, secret : Secrets, private : BOOLEAN]
Empty  == [url |-> NoUrl, secret |-> 0, private |-> FALSE]

Row == [state   : {"none", "live", "deleted"},
        enabled : BOOLEAN,
        config  : Config]
NoRow == [state |-> "none", enabled |-> FALSE, config |-> Empty]

Request == [pc    : {"idle", "loaded", "posting"},
            rule  : Rules,
            staff : BOOLEAN,   \* the principal's is_staff
            seen  : Row]       \* the row as it was loaded

(* Types, and what every rule that was created has. *)
TypeOK ==
  /\ rule \in [Rules -> Row]
  /\ \A r \in Rules : rule[r].state # "none" => /\ rule[r].config.url # NoUrl
                                               /\ rule[r].config.secret # 0
  /\ req \in [Requests -> Request]
  /\ minted \in Secrets
  /\ approved \in [Rules -> SUBSET Urls]
  /\ told \in [Rules -> SUBSET Secrets]
  /\ latest \in [Rules -> Secrets]
  /\ lapped \in [Rules -> BOOLEAN]

Init ==
  /\ rule = [r \in Rules |-> NoRow]
  /\ \E r \in Rules : req = [q \in Requests |-> [pc |-> "idle", rule |-> r, staff |-> FALSE,
                                                  seen |-> NoRow]]
  /\ minted = 0
  /\ approved = [r \in Rules |-> {}]
  /\ told = [r \in Rules |-> {}]
  /\ latest = [r \in Rules |-> 0]
  /\ lapped = [r \in Rules |-> FALSE]

-----------------------------------------------------------------------------
(* What authentication makes of a token. *)
Principal == [company : Companies \cup {NoCompany}, staff : BOOLEAN,
              owner : BOOLEAN, readonly : BOOLEAN]

(* ActionsAdminPermission for a method that writes. *)
Permitted(p) == ~p.readonly

(* The company an admin request is about: its company_id parameter or, *)
(* without one, the token's.                                            *)
Scope(p, query) == IF query # NoCompany THEN query ELSE p.company

(* require_staff_or_company_owner lets it through. *)
InScope(p, query) ==
  /\ query \in {NoCompany, p.company} \/ p.staff
  /\ Scope(p, query) # NoCompany
  /\ p.staff \/ p.owner

(* Principal p may work on the rules of company c. *)
May(p, c) ==
  /\ Permitted(p)
  /\ \E query \in Companies \cup {NoCompany} : InScope(p, query) /\ Scope(p, query) = c

-----------------------------------------------------------------------------
(* build_webhook_config.  A client sends a URL or none, a secret or none    *)
(* (0; a blank one counts as none) and the permission "on", "off" or not.   *)

Input == [url : Urls \cup {NoUrl}, secret : Secrets, private : {"on", "off", "unset"}]

BuiltUrl(old, in) == IF in.url # NoUrl THEN in.url ELSE old.url

BuiltSecret(old, in, fresh, partial) ==
  IF in.secret # 0 THEN in.secret
  ELSE IF old.secret # 0 \/ partial THEN old.secret ELSE fresh

PrivateKept(old, in, staff) ==   \* mutant: a new URL inherits the permission
  IF staff /\ in.private # "unset" THEN in.private = "on" ELSE old.private

(* Staff set the permission.  For others it ends with the URL it was given to. *)
BuiltPrivate(old, in, staff) ==
  IF staff THEN in.private = "on" \/ (old.private /\ in.private = "unset")
           ELSE old.private /\ in.url \in {NoUrl, old.url}

Built(old, in, fresh, staff, partial) ==
  [url     |-> BuiltUrl(old, in),
   secret  |-> BuiltSecret(old, in, fresh, partial),
   private |-> BuiltPrivate(old, in, staff)]

(* A secret in the request is new or one that the rule has had. *)
Sent(in, r) == in.secret \in told[r] \cup {0, minted + 1}

-----------------------------------------------------------------------------
(* Observers of a saved config.  answered: the secret is in the response;  *)
(* otherwise the client knows it only if it sent it.                        *)
Observe(r, config, staff, in, answered) ==
  LET known == answered \/ in.secret # 0
  IN  /\ approved' = IF staff /\ config.private
                       THEN [approved EXCEPT ![r] = @ \cup ({config.url} \cap Urls)]
                       ELSE approved
      /\ told'   = IF known THEN [told EXCEPT ![r] = @ \cup {config.secret}] ELSE told
      /\ latest' = IF known THEN [latest EXCEPT ![r] = config.secret] ELSE latest
      /\ lapped' = [lapped EXCEPT ![r] = ~known /\ (@ \/ config.secret # rule[r].config.secret)]

Done(q) == req' = [req EXCEPT ![q] = [@ EXCEPT !.pc = "idle", !.staff = FALSE, !.seen = NoRow]]

At(q, pc) == req[q].pc = pc

(* POST /actions/rules: the row is inserted at once, the secret answered. *)
Create(p, r, in, enabled) ==
  LET fresh  == minted + 1
      config == Built(Empty, in, fresh, p.staff, FALSE)
  IN  /\ rule[r].state = "none"
      /\ May(p, CompanyOf[r])
      /\ in.url # NoUrl                 \* otherwise a ValidationError
      /\ Sent(in, r) /\ fresh <= MaxSecrets
      /\ rule' = [rule EXCEPT ![r].state = "live", ![r].enabled = enabled,
                              ![r].config = config]
      /\ minted' = fresh
      /\ Observe(r, config, p.staff, in, TRUE)
      /\ UNCHANGED req

(* Any other handler first loads the rule of its company, or answers 404. *)
Load(q, p, r) ==
  /\ At(q, "idle")
  /\ rule[r].state = "live"
  /\ May(p, CompanyOf[r])
  /\ req' = [req EXCEPT ![q] = [pc |-> "loaded", rule |-> r, staff |-> p.staff,
                                seen |-> rule[r]]]
  /\ UNCHANGED <<rule, minted, approved, told, latest, lapped>>

(* PATCH saves all columns: a row deleted meanwhile is inserted again. *)
Patch(q, in, enabled) ==
  LET r      == req[q].rule
      seen   == req[q].seen
      config == Built(seen.config, in, minted, req[q].staff, TRUE)
  IN  /\ At(q, "loaded")
      /\ BuiltUrl(seen.config, in) # NoUrl   \* otherwise a ValidationError
      /\ Sent(in, r) /\ in.secret <= MaxSecrets
      /\ rule' = [rule EXCEPT ![r] = [seen EXCEPT !.enabled = enabled, !.config = config]]
      /\ minted' = IF in.secret > minted THEN in.secret ELSE minted
      /\ Observe(r, config, req[q].staff, in, FALSE)
      /\ Done(q)

RotatedInMemory(row, seen, config) ==  \* mutant: update_fields misses config
  row

(* save(update_fields=['config', 'updated_at']) of a row that exists. *)
Rotated(row, seen, config) ==
  IF row.state = "live" THEN [row EXCEPT !.config = config] ELSE row

(* Rotation: a new secret in the config that was loaded.  Without a row to  *)
(* update save raises and nothing is answered.                              *)
Rotate(q) ==
  LET r      == req[q].rule
      seen   == req[q].seen
      config == [seen.config EXCEPT !.secret = minted + 1]
  IN  /\ At(q, "loaded")
      /\ minted < MaxSecrets
      /\ minted' = minted + 1
      /\ rule' = [rule EXCEPT ![r] = Rotated(rule[r], seen, config)]
      /\ IF rule[r].state = "live"
           THEN /\ told' = [told EXCEPT ![r] = @ \cup {config.secret}]
                /\ latest' = [latest EXCEPT ![r] = config.secret]
                /\ lapped' = [lapped EXCEPT ![r] = FALSE]
           ELSE UNCHANGED <<told, latest, lapped>>
      /\ Done(q)
      /\ UNCHANGED approved

(* DELETE of the row, which another request may have deleted already. *)
Delete(q) ==
  LET r == req[q].rule
  IN  /\ At(q, "loaded")
      /\ rule' = [rule EXCEPT ![r].state = "deleted"]
      /\ Done(q)
      /\ UNCHANGED <<minted, approved, told, latest, lapped>>

(* The request is invalid, or the rule disabled for a test send. *)
Refuse(q) ==
  /\ At(q, "loaded")
  /\ Done(q)
  /\ UNCHANGED <<rule, minted, approved, told, latest, lapped>>

(* A delivery loads the rule with its row, without any principal. *)
LoadDelivery(q, r) ==
  /\ At(q, "idle")
  /\ rule[r].state = "live"
  /\ req' = [req EXCEPT ![q] = [pc |-> "loaded", rule |-> r, staff |-> FALSE,
                                seen |-> rule[r]]]
  /\ UNCHANGED <<rule, minted, approved, told, latest, lapped>>

(* deliver_webhook_action, for a delivery or a test send: it signs with the *)
(* secret that was loaded and connects as the loaded permission allows.     *)
Send(q) ==
  /\ At(q, "loaded")
  /\ req[q].seen.enabled
  /\ req[q].seen.config.url # NoUrl /\ req[q].seen.config.secret # 0
  /\ req' = [req EXCEPT ![q].pc = "posting"]
  /\ UNCHANGED <<rule, minted, approved, told, latest, lapped>>

Answered(q) ==
  /\ At(q, "posting")
  /\ Done(q)
  /\ UNCHANGED <<rule, minted, approved, told, latest, lapped>>

Next ==
  \/ \E p \in Principal, r \in Rules, in \in Input, e \in BOOLEAN : Create(p, r, in, e)
  \/ \E q \in Requests :
       \/ \E p \in Principal, r \in Rules : Load(q, p, r)
       \/ \E r \in Rules : LoadDelivery(q, r)
       \/ \E in \in Input, e \in BOOLEAN : Patch(q, in, e)
       \/ Rotate(q) \/ Delete(q) \/ Refuse(q) \/ Send(q) \/ Answered(q)

Spec == Init /\ [][Next]_vars

-----------------------------------------------------------------------------
(* A rule may reach private addresses only at a URL that staff stored       *)
(* together with the permission, and so may every webhook being sent,       *)
(* however loads and saves of other requests interleave.                    *)
PrivateUrlApproved ==
  /\ \A r \in Rules : rule[r].config.private => rule[r].config.url \in approved[r]
  /\ \A q \in Requests : At(q, "posting") /\ req[q].seen.config.private
                           => req[q].seen.config.url \in approved[req[q].rule]

(* A webhook is signed with a secret that a client was told, and a rule     *)
(* holds the one told last unless a PATCH that loaded it before has put an  *)
(* older one back.                                                          *)
SignedBySharedSecret ==
  /\ \A q \in Requests : At(q, "posting") => req[q].seen.config.secret \in told[req[q].rule]
  /\ \A r \in Rules : rule[r].state = "live" =>
       /\ rule[r].config.secret \in told[r]
       /\ rule[r].config.secret = latest[r] \/ lapped[r]
=============================================================================
