-------------------------- MODULE DeliveryContract --------------------------
(***************************************************************************)
(* What the outbox promises, seen from outside: a message is open until it *)
(* is delivered or given up, and a message is reported delivered only when *)
(* one of its own POSTs was answered: taken by its receiver or, on a        *)
(* channel that does not insist on 2xx, redirected.  Threads, leases,      *)
(* attempts and time do not appear here; Outbox implements this            *)
(* specification.                                                          *)
(***************************************************************************)

CONSTANTS
  Messages,
  Checked     \* the messages whose channel reports only 2xx as delivered

VARIABLES
  status,     \* status[m] as an administrator sees it
  receipt     \* receipt[m]: what the POSTs of m came to at the receiver

cvars == <<status, receipt>>

ContractInit ==
  /\ status = [m \in Messages |-> "none"]
  /\ receipt = [m \in Messages |-> {}]

(* The messages in S become, all together, what they should be. *)
Move(S, from, to) ==
  /\ S \subseteq Messages
  /\ \A m \in S : status[m] \in from
  /\ status' = [m \in Messages |-> IF m \in S THEN to ELSE status[m]]
  /\ UNCHANGED receipt

Publish(S) == Move(S, {"none"}, "open")
GiveUp(m)  == Move({m}, {"open"}, "dead")
Reopen(m)  == Move({m}, {"open", "delivered", "dead"}, "open")
Remove(S)  == Move(S, {"open", "delivered", "dead"}, "gone")

(* At least once: delivered is claimed only after such an answer. *)
Deliver(m) ==
  /\ "taken" \in receipt[m] \/ (m \notin Checked /\ "diverted" \in receipt[m])
  /\ Move({m}, {"open"}, "delivered")

(* A POST of a published message comes to c, possibly again, possibly late. *)
Answer(m, c) ==
  /\ status[m] # "none"
  /\ receipt' = [receipt EXCEPT ![m] = @ \cup {c}]
  /\ UNCHANGED status

ContractNext ==
  \/ \E S \in SUBSET Messages : Publish(S) \/ Remove(S)
  \/ \E m \in Messages : \/ GiveUp(m) \/ Reopen(m) \/ Deliver(m)
                         \/ \E c \in {"taken", "diverted"} : Answer(m, c)

Spec == ContractInit /\ [][ContractNext]_cvars
=============================================================================
