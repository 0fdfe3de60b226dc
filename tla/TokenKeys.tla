----------------------------- MODULE TokenKeys -----------------------------
(***************************************************************************)
(* How one gunicorn process decides which public key a token is verified   *)
(* with: the JWKSClient of apps/authapi/jwks_client.py, shared by the       *)
(* process's threads, over the document identity-service publishes.  With   *)
(* a pinned document (production) the key set never changes; here it is     *)
(* fetched from IDENTITY_JWKS_URL, cached for JWKS_CACHE_TTL, fetched again *)
(* for an unknown kid, and kept when a fetch fails.  Every action is what a *)
(* thread does between two points where another one may run: the lock, the  *)
(* HTTP call and the two reads of self._keys.                               *)
(***************************************************************************)
EXTENDS Integers, FiniteSets

CONSTANTS
  Kids,          \* key ids identity-service may ever use
  Threads,       \* threads of the process
  TTL,           \* JWKS_CACHE_TTL, in ticks
  Latency,       \* longest time from identity's answer to its use, in ticks
  Retries,       \* JWKS_RETRIES
  MaxRotations,  \* bound: documents published after the first
  MaxTime,       \* bound: last tick of the clock
  Nobody         \* no holder of the lock, no kid in a token's header

ASSUME KeyAssumption ==
  /\ TTL \in Nat /\ Latency \in Nat /\ Retries \in Nat
  /\ MaxRotations \in Nat /\ MaxTime \in Nat
  /\ Nobody \notin Kids \cup Threads

VARIABLES
  now,        \* time.monotonic()
  published,  \* the document identity-service answers with
  withdrawn,  \* withdrawn[k]: when k left the document, -1 while it has not
  client,     \* the JWKSClient: its key set and _fetched_at
  lock,       \* the thread inside self._lock
  thread,     \* thread[t]: the request thread t is authenticating
  failedAt    \* when a refresh last gave up, -1 before (observer)

vars == <<now, published, withdrawn, client, lock, thread, failedAt>>

-----------------------------------------------------------------------------
(* A document: its keys, how many documents were published before it, and  *)
(* when identity-service answered with it.  The last two are observers'.    *)
Document == [keys : SUBSET Kids, version : Nat, read : Nat]

Steps == {"idle", "check", "lock", "fetch", "apply", "lookup", "take",
          "accepted", "refused"}

ThreadType ==
  [pc      : Steps,
   kid     : Kids \cup {Nobody},
   force   : BOOLEAN,            \* the refresh ignores the TTL
   tries   : 0 .. Retries,       \* failed attempts of this fetch
   doc     : Document,           \* the answer it is about to apply
   checked : Nat,                \* when it last looked at the TTL
   steady  : BOOLEAN,            \* kid was published all along (observer)
   failed  : BOOLEAN]            \* a fetch of this request gave up (observer)

NoDocument == [keys |-> {}, version |-> 0, read |-> 0]
Idle == [pc |-> "idle", kid |-> Nobody, force |-> FALSE, tries |-> 0,
         doc |-> NoDocument, checked |-> 0, steady |-> FALSE, failed |-> FALSE]

TypeOK ==
  /\ now \in Nat
  /\ published \in [keys : SUBSET Kids, version : Nat]
  /\ withdrawn \in [Kids -> Int]
  /\ client \in [keys : SUBSET Kids, version : Nat, at : Nat]
  /\ lock \in Threads \cup {Nobody}
  /\ thread \in [Threads -> ThreadType]
  /\ failedAt \in Int

(* The client is created empty by the first request: see get_jwks_client. *)
Init ==
  /\ now = 0
  /\ \E S \in SUBSET Kids : published = [keys |-> S, version |-> 0]
  /\ withdrawn = [k \in Kids |-> -1]
  /\ client = [keys |-> {}, version |-> 0, at |-> 0]
  /\ lock = Nobody
  /\ thread = [t \in Threads |-> Idle]
  /\ failedAt = -1

At(t, pc) == thread[t].pc = pc

-----------------------------------------------------------------------------
(* identity-service.                                                       *)

(* A rotation: keys are added and withdrawn.  A withdrawn kid never returns. *)
Rotate(S) ==
  /\ published.version < MaxRotations
  /\ S # published.keys
  /\ \A k \in S : withdrawn[k] = -1
  /\ published' = [keys |-> S, version |-> published.version + 1]
  /\ withdrawn' = [k \in Kids |-> IF k \in published.keys \ S THEN now ELSE withdrawn[k]]
  /\ thread' = [t \in Threads |->
                  [thread[t] EXCEPT !.steady = @ /\ thread[t].kid \in S]]
  /\ UNCHANGED <<now, client, lock, failedAt>>

-----------------------------------------------------------------------------
(* A request with a Bearer token whose header names kid.                   *)

Request(t, kid) ==
  /\ At(t, "idle")
  /\ thread' = [thread EXCEPT ![t] = [Idle EXCEPT !.pc = "check", !.kid = kid,
                                                  !.steady = kid \in published.keys]]
  /\ UNCHANGED <<now, published, withdrawn, client, lock, failedAt>>

FreshOnceFetched == client.keys # {}   \* mutant: the TTL is not looked at

(* _refresh returns at once. *)
Fresh == client.keys # {} /\ now - client.at < TTL

(* _refresh before the lock. *)
Check(t) ==
  /\ At(t, "check")
  /\ thread' = [thread EXCEPT ![t].pc = IF ~thread[t].force /\ Fresh THEN "lookup" ELSE "lock",
                              ![t].checked = now]
  /\ UNCHANGED <<now, published, withdrawn, client, lock, failedAt>>

LockFreeAlways == lock = lock    \* mutant: the fetch is not under the lock
LockFree       == lock = Nobody

(* ... and again once the lock is held: another thread may have fetched. *)
EnterLock(t) ==
  /\ At(t, "lock") /\ LockFree
  /\ IF ~thread[t].force /\ Fresh
       THEN /\ thread' = [thread EXCEPT ![t].pc = "lookup", ![t].checked = now]
            /\ UNCHANGED lock
       ELSE /\ thread' = [thread EXCEPT ![t].pc = "fetch", ![t].checked = now]
            /\ lock' = t
  /\ UNCHANGED <<now, published, withdrawn, client, failedAt>>

(* One GET of the document is answered with the one published now. *)
Fetch(t) ==
  /\ At(t, "fetch")
  /\ thread' = [thread EXCEPT ![t].pc = "apply", ![t].tries = 0,
                              ![t].doc = [keys    |-> published.keys,
                                          version |-> published.version,
                                          read    |-> now]]
  /\ UNCHANGED <<now, published, withdrawn, client, lock, failedAt>>

TriesLeft(t) == thread[t].tries < Retries

(* One GET fails in a way that is worth another attempt. *)
FetchAgain(t) ==
  /\ At(t, "fetch") /\ TriesLeft(t)
  /\ thread' = [thread EXCEPT ![t].tries = @ + 1]
  /\ UNCHANGED <<now, published, withdrawn, client, lock, failedAt>>

KeptNothing == {}              \* mutant: a failed refresh empties the cache
Kept        == client.keys     \* a failed refresh keeps what was cached

(* One GET fails for good, or was the last attempt.  Without cached keys   *)
(* the error propagates and authentication refuses the token.              *)
GiveUp(t) ==
  /\ At(t, "fetch")
  /\ thread' = [thread EXCEPT ![t].pc = IF client.keys # {} THEN "lookup" ELSE "refused",
                              ![t].tries = 0, ![t].failed = TRUE]
  /\ client' = [client EXCEPT !.keys = Kept]
  /\ lock' = Nobody
  /\ failedAt' = now
  /\ UNCHANGED <<now, published, withdrawn>>

(* _apply_document replaces the key set, also by an empty one.  It assigns   *)
(* _keys before _fetched_at: a thread that reads in between finds the cache *)
(* stale and waits for the lock, as if it had read just before.             *)
Applied(doc) == [keys |-> doc.keys, version |-> doc.version, at |-> now]

Apply(t) ==
  /\ At(t, "apply")
  /\ client' = Applied(thread[t].doc)
  /\ thread' = [thread EXCEPT ![t].pc = "lookup", ![t].doc = NoDocument]
  /\ lock' = IF lock = t THEN Nobody ELSE lock
  /\ UNCHANGED <<now, published, withdrawn, failedAt>>

(* An unknown kid is worth one forced refresh, a missing kid is not. *)
AfterMiss(t) ==
  IF thread[t].kid # Nobody /\ ~thread[t].force THEN "check" ELSE "refused"

(* kid in self._keys *)
Lookup(t) ==
  /\ At(t, "lookup")
  /\ thread' = [thread EXCEPT
                  ![t].pc = IF thread[t].kid \in client.keys THEN "take" ELSE AfterMiss(t),
                  ![t].force = @ \/ thread[t].kid \notin client.keys]
  /\ UNCHANGED <<now, published, withdrawn, client, lock, failedAt>>

(* self._keys[kid]: another thread may have replaced the dictionary between *)
(* the two reads, and the KeyError refuses the token.                       *)
Take(t) ==
  /\ At(t, "take")
  /\ thread' = [thread EXCEPT ![t].pc = IF thread[t].kid \in client.keys THEN "accepted"
                                                                        ELSE "refused"]
  /\ UNCHANGED <<now, published, withdrawn, client, lock, failedAt>>

(* The response is sent. *)
Respond(t) ==
  /\ thread[t].pc \in {"accepted", "refused"}
  /\ thread' = [thread EXCEPT ![t] = Idle]
  /\ UNCHANGED <<now, published, withdrawn, client, lock, failedAt>>

-----------------------------------------------------------------------------
(* Time passes, but no answer stays unused for longer than Latency. *)
Tick ==
  /\ now < MaxTime
  /\ \A t \in Threads : At(t, "apply") => now < thread[t].doc.read + Latency
  /\ now' = now + 1
  /\ UNCHANGED <<published, withdrawn, client, lock, thread, failedAt>>

Serve(t) == \/ \E k \in Kids \cup {Nobody} : Request(t, k)
            \/ Check(t) \/ EnterLock(t)
            \/ Fetch(t) \/ FetchAgain(t) \/ GiveUp(t) \/ Apply(t)
            \/ Lookup(t) \/ Take(t) \/ Respond(t)

Next == \/ \E S \in SUBSET Kids : Rotate(S)
        \/ \E t \in Threads : Serve(t)
        \/ Tick

Spec == Init /\ [][Next]_vars

-----------------------------------------------------------------------------
(* The cache never goes back to an older document: a slow answer cannot     *)
(* overwrite the document a later request fetched, because the lock is held *)
(* across the HTTP call.                                                    *)
NeverOlder == [][client'.version >= client.version]_vars

(* A token of a key that was published all through its request is accepted, *)
(* whatever was cached and whatever the other threads fetched meanwhile,    *)
(* unless a fetch made for this very request failed.                        *)
CurrentKeyAccepted ==
  \A t \in Threads : At(t, "refused") /\ thread[t].steady => thread[t].failed

(* A withdrawn key is accepted for at most the TTL and the time an answer   *)
(* takes, counted to the moment the request looked at the TTL; beyond that  *)
(* only after a refresh failed since the withdrawal.                        *)
WithdrawnKeyExpires ==
  \A t \in Threads : LET k == thread[t].kid IN
    At(t, "accepted") /\ withdrawn[k] >= 0 =>
      \/ thread[t].checked < withdrawn[k] + Latency + TTL
      \/ thread[t].checked <= withdrawn[k]
      \/ failedAt >= withdrawn[k]

-----------------------------------------------------------------------------
(* What the three properties rest on.                                      *)

(* Only the thread inside the lock has an HTTP call or an answer. *)
LockGuardsFetch ==
  \A t \in Threads : thread[t].pc \in {"fetch", "apply"} <=> lock = t

(* Documents are ordered: cached, in flight, published. *)
VersionsOrdered ==
  /\ client.version <= published.version
  /\ \A t \in Threads : At(t, "apply") =>
       /\ client.version <= thread[t].doc.version
       /\ thread[t].doc.version <= published.version
=============================================================================
