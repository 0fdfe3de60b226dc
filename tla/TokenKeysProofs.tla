-------------------------- MODULE TokenKeysProofs --------------------------
(***************************************************************************)
(* Proofs about TokenKeys: types, the order of the cached documents, and    *)
(* what a request may conclude from them, for any number of threads, keys,  *)
(* rotations, retries and failed fetches.                                   *)
(***************************************************************************)
EXTENDS TokenKeys, TLAPS

-----------------------------------------------------------------------------
(* Type correctness. *)

(* What the steps of a request leave in its thread. *)
LEMMA ServeTypes ==
  ASSUME TypeOK, NEW t \in Threads, Serve(t)
  PROVE  TypeOK' /\ \A u \in Threads : u # t => thread'[u] = thread[u]
<1> USE DEF TypeOK, Steps
<1>n. NoDocument \in Document /\ Nobody \in Kids \cup {Nobody} /\ 0 \in 0 .. Retries
  BY KeyAssumption DEF NoDocument, Document
<1>i. Idle \in ThreadType
  BY <1>n DEF Idle, ThreadType
<1>t. thread[t] \in ThreadType
  OBVIOUS
<1>1. ASSUME NEW k \in Kids \cup {Nobody}, Request(t, k) PROVE TypeOK'
  <2> DEFINE r == [Idle EXCEPT !.pc = "check", !.kid = k,
                               !.steady = k \in published.keys]
  <2>1. r \in ThreadType
    <3>1. \A b \in BOOLEAN :
            [Idle EXCEPT !.pc = "check", !.kid = k, !.steady = b] \in ThreadType
      BY <1>i DEF ThreadType
    <3>2. (k \in published.keys) \in BOOLEAN
      OBVIOUS
    <3> QED BY <3>1, <3>2
  <2>2. thread' = [thread EXCEPT ![t] = r]
    BY <1>1 DEF Request
  <2> HIDE DEF r
  <2>3. thread' \in [Threads -> ThreadType]
    BY <2>1, <2>2
  <2> QED BY <1>1, <2>3 DEF Request
<1>2. ASSUME Check(t) PROVE TypeOK'
  <2>1. \A s \in Steps : [thread[t] EXCEPT !.pc = s, !.checked = now] \in ThreadType
    BY <1>t DEF ThreadType
  <2>2. thread' \in [Threads -> ThreadType]
    BY <1>2, <2>1 DEF Check
  <2> QED BY <1>2, <2>2 DEF Check
<1>3. ASSUME EnterLock(t) PROVE TypeOK'
  <2>1. \A s \in Steps : [thread[t] EXCEPT !.pc = s, !.checked = now] \in ThreadType
    BY <1>t DEF ThreadType
  <2>2. thread' \in [Threads -> ThreadType]
    BY <1>3, <2>1 DEF EnterLock
  <2>3. lock' \in Threads \cup {Nobody}
    BY <1>3 DEF EnterLock
  <2> QED BY <1>3, <2>2, <2>3 DEF EnterLock
<1>4. ASSUME Fetch(t) PROVE TypeOK'
  <2> DEFINE d == [keys |-> published.keys, version |-> published.version,
                   read |-> now]
  <2>1. d \in Document
    BY DEF Document
  <2>2. thread' = [thread EXCEPT ![t].pc = "apply", ![t].tries = 0, ![t].doc = d]
    BY <1>4 DEF Fetch
  <2> HIDE DEF d
  <2>3. [thread[t] EXCEPT !.pc = "apply", !.tries = 0, !.doc = d] \in ThreadType
    BY <1>t, <1>n, <2>1 DEF ThreadType
  <2>4. thread' \in [Threads -> ThreadType]
    BY <2>2, <2>3
  <2> QED BY <1>4, <2>4 DEF Fetch
<1>5. ASSUME FetchAgain(t) PROVE TypeOK'
  <2>1. thread[t].tries + 1 \in 0 .. Retries
    BY <1>5, <1>t, KeyAssumption DEF FetchAgain, TriesLeft, ThreadType
  <2>2. [thread[t] EXCEPT !.tries = @ + 1] \in ThreadType
    BY <1>t, <2>1 DEF ThreadType
  <2>3. thread' \in [Threads -> ThreadType]
    BY <1>5, <2>2 DEF FetchAgain
  <2> QED BY <1>5, <2>3 DEF FetchAgain
<1>6. ASSUME GiveUp(t) PROVE TypeOK'
  <2>1. \A s \in Steps :
          [thread[t] EXCEPT !.pc = s, !.tries = 0, !.failed = TRUE] \in ThreadType
    BY <1>t, <1>n DEF ThreadType
  <2>2. thread' \in [Threads -> ThreadType]
    BY <1>6, <2>1 DEF GiveUp
  <2>3. client' \in [keys : SUBSET Kids, version : Nat, at : Nat]
    BY <1>6 DEF GiveUp, Kept
  <2>4. UNCHANGED <<now, published, withdrawn>> /\ lock' = Nobody /\ failedAt' = now
    BY <1>6 DEF GiveUp
  <2>5. failedAt' \in Int
    BY <2>4
  <2> QED BY <2>2, <2>3, <2>4, <2>5
<1>7. ASSUME Apply(t) PROVE TypeOK'
  <2>1. [thread[t] EXCEPT !.pc = "lookup", !.doc = NoDocument] \in ThreadType
    BY <1>t, <1>n DEF ThreadType
  <2>2. thread' \in [Threads -> ThreadType]
    BY <1>7, <2>1 DEF Apply
  <2>3. thread[t].doc \in Document
    BY <1>t DEF ThreadType
  <2>4. client' \in [keys : SUBSET Kids, version : Nat, at : Nat]
    <3>1. thread[t].doc.keys \in SUBSET Kids /\ thread[t].doc.version \in Nat
      BY <2>3 DEF Document
    <3>2. client' = Applied(thread[t].doc)
      BY <1>7 DEF Apply
    <3> QED BY <3>1, <3>2 DEF Applied
  <2>5. lock' \in Threads \cup {Nobody}
    BY <1>7 DEF Apply
  <2> QED BY <1>7, <2>2, <2>4, <2>5 DEF Apply
<1>8. ASSUME Lookup(t) PROVE TypeOK'
  <2>1. \A s \in Steps, f \in BOOLEAN :
          [thread[t] EXCEPT !.pc = s, !.force = f] \in ThreadType
    BY <1>t DEF ThreadType
  <2>2. AfterMiss(t) \in Steps
    BY DEF AfterMiss
  <2>3. (thread[t].force \/ thread[t].kid \notin client.keys) \in BOOLEAN
    OBVIOUS
  <2>4. thread' \in [Threads -> ThreadType]
    BY <1>8, <2>1, <2>2, <2>3 DEF Lookup
  <2> QED BY <1>8, <2>4 DEF Lookup
<1>9. ASSUME Take(t) PROVE TypeOK'
  <2>1. \A s \in Steps : [thread[t] EXCEPT !.pc = s] \in ThreadType
    BY <1>t DEF ThreadType
  <2>2. thread' \in [Threads -> ThreadType]
    BY <1>9, <2>1 DEF Take
  <2> QED BY <1>9, <2>2 DEF Take
<1>10. ASSUME Respond(t) PROVE TypeOK'
  <2>1. thread' \in [Threads -> ThreadType]
    BY <1>10, <1>i DEF Respond
  <2> QED BY <1>10, <2>1 DEF Respond
<1>11. \A u \in Threads : u # t => thread'[u] = thread[u]
  BY DEF Serve, Request, Check, EnterLock, Fetch, FetchAgain, GiveUp, Apply,
         Lookup, Take, Respond
<1> QED BY <1>1, <1>2, <1>3, <1>4, <1>5, <1>6, <1>7, <1>8, <1>9, <1>10, <1>11
        DEF Serve

(* Every reachable state of the key cache and its threads is well typed. *)
THEOREM TypeCorrect == Spec => []TypeOK
<1>1. Init => TypeOK
  <2> SUFFICES ASSUME Init PROVE TypeOK OBVIOUS
  <2>1. NoDocument \in Document /\ 0 \in 0 .. Retries
    BY KeyAssumption DEF NoDocument, Document
  <2>2. Idle \in ThreadType
    BY <2>1 DEF Idle, ThreadType, Steps
  <2>3. published \in [keys : SUBSET Kids, version : Nat]
    BY DEF Init
  <2> QED BY <2>2, <2>3 DEF Init, TypeOK
<1>2. TypeOK /\ [Next]_vars => TypeOK'
  <2> SUFFICES ASSUME TypeOK, [Next]_vars PROVE TypeOK' OBVIOUS
  <2>1. CASE UNCHANGED vars
    BY <2>1 DEF vars, TypeOK
  <2>2. ASSUME NEW S \in SUBSET Kids, Rotate(S) PROVE TypeOK'
    <3>1. published' \in [keys : SUBSET Kids, version : Nat]
      BY <2>2 DEF Rotate, TypeOK
    <3>2. withdrawn' \in [Kids -> Int]
      BY <2>2 DEF Rotate, TypeOK
    <3>3. ASSUME NEW t \in Threads
          PROVE  [thread[t] EXCEPT !.steady = @ /\ thread[t].kid \in S]
                   \in ThreadType
      <4>1. thread[t] \in ThreadType
        BY DEF TypeOK
      <4>2. (thread[t].steady /\ thread[t].kid \in S) \in BOOLEAN
        OBVIOUS
      <4> QED BY <4>1, <4>2 DEF ThreadType
    <3>4. thread' \in [Threads -> ThreadType]
      BY <2>2, <3>3 DEF Rotate
    <3> QED BY <2>2, <3>1, <3>2, <3>4 DEF Rotate, TypeOK
  <2>3. ASSUME NEW t \in Threads, Serve(t) PROVE TypeOK'
    BY <2>3, ServeTypes
  <2>4. CASE Tick
    BY <2>4 DEF Tick, TypeOK
  <2> QED BY <2>1, <2>2, <2>3, <2>4 DEF Next
<1> QED BY <1>1, <1>2, PTL DEF Spec

-----------------------------------------------------------------------------
(* The lock and the order of documents. *)

Order == LockGuardsFetch /\ VersionsOrdered

(* What a step does to the thread that takes it and to the shared client,   *)
(* field by field.                                                          *)
LEMMA Effects ==
  ASSUME TypeOK, NEW t \in Threads
  PROVE  /\ \A k \in Kids \cup {Nobody} : Request(t, k) =>
              /\ thread'[t].pc = "check" /\ thread'[t].kid = k
              /\ ~thread'[t].force /\ ~thread'[t].failed /\ thread'[t].checked = 0
              /\ thread'[t].steady = (k \in published.keys)
         /\ Check(t) \/ EnterLock(t) =>
              /\ thread'[t].pc \in {"lookup", "lock", "fetch"}
              /\ thread'[t].kid = thread[t].kid /\ thread'[t].force = thread[t].force
              /\ thread'[t].steady = thread[t].steady
              /\ thread'[t].failed = thread[t].failed
              /\ thread'[t].checked = now
              /\ thread'[t].pc = "lookup" => ~thread[t].force /\ Fresh
         /\ Fetch(t) =>
              /\ thread'[t].pc = "apply"
              /\ thread'[t].kid = thread[t].kid /\ thread'[t].force = thread[t].force
              /\ thread'[t].steady = thread[t].steady
              /\ thread'[t].failed = thread[t].failed
              /\ thread'[t].checked = thread[t].checked
              /\ thread'[t].doc.keys = published.keys
              /\ thread'[t].doc.version = published.version
              /\ thread'[t].doc.read = now
         /\ GiveUp(t) =>
              /\ thread'[t].pc \in {"lookup", "refused"}
              /\ thread'[t].kid = thread[t].kid /\ thread'[t].force = thread[t].force
              /\ thread'[t].steady = thread[t].steady /\ thread'[t].failed
              /\ thread'[t].checked = thread[t].checked
              /\ client'.keys = client.keys /\ client'.version = client.version
              /\ client'.at = client.at
         /\ Apply(t) =>
              /\ thread'[t].pc = "lookup"
              /\ thread'[t].kid = thread[t].kid /\ thread'[t].force = thread[t].force
              /\ thread'[t].steady = thread[t].steady
              /\ thread'[t].failed = thread[t].failed
              /\ thread'[t].checked = thread[t].checked
              /\ client'.keys = thread[t].doc.keys
              /\ client'.version = thread[t].doc.version /\ client'.at = now
         /\ Lookup(t) \/ Take(t) =>
              /\ thread'[t].kid = thread[t].kid
              /\ thread'[t].steady = thread[t].steady
              /\ thread'[t].failed = thread[t].failed
              /\ thread'[t].checked = thread[t].checked
         /\ Lookup(t) =>
              /\ thread'[t].pc = IF thread[t].kid \in client.keys
                                   THEN "take" ELSE AfterMiss(t)
              /\ thread'[t].pc = "take" => thread'[t].force = thread[t].force
         /\ Take(t) =>
              /\ thread'[t].pc = IF thread[t].kid \in client.keys
                                   THEN "accepted" ELSE "refused"
              /\ thread'[t].force = thread[t].force
         /\ Respond(t) =>
              /\ thread'[t].pc = "idle" /\ ~thread'[t].steady
              /\ thread'[t].checked = 0
<1>t. thread \in [Threads -> ThreadType] /\ thread[t] \in ThreadType
  BY DEF TypeOK
<1>1. ASSUME NEW k \in Kids \cup {Nobody}, Request(t, k)
      PROVE  /\ thread'[t].pc = "check" /\ thread'[t].kid = k
             /\ ~thread'[t].force /\ ~thread'[t].failed /\ thread'[t].checked = 0
             /\ thread'[t].steady = (k \in published.keys)
  BY <1>t, <1>1 DEF Request, Idle
<1>2. ASSUME Check(t) \/ EnterLock(t)
      PROVE  /\ thread'[t].pc \in {"lookup", "lock", "fetch"}
             /\ thread'[t].kid = thread[t].kid /\ thread'[t].force = thread[t].force
             /\ thread'[t].steady = thread[t].steady
             /\ thread'[t].failed = thread[t].failed
             /\ thread'[t].checked = now
             /\ thread'[t].pc = "lookup" => ~thread[t].force /\ Fresh
  BY <1>t, <1>2 DEF Check, EnterLock, ThreadType
<1>3. ASSUME Fetch(t)
      PROVE  /\ thread'[t].pc = "apply"
             /\ thread'[t].kid = thread[t].kid /\ thread'[t].force = thread[t].force
             /\ thread'[t].steady = thread[t].steady
             /\ thread'[t].failed = thread[t].failed
             /\ thread'[t].checked = thread[t].checked
             /\ thread'[t].doc.keys = published.keys
             /\ thread'[t].doc.version = published.version
             /\ thread'[t].doc.read = now
  BY <1>t, <1>3 DEF Fetch, ThreadType
<1>4. ASSUME GiveUp(t)
      PROVE  /\ thread'[t].pc \in {"lookup", "refused"}
             /\ thread'[t].kid = thread[t].kid /\ thread'[t].force = thread[t].force
             /\ thread'[t].steady = thread[t].steady /\ thread'[t].failed
             /\ thread'[t].checked = thread[t].checked
             /\ client'.keys = client.keys /\ client'.version = client.version
             /\ client'.at = client.at
  BY <1>t, <1>4 DEF GiveUp, Kept, ThreadType, TypeOK
<1>5. ASSUME Apply(t)
      PROVE  /\ thread'[t].pc = "lookup"
             /\ thread'[t].kid = thread[t].kid /\ thread'[t].force = thread[t].force
             /\ thread'[t].steady = thread[t].steady
             /\ thread'[t].failed = thread[t].failed
             /\ thread'[t].checked = thread[t].checked
             /\ client'.keys = thread[t].doc.keys
             /\ client'.version = thread[t].doc.version /\ client'.at = now
  BY <1>t, <1>5 DEF Apply, Applied, ThreadType
<1>6. ASSUME Lookup(t)
      PROVE  /\ thread'[t].kid = thread[t].kid
             /\ thread'[t].steady = thread[t].steady
             /\ thread'[t].failed = thread[t].failed
             /\ thread'[t].checked = thread[t].checked
             /\ thread'[t].pc = IF thread[t].kid \in client.keys
                                  THEN "take" ELSE AfterMiss(t)
             /\ thread'[t].pc = "take" => thread'[t].force = thread[t].force
  BY <1>t, <1>6 DEF Lookup, AfterMiss, ThreadType
<1>7. ASSUME Take(t)
      PROVE  /\ thread'[t].kid = thread[t].kid /\ thread'[t].force = thread[t].force
             /\ thread'[t].steady = thread[t].steady
             /\ thread'[t].failed = thread[t].failed
             /\ thread'[t].checked = thread[t].checked
             /\ thread'[t].pc = IF thread[t].kid \in client.keys
                                  THEN "accepted" ELSE "refused"
  BY <1>t, <1>7 DEF Take, ThreadType
<1>8. ASSUME Respond(t)
      PROVE  thread'[t].pc = "idle" /\ ~thread'[t].steady /\ thread'[t].checked = 0
  BY <1>t, <1>8 DEF Respond, Idle
<1> QED BY <1>1, <1>2, <1>3, <1>4, <1>5, <1>6, <1>7, <1>8

(* No step replaces the cached document by an older one, nor lets a second  *)
(* thread fetch.                                                            *)
LEMMA OrderSteps ==
  ASSUME TypeOK, Order, NEW t \in Threads, Serve(t)
  PROVE  Order' /\ client'.version >= client.version
<1> USE DEF LockGuardsFetch, VersionsOrdered, At
<1>o. \A u \in Threads : u # t => thread'[u] = thread[u]
  BY ServeTypes
<1>p. published' = published /\ client.version \in Nat /\ published.version \in Nat
  BY DEF TypeOK, Serve, Request, Check, EnterLock, Fetch, FetchAgain, GiveUp,
         Apply, Lookup, Take, Respond
<1>n. Nobody \notin Threads
  BY KeyAssumption
<1>1. ASSUME NEW k \in Kids \cup {Nobody}, Request(t, k)
      PROVE  Order' /\ client'.version >= client.version
  <2>1. At(t, "idle") /\ client' = client /\ lock' = lock
    BY <1>1 DEF Request
  <2>2. thread'[t].pc = "check"
    BY <1>1, Effects
  <2> QED BY <1>o, <1>p, <2>1, <2>2 DEF Order
<1>2. ASSUME Check(t) PROVE Order' /\ client'.version >= client.version
  <2>1. At(t, "check") /\ client' = client /\ lock' = lock
    BY <1>2 DEF Check
  <2>2. thread'[t].pc \in {"lookup", "lock"}
    BY <1>2 DEF Check, TypeOK, ThreadType
  <2> QED BY <1>o, <1>p, <2>1, <2>2 DEF Order
<1>3. ASSUME EnterLock(t) PROVE Order' /\ client'.version >= client.version
  <2>1. At(t, "lock") /\ client' = client /\ lock = Nobody
    BY <1>3 DEF EnterLock, LockFree
  <2>2. \/ thread'[t].pc = "lookup" /\ lock' = lock
        \/ thread'[t].pc = "fetch" /\ lock' = t
    BY <1>3 DEF EnterLock, TypeOK, ThreadType
  <2> QED BY <1>o, <1>p, <1>n, <2>1, <2>2 DEF Order
<1>4. ASSUME Fetch(t) PROVE Order' /\ client'.version >= client.version
  <2>1. At(t, "fetch") /\ client' = client /\ lock' = lock
    BY <1>4 DEF Fetch
  <2>2. thread'[t].pc = "apply" /\ thread'[t].doc.version = published.version
    BY <1>4, Effects
  <2> QED BY <1>o, <1>p, <2>1, <2>2 DEF Order
<1>5. ASSUME FetchAgain(t) PROVE Order' /\ client'.version >= client.version
  <2>1. At(t, "fetch") /\ client' = client /\ lock' = lock
    BY <1>5 DEF FetchAgain
  <2>2. thread'[t].pc = "fetch"
    BY <1>5 DEF FetchAgain, TypeOK, ThreadType
  <2> QED BY <1>o, <1>p, <2>1, <2>2 DEF Order
<1>6. ASSUME GiveUp(t) PROVE Order' /\ client'.version >= client.version
  <2>1. At(t, "fetch") /\ client'.version = client.version /\ lock' = Nobody
    BY <1>6, Effects DEF GiveUp
  <2>2. thread'[t].pc \in {"lookup", "refused"}
    BY <1>6, Effects
  <2> QED BY <1>o, <1>p, <1>n, <2>1, <2>2 DEF Order
<1>7. ASSUME Apply(t) PROVE Order' /\ client'.version >= client.version
  <2>1. At(t, "apply") /\ client'.version = thread[t].doc.version /\ lock' = Nobody
    BY <1>7, Effects DEF Apply, Order
  <2>2. thread'[t].pc = "lookup"
    BY <1>7, Effects
  <2>3. /\ client.version <= thread[t].doc.version
        /\ thread[t].doc.version <= published.version
        /\ lock = t
    BY <2>1 DEF Order
  <2>4. thread[t].doc.version \in Nat
    BY DEF TypeOK, ThreadType, Document
  <2> QED BY <1>o, <1>p, <1>n, <2>1, <2>2, <2>3, <2>4 DEF Order
<1>8. ASSUME Lookup(t) PROVE Order' /\ client'.version >= client.version
  <2>1. At(t, "lookup") /\ client' = client /\ lock' = lock
    BY <1>8 DEF Lookup
  <2>2. thread'[t].pc \in {"take", "check", "refused"}
    BY <1>8, Effects DEF AfterMiss
  <2> QED BY <1>o, <1>p, <2>1, <2>2 DEF Order
<1>9. ASSUME Take(t) PROVE Order' /\ client'.version >= client.version
  <2>1. At(t, "take") /\ client' = client /\ lock' = lock
    BY <1>9 DEF Take
  <2>2. thread'[t].pc \in {"accepted", "refused"}
    BY <1>9, Effects
  <2> QED BY <1>o, <1>p, <2>1, <2>2 DEF Order
<1>10. ASSUME Respond(t) PROVE Order' /\ client'.version >= client.version
  <2>1. /\ thread[t].pc \in {"accepted", "refused"}
        /\ client' = client /\ lock' = lock
    BY <1>10 DEF Respond
  <2>2. thread'[t].pc = "idle"
    BY <1>10, Effects
  <2> QED BY <1>o, <1>p, <2>1, <2>2 DEF Order
<1> QED BY <1>1, <1>2, <1>3, <1>4, <1>5, <1>6, <1>7, <1>8, <1>9, <1>10 DEF Serve

(* One rotation changes no document in flight and lengthens the history.    *)
LEMMA OrderRotate ==
  ASSUME TypeOK, Order, NEW S \in SUBSET Kids, Rotate(S)
  PROVE  Order' /\ client' = client
<1>1. /\ client' = client /\ lock' = lock
      /\ published'.version = published.version + 1
  BY DEF Rotate
<1>2. \A u \in Threads : /\ thread'[u].pc = thread[u].pc
                        /\ thread'[u].doc = thread[u].doc
  BY DEF Rotate, TypeOK, ThreadType
<1>3. published.version \in Nat /\ client.version \in Nat
      /\ \A u \in Threads : thread[u].doc.version \in Nat
  BY DEF TypeOK, ThreadType, Document
<1>4. LockGuardsFetch'
  BY <1>1, <1>2 DEF Order, LockGuardsFetch
<1>5. VersionsOrdered'
  BY <1>1, <1>2, <1>3 DEF Order, VersionsOrdered, At
<1> QED BY <1>1, <1>4, <1>5 DEF Order

(* The inductive invariant: the lock, and cached <= in flight <= published. *)
THEOREM OrderCorrect == Spec => []Order
<1>1. Init => Order
  BY KeyAssumption
  DEF Init, Order, LockGuardsFetch, VersionsOrdered, At, Idle
<1>2. TypeOK /\ Order /\ [Next]_vars => Order'
  <2> SUFFICES ASSUME TypeOK, Order, [Next]_vars PROVE Order' OBVIOUS
  <2>1. CASE UNCHANGED vars
    BY <2>1 DEF vars, Order, LockGuardsFetch, VersionsOrdered, At
  <2>2. CASE Tick
    BY <2>2 DEF Tick, Order, LockGuardsFetch, VersionsOrdered, At
  <2> QED BY <2>1, <2>2, OrderSteps, OrderRotate DEF Next
<1> QED BY <1>1, <1>2, TypeCorrect, PTL DEF Spec

(* The cached document never goes back to an older one: _refresh holds the  *)
(* lock across the HTTP call.                                               *)
THEOREM NeverOlderCorrect == Spec => NeverOlder
<1>1. TypeOK /\ Order /\ [Next]_vars => [client'.version >= client.version]_vars
  <2> SUFFICES ASSUME TypeOK, Order, [Next]_vars
               PROVE  UNCHANGED vars \/ client'.version >= client.version
    OBVIOUS
  <2>1. client.version \in Nat
    BY DEF TypeOK
  <2>2. ASSUME NEW S \in SUBSET Kids, Rotate(S) PROVE client'.version >= client.version
    BY <2>1, <2>2 DEF Rotate
  <2>3. CASE Tick
    BY <2>1, <2>3 DEF Tick
  <2> QED BY <2>2, <2>3, OrderSteps DEF Next
<1> QED BY <1>1, TypeCorrect, OrderCorrect, PTL DEF Spec, NeverOlder

-----------------------------------------------------------------------------
(* What is known of the keys that are cached or in flight. *)

(* Nothing that was recorded lies in the future, and no answer is older     *)
(* than Latency or than the look at the TTL that led to it.                 *)
Dates ==
  /\ client.at <= now /\ failedAt <= now
  /\ \A t \in Threads :
       /\ thread[t].checked <= now
       /\ At(t, "apply") => /\ thread[t].checked <= thread[t].doc.read
                            /\ thread[t].doc.read <= now
                            /\ now <= thread[t].doc.read + Latency

(* A key is published, or was withdrawn after the document that has it was  *)
(* read.  A key that is cached and published is in every answer in flight.  *)
KeyHistory ==
  /\ \A k \in published.keys : withdrawn[k] = -1
  /\ \A k \in client.keys :
       k \in published.keys
         \/ (withdrawn[k] >= 0 /\ client.at <= withdrawn[k] + Latency)
  /\ \A t \in Threads : At(t, "apply") =>
       /\ \A k \in thread[t].doc.keys :
            k \in published.keys \/ withdrawn[k] >= thread[t].doc.read
       /\ \A k \in client.keys : k \in published.keys => k \in thread[t].doc.keys

History == Dates /\ KeyHistory

(* A thread that takes no answer into its hands or out of them.             *)
LEMMA HistoryKept ==
  ASSUME TypeOK, History, NEW t \in Threads,
         \A u \in Threads : u # t => thread'[u] = thread[u],
         UNCHANGED <<now, published, withdrawn>>,
         client'.keys = client.keys, client'.at = client.at,
         thread'[t].pc # "apply",
         thread'[t].checked \in {thread[t].checked, now, 0},
         failedAt' \in {failedAt, now}
  PROVE  History'
<1>1. now \in Nat
  BY DEF TypeOK
<1>2. Dates'
  BY <1>1 DEF History, Dates, At
<1>3. KeyHistory'
  BY DEF History, KeyHistory, At
<1> QED BY <1>2, <1>3 DEF History

(* Every step of a request respects the history of the keys.                *)
LEMMA HistorySteps ==
  ASSUME TypeOK, Order, History, NEW t \in Threads, Serve(t)
  PROVE  History'
<1>o. \A u \in Threads : u # t => thread'[u] = thread[u]
  BY ServeTypes
<1>p. UNCHANGED <<now, published, withdrawn>>
  BY DEF Serve, Request, Check, EnterLock, Fetch, FetchAgain, GiveUp,
         Apply, Lookup, Take, Respond
<1>n. /\ now \in Nat /\ client.at \in Nat /\ failedAt \in Int /\ Latency \in Nat
      /\ thread[t].checked \in Nat /\ thread[t].doc.read \in Nat
      /\ \A k \in Kids : withdrawn[k] \in Int
      /\ client.keys \subseteq Kids /\ published.keys \subseteq Kids
      /\ thread[t].doc.keys \subseteq Kids
  BY KeyAssumption DEF TypeOK, ThreadType, Document
<1>1. ASSUME NEW k \in Kids \cup {Nobody}, Request(t, k) PROVE History'
  <2>1. client' = client /\ failedAt' = failedAt
    BY <1>1 DEF Request
  <2>2. thread'[t].pc = "check" /\ thread'[t].checked = 0
    BY <1>1, Effects
  <2> QED BY <1>o, <1>p, <2>1, <2>2, HistoryKept
<1>2. ASSUME Check(t) \/ EnterLock(t) PROVE History'
  <2>1. client' = client /\ failedAt' = failedAt
    BY <1>2 DEF Check, EnterLock
  <2>2. thread'[t].pc # "apply" /\ thread'[t].checked = now
    BY <1>2, Effects
  <2> QED BY <1>o, <1>p, <2>1, <2>2, HistoryKept
<1>3. ASSUME Fetch(t) PROVE History'
  <2>1. client' = client /\ failedAt' = failedAt
    BY <1>3 DEF Fetch
  <2>2. /\ thread'[t].checked = thread[t].checked
        /\ thread'[t].doc.keys = published.keys /\ thread'[t].doc.read = now
    BY <1>3, Effects
  <2>3. Dates'
    BY <1>o, <1>p, <1>n, <2>1, <2>2 DEF History, Dates, At
  <2>4. KeyHistory'
    BY <1>o, <1>p, <2>1, <2>2 DEF History, KeyHistory, At
  <2> QED BY <2>3, <2>4 DEF History
<1>4. ASSUME FetchAgain(t) PROVE History'
  <2>1. client' = client /\ failedAt' = failedAt
    BY <1>4 DEF FetchAgain
  <2>2. thread'[t].pc # "apply" /\ thread'[t].checked = thread[t].checked
    BY <1>4 DEF FetchAgain, At, TypeOK, ThreadType
  <2> QED BY <1>o, <1>p, <2>1, <2>2, HistoryKept
<1>5. ASSUME GiveUp(t) PROVE History'
  <2>1. failedAt' = now
    BY <1>5 DEF GiveUp
  <2>2. /\ thread'[t].pc # "apply" /\ thread'[t].checked = thread[t].checked
        /\ client'.keys = client.keys /\ client'.at = client.at
    BY <1>5, Effects
  <2> QED BY <1>o, <1>p, <2>1, <2>2, HistoryKept
<1>6. ASSUME Apply(t) PROVE History'
  <2>1. At(t, "apply") /\ failedAt' = failedAt
    BY <1>6 DEF Apply
  <2>2. /\ thread'[t].pc = "lookup" /\ thread'[t].checked = thread[t].checked
        /\ client'.keys = thread[t].doc.keys /\ client'.at = now
    BY <1>6, Effects
  <2>3. \A u \in Threads : thread'[u].pc # "apply"
    BY <1>o, <2>1, <2>2 DEF Order, LockGuardsFetch, At
  <2>4. Dates'
    BY <1>o, <1>p, <1>n, <2>1, <2>2, <2>3 DEF History, Dates, At
  <2>5. ASSUME NEW k \in thread[t].doc.keys
        PROVE  k \in published.keys
                 \/ (withdrawn[k] >= 0 /\ now <= withdrawn[k] + Latency)
    <3>1. k \in published.keys \/ withdrawn[k] >= thread[t].doc.read
      BY <2>1 DEF History, KeyHistory
    <3>2. now <= thread[t].doc.read + Latency
      BY <2>1 DEF History, Dates
    <3>3. withdrawn[k] \in Int
      BY <1>n
    <3> QED BY <1>n, <3>1, <3>2, <3>3
  <2>6. KeyHistory'
    BY <1>p, <2>2, <2>3, <2>5 DEF History, KeyHistory, At
  <2> QED BY <2>4, <2>6 DEF History
<1>7. ASSUME Lookup(t) \/ Take(t) PROVE History'
  <2>1. client' = client /\ failedAt' = failedAt
    BY <1>7 DEF Lookup, Take
  <2>2. thread'[t].checked = thread[t].checked
    BY <1>7, Effects
  <2>3. thread'[t].pc # "apply"
    BY <1>7, Effects DEF AfterMiss
  <2> QED BY <1>o, <1>p, <2>1, <2>2, <2>3, HistoryKept
<1>8. ASSUME Respond(t) PROVE History'
  <2>1. client' = client /\ failedAt' = failedAt
    BY <1>8 DEF Respond
  <2>2. thread'[t].pc = "idle" /\ thread'[t].checked = 0
    BY <1>8, Effects
  <2> QED BY <1>o, <1>p, <2>1, <2>2, HistoryKept
<1> QED BY <1>1, <1>2, <1>3, <1>4, <1>5, <1>6, <1>7, <1>8 DEF Serve

(* A rotation withdraws keys now, which is after every look at the TTL and  *)
(* every answer; what was withdrawn before is not published again.          *)
LEMMA HistoryRotate ==
  ASSUME TypeOK, History, NEW S \in SUBSET Kids, Rotate(S)
  PROVE  History'
<1>1. /\ UNCHANGED <<now, client, failedAt>>
      /\ published'.keys = S
      /\ \A k \in S : withdrawn[k] = -1
      /\ \A k \in Kids : withdrawn'[k] =
             IF k \in published.keys \ S THEN now ELSE withdrawn[k]
  BY DEF Rotate
<1>2. \A u \in Threads : /\ thread'[u].pc = thread[u].pc
                        /\ thread'[u].doc = thread[u].doc
                        /\ thread'[u].checked = thread[u].checked
  BY DEF Rotate, TypeOK, ThreadType
<1>3. /\ now \in Nat /\ client.at \in Nat /\ Latency \in Nat
      /\ client.keys \subseteq Kids /\ published.keys \subseteq Kids
      /\ \A k \in Kids : withdrawn[k] \in Int
      /\ \A u \in Threads : thread[u].doc.read \in Nat /\ thread[u].doc.keys \subseteq Kids
  BY KeyAssumption DEF TypeOK, ThreadType, Document
<1>4. Dates'
  BY <1>1, <1>2 DEF History, Dates, At
<1>5. ASSUME NEW k \in Kids
      PROVE  /\ k \in published.keys => k \in S \/ withdrawn'[k] = now
             /\ k \notin published.keys /\ withdrawn[k] >= 0 =>
                  k \notin S /\ withdrawn'[k] = withdrawn[k]
  BY <1>1, <1>3
<1>6. \A k \in S : withdrawn'[k] = -1
  BY <1>1
<1>7. ASSUME NEW k \in client.keys
      PROVE  k \in S \/ (withdrawn'[k] >= 0 /\ client.at <= withdrawn'[k] + Latency)
  <2>1. k \in Kids /\ client.at <= now
    BY <1>3 DEF History, Dates
  <2>2. k \in published.keys
          \/ (withdrawn[k] >= 0 /\ client.at <= withdrawn[k] + Latency)
    BY DEF History, KeyHistory
  <2>3. CASE k \in published.keys
    BY <1>3, <1>5, <2>1, <2>3
  <2>4. CASE k \notin published.keys
    BY <1>3, <1>5, <2>1, <2>2, <2>4
  <2> QED BY <2>3, <2>4
<1>8. ASSUME NEW u \in Threads, At(u, "apply")
      PROVE  /\ \A k \in thread[u].doc.keys :
                  k \in S \/ withdrawn'[k] >= thread[u].doc.read
             /\ \A k \in client.keys : k \in S => k \in thread[u].doc.keys
  <2>1. thread[u].doc.read <= now
    BY <1>8 DEF History, Dates
  <2>2. ASSUME NEW k \in thread[u].doc.keys
        PROVE  k \in S \/ withdrawn'[k] >= thread[u].doc.read
    <3>1. k \in Kids /\ thread[u].doc.read \in Nat
      BY <1>3
    <3>2. k \in published.keys \/ withdrawn[k] >= thread[u].doc.read
      BY <1>8 DEF History, KeyHistory
    <3>3. CASE k \in published.keys
      BY <1>3, <1>5, <2>1, <3>1, <3>3
    <3>4. CASE k \notin published.keys
      BY <1>3, <1>5, <3>1, <3>2, <3>4
    <3> QED BY <3>3, <3>4
  <2>3. ASSUME NEW k \in client.keys, k \in S PROVE k \in thread[u].doc.keys
    <3>1. k \in published.keys
      BY <1>1, <2>3 DEF History, KeyHistory
    <3> QED BY <1>8, <3>1 DEF History, KeyHistory
  <2> QED BY <2>2, <2>3
<1>9. KeyHistory'
  BY <1>1, <1>2, <1>6, <1>7, <1>8 DEF KeyHistory, At
<1> QED BY <1>4, <1>9 DEF History

(* The inductive invariant of what the cache may hold. *)
THEOREM HistoryCorrect == Spec => []History
<1>1. Init => History
  <2> SUFFICES ASSUME Init PROVE History OBVIOUS
  <2>1. Dates
    BY DEF Init, Dates, At, Idle
  <2>2. published.keys \subseteq Kids /\ client.keys = {}
    BY DEF Init
  <2>3. KeyHistory
    BY <2>2 DEF Init, KeyHistory, At, Idle
  <2> QED BY <2>1, <2>3 DEF History
<1>2. TypeOK /\ Order /\ History /\ [Next]_vars => History'
  <2> SUFFICES ASSUME TypeOK, Order, History, [Next]_vars PROVE History' OBVIOUS
  <2>1. CASE UNCHANGED vars
    <3>1. Dates' BY <2>1 DEF vars, History, Dates, At
    <3>2. KeyHistory' BY <2>1 DEF vars, History, KeyHistory, At
    <3> QED BY <3>1, <3>2 DEF History
  <2>2. CASE Tick
    <3>1. now' = now + 1 /\ UNCHANGED <<published, withdrawn, client, thread, failedAt>>
      BY <2>2 DEF Tick
    <3>2. KeyHistory'
      BY <3>1 DEF History, KeyHistory, At
    <3>3. /\ now \in Nat /\ client.at \in Nat /\ failedAt \in Int /\ Latency \in Nat
          /\ \A t \in Threads : thread[t].checked \in Nat /\ thread[t].doc.read \in Nat
      BY KeyAssumption DEF TypeOK, ThreadType, Document
    <3>4. \A t \in Threads : At(t, "apply") => now < thread[t].doc.read + Latency
      BY <2>2 DEF Tick
    <3>5. Dates'
      BY <3>1, <3>3, <3>4 DEF History, Dates, At
    <3> QED BY <3>2, <3>5 DEF History
  <2> QED BY <2>1, <2>2, HistorySteps, HistoryRotate DEF Next
<1> QED BY <1>1, <1>2, TypeCorrect, OrderCorrect, PTL DEF Spec
-----------------------------------------------------------------------------
(* A current key is accepted. *)

(* A key that was published all through the request is in the answer that   *)
(* the request takes up, and after that in the cache, unless its fetch      *)
(* failed.                                                                  *)
KeyInReach(t) ==
  thread[t].steady =>
    /\ thread[t].kid \in published.keys
    /\ At(t, "apply") => thread[t].kid \in thread[t].doc.keys
    /\ At(t, "take") \/ (At(t, "lookup") /\ thread[t].force) =>
         thread[t].failed \/ thread[t].kid \in client.keys
    /\ At(t, "refused") => thread[t].failed

Requests == \A t \in Threads : KeyInReach(t)

(* A step of one request keeps the keys of the others within reach: an      *)
(* answer that replaces the cache has every cached key that is published.   *)
LEMMA OthersKeepReach ==
  ASSUME TypeOK, Order, History, Requests, NEW t \in Threads, Serve(t),
         NEW u \in Threads, u # t
  PROVE  KeyInReach(u)'
<1>1. thread'[u] = thread[u]
  BY ServeTypes
<1>2. published' = published
  BY DEF Serve, Request, Check, EnterLock, Fetch, FetchAgain, GiveUp,
         Apply, Lookup, Take, Respond
<1>3. \A k \in published.keys : k \in client.keys => k \in client'.keys
  <2>1. CASE Apply(t)
    <3>1. At(t, "apply") /\ client'.keys = thread[t].doc.keys
      BY <2>1, Effects DEF Apply
    <3> QED BY <3>1 DEF History, KeyHistory
  <2>2. CASE GiveUp(t)
    BY <2>2, Effects
  <2>3. CASE ~Apply(t) /\ ~GiveUp(t)
    BY <2>3 DEF Serve, Request, Check, EnterLock, Fetch, FetchAgain,
                Lookup, Take, Respond
  <2> QED BY <2>1, <2>2, <2>3
<1> QED BY <1>1, <1>2, <1>3 DEF Requests, KeyInReach, At

(* ... and so does the step for the request it belongs to.                  *)
LEMMA ServeKeepsReach ==
  ASSUME TypeOK, Requests, NEW t \in Threads, Serve(t)
  PROVE  KeyInReach(t)'
<1> USE DEF KeyInReach, At
<1>r. KeyInReach(t)
  BY DEF Requests
<1>p. published' = published
  BY DEF Serve, Request, Check, EnterLock, Fetch, FetchAgain, GiveUp,
         Apply, Lookup, Take, Respond
<1>n. Nobody \notin published.keys
  BY KeyAssumption DEF TypeOK
<1>1. ASSUME NEW k \in Kids \cup {Nobody}, Request(t, k) PROVE KeyInReach(t)'
  BY <1>p, <1>1, Effects
<1>2. ASSUME Check(t) \/ EnterLock(t) PROVE KeyInReach(t)'
  BY <1>r, <1>p, <1>2, Effects
<1>3. ASSUME Fetch(t) PROVE KeyInReach(t)'
  BY <1>r, <1>p, <1>3, Effects
<1>4. ASSUME FetchAgain(t) PROVE KeyInReach(t)'
  <2>1. /\ thread'[t].pc = "fetch" /\ thread'[t].kid = thread[t].kid
        /\ thread'[t].steady = thread[t].steady
    BY <1>4 DEF FetchAgain, TypeOK, ThreadType
  <2> QED BY <1>r, <1>p, <2>1
<1>5. ASSUME GiveUp(t) PROVE KeyInReach(t)'
  BY <1>r, <1>p, <1>5, Effects
<1>6. ASSUME Apply(t) PROVE KeyInReach(t)'
  <2>1. At(t, "apply")
    BY <1>6 DEF Apply
  <2> QED BY <1>r, <1>p, <1>6, <2>1, Effects
<1>7. ASSUME Lookup(t) PROVE KeyInReach(t)'
  <2>1. At(t, "lookup") /\ client' = client
    BY <1>7 DEF Lookup
  <2>2. /\ thread'[t].kid = thread[t].kid
        /\ thread'[t].steady = thread[t].steady
        /\ thread'[t].failed = thread[t].failed
        /\ thread'[t].pc = IF thread[t].kid \in client.keys
                             THEN "take" ELSE AfterMiss(t)
    BY <1>7, Effects
  <2>3. CASE thread[t].kid \in client.keys
    BY <1>r, <1>p, <2>1, <2>2, <2>3
  <2>4. CASE thread[t].kid \notin client.keys
    BY <1>r, <1>p, <1>n, <2>1, <2>2, <2>4 DEF AfterMiss
  <2> QED BY <2>3, <2>4
<1>8. ASSUME Take(t) PROVE KeyInReach(t)'
  <2>1. At(t, "take")
    BY <1>8 DEF Take
  <2> QED BY <1>r, <1>p, <1>8, <2>1, Effects
<1>9. ASSUME Respond(t) PROVE KeyInReach(t)'
  BY <1>9, Effects
<1> QED BY <1>1, <1>2, <1>3, <1>4, <1>5, <1>6, <1>7, <1>8, <1>9 DEF Serve

(* The inductive invariant of the requests. *)
THEOREM RequestsCorrect == Spec => []Requests
<1>1. Init => Requests
  BY DEF Init, Requests, KeyInReach, Idle
<1>2. TypeOK /\ Order /\ History /\ Requests /\ [Next]_vars => Requests'
  <2> SUFFICES ASSUME TypeOK, Order, History, Requests, [Next]_vars
               PROVE  Requests'
    OBVIOUS
  <2>1. CASE UNCHANGED vars
    BY <2>1 DEF vars, Requests, KeyInReach, At
  <2>2. CASE Tick
    BY <2>2 DEF Tick, Requests, KeyInReach, At
  <2>3. ASSUME NEW S \in SUBSET Kids, Rotate(S) PROVE Requests'
    <3>1. client' = client /\ published'.keys = S
      BY <2>3 DEF Rotate
    <3>2. ASSUME NEW u \in Threads
          PROVE  /\ thread'[u].pc = thread[u].pc /\ thread'[u].doc = thread[u].doc
                 /\ thread'[u].kid = thread[u].kid
                 /\ thread'[u].force = thread[u].force
                 /\ thread'[u].failed = thread[u].failed
                 /\ thread'[u].steady =>
                      thread[u].steady /\ thread[u].kid \in S
      BY <2>3 DEF Rotate, TypeOK, ThreadType
    <3> QED BY <3>1, <3>2 DEF Requests, KeyInReach, At
  <2>4. ASSUME NEW t \in Threads, Serve(t) PROVE Requests'
    <3>1. KeyInReach(t)'
      BY <2>4, ServeKeepsReach
    <3>2. \A u \in Threads : u # t => KeyInReach(u)'
      BY <2>4, OthersKeepReach
    <3> QED BY <3>1, <3>2 DEF Requests
  <2> QED BY <2>1, <2>2, <2>3, <2>4 DEF Next
<1> QED BY <1>1, <1>2, TypeCorrect, OrderCorrect, HistoryCorrect, PTL DEF Spec

(* A token of a key that was published all through its request is refused   *)
(* only when a fetch made for that request failed: get_key refreshes once   *)
(* for an unknown kid, and no other thread's answer takes the key away.     *)
THEOREM CurrentKeyCorrect == Spec => []CurrentKeyAccepted
<1>1. Requests => CurrentKeyAccepted
  BY DEF Requests, KeyInReach, CurrentKeyAccepted
<1> QED BY <1>1, RequestsCorrect, PTL

-----------------------------------------------------------------------------
(* A withdrawn key expires. *)

(* Why thread t may trust the cache: it was young when t looked at the TTL, *)
(* or a refresh failed since, or whatever is cached, or about to be, was    *)
(* read since.                                                              *)
CacheRecent(t) ==
  \/ thread[t].checked < client.at + TTL
  \/ thread[t].checked <= failedAt
  \/ /\ \A k \in client.keys : withdrawn[k] >= 0 => thread[t].checked <= withdrawn[k]
     /\ \A u \in Threads : At(u, "apply") => thread[t].checked <= thread[u].doc.read

KeyRecent(t) ==
  LET k == thread[t].kid IN
    /\ k \in Kids
    /\ withdrawn[k] >= 0 =>
         \/ thread[t].checked < withdrawn[k] + Latency + TTL
         \/ thread[t].checked <= withdrawn[k]
         \/ failedAt >= withdrawn[k]

Recent ==
  \A t \in Threads :
    /\ thread[t].pc \in {"lookup", "take"} => CacheRecent(t)
    /\ At(t, "accepted") => KeyRecent(t)

(* A step of one request leaves the others their reason: the cache only     *)
(* becomes younger, failures accumulate, and an answer that arrives now was *)
(* read after every look at the TTL that counts on it.                      *)
LEMMA OthersKeepRecent ==
  ASSUME TypeOK, History, Recent, NEW t \in Threads, Serve(t),
         NEW u \in Threads, u # t
  PROVE  /\ thread[u].pc \in {"lookup", "take"} => CacheRecent(u)'
         /\ At(u, "accepted") => KeyRecent(u)'
<1>o. \A v \in Threads : v # t => thread'[v] = thread[v]
  BY ServeTypes
<1>p. UNCHANGED <<now, published, withdrawn>>
  BY DEF Serve, Request, Check, EnterLock, Fetch, FetchAgain, GiveUp,
         Apply, Lookup, Take, Respond
<1>n. /\ now \in Nat /\ client.at \in Nat /\ failedAt \in Int /\ TTL \in Nat
      /\ thread[u].checked \in Nat /\ thread[t].doc.read \in Nat
      /\ thread[u].checked <= now /\ client.at <= now /\ failedAt <= now
      /\ \A k \in Kids : withdrawn[k] \in Int
      /\ client.keys \subseteq Kids /\ thread[t].doc.keys \subseteq Kids
  BY KeyAssumption DEF TypeOK, ThreadType, Document, History, Dates
<1>f. failedAt' = failedAt \/ failedAt' = now
  BY DEF Serve, Request, Check, EnterLock, Fetch, FetchAgain, GiveUp,
         Apply, Lookup, Take, Respond
<1>1. failedAt' >= failedAt /\ failedAt' \in Int
  BY <1>n, <1>f
<1>2. ASSUME At(u, "accepted") PROVE KeyRecent(u)'
  <2>1. KeyRecent(u)
    BY <1>2 DEF Recent
  <2> QED BY <1>o, <1>p, <1>n, <1>1, <2>1 DEF KeyRecent
<1>3. ASSUME thread[u].pc \in {"lookup", "take"} PROVE CacheRecent(u)'
  <2>1. CacheRecent(u)
    BY <1>3 DEF Recent
  <2>2. client'.at >= client.at /\ client'.at \in Nat
    <3>1. CASE Apply(t) \/ GiveUp(t)
      BY <1>n, <3>1, Effects
    <3>2. CASE ~Apply(t) /\ ~GiveUp(t)
      <4>1. client' = client
        BY <3>2 DEF Serve, Request, Check, EnterLock, Fetch, FetchAgain,
                    Lookup, Take, Respond
      <4> QED BY <1>n, <4>1
    <3> QED BY <3>1, <3>2
  <2>3. CASE thread[u].checked < client.at + TTL
    BY <1>o, <1>n, <2>2, <2>3 DEF CacheRecent
  <2>4. CASE thread[u].checked <= failedAt
    BY <1>o, <1>n, <1>1, <2>4 DEF CacheRecent
  <2>5. CASE /\ \A k \in client.keys : withdrawn[k] >= 0
                                       => thread[u].checked <= withdrawn[k]
             /\ \A v \in Threads : At(v, "apply")
                                   => thread[u].checked <= thread[v].doc.read
    <3>1. \A k \in client'.keys : withdrawn[k] >= 0 => thread[u].checked <= withdrawn[k]
      <4>1. CASE Apply(t)
        <5>1. At(t, "apply") /\ client'.keys = thread[t].doc.keys
          BY <4>1, Effects DEF Apply
        <5>2. thread[u].checked <= thread[t].doc.read
          BY <2>5, <5>1
        <5>3. ASSUME NEW k \in thread[t].doc.keys, withdrawn[k] >= 0
              PROVE  thread[u].checked <= withdrawn[k]
          <6>1. k \notin published.keys
            BY <5>3 DEF History, KeyHistory
          <6>2. withdrawn[k] >= thread[t].doc.read
            BY <5>1, <6>1 DEF History, KeyHistory
          <6>3. withdrawn[k] \in Int
            BY <1>n
          <6> QED BY <1>n, <5>2, <6>2, <6>3
        <5> QED BY <5>1, <5>3
      <4>2. CASE ~Apply(t)
        <5>1. client'.keys = client.keys
          <6>1. CASE GiveUp(t)
            BY <6>1, Effects
          <6>2. CASE ~GiveUp(t)
            BY <4>2, <6>2 DEF Serve, Request, Check, EnterLock, Fetch,
                              FetchAgain, Lookup, Take, Respond
          <6> QED BY <6>1, <6>2
        <5> QED BY <2>5, <5>1
      <4> QED BY <4>1, <4>2
    <3>2. thread'[t].pc = "apply" => thread[u].checked <= thread'[t].doc.read
      <4>1. CASE Fetch(t)
        BY <1>n, <4>1, Effects
      <4>2. CASE ~Fetch(t)
        <5>1. CASE FetchAgain(t)
          BY <5>1 DEF FetchAgain, At, TypeOK, ThreadType
        <5>2. CASE ~FetchAgain(t)
          BY <4>2, <5>2, Effects DEF Serve, AfterMiss
        <5> QED BY <5>1, <5>2
      <4> QED BY <4>1, <4>2
    <3>3. \A v \in Threads : thread'[v].pc = "apply"
                             => thread[u].checked <= thread'[v].doc.read
      BY <1>o, <2>5, <3>2 DEF At
    <3> QED BY <1>o, <1>p, <3>1, <3>3 DEF CacheRecent, At
  <2> QED BY <2>1, <2>3, <2>4, <2>5 DEF CacheRecent
<1> QED BY <1>2, <1>3

(* The step of a request gives it a reason when it leaves the refresh, and  *)
(* turns the reason for the cache into one for its key.                     *)
LEMMA ServeGivesReason ==
  ASSUME TypeOK, Order, History, Recent, NEW t \in Threads, Serve(t)
  PROVE  /\ thread'[t].pc \in {"lookup", "take"} => CacheRecent(t)'
         /\ thread'[t].pc = "accepted" => KeyRecent(t)'
<1> DEFINE Goal == /\ thread'[t].pc \in {"lookup", "take"} => CacheRecent(t)'
                   /\ thread'[t].pc = "accepted" => KeyRecent(t)'
<1>o. \A v \in Threads : v # t => thread'[v] = thread[v]
  BY ServeTypes
<1>p. UNCHANGED <<now, published, withdrawn>>
  BY DEF Serve, Request, Check, EnterLock, Fetch, FetchAgain, GiveUp,
         Apply, Lookup, Take, Respond
<1>n. /\ now \in Nat /\ client.at \in Nat /\ failedAt \in Int
      /\ TTL \in Nat /\ Latency \in Nat
      /\ thread[t].checked \in Nat /\ thread[t].doc.read \in Nat
      /\ thread[t].checked <= now /\ client.at <= now
      /\ \A k \in Kids : withdrawn[k] \in Int
      /\ client.keys \subseteq Kids /\ thread[t].doc.keys \subseteq Kids
  BY KeyAssumption DEF TypeOK, ThreadType, Document, History, Dates
<1>1. ASSUME NEW k \in Kids \cup {Nobody}, Request(t, k) PROVE Goal
  BY <1>1, Effects
<1>2. ASSUME Check(t) \/ EnterLock(t) PROVE Goal
  <2>1. /\ thread'[t].pc \in {"lookup", "lock", "fetch"}
        /\ thread'[t].checked = now
        /\ thread'[t].pc = "lookup" => Fresh
    BY <1>2, Effects
  <2>2. client' = client
    BY <1>2 DEF Check, EnterLock
  <2>3. ASSUME thread'[t].pc = "lookup" PROVE CacheRecent(t)'
    <3>1. now < client.at + TTL
      BY <1>n, <2>1, <2>3 DEF Fresh
    <3> QED BY <2>1, <2>2, <3>1 DEF CacheRecent
  <2> QED BY <2>1, <2>3
<1>3. ASSUME Fetch(t) \/ FetchAgain(t) PROVE Goal
  <2>1. thread'[t].pc \in {"fetch", "apply"}
    BY <1>3 DEF Fetch, FetchAgain, At, TypeOK, ThreadType
  <2> QED BY <2>1
<1>4. ASSUME GiveUp(t) PROVE Goal
  <2>1. /\ thread'[t].pc \in {"lookup", "refused"}
        /\ thread'[t].checked = thread[t].checked
    BY <1>4, Effects
  <2>2. failedAt' = now
    BY <1>4 DEF GiveUp
  <2>3. CacheRecent(t)'
    BY <1>n, <2>1, <2>2 DEF CacheRecent
  <2> QED BY <2>1, <2>3
<1>5. ASSUME Apply(t) PROVE Goal
  <2>1. /\ thread'[t].pc = "lookup" /\ thread'[t].checked = thread[t].checked
        /\ client'.keys = thread[t].doc.keys
    BY <1>5, Effects
  <2>2. At(t, "apply")
    BY <1>5 DEF Apply
  <2>3. \A v \in Threads : thread'[v].pc # "apply"
    BY <1>o, <2>1, <2>2 DEF Order, LockGuardsFetch, At
  <2>4. thread[t].checked <= thread[t].doc.read
    BY <2>2 DEF History, Dates
  <2>5. ASSUME NEW k \in thread[t].doc.keys, withdrawn[k] >= 0
        PROVE  thread[t].checked <= withdrawn[k]
    <3>1. k \notin published.keys
      BY <2>5 DEF History, KeyHistory
    <3>2. withdrawn[k] >= thread[t].doc.read /\ withdrawn[k] \in Int
      BY <1>n, <2>2, <3>1 DEF History, KeyHistory
    <3> QED BY <1>n, <2>4, <3>2
  <2>6. CacheRecent(t)'
    BY <1>p, <2>1, <2>3, <2>5 DEF CacheRecent, At
  <2> QED BY <2>1, <2>6
<1>6. ASSUME Lookup(t) PROVE Goal
  <2>1. At(t, "lookup") /\ UNCHANGED <<client, failedAt>>
    BY <1>6 DEF Lookup
  <2>2. thread'[t].checked = thread[t].checked
    BY <1>6, Effects
  <2>3. thread'[t].pc \in {"take", "check", "refused"}
    BY <1>6, Effects DEF AfterMiss
  <2>4. CacheRecent(t)
    BY <2>1 DEF Recent, At
  <2>5. CacheRecent(t)'
    BY <1>o, <1>p, <2>1, <2>2, <2>3, <2>4 DEF CacheRecent, At
  <2> QED BY <2>3, <2>5
<1>7. ASSUME Take(t) PROVE Goal
  <2>1. At(t, "take") /\ UNCHANGED <<client, failedAt>>
    BY <1>7 DEF Take
  <2>2. /\ thread'[t].checked = thread[t].checked
        /\ thread'[t].kid = thread[t].kid
        /\ thread'[t].pc = IF thread[t].kid \in client.keys
                             THEN "accepted" ELSE "refused"
    BY <1>7, Effects
  <2>3. CacheRecent(t)
    BY <2>1 DEF Recent, At
  <2> DEFINE k == thread[t].kid
  <2>4. ASSUME k \in client.keys PROVE KeyRecent(t)
    <3>1. k \in Kids /\ withdrawn[k] \in Int
      BY <1>n, <2>4
    <3>2. ASSUME withdrawn[k] >= 0
          PROVE  \/ thread[t].checked < withdrawn[k] + Latency + TTL
                 \/ thread[t].checked <= withdrawn[k]
                 \/ failedAt >= withdrawn[k]
      <4>1. k \notin published.keys
        BY <3>2 DEF History, KeyHistory
      <4>2. client.at <= withdrawn[k] + Latency
        BY <2>4, <4>1 DEF History, KeyHistory
      <4>3. CASE thread[t].checked < client.at + TTL
        BY <1>n, <3>1, <4>2, <4>3
      <4>4. CASE thread[t].checked <= failedAt
        BY <1>n, <3>1, <4>4
      <4>5. CASE \A j \in client.keys : withdrawn[j] >= 0
                                        => thread[t].checked <= withdrawn[j]
        BY <2>4, <3>2, <4>5
      <4> QED BY <2>3, <4>3, <4>4, <4>5 DEF CacheRecent
    <3> QED BY <3>1, <3>2 DEF KeyRecent
  <2>5. ASSUME thread'[t].pc = "accepted" PROVE KeyRecent(t)'
    <3>1. KeyRecent(t)
      BY <2>2, <2>4, <2>5
    <3> QED BY <1>p, <2>1, <2>2, <3>1 DEF KeyRecent
  <2>6. thread'[t].pc \notin {"lookup", "take"}
    BY <2>2
  <2> QED BY <2>5, <2>6
<1>8. ASSUME Respond(t) PROVE Goal
  BY <1>8, Effects
<1> QED BY <1>1, <1>2, <1>3, <1>4, <1>5, <1>6, <1>7, <1>8 DEF Serve

(* The inductive invariant of the age of what is accepted. *)
THEOREM RecentCorrect == Spec => []Recent
<1>1. Init => Recent
  BY DEF Init, Recent, At, Idle
<1>2. TypeOK /\ Order /\ History /\ Recent /\ [Next]_vars => Recent'
  <2> SUFFICES ASSUME TypeOK, Order, History, Recent, [Next]_vars
               PROVE  Recent'
    OBVIOUS
  <2>1. CASE UNCHANGED vars
    BY <2>1 DEF vars, Recent, CacheRecent, KeyRecent, At
  <2>2. CASE Tick
    BY <2>2 DEF Tick, Recent, CacheRecent, KeyRecent, At
  <2>3. ASSUME NEW S \in SUBSET Kids, Rotate(S) PROVE Recent'
    <3>1. /\ client' = client /\ failedAt' = failedAt
          /\ \A k \in S : withdrawn[k] = -1
      BY <2>3 DEF Rotate
    <3>2. ASSUME NEW u \in Threads
          PROVE  /\ thread'[u].pc = thread[u].pc /\ thread'[u].doc = thread[u].doc
                 /\ thread'[u].kid = thread[u].kid
                 /\ thread'[u].checked = thread[u].checked
                 /\ thread[u].checked <= now
                 /\ thread[u].checked \in Nat
      BY <2>3 DEF Rotate, TypeOK, ThreadType, History, Dates
    <3>3. ASSUME NEW k \in Kids
          PROVE  \/ withdrawn'[k] = withdrawn[k]
                 \/ withdrawn'[k] = now
      BY <2>3 DEF Rotate
    <3>4. ASSUME NEW k \in Kids, withdrawn[k] >= 0
          PROVE  withdrawn'[k] = withdrawn[k]
      <4>1. k \notin published.keys
        BY <3>4 DEF History, KeyHistory
      <4> QED BY <2>3, <4>1 DEF Rotate
    <3>5. client.keys \subseteq Kids
      BY DEF TypeOK
    <3>6. ASSUME NEW u \in Threads, thread[u].pc \in {"lookup", "take"}
          PROVE  CacheRecent(u)'
      <4>1. CacheRecent(u)
        BY <3>6 DEF Recent
      <4> QED BY <3>1, <3>2, <3>3, <3>5, <4>1 DEF CacheRecent, At
    <3>7. ASSUME NEW u \in Threads, At(u, "accepted")
          PROVE  KeyRecent(u)'
      <4>1. KeyRecent(u)
        BY <3>7 DEF Recent
      <4> QED BY <3>1, <3>2, <3>3, <3>4, <4>1 DEF KeyRecent
    <3> QED BY <3>2, <3>6, <3>7 DEF Recent, At
  <2>4. ASSUME NEW t \in Threads, Serve(t) PROVE Recent'
    <3>1. \A u \in Threads : u # t => thread'[u] = thread[u]
      BY <2>4, ServeTypes
    <3>2. /\ thread'[t].pc \in {"lookup", "take"} => CacheRecent(t)'
          /\ thread'[t].pc = "accepted" => KeyRecent(t)'
      BY <2>4, ServeGivesReason
    <3>3. \A u \in Threads : u # t =>
            /\ thread[u].pc \in {"lookup", "take"} => CacheRecent(u)'
            /\ At(u, "accepted") => KeyRecent(u)'
      BY <2>4, OthersKeepRecent
    <3> QED BY <3>1, <3>2, <3>3 DEF Recent, At
  <2> QED BY <2>1, <2>2, <2>3, <2>4 DEF Next
<1> QED BY <1>1, <1>2, TypeCorrect, OrderCorrect, HistoryCorrect, PTL DEF Spec

(* A withdrawn key outlives its withdrawal by less than the TTL and the     *)
(* latency of an answer, counted to the look at the TTL, as long as no      *)
(* refresh gave up since: only a failed fetch makes get_key serve old keys. *)
THEOREM WithdrawnKeyCorrect == Spec => []WithdrawnKeyExpires
<1>1. Recent => WithdrawnKeyExpires
  BY DEF Recent, KeyRecent, WithdrawnKeyExpires
<1> QED BY <1>1, RecentCorrect, PTL
=============================================================================
