--------------------------- MODULE EventLogProofs --------------------------
(***************************************************************************)
(* Proofs about EventLog: types, the truth of the retention alarm, and that *)
(* no page of the list skips a row, for any number of rows, companies and   *)
(* overlapping purges.                                                      *)
(***************************************************************************)
EXTENDS EventLog, FiniteSetTheorems, TLAPS

-----------------------------------------------------------------------------
(* Type correctness. *)

(* The state after each step of the log's clients is well typed: the rows   *)
(* that record_event, a commit and a company's deletion leave.              *)
LEMMA RowTypes ==
  ASSUME TypeOK,
         NEW i \in Events, NEW c \in Companies \cup {Platform},
         Record(i, c) \/ Commit(i) \/ DropCompany(c)
  PROVE  TypeOK'
<1> USE DEF TypeOK
<1>0. Gone \in EventType
  BY DEF Gone, NoEvent, EventType
<1>1. CASE Record(i, c)
  <2>1. [state |-> "open", created |-> now, company |-> c] \in EventType
    BY DEF EventType
  <2>2. event' \in [Events -> EventType]
    BY <1>1, <2>1 DEF Record
  <2> QED BY <1>1, <2>2 DEF Record
<1>2. CASE Commit(i)
  <2>1. [event[i] EXCEPT !.state = "stored"] \in EventType
    BY DEF EventType
  <2>2. event' \in [Events -> EventType]
    BY <1>0, <1>2, <2>1 DEF Commit
  <2>3. \A d \in Companies : [walk[d] EXCEPT !.crept = TRUE] \in WalkType
    BY DEF WalkType
  <2>4. walk' \in [Companies -> WalkType]
    BY <1>2, <2>3 DEF Commit
  <2> QED BY <1>2, <2>2, <2>4 DEF Commit
<1>3. CASE DropCompany(c)
  <2>1. event' \in [Events -> EventType]
    BY <1>0, <1>3 DEF DropCompany
  <2> QED BY <1>3, <2>1 DEF DropCompany
<1> QED BY <1>1, <1>2, <1>3

(* A purge's own steps keep the types: its run record, the rows it deletes  *)
(* and the time of the newest complete run.                                 *)
LEMMA PurgeTypes ==
  ASSUME TypeOK,
         NEW w \in Runners,
         Purge(w) \/ StopPurge(w) \/ Die(w)
  PROVE  TypeOK'
<1> USE DEF TypeOK
<1>0. NoPurge \in PurgeType
  BY DEF NoPurge, PurgeType
<1>1. CASE StartPurge(w)
  <2>1. [NoPurge EXCEPT !.pc = "select", !.asOf = now] \in PurgeType
    BY DEF NoPurge, PurgeType
  <2>2. purge' \in [Runners -> PurgeType]
    BY <1>1, <2>1 DEF StartPurge
  <2> QED BY <1>1, <2>2 DEF StartPurge
<1>2. CASE Select(w)
  <2>1. PICK ids \in Batches(purge[w].asOf) :
          purge' = [purge EXCEPT ![w].pc = "delete", ![w].ids = ids]
    BY <1>2 DEF Select
  <2>2. ids \in SUBSET Events
    BY DEF Batches, ExpiredAt
  <2>3. [purge[w] EXCEPT !.pc = "delete", !.ids = ids] \in PurgeType
    BY <2>2 DEF PurgeType
  <2>4. purge' \in [Runners -> PurgeType]
    BY <2>1, <2>3
  <2> QED BY <1>2, <2>4 DEF Select
<1>3. CASE DeleteBatch(w)
  <2>1. Gone \in EventType
    BY DEF Gone, NoEvent, EventType
  <2>2. event' \in [Events -> EventType]
    BY <1>3, <2>1 DEF DeleteBatch
  <2>3. [purge[w] EXCEPT !.pc = "select", !.ids = {}, !.worked = TRUE]
          \in PurgeType
    BY DEF PurgeType
  <2>4. purge' \in [Runners -> PurgeType]
    BY <1>3, <2>3 DEF DeleteBatch
  <2> QED BY <1>3, <2>2, <2>4 DEF DeleteBatch
<1>4. CASE FinishEvents(w)
  <2>1. purge' \in [Runners -> PurgeType]
    BY <1>0, <1>4 DEF FinishEvents
  <2>2. purge[w].asOf \in Nat
    BY DEF PurgeType
  <2>3. swept' \in Nat
    BY <1>4, <2>2 DEF FinishEvents
  <2> QED BY <1>4, <2>1, <2>3 DEF FinishEvents
<1>5. CASE StopPurge(w)
  <2>1. purge' \in [Runners -> PurgeType]
    BY <1>0, <1>5 DEF StopPurge
  <2> QED BY <1>5, <2>1 DEF StopPurge
<1>6. CASE Die(w)
  <2>1. purge' \in [Runners -> PurgeType]
    BY <1>0, <1>6 DEF Die
  <2>2. failures' \in 0 .. MaxFailures
    BY <1>6, LogAssumption DEF Die
  <2> QED BY <1>6, <2>1, <2>2 DEF Die
<1> QED BY <1>1, <1>2, <1>3, <1>4, <1>5, <1>6 DEF Purge

(* The list is finite. *)
LEMMA ListFinite ==
  ASSUME NEW c \in Companies
  PROVE  Listed(c) \subseteq Events /\ IsFiniteSet(Listed(c)) /\ Cardinality(Listed(c)) \in Nat
<1>1. IsFiniteSet(Events)
  BY LogAssumption, FS_Interval DEF Events
<1>2. Listed(c) \subseteq Events
  BY DEF Listed
<1> QED BY <1>1, <1>2, FS_Subset, FS_CardinalityType

(* Walking through the pages of the list, and time, keep the types.         *)
LEMMA WalkTypes ==
  ASSUME TypeOK,
         NEW c \in Companies,
         FirstCount(c) \/ NextCount(c) \/ Slice(c) \/ EndWalk(c) \/ Tick
  PROVE  TypeOK'
<1> USE DEF TypeOK
<1>1. ASSUME NEW n \in Nat, NEW due \in SUBSET Events, CountThen(c, n, due)
      PROVE  TypeOK'
  <2> DEFINE r == [pc |-> "counted", page |-> n, total |-> Cardinality(Listed(c)),
                   due |-> due, crept |-> FALSE]
  <2>1. r \in WalkType
    BY ListFinite DEF WalkType
  <2> HIDE DEF r
  <2>2. walk' = [walk EXCEPT ![c] = r]
    BY <1>1 DEF CountThen, r
  <2> QED BY <1>1, <2>1, <2>2 DEF CountThen
<1>2. CASE FirstCount(c)
  <2>1. CountThen(c, 0, Listed(c)) /\ Listed(c) \in SUBSET Events /\ 0 \in Nat
    BY <1>2, ListFinite DEF FirstCount
  <2> HIDE DEF TypeOK
  <2> QED BY <1>1, <2>1
<1>3. CASE NextCount(c) \/ Slice(c)
  <2>1. walk[c].page \in Nat /\ walk[c].page + 1 \in Nat /\ walk[c].due \in SUBSET Events
    BY DEF WalkType
  <2>2. CASE NextCount(c)
    BY <1>1, <2>1, <2>2 DEF NextCount
  <2>3. ASSUME Slice(c) PROVE walk' \in [Companies -> WalkType]
    <3> DEFINE n == walk[c].page + 1
               pc == IF n * PageSize >= walk[c].total THEN "done" ELSE "walking"
               r == [walk[c] EXCEPT !.pc = pc, !.page = n, !.total = 0,
                                    !.due = @ \ Page(n, c)]
    <3>1. r \in WalkType
      BY <2>1 DEF WalkType
    <3>2. walk' = [walk EXCEPT ![c] = r]
      BY <2>3 DEF Slice
    <3> HIDE DEF r
    <3> QED BY <3>1, <3>2
  <2>4. Slice(c) => TypeOK'
    BY <2>3 DEF Slice
  <2> HIDE DEF TypeOK
  <2> QED BY <1>3, <2>2, <2>4
<1>4. CASE EndWalk(c)
  <2>1. NoWalk \in WalkType
    BY DEF NoWalk, WalkType
  <2> QED BY <1>4, <2>1 DEF EndWalk
<1>5. CASE Tick
  BY <1>5 DEF Tick
<1> QED BY <1>2, <1>3, <1>4, <1>5

(* Every reachable state is well typed, for any bounds and any numbers of   *)
(* companies and purging processes (all of record_event, the list and the   *)
(* purge).                                                                  *)
THEOREM TypeCorrect == Spec => []TypeOK
<1>1. Init => TypeOK
  <2> SUFFICES ASSUME Init PROVE TypeOK OBVIOUS
  <2>1. NoEvent \in EventType /\ NoPurge \in PurgeType /\ NoWalk \in WalkType
    BY DEF NoEvent, EventType, NoPurge, PurgeType, NoWalk, WalkType
  <2> QED BY <2>1, LogAssumption DEF Init, TypeOK
<1>2. TypeOK /\ [Next]_vars => TypeOK'
  <2> SUFFICES ASSUME TypeOK, [Next]_vars PROVE TypeOK' OBVIOUS
  <2>1. CASE UNCHANGED vars
    BY <2>1 DEF vars, TypeOK
  <2>2. ASSUME NEW i \in Events, Commit(i) PROVE TypeOK'
    BY <2>2, RowTypes, Platform \in Companies \cup {Platform}
  <2>3. ASSUME NEW i \in Events, NEW c \in Companies \cup {Platform},
               Record(i, c)
        PROVE  TypeOK'
    BY <2>3, RowTypes
  <2>4. ASSUME NEW c \in Companies, DropCompany(c) PROVE TypeOK'
    <3>1. c \in Companies \cup {Platform}
      OBVIOUS
    <3>2. PICK i \in Events : Stored(i)
      BY <2>4 DEF DropCompany
    <3> QED BY <2>4, <3>1, <3>2, RowTypes
  <2>5. ASSUME NEW c \in Companies, FirstCount(c) \/ NextCount(c) \/ Slice(c) \/ EndWalk(c)
        PROVE  TypeOK'
    BY <2>5, WalkTypes
  <2>6. ASSUME NEW w \in Runners, Purge(w) \/ StopPurge(w) \/ Die(w)
        PROVE  TypeOK'
    BY <2>6, PurgeTypes
  <2>7. CASE Tick
    BY <2>7 DEF Tick, TypeOK
  <2> QED BY <2>1, <2>2, <2>3, <2>4, <2>5, <2>6, <2>7 DEF Next
<1> QED BY <1>1, <1>2, PTL DEF Spec

-----------------------------------------------------------------------------
(* The alarm. *)

(* What a complete purge leaves behind: no row older than the retention at  *)
(* its beginning, and no insertion so old that it could still commit one.   *)
NothingOlder ==
  /\ \A i \in Events :
       /\ event[i].state = "stored" => event[i].created + Retention >= swept
       /\ event[i].state = "open" => event[i].created + Span >= now
  /\ \A w \in Runners : purge[w].asOf <= now
  /\ swept <= now

(* The rows a client of the log writes are no older than the newest         *)
(* complete purge allows.                                                   *)
LEMMA RowsNotOlder ==
  ASSUME TypeOK, NothingOlder,
         NEW i \in Events, NEW c \in Companies \cup {Platform},
         Record(i, c) \/ Commit(i) \/ DropCompany(c)
  PROVE  NothingOlder'
<1>0. now \in Nat /\ swept \in Nat /\ Span \in Nat /\ Retention \in Nat
      /\ Span <= Retention
  BY LogAssumption DEF TypeOK
<1>t. event \in [Events -> EventType]
  BY DEF TypeOK
<1>f. Gone.state = "gone"
  BY DEF Gone, NoEvent
<1>u. now' = now /\ swept' = swept /\ purge' = purge
  BY DEF Record, Commit, DropCompany
<1>1. ASSUME NEW j \in Events
      PROVE  /\ event'[j].state = "stored" =>
                  event'[j].created + Retention >= swept
             /\ event'[j].state = "open" => event'[j].created + Span >= now
  <2>0. /\ event[j].created \in Nat
        /\ event[j].state = "stored" => event[j].created + Retention >= swept
        /\ event[j].state = "open" => event[j].created + Span >= now
    BY <1>t DEF EventType, NothingOlder
  <2>1. CASE event'[j] = event[j]
    BY <2>0, <2>1
  <2>2. CASE event'[j] = Gone
    BY <1>f, <2>2
  <2>3. CASE Record(i, c) /\ j = i
    <3>1. event'[j] = [state |-> "open", created |-> now, company |-> c]
      BY <1>t, <2>3 DEF Record
    <3> QED BY <1>0, <3>1
  <2>4. CASE j = i /\ event' = [event EXCEPT ![i].state = "stored"]
             /\ event[i].state = "open"
    <3>1. event'[j].created = event[j].created /\ event'[j].state = "stored"
      BY <1>t, <2>4 DEF EventType
    <3>2. swept <= now
      BY DEF NothingOlder
    <3> QED BY <1>0, <2>0, <2>4, <3>1, <3>2
  <2> QED BY <1>t, <2>1, <2>2, <2>3, <2>4 DEF Record, Commit, DropCompany
<1> QED BY <1>1, <1>u DEF NothingOlder

(* A purge deletes rows, and what it may report is true: the run that found *)
(* nothing expired looked at every committed row.                           *)
LEMMA PurgeNotOlder ==
  ASSUME TypeOK, NothingOlder,
         NEW w \in Runners,
         Purge(w) \/ StopPurge(w) \/ Die(w)
  PROVE  NothingOlder'
<1>0. now \in Nat /\ swept \in Nat /\ Span \in Nat /\ Retention \in Nat
  BY LogAssumption DEF TypeOK
<1>t. event \in [Events -> EventType] /\ purge \in [Runners -> PurgeType]
  BY DEF TypeOK
<1>f. Gone.state = "gone" /\ NoPurge.asOf = 0
  BY DEF Gone, NoEvent, NoPurge
<1>n. now' = now
  BY DEF Purge, StartPurge, Select, DeleteBatch, FinishEvents, StopPurge, Die
<1>1. ASSUME NEW v \in Runners PROVE purge'[v].asOf <= now
  <2>0. purge[v].asOf <= now
    BY DEF NothingOlder
  <2>1. CASE StartPurge(w)
    <3> DEFINE r == [NoPurge EXCEPT !.pc = "select", !.asOf = now]
    <3>1. r.asOf = now
      BY DEF NoPurge
    <3>2. purge' = [purge EXCEPT ![w] = r]
      BY <2>1 DEF StartPurge
    <3> HIDE DEF r
    <3>3. CASE v = w
      <4>1. purge'[v].asOf = now
        BY <1>t, <3>1, <3>2, <3>3
      <4> QED BY <1>0, <4>1
    <3>4. CASE v # w
      <4>1. purge'[v] = purge[v]
        BY <1>t, <3>2, <3>4
      <4> QED BY <2>0, <4>1
    <3> QED BY <3>3, <3>4
  <2>2. CASE Select(w) \/ DeleteBatch(w)
    <3>1. purge'[v].asOf = purge[v].asOf
      BY <1>t, <2>2 DEF Select, DeleteBatch, PurgeType
    <3> QED BY <2>0, <3>1
  <2>3. CASE FinishEvents(w) \/ StopPurge(w) \/ Die(w)
    <3>1. purge'[v] = purge[v] \/ purge'[v] = NoPurge
      BY <1>t, <2>3 DEF FinishEvents, StopPurge, Die
    <3> QED BY <1>0, <1>f, <2>0, <3>1
  <2> QED BY <2>1, <2>2, <2>3 DEF Purge
<1>2. CASE ~FinishEvents(w)
  <2>1. swept' = swept
    BY <1>2 DEF Purge, StartPurge, Select, DeleteBatch, StopPurge, Die
  <2>2. ASSUME NEW j \in Events PROVE event'[j] = event[j] \/ event'[j] = Gone
    BY <1>2, <1>t
    DEF Purge, StartPurge, Select, DeleteBatch, StopPurge, Die
  <2>3. ASSUME NEW j \in Events
        PROVE  /\ event'[j].state = "stored" =>
                    event'[j].created + Retention >= swept
               /\ event'[j].state = "open" => event'[j].created + Span >= now
    BY <1>f, <2>2 DEF NothingOlder
  <2>4. swept <= now
    BY DEF NothingOlder
  <2> QED BY <1>1, <1>n, <2>1, <2>3, <2>4 DEF NothingOlder
<1>3. CASE FinishEvents(w)
  <2>0. purge[w].asOf \in Nat /\ purge[w].asOf <= now
    BY <1>t DEF PurgeType, NothingOlder
  <2>1. event' = event
    BY <1>3 DEF FinishEvents
  <2>2. ASSUME NEW j \in Events, event[j].state = "stored"
        PROVE  event[j].created + Retention >= purge[w].asOf
    <3>1. ~Expired(j, purge[w].asOf)
      BY <1>3 DEF FinishEvents, ExpiredAt
    <3>2. ~(event[j].created + Retention < purge[w].asOf)
      BY <2>2, <3>1 DEF Expired, Stored
    <3>3. event[j].created \in Nat
      BY <1>t DEF EventType
    <3> QED BY <1>0, <2>0, <3>2, <3>3
  <2>3. swept' = purge[w].asOf \/ swept' = swept
    BY <1>3 DEF FinishEvents
  <2>4. ASSUME NEW j \in Events, event[j].state = "stored"
        PROVE  event[j].created + Retention >= swept'
    BY <2>2, <2>3, <2>4 DEF NothingOlder
  <2>5. swept' <= now
    BY <2>0, <2>3 DEF NothingOlder
  <2>6. ASSUME NEW j \in Events, event[j].state = "open"
        PROVE  event[j].created + Span >= now
    BY <2>6 DEF NothingOlder
  <2> QED BY <1>1, <1>n, <2>1, <2>4, <2>5, <2>6 DEF NothingOlder
<1> QED BY <1>2, <1>3

(* A tick makes nothing older than it may be: the insertions that are open  *)
(* are about to end.                                                        *)
LEMMA TickNotOlder ==
  ASSUME TypeOK, NothingOlder, Tick
  PROVE  NothingOlder'
<1>0. now \in Nat /\ swept \in Nat /\ Span \in Nat
  BY LogAssumption DEF TypeOK
<1>1. now' = now + 1 /\ event' = event /\ purge' = purge /\ swept' = swept
  BY DEF Tick
<1>2. ASSUME NEW j \in Events, event[j].state = "open"
      PROVE  event[j].created + Span >= now + 1
  <2>1. now < event[j].created + Span
    BY <1>2 DEF Tick
  <2>2. event[j].created \in Nat
    BY DEF TypeOK, EventType
  <2> QED BY <1>0, <2>1, <2>2
<1>3. \A w \in Runners : purge[w].asOf <= now + 1
  <2>1. \A w \in Runners : purge[w].asOf \in Nat /\ purge[w].asOf <= now
    BY DEF TypeOK, PurgeType, NothingOlder
  <2> QED BY <1>0, <2>1
<1>4. swept <= now + 1
  BY <1>0 DEF NothingOlder
<1>5. \A j \in Events :
        event[j].state = "stored" => event[j].created + Retention >= swept
  BY DEF NothingOlder
<1> QED BY <1>1, <1>2, <1>3, <1>4, <1>5 DEF NothingOlder

(* The inductive invariant of the purge: nothing older than the retention   *)
(* outlives a complete run, and no late commit brings such a row back.      *)
THEOREM PurgeCorrect == Spec => []NothingOlder
<1>1. Init => NothingOlder
  <2> SUFFICES ASSUME Init PROVE NothingOlder OBVIOUS
  <2>1. NoEvent.state = "none" /\ NoPurge.asOf = 0
    BY DEF NoEvent, NoPurge
  <2> QED BY <2>1 DEF Init, NothingOlder
<1>2. TypeOK /\ NothingOlder /\ [Next]_vars => NothingOlder'
  <2> SUFFICES ASSUME TypeOK, NothingOlder, [Next]_vars
               PROVE  NothingOlder'
    OBVIOUS
  <2>1. CASE UNCHANGED vars
    BY <2>1 DEF vars, NothingOlder
  <2>2. ASSUME NEW i \in Events, Commit(i) PROVE NothingOlder'
    BY <2>2, RowsNotOlder, Platform \in Companies \cup {Platform}
  <2>3. ASSUME NEW i \in Events, NEW c \in Companies \cup {Platform},
               Record(i, c)
        PROVE  NothingOlder'
    BY <2>3, RowsNotOlder
  <2>4. ASSUME NEW c \in Companies, DropCompany(c) PROVE NothingOlder'
    <3>1. c \in Companies \cup {Platform}
      OBVIOUS
    <3>2. PICK i \in Events : Stored(i)
      BY <2>4 DEF DropCompany
    <3> QED BY <2>4, <3>1, <3>2, RowsNotOlder
  <2>5. ASSUME NEW c \in Companies, FirstCount(c) \/ NextCount(c) \/ Slice(c) \/ EndWalk(c)
        PROVE  NothingOlder'
    <3>1. UNCHANGED <<now, event, purge, swept>>
      BY <2>5 DEF FirstCount, NextCount, CountThen, Slice, EndWalk
    <3> QED BY <3>1 DEF NothingOlder
  <2>6. ASSUME NEW w \in Runners, Purge(w) \/ StopPurge(w) \/ Die(w)
        PROVE  NothingOlder'
    BY <2>6, PurgeNotOlder
  <2>7. CASE Tick
    BY <2>7, TickNotOlder
  <2> QED BY <2>1, <2>2, <2>3, <2>4, <2>5, <2>6, <2>7 DEF Next
<1> QED BY <1>1, <1>2, TypeCorrect, PTL DEF Spec

(* `stale_events` never lies: it is shown only when a full grace period has *)
(* gone by in which no purge got through the expired events                 *)
(* (retention_status), whatever overlapping purges and late commits.        *)
THEOREM AlarmCorrect == Spec => []AlarmIsTrue
<1>1. TypeOK /\ NothingOlder => AlarmIsTrue
  <2> SUFFICES ASSUME TypeOK, NothingOlder, NEW c \in Companies, Stale(c)
               PROVE  swept + Grace < now
    BY DEF AlarmIsTrue
  <2>1. PICK i \in Events : /\ event[i].state = "stored"
                            /\ event[i].created + Retention + Grace < now
    BY DEF Stale, Listed, Stored
  <2>2. event[i].created + Retention >= swept
    BY <2>1 DEF NothingOlder
  <2>3. event[i].created \in Nat /\ swept \in Nat /\ now \in Nat
    BY DEF TypeOK, EventType
  <2> QED BY <2>1, <2>2, <2>3, LogAssumption
<1> QED BY <1>1, TypeCorrect, PurgeCorrect, PTL

-----------------------------------------------------------------------------
(* The pages. *)

Settled(i) == event[i].state \in {"stored", "gone"}
Fresh(i)   == event[i].created + Retention >= now

(* A batch that was read holds only rows that were expired then; a row's id *)
(* is never used again.                                                     *)
BatchInv ==
  \A w \in Runners : \A i \in purge[w].ids :
    /\ Settled(i)
    /\ Stored(i) => event[i].created + Retention < purge[w].asOf

(* A row within its retention that was listed when the walk began and is    *)
(* not shown yet comes after all pages shown so far, and is within the      *)
(* count unless a commit has pushed it since.                               *)
Ahead(c, i) ==
  IF walk[c].pc = "done" THEN walk[c].crept
  ELSE /\ Offset(i, c) >= walk[c].page * PageSize
       /\ walk[c].pc = "counted" /\ ~walk[c].crept => Offset(i, c) < walk[c].total

DueInv(c) ==
  walk[c].pc # "idle" =>
    \A i \in walk[c].due :
      /\ Settled(i) /\ (Stored(i) => event[i].company = c)
      /\ Stored(i) /\ Fresh(i) => Ahead(c, i)

(* What a step does to company c's list: it is emptied, or it loses only    *)
(* rows that have expired.                                                  *)
Aged(i) == event[i].created + Retention < now
ListMove(c) ==
  \/ \A i \in Listed(c) : event'[i] = Gone
  \/ \A i \in Listed(c) : event'[i] = event[i] \/ (event'[i] = Gone /\ Aged(i))
SettledStays == \A i \in Events : Settled(i) => event'[i] = event[i] \/ event'[i] = Gone

LEMMA RowMoves ==
  ASSUME TypeOK, NothingOlder, BatchInv, [Next]_vars
  PROVE  SettledStays /\ \A c \in Companies : ListMove(c)
<1>0. event \in [Events -> EventType] /\ now \in Nat /\ Retention \in Nat
  BY LogAssumption DEF TypeOK
<1>1. CASE event' = event
  BY <1>1 DEF SettledStays, ListMove
<1>2. ASSUME NEW i \in Events, Commit(i) \/ \E c \in Companies \cup {Platform} : Record(i, c)
      PROVE  SettledStays /\ \A c \in Companies : ListMove(c)
  <2>1. ~Settled(i) /\ \A j \in Events \ {i} : event'[j] = event[j]
    BY <1>0, <1>2 DEF Commit, Record, Settled
  <2>2. \A c \in Companies : \A j \in Listed(c) : Settled(j) /\ j \in Events
    BY DEF Listed, Stored, Settled
  <2> QED BY <2>1, <2>2 DEF SettledStays, ListMove
<1>3. ASSUME NEW d \in Companies, DropCompany(d)
      PROVE  SettledStays /\ \A c \in Companies : ListMove(c)
  <2>1. \A j \in Events : event'[j] = IF j \in Listed(d) THEN Gone ELSE event[j]
    BY <1>3 DEF DropCompany, Listed
  <2>2. ASSUME NEW c \in Companies PROVE ListMove(c)
    <3>1. CASE c = d
      BY <2>1, <3>1 DEF ListMove, Listed
    <3>2. CASE c # d
      BY <2>1, <3>2 DEF ListMove, Listed
    <3> QED BY <3>1, <3>2
  <2> QED BY <2>1, <2>2 DEF SettledStays
<1>4. ASSUME NEW w \in Runners, DeleteBatch(w)
      PROVE  SettledStays /\ \A c \in Companies : ListMove(c)
  <2>1. \A j \in Events : event'[j] = IF j \in purge[w].ids THEN Gone ELSE event[j]
    BY <1>4 DEF DeleteBatch
  <2>2. ASSUME NEW j \in purge[w].ids, NEW c \in Companies, j \in Listed(c) PROVE Aged(j)
    <3>1. j \in Events /\ event[j].created \in Nat /\ Stored(j)
      BY <1>0, <2>2 DEF Listed, EventType
    <3>2. event[j].created + Retention < purge[w].asOf
      BY <2>2, <3>1 DEF BatchInv
    <3>3. purge[w].asOf \in Nat /\ purge[w].asOf <= now
      BY DEF TypeOK, PurgeType, NothingOlder
    <3> QED BY <1>0, <3>1, <3>2, <3>3 DEF Aged
  <2>3. \A c \in Companies : \A j \in Listed(c) : j \in Events
    BY DEF Listed
  <2> QED BY <2>1, <2>2, <2>3 DEF SettledStays, ListMove
<1>5. ASSUME \/ Tick \/ UNCHANGED vars
             \/ \E c \in Companies : FirstCount(c) \/ NextCount(c) \/ Slice(c) \/ EndWalk(c)
             \/ \E w \in Runners : StartPurge(w) \/ Select(w) \/ FinishEvents(w)
                                   \/ StopPurge(w) \/ Die(w)
      PROVE  event' = event
  BY <1>5 DEF Tick, vars, FirstCount, NextCount, CountThen, Slice, EndWalk, StartPurge, Select, FinishEvents,
              StopPurge, Die
<1> QED BY <1>1, <1>2, <1>3, <1>4, <1>5 DEF Next, Purge

(* What was read into a batch stays expired, or is deleted by another. *)
LEMMA BatchStep ==
  ASSUME TypeOK, NothingOlder, BatchInv, [Next]_vars
  PROVE  BatchInv'
<1>0. /\ purge \in [Runners -> PurgeType] /\ event \in [Events -> EventType]
      /\ \A w \in Runners : purge[w] \in PurgeType /\ purge[w].ids \subseteq Events
  BY DEF TypeOK, PurgeType
<1>1. SettledStays
  BY RowMoves
<1>2. ASSUME NEW i \in Events, Settled(i)
      PROVE  /\ Settled(i)'
             /\ Stored(i)' => Stored(i) /\ event'[i].created = event[i].created
  BY <1>1, <1>2 DEF SettledStays, Settled, Stored, Gone, NoEvent
<1>3. ASSUME NEW w \in Runners, purge'[w].ids = {} PROVE
        \A i \in purge'[w].ids : Settled(i)' /\ (Stored(i) => event[i].created + Retention
                                                                < purge[w].asOf)'
  BY <1>3
<1>4. ASSUME NEW w \in Runners, purge'[w].ids = purge[w].ids, purge'[w].asOf = purge[w].asOf
      PROVE  \A i \in purge'[w].ids : Settled(i)' /\ (Stored(i) => event[i].created + Retention
                                                                < purge[w].asOf)'
  BY <1>0, <1>2, <1>4 DEF BatchInv
<1>5. ASSUME NEW w \in Runners, Select(w)
      PROVE  /\ purge'[w].asOf = purge[w].asOf /\ event' = event
             /\ \A i \in purge'[w].ids : Settled(i) /\ event[i].created + Retention < purge[w].asOf
  <2>1. PICK ids \in Batches(purge[w].asOf) :
          purge' = [purge EXCEPT ![w].pc = "delete", ![w].ids = ids]
    BY <1>5 DEF Select
  <2>2. purge'[w].asOf = purge[w].asOf /\ purge'[w].ids = ids
    BY <1>0, <2>1 DEF PurgeType
  <2>3. \A i \in ids : Expired(i, purge[w].asOf)
    BY DEF Batches, ExpiredAt
  <2> QED BY <1>5, <2>2, <2>3 DEF Select, Expired, Stored, Settled
<1>6. ASSUME NEW w \in Runners,
             StartPurge(w) \/ DeleteBatch(w) \/ FinishEvents(w) \/ StopPurge(w) \/ Die(w)
      PROVE  purge'[w].ids = {} /\ \A v \in Runners \ {w} : purge'[v] = purge[v]
  <2>1. NoPurge.ids = {} /\ [NoPurge EXCEPT !.pc = "select", !.asOf = now].ids = {}
    BY DEF NoPurge
  <2>2. CASE DeleteBatch(w)
    BY <1>0, <2>2 DEF DeleteBatch, PurgeType
  <2>3. CASE StartPurge(w)
    BY <1>0, <2>1, <2>3 DEF StartPurge
  <2>4. CASE FinishEvents(w) \/ StopPurge(w) \/ Die(w)
    BY <1>0, <2>1, <2>4 DEF FinishEvents, StopPurge, Die
  <2> QED BY <1>6, <2>2, <2>3, <2>4
<1>7. ASSUME NEW w \in Runners, Select(w)
      PROVE  \A v \in Runners \ {w} : purge'[v] = purge[v]
  BY <1>0, <1>7 DEF Select
<1>8. ASSUME \/ Tick \/ UNCHANGED vars
             \/ \E i \in Events : Commit(i) \/ \E c \in Companies \cup {Platform} : Record(i, c)
             \/ \E c \in Companies : DropCompany(c) \/ FirstCount(c) \/ NextCount(c) \/ Slice(c) \/ EndWalk(c)
      PROVE  purge' = purge
  BY <1>8 DEF Tick, vars, Commit, Record, DropCompany, FirstCount, NextCount, CountThen, Slice, EndWalk
<1>9. ASSUME NEW w \in Runners
      PROVE \A i \in purge'[w].ids : Settled(i)' /\ (Stored(i) => event[i].created + Retention
                                                                < purge[w].asOf)'
  <2>1. CASE Select(w)
    BY <1>5, <2>1 DEF Settled
  <2>2. CASE ~Select(w)
    <3>1. \/ purge'[w].ids = {}
          \/ purge'[w].ids = purge[w].ids /\ purge'[w].asOf = purge[w].asOf
      BY <1>6, <1>7, <1>8, <2>2 DEF Next, Purge
    <3> QED BY <1>3, <1>4, <3>1
  <2> QED BY <2>1, <2>2
<1> QED BY <1>9 DEF BatchInv

(* A row's offset is below the length of the list. *)
LEMMA OffsetBound ==
  ASSUME NEW c \in Companies, NEW i \in Listed(c), TypeOK
  PROVE  /\ Offset(i, c) \in Nat /\ Cardinality(Listed(c)) \in Nat
         /\ Offset(i, c) < Cardinality(Listed(c))
<1> DEFINE S == {j \in Listed(c) : Before(j, i)}
<1>1. IsFiniteSet(Listed(c))
  BY ListFinite
<1>2. event[i].created \in Nat /\ i \in Int
  BY LogAssumption DEF TypeOK, EventType, Listed, Events
<1>3. S \subseteq Listed(c) \ {i}
  BY <1>2 DEF Before
<1>4. /\ IsFiniteSet(Listed(c) \ {i})
      /\ Cardinality(Listed(c) \ {i}) = Cardinality(Listed(c)) - 1
  BY <1>1, FS_RemoveElement
<1>5. IsFiniteSet(S) /\ Cardinality(S) <= Cardinality(Listed(c) \ {i})
  BY <1>3, <1>4, FS_Subset
<1>6. Cardinality(S) \in Nat /\ Cardinality(Listed(c)) \in Nat
  BY <1>1, <1>5, FS_CardinalityType
<1>7. Offset(i, c) = Cardinality(S)
  BY DEF Offset
<1> HIDE DEF S
<1> QED BY <1>4, <1>5, <1>6, <1>7

(* While a row is within its retention, all that comes before it in the     *)
(* list stays: it never moves to a page that was shown already.             *)
LEMMA OffsetGrows ==
  ASSUME TypeOK, TypeOK', NEW c \in Companies, NEW i \in Listed(c), Fresh(i),
         event'[i] = event[i],
         \A j \in Listed(c) : event'[j] = event[j] \/ (event'[j] = Gone /\ Aged(j))
  PROVE  Offset(i, c) <= Offset(i, c)' /\ Offset(i, c)' \in Nat
<1> DEFINE S == {j \in Listed(c) : Before(j, i)}
           T == {j \in Listed(c) : Before(j, i)}'
<1>0. /\ now \in Nat /\ Retention \in Nat
      /\ \A j \in Events : event[j].created \in Nat
      /\ \A d \in Companies : Listed(d) \subseteq Events
  BY LogAssumption DEF TypeOK, EventType, Listed
<1>1. ASSUME NEW j \in S PROVE j \in T
  <2>1. event[j].created >= event[i].created /\ event[j].created \in Nat /\ event[i].created \in Nat
    BY <1>0 DEF Before
  <2>2. ~Aged(j)
    BY <1>0, <2>1 DEF Fresh, Aged
  <2>3. event'[j] = event[j]
    BY <2>2
  <2> QED BY <2>3 DEF Listed, Stored, Before
<1>2. IsFiniteSet(T)
  <2>1. 1 \in Int /\ MaxEvents \in Int
    BY LogAssumption
  <2>2. IsFiniteSet(Events)
    BY <2>1, FS_Interval DEF Events
  <2>3. T \subseteq Events
    BY DEF Listed
  <2> QED BY <2>2, <2>3, FS_Subset
<1>3. Cardinality(S) <= Cardinality(T) /\ Cardinality(T) \in Nat
  BY <1>1, <1>2, FS_Subset, FS_CardinalityType
<1>4. Offset(i, c) = Cardinality(S) /\ Offset(i, c)' = Cardinality(T)
  BY DEF Offset
<1> QED BY <1>3, <1>4

(* While the list does not grow, nothing new comes before a row. *)
LEMMA OffsetStays ==
  ASSUME TypeOK, NEW c \in Companies, NEW i \in Listed(c), event'[i] = event[i],
         Listed(c)' \subseteq Listed(c), i \in Listed(c)',
         \A j \in Listed(c) : event'[j] = event[j] \/ event'[j] = Gone
  PROVE  Offset(i, c)' <= Offset(i, c)
<1> DEFINE S == {j \in Listed(c) : Before(j, i)}
           T == {j \in Listed(c) : Before(j, i)}'
<1>1. Gone.state = "gone"
  BY DEF Gone, NoEvent
<1>2. ASSUME NEW j \in T PROVE j \in S
  <2>1. j \in Listed(c)' /\ j \in Listed(c) /\ Before(j, i)'
    OBVIOUS
  <2>2. event'[j].state = "stored"
    BY <2>1 DEF Listed, Stored
  <2>3. event'[j] = event[j]
    BY <1>1, <2>1, <2>2
  <2> QED BY <2>1, <2>3 DEF Before
<1>3. IsFiniteSet(S)
  BY ListFinite, FS_Subset
<1>4. Cardinality(T) <= Cardinality(S)
  BY <1>2, <1>3, FS_Subset
<1>5. Offset(i, c) = Cardinality(S) /\ Offset(i, c)' = Cardinality(T)
  BY DEF Offset
<1> QED BY <1>4, <1>5

(* The list grows only by a commit, which a walk between count and slice    *)
(* notes down.                                                              *)
LEMMA Unpushed ==
  ASSUME TypeOK, NEW c \in Companies, [Next]_vars,
         walk[c].pc = "counted", walk'[c].crept = FALSE
  PROVE  Listed(c)' \subseteq Listed(c)
<1>0. event \in [Events -> EventType] /\ walk \in [Companies -> WalkType]
  BY DEF TypeOK
<1>1. Gone.state = "gone"
  BY DEF Gone, NoEvent
<1>2. CASE event' = event
  BY <1>2 DEF Listed, Stored
<1>3. ASSUME NEW i \in Events, Commit(i), event' # event
      PROVE  Listed(c)' \subseteq Listed(c)
  <2>1. CASE event' = [event EXCEPT ![i] = Gone]
    BY <1>0, <1>1, <2>1 DEF Listed, Stored
  <2>2. CASE event' = [event EXCEPT ![i].state = "stored"] /\ event[i].company # c
    BY <1>0, <2>2 DEF Listed, Stored, EventType
  <2>3. CASE /\ event[i].company = c
             /\ walk' = [d \in Companies |->
                           IF walk[d].pc = "counted" /\ event[i].company = d
                             THEN [walk[d] EXCEPT !.crept = TRUE] ELSE walk[d]]
    <3>1. walk'[c] = [walk[c] EXCEPT !.crept = TRUE]
      BY <2>3
    <3>2. walk'[c].crept = TRUE
      BY <1>0, <3>1 DEF WalkType
    <3> QED BY <3>2
  <2> QED BY <1>3, <2>1, <2>2, <2>3 DEF Commit
<1>4. ASSUME NEW i \in Events, NEW d \in Companies \cup {Platform}, Record(i, d)
      PROVE  Listed(c)' \subseteq Listed(c)
  BY <1>0, <1>4 DEF Record, Listed, Stored
<1>5. ASSUME NEW d \in Companies, DropCompany(d)
      PROVE  Listed(c)' \subseteq Listed(c)
  BY <1>0, <1>1, <1>5 DEF DropCompany, Listed, Stored
<1>6. ASSUME NEW w \in Runners, DeleteBatch(w)
      PROVE  Listed(c)' \subseteq Listed(c)
  BY <1>0, <1>1, <1>6 DEF DeleteBatch, Listed, Stored
<1>7. ASSUME \/ Tick \/ UNCHANGED vars
             \/ \E d \in Companies : FirstCount(d) \/ NextCount(d) \/ Slice(d) \/ EndWalk(d)
             \/ \E w \in Runners : StartPurge(w) \/ Select(w) \/ FinishEvents(w)
                                   \/ StopPurge(w) \/ Die(w)
      PROVE  event' = event
  BY <1>7 DEF Tick, vars, FirstCount, NextCount, CountThen, Slice, EndWalk, StartPurge,
              Select, FinishEvents, StopPurge, Die
<1> QED BY <1>2, <1>3, <1>4, <1>5, <1>6, <1>7 DEF Next, Purge

(* A count notes down how far the list goes; what was still to come is in   *)
(* it.                                                                      *)
LEMMA CountDue ==
  ASSUME TypeOK, NEW c \in Companies, NEW m \in Nat, NEW due \in SUBSET Events,
         CountThen(c, m, due),
         \A i \in due : /\ Settled(i) /\ (Stored(i) => event[i].company = c)
                        /\ Stored(i) /\ Fresh(i) => Offset(i, c) >= m * PageSize
  PROVE  DueInv(c)'
<1>1. walk'[c] = [pc |-> "counted", page |-> m, total |-> Cardinality(Listed(c)),
                  due |-> due, crept |-> FALSE]
  BY DEF CountThen, TypeOK
<1>2. /\ walk'[c].pc = "counted" /\ walk'[c].page = m
      /\ walk'[c].total = Cardinality(Listed(c)) /\ walk'[c].due = due
  BY <1>1
<1>3. \A i \in Events : /\ Offset(i, c)' = Offset(i, c) /\ (Settled(i)' <=> Settled(i))
                        /\ (Stored(i)' <=> Stored(i)) /\ (Fresh(i)' <=> Fresh(i))
                        /\ event'[i].company = event[i].company
  BY DEF CountThen, Offset, Listed, Before, Settled, Stored, Fresh
<1>4. ASSUME NEW i \in due, Stored(i), event[i].company = c
      PROVE  Offset(i, c) < Cardinality(Listed(c))
  BY <1>4, OffsetBound DEF Listed
<1> QED BY <1>2, <1>3, <1>4 DEF DueInv, Ahead

(* A page shows the rows of its offsets, and the walk ends where the count  *)
(* says.                                                                    *)
LEMMA SliceDue ==
  ASSUME TypeOK, NEW c \in Companies, Slice(c), DueInv(c)
  PROVE  DueInv(c)'
<1> DEFINE m == walk[c].page
           n == m + 1
           pc == IF n * PageSize >= walk[c].total THEN "done" ELSE "walking"
<1>1. /\ walk'[c].pc = pc /\ walk'[c].page = n /\ walk'[c].due = walk[c].due \ Page(n, c)
      /\ walk'[c].crept = walk[c].crept
  BY DEF Slice, TypeOK, WalkType
<1>2. ASSUME NEW i \in walk[c].due \ Page(n, c), Stored(i), Fresh(i)
      PROVE  Offset(i, c) >= n * PageSize /\ (pc = "done" => walk[c].crept)
  <2>0. i \in Events /\ m \in Nat /\ walk[c].total \in Nat /\ walk[c].crept \in BOOLEAN
    BY DEF TypeOK, WalkType
  <2>1. /\ i \in Listed(c) /\ Offset(i, c) >= m * PageSize
        /\ ~walk[c].crept => Offset(i, c) < walk[c].total
    BY <1>2, <2>0 DEF DueInv, Ahead, Slice, Listed
  <2>2. Offset(i, c) \in Nat
    BY <2>1, OffsetBound
  <2>3. ~(Offset(i, c) \in (n - 1) * PageSize .. n * PageSize - 1)
    BY <1>2, <2>1 DEF Page
  <2>n. n \in Nat /\ n - 1 = m
    BY <2>0
  <2> HIDE DEF m, n
  <2>4. PICK low \in Nat, high \in Nat : low = m * PageSize /\ high = n * PageSize
    BY <2>0, <2>n, LogAssumption
  <2>5. (n - 1) * PageSize = low
    BY <2>4, <2>n
  <2>6. Offset(i, c) >= high
    BY <2>1, <2>2, <2>3, <2>4, <2>5
  <2> QED BY <2>0, <2>1, <2>2, <2>4, <2>6
<1> HIDE DEF pc, n
<1>3. \A i \in Events : /\ Offset(i, c)' = Offset(i, c) /\ (Settled(i)' <=> Settled(i))
                        /\ (Stored(i)' <=> Stored(i)) /\ (Fresh(i)' <=> Fresh(i))
                        /\ event'[i].company = event[i].company
  BY DEF Slice, Offset, Listed, Before, Settled, Stored, Fresh
<1>4. walk[c].due \subseteq Events /\ walk[c].pc = "counted"
  BY DEF TypeOK, WalkType, Slice
<1>5. pc \in {"done", "walking"}
  BY DEF pc
<1> QED BY <1>1, <1>2, <1>3, <1>4, <1>5 DEF DueInv, Ahead

(* A walk that does not turn the page loses nothing by what happens to the  *)
(* rows.                                                                    *)
LEMMA DueKept ==
  ASSUME TypeOK, TypeOK', NEW c \in Companies, DueInv(c),
         walk'[c] = walk[c] \/ walk'[c] = [walk[c] EXCEPT !.crept = TRUE],
         walk[c].pc = "counted" /\ walk'[c].crept = FALSE => Listed(c)' \subseteq Listed(c),
         now <= now', SettledStays, ListMove(c)
  PROVE  DueInv(c)'
<1> SUFFICES ASSUME walk[c].pc # "idle", NEW i \in walk[c].due
             PROVE  /\ Settled(i)' /\ (Stored(i)' => event'[i].company = c)
                    /\ Stored(i)' /\ Fresh(i)' => Ahead(c, i)'
  BY DEF DueInv, TypeOK, WalkType
<1>0. /\ i \in Events /\ event[i].created \in Nat /\ now \in Nat /\ now' \in Nat
      /\ Retention \in Nat /\ PageSize \in Nat /\ walk[c] \in WalkType
      /\ walk[c].page \in Nat /\ walk[c].total \in Nat /\ walk[c].crept \in BOOLEAN
      /\ walk'[c].crept \in BOOLEAN
  BY LogAssumption DEF TypeOK, WalkType, EventType
<1>w. /\ walk'[c].pc = walk[c].pc /\ walk'[c].page = walk[c].page
      /\ walk'[c].total = walk[c].total /\ (walk[c].crept => walk'[c].crept)
  BY <1>0 DEF WalkType
<1>1. Settled(i) /\ (Stored(i) => event[i].company = c)
  BY DEF DueInv
<1>2. event'[i] = event[i] \/ event'[i] = Gone
  BY <1>0, <1>1 DEF SettledStays
<1>3. Gone.state = "gone"
  BY DEF Gone, NoEvent
<1>4. ASSUME Stored(i)' PROVE event'[i] = event[i] /\ i \in Listed(c)
  BY <1>0, <1>1, <1>2, <1>3, <1>4 DEF Stored, Listed
<1>5. ASSUME Stored(i)', Fresh(i)' PROVE Ahead(c, i)'
  <2>1. event'[i] = event[i] /\ i \in Listed(c) /\ Stored(i)
    BY <1>4, <1>5 DEF Listed
  <2>2. Fresh(i)
    BY <1>0, <1>5, <2>1 DEF Fresh
  <2>3. Ahead(c, i)
    BY <2>1, <2>2 DEF DueInv
  <2>4. \A j \in Listed(c) : event'[j] = event[j] \/ (event'[j] = Gone /\ Aged(j))
    BY <1>3, <1>5, <2>1 DEF ListMove, Stored
  <2>5. Offset(i, c) <= Offset(i, c)' /\ Offset(i, c)' \in Nat
    BY <2>1, <2>2, <2>4, OffsetGrows
  <2>6. Offset(i, c) \in Nat
    BY <2>1, OffsetBound
  <2>7. PICK low \in Nat : low = walk[c].page * PageSize
    BY <1>0
  <2>8. CASE walk[c].pc = "done"
    BY <1>w, <2>3, <2>8 DEF Ahead
  <2>9. ASSUME walk[c].pc = "counted", walk'[c].crept = FALSE
        PROVE  Offset(i, c)' < walk[c].total
    <3>1. Offset(i, c) < walk[c].total
      BY <1>0, <1>w, <2>3, <2>9 DEF Ahead
    <3>2. Listed(c)' \subseteq Listed(c)
      BY <2>9
    <3>3. i \in Listed(c)'
      BY <1>5, <2>1 DEF Listed
    <3>4. \A j \in Listed(c) : event'[j] = event[j] \/ event'[j] = Gone
      BY <2>4
    <3>5. Offset(i, c)' <= Offset(i, c)
      BY <2>1, <3>2, <3>3, <3>4, OffsetStays
    <3> QED BY <1>0, <2>5, <2>6, <3>1, <3>5
  <2>10. CASE walk[c].pc # "done"
    <3>1. Offset(i, c) >= low
      BY <2>3, <2>7, <2>10 DEF Ahead
    <3>2. Offset(i, c)' >= low
      BY <2>5, <2>6, <3>1
    <3>3. Offset(i, c)' >= walk'[c].page * PageSize
      BY <1>w, <2>7, <3>2
    <3>4. walk'[c].pc = "counted" /\ ~walk'[c].crept => Offset(i, c)' < walk'[c].total
      BY <1>0, <1>w, <2>9
    <3> QED BY <1>w, <2>10, <3>3, <3>4 DEF Ahead
  <2> QED BY <2>8, <2>10
<1>6. Settled(i)' /\ (Stored(i)' => event'[i].company = c)
  <2>1. CASE event'[i] = event[i]
    BY <1>1, <2>1 DEF Settled, Stored
  <2>2. CASE event'[i] = Gone
    BY <1>3, <2>2 DEF Settled, Stored
  <2> QED BY <1>2, <2>1, <2>2
<1> QED BY <1>5, <1>6

LEMMA WalkStep ==
  ASSUME TypeOK, TypeOK', NothingOlder, BatchInv, NEW c \in Companies, DueInv(c), [Next]_vars
  PROVE  DueInv(c)'
<1>0. walk \in [Companies -> WalkType] /\ now \in Nat
  BY DEF TypeOK
<1>1. SettledStays /\ ListMove(c)
  BY RowMoves
<1>2. now <= now'
  <2>1. now' = now \/ now' = now + 1
    BY DEF Next, Commit, Record, DropCompany, FirstCount, NextCount, CountThen, Slice, EndWalk, Purge, StartPurge,
           Select, DeleteBatch, FinishEvents, StopPurge, Die, Tick, vars
  <2> QED BY <1>0, <2>1
<1>3. CASE walk'[c] = walk[c] \/ walk'[c] = [walk[c] EXCEPT !.crept = TRUE]
  <2>1. walk[c].pc = "counted" /\ walk'[c].crept = FALSE => Listed(c)' \subseteq Listed(c)
    BY Unpushed
  <2> QED BY <1>1, <1>2, <1>3, <2>1, DueKept
<1>4. CASE FirstCount(c)
  <2>1. ASSUME NEW i \in Listed(c)
        PROVE  /\ Settled(i) /\ (Stored(i) => event[i].company = c)
               /\ Offset(i, c) >= 0 * PageSize
    <3>1. Offset(i, c) \in Nat
      BY OffsetBound
    <3>2. 0 * PageSize = 0
      BY LogAssumption
    <3> QED BY <3>1, <3>2 DEF Listed, Settled, Stored
  <2>2. PICK m \in Nat : m = 0
    OBVIOUS
  <2>3. CountThen(c, m, Listed(c)) /\ Listed(c) \in SUBSET Events
    BY <1>4, <2>2, ListFinite DEF FirstCount
  <2>4. \A i \in Listed(c) : /\ Settled(i) /\ (Stored(i) => event[i].company = c)
                             /\ Stored(i) /\ Fresh(i) => Offset(i, c) >= m * PageSize
    BY <2>1, <2>2
  <2> QED BY <2>3, <2>4, CountDue
<1>5. CASE NextCount(c)
  <2>1. CountThen(c, walk[c].page, walk[c].due) /\ walk[c].pc = "walking"
    BY <1>5 DEF NextCount
  <2>2. walk[c].page \in Nat /\ walk[c].due \in SUBSET Events
    BY <1>0 DEF WalkType
  <2>3. \A i \in walk[c].due :
          /\ Settled(i) /\ (Stored(i) => event[i].company = c)
          /\ Stored(i) /\ Fresh(i) => Offset(i, c) >= walk[c].page * PageSize
    BY <2>1 DEF DueInv, Ahead
  <2> QED BY <2>1, <2>2, <2>3, CountDue
<1>6. CASE Slice(c)
  BY <1>6, SliceDue
<1>7. CASE EndWalk(c)
  <2>1. walk'[c] = NoWalk
    BY <1>0, <1>7 DEF EndWalk
  <2> QED BY <2>1 DEF DueInv, NoWalk
<1>8. \/ walk'[c] = walk[c] \/ walk'[c] = [walk[c] EXCEPT !.crept = TRUE]
      \/ FirstCount(c) \/ NextCount(c) \/ Slice(c) \/ EndWalk(c)
  <2>1. ASSUME NEW d \in Companies, d # c,
               FirstCount(d) \/ NextCount(d) \/ Slice(d) \/ EndWalk(d)
        PROVE  walk'[c] = walk[c]
    BY <1>0, <2>1 DEF FirstCount, NextCount, CountThen, Slice, EndWalk
  <2>2. ASSUME NEW i \in Events, Commit(i)
        PROVE  walk'[c] = walk[c] \/ walk'[c] = [walk[c] EXCEPT !.crept = TRUE]
    BY <2>2 DEF Commit
  <2>3. \/ walk' = walk \/ \E i \in Events : Commit(i)
        \/ \E d \in Companies : FirstCount(d) \/ NextCount(d) \/ Slice(d) \/ EndWalk(d)
    BY DEF Next, Record, DropCompany, Purge, StartPurge, Select, DeleteBatch,
           FinishEvents, StopPurge, Die, Tick, vars
  <2> QED BY <2>1, <2>2, <2>3
<1> QED BY <1>3, <1>4, <1>5, <1>6, <1>7, <1>8

(* Walking through the pages shows every row that is within its retention   *)
(* and was there all the time, whatever is inserted, committed late or      *)
(* purged between two pages, unless a row was committed between the two     *)
(* statements of the last page.                                             *)
THEOREM PagesCorrect == Spec => []PagesMissNothing
<1> DEFINE PageInv == BatchInv /\ \A c \in Companies : DueInv(c)
<1>1. Init => PageInv
  BY DEF Init, BatchInv, DueInv, NoPurge, NoWalk
<1>2. TypeOK /\ TypeOK' /\ NothingOlder /\ PageInv /\ [Next]_vars => PageInv'
  BY BatchStep, WalkStep
<1>3. TypeOK /\ PageInv => PagesMissNothing
  <2> SUFFICES ASSUME TypeOK, PageInv, NEW c \in Companies,
                      walk[c].pc = "done", ~walk[c].crept,
                      NEW i \in walk[c].due, Stored(i)
               PROVE  event[i].created + Retention < now
    BY DEF PagesMissNothing
  <2>1. ~Fresh(i)
    BY DEF DueInv, Ahead
  <2>2. event[i].created \in Nat /\ now \in Nat /\ Retention \in Nat
    BY LogAssumption DEF TypeOK, WalkType, EventType
  <2> QED BY <2>1, <2>2 DEF Fresh
<1> HIDE DEF PageInv
<1> QED BY <1>1, <1>2, <1>3, TypeCorrect, PurgeCorrect, PTL DEF Spec
=============================================================================
