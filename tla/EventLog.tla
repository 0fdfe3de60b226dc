----------------------------- MODULE EventLog ------------------------------
(***************************************************************************)
(* The event log of apps/actions: rows recorded in the transaction of the   *)
(* request they describe, the purge that deletes expired ones in batches,   *)
(* the paginated list an administrator walks through while both go on, and  *)
(* the retention status whose alarm says that no purge is running.          *)
(***************************************************************************)
EXTENDS Integers, FiniteSets

CONSTANTS
  MaxEvents,    \* bound: rows ever inserted
  Companies,    \* companies with events
  Platform,     \* company_id of staff-only platform events, NULL
  Runners,      \* processes that may be purging at once
  Retention,    \* EVENT_LOG_RETENTION_DAYS, in ticks
  Grace,        \* STALE_GRACE, in ticks
  Span,         \* longest time from the insertion of a row to its commit
  Batch,        \* --batch-size
  PageSize,     \* page_size of the list request
  MaxFailures,  \* bound: purges that die
  LastEvent,    \* bound: last tick an event is recorded at
  MaxTime       \* bound: last tick of the clock

ASSUME LogAssumption ==
  /\ MaxEvents \in Nat /\ MaxFailures \in Nat
  /\ LastEvent \in Nat /\ MaxTime \in Nat
  /\ Retention \in Nat /\ Grace \in Nat /\ Span \in Nat /\ Span <= Retention
  /\ Batch \in Nat \ {0} /\ PageSize \in Nat \ {0}
  /\ Platform \notin Companies

VARIABLES
  now,       \* timezone.now()
  event,     \* event[i]: the EventLog row with id i
  purge,     \* purge[w]: the purge that runner w is in
  walk,      \* walk[c]: the walk of an administrator through c's list
  swept,     \* the newest run that found nothing expired began then (observer)
  failures   \* so far

vars == <<now, event, purge, walk, swept, failures>>

Events == 1 .. MaxEvents

EventType == [state   : {"none", "open", "stored", "gone"},
              created : Nat,
              company : Companies \cup {Platform}]
PurgeType == [pc     : {"idle", "select", "delete"},
              asOf   : Nat,            \* now of the run, for its cutoff
              ids    : SUBSET Events,  \* the batch it has read
              worked : BOOLEAN]        \* it has deleted a batch
WalkType  == [pc    : {"idle", "counted", "walking", "done"},
              page  : Nat,             \* pages shown
              total : Nat,             \* the count of the page in hand
              due   : SUBSET Events,   \* rows listed when it began, and not
                                       \* yet shown (observer)
              crept : BOOLEAN]         \* a row was committed between the count
                                       \* and the slice of a page (observer)

NoEvent  == [state |-> "none", created |-> 0, company |-> Platform]
Gone     == [NoEvent EXCEPT !.state = "gone"]
NoPurge  == [pc |-> "idle", asOf |-> 0, ids |-> {}, worked |-> FALSE]
NoWalk   == [pc |-> "idle", page |-> 0, total |-> 0, due |-> {}, crept |-> FALSE]

TypeOK ==
  /\ now \in Nat
  /\ event \in [Events -> EventType]
  /\ purge \in [Runners -> PurgeType]
  /\ walk \in [Companies -> WalkType]
  /\ swept \in Nat
  /\ failures \in 0 .. MaxFailures

Init ==
  /\ now = 0
  /\ event = [i \in Events |-> NoEvent]
  /\ purge = [w \in Runners |-> NoPurge]
  /\ walk = [c \in Companies |-> NoWalk]
  /\ swept = 0
  /\ failures = 0

Stored(i) == event[i].state = "stored"

-----------------------------------------------------------------------------
(* record_event: an INSERT in the transaction of whoever emits the event.  *)
(* Concurrent requests may take their ids in another order than created_at. *)
Record(i, c) ==
  /\ event[i].state = "none" /\ now <= LastEvent
  /\ event' = [event EXCEPT ![i] =
                 [state |-> "open", created |-> now, company |-> c]]
  /\ UNCHANGED <<now, purge, walk, swept, failures>>

Commit(i) ==
  /\ event[i].state = "open"
  /\ \/ /\ event' = [event EXCEPT ![i].state = "stored"]
        /\ walk' = [c \in Companies |->
                      IF walk[c].pc = "counted" /\ event[i].company = c
                        THEN [walk[c] EXCEPT !.crept = TRUE] ELSE walk[c]]
     \/ event' = [event EXCEPT ![i] = Gone] /\ UNCHANGED walk   \* rolled back
  /\ UNCHANGED <<now, purge, swept, failures>>

(* delete_company_rows: the DELETE of a company's rows in this table.      *)
DropCompany(c) ==
  /\ \E i \in Events : Stored(i) /\ event[i].company = c
  /\ event' = [i \in Events |->
                 IF Stored(i) /\ event[i].company = c
                   THEN Gone ELSE event[i]]
  /\ UNCHANGED <<now, purge, walk, swept, failures>>

-----------------------------------------------------------------------------
(* purge_expired_data with its first target, the events of all companies.  *)
Expired(i, t) == Stored(i) /\ event[i].created + Retention < t
ExpiredAt(t)  == {i \in Events : Expired(i, t)}

StartPurge(w) ==
  /\ purge[w].pc = "idle"
  /\ purge' = [purge EXCEPT ![w] =
                 [NoPurge EXCEPT !.pc = "select", !.asOf = now]]
  /\ UNCHANGED <<now, event, walk, swept, failures>>

(* The ids of a batch, in no order.                                        *)
Batches(t) == {ids \in SUBSET ExpiredAt(t) :
                 Cardinality(ids) = Batch
                   \/ (ids = ExpiredAt(t) /\ Cardinality(ids) < Batch)}

Select(w) ==
  /\ purge[w].pc = "select" /\ ExpiredAt(purge[w].asOf) # {}
  /\ \E ids \in Batches(purge[w].asOf) :
       purge' = [purge EXCEPT ![w].pc = "delete", ![w].ids = ids]
  /\ UNCHANGED <<now, event, walk, swept, failures>>

DeleteBatch(w) ==
  /\ purge[w].pc = "delete"
  /\ event' = [i \in Events |-> IF i \in purge[w].ids THEN Gone ELSE event[i]]
  /\ purge' = [purge EXCEPT ![w].pc = "select", ![w].ids = {},
                            ![w].worked = TRUE]
  /\ UNCHANGED <<now, walk, swept, failures>>

(* Nothing expired is left: the run goes on to the deliveries, in Outbox.  *)
FinishEvents(w) ==
  /\ purge[w].pc = "select" /\ ExpiredAt(purge[w].asOf) = {}
  /\ swept' = IF purge[w].asOf > swept THEN purge[w].asOf ELSE swept
  /\ purge' = [purge EXCEPT ![w] = NoPurge]
  /\ UNCHANGED <<now, event, walk, failures>>

OutOfTimeAtOnce(w) == purge[w].pc = "select"   \* mutant: no batch in a run

(* The deadline is looked at before each batch.  --max-seconds is longer    *)
(* than a batch, so the first one is deleted.                               *)
OutOfTime(w) == purge[w].pc = "select" /\ purge[w].worked

StopPurge(w) ==
  /\ OutOfTime(w)
  /\ purge' = [purge EXCEPT ![w] = NoPurge]
  /\ UNCHANGED <<now, event, walk, swept, failures>>

Die(w) ==
  /\ purge[w].pc # "idle" /\ failures < MaxFailures
  /\ failures' = failures + 1
  /\ purge' = [purge EXCEPT ![w] = NoPurge]
  /\ UNCHANGED <<now, event, walk, swept>>

-----------------------------------------------------------------------------
(* The list: newest first, in pages of an offset and a limit.  A request    *)
(* counts the rows and then slices them: two statements, no transaction.   *)
Listed(c) == {i \in Events : Stored(i) /\ event[i].company = c}

BeforeOldest(i, j) ==   \* mutant: the oldest row comes first
  \/ event[i].created < event[j].created
  \/ event[i].created = event[j].created /\ i < j

Before(i, j) ==
  \/ event[i].created > event[j].created
  \/ event[i].created = event[j].created /\ i > j

Offset(i, c)  == Cardinality({j \in Listed(c) : Before(j, i)})
Page(n, c) ==
  {i \in Listed(c) : Offset(i, c) \in (n - 1) * PageSize .. n * PageSize - 1}

CountThen(c, page, due) ==
  /\ walk' = [walk EXCEPT ![c] =
       [pc |-> "counted", page |-> page, total |-> Cardinality(Listed(c)),
        due |-> due, crept |-> FALSE]]
  /\ UNCHANGED <<now, event, purge, swept, failures>>

FirstCount(c) == walk[c].pc = "idle" /\ CountThen(c, 0, Listed(c))
NextCount(c)  == walk[c].pc = "walking" /\ CountThen(c, walk[c].page, walk[c].due)

(* The reply has the page's rows and the count, which ends the walk.       *)
Slice(c) ==
  LET n == walk[c].page + 1 IN
  /\ walk[c].pc = "counted"
  /\ walk' = [walk EXCEPT
       ![c].pc   = IF n * PageSize >= walk[c].total THEN "done" ELSE "walking",
       ![c].page = n, ![c].total = 0,
       ![c].due  = @ \ Page(n, c)]
  /\ UNCHANGED <<now, event, purge, swept, failures>>

EndWalk(c) ==
  /\ walk[c].pc = "done"
  /\ walk' = [walk EXCEPT ![c] = NoWalk]
  /\ UNCHANGED <<now, event, purge, swept, failures>>

-----------------------------------------------------------------------------
(* retention_status: the oldest row is older than retention and grace.     *)
StaleAtOnce(c) ==   \* mutant: no grace
  \E i \in Listed(c) : event[i].created + Retention < now
Stale(c) == \E i \in Listed(c) : event[i].created + Retention + Grace < now

(* Time; a request ends within gunicorn's timeout, far below a retention.  *)
Tick ==
  /\ now < MaxTime
  /\ \A i \in Events : event[i].state = "open" => now < event[i].created + Span
  /\ now' = now + 1
  /\ UNCHANGED <<event, purge, walk, swept, failures>>

Purge(w) == StartPurge(w) \/ Select(w) \/ DeleteBatch(w) \/ FinishEvents(w)

Next ==
  \/ \E i \in Events : Commit(i)
                       \/ \E c \in Companies \cup {Platform} : Record(i, c)
  \/ \E c \in Companies :
       DropCompany(c) \/ FirstCount(c) \/ NextCount(c) \/ Slice(c) \/ EndWalk(c)
  \/ \E w \in Runners : Purge(w) \/ StopPurge(w) \/ Die(w)
  \/ Tick

(* Beat starts the purge every hour and requests end; no one need ever     *)
(* look at the log.                                                         *)
Fairness ==
  /\ WF_vars(Tick)
  /\ \A i \in Events : WF_vars(Commit(i))
  /\ \A w \in Runners : WF_vars(Purge(w))

Spec == Init /\ [][Next]_vars /\ Fairness

-----------------------------------------------------------------------------
(* The alarm is never false: `stale_events` appears only after a full day   *)
(* (the grace) in which no purge got through the expired events, whatever   *)
(* batches, overlapping purges and late commits there were.                 *)
AlarmIsTrue == \A c \in Companies : Stale(c) => swept + Grace < now

(* A walk through the pages skips no row within its retention that was      *)
(* there from its beginning to its end, although rows are inserted, purged  *)
(* and committed late between two pages (only repetitions are possible):    *)
(* except when a row was committed between the count and the slice of the   *)
(* last page.  Such a row pushes another off the page, and the older count  *)
(* says that no page follows.                                               *)
PagesMissNothing ==
  \A c \in Companies : walk[c].pc = "done" /\ ~walk[c].crept =>
    \A i \in walk[c].due :
      Stored(i) => event[i].created + Retention < now

(* An expired event does not stay: a run that runs out of time or dies      *)
(* leaves the rest to the next one.                                         *)
ExpiredAreDeleted ==
  \A i \in Events : Expired(i, now) ~> ~Stored(i)
=============================================================================
