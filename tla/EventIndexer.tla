---------------------------- MODULE EventIndexer ----------------------------
(***************************************************************************)
(* The on-chain event index: records under ever growing ids, one index per *)
(* event type and per actor, the list of all ids, and a count; registered  *)
(* recorders append, the admin prunes by age.  A client pages through a    *)
(* query with one call per page, so other calls come between two pages.    *)
(* Records are modelled by their id, type, actor and time.                 *)
(***************************************************************************)
EXTENDS Enumerations

CONSTANTS
  EventTypes, Actors,  \* symbols and accounts an event may carry
  Admins,              \* accounts that may be the admin
  Callers,             \* accounts that may be recorders
  PageSizes,           \* bound: limits a client may ask for
  MaxEvents,           \* bound: events ever recorded
  MaxTime              \* bound: last ledger time

ASSUME IndexerAssumption ==
  /\ PageSizes \subseteq Nat \ {0}
  /\ MaxEvents \in Nat
  /\ MaxTime \in Nat

VARIABLES
  now,           \* env.ledger().timestamp()
  admin,         \* "admin"
  recorders,     \* "recorders"
  next_id,       \* "nextid"
  event_count,   \* "evcnt"
  store,         \* "evt": the record stored under an id
  type_index,    \* "typidx"
  actor_index,   \* "actidx"
  all_ids,       \* "allids"
  scan           \* the client: its query and what it has read so far

indexVars == <<next_id, event_count, store, type_index, actor_index, all_ids>>
idxVars   == <<now, admin, recorders, indexVars, scan>>

EventIds == 1 .. MaxEvents

EventRecord == [event_type : EventTypes, actor : Actors, timestamp : 0 .. MaxTime]

Queries == ({"type"} \X EventTypes) \cup ({"actor"} \X Actors)
             \cup ({"time"} \X {span \in (0 .. MaxTime) \X (0 .. MaxTime) : span[1] <= span[2]})

-----------------------------------------------------------------------------
(* Queries.  A page is given by the ids of its records.                    *)

Stored(id) == id \in DOMAIN store

Page(found, offset, limit) ==
  SubSeq(found, offset + 1, IF offset + limit <= Len(found) THEN offset + limit
                                                            ELSE Len(found))

(* Mutant: the offset counts from one.                                     *)
PageOfIndexFromOne(ids, offset, limit) ==
  Page(Kept(SubSeq(ids, offset + (IF offset > 0 THEN 2 ELSE 1), Len(ids)), DOMAIN store),
       0, limit)

(* The loop of get_events_by_type and get_events_by_actor: the offset is a *)
(* position in the index, an id without a record does not count.           *)
PageOfIndex(ids, offset, limit) ==
  Page(Kept(SubSeq(ids, offset + 1, Len(ids)), DOMAIN store), 0, limit)

(* get_events_by_time: the offset counts matching records.                 *)
GetEventsByTime(start, end, offset, limit) ==
  Page(Kept(all_ids, {id \in DOMAIN store : store[id].timestamp \in start .. end}),
       offset, limit)

GetEvents(q, offset, limit) ==
  CASE q[1] = "type"  -> PageOfIndex(type_index[q[2]], offset, limit)
    [] q[1] = "actor" -> PageOfIndex(actor_index[q[2]], offset, limit)
    [] q[1] = "time"  -> GetEventsByTime(q[2][1], q[2][2], offset, limit)

-----------------------------------------------------------------------------
IdxInit ==
  /\ now = 0
  /\ admin \in Admins
  /\ recorders = {}
  /\ next_id = 1
  /\ event_count = 0
  /\ store = << >>
  /\ type_index = [t \in EventTypes |-> << >>]
  /\ actor_index = [a \in Actors |-> << >>]
  /\ all_ids = << >>
  /\ scan = [query |-> << >>, offset |-> 0, seen |-> << >>, due |-> << >>, pruned |-> FALSE,
             done |-> TRUE]

TransferAdmin(a, new_admin) ==
  /\ admin = a
  /\ admin' = new_admin
  /\ UNCHANGED <<now, recorders, indexVars, scan>>

(* add_recorder: idempotent, and there is no way to remove one             *)
AddRecorder(a, r) ==
  /\ admin = a
  /\ recorders' = recorders \cup {r}
  /\ UNCHANGED <<now, admin, indexVars, scan>>

RecordEvent(caller, t, actor) ==
  LET id == next_id
  IN /\ caller \in recorders
     /\ id <= MaxEvents
     /\ store' = [e \in DOMAIN store \cup {id} |->
          IF e = id THEN [event_type |-> t, actor |-> actor, timestamp |-> now] ELSE store[e]]
     /\ type_index' = [type_index EXCEPT ![t] = Append(@, id)]
     /\ actor_index' = [actor_index EXCEPT ![actor] = Append(@, id)]
     /\ all_ids' = Append(all_ids, id)
     /\ next_id' = id + 1
     /\ event_count' = event_count + 1
     /\ UNCHANGED <<now, admin, recorders, scan>>

(* The listed ids whose records are too old.                               *)
PrunedBefore(before) ==
  {id \in ToSet(all_ids) : Stored(id) /\ store[id].timestamp < before}

(* Mutant: the indexes of the actors are forgotten.                        *)
PruneEventsKeepingActors(a, before) ==
  LET gone == PrunedBefore(before)
      Without(ids) == Kept(ids, ToSet(ids) \ gone)
  IN /\ admin = a
     /\ all_ids' = Kept(all_ids, DOMAIN store \ gone)
     /\ type_index' = [t \in EventTypes |-> Without(type_index[t])]
     /\ store' = Restrict(store, DOMAIN store \ gone)
     /\ event_count' = event_count - Cardinality(gone)
     /\ scan' = [scan EXCEPT !.pruned = @ \/ gone # {}]
     /\ UNCHANGED <<now, admin, recorders, next_id, actor_index>>

(* prune_events.  An id leaves the indexes of the type and of the actor    *)
(* its record names, the only ones that can hold it.                       *)
PruneEvents(a, before) ==
  LET gone == PrunedBefore(before)
      Without(ids, S) == Kept(ids, ToSet(ids) \ S)
  IN /\ admin = a
     /\ all_ids' = Kept(all_ids, DOMAIN store \ gone)
     /\ type_index' = [t \in EventTypes |->
          Without(type_index[t], {id \in gone : store[id].event_type = t})]
     /\ actor_index' = [c \in Actors |->
          Without(actor_index[c], {id \in gone : store[id].actor = c})]
     /\ store' = Restrict(store, DOMAIN store \ gone)
     /\ event_count' = event_count - Cardinality(gone)
     /\ scan' = [scan EXCEPT !.pruned = @ \/ gone # {}]
     /\ UNCHANGED <<now, admin, recorders, next_id>>

-----------------------------------------------------------------------------
(* The client: fixes a query and pages until a page comes back short.      *)

(* What a query has to deliver, straight from the records.                 *)
Matches(q, id) ==
  CASE q[1] = "type"  -> store[id].event_type = q[2]
    [] q[1] = "actor" -> store[id].actor = q[2]
    [] q[1] = "time"  -> store[id].timestamp \in q[2][1] .. q[2][2]

MatchesInOrder(q) ==
  InOrder({id \in DOMAIN store : Matches(q, id)})

StartScan(q) ==
  /\ scan.done
  /\ scan' = [query |-> q, offset |-> 0, seen |-> << >>, due |-> MatchesInOrder(q),
              pruned |-> FALSE, done |-> FALSE]
  /\ UNCHANGED <<now, admin, recorders, indexVars>>

ReadPage(limit) ==
  LET page == GetEvents(scan.query, scan.offset, limit)
  IN /\ ~scan.done
     /\ scan' = [scan EXCEPT !.offset = @ + limit,
                             !.seen = @ \o page,
                             !.done = Len(page) < limit]
     /\ UNCHANGED <<now, admin, recorders, indexVars>>

Tick ==
  /\ now < MaxTime
  /\ now' = now + 1
  /\ UNCHANGED <<admin, recorders, indexVars, scan>>

IdxNext ==
  \/ Tick
  \/ \E a \in Admins :
       \/ \E b \in Admins : TransferAdmin(a, b)
       \/ \E r \in Callers : AddRecorder(a, r)
       \/ \E before \in 0 .. MaxTime : PruneEvents(a, before)
  \/ \E r \in Callers, t \in EventTypes, c \in Actors : RecordEvent(r, t, c)
  \/ \E q \in Queries : StartScan(q)
  \/ \E limit \in PageSizes : ReadPage(limit)

-----------------------------------------------------------------------------
(* Properties *)

(***************************************************************************)
(* Store, list of ids, both kinds of index and the count describe the same *)
(* events after any mixture of recording and pruning: each id is listed    *)
(* once, in the order of recording and of time, by the index of its type   *)
(* and of its actor and no other, and no id is left to be handed out twice *)
(* (record_event and prune_events write six storage entries each).         *)
(***************************************************************************)
IndexesAgree ==
  /\ DOMAIN store \subseteq 1 .. next_id - 1
  /\ \A id \in DOMAIN store : store[id] \in EventRecord /\ store[id].timestamp <= now
  /\ all_ids = InOrder(DOMAIN store)
  /\ \A k \in 1 .. Len(all_ids) - 1 :
       store[all_ids[k]].timestamp <= store[all_ids[k + 1]].timestamp
  /\ event_count = Len(all_ids)
  /\ \A t \in EventTypes : type_index[t] = MatchesInOrder(<<"type", t>>)
  /\ \A c \in Actors : actor_index[c] = MatchesInOrder(<<"actor", c>>)

(***************************************************************************)
(* A client that pages through a query, while events are recorded between  *)
(* its calls, reads every event that was there when it began, each once    *)
(* and in order; only a prune between two pages can make it miss one, and  *)
(* not even a prune makes it read one twice (get_events_by_* take a        *)
(* position as offset, not an id).                                         *)
(***************************************************************************)
PagingIsComplete ==
  /\ \A k \in 1 .. Len(scan.seen) - 1 : scan.seen[k] < scan.seen[k + 1]
  /\ scan.done /\ ~scan.pruned => IsPrefix(scan.due, scan.seen)
=============================================================================
