-------------------------------- MODULE Store --------------------------------
(***************************************************************************)
(* pkg/storage/inmemorystore.go: the resource store behind the REST API    *)
(* and the reconcilers, with the optimistic concurrency its Update offers  *)
(* and the watches it serves through a PubSub.                             *)
(*                                                                         *)
(* Create, Update and Delete hold the store's mutex until their event is   *)
(* published: `pub' is the event being published, and the mutex is held    *)
(* exactly while there is one.  Watch takes no mutex: it compares the      *)
(* resource version with s.seq and then subscribes, in two steps.          *)
(* Publish is one step for all watchers (module PubSub has its detail: in  *)
(* order, and a watcher whose buffer stays full is kicked); it waits while *)
(* it waits for room, that is, the step is taken later.                    *)
(***************************************************************************)
EXTENDS Naturals, Sequences

CONSTANTS Key,      \* resource names
          Val,      \* what a resource says (its spec and status)
          Client,   \* API clients that read, edit and write back a resource
          Watcher,  \* clients that list and watch
          Cap,      \* capacity of a watcher's event channel
          NoVal,    \* not a Val: the value of a resource that is not there
          MaxSeq    \* bound: writes that hand out a resource version

ASSUME ValAssumption == NoVal \notin Val
ASSUME BoundsAssumption == Cap \in Nat \ {0} /\ MaxSeq \in Nat

VARIABLES items,    \* s.items[k]: resource version and value, or Absent
          seq,      \* s.seq
          pub,      \* the event being published under the mutex, or NoEvent
          got,      \* got[c]: the resource c has read and means to write back
          st,       \* st[w]: progress of w's watch
          rv,       \* rv[w]: the resource version w lists with
          queue,    \* queue[w]: events published to w and not yet consumed
          kicked    \* kicked[w]: sendEvent timed out, the watch is being stopped

storeVars == <<items, seq, pub>>
watchVars == <<st, rv, queue, kicked>>
vars == <<storeVars, got, watchVars>>

Item == [rv: Nat, val: Val]
Absent == [rv |-> 0, val |-> NoVal]
NoEvent == [type |-> "NONE"]
Event == [type: {"ADDED", "MODIFIED", "DELETED"}, key: Key, item: Item]
Nothing == [key |-> NoVal]
Copy == [key: Key, item: Item]

WatchState == {"list", "listed", "checked", "open", "backoff", "done"}

TypeOK ==
    /\ items \in [Key -> Item \cup {Absent}]
    /\ seq \in 0..MaxSeq
    /\ pub \in Event \cup {NoEvent}
    /\ got \in [Client -> Copy \cup {Nothing}]
    /\ st \in [Watcher -> WatchState]
    /\ rv \in [Watcher -> 0..MaxSeq]
    /\ queue \in [Watcher -> Seq(Event)]
    /\ kicked \in [Watcher -> BOOLEAN]

Init ==
    /\ items = [k \in Key |-> Absent]
    /\ seq = 0
    /\ pub = NoEvent
    /\ got = [c \in Client |-> Nothing]
    /\ st = [w \in Watcher |-> "list"]
    /\ rv = [w \in Watcher |-> 0]
    /\ queue = [w \in Watcher |-> <<>>]
    /\ kicked = [w \in Watcher |-> FALSE]

-----------------------------------------------------------------------------
(* Reading and writing: each holds the mutex *)

\* s.mutex is free.
Unlocked == pub = NoEvent

Exists(k) == items[k] # Absent

\* Get: the client keeps a deep copy of the resource it found.
Get(c, k) ==
    /\ Unlocked
    /\ got' = [got EXCEPT ![c] = IF Exists(k) THEN [key |-> k, item |-> items[k]]
                                             ELSE Nothing]
    /\ UNCHANGED <<storeVars, watchVars>>

\* Mutant: an update does not draw a new version.
WriteSameVersion(type, k, v) ==
    LET item == [rv |-> IF type = "ADDED" THEN seq + 1 ELSE items[k].rv, val |-> v]
    IN /\ seq < MaxSeq
       /\ seq' = seq + 1
       /\ items' = [items EXCEPT ![k] = item]
       /\ pub' = [type |-> type, key |-> k, item |-> item]

\* setResourceVersion, the assignment to s.items and the start of emit.
Write(type, k, v) ==
    LET item == [rv |-> seq + 1, val |-> v]
    IN /\ seq < MaxSeq
       /\ seq' = seq + 1
       /\ items' = [items EXCEPT ![k] = item]
       /\ pub' = [type |-> type, key |-> k, item |-> item]

\* Create; an existing resource is answered with AlreadyExists.
Create(k, v) ==
    /\ Unlocked
    /\ ~Exists(k)
    /\ Write("ADDED", k, v)
    /\ UNCHANGED <<got, watchVars>>

\* Update with a closure that edits the stored resource: a PATCH, or the
\* reconcilers' own updates.  The version is the stored one, so no conflict.
Modify(k, v) ==
    /\ Unlocked
    /\ Exists(k)
    /\ Write("MODIFIED", k, v)
    /\ UNCHANGED <<got, watchVars>>

\* Update with an object the client read before: a PUT.
Put(c, v) ==
    /\ Unlocked
    /\ got[c] # Nothing
    /\ LET k == got[c].key
       IN /\ Exists(k)
          /\ items[k].rv = got[c].item.rv
          /\ Write("MODIFIED", k, v)
          /\ got' = [got EXCEPT ![c] = [key |-> k, item |-> items'[k]]]
    /\ UNCHANGED watchVars

\* NotFound or Conflict: the client has to fetch the resource again.
PutRejected(c) ==
    /\ Unlocked
    /\ got[c] # Nothing
    /\ items[got[c].key].rv # got[c].item.rv
    /\ got' = [got EXCEPT ![c] = Nothing]
    /\ UNCHANGED <<storeVars, watchVars>>

\* Mutant: the event is about an object without a resource version.
DeleteUnversioned(k) ==
    /\ Unlocked
    /\ Exists(k)
    /\ items' = [items EXCEPT ![k] = Absent]
    /\ pub' = [type |-> "DELETED", key |-> k, item |-> [items[k] EXCEPT !.rv = 0]]
    /\ UNCHANGED <<seq, got, watchVars>>

\* Delete, once validate has agreed.  The sequence number stays.
Delete(k) ==
    /\ Unlocked
    /\ Exists(k)
    /\ items' = [items EXCEPT ![k] = Absent]
    /\ pub' = [type |-> "DELETED", key |-> k, item |-> items[k]]
    /\ UNCHANGED <<seq, got, watchVars>>

\* Watchers that are registered with the PubSub.
Registered == {w \in Watcher : st[w] = "open"}
Full(w) == Len(queue[w]) >= Cap

\* Mutant: the newest event overtakes the ones before it.
EmitFirst ==
    /\ pub # NoEvent
    /\ queue' = [w \in Watcher |-> IF w \in Registered /\ ~Full(w)
                                   THEN <<pub>> \o queue[w] ELSE queue[w]]
    /\ kicked' = [w \in Watcher |-> kicked[w] \/ (w \in Registered /\ Full(w))]
    /\ pub' = NoEvent
    /\ UNCHANGED <<items, seq, got, st, rv>>

\* emit: every registered watcher gets the event or, full, is kicked; then
\* the mutex is released.
Emit ==
    /\ pub # NoEvent
    /\ queue' = [w \in Watcher |-> IF w \in Registered /\ ~Full(w)
                                   THEN Append(queue[w], pub) ELSE queue[w]]
    /\ kicked' = [w \in Watcher |-> kicked[w] \/ (w \in Registered /\ Full(w))]
    /\ pub' = NoEvent
    /\ UNCHANGED <<items, seq, got, st, rv>>

-----------------------------------------------------------------------------
(* List and Watch *)

\* List: a snapshot and the sequence number it was taken at.
List(w) ==
    /\ Unlocked
    /\ st[w] = "list"
    /\ st' = [st EXCEPT ![w] = "listed"]
    /\ rv' = [rv EXCEPT ![w] = seq]
    /\ UNCHANGED <<storeVars, got, queue, kicked>>

\* Watch compares the version with s.seq, without the mutex; a client that
\* has listed passes one...
WatchCheck(w) ==
    /\ st[w] = "listed"
    /\ rv[w] = seq
    /\ st' = [st EXCEPT ![w] = "checked"]
    /\ UNCHANGED <<storeVars, got, rv, queue, kicked>>

\* ... answering Gone when they differ ...
WatchGone(w) ==
    /\ st[w] = "listed"
    /\ rv[w] # seq
    /\ st' = [st EXCEPT ![w] = "backoff"]
    /\ UNCHANGED <<storeVars, got, rv, queue, kicked>>

\* ... and subscribes afterwards.
WatchSubscribe(w) ==
    /\ st[w] = "checked"
    /\ st' = [st EXCEPT ![w] = "open"]
    /\ UNCHANGED <<storeVars, got, rv, queue, kicked>>

\* The consumer takes the next event from its channel.
Consume(w) ==
    /\ st[w] = "open"
    /\ queue[w] # <<>>
    /\ queue' = [queue EXCEPT ![w] = Tail(@)]
    /\ UNCHANGED <<storeVars, got, st, rv, kicked>>

\* The watcher, if registered, is removed and its channel drained.
Leave(w, next) ==
    /\ st' = [st EXCEPT ![w] = next]
    /\ queue' = [queue EXCEPT ![w] = <<>>]
    /\ kicked' = [kicked EXCEPT ![w] = FALSE]
    /\ UNCHANGED <<storeVars, got, rv>>

\* The watch ends; the client may list again.
WatchEnd(w, next) == st[w] = "open" /\ Leave(w, next)

\* The client goes away, wherever it is.
WatchCancel(w) == st[w] # "done" /\ Leave(w, "done")

\* A client that was turned away or cut off lists again.
Retry(w) ==
    /\ st[w] = "backoff"
    /\ st' = [st EXCEPT ![w] = "list"]
    /\ UNCHANGED <<storeVars, got, rv, queue, kicked>>

-----------------------------------------------------------------------------
WriterStep ==
    \/ \E k \in Key, v \in Val : Create(k, v) \/ Modify(k, v)
    \/ \E k \in Key : Delete(k)
    \/ \E c \in Client, v \in Val : Put(c, v)
    \/ \E c \in Client : PutRejected(c) \/ \E k \in Key : Get(c, k)

Next ==
    \/ WriterStep
    \/ Emit
    \/ \E w \in Watcher :
           \/ List(w) \/ WatchCheck(w) \/ WatchGone(w) \/ WatchSubscribe(w)
           \/ Consume(w) \/ Retry(w) \/ WatchCancel(w)
           \/ \E next \in {"backoff", "done"} : WatchEnd(w, next)

Spec == Init /\ [][Next]_vars

-----------------------------------------------------------------------------
(* Properties *)

\* What w has yet to see: its queue and the event being published.
Pending(w) == IF pub = NoEvent THEN queue[w] ELSE Append(queue[w], pub)

\* The state of its resource after event e.
Outcome(e) == IF e.type = "DELETED" THEN Absent ELSE e.item

\* The last event of stream s about its resource.
IsLast(s, i) == \A j \in (i+1)..Len(s) : s[j].key # s[i].key

(***************************************************************************)
(* The resource version a client writes back identifies the exact content  *)
(* it read: when Update accepts it (inmemorystore.go:135), nothing has     *)
(* written, deleted or re-created the resource since, so no update is lost.*)
(***************************************************************************)
VersionIdentifiesContent ==
    \A c \in Client : got[c] # Nothing =>
        LET item == items[got[c].key]
        IN item.rv = got[c].item.rv => item = got[c].item

(***************************************************************************)
(* A watch keeps up with the store: of the events a registered watcher has *)
(* not yet consumed, the last one about a resource describes the resource  *)
(* as it is now.  Only a watcher that is being kicked may have lost it.    *)
(***************************************************************************)
StreamEndsAtStore ==
    \A w \in Registered : ~kicked[w] =>
        \A i \in 1..Len(Pending(w)) :
            IsLast(Pending(w), i) =>
                items[Pending(w)[i].key] = Outcome(Pending(w)[i])

(***************************************************************************)
(* The events a watcher sees of one resource never go back to an older     *)
(* version, and each creation or change has a newer one, across deletion   *)
(* and re-creation and even when the watcher has lost events.              *)
(***************************************************************************)
VersionsAdvance ==
    \A w \in Registered : \A i, j \in 1..Len(Pending(w)) :
        LET a == Pending(w)[i]
            b == Pending(w)[j]
        IN i < j /\ a.key = b.key =>
               IF b.type = "DELETED" THEN a.item.rv <= b.item.rv
                                     ELSE a.item.rv < b.item.rv
=============================================================================
