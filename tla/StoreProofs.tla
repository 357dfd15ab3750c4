----------------------------- MODULE StoreProofs -----------------------------
(***************************************************************************)
(* The in-memory store's optimistic concurrency, the order of its events   *)
(* and the copy the web UI's client keeps with them, for any number of     *)
(* resources, clients and watchers, any channel capacity and any number of *)
(* writes.                                                                 *)
(***************************************************************************)
EXTENDS SyncClient, TLAPS

\* The initial state has the right types.
LEMMA TypeInit == Init => TypeOK
  BY BoundsAssumption DEF Init, TypeOK, WatchState

\* What a write makes of the store has the right type.
LEMMA WriteType ==
    ASSUME TypeOK, NEW type \in {"ADDED", "MODIFIED"}, NEW k \in Key, NEW v \in Val,
           Write(type, k, v)
    PROVE  /\ items' \in [Key -> Item \cup {Absent}]
           /\ items'[k] \in Item
           /\ seq' \in 0..MaxSeq
           /\ pub' \in Event
  BY BoundsAssumption DEF TypeOK, Write, Item, Event

\* Every step of the store keeps its variables in their types.
LEMMA TypeStep == TypeOK /\ [Next]_vars => TypeOK'
<1> SUFFICES ASSUME TypeOK, [Next]_vars PROVE TypeOK'
  OBVIOUS
<1> USE DEF storeVars, watchVars
<1>1. ASSUME NEW k \in Key, NEW v \in Val, Create(k, v) PROVE TypeOK'
  <2>1. Write("ADDED", k, v)
    BY <1>1 DEF Create
  <2>2. QED
    BY <1>1, <2>1, WriteType DEF TypeOK, Create
<1>2. ASSUME NEW k \in Key, NEW v \in Val, Modify(k, v) PROVE TypeOK'
  <2>1. Write("MODIFIED", k, v)
    BY <1>2 DEF Modify
  <2>2. QED
    BY <1>2, <2>1, WriteType DEF TypeOK, Modify
<1>3. ASSUME NEW c \in Client, NEW v \in Val, Put(c, v) PROVE TypeOK'
  <2> DEFINE k == got[c].key
  <2>1. got[c] \in Copy /\ k \in Key
    BY <1>3 DEF TypeOK, Put, Copy
  <2>2. Write("MODIFIED", k, v)
    BY <1>3 DEF Put
  <2>3. /\ items' \in [Key -> Item \cup {Absent}] /\ items'[k] \in Item
        /\ seq' \in 0..MaxSeq /\ pub' \in Event
    BY <2>1, <2>2, WriteType
  <2>4. got' = [got EXCEPT ![c] = [key |-> k, item |-> items'[k]]]
    BY <1>3 DEF Put
  <2>5. [key |-> k, item |-> items'[k]] \in Copy
    BY <2>1, <2>3 DEF Copy
  <2>6. got' \in [Client -> Copy \cup {Nothing}]
    BY <2>4, <2>5 DEF TypeOK
  <2>7. QED
    BY <1>3, <2>3, <2>6 DEF TypeOK, Put
<1>4. ASSUME NEW c \in Client, PutRejected(c) PROVE TypeOK'
  BY <1>4 DEF TypeOK, PutRejected
<1>5. ASSUME NEW c \in Client, NEW k \in Key, Get(c, k) PROVE TypeOK'
  BY <1>5 DEF TypeOK, Get, Exists, Copy
<1>6. ASSUME NEW k \in Key, Delete(k) PROVE TypeOK'
  BY <1>6 DEF TypeOK, Delete, Exists, Event
<1>7. ASSUME Emit PROVE TypeOK'
  <2>1. pub \in Event
    BY <1>7 DEF TypeOK, Emit
  <2>2. queue' \in [Watcher -> Seq(Event)]
    BY <1>7, <2>1 DEF TypeOK, Emit
  <2>3. kicked' \in [Watcher -> BOOLEAN]
    BY <1>7 DEF TypeOK, Emit
  <2>4. QED
    BY <1>7, <2>2, <2>3 DEF TypeOK, Emit
<1>8. ASSUME NEW w \in Watcher, List(w) PROVE TypeOK'
  BY <1>8 DEF TypeOK, List, WatchState
<1>9. ASSUME NEW w \in Watcher, WatchCheck(w) PROVE TypeOK'
  BY <1>9 DEF TypeOK, WatchCheck, WatchState
<1>10. ASSUME NEW w \in Watcher, WatchGone(w) PROVE TypeOK'
  BY <1>10 DEF TypeOK, WatchGone, WatchState
<1>11. ASSUME NEW w \in Watcher, WatchSubscribe(w) PROVE TypeOK'
  BY <1>11 DEF TypeOK, WatchSubscribe, WatchState
<1>12. ASSUME NEW w \in Watcher, Consume(w) PROVE TypeOK'
  BY <1>12 DEF TypeOK, Consume
<1>13. ASSUME NEW w \in Watcher, NEW next \in {"backoff", "done"}, Leave(w, next)
       PROVE  TypeOK'
  BY <1>13 DEF TypeOK, Leave, WatchState
<1>14. ASSUME NEW w \in Watcher, Retry(w) PROVE TypeOK'
  BY <1>14 DEF TypeOK, Retry, WatchState
<1>15. CASE UNCHANGED vars
  BY <1>15 DEF TypeOK, vars
<1>16. QED
  BY <1>1, <1>2, <1>3, <1>4, <1>5, <1>6, <1>7, <1>8, <1>9, <1>10, <1>11,
     <1>12, <1>13, <1>14, <1>15
  DEF Next, WriterStep, WatchEnd, WatchCancel

(***************************************************************************)
(* The store's variables always have their types; in particular every      *)
(* event carries the resource it is about.                                 *)
(***************************************************************************)
THEOREM TypeCorrect == Spec => []TypeOK
<1>1. Init => TypeOK
  BY TypeInit
<1>2. TypeOK /\ [Next]_vars => TypeOK'
  BY TypeStep
<1>3. QED
  BY <1>1, <1>2, PTL DEF Spec

-----------------------------------------------------------------------------
(***************************************************************************)
(* Optimistic concurrency.  VersionIdentifiesContent needs to know that    *)
(* versions in use are at most s.seq (so that the next one is new) and at  *)
(* least 1 (so that a deleted resource matches none).                      *)
(***************************************************************************)
VersionsInUse ==
    /\ \A k \in Key : items[k].rv <= seq /\ (Exists(k) => items[k].rv > 0)
    /\ \A c \in Client : got[c] # Nothing => got[c].item.rv \in 1..seq

VersionInv == TypeOK /\ VersionsInUse /\ VersionIdentifiesContent

\* Initially no version has been drawn.
LEMMA VersionInvInit == Init => VersionInv
  BY TypeInit DEF Init, VersionInv, VersionsInUse, VersionIdentifiesContent,
                  Exists, Absent

\* A write draws a version nobody has; its author, if it is a client, goes on
\* with what it wrote.
LEMMA VersionInvWrite ==
    ASSUME VersionInv, TypeOK', NEW type \in {"ADDED", "MODIFIED"},
           NEW k \in Key, NEW v \in Val, Write(type, k, v),
           \A c \in Client : \/ got'[c] = got[c]
                             \/ got'[c] = [key |-> k, item |-> items'[k]]
    PROVE  VersionInv'
<1> USE DEF VersionInv
<1>1. /\ seq \in Nat /\ seq' = seq + 1
      /\ items'[k] = [rv |-> seq + 1, val |-> v]
      /\ \A j \in Key : j # k => items'[j] = items[j]
  BY BoundsAssumption DEF TypeOK, Write
<1>2. VersionsInUse'
  <2>1. ASSUME NEW j \in Key
        PROVE  items'[j].rv <= seq' /\ (items'[j] # Absent => items'[j].rv > 0)
    <3>1. CASE j = k
      BY <1>1, <3>1
    <3>2. CASE j # k
      <4>1. items[j].rv \in Nat
        BY DEF TypeOK, Item, Absent
      <4>2. QED
        BY <1>1, <3>2, <4>1 DEF VersionsInUse, Exists
    <3>3. QED
      BY <3>1, <3>2
  <2>2. ASSUME NEW c \in Client, got'[c] # Nothing
        PROVE  got'[c].item.rv \in 1..seq'
    BY <1>1, <2>2 DEF VersionsInUse
  <2>3. QED
    BY <2>1, <2>2 DEF VersionsInUse, Exists
<1>3. ASSUME NEW c \in Client, got'[c] # Nothing,
             items'[got'[c].key].rv = got'[c].item.rv
      PROVE  items'[got'[c].key] = got'[c].item
  <2>1. CASE got'[c] = [key |-> k, item |-> items'[k]]
    BY <2>1
  <2>2. CASE got'[c] = got[c]
    <3>1. got[c] # Nothing /\ got[c].item.rv \in 1..seq
      BY <1>3, <2>2 DEF VersionsInUse
    <3>2. got[c] \in Copy
      BY <3>1 DEF TypeOK
    <3>3. got[c].key \in Key
      BY <3>2 DEF Copy
    <3>4. got[c].key # k
      BY <1>1, <1>3, <2>2, <3>1
    <3>5. items'[got[c].key] = items[got[c].key]
      BY <1>1, <3>3, <3>4
    <3>6. QED
      BY <1>3, <2>2, <3>1, <3>5 DEF VersionIdentifiesContent
  <2>3. QED
    BY <2>1, <2>2
<1>4. VersionIdentifiesContent'
  BY <1>3 DEF VersionIdentifiesContent
<1>5. QED
  BY <1>2, <1>4

\* Every step of the store preserves the invariant on versions.
LEMMA VersionInvStep == VersionInv /\ [Next]_vars => VersionInv'
<1> SUFFICES ASSUME VersionInv, [Next]_vars PROVE VersionInv'
  OBVIOUS
<1> USE DEF storeVars, watchVars
<1>0. TypeOK /\ TypeOK'
  BY TypeStep DEF VersionInv
<1>1. ASSUME NEW k \in Key, NEW v \in Val, Create(k, v) \/ Modify(k, v)
      PROVE  VersionInv'
  <2>1. got' = got /\ \E type \in {"ADDED", "MODIFIED"} : Write(type, k, v)
    BY <1>1 DEF Create, Modify
  <2>2. QED
    BY <1>0, <2>1, VersionInvWrite
<1>2. ASSUME NEW c \in Client, NEW v \in Val, Put(c, v) PROVE VersionInv'
  <2> DEFINE k == got[c].key
  <2>1. k \in Key
    BY <1>0, <1>2 DEF TypeOK, Put, Copy
  <2>2. Write("MODIFIED", k, v) /\ got' = [got EXCEPT ![c] = [key |-> k, item |-> items'[k]]]
    BY <1>2 DEF Put
  <2>3. \A d \in Client : got'[d] = got[d] \/ got'[d] = [key |-> k, item |-> items'[k]]
    BY <1>0, <2>2 DEF TypeOK
  <2> HIDE DEF k
  <2>4. QED
    BY <1>0, <2>1, <2>2, <2>3, VersionInvWrite
<1>3. ASSUME NEW c \in Client, NEW k \in Key, Get(c, k) PROVE VersionInv'
  <2>1. items' = items /\ seq' = seq
    BY <1>3 DEF Get
  <2>2. \A d \in Client : \/ got'[d] = got[d]
                          \/ got'[d] = Nothing
                          \/ got'[d] = [key |-> k, item |-> items[k]] /\ Exists(k)
    BY <1>0, <1>3 DEF TypeOK, Get
  <2>3. items[k].rv <= seq /\ (Exists(k) => items[k].rv \in 1..seq)
    BY <1>0 DEF VersionInv, VersionsInUse, TypeOK, Exists, Item
  <2>4. VersionsInUse'
    BY <2>1, <2>2, <2>3 DEF VersionInv, VersionsInUse, Exists
  <2>5. VersionIdentifiesContent'
    BY <2>1, <2>2 DEF VersionInv, VersionIdentifiesContent
  <2>6. QED
    BY <1>0, <2>4, <2>5 DEF VersionInv
<1>4. ASSUME NEW c \in Client, PutRejected(c) PROVE VersionInv'
  <2>1. items' = items /\ seq' = seq
    BY <1>4 DEF PutRejected
  <2>2. \A d \in Client : got'[d] = got[d] \/ got'[d] = Nothing
    BY <1>0, <1>4 DEF TypeOK, PutRejected
  <2>3. QED
    BY <1>0, <2>1, <2>2
    DEF VersionInv, VersionsInUse, VersionIdentifiesContent, Exists
<1>5. ASSUME NEW k \in Key, Delete(k) PROVE VersionInv'
  <2>1. /\ got' = got /\ seq' = seq
        /\ items'[k] = Absent
        /\ \A j \in Key : j # k => items'[j] = items[j]
    BY <1>0, <1>5 DEF TypeOK, Delete
  <2>2. Absent.rv = 0 /\ seq \in Nat
    BY <1>0, BoundsAssumption DEF Absent, TypeOK
  <2>3. VersionsInUse'
    BY <2>1, <2>2 DEF VersionInv, VersionsInUse, Exists
  <2>4. ASSUME NEW c \in Client, got[c] # Nothing,
               items'[got[c].key].rv = got[c].item.rv
        PROVE  items'[got[c].key] = got[c].item
    <3>1. got[c].item.rv \in 1..seq
      BY <2>4 DEF VersionInv, VersionsInUse
    <3>2. got[c].key \in Key
      BY <1>0, <2>4 DEF TypeOK, Copy
    <3>3. got[c].key # k
      BY <2>1, <2>2, <2>4, <3>1
    <3>4. QED
      BY <2>1, <2>4, <3>2, <3>3 DEF VersionInv, VersionIdentifiesContent
  <2>5. QED
    BY <1>0, <2>1, <2>3, <2>4 DEF VersionInv, VersionIdentifiesContent
<1>6. ASSUME UNCHANGED <<items, seq, got>> PROVE VersionInv'
  BY <1>0, <1>6 DEF VersionInv, VersionsInUse, VersionIdentifiesContent, Exists
<1>7. ASSUME NEW w \in Watcher,
             \/ List(w) \/ WatchCheck(w) \/ WatchGone(w) \/ WatchSubscribe(w)
             \/ Consume(w) \/ Retry(w)
             \/ \E next \in {"backoff", "done"} : Leave(w, next)
      PROVE  UNCHANGED <<items, seq, got>>
  BY <1>7 DEF List, WatchCheck, WatchGone, WatchSubscribe, Consume, Leave, Retry
<1>8. Emit \/ UNCHANGED vars => UNCHANGED <<items, seq, got>>
  BY DEF Emit, vars
<1>9. QED
  BY <1>1, <1>2, <1>3, <1>4, <1>5, <1>6, <1>7, <1>8
  DEF Next, WriterStep, WatchEnd, WatchCancel

(***************************************************************************)
(* No lost update: an Update whose version the store accepts replaces      *)
(* exactly what its author read.                                           *)
(***************************************************************************)
THEOREM NoLostUpdate == Spec => []VersionIdentifiesContent
<1>1. Init => VersionInv
  BY VersionInvInit
<1>2. VersionInv /\ [Next]_vars => VersionInv'
  BY VersionInvStep
<1>3. VersionInv => VersionIdentifiesContent
  BY DEF VersionInv
<1>4. QED
  BY <1>1, <1>2, <1>3, PTL DEF Spec

-----------------------------------------------------------------------------
(***************************************************************************)
(* The streams of the watchers, first as facts about sequences of events.  *)
(***************************************************************************)

\* b may follow a in a stream.
MayFollow(a, b) ==
    a.key = b.key => IF b.type = "DELETED" THEN a.item.rv <= b.item.rv
                                           ELSE a.item.rv < b.item.rv

Ordered(s) == \A i, j \in 1..Len(s) : i < j => MayFollow(s[i], s[j])

\* The last event of each resource in s leads to its state in the map m.
EndsAt(s, m) ==
    \A i \in 1..Len(s) : IsLast(s, i) => m[s[i].key] = Outcome(s[i])

\* Appending an event that is not older keeps a stream in order.
LEMMA OrderedAppend ==
    ASSUME NEW s \in Seq(Event), NEW e \in Event, Ordered(s),
           \A i \in 1..Len(s) : MayFollow(s[i], e)
    PROVE  Ordered(Append(s, e))
  BY DEF Ordered

\* Taking the first event off keeps a stream in order.
LEMMA OrderedTail ==
    ASSUME NEW s \in Seq(Event), s # <<>>, Ordered(s)
    PROVE  Ordered(Tail(s))
<1>1. \A i \in 1..Len(Tail(s)) : Tail(s)[i] = s[i+1] /\ i + 1 \in 1..Len(s)
  OBVIOUS
<1>2. QED
  BY <1>1 DEF Ordered

\* A stream that ends at the store still does after the store has changed
\* and the event of the change was appended.
LEMMA EndsAtAppend ==
    ASSUME NEW s \in Seq(Event), NEW e \in Event,
           NEW m \in [Key -> Item \cup {Absent}], EndsAt(s, m)
    PROVE  EndsAt(Append(s, e), [m EXCEPT ![e.key] = Outcome(e)])
<1> DEFINE t == Append(s, e)
           n == [m EXCEPT ![e.key] = Outcome(e)]
<1>1. /\ Len(t) = Len(s) + 1 /\ Len(s) \in Nat
      /\ \A i \in 1..Len(s) : t[i] = s[i]
      /\ t[Len(t)] = e
  OBVIOUS
<1>2. e.key \in Key /\ \A i \in 1..Len(s) : s[i].key \in Key
  <2>1. \A i \in 1..Len(s) : s[i] \in Event
    OBVIOUS
  <2>2. \A x \in Event : x.key \in Key
    BY DEF Event
  <2>3. QED
    BY <2>1, <2>2
<1> SUFFICES ASSUME NEW i \in 1..Len(t), IsLast(t, i)
             PROVE  n[t[i].key] = Outcome(t[i])
  BY DEF EndsAt
<1>3. CASE i = Len(t)
  BY <1>1, <1>2, <1>3
<1>4. CASE i \in 1..Len(s)
  <2>1. Len(t) \in (i+1)..Len(t)
    BY <1>1, <1>4
  <2>2. s[i].key # e.key
    BY <1>1, <1>4, <2>1 DEF IsLast
  <2>3. ASSUME NEW j \in (i+1)..Len(s) PROVE s[j].key # s[i].key
    <3>1. j \in (i+1)..Len(t) /\ j \in 1..Len(s)
      BY <1>1, <1>4
    <3>2. QED
      BY <1>1, <1>4, <3>1 DEF IsLast
  <2>4. m[s[i].key] = Outcome(s[i])
    BY <1>4, <2>3 DEF IsLast, EndsAt
  <2>5. QED
    BY <1>1, <1>2, <1>4, <2>2, <2>4
<1>5. QED
  BY <1>1, <1>3, <1>4

\* Taking the first event off does not change where a stream ends.
LEMMA EndsAtTail ==
    ASSUME NEW s \in Seq(Event), s # <<>>, NEW m, EndsAt(s, m)
    PROVE  EndsAt(Tail(s), m)
<1> DEFINE t == Tail(s)
<1>1. /\ Len(s) = Len(t) + 1 /\ Len(t) \in Nat
      /\ \A i \in 1..Len(t) : t[i] = s[i+1] /\ i + 1 \in 1..Len(s)
  OBVIOUS
<1> SUFFICES ASSUME NEW i \in 1..Len(t), IsLast(t, i)
             PROVE  m[t[i].key] = Outcome(t[i])
  BY DEF EndsAt
<1>2. ASSUME NEW j \in (i+2)..Len(s) PROVE s[j].key # s[i+1].key
  <2>1. j - 1 \in (i+1)..Len(t) /\ j - 1 \in 1..Len(t) /\ (j - 1) + 1 = j
    BY <1>1
  <2>2. t[j-1].key # t[i].key
    BY <2>1 DEF IsLast
  <2>3. QED
    BY <1>1, <2>1, <2>2
<1>3. (i + 1) + 1 = i + 2
  BY <1>1
<1>4. IsLast(s, i + 1)
  BY <1>2, <1>3 DEF IsLast
<1>5. QED
  BY <1>1, <1>4 DEF EndsAt

(***************************************************************************)
(* The invariant behind both stream properties: the event being published  *)
(* has been applied to the map, no event on its way is newer than the map, *)
(* and a watcher that is not registered has nothing in its queue.          *)
(***************************************************************************)
NotNewer(e) ==
    e.item.rv <= seq /\ (Exists(e.key) => e.item.rv <= items[e.key].rv)

IdleQueuesEmpty == \A w \in Watcher : st[w] # "open" => queue[w] = <<>>
PublishedIsApplied == pub # NoEvent => items[pub.key] = Outcome(pub) /\ NotNewer(pub)
QueuedNotNewer ==
    \A w \in Watcher : \A i \in 1..Len(queue[w]) : NotNewer(queue[w][i])
StreamsOrdered == \A w \in Watcher : Ordered(Pending(w))
StreamsEnd == \A w \in Watcher : ~kicked[w] => EndsAt(Pending(w), items)

StreamInv ==
    /\ VersionInv
    /\ IdleQueuesEmpty
    /\ PublishedIsApplied
    /\ QueuedNotNewer
    /\ StreamsOrdered
    /\ StreamsEnd

\* Initially there is no watcher.
LEMMA StreamInvInit == Init => StreamInv
<1> SUFFICES ASSUME Init PROVE StreamInv
  OBVIOUS
<1>1. VersionInv
  BY VersionInvInit
<1>2. pub = NoEvent /\ \A w \in Watcher : queue[w] = <<>>
  BY DEF Init
<1>3. \A w \in Watcher : Pending(w) = <<>>
  BY <1>2 DEF Pending
<1>4. Ordered(<<>>) /\ EndsAt(<<>>, items)
  BY DEF Ordered, EndsAt
<1>5. QED
  BY <1>1, <1>2, <1>3, <1>4
  DEF StreamInv, IdleQueuesEmpty, PublishedIsApplied, QueuedNotNewer,
      StreamsOrdered, StreamsEnd

\* A new event, about a change that was just made, goes to the end of every
\* stream: it is at least as new as all before it.
LEMMA StreamInvChange ==
    ASSUME StreamInv, VersionInv', NEW e \in Event,
           pub = NoEvent, pub' = e,
           items' = [items EXCEPT ![e.key] = Outcome(e)],
           UNCHANGED watchVars,
           \/ e.type = "DELETED" /\ Exists(e.key) /\ e.item = items[e.key] /\ seq' = seq
           \/ e.type # "DELETED" /\ e.item.rv = seq + 1 /\ seq' = seq + 1
    PROVE  StreamInv'
<1> USE DEF watchVars
<1>1. TypeOK /\ VersionsInUse
  BY DEF StreamInv, VersionInv
<1>2. /\ e # NoEvent /\ e.key \in Key /\ e.item \in Item /\ e.item.rv \in Nat
      /\ seq \in Nat /\ Absent.rv = 0
  BY <1>1 DEF TypeOK, Event, Item, NoEvent, Absent
<1>3. /\ items'[e.key] = Outcome(e)
      /\ \A k \in Key : k # e.key => items'[k] = items[k]
  BY <1>1, <1>2 DEF TypeOK
<1>4. \A k \in Key : items[k].rv \in Nat /\ items[k].rv <= seq
  BY <1>1 DEF TypeOK, VersionsInUse, Item, Absent
<1>5. NotNewer(e)'
  <2>1. CASE e.type = "DELETED"
    <3>1. items'[e.key] = Absent
      BY <1>3, <2>1 DEF Outcome
    <3>2. e.item.rv <= seq'
      BY <1>2, <1>4, <2>1
    <3>3. QED
      BY <3>1, <3>2 DEF NotNewer, Exists
  <2>2. CASE e.type # "DELETED"
    BY <1>2, <1>3, <2>2 DEF NotNewer, Outcome
  <2>3. QED
    BY <2>1, <2>2
<1>6. ASSUME NEW w \in Watcher, NEW i \in 1..Len(queue[w])
      PROVE  MayFollow(queue[w][i], e) /\ NotNewer(queue[w][i])'
  <2> DEFINE q == queue[w][i]
  <2>1. q \in Event
    BY <1>1 DEF TypeOK
  <2>2. q.key \in Key /\ q.item.rv \in Nat
    BY <2>1 DEF Event, Item
  <2>3. q.item.rv <= seq /\ (Exists(q.key) => q.item.rv <= items[q.key].rv)
    BY DEF StreamInv, QueuedNotNewer, NotNewer
  <2> HIDE DEF q
  <2>4. MayFollow(q, e)
    BY <1>2, <1>4, <2>2, <2>3 DEF MayFollow
  <2>5. q.item.rv <= seq'
    BY <1>2, <2>2, <2>3
  <2>6. ASSUME items'[q.key] # Absent PROVE q.item.rv <= items'[q.key].rv
    <3>1. CASE q.key # e.key
      BY <1>3, <2>2, <2>3, <2>6, <3>1 DEF Exists
    <3>2. CASE q.key = e.key
      <4>1. e.type # "DELETED" /\ items'[q.key] = e.item
        BY <1>3, <2>6, <3>2 DEF Outcome
      <4>2. QED
        BY <1>2, <2>2, <2>3, <4>1
    <3>3. QED
      BY <3>1, <3>2
  <2>7. NotNewer(q)'
    BY <2>5, <2>6 DEF NotNewer, Exists, q
  <2>8. QED
    BY <2>4, <2>7 DEF q
<1>7. ASSUME NEW w \in Watcher
      PROVE  /\ Pending(w)' = Append(queue[w], e)
             /\ Pending(w) = queue[w]
             /\ queue[w] \in Seq(Event)
  BY <1>1, <1>2 DEF Pending, TypeOK
<1>8. StreamsOrdered'
  <2>1. ASSUME NEW w \in Watcher PROVE Ordered(Append(queue[w], e))
    BY <1>6, <1>7, OrderedAppend DEF StreamInv, StreamsOrdered
  <2>2. QED
    BY <1>7, <2>1 DEF StreamsOrdered
<1>9. StreamsEnd'
  <2>1. ASSUME NEW w \in Watcher, ~kicked[w] PROVE EndsAt(Append(queue[w], e), items')
    <3>1. EndsAt(queue[w], items)
      BY <1>7, <2>1 DEF StreamInv, StreamsEnd
    <3>2. QED
      BY <1>1, <1>7, <3>1, EndsAtAppend DEF TypeOK
  <2>2. QED
    BY <1>7, <2>1 DEF StreamsEnd
<1>10. QED
  BY <1>3, <1>5, <1>6, <1>8, <1>9
  DEF StreamInv, IdleQueuesEmpty, PublishedIsApplied, QueuedNotNewer

\* A write, by whomever, is such a change.
LEMMA StreamInvWrite ==
    ASSUME StreamInv, VersionInv', NEW type \in {"ADDED", "MODIFIED"},
           NEW k \in Key, NEW v \in Val, Write(type, k, v), Unlocked,
           UNCHANGED watchVars
    PROVE  StreamInv'
<1> DEFINE e == [type |-> type, key |-> k, item |-> [rv |-> seq + 1, val |-> v]]
<1>1. TypeOK
  BY DEF StreamInv, VersionInv
<1>2. e \in Event /\ e.type # "DELETED" /\ e.item.rv = seq + 1 /\ Outcome(e) = e.item
  BY <1>1 DEF TypeOK, Event, Item, Outcome
<1>3. pub = NoEvent /\ pub' = e /\ seq' = seq + 1
  BY DEF Write, Unlocked
<1>4. items' = [items EXCEPT ![e.key] = Outcome(e)]
  BY <1>2 DEF Write
<1> HIDE DEF e
<1>5. QED
  BY <1>2, <1>3, <1>4, StreamInvChange

\* Every step of the store preserves the invariant on streams.
LEMMA StreamInvStep == StreamInv /\ [Next]_vars => StreamInv'
<1> SUFFICES ASSUME StreamInv, [Next]_vars PROVE StreamInv'
  OBVIOUS
<1>0. TypeOK /\ VersionInv /\ VersionInv'
  BY VersionInvStep DEF StreamInv, VersionInv
<1>1. ASSUME NEW k \in Key, NEW v \in Val, Create(k, v) PROVE StreamInv'
  BY <1>0, <1>1, StreamInvWrite DEF Create
<1>2. ASSUME NEW k \in Key, NEW v \in Val, Modify(k, v) PROVE StreamInv'
  BY <1>0, <1>2, StreamInvWrite DEF Modify
<1>3. ASSUME NEW c \in Client, NEW v \in Val, Put(c, v) PROVE StreamInv'
  <2>1. got[c].key \in Key
    BY <1>0, <1>3 DEF TypeOK, Put, Copy
  <2>2. Write("MODIFIED", got[c].key, v) /\ Unlocked /\ UNCHANGED watchVars
    BY <1>3 DEF Put
  <2>3. QED
    BY <1>0, <2>1, <2>2, StreamInvWrite
<1>4. ASSUME NEW k \in Key, Delete(k) PROVE StreamInv'
  <2> DEFINE e == [type |-> "DELETED", key |-> k, item |-> items[k]]
  <2>1. e \in Event /\ e.type = "DELETED" /\ Exists(e.key) /\ e.item = items[e.key]
    BY <1>0, <1>4 DEF TypeOK, Event, Delete, Exists
  <2>2. Outcome(e) = Absent
    BY DEF Outcome
  <2>3. pub = NoEvent /\ pub' = e /\ seq' = seq /\ UNCHANGED watchVars
    BY <1>4 DEF Delete, Unlocked
  <2>4. items' = [items EXCEPT ![e.key] = Outcome(e)]
    BY <1>4, <2>2 DEF Delete
  <2> HIDE DEF e
  <2>5. QED
    BY <1>0, <2>1, <2>3, <2>4, StreamInvChange
<1>5. ASSUME Emit PROVE StreamInv'
  <2>1. /\ pub # NoEvent /\ pub' = NoEvent /\ pub \in Event
        /\ items' = items /\ seq' = seq /\ st' = st
    BY <1>0, <1>5 DEF Emit, TypeOK
  <2>2. ASSUME NEW w \in Watcher
        PROVE  \/ queue'[w] = Append(queue[w], pub) /\ st[w] = "open" /\ kicked'[w] = kicked[w]
               \/ queue'[w] = queue[w] /\ (kicked'[w] \/ st[w] # "open")
    BY <1>0, <1>5 DEF Emit, Registered, TypeOK
  <2>3. ASSUME NEW w \in Watcher
        PROVE  /\ Pending(w)' = queue'[w] /\ Pending(w) = Append(queue[w], pub)
               /\ queue[w] \in Seq(Event)
    BY <1>0, <2>1 DEF Pending, TypeOK
  <2>4. IdleQueuesEmpty' /\ PublishedIsApplied'
    BY <2>1, <2>2 DEF StreamInv, IdleQueuesEmpty, PublishedIsApplied
  <2>5. QueuedNotNewer'
    <3>1. \A e : NotNewer(e)' <=> NotNewer(e)
      BY <2>1 DEF NotNewer, Exists
    <3>2. ASSUME NEW w \in Watcher, NEW i \in 1..Len(queue'[w])
          PROVE  NotNewer(queue'[w][i])
      <4>1. \/ i \in 1..Len(queue[w]) /\ queue'[w][i] = queue[w][i]
            \/ queue'[w][i] = pub
        BY <2>2, <2>3
      <4>2. QED
        BY <2>1, <4>1 DEF StreamInv, QueuedNotNewer, PublishedIsApplied
    <3>3. QED
      BY <3>1, <3>2 DEF QueuedNotNewer
  <2>6. ASSUME NEW w \in Watcher PROVE Ordered(queue'[w])
    <3>1. Ordered(Append(queue[w], pub))
      BY <2>3 DEF StreamInv, StreamsOrdered
    <3>2. Ordered(queue[w])
      BY <2>1, <2>3, <3>1 DEF Ordered
    <3>3. QED
      BY <2>2, <3>1, <3>2
  <2>7. ASSUME NEW w \in Watcher, ~kicked'[w] PROVE EndsAt(queue'[w], items)
    <3>1. CASE queue'[w] = Append(queue[w], pub) /\ kicked'[w] = kicked[w]
      BY <2>3, <2>7, <3>1 DEF StreamInv, StreamsEnd
    <3>2. CASE queue'[w] = queue[w] /\ st[w] # "open"
      <4>1. queue'[w] = <<>>
        BY <3>2 DEF StreamInv, IdleQueuesEmpty
      <4>2. QED
        BY <4>1 DEF EndsAt
    <3>3. QED
      BY <2>2, <2>7, <3>1, <3>2
  <2>8. QED
    BY <1>0, <2>1, <2>3, <2>4, <2>5, <2>6, <2>7 DEF StreamInv, StreamsOrdered, StreamsEnd
<1>6. ASSUME NEW w \in Watcher, Consume(w) PROVE StreamInv'
  <2>1. /\ UNCHANGED <<items, seq, pub, st, kicked>>
        /\ queue[w] \in Seq(Event) /\ queue[w] # <<>> /\ st[w] = "open"
        /\ queue'[w] = Tail(queue[w])
        /\ \A u \in Watcher : u # w => queue'[u] = queue[u]
    BY <1>0, <1>6 DEF Consume, TypeOK, storeVars
  <2>2. Pending(w) \in Seq(Event) /\ Pending(w) # <<>> /\ Pending(w)' = Tail(Pending(w))
    <3>1. CASE pub = NoEvent
      BY <2>1, <3>1 DEF Pending
    <3>2. CASE pub # NoEvent
      <4>1. pub \in Event
        BY <1>0, <3>2 DEF TypeOK
      <4>2. Tail(Append(queue[w], pub)) = Append(Tail(queue[w]), pub)
        BY <2>1, <4>1
      <4>3. QED
        BY <2>1, <3>2, <4>1, <4>2 DEF Pending
    <3>3. QED
      BY <3>1, <3>2
  <2>3. \A u \in Watcher : u # w => Pending(u)' = Pending(u)
    BY <2>1 DEF Pending
  <2>4. IdleQueuesEmpty' /\ PublishedIsApplied'
    BY <2>1 DEF StreamInv, IdleQueuesEmpty, PublishedIsApplied, NotNewer, Exists
  <2>5. QueuedNotNewer'
    <3>1. \A i \in 1..Len(Tail(queue[w])) :
              Tail(queue[w])[i] = queue[w][i+1] /\ i + 1 \in 1..Len(queue[w])
      BY <2>1
    <3>2. \A e : NotNewer(e)' <=> NotNewer(e)
      BY <2>1 DEF NotNewer, Exists
    <3>3. ASSUME NEW u \in Watcher, NEW i \in 1..Len(queue'[u])
          PROVE  NotNewer(queue'[u][i])
      BY <2>1, <3>1 DEF StreamInv, QueuedNotNewer
    <3>4. QED
      BY <3>2, <3>3 DEF QueuedNotNewer
  <2>6. StreamsOrdered'
    <3>1. Ordered(Pending(w)')
      BY <2>2, OrderedTail DEF StreamInv, StreamsOrdered
    <3>2. \A u \in Watcher : u # w => Ordered(Pending(u)')
      BY <2>3 DEF StreamInv, StreamsOrdered
    <3>3. QED
      BY <3>1, <3>2 DEF StreamsOrdered, Ordered
  <2>7. StreamsEnd'
    <3>1. ~kicked[w] => EndsAt(Pending(w)', items)
      BY <2>2, EndsAtTail DEF StreamInv, StreamsEnd
    <3>2. \A u \in Watcher : u # w /\ ~kicked[u] => EndsAt(Pending(u)', items)
      BY <2>3 DEF StreamInv, StreamsEnd
    <3>3. QED
      BY <2>1, <3>1, <3>2 DEF StreamsEnd
  <2>8. QED
    BY <1>0, <2>4, <2>5, <2>6, <2>7 DEF StreamInv
<1>7. ASSUME NEW w \in Watcher, NEW next \in {"backoff", "done"}, Leave(w, next)
      PROVE  StreamInv'
  <2>1. /\ UNCHANGED <<items, seq, pub>>
        /\ queue'[w] = <<>> /\ ~kicked'[w]
        /\ \A u \in Watcher : u # w => /\ queue'[u] = queue[u]
                                       /\ st'[u] = st[u] /\ kicked'[u] = kicked[u]
    BY <1>0, <1>7 DEF Leave, TypeOK, storeVars
  <2>2. \A u \in Watcher : u # w => Pending(u)' = Pending(u)
    BY <2>1 DEF Pending
  <2>3. /\ Pending(w)' \in {<<>>, Append(<<>>, pub)}
        /\ Pending(w)' = Append(<<>>, pub) => pub # NoEvent /\ pub \in Event
    BY <1>0, <2>1 DEF Pending, TypeOK
  <2>4. /\ Ordered(<<>>) /\ EndsAt(<<>>, items) /\ <<>> \in Seq(Event)
        /\ 1..Len(<<>>) = {}
    BY DEF Ordered, EndsAt
  <2>5. Ordered(Pending(w)')
    <3>1. ASSUME pub \in Event PROVE Ordered(Append(<<>>, pub))
      BY <2>4, <3>1, OrderedAppend
    <3>2. QED
      BY <2>3, <2>4, <3>1
  <2>6. EndsAt(Pending(w)', items)
    <3>1. ASSUME pub # NoEvent, pub \in Event PROVE EndsAt(Append(<<>>, pub), items)
      <4>1. items[pub.key] = Outcome(pub) /\ pub.key \in Key
        BY <3>1 DEF StreamInv, PublishedIsApplied, Event
      <4>2. [items EXCEPT ![pub.key] = Outcome(pub)] = items
        BY <1>0, <4>1 DEF TypeOK
      <4>3. EndsAt(Append(<<>>, pub), [items EXCEPT ![pub.key] = Outcome(pub)])
        BY <1>0, <2>4, <3>1, EndsAtAppend DEF TypeOK
      <4>4. QED
        BY <4>2, <4>3
    <3>2. QED
      BY <2>3, <2>4, <3>1
  <2>7. IdleQueuesEmpty' /\ PublishedIsApplied'
    BY <2>1 DEF StreamInv, IdleQueuesEmpty, PublishedIsApplied, NotNewer, Exists
  <2>8. QueuedNotNewer'
    BY <2>1 DEF StreamInv, QueuedNotNewer, NotNewer, Exists
  <2>9. StreamsOrdered'
    BY <2>2, <2>5 DEF StreamInv, StreamsOrdered, Ordered
  <2>10. StreamsEnd'
    <3>1. \A u \in Watcher : u # w /\ ~kicked'[u] => EndsAt(Pending(u)', items)
      BY <2>1, <2>2 DEF StreamInv, StreamsEnd
    <3>2. QED
      BY <2>1, <2>6, <3>1 DEF StreamsEnd
  <2>11. QED
    BY <1>0, <2>7, <2>8, <2>9, <2>10 DEF StreamInv
<1>8. ASSUME UNCHANGED <<items, seq, pub, queue, kicked>>,
             \A w \in Watcher : st[w] = "open" => st'[w] = "open"
      PROVE  StreamInv'
  <2>1. \A w \in Watcher : Pending(w)' = Pending(w)
    BY <1>8 DEF Pending
  <2>2. StreamsOrdered' /\ StreamsEnd'
    BY <1>8, <2>1 DEF StreamInv, StreamsOrdered, StreamsEnd, Ordered
  <2>3. QED
    BY <1>0, <1>8, <2>2
    DEF StreamInv, IdleQueuesEmpty, PublishedIsApplied, QueuedNotNewer, NotNewer, Exists
<1>9. ASSUME NEW w \in Watcher,
             List(w) \/ WatchCheck(w) \/ WatchGone(w) \/ WatchSubscribe(w) \/ Retry(w)
      PROVE  StreamInv'
  <2>1. UNCHANGED <<items, seq, pub, queue, kicked>>
    BY <1>9 DEF List, WatchCheck, WatchGone, WatchSubscribe, Retry, storeVars
  <2>2. \A u \in Watcher : st[u] = "open" => st'[u] = "open"
    BY <1>0, <1>9 DEF TypeOK, List, WatchCheck, WatchGone, WatchSubscribe, Retry
  <2>3. QED
    BY <1>8, <2>1, <2>2
<1>10. ASSUME NEW c \in Client, PutRejected(c) \/ \E k \in Key : Get(c, k)
       PROVE  StreamInv'
  BY <1>8, <1>10 DEF PutRejected, Get, storeVars, watchVars
<1>11. CASE UNCHANGED vars
  BY <1>8, <1>11 DEF vars, storeVars, watchVars
<1>12. QED
  BY <1>1, <1>2, <1>3, <1>4, <1>5, <1>6, <1>7, <1>9, <1>10, <1>11
  DEF Next, WriterStep, WatchEnd, WatchCancel

\* The inductive invariant of the streams holds in every reachable state.
LEMMA StreamInvariant == Spec => []StreamInv
<1>1. Init => StreamInv
  BY StreamInvInit
<1>2. StreamInv /\ [Next]_vars => StreamInv'
  BY StreamInvStep
<1>3. QED
  BY <1>1, <1>2, PTL DEF Spec

(***************************************************************************)
(* What a watcher that has not been kicked will see last of a resource is  *)
(* the state the resource has in the store.                                *)
(***************************************************************************)
THEOREM StreamsKeepUp == Spec => []StreamEndsAtStore
<1>1. StreamInv => StreamEndsAtStore
  BY DEF StreamInv, StreamsEnd, EndsAt, StreamEndsAtStore, Registered
<1>2. QED
  BY <1>1, StreamInvariant, PTL

(***************************************************************************)
(* No watcher, kicked or not, sees a resource go back to an older version. *)
(***************************************************************************)
THEOREM StreamsAdvance == Spec => []VersionsAdvance
<1>1. StreamInv => VersionsAdvance
  BY DEF StreamInv, StreamsOrdered, Ordered, MayFollow, VersionsAdvance, Registered
<1>2. QED
  BY <1>1, StreamInvariant, PTL

-----------------------------------------------------------------------------
(***************************************************************************)
(* The web UI's client is one of the watchers module Store speaks of, so   *)
(* that what is shown above holds of the composition too.                  *)
(***************************************************************************)

\* A step of the composition is a step of the store or leaves it alone.
LEMMA SyncStepIsStoreStep == [SyncNext]_syncVars => [Next]_vars
<1> SUFFICES ASSUME [SyncNext]_syncVars PROVE [Next]_vars
  OBVIOUS
<1>1. CASE OthersStep
  BY <1>1 DEF OthersStep, Next
<1>2. ASSUME NEW w \in Watcher, SyncStep(w) PROVE Next
  <2>1. \/ List(w) \/ WatchCheck(w) \/ WatchGone(w) \/ WatchSubscribe(w)
        \/ Consume(w) \/ Retry(w)
        \/ WatchEnd(w, "done") \/ WatchEnd(w, "backoff")
    BY <1>2 DEF SyncStep, SyncList, SyncWatch, SyncSubscribed, SyncEvent,
                SyncStreamEnd, SyncStreamError, SyncRetry
  <2>2. QED
    BY <2>1 DEF Next
<1>3. ASSUME NEW w \in Watcher, SyncCancel(w) PROVE Next
  BY <1>3 DEF SyncCancel, Next
<1>4. CASE UNCHANGED syncVars
  BY <1>4 DEF syncVars
<1>5. QED
  BY <1>1, <1>2, <1>3, <1>4 DEF SyncNext

(***************************************************************************)
(* The composition of the store with sync.ts implements the store: listing *)
(* again, broken streams and cancellations are behaviour it allows for.    *)
(***************************************************************************)
THEOREM ImplementsStore == SyncSpec => Spec
<1>1. SyncInit => Init
  BY DEF SyncInit
<1>2. QED
  BY <1>1, SyncStepIsStoreStep, PTL DEF SyncSpec, Spec

(***************************************************************************)
(* With the web UI among the watchers no accepted update is based on a     *)
(* stale copy, and every stream still ends at the store's state and never  *)
(* goes back.                                                              *)
(***************************************************************************)
THEOREM StoreSound ==
    SyncSpec => [](TypeOK /\ VersionIdentifiesContent /\ StreamEndsAtStore /\ VersionsAdvance)
  BY ImplementsStore, TypeCorrect, NoLostUpdate, StreamsKeepUp, StreamsAdvance, PTL

(***************************************************************************)
(* The array of sync.ts is well-formed after an event of the store.        *)
(***************************************************************************)
LEMMA AfterEventType ==
    ASSUME SyncTypeOK, NEW w \in Watcher, NEW e \in Event
    PROVE  ViewAfter(w, e) \in [Key -> Item \cup {Absent}] /\ DupAfter(w, e) \in SUBSET Key
<1>1. e.key \in Key /\ Outcome(e) \in Item \cup {Absent}
  BY DEF Event, Outcome
<1>2. QED
  BY <1>1 DEF SyncTypeOK, ViewAfter, DupAfter, Known

\* Every step of the composition keeps its variables in their types.
LEMMA SyncTypeStep == SyncTypeOK /\ [SyncNext]_syncVars => SyncTypeOK'
<1> SUFFICES ASSUME SyncTypeOK, [SyncNext]_syncVars PROVE SyncTypeOK'
  OBVIOUS
<1>1. TypeOK'
  BY SyncStepIsStoreStep, TypeStep DEF SyncTypeOK
<1>2. CASE OthersStep
  BY <1>1, <1>2 DEF OthersStep, clientVars, SyncTypeOK
<1>3. ASSUME NEW w \in Watcher, SyncStep(w) PROVE SyncTypeOK'
  <2>1. CASE SyncList(w)
    BY <1>1, <2>1 DEF SyncList, SyncTypeOK, TypeOK
  <2>2. CASE SyncEvent(w)
    <3>1. queue[w] \in Seq(Event) /\ queue[w] # <<>>
      BY <2>2 DEF SyncEvent, Consume, SyncTypeOK, TypeOK
    <3>2. Head(queue[w]) \in Event
      BY <3>1
    <3>3. QED
      BY <1>1, <2>2, <3>2, AfterEventType DEF SyncEvent, SyncTypeOK, genVars
  <2>3. CASE SyncSubscribed(w)
    BY <1>1, <2>3 DEF SyncSubscribed, clientVars, SyncTypeOK
  <2>4. CASE SyncWatch(w) \/ SyncStreamEnd(w) \/ SyncStreamError(w) \/ SyncRetry(w)
    BY <1>1, <2>4 DEF SyncWatch, SyncStreamEnd, SyncStreamError, SyncRetry,
                      clientVars, genVars, SyncTypeOK
  <2>5. QED
    BY <1>3, <2>1, <2>2, <2>3, <2>4 DEF SyncStep
<1>4. ASSUME NEW w \in Watcher, SyncCancel(w) PROVE SyncTypeOK'
  BY <1>1, <1>4 DEF SyncCancel, clientVars, genVars, SyncTypeOK
<1>5. CASE UNCHANGED syncVars
  BY <1>1, <1>5 DEF syncVars, clientVars, genVars, SyncTypeOK
<1>6. QED
  BY <1>2, <1>3, <1>4, <1>5 DEF SyncNext

(***************************************************************************)
(* The composition's variables keep their types: the array of sync.ts only *)
(* ever holds resources as the store had them.                             *)
(***************************************************************************)
THEOREM SyncTypeCorrect == SyncSpec => []SyncTypeOK
<1>1. SyncInit => SyncTypeOK
  BY TypeInit DEF SyncInit, SyncTypeOK
<1>2. SyncTypeOK /\ [SyncNext]_syncVars => SyncTypeOK'
  BY SyncTypeStep
<1>3. QED
  BY <1>1, <1>2, PTL DEF SyncSpec

-----------------------------------------------------------------------------
(***************************************************************************)
(* Why copy and events add up.  That a resource without an event on its    *)
(* way is shown as it is does not survive an event by itself: sync.ts      *)
(* ignores MODIFIED for a resource it does not know and pushes a duplicate *)
(* for an ADDED one it knows.  So the events on their way must fit the     *)
(* copy: the first one of a resource is ADDED exactly if the copy does not *)
(* have it, and after that ADDED comes exactly after DELETED.              *)
(***************************************************************************)
IsFirst(s, i) == \A j \in 1..(i-1) : s[j].key # s[i].key

Adjacent(s, i, j) ==
    i < j /\ s[i].key = s[j].key /\ \A n \in (i+1)..(j-1) : s[n].key # s[i].key

FitsCopy(s, v) ==
    /\ \A i \in 1..Len(s) :
           IsFirst(s, i) => (s[i].type = "ADDED" <=> v[s[i].key] = Absent)
    /\ \A i, j \in 1..Len(s) :
           Adjacent(s, i, j) => (s[j].type = "ADDED" <=> s[i].type = "DELETED")

\* What no event of s is about is in the copy v as it is in the map m.
RestShown(s, v, m) ==
    \A k \in Key : (\A i \in 1..Len(s) : s[i].key # k) => v[k] = m[k]

\* A list that is not outdated is the store, with no event on its way.
ListIsCurrent(w) ==
    /\ listGen[w] <= gen
    /\ st[w] \in {"listed", "checked"} /\ listGen[w] = gen
           => view[w] = items /\ dup[w] = {} /\ pub = NoEvent

HandoverAddsUp(w) ==
    CleanHandover(w) => /\ dup[w] = {}
                        /\ FitsCopy(Pending(w), view[w])
                        /\ RestShown(Pending(w), view[w], items)

CopyInv ==
    /\ SyncTypeOK
    /\ StreamInv
    /\ \A w \in Watcher : ListIsCurrent(w) /\ HandoverAddsUp(w)

\* Only a deletion leaves a resource absent.
LEMMA OutcomeAbsent ==
    ASSUME NEW e \in Event
    PROVE  /\ e.key \in Key /\ Outcome(e) \in Item \cup {Absent}
           /\ Outcome(e) = Absent <=> e.type = "DELETED"
<1>1. e.key \in Key /\ e.item \in Item
  BY DEF Event
<1>2. e.item # Absent
  BY <1>1, ValAssumption DEF Item, Absent
<1>3. QED
  BY <1>1, <1>2 DEF Outcome

\* The event of a change fits behind a stream that ends at the store: it is
\* ADDED exactly if the resource was not there.
LEMMA FitsAppend ==
    ASSUME NEW s \in Seq(Event), NEW e \in Event,
           NEW m \in [Key -> Item \cup {Absent}], NEW v,
           FitsCopy(s, v), RestShown(s, v, m), EndsAt(s, m),
           e.type = "ADDED" <=> m[e.key] = Absent
    PROVE  /\ FitsCopy(Append(s, e), v)
           /\ RestShown(Append(s, e), v, [m EXCEPT ![e.key] = Outcome(e)])
<1> DEFINE t == Append(s, e)
           l == Len(s)
<1>1. /\ Len(t) = l + 1 /\ l \in Nat
      /\ \A i \in 1..l : t[i] = s[i]
      /\ t[l+1] = e
  OBVIOUS
<1>2. e.key \in Key /\ \A i \in 1..l : s[i] \in Event
  BY OutcomeAbsent
<1> HIDE DEF t
<1>3. ASSUME NEW i \in 1..Len(t), IsFirst(t, i)
      PROVE  t[i].type = "ADDED" <=> v[t[i].key] = Absent
  <2>1. CASE i = l + 1
    <3>1. \A j \in 1..l : s[j].key # e.key
      <4> SUFFICES ASSUME NEW j \in 1..l PROVE s[j].key # e.key
        OBVIOUS
      <4>1. j \in 1..(i - 1)
        BY <1>1, <2>1
      <4>2. QED
        BY <1>1, <1>3, <2>1, <4>1 DEF IsFirst
    <3>2. v[e.key] = m[e.key]
      BY <1>2, <3>1 DEF RestShown
    <3>3. QED
      BY <1>1, <2>1, <3>2
  <2>2. CASE i \in 1..l
    <3>1. \A j \in 1..(i-1) : j \in 1..l
      BY <1>1, <2>2
    <3>2. IsFirst(s, i)
      BY <1>1, <1>3, <2>2, <3>1 DEF IsFirst
    <3>3. QED
      BY <1>1, <2>2, <3>2 DEF FitsCopy
  <2>3. QED
    BY <1>1, <2>1, <2>2
<1>4. ASSUME NEW i \in 1..Len(t), NEW j \in 1..Len(t), Adjacent(t, i, j)
      PROVE  t[j].type = "ADDED" <=> t[i].type = "DELETED"
  <2>1. i \in 1..l /\ i < j
    BY <1>1, <1>4 DEF Adjacent
  <2>2. CASE j = l + 1
    <3>1. s[i].key = e.key
      BY <1>1, <1>4, <2>1, <2>2 DEF Adjacent
    <3>2. ASSUME NEW n \in (i+1)..l PROVE s[n].key # s[i].key
      <4>1. n \in (i+1)..(j-1) /\ n \in 1..l
        BY <1>1, <2>1, <2>2
      <4>2. QED
        BY <1>1, <1>4, <2>1, <4>1 DEF Adjacent
    <3>3. m[e.key] = Outcome(s[i])
      BY <2>1, <3>1, <3>2 DEF EndsAt, IsLast
    <3>4. QED
      BY <1>1, <1>2, <2>1, <2>2, <3>3, OutcomeAbsent
  <2>3. CASE j \in 1..l
    <3>1. \A n \in (i+1)..(j-1) : n \in 1..l
      BY <1>1, <2>1, <2>3
    <3>2. Adjacent(s, i, j)
      BY <1>1, <1>4, <2>1, <2>3, <3>1 DEF Adjacent
    <3>3. QED
      BY <1>1, <2>1, <2>3, <3>2 DEF FitsCopy
  <2>4. QED
    BY <1>1, <2>2, <2>3
<1>5. ASSUME NEW k \in Key, \A i \in 1..Len(t) : t[i].key # k
      PROVE  v[k] = [m EXCEPT ![e.key] = Outcome(e)][k]
  <2>1. k # e.key
    BY <1>1, <1>5
  <2>2. \A i \in 1..l : s[i].key # k
    BY <1>1, <1>5
  <2>3. QED
    BY <1>2, <2>1, <2>2 DEF RestShown
<1>6. QED
  BY <1>3, <1>4, <1>5 DEF FitsCopy, RestShown, t

\* The first event of a stream that fits is applied as it says, and the rest
\* of the stream fits the copy that results.
LEMMA FitsTail ==
    ASSUME NEW s \in Seq(Event), s # <<>>, NEW m,
           NEW v \in [Key -> Item \cup {Absent}],
           FitsCopy(s, v), RestShown(s, v, m), EndsAt(s, m)
    PROVE  LET e == Head(s)
               u == [v EXCEPT ![e.key] = Outcome(e)]
           IN  /\ e.type = "ADDED" <=> v[e.key] = Absent
               /\ FitsCopy(Tail(s), u)
               /\ RestShown(Tail(s), u, m)
<1> DEFINE e == Head(s)
           u == [v EXCEPT ![e.key] = Outcome(e)]
           t == Tail(s)
           l == Len(t)
<1>1. /\ Len(s) = l + 1 /\ l \in Nat /\ e = s[1] /\ e \in Event
      /\ \A i \in 1..l : t[i] = s[i+1] /\ i + 1 \in 1..Len(s)
      /\ 1 \in 1..Len(s)
      /\ \A i \in 1..Len(s) : s[i] \in Event
  OBVIOUS
<1>2. /\ u[e.key] = Outcome(e)
      /\ \A k \in Key : k # e.key => u[k] = v[k]
      /\ \A i \in 1..Len(s) : s[i].key \in Key
  BY <1>1, OutcomeAbsent
<1> HIDE DEF e, u, t
<1>3. e.type = "ADDED" <=> v[e.key] = Absent
  <2>1. IsFirst(s, 1)
    BY DEF IsFirst
  <2>2. QED
    BY <1>1, <2>1 DEF FitsCopy
<1>4. ASSUME NEW i \in 1..l, IsFirst(t, i)
      PROVE  t[i].type = "ADDED" <=> u[t[i].key] = Absent
  <2>1. ASSUME NEW j \in 2..i PROVE s[j].key # t[i].key
    <3>1. j - 1 \in 1..(i-1) /\ j - 1 \in 1..l /\ (j - 1) + 1 = j
      BY <1>1
    <3>2. t[j-1].key # t[i].key /\ t[j-1] = s[j]
      BY <1>1, <1>4, <3>1 DEF IsFirst
    <3>3. QED
      BY <3>2
  <2>2. CASE t[i].key = e.key
    <3>1. Adjacent(s, 1, i+1)
      <4>1. 1 < i + 1 /\ s[1].key = s[i+1].key
        BY <1>1, <2>2
      <4>2. (1+1)..((i+1)-1) = 2..i
        BY <1>1
      <4>3. QED
        BY <1>1, <2>1, <2>2, <4>1, <4>2 DEF Adjacent
    <3>2. t[i].type = "ADDED" <=> e.type = "DELETED"
      BY <1>1, <3>1 DEF FitsCopy
    <3>3. QED
      BY <1>1, <1>2, <2>2, <3>2, OutcomeAbsent
  <2>3. CASE t[i].key # e.key
    <3>1. ASSUME NEW j \in 1..((i+1)-1) PROVE s[j].key # s[i+1].key
      <4>1. j = 1 \/ j \in 2..i
        BY <1>1
      <4>2. QED
        BY <1>1, <2>1, <2>3, <4>1
    <3>2. IsFirst(s, i+1)
      BY <3>1 DEF IsFirst
    <3>3. QED
      BY <1>1, <1>2, <2>3, <3>2 DEF FitsCopy
  <2>4. QED
    BY <2>2, <2>3
<1>5. ASSUME NEW i \in 1..l, NEW j \in 1..l, Adjacent(t, i, j)
      PROVE  t[j].type = "ADDED" <=> t[i].type = "DELETED"
  <2>1. ASSUME NEW n \in ((i+1)+1)..((j+1)-1) PROVE s[n].key # s[i+1].key
    <3>1. n - 1 \in (i+1)..(j-1) /\ n - 1 \in 1..l /\ (n - 1) + 1 = n
      BY <1>1
    <3>2. t[n-1].key # t[i].key /\ t[n-1] = s[n]
      BY <1>1, <1>5, <3>1 DEF Adjacent
    <3>3. QED
      BY <1>1, <3>2
  <2>2. Adjacent(s, i+1, j+1)
    <3>1. i + 1 < j + 1
      BY <1>1, <1>5 DEF Adjacent
    <3>2. s[i+1].key = s[j+1].key
      BY <1>1, <1>5 DEF Adjacent
    <3>3. QED
      BY <2>1, <3>1, <3>2 DEF Adjacent
  <2>3. i + 1 \in 1..Len(s) /\ j + 1 \in 1..Len(s) /\ t[i] = s[i+1] /\ t[j] = s[j+1]
    BY <1>1
  <2>4. s[j+1].type = "ADDED" <=> s[i+1].type = "DELETED"
    BY <2>2, <2>3 DEF FitsCopy
  <2>5. QED
    BY <2>3, <2>4
<1>6. ASSUME NEW k \in Key, \A i \in 1..l : t[i].key # k PROVE u[k] = m[k]
  <2>1. ASSUME NEW i \in 2..Len(s) PROVE s[i].key # k
    <3>1. i - 1 \in 1..l /\ (i - 1) + 1 = i
      BY <1>1
    <3>2. QED
      BY <1>1, <1>6, <3>1
  <2>2. CASE k = e.key
    <3>1. \A i \in (1+1)..Len(s) : s[i].key # s[1].key
      BY <1>1, <2>1, <2>2
    <3>2. QED
      BY <1>1, <1>2, <2>2, <3>1 DEF EndsAt, IsLast
  <2>3. CASE k # e.key
    <3>1. \A i \in 1..Len(s) : i = 1 \/ i \in 2..Len(s)
      BY <1>1
    <3>2. QED
      BY <1>1, <1>2, <2>1, <2>3, <3>1 DEF RestShown
  <2>4. QED
    BY <2>2, <2>3
<1>7. QED
  BY <1>3, <1>4, <1>5, <1>6 DEF FitsCopy, RestShown, e, u, t

\* A step that changes neither the store nor the watch nor the copy of a
\* watcher concerns it not.
LEMMA NotConcerned ==
    ASSUME NEW w \in Watcher, ListIsCurrent(w), HandoverAddsUp(w),
           UNCHANGED <<items, pub, gen, st[w], queue[w], kicked[w], view[w], dup[w],
                       listGen[w], openGen[w]>>
    PROVE  ListIsCurrent(w)' /\ HandoverAddsUp(w)'
<1>1. Pending(w)' = Pending(w)
  BY DEF Pending
<1>2. ListIsCurrent(w)'
  BY DEF ListIsCurrent
<1>3. HandoverAddsUp(w)'
  BY <1>1 DEF HandoverAddsUp, CleanHandover, FitsCopy, RestShown, IsFirst, Adjacent
<1>4. QED
  BY <1>2, <1>3

\* A change of the store outdates the lists; its event, ADDED exactly if the
\* resource is new, fits behind every stream.
LEMMA CopyInvChange ==
    ASSUME CopyInv, SyncTypeOK', StreamInv', NEW e \in Event,
           pub = NoEvent, pub' = e,
           items' = [items EXCEPT ![e.key] = Outcome(e)],
           UNCHANGED <<watchVars, clientVars, listGen, openGen>>,
           gen' = IF items' # items THEN gen + 1 ELSE gen,
           e.type = "ADDED" <=> ~Exists(e.key),
           e.type = "DELETED" \/ e.item.rv = seq + 1
    PROVE  CopyInv'
<1> USE DEF watchVars, clientVars
<1>1. TypeOK /\ SyncTypeOK /\ VersionsInUse /\ gen \in Nat
  BY DEF CopyInv, StreamInv, VersionInv, SyncTypeOK
<1>2. e.key \in Key /\ e.item \in Item /\ e # NoEvent
  BY DEF Event, NoEvent
<1>3. items'[e.key] # items[e.key]
  <2>1. items'[e.key] = Outcome(e)
    BY <1>1, <1>2 DEF TypeOK
  <2>2. CASE e.type = "DELETED"
    BY <2>1, <2>2 DEF Outcome, Exists
  <2>3. CASE e.type # "DELETED"
    <3>1. items'[e.key].rv = seq + 1
      BY <2>1, <2>3 DEF Outcome
    <3>2. items[e.key].rv <= seq /\ items[e.key].rv \in Nat /\ seq \in Nat
      BY <1>1, <1>2 DEF VersionsInUse, TypeOK, Item, Absent
    <3>3. QED
      BY <3>1, <3>2
  <2>4. QED
    BY <2>2, <2>3
<1>4. gen' = gen + 1
  BY <1>3
<1>5. ASSUME NEW w \in Watcher PROVE ListIsCurrent(w)' /\ HandoverAddsUp(w)'
  <2>1. listGen[w] \in Nat /\ ListIsCurrent(w) /\ HandoverAddsUp(w)
    BY <1>1 DEF CopyInv, SyncTypeOK
  <2>2. ListIsCurrent(w)'
    BY <1>1, <1>4, <2>1 DEF ListIsCurrent
  <2>3. Pending(w) = queue[w] /\ Pending(w)' = Append(queue[w], e) /\ queue[w] \in Seq(Event)
    BY <1>1, <1>2 DEF Pending, TypeOK
  <2>4. ASSUME CleanHandover(w)
        PROVE  /\ dup[w] = {}
               /\ FitsCopy(Append(queue[w], e), view[w])
               /\ RestShown(Append(queue[w], e), view[w], items')
    <3>1. /\ dup[w] = {} /\ FitsCopy(queue[w], view[w])
          /\ RestShown(queue[w], view[w], items)
      BY <2>1, <2>3, <2>4 DEF HandoverAddsUp
    <3>2. EndsAt(queue[w], items)
      BY <2>3, <2>4 DEF CleanHandover, CopyInv, StreamInv, StreamsEnd
    <3>3. items \in [Key -> Item \cup {Absent}] /\ (e.type = "ADDED" <=> items[e.key] = Absent)
      BY <1>1 DEF TypeOK, Exists
    <3>4. QED
      BY <2>3, <3>1, <3>2, <3>3, FitsAppend
  <2>5. HandoverAddsUp(w)'
    BY <2>3, <2>4 DEF HandoverAddsUp, CleanHandover
  <2>6. QED
    BY <2>2, <2>5
<1>6. QED
  BY <1>5 DEF CopyInv

\* Every step of the composition preserves the invariant on copies.
LEMMA CopyInvStep == CopyInv /\ [SyncNext]_syncVars => CopyInv'
<1> SUFFICES ASSUME CopyInv, [SyncNext]_syncVars PROVE CopyInv'
  OBVIOUS
<1> USE DEF storeVars, watchVars, clientVars, genVars
<1>0. /\ TypeOK /\ SyncTypeOK /\ SyncTypeOK' /\ StreamInv /\ StreamInv'
      /\ gen \in Nat /\ VersionsInUse
  BY SyncStepIsStoreStep, SyncTypeStep, StreamInvStep
  DEF CopyInv, SyncTypeOK, StreamInv, VersionInv
<1>a. ASSUME \A w \in Watcher : ListIsCurrent(w)' /\ HandoverAddsUp(w)' PROVE CopyInv'
  BY <1>0, <1>a DEF CopyInv
<1>b. ASSUME UNCHANGED <<items, pub, gen, st, queue, kicked, view, dup, listGen, openGen>>
      PROVE  CopyInv'
  BY <1>a, <1>b, NotConcerned DEF CopyInv
<1>1. CASE OthersStep
  <2>1. /\ gen' = IF items' # items THEN gen + 1 ELSE gen
        /\ UNCHANGED <<clientVars, listGen, openGen>>
    BY <1>1 DEF OthersStep
  <2>2. ASSUME NEW type \in {"ADDED", "MODIFIED"}, NEW k \in Key, NEW v \in Val,
               Unlocked, Write(type, k, v), type = "ADDED" <=> ~Exists(k), UNCHANGED watchVars
        PROVE  CopyInv'
    <3> DEFINE e == [type |-> type, key |-> k, item |-> [rv |-> seq + 1, val |-> v]]
    <3>1. e \in Event
      BY <1>0 DEF TypeOK, Event, Item
    <3>2. /\ e.type = type /\ e.key = k /\ e.item.rv = seq + 1 /\ Outcome(e) = e.item
          /\ pub = NoEvent /\ pub' = e
          /\ items' = [items EXCEPT ![k] = e.item]
      BY <2>2 DEF Outcome, Write, Unlocked
    <3> HIDE DEF e
    <3>3. QED
      BY <1>0, <2>1, <2>2, <3>1, <3>2, CopyInvChange
  <2>3. ASSUME NEW k \in Key, NEW v \in Val, Create(k, v) PROVE CopyInv'
    BY <2>2, <2>3 DEF Create
  <2>4. ASSUME NEW k \in Key, NEW v \in Val, Modify(k, v) PROVE CopyInv'
    BY <2>2, <2>4 DEF Modify
  <2>5. ASSUME NEW c \in Client, NEW v \in Val, Put(c, v) PROVE CopyInv'
    <3>1. got[c].key \in Key
      BY <1>0, <2>5 DEF TypeOK, Put, Copy
    <3>2. Unlocked /\ Write("MODIFIED", got[c].key, v) /\ Exists(got[c].key) /\ UNCHANGED watchVars
      BY <2>5 DEF Put
    <3>3. QED
      BY <2>2, <3>1, <3>2
  <2>6. ASSUME NEW k \in Key, Delete(k) PROVE CopyInv'
    <3> DEFINE e == [type |-> "DELETED", key |-> k, item |-> items[k]]
    <3>1. e \in Event /\ Exists(e.key)
      BY <1>0, <2>6 DEF TypeOK, Event, Delete, Exists
    <3>2. /\ e.type = "DELETED" /\ pub = NoEvent /\ pub' = e
          /\ items' = [items EXCEPT ![e.key] = Outcome(e)] /\ UNCHANGED watchVars
      BY <2>6 DEF Outcome, Delete, Unlocked
    <3> HIDE DEF e
    <3>3. QED
      BY <1>0, <2>1, <3>1, <3>2, CopyInvChange
  <2>7. ASSUME NEW c \in Client, PutRejected(c) \/ \E k \in Key : Get(c, k) PROVE CopyInv'
    BY <1>b, <2>1, <2>7 DEF PutRejected, Get
  <2>8. CASE Emit
    <3>1. /\ pub # NoEvent /\ pub' = NoEvent /\ gen' = gen
          /\ UNCHANGED <<items, st, view, dup, listGen, openGen>>
      BY <2>1, <2>8 DEF Emit
    <3>2. ASSUME NEW w \in Watcher PROVE ListIsCurrent(w)' /\ HandoverAddsUp(w)'
      <4>1. ListIsCurrent(w) /\ HandoverAddsUp(w)
        BY DEF CopyInv
      <4>2. ListIsCurrent(w)'
        BY <3>1, <4>1 DEF ListIsCurrent
      <4>3. ASSUME CleanHandover(w)' PROVE CleanHandover(w) /\ Pending(w)' = Pending(w)
        BY <1>0, <2>8, <3>1, <4>3 DEF CleanHandover, Emit, Registered, Pending, TypeOK
      <4>4. HandoverAddsUp(w)'
        BY <3>1, <4>1, <4>3 DEF HandoverAddsUp
      <4>5. QED
        BY <4>2, <4>4
    <3>3. QED
      BY <1>a, <3>2
  <2>9. QED
    BY <1>1, <2>3, <2>4, <2>5, <2>6, <2>7, <2>8 DEF OthersStep, WriterStep
<1>2. ASSUME NEW w \in Watcher, SyncStep(w) \/ SyncCancel(w) PROVE CopyInv'
  <2>1. UNCHANGED <<items, pub, gen>>
    BY <1>2 DEF SyncStep, SyncList, SyncWatch, SyncSubscribed, SyncEvent, SyncStreamEnd,
                SyncStreamError, SyncRetry, SyncCancel, List, WatchCheck, WatchGone,
                WatchSubscribe, Consume, WatchEnd, WatchCancel, Leave, Retry
  <2>2. ListIsCurrent(w) /\ HandoverAddsUp(w) /\ listGen[w] \in Nat
    BY <1>0 DEF CopyInv, SyncTypeOK
  <2>3. ASSUME NEW u \in Watcher, u # w PROVE ListIsCurrent(u)' /\ HandoverAddsUp(u)'
    <3>1. UNCHANGED <<st[u], queue[u], kicked[u], view[u], dup[u], listGen[u], openGen[u]>>
      <4>0. CASE SyncList(w) \/ SyncWatch(w)
        BY <1>0, <2>3, <4>0 DEF SyncList, SyncWatch, List, WatchCheck, WatchGone, Leave, TypeOK,
           SyncTypeOK
      <4>1. CASE SyncSubscribed(w) \/ SyncEvent(w)
        BY <1>0, <2>3, <4>1 DEF SyncSubscribed, SyncEvent, WatchSubscribe, Consume, TypeOK,
           SyncTypeOK
      <4>2. CASE \/ SyncStreamEnd(w) \/ SyncStreamError(w) \/ SyncRetry(w) \/ SyncCancel(w)
        BY <1>0, <2>3, <4>2 DEF SyncStreamEnd, SyncStreamError, SyncRetry, SyncCancel, WatchEnd,
           WatchCancel, Leave, Retry, TypeOK, SyncTypeOK
      <4>3. QED
        BY <1>2, <4>0, <4>1, <4>2 DEF SyncStep
    <3>2. QED
      BY <2>1, <3>1, NotConcerned DEF CopyInv
  <2>4. CASE SyncList(w)
    <3>1. /\ st'[w] = "listed" /\ view'[w] = items /\ dup'[w] = {} /\ listGen'[w] = gen
          /\ pub = NoEvent
      BY <1>0, <2>4 DEF SyncList, List, Unlocked, TypeOK, SyncTypeOK
    <3>2. ListIsCurrent(w)' /\ HandoverAddsUp(w)'
      BY <1>0, <2>1, <3>1 DEF ListIsCurrent, HandoverAddsUp, CleanHandover
    <3>3. QED
      BY <1>a, <2>3, <3>2
  <2>5. CASE SyncWatch(w)
    <3>1. /\ st[w] = "listed" /\ st'[w] \in {"checked", "backoff"}
          /\ UNCHANGED <<view, dup, listGen>>
      BY <1>0, <2>5 DEF SyncWatch, WatchCheck, WatchGone, TypeOK
    <3>2. ListIsCurrent(w)' /\ HandoverAddsUp(w)'
      BY <2>1, <2>2, <3>1 DEF ListIsCurrent, HandoverAddsUp, CleanHandover
    <3>3. QED
      BY <1>a, <2>3, <3>2
  <2>6. CASE SyncSubscribed(w)
    <3>1. /\ st[w] = "checked" /\ st'[w] = "open" /\ openGen'[w] = gen
          /\ UNCHANGED <<view, dup, listGen, queue, kicked>>
      BY <1>0, <2>6 DEF SyncSubscribed, WatchSubscribe, TypeOK, SyncTypeOK
    <3>2. ListIsCurrent(w)'
      BY <2>1, <2>2, <3>1 DEF ListIsCurrent
    <3>3. ASSUME CleanHandover(w)'
          PROVE  /\ dup[w] = {} /\ view[w] = items /\ Pending(w)' = <<>>
      <4>1. listGen[w] = gen
        BY <3>1, <3>3 DEF CleanHandover
      <4>2. dup[w] = {} /\ view[w] = items /\ pub = NoEvent
        BY <2>2, <3>1, <4>1 DEF ListIsCurrent
      <4>3. queue[w] = <<>>
        BY <1>0, <3>1 DEF StreamInv, IdleQueuesEmpty
      <4>4. QED
        BY <2>1, <3>1, <4>2, <4>3 DEF Pending
    <3>4. FitsCopy(<<>>, view[w]) /\ RestShown(<<>>, items, items)
      BY DEF FitsCopy, RestShown
    <3>5. HandoverAddsUp(w)'
      BY <2>1, <3>1, <3>3, <3>4 DEF HandoverAddsUp
    <3>6. QED
      BY <1>a, <2>3, <3>2, <3>5
  <2>7. CASE SyncEvent(w)
    <3> DEFINE e == Head(queue[w])
    <3>1. /\ st[w] = "open" /\ queue[w] # <<>> /\ queue[w] \in Seq(Event)
          /\ queue'[w] = Tail(queue[w])
          /\ view'[w] = ViewAfter(w, e) /\ dup'[w] = DupAfter(w, e)
          /\ UNCHANGED <<st, kicked, listGen, openGen>>
      BY <1>0, <2>7 DEF SyncEvent, Consume, TypeOK, SyncTypeOK
    <3>2. /\ Pending(w) \in Seq(Event) /\ Pending(w) # <<>>
          /\ Pending(w)' = Tail(Pending(w)) /\ Head(Pending(w)) = e
      <4>1. CASE pub = NoEvent
        BY <2>1, <3>1, <4>1 DEF Pending
      <4>2. CASE pub # NoEvent
        <5>1. pub \in Event
          BY <1>0, <4>2 DEF TypeOK
        <5>2. /\ Tail(Append(queue[w], pub)) = Append(Tail(queue[w]), pub)
              /\ Head(Append(queue[w], pub)) = Head(queue[w])
              /\ Append(queue[w], pub) \in Seq(Event) /\ Append(queue[w], pub) # <<>>
          BY <3>1, <5>1
        <5>3. QED
          BY <2>1, <3>1, <4>2, <5>2 DEF Pending
      <4>3. QED
        BY <4>1, <4>2
    <3> HIDE DEF e
    <3>3. ListIsCurrent(w)'
      BY <2>1, <2>2, <3>1 DEF ListIsCurrent
    <3>4. ASSUME CleanHandover(w)
          PROVE  /\ DupAfter(w, e) = {}
                 /\ FitsCopy(Tail(Pending(w)), ViewAfter(w, e))
                 /\ RestShown(Tail(Pending(w)), ViewAfter(w, e), items)
      <4>1. /\ dup[w] = {} /\ FitsCopy(Pending(w), view[w])
            /\ RestShown(Pending(w), view[w], items)
        BY <2>2, <3>4 DEF HandoverAddsUp
      <4>2. EndsAt(Pending(w), items)
        BY <1>0, <3>4 DEF CleanHandover, StreamInv, StreamsEnd
      <4>3. view[w] \in [Key -> Item \cup {Absent}]
        BY <1>0 DEF SyncTypeOK
      <4>4. LET u == [view[w] EXCEPT ![e.key] = Outcome(e)]
            IN  /\ e.type = "ADDED" <=> view[w][e.key] = Absent
                /\ FitsCopy(Tail(Pending(w)), u)
                /\ RestShown(Tail(Pending(w)), u, items)
        BY <3>2, <4>1, <4>2, <4>3, FitsTail
      <4>5. ViewAfter(w, e) = [view[w] EXCEPT ![e.key] = Outcome(e)]
        BY <4>4 DEF ViewAfter, Known
      <4>6. DupAfter(w, e) = {}
        BY <4>1, <4>4 DEF DupAfter, Known
      <4>7. QED
        BY <4>4, <4>5, <4>6
    <3>5. HandoverAddsUp(w)'
      BY <2>1, <3>1, <3>2, <3>4 DEF HandoverAddsUp, CleanHandover
    <3>6. QED
      BY <1>a, <2>3, <3>3, <3>5
  <2>8. CASE SyncStreamEnd(w) \/ SyncStreamError(w) \/ SyncRetry(w) \/ SyncCancel(w)
    <3>1. st'[w] \in {"done", "backoff", "list"} /\ UNCHANGED listGen
      BY <1>0, <2>8 DEF SyncStreamEnd, SyncStreamError, SyncRetry, SyncCancel,
                        WatchEnd, WatchCancel, Leave, Retry, TypeOK
    <3>2. ListIsCurrent(w)' /\ HandoverAddsUp(w)'
      BY <2>1, <2>2, <3>1 DEF ListIsCurrent, HandoverAddsUp, CleanHandover
    <3>3. QED
      BY <1>a, <2>3, <3>2
  <2>9. QED
    BY <1>2, <2>4, <2>5, <2>6, <2>7, <2>8 DEF SyncStep
<1>3. CASE UNCHANGED syncVars
  BY <1>3, <1>b DEF syncVars, vars
<1>4. QED
  BY <1>1, <1>2, <1>3 DEF SyncNext

(***************************************************************************)
(* After a clean handover the copy of sync.ts and the events on their way  *)
(* add up to the store, through any sequence of creations, changes and     *)
(* deletions, and no resource is ever shown twice.                         *)
(***************************************************************************)
THEOREM CopyFollowsStore == SyncSpec => []CopyAddsUp
<1>1. SyncInit => CopyInv
  <2> SUFFICES ASSUME SyncInit PROVE CopyInv
    OBVIOUS
  <2>1. SyncTypeOK /\ StreamInv
    BY TypeInit, StreamInvInit DEF SyncInit, SyncTypeOK
  <2>2. \A w \in Watcher : st[w] = "list" /\ listGen[w] = 0 /\ gen = 0
    BY DEF SyncInit, Init
  <2>3. QED
    BY <2>1, <2>2 DEF CopyInv, ListIsCurrent, HandoverAddsUp, CleanHandover
<1>2. CopyInv /\ [SyncNext]_syncVars => CopyInv'
  BY CopyInvStep
<1>3. CopyInv => CopyAddsUp
  BY DEF CopyInv, HandoverAddsUp, RestShown, CopyAddsUp
<1>4. QED
  BY <1>1, <1>2, <1>3, PTL DEF SyncSpec
=============================================================================
