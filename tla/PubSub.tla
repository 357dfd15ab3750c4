------------------------------- MODULE PubSub -------------------------------
(***************************************************************************)
(* pkg/pubsub/pubsub.go: the in-process event bus behind every watch.      *)
(*                                                                         *)
(* A PubSub holds a map of watchers under a sync.RWMutex.  Publish keeps   *)
(* the read lock while it offers its event to every subscribed watcher, so *)
(* one slow consumer makes it wait; after 20 seconds it gives up on that   *)
(* watcher and stops it from another goroutine.  Stop and Subscribe take   *)
(* the write lock.  Go's RWMutex is modelled with its writer preference:   *)
(* `writer' is the goroutine that has called Lock, no reader enters while  *)
(* it is set, and its critical section runs once the readers have left.    *)
(* The critical sections of Subscribe and Stop never block, so each is one *)
(* step.  Map iteration order is arbitrary: a publisher serves the rest of *)
(* its snapshot `todo' in any order.                                       *)
(***************************************************************************)
EXTENDS Naturals, Sequences

\* The events of a stream.
Elements(s) == {s[i] : i \in DOMAIN s}

CONSTANTS Publisher,   \* goroutines that call Publish
          Watcher,     \* watcher identities (PubSub.seq hands out fresh ones)
          Selector,    \* filters passed to Subscribe
          Object,      \* objects events are about
          Wild,        \* the zero value of a Selector field: matches anything
          Cap,         \* capacity of a watcher's channel (10 in the code)
          Record,      \* TRUE: number the events and keep histories of them;
                       \* FALSE: publishers go on forever, nothing is recorded
          MaxEvents,   \* bound: events each publisher publishes when recording
          MaxStops     \* bound: pending Stop calls counted per watcher (a
                       \* surplus call finds w.ch nil and does nothing)

(***************************************************************************)
(* Selectors and objects have the fields isSubscribed compares; an object  *)
(* also says whether meta.Accessor accepts it and whether the event is an  *)
(* error event.                                                            *)
(***************************************************************************)
SelField == {"Type", "Name", "Namespace"}

ASSUME CapAssumption == Cap \in Nat \ {0}
ASSUME BoundsAssumption == MaxEvents \in Nat /\ MaxStops \in Nat \ {0}
ASSUME RecordAssumption == Record \in BOOLEAN
ASSUME ObjectAssumption ==
    \A o \in Object : o.error \in BOOLEAN /\ o.meta \in BOOLEAN

NoObject == [error |-> FALSE, meta |-> FALSE]   \* before the first Publish
Event == [from: Publisher, n: Nat, obj: Object \cup {NoObject}]

VARIABLES watchers,   \* the watchers map: set of registered watchers
          writer,     \* the pending holder of the write lock, or NoWriter
          filter,     \* filter[w]: the selector w was created with
          wch,        \* wch[w]: the field w.ch is not nil
          chan,       \* chan[w]: the channel itself: none, open or closed
          buf,        \* buf[w]: the events in the channel's buffer
          pc,         \* pc[p]: idle, rlock (calling RLock) or send
          evt,        \* evt[p]: number of events p has published
          obj,        \* obj[p]: the object of p's current event
          todo,       \* todo[p]: subscribed watchers p has not served yet
          stops,      \* stops[w]: Stop calls that have not locked yet
          closer,     \* closer[w]: progress of the Stop that took w.ch
          ctx,        \* ctx[w]: the context goroutine of Subscribe
          handle,     \* handle[w]: what ResultChan returned to the consumer
          rcvd,       \* history: events the consumer of w has received
          eof,        \* eof[w]: the consumer saw the channel closed
          owed        \* history: events published to w while it was registered

lockVars == <<watchers, writer, filter, wch>>
chanVars == <<chan, buf>>
pubVars  == <<pc, evt, obj, todo>>
stopVars == <<stops, closer, ctx>>
userVars == <<handle, rcvd, eof>>
vars == <<lockVars, chanVars, pubVars, stopVars, userVars, owed>>

NoWriter == [op |-> "none"]
Writers == {NoWriter} \cup [op: {"Subscribe", "Stop"}, w: Watcher]

\* Mutant: Publish iterates over the map without RLock.
NoReaders == {}

\* Publishers inside Publish hold the read lock.
Readers == {p \in Publisher : pc[p] = "send"}

Current(p) == [from |-> p, n |-> evt[p], obj |-> obj[p]]

TypeOK ==
    /\ watchers \subseteq Watcher
    /\ writer \in Writers
    /\ filter \in [Watcher -> Selector]
    /\ wch \in [Watcher -> BOOLEAN]
    /\ chan \in [Watcher -> {"none", "open", "closed"}]
    /\ buf \in [Watcher -> Seq(Event)]
    /\ pc \in [Publisher -> {"idle", "rlock", "send"}]
    /\ evt \in [Publisher -> 0..MaxEvents]
    /\ obj \in [Publisher -> Object \cup {NoObject}]
    /\ todo \in [Publisher -> SUBSET Watcher]
    /\ stops \in [Watcher -> Nat]
    /\ closer \in [Watcher -> {"none", "close", "drain", "done"}]
    /\ ctx \in [Watcher -> {"none", "live", "cancelled", "done"}]
    /\ handle \in [Watcher -> {"none", "chan", "nil", "stopped"}]
    /\ rcvd \in [Watcher -> Seq(Event)]
    /\ eof \in [Watcher -> BOOLEAN]
    /\ owed \in [Watcher -> SUBSET Event]

Init ==
    /\ watchers = {}
    /\ writer = NoWriter
    /\ filter \in [Watcher -> Selector]
    /\ wch = [w \in Watcher |-> FALSE]
    /\ chan = [w \in Watcher |-> "none"]
    /\ buf = [w \in Watcher |-> <<>>]
    /\ pc = [p \in Publisher |-> "idle"]
    /\ evt = [p \in Publisher |-> 0]
    /\ obj = [p \in Publisher |-> NoObject]
    /\ todo = [p \in Publisher |-> {}]
    /\ stops = [w \in Watcher |-> 0]
    /\ closer = [w \in Watcher |-> "none"]
    /\ ctx = [w \in Watcher |-> "none"]
    /\ handle = [w \in Watcher |-> "none"]
    /\ rcvd = [w \in Watcher |-> <<>>]
    /\ eof = [w \in Watcher |-> FALSE]
    /\ owed = [w \in Watcher |-> {}]

\* Somebody calls w.Stop().
OneMoreStop(w) == [stops EXCEPT ![w] = IF @ < MaxStops THEN @ + 1 ELSE @]

-----------------------------------------------------------------------------
(* Subscribe *)

\* Subscribe calls Lock: from here on no publisher enters.
SubscribeLock(w) ==
    /\ chan[w] = "none"
    /\ writer = NoWriter
    /\ writer' = [op |-> "Subscribe", w |-> w]
    /\ UNCHANGED <<watchers, filter, wch, chanVars, pubVars, stopVars, userVars, owed>>

\* The critical section: the watcher is registered with a fresh channel and
\* a goroutine that stops it when its context ends.
Subscribe(w) ==
    /\ writer = [op |-> "Subscribe", w |-> w]
    /\ Readers = {}
    /\ writer' = NoWriter
    /\ watchers' = watchers \cup {w}
    /\ wch' = [wch EXCEPT ![w] = TRUE]
    /\ chan' = [chan EXCEPT ![w] = "open"]
    /\ ctx' = [ctx EXCEPT ![w] = "live"]
    /\ UNCHANGED <<filter, buf, pubVars, stops, closer, userVars, owed>>

-----------------------------------------------------------------------------
(* Publish *)

\* The event goes to a watcher unless one of the selector's fields is set
\* and differs; error events go to everybody.
IsSubscribed(s, o) ==
    o.error \/ \A f \in SelField : s[f] \in {Wild, o[f]}

PublishCall(p, o) ==
    /\ pc[p] = "idle"
    /\ Record => evt[p] < MaxEvents
    /\ pc' = [pc EXCEPT ![p] = "rlock"]
    /\ evt' = IF Record THEN [evt EXCEPT ![p] = @ + 1] ELSE evt
    /\ obj' = [obj EXCEPT ![p] = o]
    /\ UNCHANGED <<lockVars, chanVars, todo, stopVars, userVars, owed>>

\* Mutant: a lock that lets readers pass a waiting writer.
PublishLockedNoPreference(p) ==
    /\ pc[p] = "rlock"
    /\ pc' = [pc EXCEPT ![p] = "send"]
    /\ todo' = [todo EXCEPT ![p] = watchers]
    /\ UNCHANGED <<lockVars, chanVars, evt, obj, stopVars, userVars, owed>>

\* RLock succeeds when no writer waits.  An object without metadata makes
\* Publish return before the loop.
PublishLocked(p) ==
    /\ pc[p] = "rlock"
    /\ writer = NoWriter
    /\ pc' = [pc EXCEPT ![p] = "send"]
    /\ LET subscribed == {w \in watchers : IsSubscribed(filter[w], obj[p])}
           targets == IF obj[p].meta THEN subscribed ELSE {}
       IN /\ todo' = [todo EXCEPT ![p] = targets]
          /\ owed' = [w \in Watcher |-> IF Record /\ w \in targets
                                        THEN owed[w] \cup {Current(p)}
                                        ELSE owed[w]]
    /\ UNCHANGED <<lockVars, chanVars, evt, obj, stopVars, userVars>>

\* Mutant: the watcher is served again and again.
SendAgain(p, w) ==
    /\ pc[p] = "send"
    /\ w \in todo[p]
    /\ Len(buf[w]) < Cap
    /\ buf' = [buf EXCEPT ![w] = Append(@, Current(p))]
    /\ UNCHANGED <<lockVars, chan, pubVars, stopVars, userVars, owed>>

\* sendEvent: the channel has room.
Send(p, w) ==
    /\ pc[p] = "send"
    /\ w \in todo[p]
    /\ Len(buf[w]) < Cap
    /\ buf' = [buf EXCEPT ![w] = Append(@, Current(p))]
    /\ todo' = [todo EXCEPT ![p] = @ \ {w}]
    /\ UNCHANGED <<lockVars, chan, pc, evt, obj, stopVars, userVars, owed>>

\* Mutant: the event is dropped but the watcher stays registered.
SendTimeoutNoKick(p, w) ==
    /\ pc[p] = "send"
    /\ w \in todo[p]
    /\ Len(buf[w]) >= Cap
    /\ todo' = [todo EXCEPT ![p] = @ \ {w}]
    /\ UNCHANGED <<lockVars, chanVars, pc, evt, obj, stopVars, userVars, owed>>

\* Mutant: a plain channel send, without the timeout.
SendNoTimeout(p, w) == FALSE

\* sendEvent: still no room after 20s, the event is dropped and the watcher
\* is stopped by a goroutine of its own.
SendTimeout(p, w) ==
    /\ pc[p] = "send"
    /\ w \in todo[p]
    /\ Len(buf[w]) >= Cap
    /\ stops' = OneMoreStop(w)
    /\ todo' = [todo EXCEPT ![p] = @ \ {w}]
    /\ UNCHANGED <<lockVars, chanVars, pc, evt, obj, closer, ctx, userVars, owed>>

PublishReturn(p) ==
    /\ pc[p] = "send"
    /\ todo[p] = {}
    /\ pc' = [pc EXCEPT ![p] = "idle"]
    /\ UNCHANGED <<lockVars, chanVars, evt, obj, todo, stopVars, userVars, owed>>

-----------------------------------------------------------------------------
(* Stop: called by the consumer, by the context goroutine, by a timeout *)

\* The caller's context ends.
ContextDone(w) ==
    /\ ctx[w] = "live"
    /\ ctx' = [ctx EXCEPT ![w] = "cancelled"]
    /\ UNCHANGED <<lockVars, chanVars, pubVars, stops, closer, userVars, owed>>

\* The goroutine of Subscribe wakes up and calls Stop.
ContextStop(w) ==
    /\ ctx[w] = "cancelled"
    /\ ctx' = [ctx EXCEPT ![w] = "done"]
    /\ stops' = OneMoreStop(w)
    /\ UNCHANGED <<lockVars, chanVars, pubVars, closer, userVars, owed>>

\* The consumer calls Stop and reads no more.
ConsumerStop(w) ==
    /\ chan[w] # "none"
    /\ handle[w] # "stopped"
    /\ handle' = [handle EXCEPT ![w] = "stopped"]
    /\ stops' = OneMoreStop(w)
    /\ UNCHANGED <<lockVars, chanVars, pubVars, closer, ctx, rcvd, eof, owed>>

StopLock(w) ==
    /\ stops[w] > 0
    /\ writer = NoWriter
    /\ writer' = [op |-> "Stop", w |-> w]
    /\ stops' = [stops EXCEPT ![w] = @ - 1]
    /\ UNCHANGED <<watchers, filter, wch, chanVars, pubVars, closer, ctx, userVars, owed>>

\* The critical section: whoever finds w.ch set takes it and goes on to close.
Stop(w) ==
    /\ writer = [op |-> "Stop", w |-> w]
    /\ Readers = {}
    /\ writer' = NoWriter
    /\ watchers' = watchers \ {w}
    /\ wch' = [wch EXCEPT ![w] = FALSE]
    /\ closer' = IF wch[w] THEN [closer EXCEPT ![w] = "close"] ELSE closer
    /\ UNCHANGED <<filter, chanVars, pubVars, stops, ctx, userVars, owed>>

\* Mutant: the channel is drained but not closed.
CloseForgotten(w) ==
    /\ closer[w] = "close"
    /\ closer' = [closer EXCEPT ![w] = "drain"]
    /\ UNCHANGED <<lockVars, chanVars, pubVars, stops, ctx, userVars, owed>>

\* close(ch) and w.cancel()
CloseChannel(w) ==
    /\ closer[w] = "close"
    /\ closer' = [closer EXCEPT ![w] = "drain"]
    /\ chan' = [chan EXCEPT ![w] = "closed"]
    /\ ctx' = [ctx EXCEPT ![w] = IF @ = "live" THEN "cancelled" ELSE @]
    /\ UNCHANGED <<lockVars, buf, pubVars, stops, userVars, owed>>

\* for range ch: Stop competes with the consumer for what is left.
Drain(w) ==
    /\ closer[w] = "drain"
    /\ buf[w] # <<>>
    /\ buf' = [buf EXCEPT ![w] = Tail(@)]
    /\ UNCHANGED <<lockVars, chan, pubVars, stopVars, userVars, owed>>

DrainEnd(w) ==
    /\ closer[w] = "drain"
    /\ buf[w] = <<>>
    /\ closer' = [closer EXCEPT ![w] = "done"]
    /\ UNCHANGED <<lockVars, chanVars, pubVars, stops, ctx, userVars, owed>>

-----------------------------------------------------------------------------
(* The consumer of a watch *)

\* ResultChan reads w.ch without the lock: nil once Stop has run.
ResultChan(w) ==
    /\ chan[w] # "none"
    /\ handle[w] = "none"
    /\ handle' = [handle EXCEPT ![w] = IF wch[w] THEN "chan" ELSE "nil"]
    /\ UNCHANGED <<lockVars, chanVars, pubVars, stopVars, rcvd, eof, owed>>

Receive(w) ==
    /\ handle[w] = "chan"
    /\ buf[w] # <<>>
    /\ rcvd' = IF Record THEN [rcvd EXCEPT ![w] = Append(@, Head(buf[w]))] ELSE rcvd
    /\ buf' = [buf EXCEPT ![w] = Tail(@)]
    /\ UNCHANGED <<lockVars, chan, pubVars, stopVars, handle, eof, owed>>

\* The consumer's range loop ends.
ReceiveClosed(w) ==
    /\ handle[w] = "chan"
    /\ chan[w] = "closed"
    /\ buf[w] = <<>>
    /\ ~eof[w]
    /\ eof' = [eof EXCEPT ![w] = TRUE]
    /\ UNCHANGED <<lockVars, chanVars, pubVars, stopVars, handle, rcvd, owed>>

-----------------------------------------------------------------------------
PublisherStep(p) ==
    \/ PublishLocked(p)
    \/ \E w \in Watcher : Send(p, w) \/ SendTimeout(p, w)
    \/ PublishReturn(p)

StopperStep(w) ==
    \/ ContextStop(w) \/ StopLock(w) \/ Stop(w)
    \/ CloseChannel(w) \/ Drain(w) \/ DrainEnd(w)

ConsumerStep(w) == Receive(w) \/ ReceiveClosed(w)

Next ==
    \/ \E p \in Publisher : PublisherStep(p) \/ \E o \in Object : PublishCall(p, o)
    \/ \E w \in Watcher : \/ SubscribeLock(w) \/ Subscribe(w)
                          \/ ContextDone(w) \/ ConsumerStop(w) \/ StopperStep(w)
                          \/ ResultChan(w) \/ ConsumerStep(w)

Spec == Init /\ [][Next]_vars

(***************************************************************************)
(* Goroutines that can run do run; Publish, Subscribe, ContextDone and     *)
(* ResultChan are calls of the environment, and a consumer need not read.  *)
(***************************************************************************)
Fairness ==
    /\ \A p \in Publisher : WF_vars(PublisherStep(p))
    /\ \A w \in Watcher : WF_vars(Subscribe(w)) /\ WF_vars(StopperStep(w))

FairSpec == Spec /\ Fairness

-----------------------------------------------------------------------------
(* Properties *)

\* A Stop call for w is on its way or has been executed.
StopRequested(w) ==
    stops[w] > 0 \/ writer = [op |-> "Stop", w |-> w] \/ ~wch[w]

InFlight(w) == {Current(p) : p \in {q \in Publisher : w \in todo[q]}}

(***************************************************************************)
(* The bus never panics: every watcher a publisher is still going to send  *)
(* to has its channel set and open (Publish against a concurrent Stop),    *)
(* and no channel is closed a second time (Stop against Stop).             *)
(***************************************************************************)
NoPanic ==
    /\ \A p \in Publisher : \A w \in todo[p] : wch[w] /\ chan[w] = "open"
    /\ \A w \in Watcher : closer[w] = "close" => chan[w] = "open"

(***************************************************************************)
(* An event a registered watcher subscribed to is received, buffered or    *)
(* about to be sent, unless a Stop of that watcher has been requested: a   *)
(* consumer that loses an event in sendEvent's timeout or in Stop's drain  *)
(* is one whose stream is being ended.                                     *)
(***************************************************************************)
NoSilentLoss ==
    \A w \in Watcher : ~StopRequested(w) =>
        owed[w] \subseteq Elements(rcvd[w]) \cup Elements(buf[w]) \cup InFlight(w)

(***************************************************************************)
(* A watcher sees the events of one publisher in the order they were       *)
(* published and none of them twice, whatever timeouts, drains and other   *)
(* publishers do to its stream.                                            *)
(***************************************************************************)
InOrder ==
    \A w \in Watcher :
        LET stream == rcvd[w] \o buf[w]
        IN \A i, j \in 1..Len(stream) :
               i < j /\ stream[i].from = stream[j].from => stream[i].n < stream[j].n

\* Publish always returns: a consumer that does not read costs it a timeout.
PublishReturns == \A p \in Publisher : pc[p] # "idle" ~> pc[p] = "idle"

\* A watcher for which Stop was called, by anybody, ends up closed and
\* drained, although publishers may hold the read lock again and again.
StopCompletes ==
    \A w \in Watcher : (stops[w] > 0) ~> (closer[w] = "done")

\* A consumer that keeps reading the channel it was given learns that its
\* watch has ended (sendEvent's timeout or the end of the context), although
\* Stop drains the channel in competition with it, or stops it itself.
ConsumerLearnsEnd ==
    \A w \in Watcher : WF_vars(ConsumerStep(w)) =>
        ((closer[w] = "close" /\ handle[w] = "chan") ~> (eof[w] \/ handle[w] = "stopped"))
=============================================================================
