---------------------------- MODULE PubSubProofs ----------------------------
(***************************************************************************)
(* The event bus: its types, and the absence of panics, of silent losses   *)
(* and of reorderings, for any number of publishers and watchers, any      *)
(* channel capacity and any bound.                                         *)
(***************************************************************************)
EXTENDS PubSub, TLAPS

\* The event a publisher is publishing is an event.
LEMMA CurrentType ==
    ASSUME TypeOK, NEW p \in Publisher
    PROVE  Current(p) \in Event
  BY BoundsAssumption DEF TypeOK, Current, Event

\* One more Stop call leaves the counters natural numbers.
LEMMA OneMoreStopType ==
    ASSUME TypeOK, NEW w \in Watcher
    PROVE  OneMoreStop(w) \in [Watcher -> Nat]
  BY BoundsAssumption DEF TypeOK, OneMoreStop

\* Every step of the bus keeps its variables in their types.
LEMMA TypeStep == TypeOK /\ [Next]_vars => TypeOK'
<1> SUFFICES ASSUME TypeOK, [Next]_vars PROVE TypeOK'
  OBVIOUS
<1> USE DEF lockVars, chanVars, pubVars, stopVars, userVars
<1>1. ASSUME NEW p \in Publisher, NEW o \in Object, PublishCall(p, o)
      PROVE  TypeOK'
  BY <1>1, BoundsAssumption DEF TypeOK, PublishCall
<1>2. ASSUME NEW p \in Publisher, PublishLocked(p) PROVE TypeOK'
  <2> DEFINE targets == IF obj[p].meta
                        THEN {w \in watchers : IsSubscribed(filter[w], obj[p])} ELSE {}
  <2>1. targets \subseteq Watcher
    BY DEF TypeOK
  <2>2. /\ pc' = [pc EXCEPT ![p] = "send"]
        /\ todo' = [todo EXCEPT ![p] = targets]
        /\ owed' = [w \in Watcher |-> IF Record /\ w \in targets
                                      THEN owed[w] \cup {Current(p)} ELSE owed[w]]
        /\ UNCHANGED <<lockVars, chanVars, evt, obj, stopVars, userVars>>
    BY <1>2 DEF PublishLocked
  <2>3. Current(p) \in Event
    BY CurrentType
  <2> HIDE DEF targets
  <2>4. owed' \in [Watcher -> SUBSET Event]
    BY <2>2, <2>3 DEF TypeOK
  <2>5. QED
    BY <2>1, <2>2, <2>4 DEF TypeOK
<1>3. ASSUME NEW p \in Publisher, NEW w \in Watcher, Send(p, w) PROVE TypeOK'
  <2>1. Current(p) \in Event
    BY CurrentType
  <2>2. buf' \in [Watcher -> Seq(Event)]
    BY <1>3, <2>1 DEF TypeOK, Send
  <2>3. QED
    BY <1>3, <2>2 DEF TypeOK, Send
<1>4. ASSUME NEW p \in Publisher, NEW w \in Watcher, SendTimeout(p, w) PROVE TypeOK'
  BY <1>4, OneMoreStopType DEF TypeOK, SendTimeout
<1>5. ASSUME NEW p \in Publisher, PublishReturn(p) PROVE TypeOK'
  BY <1>5 DEF TypeOK, PublishReturn
<1>6. ASSUME NEW w \in Watcher, SubscribeLock(w) PROVE TypeOK'
  BY <1>6 DEF TypeOK, SubscribeLock, Writers
<1>7. ASSUME NEW w \in Watcher, Subscribe(w) PROVE TypeOK'
  BY <1>7 DEF TypeOK, Subscribe, Writers
<1>8. ASSUME NEW w \in Watcher, ContextDone(w) PROVE TypeOK'
  BY <1>8 DEF TypeOK, ContextDone
<1>9. ASSUME NEW w \in Watcher, ContextStop(w) PROVE TypeOK'
  BY <1>9, OneMoreStopType DEF TypeOK, ContextStop
<1>10. ASSUME NEW w \in Watcher, ConsumerStop(w) PROVE TypeOK'
  BY <1>10, OneMoreStopType DEF TypeOK, ConsumerStop
<1>11. ASSUME NEW w \in Watcher, StopLock(w) PROVE TypeOK'
  BY <1>11 DEF TypeOK, StopLock, Writers
<1>12. ASSUME NEW w \in Watcher, Stop(w) PROVE TypeOK'
  BY <1>12 DEF TypeOK, Stop, Writers
<1>13. ASSUME NEW w \in Watcher, CloseChannel(w) PROVE TypeOK'
  BY <1>13 DEF TypeOK, CloseChannel
<1>14. ASSUME NEW w \in Watcher, Drain(w) PROVE TypeOK'
  BY <1>14 DEF TypeOK, Drain
<1>15. ASSUME NEW w \in Watcher, DrainEnd(w) PROVE TypeOK'
  BY <1>15 DEF TypeOK, DrainEnd
<1>16. ASSUME NEW w \in Watcher, ResultChan(w) PROVE TypeOK'
  BY <1>16 DEF TypeOK, ResultChan
<1>17. ASSUME NEW w \in Watcher, Receive(w) PROVE TypeOK'
  BY <1>17 DEF TypeOK, Receive
<1>18. ASSUME NEW w \in Watcher, ReceiveClosed(w) PROVE TypeOK'
  BY <1>18 DEF TypeOK, ReceiveClosed
<1>19. CASE UNCHANGED vars
  BY <1>19 DEF TypeOK, vars
<1>20. QED
  BY <1>1, <1>2, <1>3, <1>4, <1>5, <1>6, <1>7, <1>8, <1>9, <1>10,
     <1>11, <1>12, <1>13, <1>14, <1>15, <1>16, <1>17, <1>18, <1>19
  DEF Next, PublisherStep, StopperStep, ConsumerStep

\* The initial state has the right types.
LEMMA TypeInit == Init => TypeOK
  BY BoundsAssumption DEF Init, TypeOK, Writers, NoWriter

(***************************************************************************)
(* The bus's variables always have their types; in particular no Stop is   *)
(* executed that nobody called.                                            *)
(***************************************************************************)
THEOREM TypeCorrect == Spec => []TypeOK
<1>1. Init => TypeOK
  BY TypeInit
<1>2. TypeOK /\ [Next]_vars => TypeOK'
  BY TypeStep
<1>3. QED
  BY <1>1, <1>2, PTL DEF Spec

-----------------------------------------------------------------------------
(***************************************************************************)
(* Why the bus does not panic.  NoPanic alone is not inductive: it does    *)
(* not say why a Stop leaves the targets of a running Publish alone (they  *)
(* are registered, and Stop waits for the readers), nor why the channel a  *)
(* Stop has taken cannot be closed by anybody else (its field is nil from  *)
(* then on, and watcher identities are not used twice).                    *)
(***************************************************************************)

\* The map holds exactly the watchers whose channel field is set.
MapMatchesField == \A w \in Watcher : w \in watchers <=> wch[w]

\* A channel that is still in its field is open and nobody is closing it.
FieldIsOpen == \A w \in Watcher : wch[w] => chan[w] = "open" /\ closer[w] = "none"

\* Publishers only have targets while they hold the read lock, and then
\* these targets are registered.
TargetsRegistered ==
    \A p \in Publisher : /\ todo[p] \subseteq watchers
                         /\ pc[p] # "send" => todo[p] = {}

\* A channel that is being closed is open; one that has not been made is
\* not being closed.
CloserOwns ==
    \A w \in Watcher : /\ closer[w] = "close" => chan[w] = "open"
                       /\ chan[w] = "none" => closer[w] = "none"

\* A watcher that waits for the lock in Subscribe has no channel yet.
SubscribesFresh ==
    \A w \in Watcher : writer = [op |-> "Subscribe", w |-> w] => chan[w] = "none"

LockInv ==
    /\ TypeOK
    /\ MapMatchesField
    /\ FieldIsOpen
    /\ TargetsRegistered
    /\ CloserOwns
    /\ SubscribesFresh

\* Initially nobody holds the lock and no channel exists.
LEMMA LockInvInit == Init => LockInv
  BY TypeInit DEF Init, LockInv, MapMatchesField, FieldIsOpen,
                  TargetsRegistered, CloserOwns, SubscribesFresh, NoWriter

\* Every step of the bus preserves the lock discipline.
LEMMA LockInvStep == LockInv /\ [Next]_vars => LockInv'
<1> SUFFICES ASSUME LockInv, [Next]_vars PROVE LockInv'
  OBVIOUS
<1> USE DEF lockVars, chanVars, pubVars, stopVars, userVars
<1>0. TypeOK /\ TypeOK'
  BY TypeStep DEF LockInv
<1>1. ASSUME NEW p \in Publisher, NEW o \in Object, PublishCall(p, o) PROVE LockInv'
  BY <1>0, <1>1
  DEF LockInv, TypeOK, PublishCall, MapMatchesField, FieldIsOpen,
      TargetsRegistered, CloserOwns, SubscribesFresh
<1>2. ASSUME NEW p \in Publisher, PublishLocked(p) PROVE LockInv'
  BY <1>0, <1>2
  DEF LockInv, TypeOK, PublishLocked, MapMatchesField, FieldIsOpen,
      TargetsRegistered, CloserOwns, SubscribesFresh
<1>3. ASSUME NEW p \in Publisher, NEW w \in Watcher, Send(p, w) PROVE LockInv'
  BY <1>0, <1>3
  DEF LockInv, TypeOK, Send, MapMatchesField, FieldIsOpen,
      TargetsRegistered, CloserOwns, SubscribesFresh
<1>4. ASSUME NEW p \in Publisher, NEW w \in Watcher, SendTimeout(p, w) PROVE LockInv'
  BY <1>0, <1>4
  DEF LockInv, TypeOK, SendTimeout, MapMatchesField, FieldIsOpen,
      TargetsRegistered, CloserOwns, SubscribesFresh
<1>5. ASSUME NEW p \in Publisher, PublishReturn(p) PROVE LockInv'
  BY <1>0, <1>5
  DEF LockInv, TypeOK, PublishReturn, MapMatchesField, FieldIsOpen,
      TargetsRegistered, CloserOwns, SubscribesFresh
<1>6. ASSUME NEW w \in Watcher, SubscribeLock(w) PROVE LockInv'
  BY <1>0, <1>6
  DEF LockInv, TypeOK, SubscribeLock, MapMatchesField, FieldIsOpen,
      TargetsRegistered, CloserOwns, SubscribesFresh
<1>7. ASSUME NEW w \in Watcher, Subscribe(w) PROVE LockInv'
  <2>1. \A p \in Publisher : pc[p] # "send" /\ todo[p] = {}
    BY <1>7 DEF LockInv, TargetsRegistered, Subscribe, Readers
  <2>2. TargetsRegistered'
    BY <1>7, <2>1 DEF TargetsRegistered, Subscribe
  <2>3. MapMatchesField'
    BY <1>0, <1>7 DEF LockInv, TypeOK, MapMatchesField, Subscribe
  <2>4. FieldIsOpen' /\ CloserOwns'
    BY <1>0, <1>7 DEF LockInv, TypeOK, FieldIsOpen, CloserOwns, SubscribesFresh, Subscribe
  <2>5. SubscribesFresh'
    BY <1>7 DEF SubscribesFresh, Subscribe, NoWriter
  <2>6. QED
    BY <1>0, <2>2, <2>3, <2>4, <2>5 DEF LockInv
<1>8. ASSUME NEW w \in Watcher, ContextDone(w) PROVE LockInv'
  BY <1>0, <1>8
  DEF LockInv, TypeOK, ContextDone, MapMatchesField, FieldIsOpen,
      TargetsRegistered, CloserOwns, SubscribesFresh
<1>9. ASSUME NEW w \in Watcher, ContextStop(w) PROVE LockInv'
  BY <1>0, <1>9
  DEF LockInv, TypeOK, ContextStop, MapMatchesField, FieldIsOpen,
      TargetsRegistered, CloserOwns, SubscribesFresh
<1>10. ASSUME NEW w \in Watcher, ConsumerStop(w) PROVE LockInv'
  BY <1>0, <1>10
  DEF LockInv, TypeOK, ConsumerStop, MapMatchesField, FieldIsOpen,
      TargetsRegistered, CloserOwns, SubscribesFresh
<1>11. ASSUME NEW w \in Watcher, StopLock(w) PROVE LockInv'
  BY <1>0, <1>11
  DEF LockInv, TypeOK, StopLock, MapMatchesField, FieldIsOpen,
      TargetsRegistered, CloserOwns, SubscribesFresh
<1>12. ASSUME NEW w \in Watcher, Stop(w) PROVE LockInv'
  <2>1. \A p \in Publisher : pc[p] # "send" /\ todo[p] = {}
    BY <1>12 DEF LockInv, TargetsRegistered, Stop, Readers
  <2>2. TargetsRegistered'
    BY <1>12, <2>1 DEF TargetsRegistered, Stop
  <2>3. MapMatchesField'
    BY <1>0, <1>12 DEF LockInv, TypeOK, MapMatchesField, Stop
  <2>4. FieldIsOpen' /\ CloserOwns'
    BY <1>0, <1>12 DEF LockInv, TypeOK, FieldIsOpen, CloserOwns, SubscribesFresh, Stop
  <2>5. SubscribesFresh'
    BY <1>12 DEF SubscribesFresh, Stop, NoWriter
  <2>6. QED
    BY <1>0, <2>2, <2>3, <2>4, <2>5 DEF LockInv
<1>13. ASSUME NEW w \in Watcher, CloseChannel(w) PROVE LockInv'
  BY <1>0, <1>13
  DEF LockInv, TypeOK, CloseChannel, MapMatchesField, FieldIsOpen,
      TargetsRegistered, CloserOwns, SubscribesFresh
<1>14. ASSUME NEW w \in Watcher, Drain(w) PROVE LockInv'
  BY <1>0, <1>14
  DEF LockInv, TypeOK, Drain, MapMatchesField, FieldIsOpen,
      TargetsRegistered, CloserOwns, SubscribesFresh
<1>15. ASSUME NEW w \in Watcher, DrainEnd(w) PROVE LockInv'
  BY <1>0, <1>15
  DEF LockInv, TypeOK, DrainEnd, MapMatchesField, FieldIsOpen,
      TargetsRegistered, CloserOwns, SubscribesFresh
<1>16. ASSUME NEW w \in Watcher, ResultChan(w) PROVE LockInv'
  BY <1>0, <1>16
  DEF LockInv, TypeOK, ResultChan, MapMatchesField, FieldIsOpen,
      TargetsRegistered, CloserOwns, SubscribesFresh
<1>17. ASSUME NEW w \in Watcher, Receive(w) PROVE LockInv'
  BY <1>0, <1>17
  DEF LockInv, TypeOK, Receive, MapMatchesField, FieldIsOpen,
      TargetsRegistered, CloserOwns, SubscribesFresh
<1>18. ASSUME NEW w \in Watcher, ReceiveClosed(w) PROVE LockInv'
  BY <1>0, <1>18
  DEF LockInv, TypeOK, ReceiveClosed, MapMatchesField, FieldIsOpen,
      TargetsRegistered, CloserOwns, SubscribesFresh
<1>19. CASE UNCHANGED vars
  BY <1>0, <1>19
  DEF LockInv, vars, MapMatchesField, FieldIsOpen,
      TargetsRegistered, CloserOwns, SubscribesFresh
<1>20. QED
  BY <1>1, <1>2, <1>3, <1>4, <1>5, <1>6, <1>7, <1>8, <1>9, <1>10,
     <1>11, <1>12, <1>13, <1>14, <1>15, <1>16, <1>17, <1>18, <1>19
  DEF Next, PublisherStep, StopperStep, ConsumerStep

(***************************************************************************)
(* Publish never sends on a nil or closed channel and Stop never closes a  *)
(* channel twice, whoever calls them in whatever order.                    *)
(***************************************************************************)
THEOREM NeverPanics == Spec => []NoPanic
<1>1. Init => LockInv
  BY LockInvInit
<1>2. LockInv /\ [Next]_vars => LockInv'
  BY LockInvStep
<1>3. LockInv => NoPanic
  BY DEF LockInv, NoPanic, TypeOK, MapMatchesField, FieldIsOpen,
         TargetsRegistered, CloserOwns
<1>4. QED
  BY <1>1, <1>2, <1>3, PTL DEF Spec

-----------------------------------------------------------------------------
(***************************************************************************)
(* Why no event is lost silently.  The steps that lose an event, the       *)
(* timeout in sendEvent and the drain in Stop, come with a request to stop *)
(* the watcher, and a watcher that is subscribed is owed nothing yet: that *)
(* is the part NoSilentLoss does not say of itself.                        *)
(***************************************************************************)
FreshOwedNothing ==
    \A w \in Watcher : chan[w] = "none" \/ ~Record => owed[w] = {}

LossInv == LockInv /\ NoSilentLoss /\ FreshOwedNothing

\* What an event appended to a stream adds to it.
LEMMA ElementsAppend ==
    ASSUME NEW S, NEW s \in Seq(S), NEW e \in S
    PROVE  Elements(Append(s, e)) = Elements(s) \cup {e}
<1> DEFINE t == Append(s, e)
<1>1. /\ DOMAIN s = 1..Len(s) /\ DOMAIN t = 1..(Len(s) + 1)
      /\ \A i \in 1..Len(s) : t[i] = s[i]
      /\ t[Len(s) + 1] = e
  OBVIOUS
<1>2. Len(s) \in Nat
  OBVIOUS
<1> HIDE DEF t
<1>3. Elements(t) \subseteq Elements(s) \cup {e}
  <2> SUFFICES ASSUME NEW i \in DOMAIN t, t[i] # e PROVE t[i] \in Elements(s)
    BY DEF Elements
  <2>1. i \in 1..Len(s) /\ t[i] = s[i]
    BY <1>1, <1>2
  <2>2. QED
    BY <1>1, <2>1 DEF Elements
<1>4. Elements(s) \cup {e} \subseteq Elements(t)
  <2>1. \A i \in DOMAIN s : i \in DOMAIN t /\ s[i] = t[i]
    BY <1>1, <1>2
  <2>2. Len(s) + 1 \in DOMAIN t
    BY <1>1, <1>2
  <2>3. QED
    BY <1>1, <2>1, <2>2 DEF Elements
<1>5. QED
  BY <1>3, <1>4 DEF t

\* What taking the first event off a stream takes from it.
LEMMA ElementsTail ==
    ASSUME NEW S, NEW s \in Seq(S), s # <<>>
    PROVE  Elements(s) \subseteq {Head(s)} \cup Elements(Tail(s))
<1> SUFFICES ASSUME NEW i \in 1..Len(s), s[i] # Head(s) PROVE s[i] \in Elements(Tail(s))
  BY DEF Elements
<1>1. i # 1 /\ i - 1 \in 1..Len(Tail(s)) /\ Tail(s)[i - 1] = s[i]
  OBVIOUS
<1>2. DOMAIN Tail(s) = 1..Len(Tail(s))
  OBVIOUS
<1>3. QED
  BY <1>1, <1>2, Zenon DEF Elements

\* A step that publishes, sends and receives nothing and withdraws no
\* request to stop a watcher loses nothing.
LEMMA QuietLosesNothing ==
    ASSUME LossInv, LockInv',
           UNCHANGED <<rcvd, buf, owed, todo, evt, obj>>,
           \A w \in Watcher : StopRequested(w) => StopRequested(w)',
           \A w \in Watcher : chan[w]' = "none" => chan[w] = "none"
    PROVE  LossInv'
<1>1. NoSilentLoss'
  BY DEF LossInv, NoSilentLoss, InFlight, Current
<1>2. FreshOwedNothing'
  BY DEF LossInv, FreshOwedNothing
<1>3. QED
  BY <1>1, <1>2 DEF LossInv

\* Initially nothing is owed.
LEMMA LossInvInit == Init => LossInv
  BY LockInvInit DEF Init, LossInv, NoSilentLoss, FreshOwedNothing

\* Every step of the bus that loses an event has asked for the watcher's end.
LEMMA LossInvStep == LossInv /\ [Next]_vars => LossInv'
<1> SUFFICES ASSUME LossInv, [Next]_vars PROVE LossInv'
  OBVIOUS
<1> USE DEF lockVars, chanVars, pubVars, stopVars, userVars
<1>0. LockInv /\ LockInv' /\ TypeOK
  BY LockInvStep DEF LossInv, LockInv
<1>1. ASSUME NEW p \in Publisher, NEW o \in Object, PublishCall(p, o) PROVE LossInv'
  <2>1. todo[p] = {}
    BY <1>0, <1>1 DEF PublishCall, LockInv, TargetsRegistered
  <2>2. \A w \in Watcher : InFlight(w)' = InFlight(w)
    <3> SUFFICES ASSUME NEW w \in Watcher PROVE InFlight(w)' = InFlight(w)
      OBVIOUS
    <3>1. \A q \in Publisher : w \in todo[q] => q # p /\ Current(q)' = Current(q)
      BY <1>0, <1>1, <2>1 DEF PublishCall, Current, TypeOK
    <3>2. QED
      BY <1>1, <3>1 DEF PublishCall, InFlight
  <2>3. NoSilentLoss'
    BY <1>1, <2>2 DEF PublishCall, LossInv, NoSilentLoss, StopRequested
  <2>4. FreshOwedNothing'
    BY <1>1 DEF PublishCall, LossInv, FreshOwedNothing
  <2>5. QED
    BY <1>0, <2>3, <2>4 DEF LossInv
<1>2. ASSUME NEW p \in Publisher, PublishLocked(p) PROVE LossInv'
  <2> DEFINE targets == IF obj[p].meta
                        THEN {w \in watchers : IsSubscribed(filter[w], obj[p])} ELSE {}
  <2>1. targets \subseteq watchers
    OBVIOUS
  <2>2. /\ todo' = [todo EXCEPT ![p] = targets]
        /\ owed' = [w \in Watcher |-> IF Record /\ w \in targets
                                      THEN owed[w] \cup {Current(p)} ELSE owed[w]]
        /\ UNCHANGED <<lockVars, chanVars, evt, obj, stopVars, userVars>>
        /\ pc[p] = "rlock"
    BY <1>2 DEF PublishLocked
  <2> HIDE DEF targets
  <2>3. todo[p] = {}
    BY <1>0, <2>2 DEF LockInv, TargetsRegistered
  <2>4. \A w \in Watcher : /\ InFlight(w) \subseteq InFlight(w)'
                           /\ w \in targets => Current(p) \in InFlight(w)'
    BY <1>0, <2>2, <2>3 DEF InFlight, Current, TypeOK
  <2>5. NoSilentLoss'
    BY <2>2, <2>4 DEF LossInv, NoSilentLoss, StopRequested
  <2>6. FreshOwedNothing'
    <3>1. \A w \in targets : chan[w] = "open"
      BY <1>0, <2>1 DEF LockInv, TypeOK, MapMatchesField, FieldIsOpen
    <3>2. QED
      BY <2>2, <3>1 DEF LossInv, FreshOwedNothing
  <2>7. QED
    BY <1>0, <2>5, <2>6 DEF LossInv
<1>3. ASSUME NEW p \in Publisher, NEW w \in Watcher, Send(p, w) PROVE LossInv'
  <2>1. /\ buf' = [buf EXCEPT ![w] = Append(@, Current(p))]
        /\ todo' = [todo EXCEPT ![p] = @ \ {w}]
        /\ UNCHANGED <<lockVars, chan, pc, evt, obj, stopVars, userVars, owed>>
    BY <1>3 DEF Send
  <2>2. Elements(buf[w])' = Elements(buf[w]) \cup {Current(p)}
    <3>1. Current(p) \in Event /\ buf[w] \in Seq(Event)
      BY <1>0, CurrentType DEF TypeOK
    <3>2. buf'[w] = Append(buf[w], Current(p))
      BY <1>0, <2>1 DEF TypeOK
    <3>3. QED
      BY <3>1, <3>2, ElementsAppend
  <2>3. \A v \in Watcher : v # w => buf'[v] = buf[v]
    BY <1>0, <2>1 DEF TypeOK
  <2>4. /\ \A v \in Watcher : v # w => InFlight(v)' = InFlight(v)
        /\ InFlight(w) \subseteq InFlight(w)' \cup {Current(p)}
    BY <1>0, <2>1 DEF InFlight, Current, TypeOK
  <2>5. NoSilentLoss'
    <3> SUFFICES ASSUME NEW v \in Watcher, ~StopRequested(v)
                 PROVE  owed[v] \subseteq Elements(rcvd[v]) \cup Elements(buf[v])' \cup InFlight(v)'
      BY <2>1 DEF NoSilentLoss, StopRequested
    <3>1. owed[v] \subseteq Elements(rcvd[v]) \cup Elements(buf[v]) \cup InFlight(v)
      BY DEF LossInv, NoSilentLoss
    <3>2. CASE v = w
      BY <2>2, <2>4, <3>1, <3>2
    <3>3. CASE v # w
      BY <2>3, <2>4, <3>1, <3>3
    <3>4. QED
      BY <3>2, <3>3
  <2>6. FreshOwedNothing'
    BY <2>1 DEF LossInv, FreshOwedNothing
  <2>7. QED
    BY <1>0, <2>5, <2>6 DEF LossInv
<1>4. ASSUME NEW p \in Publisher, NEW w \in Watcher, SendTimeout(p, w) PROVE LossInv'
  <2>1. /\ stops' = OneMoreStop(w)
        /\ todo' = [todo EXCEPT ![p] = @ \ {w}]
        /\ UNCHANGED <<lockVars, chanVars, pc, evt, obj, closer, ctx, userVars, owed>>
    BY <1>4 DEF SendTimeout
  <2>2. stops'[w] > 0 /\ \A v \in Watcher : v # w => stops'[v] = stops[v]
    BY <1>0, <2>1, BoundsAssumption DEF OneMoreStop, TypeOK
  <2>3. \A v \in Watcher : v # w => InFlight(v)' = InFlight(v)
    BY <1>0, <2>1 DEF InFlight, Current, TypeOK
  <2>4. NoSilentLoss'
    BY <2>1, <2>2, <2>3 DEF LossInv, NoSilentLoss, StopRequested
  <2>5. FreshOwedNothing'
    BY <2>1 DEF LossInv, FreshOwedNothing
  <2>6. QED
    BY <1>0, <2>4, <2>5 DEF LossInv
<1>5. ASSUME NEW p \in Publisher, PublishReturn(p) PROVE LossInv'
  BY <1>0, <1>5, QuietLosesNothing DEF PublishReturn, StopRequested
<1>6. ASSUME NEW w \in Watcher, SubscribeLock(w) PROVE LossInv'
  BY <1>0, <1>6, QuietLosesNothing DEF SubscribeLock, StopRequested, NoWriter
<1>7. ASSUME NEW w \in Watcher, Subscribe(w) PROVE LossInv'
  <2>1. owed[w] = {}
    BY <1>0, <1>7 DEF Subscribe, LossInv, LockInv, SubscribesFresh, FreshOwedNothing
  <2>2. \A v \in Watcher : v # w /\ StopRequested(v) => StopRequested(v)'
    BY <1>0, <1>7 DEF Subscribe, StopRequested, TypeOK
  <2>3. NoSilentLoss'
    BY <1>7, <2>1, <2>2 DEF Subscribe, LossInv, NoSilentLoss, InFlight, Current
  <2>4. FreshOwedNothing'
    BY <1>0, <1>7 DEF Subscribe, LossInv, FreshOwedNothing, TypeOK
  <2>5. QED
    BY <1>0, <2>3, <2>4 DEF LossInv
<1>8. ASSUME NEW w \in Watcher, ContextDone(w) PROVE LossInv'
  BY <1>0, <1>8, QuietLosesNothing DEF ContextDone, StopRequested
<1>9. ASSUME NEW w \in Watcher, stops' = OneMoreStop(w), ContextStop(w) \/ ConsumerStop(w)
      PROVE LossInv'
  <2>1. \A v \in Watcher : stops[v] > 0 => stops'[v] > 0
    BY <1>0, <1>9 DEF OneMoreStop, TypeOK
  <2>2. QED
    BY <1>0, <1>9, <2>1, QuietLosesNothing DEF ContextStop, ConsumerStop, StopRequested
<1>10. ASSUME NEW w \in Watcher, StopLock(w) PROVE LossInv'
  <2>1. \A v \in Watcher : v # w => stops'[v] = stops[v]
    BY <1>0, <1>10 DEF StopLock, TypeOK
  <2>2. \A v \in Watcher : StopRequested(v) => StopRequested(v)'
    BY <1>10, <2>1 DEF StopLock, StopRequested, NoWriter
  <2>3. QED
    BY <1>0, <1>10, <2>2, QuietLosesNothing DEF StopLock
<1>11. ASSUME NEW w \in Watcher, Stop(w) PROVE LossInv'
  <2>1. \A v \in Watcher : StopRequested(v) => StopRequested(v)'
    BY <1>0, <1>11 DEF Stop, StopRequested, TypeOK
  <2>2. QED
    BY <1>0, <1>11, <2>1, QuietLosesNothing DEF Stop
<1>12. ASSUME NEW w \in Watcher, CloseChannel(w) PROVE LossInv'
  <2>1. \A v \in Watcher : chan[v]' = "none" => chan[v] = "none"
    BY <1>0, <1>12 DEF CloseChannel, TypeOK
  <2>2. QED
    BY <1>0, <1>12, <2>1, QuietLosesNothing DEF CloseChannel, StopRequested
<1>13. ASSUME NEW w \in Watcher, Drain(w) PROVE LossInv'
  <2>1. ~wch[w]
    BY <1>0, <1>13 DEF Drain, LockInv, FieldIsOpen
  <2>2. \A v \in Watcher : v # w => buf'[v] = buf[v]
    BY <1>0, <1>13 DEF Drain, TypeOK
  <2>3. NoSilentLoss'
    BY <1>13, <2>1, <2>2 DEF Drain, LossInv, NoSilentLoss, StopRequested, InFlight, Current
  <2>4. FreshOwedNothing'
    BY <1>13 DEF Drain, LossInv, FreshOwedNothing
  <2>5. QED
    BY <1>0, <2>3, <2>4 DEF LossInv
<1>14. ASSUME NEW w \in Watcher, DrainEnd(w) PROVE LossInv'
  BY <1>0, <1>14, QuietLosesNothing DEF DrainEnd, StopRequested
<1>15. ASSUME NEW w \in Watcher, ResultChan(w) PROVE LossInv'
  BY <1>0, <1>15, QuietLosesNothing DEF ResultChan, StopRequested
<1>16. ASSUME NEW w \in Watcher, Receive(w) PROVE LossInv'
  <2>1. /\ buf[w] # <<>> /\ buf[w] \in Seq(Event) /\ rcvd[w] \in Seq(Event)
        /\ buf'[w] = Tail(buf[w])
        /\ \A v \in Watcher : v # w => buf'[v] = buf[v] /\ rcvd'[v] = rcvd[v]
        /\ Record => rcvd'[w] = Append(rcvd[w], Head(buf[w]))
    BY <1>0, <1>16 DEF Receive, TypeOK
  <2>2. Record => Elements(rcvd[w]) \cup Elements(buf[w])
                    \subseteq Elements(rcvd[w])' \cup Elements(buf[w])'
    <3>1. Head(buf[w]) \in Event
      BY <2>1
    <3>2. Elements(Append(rcvd[w], Head(buf[w]))) = Elements(rcvd[w]) \cup {Head(buf[w])}
      BY <2>1, <3>1, ElementsAppend
    <3>3. Elements(buf[w]) \subseteq {Head(buf[w])} \cup Elements(buf[w])'
      BY <2>1, ElementsTail
    <3>4. QED
      BY <2>1, <3>2, <3>3
  <2>3. NoSilentLoss'
    <3> SUFFICES ASSUME NEW v \in Watcher, ~StopRequested(v)
                 PROVE  owed[v] \subseteq Elements(rcvd[v])' \cup Elements(buf[v])' \cup InFlight(v)
      BY <1>16 DEF Receive, NoSilentLoss, StopRequested, InFlight, Current
    <3>1. owed[v] \subseteq Elements(rcvd[v]) \cup Elements(buf[v]) \cup InFlight(v)
      BY DEF LossInv, NoSilentLoss
    <3>2. CASE v = w /\ Record
      BY <2>2, <3>1, <3>2
    <3>3. CASE ~Record
      BY <3>3 DEF LossInv, FreshOwedNothing
    <3>4. CASE v # w
      BY <2>1, <3>1, <3>4
    <3>5. QED
      BY <3>2, <3>3, <3>4, RecordAssumption
  <2>4. FreshOwedNothing'
    BY <1>16 DEF Receive, LossInv, FreshOwedNothing
  <2>5. QED
    BY <1>0, <2>3, <2>4 DEF LossInv
<1>17. ASSUME NEW w \in Watcher, ReceiveClosed(w) PROVE LossInv'
  BY <1>0, <1>17, QuietLosesNothing DEF ReceiveClosed, StopRequested
<1>18. CASE UNCHANGED vars
  BY <1>0, <1>18, QuietLosesNothing DEF vars, StopRequested
<1>19. QED
  BY <1>1, <1>2, <1>3, <1>4, <1>5, <1>6, <1>7, <1>8, <1>9, <1>10,
     <1>11, <1>12, <1>13, <1>14, <1>15, <1>16, <1>17, <1>18
  DEF Next, PublisherStep, StopperStep, ConsumerStep, ContextStop, ConsumerStop

(***************************************************************************)
(* A watcher whose end nobody has asked for has received, holds in its     *)
(* channel or is about to be sent every event published to it, for any     *)
(* capacity and any interleaving of publishers, consumers and Stop calls.  *)
(***************************************************************************)
THEOREM NeverLosesSilently == Spec => []NoSilentLoss
<1>1. Init => LossInv
  BY LossInvInit
<1>2. LossInv /\ [Next]_vars => LossInv'
  BY LossInvStep
<1>3. LossInv => NoSilentLoss
  BY DEF LossInv
<1>4. QED
  BY <1>1, <1>2, <1>3, PTL DEF Spec

-----------------------------------------------------------------------------
(***************************************************************************)
(* Why a stream is in order.  What a watcher has received and what waits   *)
(* in its channel are both in order and the former precedes the latter;    *)
(* that the next event a publisher sends is newer than all of them takes   *)
(* the progress of that publisher: an event that it has not offered to the *)
(* watcher yet is in neither.                                              *)
(***************************************************************************)
Increasing(s) ==
    \A i, j \in 1..Len(s) : i < j /\ s[i].from = s[j].from => s[i].n < s[j].n

Before(s, t) ==
    \A i \in 1..Len(s), j \in 1..Len(t) : s[i].from = t[j].from => s[i].n < t[j].n

OlderThan(s, p, n) == \A i \in 1..Len(s) : s[i].from = p => s[i].n < n

\* The lowest number of an event that p may still send to w.
NextNumber(p, w) == IF pc[p] = "rlock" \/ w \in todo[p] THEN evt[p] ELSE evt[p] + 1

StreamOrdered(w) ==
    /\ Increasing(rcvd[w])
    /\ Increasing(buf[w])
    /\ Before(rcvd[w], buf[w])
    /\ \A p \in Publisher : /\ OlderThan(rcvd[w], p, NextNumber(p, w))
                            /\ OlderThan(buf[w], p, NextNumber(p, w))

OrderInv == LockInv /\ \A w \in Watcher : StreamOrdered(w)

\* A stream stays in order when an event newer than its publisher's others
\* is appended.
LEMMA AppendInOrder ==
    ASSUME NEW s \in Seq(Event), NEW t \in Seq(Event), NEW e \in Event,
           OlderThan(t, e.from, e.n)
    PROVE  /\ Increasing(t) => Increasing(Append(t, e))
           /\ Before(s, t) /\ OlderThan(s, e.from, e.n) => Before(s, Append(t, e))
           /\ \A p, n : OlderThan(t, p, n) /\ (e.from = p => e.n < n)
                            => OlderThan(Append(t, e), p, n)
<1> DEFINE u == Append(t, e)
<1>1. /\ Len(t) \in Nat /\ Len(u) = Len(t) + 1 /\ u[Len(t) + 1] = e
      /\ \A i \in 1..Len(t) : u[i] = t[i]
  OBVIOUS
<1>2. \A i \in 1..Len(u) : i \in 1..Len(t) \/ i = Len(t) + 1
  BY <1>1
<1> HIDE DEF u
<1>3. Increasing(t) => Increasing(u)
  BY <1>1, <1>2 DEF Increasing, OlderThan
<1>4. Before(s, t) /\ OlderThan(s, e.from, e.n) => Before(s, u)
  BY <1>1, <1>2 DEF Before, OlderThan
<1>5. \A p, n : OlderThan(t, p, n) /\ (e.from = p => e.n < n) => OlderThan(u, p, n)
  BY <1>1, <1>2 DEF OlderThan
<1>6. QED
  BY <1>3, <1>4, <1>5 DEF u

\* Two streams, one before the other, stay in order when the first event of
\* the later one is dropped or moves to the earlier one.
LEMMA HeadInOrder ==
    ASSUME NEW s \in Seq(Event), NEW t \in Seq(Event), t # <<>>,
           Increasing(s), Increasing(t), Before(s, t)
    PROVE  /\ Increasing(Tail(t)) /\ Before(s, Tail(t))
           /\ Increasing(Append(s, Head(t))) /\ Before(Append(s, Head(t)), Tail(t))
           /\ \A p, n : OlderThan(t, p, n) => OlderThan(Tail(t), p, n)
           /\ \A p, n : OlderThan(s, p, n) /\ OlderThan(t, p, n)
                            => OlderThan(Append(s, Head(t)), p, n)
<1> DEFINE e == Head(t)
           u == Append(s, e)
           r == Tail(t)
<1>1. /\ Len(t) \in Nat /\ Len(r) = Len(t) - 1 /\ Len(t) > 0 /\ e = t[1]
      /\ \A i \in 1..Len(r) : i + 1 \in 1..Len(t) /\ r[i] = t[i + 1]
      /\ e \in Event
  OBVIOUS
<1>2. /\ Len(s) \in Nat /\ Len(u) = Len(s) + 1 /\ u[Len(s) + 1] = e
      /\ \A i \in 1..Len(s) : u[i] = s[i]
  BY <1>1
<1>3. \A i \in 1..Len(u) : i \in 1..Len(s) \/ i = Len(s) + 1
  BY <1>2
<1> HIDE DEF e, u, r
<1>4. 1 \in 1..Len(t) /\ \A i \in 1..Len(r) : i \in Nat /\ i >= 1
  BY <1>1
<1>5. Increasing(r)
  <2> SUFFICES ASSUME NEW i \in 1..Len(r), NEW j \in 1..Len(r), i < j, r[i].from = r[j].from
               PROVE  r[i].n < r[j].n
    BY DEF Increasing
  <2>1. i + 1 \in 1..Len(t) /\ j + 1 \in 1..Len(t) /\ i + 1 < j + 1
    BY <1>1, <1>4
  <2>2. r[i] = t[i + 1] /\ r[j] = t[j + 1]
    BY <1>1
  <2>3. t[i + 1].n < t[j + 1].n
    BY <2>1, <2>2 DEF Increasing
  <2>4. QED
    BY <2>2, <2>3
<1>6. Before(s, r)
  BY <1>1 DEF Before
<1>7. OlderThan(s, e.from, e.n)
  BY <1>1, <1>4 DEF Before, OlderThan
<1>8. Increasing(u)
  BY <1>2, <1>3, <1>7 DEF Increasing, OlderThan
<1>9. \A j \in 1..Len(r) : e.from = r[j].from => e.n < r[j].n
  BY <1>1, <1>4 DEF Increasing
<1>10. Before(u, r)
  BY <1>2, <1>3, <1>6, <1>9 DEF Before
<1>11. \A p, n : OlderThan(t, p, n) => OlderThan(r, p, n) /\ (e.from = p => e.n < n)
  BY <1>1, <1>4 DEF OlderThan
<1>12. \A p, n : OlderThan(s, p, n) /\ OlderThan(t, p, n) => OlderThan(u, p, n)
  BY <1>2, <1>3, <1>11 DEF OlderThan
<1>13. QED
  BY <1>5, <1>6, <1>8, <1>10, <1>11, <1>12 DEF e, u, r

\* Two ordered streams, one before the other, are one ordered stream.
LEMMA ConcatInOrder ==
    ASSUME NEW s \in Seq(Event), NEW t \in Seq(Event),
           Increasing(s), Increasing(t), Before(s, t)
    PROVE  Increasing(s \o t)
<1> DEFINE u == s \o t
<1>1. /\ Len(s) \in Nat /\ Len(t) \in Nat /\ Len(u) = Len(s) + Len(t)
      /\ \A i \in 1..Len(u) : u[i] = IF i <= Len(s) THEN s[i] ELSE t[i - Len(s)]
  OBVIOUS
<1> HIDE DEF u
<1> SUFFICES ASSUME NEW i \in 1..Len(u), NEW j \in 1..Len(u), i < j, u[i].from = u[j].from
             PROVE  u[i].n < u[j].n
  BY DEF Increasing, u
<1>2. CASE j <= Len(s)
  <2>1. i \in 1..Len(s) /\ j \in 1..Len(s) /\ u[i] = s[i] /\ u[j] = s[j]
    BY <1>1, <1>2
  <2>2. QED
    BY <2>1 DEF Increasing
<1>3. CASE i <= Len(s) /\ j > Len(s)
  <2>1. i \in 1..Len(s) /\ j - Len(s) \in 1..Len(t) /\ u[i] = s[i] /\ u[j] = t[j - Len(s)]
    BY <1>1, <1>3
  <2>2. QED
    BY <2>1 DEF Before
<1>4. CASE i > Len(s)
  <2>1. /\ i - Len(s) \in 1..Len(t) /\ j - Len(s) \in 1..Len(t) /\ i - Len(s) < j - Len(s)
        /\ u[i] = t[i - Len(s)] /\ u[j] = t[j - Len(s)]
    BY <1>1, <1>4
  <2>2. QED
    BY <2>1 DEF Increasing
<1>5. QED
  BY <1>1, <1>2, <1>3, <1>4

\* The numbers of the events of a stream are natural numbers.
LEMMA OlderThanMonotone ==
    ASSUME NEW s \in Seq(Event), NEW p, NEW m \in Nat, NEW n \in Nat, m <= n,
           OlderThan(s, p, m)
    PROVE  OlderThan(s, p, n)
<1>1. \A i \in 1..Len(s) : s[i] \in Event
  OBVIOUS
<1>2. \A e \in Event : e.n \in Nat
  BY DEF Event
<1>3. QED
  BY <1>1, <1>2 DEF OlderThan

\* A step that sends and receives nothing and after which no publisher can
\* send an event it could not have sent before keeps the streams in order.
LEMMA QuietKeepsOrder ==
    ASSUME OrderInv, LockInv', UNCHANGED <<rcvd, buf>>,
           \A p \in Publisher, w \in Watcher : NextNumber(p, w) <= NextNumber(p, w)'
    PROVE  OrderInv'
<1>1. TypeOK /\ TypeOK'
  BY DEF OrderInv, LockInv
<1>2. ASSUME NEW w \in Watcher PROVE StreamOrdered(w)'
  <2>1. StreamOrdered(w) /\ rcvd[w] \in Seq(Event) /\ buf[w] \in Seq(Event)
    BY <1>1 DEF OrderInv, TypeOK
  <2>2. ASSUME NEW p \in Publisher
        PROVE  /\ OlderThan(rcvd[w], p, NextNumber(p, w)')
               /\ OlderThan(buf[w], p, NextNumber(p, w)')
    <3>1. NextNumber(p, w) \in Nat /\ NextNumber(p, w)' \in Nat
      BY <1>1, BoundsAssumption DEF TypeOK, NextNumber
    <3>2. QED
      BY <2>1, <3>1, OlderThanMonotone DEF StreamOrdered
  <2>3. QED
    BY <2>1, <2>2 DEF StreamOrdered, OlderThan
<1>3. QED
  BY <1>2 DEF OrderInv

\* Initially there are no events.
LEMMA OrderInvInit == Init => OrderInv
<1> SUFFICES ASSUME Init PROVE OrderInv
  OBVIOUS
<1>1. \A w \in Watcher : rcvd[w] = <<>> /\ buf[w] = <<>>
  BY DEF Init
<1>2. \A w \in Watcher : StreamOrdered(w)
  BY <1>1 DEF StreamOrdered, Increasing, Before, OlderThan
<1>3. QED
  BY <1>2, LockInvInit DEF OrderInv

\* Every step keeps every stream in order.
LEMMA OrderInvStep ==
    ASSUME Record
    PROVE  OrderInv /\ [Next]_vars => OrderInv'
<1> SUFFICES ASSUME OrderInv, [Next]_vars PROVE OrderInv'
  OBVIOUS
<1> USE DEF lockVars, chanVars, pubVars, stopVars, userVars
<1>0. LockInv /\ LockInv' /\ TypeOK /\ TypeOK'
  BY LockInvStep DEF OrderInv, LockInv
<1>a. \A p \in Publisher : evt[p] \in Nat
  BY <1>0, BoundsAssumption DEF TypeOK
<1>b. ASSUME UNCHANGED <<rcvd, buf, pc, evt, todo>> PROVE OrderInv'
  <2>1. \A p \in Publisher, w \in Watcher : NextNumber(p, w) <= NextNumber(p, w)'
    BY <1>a, <1>b DEF NextNumber
  <2>2. QED
    BY <1>0, <1>b, <2>1, QuietKeepsOrder
<1>c. \A w \in Watcher : /\ rcvd[w] \in Seq(Event) /\ buf[w] \in Seq(Event)
                         /\ StreamOrdered(w)
  BY <1>0 DEF TypeOK, OrderInv
<1>1. ASSUME NEW p \in Publisher, NEW o \in Object, PublishCall(p, o) PROVE OrderInv'
  <2>1. pc[p] = "idle" /\ todo[p] = {}
    BY <1>0, <1>1 DEF PublishCall, LockInv, TargetsRegistered
  <2>2. \A q \in Publisher, w \in Watcher : NextNumber(q, w) <= NextNumber(q, w)'
    BY <1>0, <1>1, <1>a, <2>1 DEF PublishCall, NextNumber, TypeOK
  <2>3. QED
    BY <1>0, <1>1, <2>2, QuietKeepsOrder DEF PublishCall
<1>2. ASSUME NEW p \in Publisher, PublishLocked(p) PROVE OrderInv'
  <2>1. /\ pc[p] = "rlock" /\ UNCHANGED <<evt, rcvd, buf>>
        /\ \A q \in Publisher : q # p => pc'[q] = pc[q] /\ todo'[q] = todo[q]
    BY <1>0, <1>2 DEF PublishLocked, TypeOK
  <2>2. \A q \in Publisher, w \in Watcher : NextNumber(q, w) <= NextNumber(q, w)'
    BY <1>a, <2>1 DEF NextNumber
  <2>3. QED
    BY <1>0, <2>1, <2>2, QuietKeepsOrder
<1>3. ASSUME NEW p \in Publisher, NEW w \in Watcher, Send(p, w) PROVE OrderInv'
  <2>1. /\ pc[p] = "send" /\ w \in todo[p] /\ UNCHANGED <<evt, rcvd, pc>>
        /\ \A q \in Publisher, v \in Watcher :
               q # p \/ v # w => (v \in todo'[q] <=> v \in todo[q])
        /\ w \notin todo'[p]
    BY <1>0, <1>3 DEF Send, TypeOK
  <2>2. /\ \A v \in Watcher : v # w => buf'[v] = buf[v]
        /\ buf'[w] = Append(buf[w], Current(p))
    BY <1>0, <1>3 DEF Send, TypeOK
  <2>3. /\ \A q \in Publisher, v \in Watcher :
               q # p \/ v # w => NextNumber(q, v)' = NextNumber(q, v)
        /\ NextNumber(p, w) = evt[p] /\ NextNumber(p, w)' = evt[p] + 1
    BY <2>1 DEF NextNumber
  <2>4. \A v \in Watcher : v # w => StreamOrdered(v)'
    BY <1>c, <2>1, <2>2, <2>3 DEF StreamOrdered
  <2>5. StreamOrdered(w)'
    <3> DEFINE e == Current(p)
    <3>1. e \in Event /\ e.from = p /\ e.n = evt[p]
      BY <1>0, CurrentType DEF Current
    <3> HIDE DEF e
    <3>2. OlderThan(rcvd[w], e.from, e.n) /\ OlderThan(buf[w], e.from, e.n)
      BY <1>c, <2>3, <3>1 DEF StreamOrdered
    <3>3. /\ Increasing(Append(buf[w], e)) /\ Before(rcvd[w], Append(buf[w], e))
          /\ \A q, n : OlderThan(buf[w], q, n) /\ (e.from = q => e.n < n)
                           => OlderThan(Append(buf[w], e), q, n)
      BY <1>c, <3>1, <3>2, AppendInOrder DEF StreamOrdered
    <3>4. ASSUME NEW q \in Publisher
          PROVE  /\ OlderThan(rcvd[w], q, NextNumber(q, w)')
                 /\ OlderThan(buf[w], q, NextNumber(q, w)')
                 /\ e.from = q => e.n < NextNumber(q, w)'
      <4>1. CASE q # p
        BY <1>c, <2>3, <3>1, <4>1 DEF StreamOrdered
      <4>2. CASE q = p
        BY <1>a, <1>c, <2>3, <3>1, <3>2, <4>2, OlderThanMonotone
      <4>3. QED
        BY <4>1, <4>2
    <3>5. QED
      BY <1>c, <2>1, <2>2, <3>3, <3>4 DEF StreamOrdered, e
  <2>6. QED
    BY <1>0, <2>4, <2>5 DEF OrderInv
<1>4. ASSUME NEW p \in Publisher, NEW w \in Watcher, SendTimeout(p, w) PROVE OrderInv'
  <2>1. \A q \in Publisher, v \in Watcher : NextNumber(q, v) <= NextNumber(q, v)'
    BY <1>0, <1>4, <1>a DEF SendTimeout, NextNumber, TypeOK
  <2>2. QED
    BY <1>0, <1>4, <2>1, QuietKeepsOrder DEF SendTimeout
<1>5. ASSUME NEW p \in Publisher, PublishReturn(p) PROVE OrderInv'
  <2>1. \A q \in Publisher, v \in Watcher : NextNumber(q, v) <= NextNumber(q, v)'
    BY <1>0, <1>5, <1>a DEF PublishReturn, NextNumber, TypeOK
  <2>2. QED
    BY <1>0, <1>5, <2>1, QuietKeepsOrder DEF PublishReturn
<1>6. ASSUME NEW w \in Watcher, SubscribeLock(w) \/ Subscribe(w) PROVE OrderInv'
  BY <1>6, <1>b DEF SubscribeLock, Subscribe
<1>7. ASSUME NEW w \in Watcher, ContextDone(w) \/ ContextStop(w) \/ ConsumerStop(w)
      PROVE  OrderInv'
  BY <1>7, <1>b DEF ContextDone, ContextStop, ConsumerStop
<1>8. ASSUME NEW w \in Watcher, StopLock(w) \/ Stop(w) PROVE OrderInv'
  BY <1>8, <1>b DEF StopLock, Stop
<1>9. ASSUME NEW w \in Watcher, CloseChannel(w) \/ DrainEnd(w) PROVE OrderInv'
  BY <1>9, <1>b DEF CloseChannel, DrainEnd
<1>10. ASSUME NEW w \in Watcher, Drain(w) PROVE OrderInv'
  <2>1. /\ buf[w] # <<>> /\ buf'[w] = Tail(buf[w])
        /\ \A v \in Watcher : v # w => buf'[v] = buf[v]
        /\ UNCHANGED <<rcvd, pc, evt, todo>>
    BY <1>0, <1>10 DEF Drain, TypeOK
  <2>2. \A v \in Watcher : v # w => StreamOrdered(v)'
    BY <1>c, <2>1 DEF StreamOrdered, NextNumber
  <2>3. /\ Increasing(Tail(buf[w])) /\ Before(rcvd[w], Tail(buf[w]))
        /\ \A p, n : OlderThan(buf[w], p, n) => OlderThan(Tail(buf[w]), p, n)
    BY <1>c, <2>1, HeadInOrder DEF StreamOrdered
  <2>4. StreamOrdered(w)'
    BY <1>c, <2>1, <2>3 DEF StreamOrdered, NextNumber
  <2>5. QED
    BY <1>0, <2>2, <2>4 DEF OrderInv
<1>11. ASSUME NEW w \in Watcher, ResultChan(w) \/ ReceiveClosed(w) PROVE OrderInv'
  BY <1>11, <1>b DEF ResultChan, ReceiveClosed
<1>12. ASSUME NEW w \in Watcher, Receive(w) PROVE OrderInv'
  <2>1. /\ buf[w] # <<>> /\ buf'[w] = Tail(buf[w])
        /\ rcvd'[w] = Append(rcvd[w], Head(buf[w]))
        /\ \A v \in Watcher : v # w => buf'[v] = buf[v] /\ rcvd'[v] = rcvd[v]
        /\ UNCHANGED <<pc, evt, todo>>
    BY <1>0, <1>12 DEF Receive, TypeOK
  <2>2. \A v \in Watcher : v # w => StreamOrdered(v)'
    BY <1>c, <2>1 DEF StreamOrdered, NextNumber
  <2>3. /\ Increasing(Tail(buf[w])) /\ Increasing(Append(rcvd[w], Head(buf[w])))
        /\ Before(Append(rcvd[w], Head(buf[w])), Tail(buf[w]))
        /\ \A p, n : OlderThan(buf[w], p, n) => OlderThan(Tail(buf[w]), p, n)
        /\ \A p, n : OlderThan(rcvd[w], p, n) /\ OlderThan(buf[w], p, n)
                         => OlderThan(Append(rcvd[w], Head(buf[w])), p, n)
    BY <1>c, <2>1, HeadInOrder DEF StreamOrdered
  <2>4. StreamOrdered(w)'
    BY <1>c, <2>1, <2>3 DEF StreamOrdered, NextNumber
  <2>5. QED
    BY <1>0, <2>2, <2>4 DEF OrderInv
<1>13. CASE UNCHANGED vars
  BY <1>13, <1>b DEF vars
<1>14. QED
  BY <1>1, <1>2, <1>3, <1>4, <1>5, <1>6, <1>7, <1>8, <1>9, <1>10, <1>11, <1>12, <1>13
  DEF Next, PublisherStep, StopperStep, ConsumerStep

(***************************************************************************)
(* When events are numbered, every stream, what its consumer has received  *)
(* followed by what waits in its channel, has the events of one publisher  *)
(* in the order of Publish and none of them twice, for any capacity, any   *)
(* number of publishers and whatever timeouts and drains drop.             *)
(***************************************************************************)
THEOREM AlwaysInOrder ==
    ASSUME Record
    PROVE  Spec => []InOrder
<1>1. Init => OrderInv
  BY OrderInvInit
<1>2. OrderInv /\ [Next]_vars => OrderInv'
  BY OrderInvStep
<1>3. OrderInv => InOrder
  <2> SUFFICES ASSUME OrderInv, NEW w \in Watcher PROVE Increasing(rcvd[w] \o buf[w])
    BY DEF InOrder, Increasing
  <2>1. rcvd[w] \in Seq(Event) /\ buf[w] \in Seq(Event) /\ StreamOrdered(w)
    BY DEF OrderInv, LockInv, TypeOK
  <2>2. QED
    BY <2>1, ConcatInOrder DEF StreamOrdered
<1>4. QED
  BY <1>1, <1>2, <1>3, PTL DEF Spec
=============================================================================
