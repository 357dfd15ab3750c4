----------------------------- MODULE SyncClient -----------------------------
(***************************************************************************)
(* ui/src/stores/sync.ts on top of the in-memory store: the web UI keeps a *)
(* local copy of a resource collection by listing it and watching from the *)
(* listed resource version.                                                *)
(*                                                                         *)
(* The client is a watcher of module Store.  Its copy is an array; here    *)
(* view[w][k] is the first entry for k (the one findIndex finds) and       *)
(* dup[w] the resources with a further entry, pushed by an ADDED event for *)
(* a resource that was there already.                                      *)
(***************************************************************************)
EXTENDS Store

VARIABLES view,      \* resources.value: first entry of each resource
          dup,       \* resources with more than one entry
          gen,       \* history: number of changes of the store
          listGen,   \* history: gen when w listed
          openGen    \* history: gen when w was subscribed

clientVars == <<view, dup>>
genVars == <<gen, listGen, openGen>>
syncVars == <<vars, clientVars, genVars>>

SyncTypeOK ==
    /\ TypeOK
    /\ view \in [Watcher -> [Key -> Item \cup {Absent}]]
    /\ dup \in [Watcher -> SUBSET Key]
    /\ gen \in Nat
    /\ listGen \in [Watcher -> Nat]
    /\ openGen \in [Watcher -> Nat]

SyncInit ==
    /\ Init
    /\ view = [w \in Watcher |-> [k \in Key |-> Absent]]
    /\ dup = [w \in Watcher |-> {}]
    /\ gen = 0
    /\ listGen = [w \in Watcher |-> 0]
    /\ openGen = [w \in Watcher |-> 0]

-----------------------------------------------------------------------------
(* The environment: everybody else who uses the store *)

\* Writers and the publication of their events; gen counts the changes.
OthersStep ==
    /\ WriterStep \/ Emit
    /\ gen' = IF items' # items THEN gen + 1 ELSE gen
    /\ UNCHANGED <<clientVars, listGen, openGen>>

-----------------------------------------------------------------------------
(* The loop of sync() *)

\* client.list(): the array is replaced.
SyncList(w) ==
    /\ List(w)
    /\ view' = [view EXCEPT ![w] = items]
    /\ dup' = [dup EXCEPT ![w] = {}]
    /\ listGen' = [listGen EXCEPT ![w] = gen]
    /\ UNCHANGED <<gen, openGen>>

\* client.watch() from the listed version: refused with Gone, or accepted.
SyncWatch(w) ==
    /\ WatchCheck(w) \/ WatchGone(w)
    /\ UNCHANGED <<clientVars, genVars>>

SyncSubscribed(w) ==
    /\ WatchSubscribe(w)
    /\ openGen' = [openGen EXCEPT ![w] = gen]
    /\ UNCHANGED <<clientVars, gen, listGen>>

Known(w, k) == view[w][k] # Absent

\* Mutant: DELETED events are not handled.
ViewAfterNoDelete(w, e) ==
    IF e.type = "DELETED" \/ Known(w, e.key) = (e.type = "ADDED")
    THEN view[w] ELSE [view[w] EXCEPT ![e.key] = e.item]

\* The array after an event.  ADDED pushes an entry, MODIFIED replaces the
\* first one, DELETED filters out all; the first entry stays as it is on
\* ADDED for a known resource and on MODIFIED for an unknown one.
ViewAfter(w, e) ==
    IF e.type # "DELETED" /\ Known(w, e.key) = (e.type = "ADDED")
    THEN view[w] ELSE [view[w] EXCEPT ![e.key] = Outcome(e)]

DupAfter(w, e) ==
    IF e.type = "DELETED" THEN dup[w] \ {e.key}
    ELSE IF e.type = "ADDED" /\ Known(w, e.key) THEN dup[w] \cup {e.key}
    ELSE dup[w]

SyncEvent(w) ==
    /\ Consume(w)
    /\ view' = [view EXCEPT ![w] = ViewAfter(w, Head(queue[w]))]
    /\ dup' = [dup EXCEPT ![w] = DupAfter(w, Head(queue[w]))]
    /\ UNCHANGED genVars

\* The stream ends without an error (the server kicked the watcher or its
\* request timed out): sync() resolves and the loop is left.
SyncStreamEnd(w) ==
    /\ WatchEnd(w, "done")
    /\ UNCHANGED <<clientVars, genVars>>

\* The stream breaks: the error is caught and the loop goes round again ...
SyncStreamError(w) ==
    /\ WatchEnd(w, "backoff")
    /\ UNCHANGED <<clientVars, genVars>>

\* ... after 5 seconds.
SyncRetry(w) ==
    /\ Retry(w)
    /\ UNCHANGED <<clientVars, genVars>>

\* onCancel, at any await of the loop.
SyncCancel(w) ==
    /\ WatchCancel(w)
    /\ UNCHANGED <<clientVars, genVars>>

SyncStep(w) ==
    \/ SyncList(w) \/ SyncWatch(w) \/ SyncSubscribed(w) \/ SyncEvent(w)
    \/ SyncStreamEnd(w) \/ SyncStreamError(w) \/ SyncRetry(w)

SyncNext == OthersStep \/ \E w \in Watcher : SyncStep(w) \/ SyncCancel(w)

SyncSpec == SyncInit /\ [][SyncNext]_syncVars

-----------------------------------------------------------------------------
(* Properties *)

\* Nothing changed between w's list and its subscription, and no event was
\* dropped since.
CleanHandover(w) == st[w] = "open" /\ ~kicked[w] /\ openGen[w] = listGen[w]

(***************************************************************************)
(* After a clean handover from list to watch the UI's copy and the events  *)
(* still on their way always add up to the store: a resource without an    *)
(* event on its way is shown as it is, and no resource is shown twice.     *)
(* (The last event of any other resource is StreamEndsAtStore's subject.)  *)
(***************************************************************************)
CopyAddsUp ==
    \A w \in Watcher : CleanHandover(w) =>
        /\ dup[w] = {}
        /\ \A k \in Key :
               (\A i \in 1..Len(Pending(w)) : Pending(w)[i].key # k)
                   => view[w][k] = items[k]

(***************************************************************************)
(* inmemorystore.go:38 refuses a watch when the "provided resource version *)
(* ... is outdated": a watch that is accepted goes on where the list       *)
(* ended, so that a resource without an event on its way is shown as it is.*)
(***************************************************************************)
HandoverMissesNothing ==
    \A w \in Watcher : st[w] = "open" /\ ~kicked[w] =>
        \A k \in Key : view[w][k] # items[k] =>
            \E i \in 1..Len(Pending(w)) : Pending(w)[i].key = k
=============================================================================
