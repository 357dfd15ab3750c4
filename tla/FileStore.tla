------------------------------ MODULE FileStore ------------------------------
(***************************************************************************)
(* pkg/storage/filestore.go: an inMemoryStore whose resources are also     *)
(* written to one YAML file each, and loaded from there at startup.        *)
(*                                                                         *)
(* filestore has a mutex of its own, which Create, Update and Delete hold  *)
(* from beginning to end: there is at most one operation `op', at `step'.  *)
(* Update and Delete also hold the embedded store's mutex for all of their *)
(* steps, Create only for its initial Get; Get and List take the embedded  *)
(* store's mutex only.  The process may die, or the power fail, between    *)
(* any two steps; a restarted server begins with loadFromFiles.            *)
(*                                                                         *)
(* A resource is a spec and a status; the file holds the spec alone        *)
(* (withoutStatusAndResourceVersion).  Publishing the events is part of    *)
(* the last step (module Store is about events).                           *)
(*                                                                         *)
(* Create stores the object it is given, and not a copy of it: a caller    *)
(* that edited it afterwards would change the stored resource.  None of    *)
(* the callers of Create does, and a caller is not modelled that might.    *)
(***************************************************************************)
EXTENDS Naturals, FiniteSets

CONSTANTS NumKeys,    \* resources: 1..NumKeys, numbered in file name order
          Sp,         \* specs
          Status,     \* statuses
          ZeroStatus, \* the status of a resource decoded from its file
          Client,     \* API clients that write back what they have read
          Reader,     \* goroutines in List
          None,       \* no spec: there is no such resource or no such file
          Torn,       \* content of a file that was not written completely
          PowerFails, \* TRUE: not only the process may die but the machine
          MaxSeq,     \* bound: resource versions per incarnation
          MaxRestart  \* bound: restarts

Key == 1..NumKeys

ASSUME NumKeysAssumption == NumKeys \in Nat
ASSUME ContentAssumption ==
    None \notin Sp /\ Torn \notin Sp /\ None # Torn /\ ZeroStatus \in Status
ASSUME BoundsAssumption == MaxSeq \in Nat /\ MaxRestart \in Nat
ASSUME PowerAssumption == PowerFails \in BOOLEAN

VARIABLES items,    \* s.items
          seq,      \* s.seq
          file,     \* file[k]: content of k's .yaml file
          maybe,    \* maybe[k]: contents the disk may hold after a power failure
          temp,     \* contents the disk may hold of the temporary file
          step,     \* where the operation is, "idle" if there is none,
                    \* "failed" if the server does not come up
          op,       \* the operation in progress (the last one when idle)
          wrote,    \* the operation has renamed or removed its file
          reading,  \* goroutines iterating over s.items under the inner mutex
          got,      \* got[c]: the resource c has read and means to write back;
                    \* its field run is history: the incarnation it was read from
          restarts, \* number of restarts
          tainted   \* history: resources whose file was last written by an
                    \* update that was then rejected

memVars == <<items, seq>>
diskVars == <<file, maybe, temp>>
opVars == <<step, op, wrote>>
vars == <<memVars, diskVars, opVars, reading, got, restarts, tainted>>

Item == [rv: Nat, spec: Sp, status: Status]
Absent == [rv |-> 0, spec |-> None, status |-> ZeroStatus]
Nothing == [key |-> 0, item |-> Absent, run |-> 0]
Copy == [key: Key, item: Item, run: 0..MaxRestart]
Op == [kind: {"Create", "Update", "Delete"}, key: Key, rv: Nat,
       spec: Sp \cup {None}, status: Status]
NoOp == [kind |-> "None"]
Steps == {"idle", "temp", "sync", "rename", "remove", "check", "apply",
          "failed"}
Content == Sp \cup {None, Torn}

TypeOK ==
    /\ items \in [Key -> Item \cup {Absent}]
    /\ seq \in 0..(MaxSeq + NumKeys)
    /\ file \in [Key -> Content]
    /\ maybe \in [Key -> SUBSET Content]
    /\ temp \subseteq Content
    /\ step \in Steps
    /\ op \in Op \cup {NoOp}
    /\ step \notin {"idle", "failed"} => op \in Op
    /\ wrote \in BOOLEAN
    /\ reading \subseteq Reader
    /\ got \in [Client -> Copy \cup {Nothing}]
    /\ restarts \in 0..MaxRestart
    /\ tainted \subseteq Key

Init ==
    /\ items = [k \in Key |-> Absent]
    /\ seq = 0
    /\ file = [k \in Key |-> None]
    /\ maybe = [k \in Key |-> {None}]
    /\ temp = {}
    /\ step = "idle"
    /\ op = NoOp
    /\ wrote = FALSE
    /\ reading = {}
    /\ got = [c \in Client |-> Nothing]
    /\ restarts = 0
    /\ tainted = {}

Exists(k) == items[k] # Absent

-----------------------------------------------------------------------------
(* Reading, under the embedded store's mutex *)

\* Update and Delete hold the inner mutex while they run, Create does not.
InnerMutexFree == reading = {} /\ (step = "idle" \/ op.kind = "Create")

\* Get; a client means to edit and write back what it got.
Get(c, k) ==
    /\ InnerMutexFree
    /\ Exists(k)
    /\ got' = [got EXCEPT ![c] = [key |-> k, item |-> items[k], run |-> restarts]]
    /\ UNCHANGED <<memVars, diskVars, opVars, reading, restarts, tainted>>

\* List iterates over the map with the inner mutex held.
ListBegin(r) ==
    /\ InnerMutexFree
    /\ reading' = reading \cup {r}
    /\ UNCHANGED <<memVars, diskVars, opVars, got, restarts, tainted>>

ListEnd(r) ==
    /\ r \in reading
    /\ reading' = reading \ {r}
    /\ UNCHANGED <<memVars, diskVars, opVars, got, restarts, tainted>>

-----------------------------------------------------------------------------
(* Operations: the filestore's mutex is taken, the preconditions checked *)

Begin(kind, k, ver, sp, stat, next) ==
    /\ step = "idle"
    /\ op' = [kind |-> kind, key |-> k, rv |-> ver, spec |-> sp, status |-> stat]
    /\ step' = next
    /\ wrote' = FALSE

\* Create: AlreadyExists unless Get finds nothing; the version is drawn
\* before the file is written, and lost if writing fails.
CreateBegin(k, sp, stat) ==
    /\ InnerMutexFree
    /\ ~Exists(k)
    /\ seq < MaxSeq
    /\ seq' = seq + 1
    /\ Begin("Create", k, seq + 1, sp, stat, "temp")
    /\ UNCHANGED <<items, diskVars, reading, got, restarts, tainted>>

\* Update up to the end of the caller's closure: `ver' is the version of the
\* edited object.  The file is written only if the object differs.
UpdateBegin(k, ver, sp, stat) ==
    /\ InnerMutexFree
    /\ Exists(k)
    /\ seq < MaxSeq
    /\ LET unchanged == items[k] = [rv |-> ver, spec |-> sp, status |-> stat]
       IN Begin("Update", k, ver, sp, stat, IF unchanged THEN "check" ELSE "temp")
    /\ UNCHANGED <<memVars, diskVars, reading, got, restarts, tainted>>

\* A PATCH or a reconciler's update edits the stored object.
ModifyBegin(k, sp, stat) == UpdateBegin(k, items[k].rv, sp, stat)

\* A PUT replaces it by an edited copy of what the client read before.
PutBegin(c, sp) ==
    /\ got[c] # Nothing
    /\ UpdateBegin(got[c].key, got[c].item.rv, sp, got[c].item.status)

\* Delete, once the caller's validation has agreed.
DeleteBegin(k) ==
    /\ InnerMutexFree
    /\ Exists(k)
    /\ Begin("Delete", k, items[k].rv, None, ZeroStatus, "remove")
    /\ UNCHANGED <<memVars, diskVars, reading, got, restarts, tainted>>

-----------------------------------------------------------------------------
(* writeFile: a temporary file is written, synced and renamed *)

\* The file is encoded into the page cache: the disk may have any part of it.
WriteTemp ==
    /\ step = "temp"
    /\ step' = "sync"
    /\ temp' = {op.spec, Torn}
    /\ UNCHANGED <<memVars, file, maybe, op, wrote, reading, got, restarts, tainted>>

\* Mutant: the temporary file is not synced before it is renamed.
WriteUnsynced ==
    /\ step = "sync"
    /\ step' = "rename"
    /\ UNCHANGED <<memVars, diskVars, op, wrote, reading, got, restarts, tainted>>

\* f.Sync and f.Close: the data is on the disk.
WriteSync ==
    /\ step = "sync"
    /\ step' = "rename"
    /\ temp' = {op.spec}
    /\ UNCHANGED <<memVars, file, maybe, op, wrote, reading, got, restarts, tainted>>

\* os.Rename is atomic and gives the file whatever the disk has of the
\* temporary one.  The directory is not synced: until the file system writes
\* it back a power failure may bring the old file back.
Rename ==
    /\ step = "rename"
    /\ file' = [file EXCEPT ![op.key] = op.spec]
    /\ maybe' = [maybe EXCEPT ![op.key] = @ \cup temp]
    /\ temp' = {}
    /\ step' = IF op.kind = "Create" THEN "apply" ELSE "check"
    /\ wrote' = TRUE
    /\ UNCHANGED <<memVars, op, reading, got, restarts, tainted>>

\* Mutant: Delete leaves the file where it is.
RemoveForgotten ==
    /\ step = "remove"
    /\ step' = "apply"
    /\ UNCHANGED <<memVars, diskVars, op, wrote, reading, got, restarts, tainted>>

\* Delete's os.Remove; a missing file is fine.
Remove ==
    /\ step = "remove"
    /\ file' = [file EXCEPT ![op.key] = None]
    /\ maybe' = [maybe EXCEPT ![op.key] = @ \cup {None}]
    /\ step' = "apply"
    /\ wrote' = TRUE
    /\ UNCHANGED <<memVars, temp, op, reading, got, restarts, tainted>>

\* Mutant: the error is logged and the operation goes on.
IOErrorIgnored ==
    /\ step \in {"temp", "sync", "rename", "remove"}
    /\ step' = "apply"
    /\ UNCHANGED <<memVars, diskVars, op, wrote, reading, got, restarts, tainted>>

\* An error of any of these calls ends the operation with that error; a
\* temporary file that is left lying about is never read.
IOError ==
    /\ step \in {"temp", "sync", "rename", "remove"}
    /\ step' = "idle"
    /\ temp' = {}
    /\ UNCHANGED <<memVars, file, maybe, op, wrote, reading, got, restarts, tainted>>

-----------------------------------------------------------------------------
(* Back in the embedded store *)

\* Update compares the versions after the closure, and so after the file was
\* written; a conflict is returned to the caller.
Conflict ==
    /\ step = "check"
    /\ items[op.key].rv # op.rv
    /\ step' = "idle"
    /\ tainted' = IF wrote THEN tainted \cup {op.key} ELSE tainted
    /\ UNCHANGED <<memVars, diskVars, op, wrote, reading, got, restarts>>

Checked ==
    /\ step = "check"
    /\ items[op.key].rv = op.rv
    /\ step' = "apply"
    /\ UNCHANGED <<memVars, diskVars, op, wrote, reading, got, restarts, tainted>>

\* Mutant: an update does not draw a new version.
ApplySameVersion ==
    /\ step = "apply"
    /\ items' = [items EXCEPT ![op.key] =
                     IF op.kind = "Delete" THEN Absent
                     ELSE [rv |-> op.rv, spec |-> op.spec, status |-> op.status]]
    /\ step' = "idle"
    /\ UNCHANGED <<seq, diskVars, op, wrote, reading, got, restarts, tainted>>

\* The map is changed and the event published; Update draws its version here.
Apply ==
    /\ step = "apply"
    /\ LET ver == IF op.kind = "Update" THEN seq + 1 ELSE op.rv
           new == IF op.kind = "Delete" THEN Absent
                  ELSE [rv |-> ver, spec |-> op.spec, status |-> op.status]
       IN /\ items' = [items EXCEPT ![op.key] = new]
          /\ seq' = IF op.kind = "Update" THEN seq + 1 ELSE seq
    /\ step' = "idle"
    /\ tainted' = IF wrote THEN tainted \ {op.key} ELSE tainted
    /\ UNCHANGED <<diskVars, op, wrote, reading, got, restarts>>

-----------------------------------------------------------------------------
(* The disk and restarts *)

\* The file system writes back the directory entry of k and the file's data.
Flush(k) ==
    /\ maybe[k] # {file[k]}
    /\ maybe' = [maybe EXCEPT ![k] = {file[k]}]
    /\ UNCHANGED <<memVars, file, temp, opVars, reading, got, restarts, tainted>>

\* loadFromFiles: the .yaml files in name order, each with the next version.
Load(f) ==
    [k \in Key |->
        IF f[k] = None THEN Absent
        ELSE [rv |-> Cardinality({j \in 1..k : f[j] # None}),
              spec |-> f[k], status |-> ZeroStatus]]

\* The server is started with the files f; loadFromFiles gives up at a file it
\* cannot decode, and the server with it.
Restart(f) ==
    /\ restarts < MaxRestart
    /\ restarts' = restarts + 1
    /\ file' = f
    /\ items' = Load(f)
    /\ seq' = Cardinality({k \in Key : f[k] # None})
    /\ step' = IF \E k \in Key : f[k] = Torn THEN "failed" ELSE "idle"
    /\ temp' = {}
    /\ op' = NoOp
    /\ wrote' = FALSE
    /\ reading' = {}
    /\ tainted' = {}
    /\ UNCHANGED got

\* The process dies, or is terminated, and is started again.
ProcessRestart ==
    /\ Restart(file)
    /\ UNCHANGED maybe

\* The machine loses power: every file is one the disk may hold.
PowerFailure ==
    /\ PowerFails
    /\ \E f \in [Key -> Content] :
          /\ \A k \in Key : f[k] \in maybe[k]
          /\ Restart(f)
          /\ maybe' = [k \in Key |-> {f[k]}]

-----------------------------------------------------------------------------
CallStep ==
    \/ \E k \in Key, sp \in Sp, stat \in Status :
           CreateBegin(k, sp, stat) \/ ModifyBegin(k, sp, stat)
    \/ \E c \in Client, sp \in Sp : PutBegin(c, sp)
    \/ \E k \in Key : DeleteBegin(k)
    \/ \E c \in Client, k \in Key : Get(c, k)

OpStep ==
    WriteTemp \/ WriteSync \/ Rename \/ Remove \/ IOError
        \/ Conflict \/ Checked \/ Apply

Next ==
    \/ CallStep \/ OpStep
    \/ \E r \in Reader : ListBegin(r) \/ ListEnd(r)
    \/ \E k \in Key : Flush(k)
    \/ ProcessRestart \/ PowerFailure

Spec == Init /\ [][Next]_vars

-----------------------------------------------------------------------------
(* Properties *)

(***************************************************************************)
(* The files follow the memory: a resource's file holds its spec, except   *)
(* for the operation in progress once that has touched its file, and for   *)
(* the file left behind by an update that was rejected after it had been   *)
(* written.  No I/O error or restart, at whatever step, separates the two. *)
(***************************************************************************)
FileFollowsMemory ==
    \A k \in Key :
        \/ file[k] = items[k].spec
        \/ step # "idle" /\ wrote /\ op.key = k
        \/ k \in tainted

(***************************************************************************)
(* The server comes up again after a power failure at any point, although  *)
(* loadFromFiles gives up at the first file it cannot decode: whatever the *)
(* disk has of a file is an old or a new content, complete.                *)
(***************************************************************************)
AlwaysLoadable == step # "failed"

(***************************************************************************)
(* Within one run of the server the version a client writes back           *)
(* identifies what it read, although Create draws the version long before  *)
(* the resource becomes visible and failed writes use versions up.         *)
(***************************************************************************)
VersionIdentifiesContent ==
    \A c \in Client : got[c] # Nothing /\ got[c].run = restarts =>
        LET item == items[got[c].key]
        IN item.rv = got[c].item.rv => item = got[c].item

(***************************************************************************)
(* The map is changed while another goroutine iterates over it (which ends *)
(* a Go program) by Create at most: Update and Delete hold the inner mutex.*)
(***************************************************************************)
OnlyCreateRaces == step = "apply" /\ reading # {} => op.kind = "Create"

\* The durable map and the write in progress, as DurableStore sees them.
Cur == [k \in Key |-> items[k].spec]
Pend == IF step \in {"idle", "failed"} THEN [key |-> None] ELSE [key |-> op.key, content |-> op.spec]

Durable == INSTANCE DurableStore WITH Content <- Sp \cup {None}, cur <- Cur, pend <- Pend

(***************************************************************************)
(* As long as nobody writes back a stale copy (Client is empty: PATCHes    *)
(* and the reconcilers' updates only) and the machine does not lose power, *)
(* the file store is an atomic durable map.                                *)
(***************************************************************************)
DurableSpec == Durable!Spec
=============================================================================
