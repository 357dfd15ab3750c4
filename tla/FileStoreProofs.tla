--------------------------- MODULE FileStoreProofs ---------------------------
(***************************************************************************)
(* The file store: its files are always loadable and follow the memory,    *)
(* whatever fails at whatever step, and no update overwrites one it has    *)
(* not seen, for any number of resources, clients, readers and restarts;   *)
(* and, where nobody writes back a stale copy and the power stays on, it   *)
(* implements the atomic durable map of module DurableStore.               *)
(***************************************************************************)
EXTENDS FileStore, FiniteSetTheorems, TLAPS

(***************************************************************************)
(* The strengthening: what each step of an operation knows.                *)
(***************************************************************************)

\* Which operations are at which step, and with which content.
OpShape ==
    step # "idle" =>
        /\ IF op.kind = "Delete" THEN op.spec = None ELSE op.spec \in Sp
        /\ step \in {"temp", "sync", "rename"} => op.kind # "Delete"
        /\ step = "remove" => op.kind = "Delete"
        /\ step = "check" => op.kind = "Update"
        /\ op.kind = "Update" => seq < MaxSeq

\* The file of the operation is touched by its last disk step only; once the
\* disk steps are over the file has the new content, or it was not written
\* because the spec is not to change.
OpProgress ==
    /\ step \in {"temp", "sync", "rename", "remove"} => ~wrote
    /\ step \in {"check", "apply"} =>
           IF wrote THEN file[op.key] = op.spec ELSE items[op.key].spec = op.spec

\* No file is torn, nor can be after a power failure: what is renamed is a
\* temporary file of which the disk has all of its content.
WholeFiles ==
    /\ step # "failed"
    /\ \A k \in Key : file[k] # Torn /\ Torn \notin maybe[k]
    /\ step = "rename" => temp = {op.spec}

DiskInv == TypeOK /\ OpShape /\ OpProgress /\ WholeFiles /\ FileFollowsMemory

\* Initially there are no files and nothing is in progress.
LEMMA DiskInvInit == Init => DiskInv
<1> SUFFICES ASSUME Init PROVE DiskInv
  OBVIOUS
<1>1. TypeOK
  <2>1. 0 \in 0..(MaxSeq + NumKeys) /\ 0 \in 0..MaxRestart
    BY NumKeysAssumption, BoundsAssumption
  <2>2. file \in [Key -> Content] /\ maybe \in [Key -> SUBSET Content] /\ temp \subseteq Content
    BY DEF Init, Content
  <2>3. QED
    BY <2>1, <2>2 DEF Init, TypeOK, Steps
<1>2. OpShape /\ OpProgress
  BY DEF Init, OpShape, OpProgress
<1>3. WholeFiles /\ FileFollowsMemory
  BY ContentAssumption DEF Init, WholeFiles, FileFollowsMemory, Absent
<1>4. QED
  BY <1>1, <1>2, <1>3 DEF DiskInv

\* The number of resources loaded from files, and each one's version.
LEMMA LoadedCount ==
    ASSUME NEW f, NEW n \in 0..NumKeys
    PROVE  Cardinality({j \in 1..n : f[j] # None}) \in 0..NumKeys
<1>1. n \in Int /\ NumKeys \in Nat
  BY NumKeysAssumption
<1>2. IsFiniteSet(1..n) /\ Cardinality(1..n) = IF 1 > n THEN 0 ELSE n - 1 + 1
  BY <1>1, FS_Interval
<1> DEFINE S == {j \in 1..n : f[j] # None}
<1>3. S \in SUBSET (1..n)
  OBVIOUS
<1> HIDE DEF S
<1>4. IsFiniteSet(S) /\ Cardinality(S) <= Cardinality(1..n)
  BY <1>2, <1>3, FS_Subset
<1>5. Cardinality(S) \in Nat
  BY <1>4, FS_CardinalityType
<1>6. QED
  BY <1>1, <1>2, <1>4, <1>5 DEF S

\* What loadFromFiles makes of complete files.
LEMMA LoadType ==
    ASSUME NEW f \in [Key -> Sp \cup {None}]
    PROVE  /\ Load(f) \in [Key -> Item \cup {Absent}]
           /\ \A k \in Key : Load(f)[k].spec = f[k]
<1>1. ASSUME NEW k \in Key
      PROVE  /\ Load(f)[k] \in Item \cup {Absent}
             /\ Load(f)[k].spec = f[k]
  <2>1. CASE f[k] = None
    BY <2>1 DEF Load, Absent
  <2>2. CASE f[k] # None
    <3> DEFINE n == Cardinality({j \in 1..k : f[j] # None})
    <3>1. k \in 0..NumKeys
      BY NumKeysAssumption DEF Key
    <3>2. n \in Nat
      BY <3>1, LoadedCount
    <3>3. Load(f)[k] = [rv |-> n, spec |-> f[k], status |-> ZeroStatus]
      BY <2>2 DEF Load
    <3> HIDE DEF n
    <3>4. QED
      BY <2>2, <3>2, <3>3, ContentAssumption DEF Item
  <2>3. QED
    BY <2>1, <2>2
<1>2. Load(f) = [k \in Key |-> Load(f)[k]]
  BY DEF Load
<1>3. QED
  BY <1>1, <1>2

\* The start of an operation, whatever it is.
LEMMA DiskInvBegin ==
    ASSUME DiskInv, NEW kind \in {"Create", "Update", "Delete"}, NEW k \in Key,
           NEW ver \in Nat, NEW sp \in Sp \cup {None}, NEW stat \in Status,
           NEW next \in {"temp", "remove", "check"},
           Begin(kind, k, ver, sp, stat, next),
           UNCHANGED <<items, diskVars, reading, got, restarts, tainted>>,
           seq' \in 0..(MaxSeq + NumKeys),
           IF kind = "Delete" THEN sp = None ELSE sp \in Sp,
           kind = "Delete" <=> next = "remove",
           kind = "Update" => seq' < MaxSeq,
           next = "check" => kind = "Update" /\ items[k].spec = sp
    PROVE  DiskInv'
<1>1. /\ op'.kind = kind /\ op'.key = k /\ op'.spec = sp /\ op' \in Op
      /\ step' = next /\ wrote' = FALSE
  BY DEF Begin, Op
<1>2. TypeOK'
  BY <1>1 DEF DiskInv, TypeOK, Steps, diskVars
<1>3. OpShape' /\ OpProgress'
  BY <1>1 DEF OpShape, OpProgress
<1>4. WholeFiles' /\ FileFollowsMemory'
  BY <1>1 DEF DiskInv, WholeFiles, FileFollowsMemory, Begin, diskVars
<1>5. QED
  BY <1>2, <1>3, <1>4 DEF DiskInv

\* A restart from complete files.
LEMMA DiskInvRestart ==
    ASSUME DiskInv, NEW f \in [Key -> Sp \cup {None}], Restart(f),
           maybe' \in [Key -> SUBSET Content], \A k \in Key : Torn \notin maybe'[k]
    PROVE  DiskInv'
<1>1. Load(f) \in [Key -> Item \cup {Absent}] /\ \A k \in Key : Load(f)[k].spec = f[k]
  BY LoadType
<1>2. Cardinality({k \in Key : f[k] # None}) \in 0..NumKeys
  BY LoadedCount, NumKeysAssumption DEF Key
<1>3. seq' \in 0..(MaxSeq + NumKeys) /\ step' = "idle" /\ items' = Load(f)
      /\ file' = f /\ temp' = {} /\ \A k \in Key : f[k] # Torn
  BY <1>2, NumKeysAssumption, BoundsAssumption, ContentAssumption DEF Restart
<1>4. restarts' \in 0..MaxRestart
  BY BoundsAssumption DEF DiskInv, TypeOK, Restart
<1>5. TypeOK'
  BY <1>1, <1>3, <1>4 DEF DiskInv, TypeOK, Restart, Steps, Content
<1>6. OpShape' /\ OpProgress'
  BY <1>3 DEF OpShape, OpProgress
<1>7. WholeFiles'
  BY <1>3, ContentAssumption DEF WholeFiles
<1>8. FileFollowsMemory'
  BY <1>1, <1>3 DEF FileFollowsMemory
<1>9. QED
  BY <1>5, <1>6, <1>7, <1>8 DEF DiskInv

\* Every file a power failure can leave is one that was written completely.
LEMMA WholeAfterPowerFailure ==
    ASSUME WholeFiles, PowerFailure
    PROVE  \E f \in [Key -> Sp \cup {None}] : Restart(f) /\ maybe' = [k \in Key |-> {f[k]}]
<1>1. PICK f \in [Key -> Content] : /\ \A k \in Key : f[k] \in maybe[k]
                                   /\ Restart(f)
                                   /\ maybe' = [k \in Key |-> {f[k]}]
  BY DEF PowerFailure
<1>2. \A k \in Key : f[k] \in Sp \cup {None}
  BY <1>1 DEF WholeFiles, Content
<1>3. f \in [Key -> Sp \cup {None}]
  BY <1>1, <1>2
<1>4. QED
  BY <1>1, <1>3

\* Every step of the file store preserves the invariant.
LEMMA DiskInvStep == DiskInv /\ [Next]_vars => DiskInv'
<1> SUFFICES ASSUME DiskInv, [Next]_vars PROVE DiskInv'
  OBVIOUS
<1> USE DEF memVars, diskVars, opVars
<1>0. TypeOK /\ OpShape /\ OpProgress /\ WholeFiles /\ FileFollowsMemory
  BY DEF DiskInv
<1>1. ASSUME NEW k \in Key, NEW sp \in Sp, NEW stat \in Status, CreateBegin(k, sp, stat)
      PROVE  DiskInv'
  <2>1. seq + 1 \in Nat /\ seq' \in 0..(MaxSeq + NumKeys)
    BY <1>0, <1>1, NumKeysAssumption, BoundsAssumption DEF TypeOK, CreateBegin
  <2>2. QED
    BY <1>1, <2>1, DiskInvBegin DEF CreateBegin
<1>2. ASSUME NEW k \in Key, NEW ver \in Nat, NEW sp \in Sp, NEW stat \in Status,
             UpdateBegin(k, ver, sp, stat)
      PROVE  DiskInv'
  <2>1. PICK next \in {"temp", "check"} :
            /\ Begin("Update", k, ver, sp, stat, next)
            /\ next = "check" => items[k] = [rv |-> ver, spec |-> sp, status |-> stat]
    BY <1>2 DEF UpdateBegin
  <2>2. next = "check" => items[k].spec = sp
    BY <2>1
  <2>3. seq' = seq /\ seq < MaxSeq /\ seq \in 0..(MaxSeq + NumKeys)
    BY <1>0, <1>2 DEF UpdateBegin, TypeOK
  <2>4. QED
    BY <1>2, <2>1, <2>2, <2>3, DiskInvBegin DEF UpdateBegin
<1>3. ASSUME NEW k \in Key, NEW sp \in Sp, NEW stat \in Status, ModifyBegin(k, sp, stat)
      PROVE  DiskInv'
  <2>1. items[k].rv \in Nat
    BY <1>0 DEF TypeOK, Item, Absent
  <2>2. QED
    BY <1>2, <1>3, <2>1 DEF ModifyBegin
<1>4. ASSUME NEW c \in Client, NEW sp \in Sp, PutBegin(c, sp) PROVE DiskInv'
  <2>1. got[c].key \in Key /\ got[c].item.rv \in Nat /\ got[c].item.status \in Status
    BY <1>0, <1>4 DEF TypeOK, PutBegin, Copy, Item
  <2>2. QED
    BY <1>2, <1>4, <2>1 DEF PutBegin
<1>5. ASSUME NEW k \in Key, DeleteBegin(k) PROVE DiskInv'
  <2>1. items[k].rv \in Nat /\ ZeroStatus \in Status
    BY <1>0, ContentAssumption DEF TypeOK, Item, Absent
  <2>2. seq' = seq /\ seq \in 0..(MaxSeq + NumKeys)
    BY <1>0, <1>5 DEF DeleteBegin, TypeOK
  <2>3. QED
    BY <1>5, <2>1, <2>2, DiskInvBegin DEF DeleteBegin
<1>6. ASSUME NEW c \in Client, NEW k \in Key, Get(c, k) PROVE DiskInv'
  <2>1. got' \in [Client -> Copy \cup {Nothing}]
    BY <1>0, <1>6 DEF TypeOK, Get, Exists, Copy
  <2>2. QED
    BY <1>0, <1>6, <2>1
    DEF Get, DiskInv, TypeOK, OpShape, OpProgress, WholeFiles, FileFollowsMemory
<1>7. ASSUME WriteTemp \/ WriteSync PROVE DiskInv'
  <2>1. /\ step \in {"temp", "sync"} /\ step' \in {"sync", "rename"}
        /\ temp' \in {{op.spec, Torn}, {op.spec}} /\ (step' = "rename" => temp' = {op.spec})
        /\ UNCHANGED <<items, seq, file, maybe, op, wrote, reading, got, restarts, tainted>>
    BY <1>7 DEF WriteTemp, WriteSync
  <2>2. op \in Op /\ op.spec \in Sp
    BY <1>0, <2>1 DEF TypeOK, OpShape
  <2>3. temp' \subseteq Content
    BY <2>1, <2>2 DEF Content
  <2>4. TypeOK'
    BY <1>0, <2>1, <2>2, <2>3 DEF TypeOK, Steps
  <2>5. OpShape' /\ OpProgress' /\ WholeFiles' /\ FileFollowsMemory'
    BY <1>0, <2>1 DEF OpShape, OpProgress, WholeFiles, FileFollowsMemory
  <2>6. QED
    BY <2>4, <2>5 DEF DiskInv
<1>8. ASSUME Rename PROVE DiskInv'
  <2>1. op \in Op /\ op.key \in Key /\ op.spec \in Sp /\ op.kind # "Delete"
    BY <1>0, <1>8 DEF Rename, TypeOK, OpShape, Op
  <2>2. /\ file' \in [Key -> Content] /\ file'[op.key] = op.spec
        /\ \A k \in Key : k # op.key => file'[k] = file[k]
    BY <1>0, <1>8, <2>1 DEF Rename, TypeOK, Content
  <2>3. /\ maybe' \in [Key -> SUBSET Content]
        /\ \A k \in Key : Torn \notin maybe'[k]
    BY <1>0, <1>8, <2>1, ContentAssumption
    DEF Rename, TypeOK, Content, WholeFiles
  <2>4. /\ UNCHANGED <<memVars, op, reading, got, restarts, tainted>>
        /\ wrote' = TRUE /\ temp' = {}
    BY <1>8 DEF Rename
  <2>5. /\ step' \in {"apply", "check"}
        /\ step' = "check" => op.kind = "Update"
    BY <1>8, <2>1 DEF Rename, Op
  <2>6. TypeOK'
    BY <1>0, <2>1, <2>2, <2>3, <2>4, <2>5 DEF TypeOK, Steps
  <2>7. OpShape' /\ OpProgress'
    BY <1>0, <1>8, <2>1, <2>2, <2>4, <2>5 DEF OpShape, OpProgress, Rename
  <2>8. WholeFiles'
    BY <1>0, <2>1, <2>2, <2>3, <2>5, ContentAssumption DEF WholeFiles
  <2>9. FileFollowsMemory'
    BY <1>0, <1>8, <2>2, <2>4, <2>5 DEF FileFollowsMemory, OpProgress, Rename
  <2>10. QED
    BY <2>6, <2>7, <2>8, <2>9 DEF DiskInv
<1>9. ASSUME Remove PROVE DiskInv'
  <2>1. op \in Op /\ op.key \in Key /\ op.spec = None /\ op.kind = "Delete"
    BY <1>0, <1>9 DEF Remove, TypeOK, OpShape, Op
  <2>2. /\ file' \in [Key -> Content] /\ file'[op.key] = None
        /\ \A k \in Key : k # op.key => file'[k] = file[k]
    BY <1>0, <1>9, <2>1 DEF Remove, TypeOK, Content
  <2>3. /\ maybe' \in [Key -> SUBSET Content]
        /\ \A k \in Key : Torn \notin maybe'[k]
    BY <1>0, <1>9, <2>1, ContentAssumption DEF Remove, TypeOK, Content, WholeFiles
  <2>4. /\ UNCHANGED <<memVars, temp, op, reading, got, restarts, tainted>>
        /\ wrote' = TRUE /\ step' = "apply"
    BY <1>9 DEF Remove
  <2>5. TypeOK'
    BY <1>0, <2>1, <2>2, <2>3, <2>4 DEF TypeOK, Steps
  <2>6. OpShape' /\ OpProgress'
    BY <1>0, <1>9, <2>1, <2>2, <2>4 DEF OpShape, OpProgress, Remove
  <2>7. WholeFiles'
    BY <1>0, <2>2, <2>3, <2>4, ContentAssumption DEF WholeFiles
  <2>8. FileFollowsMemory'
    BY <1>0, <1>9, <2>2, <2>4 DEF FileFollowsMemory, OpProgress, Remove
  <2>9. QED
    BY <2>5, <2>6, <2>7, <2>8 DEF DiskInv
<1>10. ASSUME IOError PROVE DiskInv'
  BY <1>0, <1>10 DEF IOError, DiskInv, TypeOK, Steps, OpShape, OpProgress,
                     WholeFiles, FileFollowsMemory
<1>11. ASSUME Conflict PROVE DiskInv'
  <2>1. op.key \in Key
    BY <1>0, <1>11 DEF Conflict, TypeOK, Op
  <2>2. QED
    BY <1>0, <1>11, <2>1
    DEF Conflict, DiskInv, TypeOK, Steps, OpShape, OpProgress, WholeFiles, FileFollowsMemory
<1>12. ASSUME Checked PROVE DiskInv'
  BY <1>0, <1>12 DEF Checked, DiskInv, TypeOK, Steps, OpShape, OpProgress,
                     WholeFiles, FileFollowsMemory
<1>13. ASSUME Apply PROVE DiskInv'
  <2>1. /\ step = "apply" /\ step' = "idle" /\ op \in Op /\ op.key \in Key
        /\ op.rv \in Nat /\ op.status \in Status
        /\ IF op.kind = "Delete" THEN op.spec = None ELSE op.spec \in Sp
    BY <1>0, <1>13 DEF Apply, TypeOK, OpShape, Op
  <2>2. PICK ver \in Nat :
            items' = [items EXCEPT ![op.key] =
                          IF op.kind = "Delete" THEN Absent
                          ELSE [rv |-> ver, spec |-> op.spec, status |-> op.status]]
    <3>1. seq + 1 \in Nat
      BY <1>0 DEF TypeOK
    <3>2. QED
      BY <1>13, <2>1, <3>1 DEF Apply
  <2>3. /\ items' \in [Key -> Item \cup {Absent}]
        /\ items'[op.key].spec = op.spec
        /\ \A k \in Key : k # op.key => items'[k] = items[k]
    BY <1>0, <2>1, <2>2 DEF TypeOK, Item, Absent
  <2>4. seq' \in 0..(MaxSeq + NumKeys)
    <3>1. op.kind = "Update" => seq < MaxSeq
      BY <1>0, <2>1 DEF OpShape
    <3>2. QED
      BY <1>0, <1>13, <3>1, NumKeysAssumption, BoundsAssumption DEF TypeOK, Apply
  <2>5. /\ UNCHANGED <<diskVars, op, wrote, reading, got, restarts>>
        /\ tainted' = IF wrote THEN tainted \ {op.key} ELSE tainted
    BY <1>13 DEF Apply
  <2>6. TypeOK'
    BY <1>0, <2>1, <2>3, <2>4, <2>5 DEF TypeOK, Steps
  <2>7. OpShape' /\ OpProgress' /\ WholeFiles'
    BY <1>0, <2>1, <2>5 DEF OpShape, OpProgress, WholeFiles
  <2>8. FileFollowsMemory'
    <3>1. file' = file
      BY <2>5
    <3>2. wrote => file[op.key] = items'[op.key].spec
      BY <1>0, <2>1, <2>3 DEF OpProgress
    <3>3. ~wrote => items'[op.key].spec = items[op.key].spec
      BY <1>0, <2>1, <2>3 DEF OpProgress
    <3>4. QED
      BY <1>0, <2>1, <2>3, <2>5, <3>1, <3>2, <3>3 DEF FileFollowsMemory
  <2>9. QED
    BY <2>6, <2>7, <2>8 DEF DiskInv
<1>14. ASSUME NEW r \in Reader, ListBegin(r) \/ ListEnd(r) PROVE DiskInv'
  BY <1>0, <1>14 DEF ListBegin, ListEnd, DiskInv, TypeOK, OpShape, OpProgress,
                     WholeFiles, FileFollowsMemory
<1>15. ASSUME NEW k \in Key, Flush(k) PROVE DiskInv'
  <2>1. maybe' \in [Key -> SUBSET Content] /\ \A j \in Key : Torn \notin maybe'[j]
    BY <1>0, <1>15 DEF Flush, TypeOK, WholeFiles
  <2>2. UNCHANGED <<memVars, file, temp, opVars, reading, got, restarts, tainted>>
    BY <1>15 DEF Flush
  <2>3. QED
    BY <1>0, <2>1, <2>2
    DEF DiskInv, TypeOK, OpShape, OpProgress, WholeFiles, FileFollowsMemory
<1>16. ASSUME ProcessRestart PROVE DiskInv'
  <2>1. file \in [Key -> Sp \cup {None}]
    BY <1>0 DEF TypeOK, WholeFiles, Content
  <2>2. maybe' = maybe /\ Restart(file)
    BY <1>16 DEF ProcessRestart
  <2>3. QED
    BY <1>0, <2>1, <2>2, DiskInvRestart DEF TypeOK, WholeFiles
<1>17. ASSUME PowerFailure PROVE DiskInv'
  <2>1. PICK f \in [Key -> Sp \cup {None}] : Restart(f) /\ maybe' = [k \in Key |-> {f[k]}]
    BY <1>0, <1>17, WholeAfterPowerFailure
  <2>2. maybe' \in [Key -> SUBSET Content] /\ \A k \in Key : Torn \notin maybe'[k]
    BY <2>1, ContentAssumption DEF Content
  <2>3. QED
    BY <2>1, <2>2, DiskInvRestart
<1>18. CASE UNCHANGED vars
  BY <1>0, <1>18 DEF vars, DiskInv, TypeOK, OpShape, OpProgress, WholeFiles,
                     FileFollowsMemory
<1>19. QED
  BY <1>1, <1>3, <1>4, <1>5, <1>6, <1>7, <1>8, <1>9, <1>10, <1>11, <1>12, <1>13,
     <1>14, <1>15, <1>16, <1>17, <1>18
  DEF Next, CallStep, OpStep

(***************************************************************************)
(* The types, the server's coming up after every power failure and the     *)
(* agreement of files and memory, in every reachable state.                *)
(***************************************************************************)
THEOREM FilesSound == Spec => [](TypeOK /\ AlwaysLoadable /\ FileFollowsMemory)
<1>1. Init => DiskInv
  BY DiskInvInit
<1>2. DiskInv /\ [Next]_vars => DiskInv'
  BY DiskInvStep
<1>3. DiskInv => TypeOK /\ AlwaysLoadable /\ FileFollowsMemory
  BY DEF DiskInv, WholeFiles, AlwaysLoadable
<1>4. QED
  BY <1>1, <1>2, <1>3, PTL DEF Spec

\* The variables of the file store keep their types: in particular an operation in
\* progress always has the resource, version and contents its next file step needs.
THEOREM TypeCorrect == Spec => []TypeOK
BY FilesSound, PTL

\* Whatever instant the power fails at, the server comes up again: writeFile syncs
\* the temporary file before it renames it, so that no file loadFromFiles reads is
\* torn.  The order of WriteSync and Rename is what the proof rests on (WholeFiles).
THEOREM NeverTorn == Spec => []AlwaysLoadable
BY FilesSound, PTL

\* The inductive invariant of files and memory holds in every reachable state.
LEMMA DiskInvariant == Spec => []DiskInv
<1>1. Init => DiskInv
  BY DiskInvInit
<1>2. DiskInv /\ [Next]_vars => DiskInv'
  BY DiskInvStep
<1>3. QED
  BY <1>1, <1>2, PTL DEF Spec

-----------------------------------------------------------------------------
(***************************************************************************)
(* Optimistic concurrency within one run of the server.  Create holds a    *)
(* version for as long as it writes its file, during which others read and *)
(* write: VersionIdentifiesContent takes that nobody has read the resource *)
(* with the version that is reserved for it.                               *)
(***************************************************************************)

\* The client has a copy it read from this incarnation of the server.
HasCurrent(c) == got[c] # Nothing /\ got[c].run = restarts

VersionsInUse ==
    /\ \A k \in Key : items[k].rv <= seq /\ (Exists(k) => items[k].rv > 0)
    /\ \A c \in Client : /\ got[c].run <= restarts
                         /\ HasCurrent(c) => got[c].item.rv \in 1..seq

CreateReserves ==
    step # "idle" /\ op.kind = "Create" =>
        /\ ~Exists(op.key)
        /\ op.rv \in 1..seq
        /\ \A c \in Client : HasCurrent(c) /\ got[c].key = op.key => got[c].item.rv # op.rv

VersionInv == DiskInv /\ VersionsInUse /\ CreateReserves /\ VersionIdentifiesContent

\* Initially no version has been drawn and nobody has read anything.
LEMMA VersionInvInit == Init => VersionInv
  BY DiskInvInit
  DEF Init, VersionInv, VersionsInUse, CreateReserves, HasCurrent,
      VersionIdentifiesContent, Exists, Absent, Nothing

\* loadFromFiles numbers the resources from 1 to the sequence number.
LEMMA LoadVersions ==
    ASSUME NEW f \in [Key -> Sp \cup {None}], NEW k \in Key
    PROVE  LET n == Cardinality({j \in Key : f[j] # None})
           IN  n \in Nat /\ IF f[k] = None THEN Load(f)[k] = Absent ELSE Load(f)[k].rv \in 1..n
<1> DEFINE S == {j \in Key : f[j] # None}
           T == {j \in 1..k : f[j] # None}
<1>1. k \in 1..NumKeys /\ NumKeys \in Nat
  BY NumKeysAssumption DEF Key
<1>2. T \subseteq S /\ S \subseteq 1..NumKeys
  BY <1>1 DEF Key
<1>3. IsFiniteSet(1..NumKeys)
  BY <1>1, FS_Interval
<1> HIDE DEF S, T
<1>4. IsFiniteSet(S) /\ Cardinality(S) \in Nat
  BY <1>2, <1>3, FS_Subset, FS_CardinalityType
<1>5. IsFiniteSet(T) /\ Cardinality(T) <= Cardinality(S) /\ Cardinality(T) \in Nat
  BY <1>2, <1>4, FS_Subset, FS_CardinalityType
<1>6. CASE f[k] = None
  BY <1>4, <1>6 DEF Load, S
<1>7. CASE f[k] # None
  <2>1. k \in T
    BY <1>1, <1>7 DEF T
  <2>2. Cardinality(T) # 0
    BY <1>5, <2>1, FS_EmptySet
  <2>3. Load(f)[k].rv = Cardinality(T)
    BY <1>7 DEF Load, T
  <2>4. QED
    BY <1>4, <1>5, <1>7, <2>2, <2>3 DEF S
<1>8. QED
  BY <1>6, <1>7

\* A step that touches neither the map nor the copies and begins nothing.
LEMMA VersionInvQuiet ==
    ASSUME VersionInv, DiskInv', UNCHANGED <<items, seq, got, restarts, op>>,
           step' # "idle" => step # "idle"
    PROVE  VersionInv'
<1>1. VersionsInUse' /\ CreateReserves' /\ VersionIdentifiesContent'
  BY DEF VersionInv, VersionsInUse, CreateReserves, HasCurrent,
         VersionIdentifiesContent, Exists
<1>2. QED
  BY <1>1 DEF VersionInv

\* After a restart every copy is one of an earlier run.
LEMMA VersionInvRestart ==
    ASSUME VersionInv, DiskInv', NEW f \in [Key -> Sp \cup {None}], Restart(f)
    PROVE  VersionInv'
<1>1. /\ items' = Load(f) /\ seq' = Cardinality({k \in Key : f[k] # None})
      /\ step' = "idle" /\ got' = got /\ restarts' = restarts + 1
  BY ContentAssumption DEF Restart
<1>2. \A c \in Client : got[c].run \in Nat /\ got[c].run <= restarts
  BY BoundsAssumption
  DEF VersionInv, VersionsInUse, DiskInv, TypeOK, Copy, Nothing
<1>3. restarts \in Nat
  BY DEF VersionInv, DiskInv, TypeOK
<1>4. \A c \in Client : got'[c].run <= restarts' /\ got'[c].run # restarts'
  BY <1>1, <1>2, <1>3
<1>5. ASSUME NEW k \in Key
      PROVE  items'[k].rv <= seq' /\ (items'[k] # Absent => items'[k].rv > 0)
  BY <1>1, LoadVersions DEF Absent
<1>6. VersionsInUse'
  BY <1>4, <1>5 DEF VersionsInUse, HasCurrent, Exists
<1>7. CreateReserves' /\ VersionIdentifiesContent'
  BY <1>1, <1>4 DEF CreateReserves, VersionIdentifiesContent
<1>8. QED
  BY <1>6, <1>7 DEF VersionInv

\* Every step of the file store preserves the invariant on versions.
LEMMA VersionInvStep == VersionInv /\ [Next]_vars => VersionInv'
<1> SUFFICES ASSUME VersionInv, [Next]_vars PROVE VersionInv'
  OBVIOUS
<1> USE DEF memVars, diskVars, opVars
<1>0. /\ DiskInv /\ DiskInv' /\ TypeOK /\ OpShape /\ seq \in Nat
      /\ VersionsInUse /\ CreateReserves /\ VersionIdentifiesContent
  BY DiskInvStep DEF VersionInv, DiskInv, TypeOK
<1>a. \A k \in Key : items[k].rv \in Nat
  BY <1>0 DEF TypeOK, Item, Absent
<1>1. ASSUME NEW k \in Key, NEW sp \in Sp, NEW stat \in Status, CreateBegin(k, sp, stat)
      PROVE  VersionInv'
  <2>1. /\ seq' = seq + 1 /\ ~Exists(k) /\ UNCHANGED <<items, got, restarts>>
        /\ op'.kind = "Create" /\ op'.key = k /\ op'.rv = seq + 1
    BY <1>1 DEF CreateBegin, Begin
  <2>2. VersionsInUse'
    BY <1>0, <1>a, <2>1 DEF VersionsInUse, HasCurrent, Exists
  <2>3. CreateReserves'
    BY <1>0, <2>1 DEF CreateReserves, VersionsInUse, HasCurrent, Exists
  <2>4. VersionIdentifiesContent'
    BY <1>0, <2>1 DEF VersionIdentifiesContent
  <2>5. QED
    BY <1>0, <2>2, <2>3, <2>4 DEF VersionInv
<1>2. ASSUME UNCHANGED <<items, seq, got, restarts>>, op'.kind # "Create" PROVE VersionInv'
  <2>1. VersionsInUse' /\ CreateReserves' /\ VersionIdentifiesContent'
    BY <1>0, <1>2
    DEF VersionsInUse, CreateReserves, HasCurrent, VersionIdentifiesContent, Exists
  <2>2. QED
    BY <1>0, <2>1 DEF VersionInv
<1>3. ASSUME NEW k, NEW ver, NEW sp, NEW stat, UpdateBegin(k, ver, sp, stat)
      PROVE  VersionInv'
  BY <1>2, <1>3 DEF UpdateBegin, Begin
<1>4. ASSUME NEW k \in Key, DeleteBegin(k) PROVE VersionInv'
  BY <1>2, <1>4 DEF DeleteBegin, Begin
<1>5. ASSUME NEW c \in Client, NEW k \in Key, Get(c, k) PROVE VersionInv'
  <2>1. /\ UNCHANGED <<items, seq, step, op, restarts>> /\ Exists(k)
        /\ got'[c] = [key |-> k, item |-> items[k], run |-> restarts]
        /\ \A d \in Client : d # c => got'[d] = got[d]
    BY <1>0, <1>5 DEF Get, TypeOK
  <2>2. restarts \in Nat /\ items[k].rv \in 1..seq
    BY <1>0, <1>a, <2>1 DEF TypeOK, VersionsInUse
  <2>3. VersionsInUse'
    BY <1>0, <2>1, <2>2 DEF VersionsInUse, HasCurrent, Exists
  <2>4. CreateReserves'
    BY <1>0, <2>1 DEF CreateReserves, HasCurrent, Exists
  <2>5. VersionIdentifiesContent'
    BY <1>0, <2>1 DEF VersionIdentifiesContent
  <2>6. QED
    BY <1>0, <2>3, <2>4, <2>5 DEF VersionInv
<1>6. ASSUME \/ WriteTemp \/ WriteSync \/ Rename \/ Remove \/ IOError \/ Conflict \/ Checked
      PROVE  VersionInv'
  BY <1>0, <1>6, VersionInvQuiet
  DEF WriteTemp, WriteSync, Rename, Remove, IOError, Conflict, Checked
<1>7. ASSUME Apply PROVE VersionInv'
  <2> DEFINE k == op.key
  <2>1. /\ step = "apply" /\ step' = "idle" /\ k \in Key /\ op.rv \in Nat
        /\ op.kind \in {"Create", "Update", "Delete"}
        /\ UNCHANGED <<got, restarts>>
        /\ seq' = IF op.kind = "Update" THEN seq + 1 ELSE seq
    BY <1>0, <1>7 DEF Apply, TypeOK, Op
  <2>2. /\ \A j \in Key : j # k => items'[j] = items[j]
        /\ op.kind = "Delete" => items'[k] = Absent
        /\ op.kind = "Update" => items'[k].rv = seq + 1
        /\ op.kind = "Create" => items'[k].rv = op.rv /\ op.rv \in 1..seq
    BY <1>0, <1>7, <2>1 DEF Apply, TypeOK, CreateReserves
  <2>3. /\ items'[k].rv <= seq' /\ (items'[k] # Absent => items'[k].rv > 0)
        /\ seq <= seq' /\ seq' \in Nat
    BY <1>0, <2>1, <2>2 DEF Absent
  <2> HIDE DEF k
  <2>4. VersionsInUse'
    <3>1. ASSUME NEW j \in Key
          PROVE  items'[j].rv <= seq' /\ (items'[j] # Absent => items'[j].rv > 0)
      BY <1>0, <1>a, <2>2, <2>3 DEF VersionsInUse, Exists
    <3>2. ASSUME NEW c \in Client
          PROVE  got[c].run <= restarts /\ (HasCurrent(c) => got[c].item.rv \in 1..seq')
      BY <1>0, <2>3 DEF VersionsInUse
    <3>3. QED
      BY <2>1, <3>1, <3>2 DEF VersionsInUse, HasCurrent, Exists
  <2>5. CreateReserves'
    BY <2>1 DEF CreateReserves
  <2>6. VersionIdentifiesContent'
    <3> SUFFICES ASSUME NEW c \in Client, HasCurrent(c),
                        items'[got[c].key].rv = got[c].item.rv
                 PROVE  items'[got[c].key] = got[c].item
      BY <2>1 DEF VersionIdentifiesContent, HasCurrent
    <3>1. got[c].key \in Key /\ got[c].item.rv \in 1..seq
      BY <1>0 DEF HasCurrent, TypeOK, Copy, VersionsInUse
    <3>2. got[c].key # k
      <4> SUFFICES ASSUME got[c].key = k PROVE FALSE
        OBVIOUS
      <4>1. op.kind = "Create"
        BY <1>0, <2>1, <2>2, <3>1 DEF Absent
      <4>2. QED
        BY <1>0, <2>1, <2>2, <4>1 DEF CreateReserves, k
    <3>3. QED
      BY <1>0, <2>2, <3>1, <3>2 DEF VersionIdentifiesContent, HasCurrent
  <2>7. QED
    BY <1>0, <2>4, <2>5, <2>6 DEF VersionInv
<1>8. ASSUME NEW r \in Reader, ListBegin(r) \/ ListEnd(r) PROVE VersionInv'
  BY <1>0, <1>8, VersionInvQuiet DEF ListBegin, ListEnd
<1>9. ASSUME NEW k \in Key, Flush(k) PROVE VersionInv'
  BY <1>0, <1>9, VersionInvQuiet DEF Flush
<1>10. ASSUME ProcessRestart PROVE VersionInv'
  <2>1. file \in [Key -> Sp \cup {None}]
    BY <1>0 DEF DiskInv, TypeOK, WholeFiles, Content
  <2>2. QED
    BY <1>0, <1>10, <2>1, VersionInvRestart DEF ProcessRestart
<1>11. ASSUME PowerFailure PROVE VersionInv'
  BY <1>0, <1>11, WholeAfterPowerFailure, VersionInvRestart DEF DiskInv
<1>12. CASE UNCHANGED vars
  BY <1>0, <1>12, VersionInvQuiet DEF vars
<1>13. QED
  BY <1>1, <1>3, <1>4, <1>5, <1>6, <1>7, <1>8, <1>9, <1>10, <1>11, <1>12
  DEF Next, CallStep, OpStep, ModifyBegin, PutBegin

(***************************************************************************)
(* No lost update within one run of the server: a version the file store   *)
(* accepts identifies what its author read, whatever Create, failing disk  *)
(* or concurrent reader used versions up in between.                       *)
(***************************************************************************)
THEOREM NoLostUpdate == Spec => []VersionIdentifiesContent
<1>1. Init => VersionInv
  BY VersionInvInit
<1>2. VersionInv /\ [Next]_vars => VersionInv'
  BY VersionInvStep
<1>3. VersionInv => VersionIdentifiesContent
  BY DEF VersionInv
<1>4. QED
  BY <1>1, <1>2, <1>3, PTL DEF Spec

-----------------------------------------------------------------------------
(***************************************************************************)
(* Goroutines and the inner mutex: while a reader iterates over the map,   *)
(* the operation in progress can only be a Create, which does not take the *)
(* inner mutex for its write to the map.                                   *)
(***************************************************************************)
RaceInv == step # "idle" /\ reading # {} => op.kind = "Create"

\* While a reader iterates over the map of the embedded store, only Create
\* can change it: Update and Delete take the inner mutex.
THEOREM RacesAreCreates == Spec => []OnlyCreateRaces
<1> USE DEF memVars, diskVars, opVars
<1>1. Init => RaceInv
  BY DEF Init, RaceInv
<1>2. ASSUME RaceInv, [Next]_vars PROVE RaceInv'
  <2>1. ASSUME CallStep PROVE RaceInv'
    BY <1>2, <2>1
    DEF CallStep, CreateBegin, ModifyBegin, PutBegin, UpdateBegin, DeleteBegin, Begin,
        Get, InnerMutexFree, RaceInv
  <2>2. ASSUME OpStep PROVE RaceInv'
    BY <1>2, <2>2
    DEF OpStep, WriteTemp, WriteSync, Rename, Remove, IOError, Conflict, Checked, Apply,
        RaceInv
  <2>3. ASSUME NEW r \in Reader, ListBegin(r) \/ ListEnd(r) PROVE RaceInv'
    BY <1>2, <2>3 DEF ListBegin, ListEnd, InnerMutexFree, RaceInv
  <2>4. ASSUME NEW k \in Key, Flush(k) PROVE RaceInv'
    BY <1>2, <2>4 DEF Flush, RaceInv
  <2>5. ASSUME ProcessRestart \/ PowerFailure PROVE RaceInv'
    BY <2>5 DEF ProcessRestart, PowerFailure, Restart, RaceInv
  <2>6. CASE UNCHANGED vars
    BY <1>2, <2>6 DEF vars, RaceInv
  <2>7. QED
    BY <1>2, <2>1, <2>2, <2>3, <2>4, <2>5, <2>6 DEF Next
<1>3. RaceInv => OnlyCreateRaces
  BY DEF RaceInv, OnlyCreateRaces
<1>4. QED
  BY <1>1, <1>2, <1>3, PTL DEF Spec

-----------------------------------------------------------------------------
(***************************************************************************)
(* Refinement of the durable map, for a store without clients that write   *)
(* back stale copies on a machine that does not lose power.  Then every    *)
(* update has the stored version, none is rejected after its file has been *)
(* written, and no file is left out of step with the memory.               *)
(***************************************************************************)
UpdatesCurrent ==
    /\ tainted = {}
    /\ step # "idle" /\ op.kind = "Update" => op.rv = items[op.key].rv

\* Without clients that hold stale copies, an update in progress is based on
\* the resource as it is in memory.
LEMMA UpdatesCurrentStep ==
    ASSUME Client = {}, DiskInv, UpdatesCurrent, [Next]_vars
    PROVE  UpdatesCurrent'
<1> USE DEF memVars, diskVars, opVars
<1>1. ASSUME CallStep PROVE UpdatesCurrent'
  <2>1. ASSUME NEW k \in Key, NEW sp \in Sp, NEW stat \in Status, CreateBegin(k, sp, stat)
        PROVE  UpdatesCurrent'
    BY <2>1 DEF CreateBegin, Begin, UpdatesCurrent
  <2>2. ASSUME NEW k \in Key, NEW sp \in Sp, NEW stat \in Status, ModifyBegin(k, sp, stat)
        PROVE  UpdatesCurrent'
    BY <2>2 DEF ModifyBegin, UpdateBegin, Begin, UpdatesCurrent
  <2>3. ASSUME NEW k \in Key, DeleteBegin(k) PROVE UpdatesCurrent'
    BY <2>3 DEF DeleteBegin, Begin, UpdatesCurrent
  <2>4. QED
    BY <1>1, <2>1, <2>2, <2>3 DEF CallStep
<1>2. ASSUME OpStep PROVE UpdatesCurrent'
  <2>1. ~Conflict
    BY DEF Conflict, UpdatesCurrent, DiskInv, OpShape
  <2>2. ASSUME Apply PROVE UpdatesCurrent'
    BY <2>2 DEF Apply, UpdatesCurrent
  <2>3. ASSUME WriteTemp \/ WriteSync \/ Rename \/ Remove \/ IOError \/ Checked
        PROVE  UpdatesCurrent'
    BY <2>3 DEF WriteTemp, WriteSync, Rename, Remove, IOError, Checked, UpdatesCurrent
  <2>4. QED
    BY <1>2, <2>1, <2>2, <2>3 DEF OpStep
<1>3. ASSUME NEW r \in Reader, ListBegin(r) \/ ListEnd(r) PROVE UpdatesCurrent'
  BY <1>3 DEF ListBegin, ListEnd, UpdatesCurrent
<1>4. ASSUME NEW k \in Key, Flush(k) PROVE UpdatesCurrent'
  BY <1>4 DEF Flush, UpdatesCurrent
<1>5. ASSUME ProcessRestart \/ PowerFailure PROVE UpdatesCurrent'
  <2>1. PICK f : Restart(f)
    BY <1>5 DEF ProcessRestart, PowerFailure
  <2>2. tainted' = {} /\ op'.kind # "Update"
    BY <2>1 DEF Restart, NoOp
  <2>3. QED
    BY <2>2 DEF UpdatesCurrent
<1>6. CASE UNCHANGED vars
  BY <1>6 DEF vars, UpdatesCurrent
<1>7. QED
  BY <1>1, <1>2, <1>3, <1>4, <1>5, <1>6 DEF Next

\* Every step of the file store is one of the durable map, or leaves it alone.
LEMMA RefinementStep ==
    ASSUME Client = {}, ~PowerFails, DiskInv, UpdatesCurrent, [Next]_vars
    PROVE  [Durable!Next]_<<Cur, Pend>>
<1> USE DEF memVars, diskVars, opVars
<1>0. TypeOK /\ OpShape /\ OpProgress /\ WholeFiles /\ FileFollowsMemory
  BY DEF DiskInv
<1>a. step # "idle" => /\ Pend = [key |-> op.key, content |-> op.spec]
                       /\ Pend # Durable!NoWrite /\ op.key \in Key
  BY <1>0 DEF Pend, Durable!NoWrite, TypeOK, WholeFiles, Op
<1>1. ASSUME items' = items, step' = step, op' = op PROVE UNCHANGED <<Cur, Pend>>
  BY <1>1 DEF Cur, Pend
<1>2. ASSUME items' = items, step # "idle", step' \notin {"idle", "failed"}, op' = op
      PROVE  UNCHANGED <<Cur, Pend>>
  BY <1>0, <1>2 DEF Cur, Pend, WholeFiles
<1>3. ASSUME items' = items, step # "idle", step' = "idle" PROVE Durable!Next
  <2>1. Cur' = Cur /\ Pend' = Durable!NoWrite
    BY <1>3 DEF Cur, Pend, Durable!NoWrite
  <2>2. QED
    BY <1>3, <1>a, <2>1 DEF Durable!Next, Durable!Abort
<1>4. ASSUME step # "idle", step' = "idle", Cur' = [Cur EXCEPT ![op.key] = op.spec]
      PROVE  Durable!Next
  <2>1. Pend' = Durable!NoWrite
    BY <1>4 DEF Pend, Durable!NoWrite
  <2>2. Pend.key = op.key /\ Pend.content = op.spec
    BY <1>4, <1>a
  <2>3. QED
    BY <1>4, <1>a, <2>1, <2>2 DEF Durable!Next, Durable!Commit
<1>5. ASSUME NEW kind, NEW k \in Key, NEW ver, NEW sp \in Sp \cup {None}, NEW stat,
             NEW next \in {"temp", "remove", "check"},
             Begin(kind, k, ver, sp, stat, next), items' = items
      PROVE  Durable!Next
  <2>1. /\ Pend = Durable!NoWrite
        /\ Pend' = [key |-> k, content |-> sp]
        /\ Cur' = Cur
    BY <1>5 DEF Begin, Pend, Cur, Durable!NoWrite
  <2>2. QED
    BY <2>1 DEF Durable!Next, Durable!Start
<1>6. ASSUME CallStep PROVE Durable!Next
  <2>1. ASSUME NEW k \in Key, NEW sp \in Sp, NEW stat \in Status, CreateBegin(k, sp, stat)
        PROVE  Durable!Next
    BY <1>5, <2>1 DEF CreateBegin
  <2>2. ASSUME NEW k \in Key, NEW sp \in Sp, NEW stat \in Status, ModifyBegin(k, sp, stat)
        PROVE  Durable!Next
    BY <1>5, <2>2 DEF ModifyBegin, UpdateBegin
  <2>3. ASSUME NEW k \in Key, DeleteBegin(k) PROVE Durable!Next
    BY <1>5, <2>3 DEF DeleteBegin
  <2>4. QED
    BY <1>6, <2>1, <2>2, <2>3 DEF CallStep
<1>7. ASSUME Apply PROVE Durable!Next
  <2>1. /\ step = "apply" /\ step' = "idle" /\ op.key \in Key
        /\ op.kind = "Delete" => op.spec = None
    BY <1>0, <1>7, <1>a DEF Apply, OpShape
  <2>2. /\ items'[op.key].spec = op.spec
        /\ \A k \in Key : k # op.key => items'[k] = items[k]
    BY <1>0, <1>7, <2>1 DEF Apply, TypeOK, Absent
  <2>3. Cur' = [Cur EXCEPT ![op.key] = op.spec]
    BY <2>1, <2>2 DEF Cur
  <2>4. QED
    BY <1>4, <2>1, <2>3
<1>8. ASSUME OpStep PROVE [Durable!Next]_<<Cur, Pend>>
  <2>1. ASSUME WriteTemp \/ WriteSync \/ Rename \/ Remove \/ Checked
        PROVE  UNCHANGED <<Cur, Pend>>
    BY <1>2, <2>1 DEF WriteTemp, WriteSync, Rename, Remove, Checked
  <2>2. ASSUME IOError \/ Conflict PROVE Durable!Next
    BY <1>3, <2>2 DEF IOError, Conflict
  <2>3. QED
    BY <1>7, <1>8, <2>1, <2>2 DEF OpStep
<1>9. ASSUME ProcessRestart PROVE [Durable!Next]_<<Cur, Pend>>
  <2>1. file \in [Key -> Sp \cup {None}]
    BY <1>0 DEF TypeOK, WholeFiles, Content
  <2>2. step' = "idle" /\ items' = Load(file)
    BY <1>0, <1>9 DEF ProcessRestart, Restart, WholeFiles
  <2>3. Cur' = [k \in Key |-> file[k]]
    BY <2>1, <2>2, LoadType DEF Cur
  <2>4. \A k \in Key : file[k] = items[k].spec \/ (step # "idle" /\ wrote /\ op.key = k)
    BY <1>0 DEF FileFollowsMemory, UpdatesCurrent
  <2>5. CASE step = "idle"
    BY <2>2, <2>3, <2>4, <2>5 DEF Cur, Pend
  <2>6. CASE step # "idle" /\ file[op.key] = items[op.key].spec
    <3>1. Cur' = Cur
      BY <2>3, <2>4, <2>6 DEF Cur
    <3>2. Pend' = Durable!NoWrite
      BY <2>2 DEF Pend, Durable!NoWrite
    <3>3. QED
      BY <1>a, <2>6, <3>1, <3>2 DEF Durable!Next, Durable!Abort
  <2>7. CASE step # "idle" /\ file[op.key] # items[op.key].spec
    <3>1. wrote /\ file[op.key] = op.spec
      BY <1>0, <1>a, <2>4, <2>7 DEF OpProgress, WholeFiles, TypeOK, Steps
    <3>2. Cur' = [Cur EXCEPT ![op.key] = op.spec]
      BY <1>a, <2>3, <2>4, <2>7, <3>1 DEF Cur
    <3>3. QED
      BY <1>4, <2>2, <2>7, <3>2
  <2>8. QED
    BY <2>5, <2>6, <2>7
<1>10. ASSUME NEW r \in Reader, ListBegin(r) \/ ListEnd(r) PROVE UNCHANGED <<Cur, Pend>>
  BY <1>1, <1>10 DEF ListBegin, ListEnd
<1>11. ASSUME NEW k \in Key, Flush(k) PROVE UNCHANGED <<Cur, Pend>>
  BY <1>1, <1>11 DEF Flush
<1>12. CASE UNCHANGED vars
  BY <1>1, <1>12 DEF vars
<1>13. ~PowerFailure
  BY DEF PowerFailure
<1>14. QED
  BY <1>6, <1>8, <1>9, <1>10, <1>11, <1>12, <1>13 DEF Next

(***************************************************************************)
(* The file store implements the atomic durable map: each operation takes  *)
(* effect as a whole or not at all, also across a restart at any step.     *)
(***************************************************************************)
THEOREM ImplementsDurableStore ==
    ASSUME Client = {}, ~PowerFails
    PROVE  Spec => DurableSpec
<1>1. Init => Durable!Init /\ UpdatesCurrent
  BY DEF Init, Durable!Init, Durable!NoWrite, Cur, Pend, Absent, UpdatesCurrent
<1>2. DiskInv /\ UpdatesCurrent /\ [Next]_vars => UpdatesCurrent'
  BY UpdatesCurrentStep
<1>3. DiskInv /\ UpdatesCurrent /\ [Next]_vars => [Durable!Next]_<<Cur, Pend>>
  BY RefinementStep
<1>4. QED
  BY <1>1, <1>2, <1>3, DiskInvariant, PTL DEF Spec, DurableSpec, Durable!Spec
=============================================================================
