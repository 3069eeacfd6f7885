----------------------- MODULE DisasterRecovery_proofs -----------------------
(***************************************************************************)
(* Theorems about DisasterRecovery for any number of processes, tenants,   *)
(* objects, paths, calls and faults: what a restore installs can be        *)
(* opened, what a reconciliation reports is exact, what a rebuild takes    *)
(* away can be read again, and nothing is ever replaced.                   *)
(***************************************************************************)
EXTENDS DisasterRecovery, FiniteSetTheorems, WellFoundedInduction, TLAPS

Objects == Manifests \cup Chunks

-----------------------------------------------------------------------------
(* The entries of an inventory: every listed object, in the cursor's order.  *)

(* A set of naturals has a least element. *)
LEMMA LeastNatural ==
  ASSUME NEW T \in SUBSET Nat, T # {}
  PROVE  \E x \in T : \A y \in T : x <= y
<1>1. \E x \in T : \A y \in T : ~(<<y, x>> \in OpToRel(<, Nat))
  BY WFMin, NatLessThanWellFounded
<1>2. PICK x \in T : \A y \in T : ~(<<y, x>> \in OpToRel(<, Nat))
  BY <1>1
<1>3. \A y \in T : ~(y < x)
  BY <1>2 DEF OpToRel
<1> QED
  BY <1>3

(* So has a set of objects, in the order of the cursor. *)
LEMMA FirstObject ==
  ASSUME NEW S \in SUBSET Objects, S # {}
  PROVE  \E x \in S : \A y \in S \ {x} : CursorBefore(x, y)
<1> USE RecoveryAssumption DEF Objects, CursorBefore, Kind
<1>1. CASE S \cap Manifests # {}
  <2>1. PICK x \in S \cap Manifests : \A y \in S \cap Manifests : x <= y
    BY <1>1, LeastNatural
  <2> QED
    BY <2>1
<1>2. CASE S \cap Manifests = {}
  <2>1. PICK x \in S : \A y \in S : x <= y
    BY <1>2, LeastNatural
  <2> QED
    BY <1>2, <2>1
<1> QED
  BY <1>1, <1>2

(* A list of the objects of S in order. *)
Lists(f, S) ==
    /\ f \in [1 .. Cardinality(S) -> S]
    /\ \A x \in S : \E i \in 1 .. Cardinality(S) : f[i] = x
    /\ \A i, j \in 1 .. Cardinality(S) : i # j => f[i] # f[j]
    /\ \A i, j \in 1 .. Cardinality(S) : i < j => CursorBefore(f[i], f[j])

(* The first object before a list of the others. *)
LEMMA ListGrows ==
  ASSUME NEW S \in SUBSET Objects, IsFiniteSet(S), NEW x \in S,
         \A y \in S \ {x} : CursorBefore(x, y), NEW g, Lists(g, S \ {x})
  PROVE  \E f : Lists(f, S)
<1> DEFINE n == Cardinality(S)
           f == [i \in 1 .. n |-> IF i = 1 THEN x ELSE g[i - 1]]
<1>1. n \in Nat \ {0} /\ Cardinality(S \ {x}) = n - 1
  BY FS_CardinalityType, FS_RemoveElement, FS_EmptySet
<1>2. /\ g \in [1 .. n - 1 -> S \ {x}]
      /\ \A y \in S \ {x} : \E i \in 1 .. n - 1 : g[i] = y
      /\ \A i, j \in 1 .. n - 1 : i # j => g[i] # g[j]
      /\ \A i, j \in 1 .. n - 1 : i < j => CursorBefore(g[i], g[j])
  BY <1>1 DEF Lists
<1> HIDE DEF n
<1>3. f \in [1 .. n -> S]
  BY <1>1, <1>2
<1>4. \A y \in S : \E i \in 1 .. n : f[i] = y
  <2>1. TAKE y \in S
  <2>2. CASE y = x
    <3>1. 1 \in 1 .. n /\ f[1] = x
      BY <1>1
    <3> QED
      BY <2>2, <3>1
  <2>3. CASE y # x
    <3>1. PICK i \in 1 .. n - 1 : g[i] = y
      BY <1>2, <2>3
    <3>2. i + 1 \in 1 .. n /\ f[i + 1] = y
      BY <1>1, <3>1
    <3> QED
      BY <3>2
  <2> QED
    BY <2>2, <2>3
<1>5. \A i \in 1 .. n : i # 1 => i - 1 \in 1 .. n - 1 /\ f[i] = g[i - 1]
  BY <1>1
<1>6. f[1] = x
  BY <1>1
<1>7. \A i, j \in 1 .. n : i # j => f[i] # f[j]
  <2> HIDE DEF f
  <2> QED
    BY <1>1, <1>2, <1>5, <1>6
<1>8. \A i, j \in 1 .. n : i < j => CursorBefore(f[i], f[j])
  <2> HIDE DEF f
  <2> QED
    BY <1>1, <1>2, <1>5, <1>6
<1>9. Lists(f, S)
  <2> HIDE DEF f
  <2> QED
    BY <1>3, <1>4, <1>7, <1>8 DEF Lists, n
<1> QED
  BY <1>9

(* Every finite set of objects has such a list. *)
LEMMA ListExists ==
  ASSUME NEW S \in SUBSET Objects, IsFiniteSet(S)
  PROVE  \E f : Lists(f, S)
<1> DEFINE Listed(s) == \E f : Lists(f, s)
           Bad == {n \in Nat : \E s \in SUBSET S : Cardinality(s) = n /\ ~Listed(s)}
<1>1. \A s \in SUBSET S : IsFiniteSet(s) /\ Cardinality(s) \in Nat
  BY FS_Subset, FS_CardinalityType
<1>2. Bad = {}
  <2> SUFFICES ASSUME Bad # {} PROVE FALSE
    OBVIOUS
  <2>1. PICK n \in Bad : \A m \in Bad : n <= m
    <3>1. Bad \in SUBSET Nat
      OBVIOUS
    <3> HIDE DEF Bad
    <3> QED
      BY <3>1, LeastNatural
  <2>2. PICK s \in SUBSET S : Cardinality(s) = n /\ ~Listed(s)
    OBVIOUS
  <2>3. s # {}
    <3>1. Lists(<<>>, {})
      BY FS_EmptySet DEF Lists
    <3> QED
      BY <2>2, <3>1
  <2>4. PICK x \in s : \A y \in s \ {x} : CursorBefore(x, y)
    BY <2>3, FirstObject
  <2>5. s \ {x} \in SUBSET S /\ Cardinality(s \ {x}) = n - 1 /\ n - 1 \in Nat /\ n \in Nat
    <3> HIDE DEF Bad, Listed
    <3>1. IsFiniteSet(s) /\ n \in Nat
      BY <1>1, <2>2
    <3>2. Cardinality(s \ {x}) = n - 1
      BY <2>2, <3>1, FS_RemoveElement
    <3>3. n # 0
      BY <2>2, <2>3, <3>1, FS_EmptySet
    <3> QED
      BY <3>1, <3>2, <3>3
  <2>6. Listed(s \ {x})
    <3> HIDE DEF Listed
    <3>1. n - 1 \notin Bad
      <4> HIDE DEF Bad
      <4>1. ~(n <= n - 1)
        BY <2>5
      <4> QED
        BY <2>1, <4>1
    <3> QED
      BY <2>5, <3>1
  <2>7. Listed(s)
    BY <1>1, <2>4, <2>6, ListGrows
  <2> QED
    BY <2>2, <2>7
<1>3. Cardinality(S) \notin Bad
  <2> HIDE DEF Bad
  <2> QED
    BY <1>2
<1> HIDE DEF Listed
<1>4. Listed(S)
  BY <1>1, <1>3
<1> QED
  BY <1>4 DEF Listed

(* What load_inventory_entries returns. *)
LEMMA EntriesFact ==
  ASSUME NEW c, NEW value, InventoryObjects(c, value) \subseteq Objects
  PROVE  LET entries == InventoryEntries(c, value)
         IN  /\ entries \in Seq(Objects)
             /\ {entries[i] : i \in DOMAIN entries} = InventoryObjects(c, value)
<1> DEFINE S == InventoryObjects(c, value)
           n == Cardinality(S)
           e == InventoryEntries(c, value)
<1>1. IsFiniteSet(S) /\ n \in Nat
  BY RecoveryAssumption, FS_Union, FS_Subset, FS_CardinalityType DEF Objects
<1>2. PICK f : Lists(f, S)
  <2> HIDE DEF S
  <2> QED
    BY <1>1, ListExists DEF S
<1>3. f \in SetToSeqs(S) /\ \A i, j \in DOMAIN f : i < j => CursorBefore(f[i], f[j])
  <2> HIDE DEF S
  <2> QED
    BY <1>2 DEF Lists, SetToSeqs
<1>4. e \in SetToSeqs(S)
  BY <1>3 DEF InventoryEntries
<1>5. e \in [1 .. n -> S] /\ \A i, j \in 1 .. n : i # j => e[i] # e[j]
  <2> HIDE DEF S, e
  <2> QED
    BY <1>4 DEF SetToSeqs
<1> HIDE DEF S, e
<1>6. e \in Injection(1 .. n, S)
  BY <1>5 DEF Injection, IsInjective
<1>7. IsFiniteSet(1 .. n) /\ Cardinality(1 .. n) = n
  BY <1>1, FS_Interval
<1>8. e \in Surjection(1 .. n, S)
  BY <1>1, <1>6, <1>7, FS_Injection
<1>9. {e[i] : i \in DOMAIN e} = S
  BY <1>5, <1>8 DEF Surjection
<1>10. e \in Seq(Objects)
  <2>1. S \subseteq Objects
    BY DEF S
  <2> HIDE DEF n
  <2> QED
    BY <1>1, <1>5, <2>1
<1> QED
  BY <1>9, <1>10 DEF S, e

-----------------------------------------------------------------------------
(* Types. *)
Rows == [active : Nat, min : Nat, catalog : Nat]

Values == [tenants : [Tenants -> Rows \cup {NoRow}], manifests : SUBSET Manifests,
           chunks : SUBSET Chunks, tombstones : SUBSET Objects]

CatalogFiles == Values \cup {NoFile}

Rebuild == {"scanned", "db moved", "wal moved"}
Working == {"open", "backing up", "listing", "checking"}

Processes ==
    [pc : Working \cup Rebuild \cup {"closed", "restoring"}, config : Configs \cup {NoConfig},
     work : CatalogFiles \cup Seq(Objects), dest : Dests \cup Seconds \cup {NoFile},
     missing : SUBSET Objects, corrupt : SUBSET Objects, quiet : BOOLEAN]

Typed ==
    /\ db \in CatalogFiles /\ wal \in CatalogFiles
    /\ evidence \in [Seconds -> [db : CatalogFiles, wal : CatalogFiles]]
    /\ files \subseteq Objects /\ corrupt \subseteq files
    /\ second \in Seconds /\ faults \in 0 .. MaxFaults
    /\ proc \in [Procs -> Processes]
    /\ replaced \subseteq Values

(* A damaged artifact keeps its header. *)
IsArtifact(a) ==
    /\ DOMAIN a = {"kind", "header", "body", "signed"}
    /\ a.kind = "backup" => a.header.digest \in Values

ArtifactsTyped ==
    /\ DOMAIN artifacts = Dests
    /\ \A d \in Dests : artifacts[d] # NoFile => IsArtifact(artifacts[d])

(* What a restore is about to install: RestoredOpens of one process. *)
Installable(r) ==
    LET row == r.work.tenants[r.config.tenant]
    IN  /\ row # NoRow
        /\ \E least \in r.config.min .. r.config.active :
              NotBackward(row, [r.config EXCEPT !.min = least])
        /\ \A t \in Tenants \ {r.config.tenant} : r.work.tenants[t] = NoRow

(* What a process has in hand, by where it is. *)
StageOf(r) ==
    /\ r.pc = "closed" <=> r.config = NoConfig
    /\ r.pc \in Rebuild \cup {"backing up", "restoring"} => r.work \in Values
    /\ r.pc \in Rebuild => r.dest \in Seconds
    /\ r.pc \in {"backing up", "listing"} => r.dest \in Dests
    /\ r.pc \in {"listing", "checking"} => r.work \in Seq(Objects)
    /\ r.pc = "restoring" => Installable(r)

Stages == \A p \in Procs : StageOf(proc[p])

Types == Typed /\ ArtifactsTyped /\ Stages

LEMMA NoneFacts ==
  NoFile \notin Values /\ NoConfig \notin Configs /\ NoRow \notin Rows
<1>1. DOMAIN NoFile = {"none"} /\ DOMAIN NoConfig = {"none"} /\ DOMAIN NoRow = {"none"}
  BY DEF NoFile, NoConfig, NoRow
<1>2. \A v \in Values : DOMAIN v = {"tenants", "manifests", "chunks", "tombstones"}
  BY DEF Values
<1>3. \A c \in Configs : DOMAIN c = {"tenant", "catalog", "min", "active"}
  BY RecoveryAssumption
<1>4. \A r \in Rows : DOMAIN r = {"active", "min", "catalog"}
  BY DEF Rows
<1> QED
  BY <1>1, <1>2, <1>3, <1>4

LEMMA EmptyTyped == Empty \in Values
BY DEF Empty, Values, Rows

(* A connection reads a catalog value. *)
LEMMA CatalogTyped ==
  ASSUME db \in CatalogFiles, wal \in CatalogFiles
  PROVE  /\ Catalog \in CatalogFiles
         /\ db # NoFile => Catalog \in Values
BY DEF Catalog, CatalogFiles

LEMMA ListedObjects ==
  ASSUME NEW c, NEW value \in Values
  PROVE  InventoryObjects(c, value) \subseteq Objects
BY DEF InventoryObjects, Values, Objects

-----------------------------------------------------------------------------
(* Kinds of steps. *)

(* The report of a reconciliation that nothing disturbed: what it has named and what
   the entries left to check will add. *)
Report(r) ==
    r.pc = "checking" /\ r.quiet =>
        LET listed == InventoryObjects(r.config, Catalog)
            left == {r.work[i] : i \in DOMAIN r.work}
        IN  /\ r.missing \cup (left \ files) = listed \ files
            /\ r.corrupt \cup (left \cap corrupt) = listed \cap corrupt

Reports == \A p \in Procs : Report(proc[p])

RebuildsAlone ==
    \A p \in Procs : Rebuilding(p) => \A q \in Procs \ {p} : At(q, "closed")

(* Who works with the store has a catalog at the path. *)
WorkingHasCatalog == \A p \in Procs : proc[p].pc \in Working => db # NoFile

StoreInv == Types /\ RebuildsAlone /\ WorkingHasCatalog /\ Reports

(* One process goes on to r. *)
Becomes(p, r) == r \in Processes /\ StageOf(r) /\ proc' = [proc EXCEPT ![p] = r]

ArtifactsStay == \A d \in Dests : artifacts[d] # NoFile => artifacts'[d] = artifacts[d]

(* A step of p that touches neither catalog nor objects. *)
Solo(p, r) ==
    /\ UNCHANGED <<db, wal, evidence, files, corrupt, second, replaced>>
    /\ Becomes(p, r)
    /\ r.pc \in Working => proc[p].pc \in Working
    /\ Report(r)
    /\ r.pc \in Rebuild => r.pc = "scanned" /\ Offline
    /\ r.pc = "restoring" => NoRebuild
    /\ r.pc = "restoring" => proc[p].pc = "closed"
    /\ ArtifactsTyped' /\ ArtifactsStay /\ faults' \in 0 .. MaxFaults
    /\ slipped => slipped'
    /\ proc[p].pc \in {"db moved", "wal moved"} => slipped'

(* A change of the store beside other processes. *)
Mutation ==
    /\ UNCHANGED <<db, evidence, artifacts, second, historyVars>>
    /\ Disturbs
    /\ wal' \in Values \cup {wal} /\ (wal' # wal => \E p \in Procs : At(p, "open"))
    /\ files' \subseteq Objects /\ corrupt' \subseteq files'
    /\ faults' \in 0 .. MaxFaults

USE DEF catalogVars, objectVars, clockVars, historyVars

LEMMA ProcessesFields ==
  ASSUME Types, NEW p \in Procs
  PROVE  /\ proc[p] \in Processes /\ StageOf(proc[p])
         /\ ~At(p, "closed") => Config(p) \in Configs
BY DEF Types, Typed, Stages, StageOf, Processes, At, Config

LEMMA MutatesFact ==
  ASSUME Types, NEW p \in Procs, At(p, "open"), NEW v \in Values, Mutates(p, v),
         files' \subseteq Objects, corrupt' \subseteq files', UNCHANGED <<second, faults>>
  PROVE  Mutation
BY DEF Mutates, Mutation, Types, Typed

LEMMA MutationSteps ==
  ASSUME Types, WorkingHasCatalog, NEW p \in Procs
  PROVE  /\ \A m \in Manifests : WriteFiles(p, m) \/ Publish(p, m) \/ Evict(p, m) => Mutation
         /\ \A k \in Chunks : Demote(p, k) => Mutation
         /\ Retire(p) => Mutation
<1> USE DEF Objects
<1>0. /\ At(p, "open") => Catalog \in Values
      /\ files \subseteq Objects /\ corrupt \subseteq files /\ faults \in 0 .. MaxFaults
      /\ ChunksOf \in [Manifests -> SUBSET Chunks]
  BY CatalogTyped, RecoveryAssumption DEF Types, Typed, WorkingHasCatalog, Working, At
<1>1. ASSUME NEW m \in Manifests, WriteFiles(p, m) PROVE Mutation
  BY <1>0, <1>1 DEF WriteFiles, Calls, Mutation
<1>2. ASSUME NEW m \in Manifests, Publish(p, m) PROVE Mutation
  <2> DEFINE v == [Catalog EXCEPT !.manifests = @ \cup {m}, !.chunks = @ \cup ChunksOf[m]]
  <2>1. At(p, "open") /\ Mutates(p, v) /\ UNCHANGED <<files, corrupt, second, faults>>
    BY <1>2 DEF Publish
  <2>2. v \in Values
    BY <1>0, <2>1 DEF Values
  <2> QED
    BY <1>0, <2>1, <2>2, MutatesFact
<1>3. ASSUME NEW m \in Manifests, Evict(p, m) PROVE Mutation
  <2> DEFINE kept == UNION {ChunksOf[n] : n \in Catalog.manifests \ {m}}
             gone == {m} \cup (ChunksOf[m] \ kept)
             v == [Catalog EXCEPT !.manifests = @ \ {m}, !.chunks = @ \ gone,
                                  !.tombstones = @ \cup gone]
  <2>1. /\ At(p, "open") /\ Mutates(p, v) /\ UNCHANGED <<second, faults>>
        /\ files' = files \ gone /\ corrupt' = corrupt \ gone
    BY <1>3 DEF Evict, Calls
  <2>2. gone \subseteq Objects
    BY <1>0
  <2>3. v \in Values
    <3> HIDE DEF gone
    <3> QED
      BY <1>0, <2>1, <2>2 DEF Values
  <2> HIDE DEF v, gone
  <2> QED
    BY <1>0, <2>1, <2>3, MutatesFact
<1>4. ASSUME NEW k \in Chunks, Demote(p, k) PROVE Mutation
  <2> DEFINE v == [Catalog EXCEPT !.chunks = @ \ {k}]
  <2>1. /\ At(p, "open") /\ Mutates(p, v) /\ UNCHANGED <<second, faults>>
        /\ files' = files \ {k} /\ corrupt' = corrupt \ {k}
    BY <1>4 DEF Demote, Calls
  <2>2. v \in Values
    BY <1>0, <2>1 DEF Values
  <2> HIDE DEF v
  <2> QED
    BY <1>0, <2>1, <2>2, MutatesFact
<1>5. ASSUME Retire(p) PROVE Mutation
  <2> DEFINE old == {m \in Catalog.manifests :
                       TenantOf[m] = Config(p).tenant /\ EpochOf[m] < Config(p).min}
             gone == old \cup UNION {ChunksOf[m] : m \in old}
             v == [Catalog EXCEPT !.tombstones = @ \cup gone]
  <2>1. At(p, "open") /\ Mutates(p, v) /\ UNCHANGED <<files, corrupt, second, faults>>
    BY <1>5 DEF Retire, Calls
  <2>2. old \subseteq Manifests
    BY <1>0, <2>1 DEF Values
  <2>3. gone \subseteq Objects
    <3> HIDE DEF old
    <3> QED
      BY <1>0, <2>2
  <2>4. v \in Values
    <3> HIDE DEF gone
    <3> QED
      BY <1>0, <2>1, <2>3 DEF Values
  <2> HIDE DEF v
  <2> QED
    BY <1>0, <2>1, <2>4, MutatesFact
<1> QED
  BY <1>1, <1>2, <1>3, <1>4, <1>5

LEMMA DamageSteps ==
  ASSUME Types, NEW o \in Objects, Damage(o)
  PROVE  Mutation
BY RecoveryAssumption DEF Types, Typed, Damage, Mutation

(* A process that ended, or that is back from a call. *)
LEMMA RestingFact ==
  /\ Closed \in Processes /\ StageOf(Closed) /\ Report(Closed) /\ Closed.pc = "closed"
  /\ \A c \in Configs : LET r == [Closed EXCEPT !.pc = "open", !.config = c]
                        IN  r \in Processes /\ StageOf(r) /\ Report(r) /\ r.pc = "open"
<1>1. Closed \in Processes
  BY DEF Closed, Processes, CatalogFiles
<1>2. StageOf(Closed) /\ Report(Closed) /\ Closed.pc = "closed"
  BY DEF Closed, StageOf, Report, Rebuild
<1>3. ASSUME NEW c \in Configs
      PROVE  LET r == [Closed EXCEPT !.pc = "open", !.config = c]
             IN  r \in Processes /\ StageOf(r) /\ Report(r) /\ r.pc = "open"
  <2> DEFINE r == [Closed EXCEPT !.pc = "open", !.config = c]
  <2>1. r \in Processes /\ r.pc = "open" /\ r.config = c
    BY <1>1 DEF Processes, Working
  <2>2. c # NoConfig
    BY NoneFacts
  <2> HIDE DEF r
  <2>3. StageOf(r) /\ Report(r)
    BY <2>1, <2>2 DEF StageOf, Report, Rebuild
  <2> QED
    BY <2>1, <2>3 DEF r
<1> QED
  BY <1>1, <1>2, <1>3

(* What the calls of the recovery tools leave alone. *)
Reads == UNCHANGED <<db, wal, evidence, files, corrupt, second, replaced, slipped>>

(* A publication fills a free path. *)
LEMMA PublishFact ==
  ASSUME ArtifactsTyped, NEW d \in Dests, NEW a, IsArtifact(a), PublishTemporary(d, a)
  PROVE  ArtifactsTyped' /\ ArtifactsStay
<1>1. CASE artifacts[d] = NoFile
  <2>1. artifacts' = [artifacts EXCEPT ![d] = a]
    BY <1>1 DEF PublishTemporary
  <2>2. DOMAIN artifacts' = Dests /\ artifacts'[d] = a
        /\ \A x \in Dests : x # d => artifacts'[x] = artifacts[x]
    BY <2>1 DEF ArtifactsTyped
  <2> QED
    BY <1>1, <2>2 DEF ArtifactsTyped, ArtifactsStay
<1>2. CASE artifacts[d] # NoFile
  BY <1>2 DEF PublishTemporary, ArtifactsTyped, ArtifactsStay
<1> QED
  BY <1>1, <1>2

(* A process that works goes on to another call or stage of one. *)
LEMMA SoloWorks ==
  ASSUME Types, NEW p \in Procs, NEW r, Becomes(p, r), Reads, Report(r),
         proc[p].pc \in Working, r.pc \in Working,
         ArtifactsTyped', ArtifactsStay, UNCHANGED faults
  PROVE  Solo(p, r)
BY DEF Solo, Reads, Types, Typed, Working, Rebuild

LEMMA WorkSteps ==
  ASSUME Types, WorkingHasCatalog, Reports, NEW p \in Procs
  PROVE  /\ \A d \in Dests : BackupSnapshot(p, d) => \E r : Solo(p, r)
         /\ \A d \in Dests : InventorySnapshot(p, d) => \E r : Solo(p, r)
         /\ BackupPublish(p) => \E r : Solo(p, r)
         /\ InventoryPublish(p) => \E r : Solo(p, r)
         /\ ReconcileLoad(p) => \E r : Solo(p, r)
         /\ ReconcileObject(p) => \E r : Solo(p, r)
         /\ ReconcileReport(p) => \E r : Solo(p, r)
<1>0. /\ proc \in [Procs -> Processes] /\ proc[p] \in Processes /\ StageOf(proc[p])
      /\ ~At(p, "closed") => Config(p) \in Configs
      /\ At(p, "open") \/ At(p, "checking") => Catalog \in Values
      /\ corrupt \subseteq files /\ ArtifactsTyped
  BY CatalogTyped, ProcessesFields DEF Types, Typed, WorkingHasCatalog, Working, At
<1>1. UNCHANGED artifacts => ArtifactsTyped' /\ ArtifactsStay
  BY <1>0 DEF ArtifactsTyped, ArtifactsStay
<1>2. ASSUME NEW d \in Dests, BackupSnapshot(p, d) PROVE \E r : Solo(p, r)
  <2> DEFINE r == [proc[p] EXCEPT !.pc = "backing up", !.work = Catalog, !.dest = d]
  <2>1. At(p, "open") /\ Reads /\ UNCHANGED <<faults, artifacts>>
    BY <1>2 DEF BackupSnapshot, Calls, Reads
  <2>2. proc' = [proc EXCEPT ![p] = r]
    BY <1>0, <1>2 DEF BackupSnapshot
  <2>3. /\ r \in Processes /\ r.pc = "backing up" /\ r.work = Catalog /\ r.dest = d
        /\ r.config = proc[p].config
    BY <1>0, <2>1 DEF Processes, Working, CatalogFiles
  <2> HIDE DEF r
  <2>4. StageOf(r) /\ Report(r)
    BY <1>0, <2>1, <2>3, NoneFacts DEF StageOf, Report, Config, At, Rebuild
  <2> QED
    BY <1>1, <2>1, <2>2, <2>3, <2>4, SoloWorks DEF Becomes, Working, At
<1>3. ASSUME NEW d \in Dests, InventorySnapshot(p, d) PROVE \E r : Solo(p, r)
  <2> DEFINE e == InventoryEntries(Config(p), Catalog)
             r == [proc[p] EXCEPT !.pc = "listing", !.work = e, !.dest = d]
  <2>1. At(p, "open") /\ Reads /\ UNCHANGED <<faults, artifacts>>
    BY <1>3 DEF InventorySnapshot, Calls, Reads
  <2>2. proc' = [proc EXCEPT ![p] = r]
    BY <1>0, <1>3 DEF InventorySnapshot
  <2>3. e \in Seq(Objects)
    BY <1>0, <2>1, ListedObjects, EntriesFact
  <2> HIDE DEF e
  <2>4. /\ r \in Processes /\ r.pc = "listing" /\ r.work = e /\ r.dest = d
        /\ r.config = proc[p].config
    BY <1>0, <2>1, <2>3 DEF Processes, Working
  <2> HIDE DEF r
  <2>5. StageOf(r) /\ Report(r)
    BY <1>0, <2>1, <2>3, <2>4, NoneFacts DEF StageOf, Report, Config, At, Rebuild
  <2> QED
    BY <1>1, <2>1, <2>2, <2>4, <2>5, SoloWorks DEF Becomes, Working, At
<1>4. ASSUME BackupPublish(p) PROVE \E r : Solo(p, r)
  <2> DEFINE r == [Closed EXCEPT !.pc = "open", !.config = Config(p)]
             h == BackupHeader(Config(p), proc[p].work)
             a == BackupArtifact(h)
  <2>1. At(p, "backing up") /\ Reads /\ UNCHANGED faults /\ proc' = [proc EXCEPT ![p] = r]
    BY <1>4 DEF BackupPublish, Returns, Reads
  <2>2. PublishTemporary(proc[p].dest, a) \/ UNCHANGED artifacts
    BY <1>4 DEF BackupPublish
  <2>3. proc[p].work \in Values /\ proc[p].dest \in Dests
    BY <1>0, <2>1 DEF StageOf, At
  <2>4. IsArtifact(a)
    BY <2>3 DEF IsArtifact, BackupArtifact, BackupHeader
  <2> HIDE DEF a, r
  <2>5. ArtifactsTyped' /\ ArtifactsStay
    BY <1>0, <1>1, <2>2, <2>3, <2>4, PublishFact
  <2>6. r \in Processes /\ StageOf(r) /\ Report(r) /\ r.pc = "open"
    BY <1>0, <2>1, RestingFact DEF r, At
  <2> QED
    BY <2>1, <2>5, <2>6, SoloWorks DEF Becomes, Working, At
<1>5. ASSUME InventoryPublish(p) PROVE \E r : Solo(p, r)
  <2> DEFINE r == [Closed EXCEPT !.pc = "open", !.config = Config(p)]
             a == InventoryArtifact(Config(p), proc[p].work)
  <2>1. At(p, "listing") /\ Reads /\ UNCHANGED faults /\ proc' = [proc EXCEPT ![p] = r]
    BY <1>5 DEF InventoryPublish, Returns, Reads
  <2>2. PublishTemporary(proc[p].dest, a)
    BY <1>5 DEF InventoryPublish
  <2>3. proc[p].dest \in Dests
    BY <1>0, <2>1 DEF StageOf, At
  <2>4. IsArtifact(a)
    BY DEF IsArtifact, InventoryArtifact
  <2> HIDE DEF a, r
  <2>5. ArtifactsTyped' /\ ArtifactsStay
    BY <1>0, <2>2, <2>3, <2>4, PublishFact
  <2>6. r \in Processes /\ StageOf(r) /\ Report(r) /\ r.pc = "open"
    BY <1>0, <2>1, RestingFact DEF r, At
  <2> QED
    BY <2>1, <2>5, <2>6, SoloWorks DEF Becomes, Working, At
<1>6. ASSUME ReconcileLoad(p) PROVE \E r : Solo(p, r)
  <2> DEFINE e == InventoryEntries(Config(p), Catalog)
             r == [proc[p] EXCEPT !.pc = "checking", !.work = e, !.quiet = TRUE,
                                  !.missing = {}, !.corrupt = {}]
  <2>1. At(p, "open") /\ Reads /\ UNCHANGED <<faults, artifacts>>
    BY <1>6 DEF ReconcileLoad, Calls, Reads
  <2>2. proc' = [proc EXCEPT ![p] = r]
    BY <1>0, <1>6 DEF ReconcileLoad
  <2>3. /\ e \in Seq(Objects)
        /\ {e[i] : i \in DOMAIN e} = InventoryObjects(Config(p), Catalog)
    BY <1>0, <2>1, ListedObjects, EntriesFact
  <2> HIDE DEF e
  <2>4. /\ r \in Processes /\ r.pc = "checking" /\ r.work = e
        /\ r.config = proc[p].config /\ r.missing = {} /\ r.corrupt = {}
    BY <1>0, <2>1, <2>3 DEF Processes, Working
  <2> HIDE DEF r
  <2>5. StageOf(r)
    BY <1>0, <2>1, <2>3, <2>4, NoneFacts DEF StageOf, Config, At, Rebuild
  <2>6. Report(r)
    BY <2>3, <2>4 DEF Report, Config
  <2> QED
    BY <1>1, <2>1, <2>2, <2>4, <2>5, <2>6, SoloWorks DEF Becomes, Working, At
<1>7. ASSUME ReconcileReport(p) PROVE \E r : Solo(p, r)
  <2> DEFINE r == [Closed EXCEPT !.pc = "open", !.config = Config(p)]
  <2>1. /\ At(p, "checking") /\ Reads /\ UNCHANGED <<faults, artifacts>>
        /\ proc' = [proc EXCEPT ![p] = r]
    BY <1>7 DEF ReconcileReport, Returns, Reads
  <2> HIDE DEF r
  <2>2. r \in Processes /\ StageOf(r) /\ Report(r) /\ r.pc = "open"
    BY <1>0, <2>1, RestingFact DEF r, At
  <2> QED
    BY <1>1, <2>1, <2>2, SoloWorks DEF Becomes, Working, At
<1>8. ASSUME ReconcileObject(p) PROVE \E r : Solo(p, r)
  <2> DEFINE w == proc[p].work
             o == Head(w)
             m == IF ObjectCheck(o) = "missing" THEN proc[p].missing \cup {o} ELSE proc[p].missing
             k == IF ObjectCheck(o) = "corrupt" THEN proc[p].corrupt \cup {o} ELSE proc[p].corrupt
             r == [proc[p] EXCEPT !.work = Tail(w), !.missing = m, !.corrupt = k]
  <2>1. At(p, "checking") /\ w # <<>> /\ Reads /\ UNCHANGED <<faults, artifacts>>
    BY <1>8 DEF ReconcileObject, Reads
  <2>2. proc' = [proc EXCEPT ![p] = r]
    BY <1>0, <1>8 DEF ReconcileObject
  <2>3. w \in Seq(Objects)
    BY <1>0, <2>1 DEF StageOf, At
  <2>4. o \in Objects /\ Tail(w) \in Seq(Objects)
    BY <2>1, <2>3
  <2>5. m \in SUBSET Objects /\ k \in SUBSET Objects
    BY <1>0, <2>4 DEF Processes
  <2>6. /\ m = proc[p].missing \cup ({o} \ files)
        /\ k = proc[p].corrupt \cup ({o} \cap corrupt)
    BY <1>0 DEF ObjectCheck
  <2>7. {w[i] : i \in DOMAIN w} = {o} \cup {Tail(w)[i] : i \in DOMAIN Tail(w)}
    <3> DEFINE t == Tail(w)
    <3>1. /\ DOMAIN w = 1 .. Len(w) /\ Len(w) \in Nat \ {0} /\ o = w[1]
          /\ DOMAIN t = 1 .. Len(w) - 1 /\ \A i \in 1 .. Len(w) - 1 : t[i] = w[i + 1]
      BY <2>1, <2>3
    <3> HIDE DEF t, w, o
    <3>2. \A i \in 1 .. Len(w) : i = 1 \/ (i - 1 \in 1 .. Len(w) - 1 /\ w[i] = t[i - 1])
      <4>1. TAKE i \in 1 .. Len(w)
      <4>2. i # 1 => i - 1 \in 1 .. Len(w) - 1 /\ (i - 1) + 1 = i
        BY <3>1
      <4> QED
        BY <3>1, <4>2
    <3>3. \A i \in 1 .. Len(w) - 1 : i + 1 \in 1 .. Len(w)
      BY <3>1
    <3>4. {w[i] : i \in DOMAIN w} \subseteq {o} \cup {t[i] : i \in DOMAIN t}
      BY <3>1, <3>2
    <3>5. {t[i] : i \in DOMAIN t} \subseteq {w[i] : i \in DOMAIN w}
      BY <3>1, <3>3
    <3>6. o \in {w[i] : i \in DOMAIN w}
      BY <3>1
    <3> QED
      BY <3>4, <3>5, <3>6 DEF t
  <2> HIDE DEF m, k, w, o
  <2>8. /\ r \in Processes /\ r.pc = proc[p].pc /\ r.work = Tail(w)
        /\ r.config = proc[p].config /\ r.missing = m /\ r.corrupt = k
        /\ r.quiet = proc[p].quiet
    BY <1>0, <2>4, <2>5 DEF Processes
  <2> HIDE DEF r
  <2>9. StageOf(r)
    BY <1>0, <2>1, <2>4, <2>8, NoneFacts DEF StageOf, Config, At, Rebuild
  <2>10. Report(r)
    <3> DEFINE left == {w[i] : i \in DOMAIN w}
               rest == {Tail(w)[i] : i \in DOMAIN Tail(w)}
               listed == InventoryObjects(proc[p].config, Catalog)
    <3>1. Report(proc[p])
      BY DEF Reports
    <3>2. ASSUME proc[p].quiet
          PROVE  /\ proc[p].missing \cup (left \ files) = listed \ files
                 /\ proc[p].corrupt \cup (left \cap corrupt) = listed \cap corrupt
      BY <2>1, <3>1, <3>2 DEF Report, At, w
    <3>3. left = {o} \cup rest
      BY <2>7
    <3> HIDE DEF left, rest, listed
    <3>4. ASSUME proc[p].quiet
          PROVE  /\ m \cup (rest \ files) = listed \ files
                 /\ k \cup (rest \cap corrupt) = listed \cap corrupt
      <4>1. m \cup (rest \ files) = proc[p].missing \cup (left \ files)
        BY <2>6, <3>3
      <4>2. k \cup (rest \cap corrupt) = proc[p].corrupt \cup (left \cap corrupt)
        BY <2>6, <3>3
      <4> QED
        BY <3>2, <3>4, <4>1, <4>2
    <3> QED
      BY <2>8, <3>4 DEF Report, rest, listed
  <2> QED
    BY <1>1, <2>1, <2>2, <2>8, <2>9, <2>10, SoloWorks DEF Becomes, Working, At
<1> QED
  BY <1>2, <1>3, <1>4, <1>5, <1>6, <1>7, <1>8

(* validate_restored_catalog lets only what can be opened again through: one tenant,
   the configuration's own, whose row is not ahead of it. *)
LEMMA ValidatedInstalls ==
  ASSUME NEW c \in Configs, NEW header, NEW v \in Values, header.tenant = c.tenant,
         header.catalog = c.catalog, ValidateRestored(c, header, v),
         NEW r, r.work = v, r.config = c
  PROVE  Installable(r)
<1> DEFINE row == v.tenants[c.tenant]
           T == {t \in Tenants : v.tenants[t] # NoRow}
<1>1. c \in [tenant : Tenants, catalog : Nat, min : Nat, active : Nat]
  BY RecoveryAssumption
<1>2. /\ Cardinality(T) = 1 /\ row # NoRow /\ row.min <= row.active
      /\ row.catalog = c.catalog /\ row.active <= c.active /\ row.min >= c.min
  BY DEF ValidateRestored
<1>3. row \in Rows
  BY <1>1, <1>2 DEF Values
<1>4. PICK x : T = {x}
  <2>1. IsFiniteSet(T)
    BY RecoveryAssumption, FS_Subset
  <2> HIDE DEF T
  <2> QED
    BY <1>2, <2>1, FS_Singleton
<1>5. \A t \in Tenants \ {c.tenant} : v.tenants[t] = NoRow
  BY <1>1, <1>2, <1>4
<1> HIDE DEF row, T
<1>6. row.min \in c.min .. c.active
  BY <1>1, <1>2, <1>3 DEF Rows
<1>7. NotBackward(row, [c EXCEPT !.min = row.min])
  BY <1>1, <1>2, <1>3 DEF NotBackward, Rows
<1> QED
  BY <1>2, <1>5, <1>6, <1>7 DEF Installable, row

LEMMA RestoreStep ==
  ASSUME Types, NEW p \in Procs, NEW c \in Configs, NEW d \in Dests, RestoreBackup(p, c, d)
  PROVE  \E r : Solo(p, r)
<1> DEFINE a == artifacts[d]
           v == a.header.digest
           r == [proc[p] EXCEPT !.pc = "restoring", !.config = c, !.work = v]
<1>0. /\ proc \in [Procs -> Processes] /\ proc[p] \in Processes /\ ArtifactsTyped
      /\ faults \in 0 .. MaxFaults
  BY DEF Types, Typed
<1>1. /\ At(p, "closed") /\ NoRebuild /\ Reads /\ UNCHANGED <<faults, artifacts>>
      /\ AuthenticateBackup(c, a) /\ ValidateRestored(c, a.header, v)
  BY DEF RestoreBackup, Calls, Reads
<1>2. proc' = [proc EXCEPT ![p] = r]
  BY <1>0 DEF RestoreBackup
<1>3. v \in Values /\ a.header.tenant = c.tenant /\ a.header.catalog = c.catalog
  BY <1>0, <1>1 DEF AuthenticateBackup, ArtifactsTyped, IsArtifact, SnapshotIdentity
<1> HIDE DEF v
<1>4. r \in Processes /\ r.pc = "restoring" /\ r.work = v /\ r.config = c
  BY <1>0, <1>3 DEF Processes, CatalogFiles
<1> HIDE DEF r
<1>5. Installable(r)
  BY <1>1, <1>3, <1>4, ValidatedInstalls
<1>6. StageOf(r) /\ Report(r)
  BY <1>3, <1>4, <1>5, NoneFacts DEF StageOf, Report, Rebuild
<1>7. ArtifactsTyped' /\ ArtifactsStay
  BY <1>0, <1>1 DEF ArtifactsTyped, ArtifactsStay
<1>8. Solo(p, r)
  BY <1>0, <1>1, <1>2, <1>4, <1>6, <1>7 DEF Solo, Becomes, Reads, At, Working, Rebuild
<1> QED
  BY <1>8

LEMMA ScanStep ==
  ASSUME Types, NEW p \in Procs, NEW c \in Configs, FsckScan(p, c)
  PROVE  \E r : Solo(p, r)
<1> DEFINE v == Rebuilt(c)
           r == [proc[p] EXCEPT !.pc = "scanned", !.config = c, !.work = v, !.dest = second]
<1>0. /\ proc \in [Procs -> Processes] /\ proc[p] \in Processes /\ ArtifactsTyped
      /\ faults \in 0 .. MaxFaults /\ second \in Seconds
  BY DEF Types, Typed
<1>1. At(p, "closed") /\ Offline /\ Reads /\ UNCHANGED <<faults, artifacts>>
  BY DEF FsckScan, Calls, Reads
<1>2. proc' = [proc EXCEPT ![p] = r]
  BY <1>0 DEF FsckScan
<1>3. v \in Values
  <2>1. ScannedManifests(c) \subseteq Manifests
    BY DEF ScannedManifests, ObjectFiles
  <2>2. UNION {ChunksOf[m] : m \in ScannedManifests(c)} \subseteq Chunks
    BY <2>1, RecoveryAssumption
  <2>3. Row(c) \in Rows
    BY RecoveryAssumption DEF Row, Rows
  <2>4. [Empty.tenants EXCEPT ![c.tenant] = Row(c)] \in [Tenants -> Rows \cup {NoRow}]
    BY <2>3, EmptyTyped DEF Values
  <2> QED
    BY <2>1, <2>2, <2>4 DEF Rebuilt, Values
<1> HIDE DEF v
<1>4. /\ r \in Processes /\ r.pc = "scanned" /\ r.work = v /\ r.config = c
      /\ r.dest = second
  BY <1>0, <1>3 DEF Processes, CatalogFiles, Rebuild
<1> HIDE DEF r
<1>5. StageOf(r) /\ Report(r)
  BY <1>0, <1>3, <1>4, NoneFacts DEF StageOf, Report, Rebuild
<1>6. ArtifactsTyped' /\ ArtifactsStay
  BY <1>0, <1>1 DEF ArtifactsTyped, ArtifactsStay
<1>7. Solo(p, r)
  BY <1>0, <1>1, <1>2, <1>4, <1>5, <1>6 DEF Solo, Becomes, Reads, At, Working, Rebuild
<1> QED
  BY <1>7

LEMMA CrashStep ==
  ASSUME Types, NEW p \in Procs, Crash(p)
  PROVE  Solo(p, Closed)
<1>0. ArtifactsTyped /\ faults \in 0 .. MaxFaults
  BY DEF Types, Typed
<1>1. /\ Becomes(p, Closed) /\ Report(Closed) /\ Closed.pc = "closed"
      /\ UNCHANGED <<db, wal, evidence, files, corrupt, second, replaced, artifacts>>
  BY RestingFact DEF Crash, Ends, Becomes
<1>2. faults' \in 0 .. MaxFaults
  <2>1. faults < MaxFaults /\ faults' = faults + 1
    BY DEF Crash
  <2> QED
    BY <1>0, <2>1, RecoveryAssumption
<1>3. /\ slipped => slipped'
      /\ proc[p].pc \in {"db moved", "wal moved"} => slipped'
  BY DEF Crash, At
<1>4. ArtifactsTyped' /\ ArtifactsStay
  BY <1>0, <1>1 DEF ArtifactsTyped, ArtifactsStay
<1> QED
  BY <1>1, <1>2, <1>3, <1>4 DEF Solo, Working, Rebuild

(* Kinds of steps preserve the invariant. *)
LEMMA SoloKeepsStore ==
  ASSUME StoreInv, NEW p \in Procs, NEW r, Solo(p, r)
  PROVE  StoreInv'
<1> USE DEF StoreInv
<1>0. /\ proc \in [Procs -> Processes] /\ Typed /\ Stages /\ r \in Processes /\ StageOf(r)
      /\ UNCHANGED <<db, wal, evidence, files, corrupt, second, replaced>>
  BY DEF Types, Typed, Solo, Becomes
<1>1. proc'[p] = r /\ \A q \in Procs \ {p} : proc'[q] = proc[q]
  BY <1>0 DEF Solo, Becomes
<1>2. proc' \in [Procs -> Processes]
  BY <1>0 DEF Solo, Becomes
<1>3. Typed'
  BY <1>0, <1>2 DEF Typed, Solo, CatalogFiles
<1>4. Stages'
  BY <1>0, <1>1 DEF Stages
<1>5. RebuildsAlone'
  <2>1. r.pc \in Working \cup Rebuild \cup {"closed", "restoring"}
    BY <1>0 DEF Processes
  <2>2. ASSUME NEW q \in Procs, proc'[q].pc \in Rebuild, NEW s \in Procs \ {q}
        PROVE  proc'[s].pc = "closed"
    <3>1. CASE p = q
      BY <1>1, <2>2, <3>1 DEF Solo, Offline, At
    <3>2. CASE p # q
      <4>1. proc[q].pc \in Rebuild /\ p \in Procs \ {q}
        BY <1>1, <2>2, <3>2
      <4>2. proc[p].pc = "closed" /\ proc[s].pc = "closed" /\ ~NoRebuild
        BY <2>2, <4>1 DEF RebuildsAlone, Rebuilding, At, NoRebuild, Rebuild
      <4>3. r.pc \notin Rebuild /\ r.pc \notin Working /\ r.pc # "restoring"
        BY <4>1, <4>2 DEF Solo, Offline, At, Working, Rebuild
      <4>4. r.pc = "closed"
        BY <2>1, <4>3
      <4> QED
        BY <1>1, <4>2, <4>4
    <3> QED
      BY <3>1, <3>2
  <2> QED
    BY <2>2 DEF RebuildsAlone, Rebuilding, At, Rebuild
<1>6. WorkingHasCatalog'
  BY <1>0, <1>1 DEF WorkingHasCatalog, Solo
<1>7. Reports'
  <2>1. ASSUME NEW q \in Procs PROVE Report(proc[q])'
    <3>1. Report(proc'[q])
      BY <1>1 DEF Reports, Solo
    <3>2. Catalog' = Catalog
      BY <1>0 DEF Catalog
    <3> QED
      BY <1>0, <3>1, <3>2 DEF Report
  <2> QED
    BY <2>1 DEF Reports
<1> QED
  BY <1>3, <1>4, <1>5, <1>6, <1>7 DEF Types, Solo

(* A reconciliation that a mutation disturbed promises nothing any more. *)
LEMMA MutationKeepsStore ==
  ASSUME StoreInv, Mutation
  PROVE  StoreInv'
<1> USE DEF StoreInv
<1>0. /\ Typed /\ Stages /\ ArtifactsTyped
      /\ UNCHANGED <<db, evidence, artifacts, second, replaced>>
  BY DEF Types, Mutation
<1>1. ASSUME NEW q \in Procs
      PROVE  /\ proc'[q] \in Processes /\ StageOf(proc'[q]) /\ proc'[q].pc = proc[q].pc
             /\ Report(proc[q])'
  <2> DEFINE r == [proc[q] EXCEPT !.quiet = @ /\ ~At(q, "checking")]
  <2>1. proc'[q] = r
    BY DEF Mutation, Disturbs
  <2>2. proc[q] \in Processes /\ StageOf(proc[q])
    BY <1>0 DEF Typed, Stages
  <2>3. /\ DOMAIN r = DOMAIN proc[q]
        /\ r.pc = proc[q].pc /\ r.config = proc[q].config /\ r.work = proc[q].work
        /\ r.dest = proc[q].dest /\ r.missing = proc[q].missing /\ r.corrupt = proc[q].corrupt
        /\ r.quiet = (proc[q].quiet /\ ~At(q, "checking"))
    BY <2>2 DEF Processes
  <2>4. r \in Processes
    <3>1. (proc[q].quiet /\ ~At(q, "checking")) \in BOOLEAN
      OBVIOUS
    <3> DEFINE b == proc[q].quiet /\ ~At(q, "checking")
    <3>2. r = [proc[q] EXCEPT !.quiet = b] /\ b \in BOOLEAN
      BY <3>1
    <3> HIDE DEF b, r
    <3> QED
      BY <2>2, <3>2 DEF Processes
  <2> HIDE DEF r
  <2>5. StageOf(r)
    BY <2>2, <2>3 DEF StageOf, Installable
  <2>6. ~(r.pc = "checking" /\ r.quiet)
    BY <2>3 DEF At
  <2> QED
    BY <2>1, <2>3, <2>4, <2>5, <2>6 DEF Report
<1>2. proc' \in [Procs -> Processes]
  <2>1. proc' = [q \in Procs |-> proc'[q]]
    BY DEF Mutation, Disturbs
  <2> QED
    BY <1>1, <2>1
<1>3. wal' \in CatalogFiles
  BY <1>0 DEF Mutation, Typed, CatalogFiles
<1>4. Typed'
  BY <1>0, <1>2, <1>3 DEF Typed, Mutation, CatalogFiles
<1>5. Stages' /\ Reports'
  BY <1>1 DEF Stages, Reports
<1>6. RebuildsAlone' /\ WorkingHasCatalog'
  BY <1>0, <1>1 DEF RebuildsAlone, WorkingHasCatalog, Rebuilding, At
<1>7. ArtifactsTyped'
  BY <1>0 DEF ArtifactsTyped
<1> QED
  BY <1>4, <1>5, <1>6, <1>7 DEF Types

(* A step of p on the catalog itself, which nobody else works with or whose objects
   it leaves. *)
Handles(p, r) ==
    /\ Becomes(p, r)
    /\ db' \in CatalogFiles /\ wal' \in CatalogFiles /\ replaced' \subseteq Values
    /\ evidence' \in [Seconds -> [db : CatalogFiles, wal : CatalogFiles]]
    /\ UNCHANGED <<files, corrupt, second, faults, artifacts>>
    /\ r.pc \in Rebuild => Rebuilding(p)
    /\ r.pc \in Rebuild \cup {"open", "closed"}
    /\ r.pc = "open" => NoRebuild /\ db' # NoFile
    /\ \A q \in Procs \ {p} : proc[q].pc \in Working => db' # NoFile
    /\ \A q \in Procs \ {p} : proc[q].pc = "checking" =>
          InventoryObjects(proc[q].config, Catalog') = InventoryObjects(proc[q].config, Catalog)

LEMMA HandlesKeepsStore ==
  ASSUME StoreInv, NEW p \in Procs, NEW r, Handles(p, r)
  PROVE  StoreInv'
<1> USE DEF StoreInv
<1>0. /\ proc \in [Procs -> Processes] /\ Typed /\ Stages /\ ArtifactsTyped
      /\ r \in Processes /\ StageOf(r)
      /\ UNCHANGED <<files, corrupt, second, faults, artifacts>>
  BY DEF Types, Typed, Handles, Becomes
<1>1. proc'[p] = r /\ \A q \in Procs \ {p} : proc'[q] = proc[q]
  BY <1>0 DEF Handles, Becomes
<1>2. proc' \in [Procs -> Processes]
  BY <1>0 DEF Handles, Becomes
<1>3. Typed'
  BY <1>0, <1>2 DEF Typed, Handles, CatalogFiles
<1>4. Stages' /\ ArtifactsTyped'
  BY <1>0, <1>1 DEF Stages, ArtifactsTyped
<1>5. RebuildsAlone'
  <2>1. ASSUME NEW q \in Procs, proc'[q].pc \in Rebuild, NEW s \in Procs \ {q}
        PROVE  proc'[s].pc = "closed"
    <3>1. CASE p = q
      BY <1>1, <2>1, <3>1 DEF Handles, RebuildsAlone, At
    <3>2. CASE p # q
      <4>1. proc[q].pc \in Rebuild /\ p \in Procs \ {q}
        BY <1>1, <2>1, <3>2
      <4>2. proc[p].pc = "closed" /\ proc[s].pc = "closed" /\ ~NoRebuild
        BY <2>1, <4>1 DEF RebuildsAlone, Rebuilding, At, NoRebuild, Rebuild
      <4>3. r.pc = "closed"
        BY <4>1, <4>2 DEF Handles, Rebuilding
      <4> QED
        BY <1>1, <4>2, <4>3
    <3> QED
      BY <3>1, <3>2
  <2> QED
    BY <2>1 DEF RebuildsAlone, Rebuilding, At, Rebuild
<1>6. WorkingHasCatalog'
  <2>1. r.pc \in Working => r.pc = "open"
    BY DEF Handles, Working, Rebuild
  <2> QED
    BY <1>1, <2>1 DEF WorkingHasCatalog, Handles
<1>7. Reports'
  <2>1. ASSUME NEW q \in Procs PROVE Report(proc[q])'
    <3>1. CASE q = p
      BY <1>1, <3>1 DEF Report, Handles, Rebuild
    <3>2. CASE q # p
      <4>1. Report(proc[q]) /\ proc'[q] = proc[q]
        BY <1>1, <3>2 DEF Reports
      <4>2. proc[q].pc = "checking" =>
              InventoryObjects(proc[q].config, Catalog') = InventoryObjects(proc[q].config, Catalog)
        BY <3>2 DEF Handles
      <4> HIDE DEF Handles
      <4> QED
        BY <1>0, <4>1, <4>2 DEF Report
    <3> QED
      BY <3>1, <3>2
  <2> QED
    BY <2>1 DEF Reports
<1> QED
  BY <1>3, <1>4, <1>5, <1>6, <1>7 DEF Types

(* The steps on the catalog itself. *)
CatalogStep(p) ==
    \/ \E c \in Configs : Open(p, c)
    \/ Close(p) \/ RestorePublish(p)
    \/ FsckMoveDb(p) \/ FsckMoveWal(p) \/ FsckPublish(p)

(* Nobody works with a store that is being rebuilt, and nobody with none. *)
LEMMA NobodyElse ==
  ASSUME StoreInv, NEW p \in Procs, Rebuilding(p)
  PROVE  \A q \in Procs \ {p} : proc[q].pc = "closed" /\ proc[q].pc \notin Working
BY DEF StoreInv, RebuildsAlone, At, Working

LEMMA OpenStep ==
  ASSUME StoreInv, NEW p \in Procs, NEW c \in Configs, Open(p, c)
  PROVE  Handles(p, [Closed EXCEPT !.pc = "open", !.config = c])
<1> DEFINE found == IF db = NoFile THEN Empty ELSE Catalog
           v == [found EXCEPT !.tenants[c.tenant] = Row(c)]
           r == [Closed EXCEPT !.pc = "open", !.config = c]
<1>0. Typed
  BY DEF StoreInv, Types
<1>1. found \in Values
  BY <1>0, EmptyTyped, CatalogTyped DEF Typed
<1>2. /\ db' = (IF db = NoFile THEN Empty ELSE db) /\ wal' = v /\ NoRebuild
      /\ proc' = [proc EXCEPT ![p] = r]
      /\ UNCHANGED <<evidence, files, corrupt, second, faults, artifacts, replaced>>
  BY DEF Open, Calls
<1> HIDE DEF found
<1>3. /\ v \in Values /\ v.manifests = found.manifests /\ v.chunks = found.chunks
      /\ v.tombstones = found.tombstones
  <2>1. Row(c) \in Rows /\ c.tenant \in Tenants
    BY RecoveryAssumption DEF Row, Rows
  <2> QED
    BY <1>1, <2>1 DEF Values
<1>4. Becomes(p, r) /\ r.pc = "open"
  BY <1>2, RestingFact DEF Becomes
<1>5. db' \in CatalogFiles /\ db' # NoFile /\ wal' \in CatalogFiles /\ wal' # NoFile
  BY <1>0, <1>2, <1>3, EmptyTyped, NoneFacts DEF Typed, CatalogFiles
<1> HIDE DEF v, r
<1>6. ASSUME NEW q \in Procs \ {p}, proc[q].pc = "checking"
      PROVE  InventoryObjects(proc[q].config, Catalog') = InventoryObjects(proc[q].config, Catalog)
  <2>1. db # NoFile
    BY <1>6 DEF StoreInv, WorkingHasCatalog, Working
  <2>2. found = Catalog /\ Catalog' = v
    BY <1>2, <1>5, <2>1 DEF Catalog, found
  <2> QED
    BY <1>3, <2>2 DEF InventoryObjects
<1> QED
  BY <1>0, <1>2, <1>4, <1>5, <1>6 DEF Handles, Typed, r, Rebuild

LEMMA CloseStep ==
  ASSUME StoreInv, NEW p \in Procs, Close(p)
  PROVE  Handles(p, Closed)
<1>0. Typed /\ Stages
  BY DEF StoreInv, Types
<1>1. /\ At(p, "open") /\ proc' = [proc EXCEPT ![p] = Closed]
      /\ UNCHANGED <<evidence, files, corrupt, second, faults, artifacts, replaced>>
  BY DEF Close, Ends
<1>2. db # NoFile /\ Catalog \in Values
  BY <1>0, <1>1, CatalogTyped DEF StoreInv, WorkingHasCatalog, Working, At, Typed
<1>3. (db' = Catalog /\ wal' = NoFile) \/ UNCHANGED <<db, wal>>
  BY DEF Close
<1>4. Catalog' = Catalog /\ db' # NoFile /\ db' \in CatalogFiles /\ wal' \in CatalogFiles
  <2>1. CASE db' = Catalog /\ wal' = NoFile
    BY <1>2, <2>1, NoneFacts DEF Catalog, CatalogFiles
  <2>2. CASE UNCHANGED <<db, wal>>
    BY <1>0, <1>2, <2>2 DEF Catalog, Typed
  <2> QED
    BY <1>3, <2>1, <2>2
<1>5. Becomes(p, Closed) /\ Closed.pc = "closed"
  BY <1>1, RestingFact DEF Becomes
<1> QED
  BY <1>0, <1>1, <1>4, <1>5 DEF Handles, Typed, Rebuild

LEMMA RestorePublishStep ==
  ASSUME StoreInv, NEW p \in Procs, RestorePublish(p)
  PROVE  Handles(p, Closed)
<1>0. Typed /\ StageOf(proc[p])
  BY DEF StoreInv, Types, Stages
<1>1. /\ At(p, "restoring") /\ proc' = [proc EXCEPT ![p] = Closed]
      /\ db' = (IF db = NoFile THEN proc[p].work ELSE db)
      /\ UNCHANGED <<wal, evidence, files, corrupt, second, faults, artifacts, replaced>>
  BY DEF RestorePublish, Ends, InstallCatalog
<1>2. proc[p].work \in Values
  BY <1>0, <1>1 DEF StageOf, At
<1>3. /\ db' \in CatalogFiles /\ db' # NoFile
      /\ db # NoFile => Catalog' = Catalog
  BY <1>0, <1>1, <1>2, NoneFacts DEF Typed, CatalogFiles, Catalog
<1>4. \A q \in Procs : proc[q].pc = "checking" => db # NoFile
  BY DEF StoreInv, WorkingHasCatalog, Working
<1>5. Becomes(p, Closed) /\ Closed.pc = "closed"
  BY <1>1, RestingFact DEF Becomes
<1> QED
  BY <1>0, <1>1, <1>3, <1>4, <1>5 DEF Handles, Typed, Rebuild

LEMMA GoesOn ==
  ASSUME Types, NEW p \in Procs, Rebuilding(p), NEW pc \in Rebuild, Goes(p, pc)
  PROVE  \E r : Becomes(p, r) /\ r.pc = pc
<1> DEFINE r == [proc[p] EXCEPT !.pc = pc]
<1>0. /\ proc \in [Procs -> Processes] /\ proc[p] \in Processes /\ StageOf(proc[p])
      /\ proc[p].pc \in Rebuild
  BY DEF Types, Typed, Stages, Rebuilding, Rebuild
<1>1. proc' = [proc EXCEPT ![p] = r]
  BY <1>0 DEF Goes
<1>2. /\ r \in Processes /\ r.pc = pc /\ r.config = proc[p].config
      /\ r.work = proc[p].work /\ r.dest = proc[p].dest
  BY <1>0 DEF Processes
<1> HIDE DEF r
<1>3. StageOf(r)
  BY <1>0, <1>2 DEF StageOf, Rebuild
<1> QED
  BY <1>1, <1>2, <1>3 DEF Becomes

LEMMA RebuildSteps ==
  ASSUME StoreInv, NEW p \in Procs
  PROVE  /\ FsckMoveDb(p) => \E r : Handles(p, r)
         /\ FsckMoveWal(p) => \E r : Handles(p, r)
         /\ FsckPublish(p) => \E r : Handles(p, r)
<1> DEFINE s == proc[p].dest
           Files == [Seconds -> [db : CatalogFiles, wal : CatalogFiles]]
<1>0. Types /\ Typed /\ StageOf(proc[p])
  BY DEF StoreInv, Types, Stages
<1>1. ASSUME FsckMoveDb(p) PROVE \E r : Handles(p, r)
  <2>1. /\ At(p, "scanned") /\ Goes(p, "db moved") /\ Rebuilding(p)
        /\ UNCHANGED <<wal, files, corrupt, second, faults, artifacts>>
    BY <1>1 DEF FsckMoveDb, Rebuilding, At
  <2>2. s \in Seconds
    BY <1>0, <2>1 DEF StageOf, At, Rebuild
  <2>3. db' \in CatalogFiles /\ evidence' \in Files /\ replaced' \subseteq Values
    <3>1. CASE db = NoFile
      BY <1>0, <1>1, <3>1 DEF FsckMoveDb, Typed
    <3>2. CASE db # NoFile
      <4>1. db' = NoFile /\ evidence' = [evidence EXCEPT ![s].db = db]
            /\ replaced' = replaced \cup {Catalog}
        BY <1>1, <3>2 DEF FsckMoveDb
      <4>2. Catalog \in Values
        BY <1>0, <3>2, CatalogTyped DEF Typed
      <4> HIDE DEF s
      <4> QED
        BY <1>0, <2>2, <4>1, <4>2 DEF Typed, CatalogFiles
    <3> QED
      BY <3>1, <3>2
  <2>4. PICK r : Becomes(p, r) /\ r.pc = "db moved"
    BY <1>0, <2>1, GoesOn DEF Rebuild
  <2>5. Handles(p, r)
    BY <1>0, <2>1, <2>3, <2>4, NobodyElse DEF Handles, Typed, Rebuild
  <2> QED
    BY <2>5
<1>2. ASSUME FsckMoveWal(p) PROVE \E r : Handles(p, r)
  <2>1. /\ At(p, "db moved") /\ Goes(p, "wal moved") /\ Rebuilding(p)
        /\ UNCHANGED <<db, files, corrupt, second, faults, artifacts, replaced>>
    BY <1>2 DEF FsckMoveWal, Rebuilding, At
  <2>2. s \in Seconds
    BY <1>0, <2>1 DEF StageOf, At, Rebuild
  <2>3. wal' \in CatalogFiles /\ evidence' \in Files
    <3>1. CASE wal = NoFile
      BY <1>0, <1>2, <3>1 DEF FsckMoveWal, Typed
    <3>2. CASE wal # NoFile
      <4>1. wal' = NoFile /\ evidence' = [evidence EXCEPT ![s].wal = wal]
        BY <1>2, <3>2 DEF FsckMoveWal
      <4> HIDE DEF s
      <4> QED
        BY <1>0, <2>2, <4>1 DEF Typed, CatalogFiles
    <3> QED
      BY <3>1, <3>2
  <2>4. PICK r : Becomes(p, r) /\ r.pc = "wal moved"
    BY <1>0, <2>1, GoesOn DEF Rebuild
  <2>5. Handles(p, r)
    BY <1>0, <2>1, <2>3, <2>4, NobodyElse DEF Handles, Typed, Rebuild
  <2> QED
    BY <2>5
<1>3. ASSUME FsckPublish(p) PROVE \E r : Handles(p, r)
  <2>1. /\ At(p, "wal moved") /\ proc' = [proc EXCEPT ![p] = Closed] /\ Rebuilding(p)
        /\ db' = proc[p].work
        /\ UNCHANGED <<wal, evidence, files, corrupt, second, faults, artifacts, replaced>>
    BY <1>3 DEF FsckPublish, Ends, Rebuilding, At
  <2>2. db' \in CatalogFiles
    BY <1>0, <2>1 DEF StageOf, At, Rebuild, CatalogFiles
  <2>3. Becomes(p, Closed) /\ Closed.pc = "closed"
    BY <2>1, RestingFact DEF Becomes
  <2>4. Handles(p, Closed)
    BY <1>0, <2>1, <2>2, <2>3, NobodyElse DEF Handles, Typed, Rebuild
  <2> QED
    BY <2>4
<1> QED
  BY <1>1, <1>2, <1>3

LEMMA CatalogStepsHandle ==
  ASSUME StoreInv, NEW p \in Procs, CatalogStep(p)
  PROVE  \E r : Handles(p, r)
BY OpenStep, CloseStep, RestorePublishStep, RebuildSteps DEF CatalogStep

-----------------------------------------------------------------------------
(* Every step is of one of these kinds. *)
LEMMA StepKinds ==
  ASSUME StoreInv, Next
  PROVE  \/ \E p \in Procs : \E r : Solo(p, r)
         \/ Mutation
         \/ \E p \in Procs : CatalogStep(p)
         \/ Tick \/ LoseCatalog
         \/ \E d \in Dests : DamageArtifact(d)
<1>0. Types /\ WorkingHasCatalog /\ Reports
  BY DEF StoreInv
<1>1. CASE \E o \in Manifests \cup Chunks : Damage(o)
  BY <1>0, <1>1, DamageSteps DEF Objects
<1>2. CASE Tick \/ LoseCatalog \/ \E d \in Dests : DamageArtifact(d)
  BY <1>2
<1>3. ASSUME NEW p \in Procs,
             \/ \E m \in Manifests : WriteFiles(p, m) \/ Publish(p, m) \/ Evict(p, m)
             \/ \E k \in Chunks : Demote(p, k)
             \/ Retire(p)
      PROVE  Mutation
  BY <1>0, <1>3, MutationSteps
<1>4. ASSUME NEW p \in Procs,
             \/ \E d \in Dests : BackupSnapshot(p, d) \/ InventorySnapshot(p, d)
             \/ BackupPublish(p) \/ InventoryPublish(p)
             \/ ReconcileLoad(p) \/ ReconcileObject(p) \/ ReconcileReport(p)
      PROVE  \E r : Solo(p, r)
  BY <1>0, <1>4, WorkSteps
<1>5. ASSUME NEW p \in Procs,
             \/ \E c \in Configs : FsckScan(p, c)
             \/ \E c \in Configs, d \in Dests : RestoreBackup(p, c, d)
             \/ Crash(p)
      PROVE  \E r : Solo(p, r)
  BY <1>0, <1>5, ScanStep, RestoreStep, CrashStep
<1>6. ASSUME NEW p \in Procs,
             \/ \E c \in Configs : Open(p, c)
             \/ Close(p) \/ RestorePublish(p)
             \/ FsckMoveDb(p) \/ FsckMoveWal(p) \/ FsckPublish(p)
      PROVE  CatalogStep(p)
  BY <1>6 DEF CatalogStep
<1> QED
  BY <1>1, <1>2, <1>3, <1>4, <1>5, <1>6 DEF Next

(* The steps of the environment and stuttering. *)
LEMMA QuietKeepsStore ==
  ASSUME StoreInv, UNCHANGED <<db, wal, evidence, files, corrupt, proc, replaced>>,
         second' \in Seconds, faults' \in 0 .. MaxFaults, ArtifactsTyped'
  PROVE  StoreInv'
<1> USE DEF StoreInv
<1>1. Typed'
  BY DEF Types, Typed
<1>2. Stages' /\ RebuildsAlone' /\ WorkingHasCatalog'
  BY DEF Types, Stages, RebuildsAlone, WorkingHasCatalog, Rebuilding, At
<1>3. Reports'
  <2>1. ASSUME NEW p \in Procs PROVE Report(proc[p])'
    <3>1. Report(proc[p])
      BY DEF Reports
    <3>2. Catalog' = Catalog
      BY DEF Catalog
    <3> QED
      BY <3>1, <3>2 DEF Report
  <2> QED
    BY <2>1 DEF Reports
<1> QED
  BY <1>1, <1>2, <1>3 DEF Types

LEMMA OneMoreFault ==
  ASSUME faults \in 0 .. MaxFaults, faults < MaxFaults, faults' = faults + 1
  PROVE  faults' \in 0 .. MaxFaults /\ faults' # faults
BY RecoveryAssumption

LEMMA LoseKeepsStore ==
  ASSUME StoreInv, LoseCatalog
  PROVE  StoreInv'
<1> USE DEF StoreInv
<1>0. Typed /\ Stages /\ ArtifactsTyped
  BY DEF Types
<1>1. /\ Offline /\ db' = NoFile /\ wal' = NoFile
      /\ UNCHANGED <<evidence, files, corrupt, artifacts, proc, second, replaced>>
  BY DEF LoseCatalog
<1>2. faults' \in 0 .. MaxFaults
  BY <1>0, OneMoreFault DEF LoseCatalog, Typed
<1>3. Typed'
  BY <1>0, <1>1, <1>2 DEF Typed, CatalogFiles
<1>4. Stages' /\ RebuildsAlone' /\ ArtifactsTyped'
  BY <1>0, <1>1 DEF Stages, RebuildsAlone, Rebuilding, At, ArtifactsTyped
<1>5. WorkingHasCatalog' /\ Reports'
  BY <1>1 DEF WorkingHasCatalog, Reports, Report, Working, Offline, At
<1> QED
  BY <1>3, <1>4, <1>5 DEF Types

LEMMA DamageArtifactKeepsStore ==
  ASSUME StoreInv, NEW d \in Dests, DamageArtifact(d)
  PROVE  StoreInv' /\ faults' # faults
<1> USE DEF StoreInv
<1>0. Typed /\ ArtifactsTyped
  BY DEF Types
<1>1. /\ UNCHANGED <<db, wal, evidence, files, corrupt, proc, second, replaced>>
      /\ artifacts[d] # NoFile
  BY DEF DamageArtifact
<1>2. faults' \in 0 .. MaxFaults /\ faults' # faults
  BY <1>0, OneMoreFault DEF DamageArtifact, Typed
<1>3. PICK body : artifacts' = [artifacts EXCEPT ![d].body = body]
  BY DEF DamageArtifact
<1>4. ArtifactsTyped'
  <2> DEFINE a == [artifacts[d] EXCEPT !.body = body]
  <2>1. artifacts' = [artifacts EXCEPT ![d] = a]
    BY <1>0, <1>3 DEF ArtifactsTyped
  <2>2. IsArtifact(artifacts[d])
    BY <1>0, <1>1 DEF ArtifactsTyped
  <2>3. IsArtifact(a)
    BY <2>2 DEF IsArtifact
  <2> HIDE DEF a
  <2> QED
    BY <1>0, <2>1, <2>3 DEF ArtifactsTyped
<1> QED
  BY <1>0, <1>1, <1>2, <1>4, QuietKeepsStore DEF Typed

LEMMA StoreStep ==
  ASSUME StoreInv, [Next]_vars
  PROVE  StoreInv'
<1>0. Typed /\ ArtifactsTyped
  BY DEF StoreInv, Types
<1>1. CASE \E p \in Procs : \E r : Solo(p, r)
  BY <1>1, SoloKeepsStore
<1>2. CASE Mutation
  BY <1>2, MutationKeepsStore
<1>3. CASE \E p \in Procs : CatalogStep(p)
  BY <1>3, CatalogStepsHandle, HandlesKeepsStore
<1>4. CASE Tick
  <2>1. /\ UNCHANGED <<db, wal, evidence, files, corrupt, proc, replaced, artifacts, faults>>
        /\ second' \in Seconds
    BY <1>4 DEF Tick
  <2>2. ArtifactsTyped' /\ faults' \in 0 .. MaxFaults
    BY <1>0, <2>1 DEF ArtifactsTyped, Typed
  <2> QED
    BY <2>1, <2>2, QuietKeepsStore
<1>5. CASE LoseCatalog
  BY <1>5, LoseKeepsStore
<1>6. CASE \E d \in Dests : DamageArtifact(d)
  BY <1>6, DamageArtifactKeepsStore
<1>7. CASE UNCHANGED vars
  <2>1. UNCHANGED <<db, wal, evidence, files, corrupt, proc, replaced, artifacts, faults, second>>
    BY <1>7 DEF vars
  <2>2. ArtifactsTyped' /\ faults' \in 0 .. MaxFaults /\ second' \in Seconds
    BY <1>0, <2>1 DEF ArtifactsTyped, Typed
  <2> QED
    BY <2>1, <2>2, QuietKeepsStore
<1> QED
  BY <1>1, <1>2, <1>3, <1>4, <1>5, <1>6, <1>7, StepKinds

LEMMA StoreInit ==
  ASSUME Init
  PROVE  StoreInv
<1>1. \A p \in Procs : proc[p] = Closed
  BY DEF Init
<1>2. Typed
  <2>1. proc \in [Procs -> Processes]
    BY RestingFact DEF Init
  <2>2. evidence \in [Seconds -> [db : CatalogFiles, wal : CatalogFiles]]
    BY DEF Init, CatalogFiles
  <2>3. faults \in 0 .. MaxFaults /\ second \in Seconds
    BY RecoveryAssumption DEF Init
  <2> QED
    BY <2>1, <2>2, <2>3 DEF Init, Typed, CatalogFiles
<1>3. ArtifactsTyped
  BY DEF Init, ArtifactsTyped
<1>4. Stages /\ Reports
  BY <1>1, RestingFact DEF Stages, Reports
<1>5. RebuildsAlone /\ WorkingHasCatalog
  BY <1>1, RestingFact DEF RebuildsAlone, WorkingHasCatalog, Rebuilding, Working
<1> QED
  BY <1>2, <1>3, <1>4, <1>5 DEF StoreInv, Types

(* The invariant of the store and of the calls under way holds throughout. *)
THEOREM StoreInvariant == Spec => []StoreInv
BY StoreInit, StoreStep, PTL DEF Spec

(* The variables keep their types: no file is damaged that is not there, and every
   process works under one of the configurations. *)
THEOREM TypeCorrect == Spec => []TypeOK
<1>1. StoreInv => TypeOK
  <2> SUFFICES ASSUME StoreInv PROVE TypeOK
    OBVIOUS
  <2>1. Typed
    BY DEF StoreInv, Types
  <2>2. \A p \in Procs : proc[p].config \in Configs \cup {NoConfig}
    BY <2>1 DEF Typed, Processes
  <2> QED
    BY <2>1, <2>2 DEF Typed, TypeOK, Objects
<1> QED
  BY <1>1, StoreInvariant, PTL

(* restore_catalog_backup installs only what LocalStore::open of the restoring
   configuration accepts again, for every window of key epochs. *)
THEOREM RestoredCatalogsOpen == Spec => []RestoredOpens
<1>1. StoreInv => RestoredOpens
  BY DEF StoreInv, Types, Stages, StageOf, Installable, RestoredOpens, At, Config
<1> QED
  BY <1>1, StoreInvariant, PTL

(* reconcile_catalog_objects names exactly the cataloged objects whose file is gone or
   bad, unless a mutation ran beside it. *)
THEOREM ReportsAreExact == Spec => []ReportExact
<1>1. StoreInv => ReportExact
  <2> SUFFICES ASSUME StoreInv, NEW p \in Procs,
                      At(p, "checking") /\ proc[p].quiet /\ proc[p].work = <<>>
               PROVE  LET listed == InventoryObjects(Config(p), Catalog)
                      IN  /\ proc[p].missing = listed \ files
                          /\ proc[p].corrupt = listed \cap corrupt
    BY DEF ReportExact
  <2> DEFINE left == {proc[p].work[i] : i \in DOMAIN proc[p].work}
  <2>1. Report(proc[p])
    BY DEF StoreInv, Reports
  <2>2. left = {}
    OBVIOUS
  <2>3. LET listed == InventoryObjects(Config(p), Catalog)
        IN  /\ proc[p].missing \cup (left \ files) = listed \ files
            /\ proc[p].corrupt \cup (left \cap corrupt) = listed \cap corrupt
    BY <2>1 DEF Report, At, Config
  <2> HIDE DEF left
  <2> QED
    BY <2>2, <2>3
<1> QED
  BY <1>1, StoreInvariant, PTL

-----------------------------------------------------------------------------
(* The evidence of a rebuild, as long as no rebuild was cut short between its renames
   and no two shared a second. *)
Retained == \A v \in replaced : \E s \in Seconds : EvidenceValue(s) = v

EvidencePaired == \A s \in Seconds : evidence[s].wal # NoFile => evidence[s].db # NoFile

(* Between the renames the newest state may be in the WAL that is still at the path. *)
Moving(p) ==
    /\ db = NoFile
    /\ wal = NoFile => Retained
    /\ wal # NoFile =>
         /\ evidence[proc[p].dest].db # NoFile /\ evidence[proc[p].dest].wal = NoFile
         /\ \A v \in replaced :
              v = wal \/ \E s \in Seconds \ {proc[p].dest} : EvidenceValue(s) = v

EvidenceInv ==
    /\ EvidencePaired
    /\ \A p \in Procs : At(p, "db moved") => Moving(p)
    /\ \A p \in Procs : At(p, "wal moved") => db = NoFile /\ wal = NoFile
    /\ (\A p \in Procs : ~At(p, "db moved")) => Retained /\ (db = NoFile => wal = NoFile)

KeptInv == slipped \/ EvidenceInv

LEMMA SettledKeeps ==
  ASSUME EvidenceInv, UNCHANGED <<evidence, replaced>>, \A p \in Procs : ~At(p, "db moved"),
         \A p \in Procs : proc'[p].pc \notin {"db moved", "wal moved"},
         db' = NoFile => wal' = NoFile
  PROVE  EvidenceInv'
<1>1. EvidencePaired' /\ Retained'
  BY DEF EvidenceInv, EvidencePaired, Retained, EvidenceValue
<1> QED
  BY <1>1 DEF EvidenceInv, At

LEMMA UnmovedKeeps ==
  ASSUME EvidenceInv, UNCHANGED <<db, wal, evidence, replaced>>,
         \A p \in Procs : /\ At(p, "db moved") <=> proc'[p].pc = "db moved"
                          /\ At(p, "wal moved") <=> proc'[p].pc = "wal moved"
                          /\ At(p, "db moved") => proc'[p].dest = proc[p].dest
  PROVE  EvidenceInv'
<1>1. EvidencePaired' /\ (Retained <=> Retained')
  BY DEF EvidenceInv, EvidencePaired, Retained, EvidenceValue
<1>2. ASSUME NEW p \in Procs, proc'[p].pc = "db moved" PROVE Moving(p)'
  <2>1. Moving(p) /\ proc'[p].dest = proc[p].dest
    BY <1>2 DEF EvidenceInv
  <2>2. \A s \in Seconds : EvidenceValue(s)' = EvidenceValue(s)
    BY DEF EvidenceValue
  <2> QED
    BY <1>1, <2>1, <2>2 DEF Moving
<1> QED
  BY <1>1, <1>2 DEF EvidenceInv, At

(* Someone who is neither closed nor rebuilding rules a rebuild out. *)
LEMMA NobodyMoves ==
  ASSUME StoreInv, NEW p \in Procs, ~At(p, "closed"), ~Rebuilding(p)
  PROVE  \A q \in Procs : ~Rebuilding(q) /\ proc[q].pc \notin {"db moved", "wal moved"}
BY DEF StoreInv, RebuildsAlone, At, Rebuilding

LEMMA SoloKeepsEvidence ==
  ASSUME StoreInv, EvidenceInv, NEW p \in Procs, NEW r, Solo(p, r), ~slipped'
  PROVE  EvidenceInv'
<1>1. proc'[p] = r /\ \A q \in Procs \ {p} : proc'[q] = proc[q]
  BY DEF Solo, Becomes, StoreInv, Types, Typed
<1>2. UNCHANGED <<db, wal, evidence, replaced>> /\ proc[p].pc \notin {"db moved", "wal moved"}
  BY DEF Solo
<1>3. r.pc \notin {"db moved", "wal moved"}
  BY DEF Solo, Rebuild
<1> QED
  BY <1>1, <1>2, <1>3, UnmovedKeeps DEF At

LEMMA MutationKeepsEvidence ==
  ASSUME StoreInv, EvidenceInv, Mutation
  PROVE  EvidenceInv'
<1>1. \A q \in Procs : proc'[q].pc = proc[q].pc /\ proc'[q].dest = proc[q].dest
  <2>1. TAKE q \in Procs
  <2>2. proc[q] \in Processes
    BY DEF StoreInv, Types, Typed
  <2> QED
    BY <2>2 DEF Mutation, Disturbs, Processes
<1>2. UNCHANGED <<db, evidence, replaced>>
  BY DEF Mutation
<1>3. CASE wal' = wal
  BY <1>1, <1>2, <1>3, UnmovedKeeps DEF At
<1>4. CASE wal' # wal
  <2>1. PICK p \in Procs : At(p, "open")
    BY <1>4 DEF Mutation
  <2>2. db # NoFile
    BY <2>1 DEF StoreInv, WorkingHasCatalog, Working, At
  <2>3. \A q \in Procs : proc[q].pc \notin {"db moved", "wal moved"}
    BY <2>1, NobodyMoves DEF At, Rebuilding
  <2> QED
    BY <1>1, <1>2, <2>2, <2>3, SettledKeeps DEF At
<1> QED
  BY <1>3, <1>4

LEMMA UseKeepsEvidence ==
  ASSUME StoreInv, EvidenceInv, NEW p \in Procs,
         (\E c \in Configs : Open(p, c)) \/ Close(p) \/ RestorePublish(p)
  PROVE  EvidenceInv'
<1>0. proc \in [Procs -> Processes] /\ Typed
  BY DEF StoreInv, Types, Typed
<1>1. \A q \in Procs : proc[q].pc \notin {"db moved", "wal moved"}
  <2>1. CASE \E c \in Configs : Open(p, c)
    BY <2>1 DEF Open, NoRebuild, Rebuilding
  <2>2. CASE Close(p) \/ RestorePublish(p)
    BY <2>2, NobodyMoves DEF Close, RestorePublish, At, Rebuilding
  <2> QED
    BY <2>1, <2>2
<1>2. PICK r : proc' = [proc EXCEPT ![p] = r] /\ r.pc \in {"open", "closed"}
  BY RestingFact DEF Open, Close, RestorePublish, Ends
<1>3. \A q \in Procs : proc'[q].pc \notin {"db moved", "wal moved"}
  BY <1>0, <1>1, <1>2
<1>4. UNCHANGED <<evidence, replaced>>
  BY DEF Open, Close, RestorePublish
<1>5. db' # NoFile
  <2>1. ASSUME NEW c \in Configs, Open(p, c) PROVE db' # NoFile
    BY <2>1, EmptyTyped, NoneFacts DEF Open
  <2>2. ASSUME Close(p) PROVE db' # NoFile
    <3>1. db # NoFile /\ Catalog \in Values
      BY <1>0, <2>2, CatalogTyped DEF StoreInv, WorkingHasCatalog, Working, At, Typed, Close
    <3> QED
      BY <2>2, <3>1, NoneFacts DEF Close
  <2>3. ASSUME RestorePublish(p) PROVE db' # NoFile
    <3>1. proc[p].work \in Values
      BY <2>3 DEF StoreInv, Types, Stages, StageOf, RestorePublish, At
    <3> QED
      BY <2>3, <3>1, NoneFacts DEF RestorePublish, InstallCatalog
  <2> QED
    BY <2>1, <2>2, <2>3
<1> QED
  BY <1>1, <1>3, <1>4, <1>5, SettledKeeps DEF At

(* The first rename: the second is its own, so nothing is overwritten, and the newest
   state is either in the file that moved or in the WAL that is still there. *)
LEMMA MoveDbKeepsEvidence ==
  ASSUME StoreInv, EvidenceInv, NEW p \in Procs, FsckMoveDb(p), ~slipped'
  PROVE  EvidenceInv'
<1>0. /\ Typed /\ proc \in [Procs -> Processes] /\ proc[p] \in Processes
      /\ StageOf(proc[p]) /\ At(p, "scanned") /\ UNCHANGED wal
  BY DEF StoreInv, Types, Typed, Stages, FsckMoveDb
<1>1. PICK s \in Seconds : s = proc[p].dest
  BY <1>0 DEF StageOf, At, Rebuild
<1>2. /\ proc'[p].pc = "db moved" /\ proc'[p].dest = s
      /\ \A q \in Procs \ {p} : proc'[q].pc = "closed"
  <2>1. \A q \in Procs \ {p} : proc[q].pc = "closed"
    BY <1>0 DEF StoreInv, RebuildsAlone, Rebuilding, At
  <2> QED
    BY <1>0, <1>1, <2>1 DEF FsckMoveDb, Goes, Processes
<1>3. \A q \in Procs : ~At(q, "db moved")
  BY <1>0 DEF StoreInv, RebuildsAlone, Rebuilding, At
<1>4. Retained /\ (db = NoFile => wal = NoFile) /\ EvidencePaired
  BY <1>3 DEF EvidenceInv
<1> SUFFICES EvidencePaired' /\ Moving(p)'
  BY <1>2 DEF EvidenceInv, At
<1>5. CASE db = NoFile
  <2>1. UNCHANGED <<db, wal, evidence, replaced>>
    BY <1>0, <1>5 DEF FsckMoveDb
  <2> QED
    BY <1>4, <1>5, <2>1 DEF EvidencePaired, Moving, Retained, EvidenceValue
<1>6. CASE db # NoFile
  <2>1. /\ db' = NoFile /\ evidence' = [evidence EXCEPT ![s].db = db]
        /\ replaced' = replaced \cup {Catalog}
        /\ slipped' = (slipped \/ evidence[s].db # NoFile)
    BY <1>1, <1>6 DEF FsckMoveDb
  <2>2. evidence[s].db = NoFile
    BY <2>1
  <2>3. evidence[s].wal = NoFile
    BY <1>1, <1>4, <2>2 DEF EvidencePaired
  <2>4. /\ evidence'[s].db = db /\ evidence'[s].wal = NoFile
        /\ \A t \in Seconds \ {s} : evidence'[t] = evidence[t]
    BY <1>0, <1>1, <2>1, <2>3 DEF Typed
  <2>5. EvidencePaired'
    BY <1>4, <2>4 DEF EvidencePaired
  <2>6. \A v \in replaced : \E t \in Seconds \ {s} : EvidenceValue(t)' = v
    <3>1. TAKE v \in replaced
    <3>2. v # NoFile
      BY <1>0, NoneFacts DEF Typed
    <3>3. PICK t \in Seconds : EvidenceValue(t) = v
      BY <1>4 DEF Retained
    <3>4. t # s
      BY <2>2, <2>3, <3>2, <3>3 DEF EvidenceValue
    <3>5. EvidenceValue(t)' = v
      BY <2>4, <3>3, <3>4 DEF EvidenceValue
    <3> QED
      BY <3>4, <3>5
  <2>7. CASE wal = NoFile
    <3>1. Catalog = db /\ EvidenceValue(s)' = db
      BY <2>4, <2>7 DEF Catalog, EvidenceValue
    <3>2. Retained'
      BY <1>1, <2>1, <2>6, <3>1 DEF Retained
    <3> QED
      BY <1>0, <2>1, <2>5, <2>7, <3>2 DEF Moving
  <2>8. CASE wal # NoFile
    <3>1. Catalog = wal
      BY <2>8 DEF Catalog
    <3>2. \A v \in replaced' : v = wal \/ \E t \in Seconds \ {s} : EvidenceValue(t)' = v
      BY <2>1, <2>6, <3>1
    <3>3. proc'[p].dest = s /\ wal' = wal
      BY <1>0, <1>2
    <3> QED
      BY <1>6, <2>1, <2>4, <2>5, <2>8, <3>2, <3>3 DEF Moving
  <2> QED
    BY <2>7, <2>8
<1> QED
  BY <1>5, <1>6

(* The second rename joins the WAL to its database under the same second. *)
LEMMA MoveWalKeepsEvidence ==
  ASSUME StoreInv, EvidenceInv, NEW p \in Procs, FsckMoveWal(p)
  PROVE  EvidenceInv'
<1>0. /\ Typed /\ proc \in [Procs -> Processes] /\ proc[p] \in Processes
      /\ StageOf(proc[p]) /\ At(p, "db moved") /\ UNCHANGED <<db, replaced>>
  BY DEF StoreInv, Types, Typed, Stages, FsckMoveWal
<1>1. PICK s \in Seconds : s = proc[p].dest /\ Moving(p)
  BY <1>0 DEF StageOf, At, Rebuild, EvidenceInv
<1>2. /\ proc'[p].pc = "wal moved"
      /\ \A q \in Procs \ {p} : proc'[q].pc = "closed"
  <2>1. \A q \in Procs \ {p} : proc[q].pc = "closed"
    BY <1>0 DEF StoreInv, RebuildsAlone, Rebuilding, At
  <2> QED
    BY <1>0, <2>1 DEF FsckMoveWal, Goes, Processes
<1>3. db' = NoFile /\ wal' = NoFile
  BY <1>0, <1>1 DEF FsckMoveWal, Moving
<1> SUFFICES EvidencePaired' /\ Retained'
  BY <1>2, <1>3 DEF EvidenceInv, At
<1>4. CASE wal = NoFile
  <2>1. UNCHANGED evidence
    BY <1>4 DEF FsckMoveWal
  <2> QED
    BY <1>0, <1>1, <1>4, <2>1 DEF EvidenceInv, EvidencePaired, Moving, Retained, EvidenceValue
<1>5. CASE wal # NoFile
  <2>1. evidence' = [evidence EXCEPT ![s].wal = wal]
    BY <1>1, <1>5 DEF FsckMoveWal
  <2>2. /\ evidence[s].db # NoFile
        /\ \A v \in replaced : v = wal \/ \E t \in Seconds \ {s} : EvidenceValue(t) = v
    BY <1>1, <1>5 DEF Moving
  <2>3. /\ evidence'[s].db = evidence[s].db /\ evidence'[s].wal = wal
        /\ \A t \in Seconds \ {s} : evidence'[t] = evidence[t]
    BY <1>0, <1>1, <2>1 DEF Typed
  <2>4. EvidencePaired'
    BY <2>2, <2>3 DEF EvidencePaired, EvidenceInv
  <2>5. EvidenceValue(s)' = wal /\ \A t \in Seconds \ {s} : EvidenceValue(t)' = EvidenceValue(t)
    BY <1>5, <2>3 DEF EvidenceValue
  <2>6. Retained'
    BY <1>0, <1>1, <2>2, <2>5 DEF Retained
  <2> QED
    BY <2>4, <2>6
<1> QED
  BY <1>4, <1>5

LEMMA PublishKeepsEvidence ==
  ASSUME StoreInv, EvidenceInv, NEW p \in Procs, FsckPublish(p)
  PROVE  EvidenceInv'
<1>0. /\ proc \in [Procs -> Processes] /\ StageOf(proc[p]) /\ At(p, "wal moved")
      /\ proc' = [proc EXCEPT ![p] = Closed]
      /\ db' = proc[p].work /\ UNCHANGED <<evidence, replaced>>
  BY DEF StoreInv, Types, Typed, Stages, FsckPublish, Ends
<1>1. db' # NoFile
  BY <1>0, NoneFacts DEF StageOf, At, Rebuild
<1>2. \A q \in Procs \ {p} : proc[q].pc = "closed"
  BY <1>0 DEF StoreInv, RebuildsAlone, Rebuilding, At
<1>3. \A q \in Procs : ~At(q, "db moved") /\ proc'[q].pc = "closed"
  BY <1>0, <1>2, RestingFact DEF At
<1> QED
  BY <1>0, <1>1, <1>3, SettledKeeps

LEMMA EvidenceStep ==
  ASSUME StoreInv, KeptInv, [Next]_vars
  PROVE  KeptInv'
<1> SUFFICES ASSUME ~slipped' PROVE EvidenceInv'
  BY DEF KeptInv
<1>1. ASSUME NEW p \in Procs, NEW r, Solo(p, r) PROVE EvidenceInv'
  <2>1. ~slipped
    BY <1>1 DEF Solo
  <2> QED
    BY <1>1, <2>1, SoloKeepsEvidence DEF KeptInv
<1>2. CASE Mutation
  <2>1. ~slipped
    BY <1>2 DEF Mutation
  <2> QED
    BY <1>2, <2>1, MutationKeepsEvidence DEF KeptInv
<1>3. ASSUME NEW p \in Procs, CatalogStep(p) PROVE EvidenceInv'
  <2>1. ASSUME FsckMoveDb(p) PROVE ~slipped
    BY <2>1 DEF FsckMoveDb
  <2>2. ASSUME ~FsckMoveDb(p) PROVE ~slipped
    BY <1>3, <2>2 DEF CatalogStep, Open, Close, RestorePublish, FsckMoveWal, FsckPublish
  <2>3. EvidenceInv
    BY <2>1, <2>2 DEF KeptInv
  <2> QED
    BY <1>3, <2>3, UseKeepsEvidence, MoveDbKeepsEvidence, MoveWalKeepsEvidence,
       PublishKeepsEvidence DEF CatalogStep
<1>4. CASE Tick \/ (\E d \in Dests : DamageArtifact(d)) \/ UNCHANGED vars
  <2>1. UNCHANGED <<db, wal, evidence, replaced, slipped, proc>>
    BY <1>4 DEF Tick, DamageArtifact, vars
  <2>2. EvidenceInv
    BY <2>1 DEF KeptInv
  <2> QED
    BY <2>1, <2>2, UnmovedKeeps DEF At
<1>5. CASE LoseCatalog
  <2>1. /\ UNCHANGED <<evidence, replaced, slipped, proc>> /\ Offline
        /\ db' = NoFile /\ wal' = NoFile
    BY <1>5 DEF LoseCatalog
  <2>2. EvidenceInv
    BY <2>1 DEF KeptInv
  <2> QED
    BY <2>1, <2>2, SettledKeeps DEF Offline, At
<1> QED
  BY <1>1, <1>2, <1>3, <1>4, <1>5, StepKinds

(* Every catalog that an fsck rebuild takes from the path can be read again under its
   second, unless a rebuild was cut short between its renames or two shared a second. *)
THEOREM EvidenceIsKept == Spec => []EvidenceKept
<1>1. Init => KeptInv
  <2> SUFFICES ASSUME Init PROVE EvidenceInv
    BY DEF KeptInv
  <2>1. \A p \in Procs : proc[p] = Closed
    BY DEF Init
  <2>2. EvidencePaired /\ Retained
    BY DEF Init, EvidencePaired, Retained
  <2> QED
    BY <2>1, <2>2, RestingFact DEF Init, EvidenceInv, At
<1>2. KeptInv => EvidenceKept
  BY DEF KeptInv, EvidenceInv, EvidenceKept, EvidenceRetained, Retained, NoRebuild, Rebuilding, At
<1> QED
  BY <1>1, <1>2, StoreInvariant, EvidenceStep, PTL DEF Spec

(* Neither a restore nor the publication of a backup or an inventory replaces a file:
   what came to the path between the test and the link stays. *)
THEOREM NothingIsReplaced == Spec => NeverReplaces
<1> DEFINE Stays ==
      /\ \A p \in Procs : At(p, "restoring") /\ ~At(p, "restoring")' =>
            db = NoFile \/ db' = db
      /\ \A d \in Dests : artifacts[d] # NoFile /\ faults' = faults =>
            artifacts'[d] = artifacts[d]
<1>1. StoreInv /\ [Next]_vars => [Stays]_vars
  <2> SUFFICES ASSUME StoreInv, Next PROVE Stays
    OBVIOUS
  <2>1. ASSUME NEW p \in Procs, NEW r, Solo(p, r) PROVE Stays
    BY <2>1 DEF Solo, ArtifactsStay
  <2>2. CASE Mutation
    BY <2>2 DEF Mutation
  <2>3. ASSUME NEW q \in Procs, CatalogStep(q) PROVE Stays
    <3>1. PICK r : Handles(q, r)
      BY <2>3, CatalogStepsHandle
    <3>2. UNCHANGED artifacts /\ \A p \in Procs \ {q} : proc'[p] = proc[p]
      BY <3>1 DEF Handles, Becomes, StoreInv, Types, Typed
    <3>3. At(q, "restoring") => db = NoFile \/ db' = db
      BY <2>3 DEF CatalogStep, Open, Close, RestorePublish, InstallCatalog, FsckMoveDb,
         FsckMoveWal, FsckPublish, At
    <3> QED
      BY <3>2, <3>3 DEF At
  <2>4. CASE Tick \/ LoseCatalog
    BY <2>4 DEF Tick, LoseCatalog, At
  <2>5. ASSUME NEW d \in Dests, DamageArtifact(d) PROVE Stays
    <3>1. UNCHANGED proc /\ faults' # faults
      BY <2>5, DamageArtifactKeepsStore DEF DamageArtifact
    <3> QED
      BY <3>1 DEF At
  <2> QED
    BY <2>1, <2>2, <2>3, <2>4, <2>5, StepKinds
<1> QED
  BY <1>1, StoreInvariant, PTL DEF Spec, NeverReplaces
=============================================================================
