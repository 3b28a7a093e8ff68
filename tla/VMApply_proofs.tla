--------------------------- MODULE VMApply_proofs ---------------------------
(***************************************************************************)
(* Theorems of VMApply, for every set of processes, manifests, clusters    *)
(* and every bound.                                                        *)
(*                                                                         *)
(* First what every call says: what the operators of Proxmox and VMPlan    *)
(* return, that a plan, once carried out, leaves nothing to plan, and the  *)
(* inductive invariant IInv, which adds to the types what each process     *)
(* has to know before a call: the guest it is about, that it may write at  *)
(* all, and that its plan says no more than its manifest.                  *)
(*                                                                         *)
(* Then what apply promises of the cluster as a whole: success is the      *)
(* declared state, nothing is duplicated, destroyed or changed undeclared, *)
(* and no update of another run is lost.  Each theorem names what it asks  *)
(* of the runs; an invariant says what a run at each of its calls still    *)
(* knows of the guest it resolved and of the config it read.               *)
(***************************************************************************)
EXTENDS VMApplyProperties, TLAPS

(***************************************************************************)
(* Each call the server accepts takes a cluster to a cluster.              *)
(***************************************************************************)
LEMMA OverlayType ==
    ASSUME NEW base \in Params, NEW over \in Params
    PROVE  Overlay(base, over) \in Params
BY DEF Overlay, Params

LEMMA WrittenType ==
    ASSUME NEW disks \in Disks, NEW writes \in DiskWrites
    PROVE  Written(disks, writes) \in Disks
<1>1. ASSUME NEW s \in Slots, writes[s] # None
      PROVE  Stored(writes[s]) \in Disk
    BY <1>1 DEF DiskWrites, DiskWrite, Stored, Disk
<1>2. QED
    BY <1>1 DEF Written, Disks

LEMMA CreatedType ==
    ASSUME NEW c \in CreateCall
    PROVE  Created(c) \in Guest
<1>1. [s \in Slots |-> None] \in Disks
    BY DEF Disks
<1>2. c.disks \in DiskWrites /\ c.config \in Params /\ c.node \in Nodes
    BY DEF CreateCall
<1>3. Written([s \in Slots |-> None], c.disks) \in Disks
    BY <1>1, <1>2, WrittenType
<1>4. QED
    BY <1>2, <1>3 DEF Created, Guest

LEMMA ClonedType ==
    ASSUME NEW g \in Guest, NEW c \in CloneCall
    PROVE  Cloned(g, c) \in Guest
<1>1. c.config \in Params /\ c.node \in Nodes /\ c.pool \in Pools \cup {None}
    BY DEF CloneCall
<1>2. Overlay(g.config, c.config) \in Params
    BY <1>1, OverlayType DEF Guest
<1>3. QED
    BY <1>1, <1>2 DEF Cloned, Guest

LEMMA UpdatedType ==
    ASSUME NEW g \in Guest, NEW c \in UpdateCall
    PROVE  Updated(g, c) \in Guest
<1>1. Overlay(g.config, c.config) \in Params
    BY OverlayType DEF Guest, UpdateCall
<1>2. Written(g.disks, c.disks) \in Disks
    BY WrittenType DEF Guest, UpdateCall
<1>3. g.detached \in SUBSET Slots
    BY DEF Guest
<1>4. QED
    BY <1>1, <1>2, <1>3 DEF Updated, Guest

LEMMA ResizedType ==
    ASSUME NEW g \in Guest, NEW c \in ResizeCall, g.disks[c.slot] # None
    PROVE  Resized(g, c) \in Guest
<1>1. c.slot \in Slots /\ c.size \in Sizes
    BY DEF ResizeCall
<1>2. g.disks \in Disks /\ g.disks[c.slot] \in Disk
    BY <1>1 DEF Guest, Disks
<1>3. [g.disks[c.slot] EXCEPT !.size = c.size] \in Disk
    BY <1>1, <1>2 DEF Disk
<1>4. [g.disks EXCEPT ![c.slot].size = c.size] \in Disks
    BY <1>1, <1>2, <1>3 DEF Disks
<1>5. QED
    BY <1>4 DEF Resized, Guest

LEMMA PerformType ==
    ASSUME NEW gs \in Cluster, NEW c \in Call, Accepts(gs, c)
    PROVE  Perform(gs, c) \in Cluster
<1>1. c.vmid \in VMIDs
    BY DEF Call, CreateCall, CloneCall, UpdateCall, ResizeCall, PowerCall
<1>2. ASSUME NEW g \in Guest \cup {None}
      PROVE  [gs EXCEPT ![c.vmid] = g] \in Cluster
    BY DEF Cluster
<1>3. CASE c.op = "create"
    <2>1. c \in CreateCall
        BY <1>3 DEF Call, CreateCall, CloneCall, UpdateCall, ResizeCall, PowerCall
    <2>2. QED
        BY <1>2, <1>3, <2>1, CreatedType DEF Perform
<1>4. CASE c.op = "clone"
    <2>1. c \in CloneCall
        BY <1>4 DEF Call, CreateCall, CloneCall, UpdateCall, ResizeCall, PowerCall
    <2>2. gs[c.source.vmid] \in Guest
        BY <1>4, <2>1 DEF Accepts, Reaches, Cluster, CloneCall, GuestRef
    <2>3. QED
        BY <1>2, <1>4, <2>1, <2>2, ClonedType DEF Perform
<1>5. CASE c.op = "update"
    <2>1. c \in UpdateCall
        BY <1>5 DEF Call, CreateCall, CloneCall, UpdateCall, ResizeCall, PowerCall
    <2>2. gs[c.vmid] \in Guest
        BY <1>1, <1>5 DEF Accepts, Reaches, Cluster
    <2>3. QED
        BY <1>2, <1>5, <2>1, <2>2, UpdatedType DEF Perform
<1>6. CASE c.op = "resize"
    <2>1. c \in ResizeCall
        BY <1>6 DEF Call, CreateCall, CloneCall, UpdateCall, ResizeCall, PowerCall
    <2>2. gs[c.vmid] \in Guest /\ gs[c.vmid].disks[c.slot] # None
        BY <1>1, <1>6 DEF Accepts, Reaches, Cluster
    <2>3. QED
        BY <1>2, <1>6, <2>1, <2>2, ResizedType DEF Perform
<1>7. CASE c.op \in {"start", "stop"}
    <2>1. gs[c.vmid] \in Guest
        BY <1>1, <1>7 DEF Accepts, Reaches, Cluster
    <2>2. Powered(gs[c.vmid], c) \in Guest
        BY <2>1 DEF Powered, Guest
    <2>3. QED
        BY <1>2, <1>7, <2>2 DEF Perform
<1>8. QED
    BY <1>3, <1>4, <1>5, <1>6, <1>7
       DEF Call, CreateCall, CloneCall, UpdateCall, ResizeCall, PowerCall

(***************************************************************************)
(* What the planner computes is what the calls take.                       *)
(***************************************************************************)
LEMMA ConfigType ==
    ASSUME NEW m \in Manifest
    PROVE  /\ Config(m) \in Params
           /\ CloneConfig(m) \in Params
           /\ NoParams \in Params
<1>1. m.name \in Names /\ m.fields \in [Fields -> Value \cup {None}]
    BY DEF Manifest
<1>2. Onboot(m.run) \in Scalar \cup {None}
    BY DEF Onboot, Scalar
<1>3. Config(m) \in Params
    BY <1>1, <1>2 DEF Config, Params, Keys, OwnKeys, Scalar
<1>4. QED
    BY <1>3 DEF CloneConfig, NoParams, Params

LEMMA AllocationsType ==
    ASSUME NEW m \in Manifest
    PROVE  Allocations(m) \in DiskWrites /\ NoWrites \in DiskWrites
<1>1. ASSUME NEW d \in Disk
      PROVE  Allocate(d) \in DiskWrite
    BY DEF Allocate, Disk, DiskWrite
<1>2. ASSUME NEW storage \in Storages
      PROVE  CloudInitDrive(storage) \in DiskWrite
    BY SizesAssumption DEF CloudInitDrive, DiskWrite, Opts
<1>3. m.disks \in [Slots -> Disk \cup {None}] /\ m.drive \in Storages \cup {None}
    BY DEF Manifest, Disks
<1>4. ASSUME NEW s \in Slots
      PROVE  Allocations(m)[s] \in DiskWrite \cup {None}
    BY <1>1, <1>2, <1>3 DEF Allocations
<1>5. QED
    BY <1>4 DEF Allocations, NoWrites, DiskWrites

LEMMA PlannedConfigType ==
    ASSUME NEW g \in Guest, NEW m \in Manifest
    PROVE  PlannedConfig(g, m) \in Params
BY ConfigType DEF PlannedConfig, Params

LEMMA RebuiltDiskType ==
    ASSUME NEW cur \in Disk, NEW des \in Disk
    PROVE  RebuiltDisk(cur, des) \in DiskWrite \cup {None}
<1>1. MergedOpts(cur, des) \in Opts
    BY DEF MergedOpts, Disk, Opts
<1>2. QED
    BY <1>1 DEF RebuiltDisk, Disk, DiskWrite

LEMMA PlannedDisksType ==
    ASSUME NEW g \in Guest, NEW m \in Manifest
    PROVE  PlannedDisks(g, m) \in DiskWrites
<1>1. ASSUME NEW s \in ChangedSlots(g, m)
      PROVE  m.disks[s] \in Disk /\ g.disks[s] \in Disk \cup {None}
    BY <1>1 DEF ChangedSlots, Manifest, Guest, Disks
<1>2. ASSUME NEW s \in ChangedSlots(g, m), g.disks[s] # None
      PROVE  RebuiltDisk(g.disks[s], m.disks[s]) \in DiskWrite \cup {None}
    BY <1>1, <1>2, RebuiltDiskType
<1>3. ASSUME NEW s \in ChangedSlots(g, m)
      PROVE  Allocate(m.disks[s]) \in DiskWrite
    BY <1>1 DEF Allocate, Disk, DiskWrite
<1>4. QED
    BY <1>2, <1>3 DEF PlannedDisks, DiskWrites

LEMMA PlannedSizesType ==
    ASSUME NEW g \in Guest, NEW m \in Manifest
    PROVE  PlannedSizes(g, m) \in [Slots -> Sizes \cup {None}]
<1>1. ASSUME NEW s \in ChangedSlots(g, m)
      PROVE  m.disks[s].size \in Sizes
    BY <1>1 DEF ChangedSlots, Manifest, Disks, Disk
<1>2. QED
    BY <1>1 DEF PlannedSizes

-----------------------------------------------------------------------------
(***************************************************************************)
(* What a plan does to the guest it was made for: its PUT leaves only the  *)
(* declared growth to be done, and its resizes do it.                      *)
(***************************************************************************)
AwaitsSizes(g, m, sizes) ==
    /\ ChangedKeys(g, m) = {}
    /\ \A s \in Slots : m.disks[s] # None =>
        /\ g.disks[s] # None
        /\ g.disks[s].storage = m.disks[s].storage
        /\ \A o \in OptKeys : m.disks[s].opts[o] \in {None, g.disks[s].opts[o]}
        /\ sizes[s] = None => g.disks[s].size = m.disks[s].size
    /\ \A s \in Slots : sizes[s] # None =>
        /\ m.disks[s] # None /\ sizes[s] = m.disks[s].size
        /\ g.disks[s].size <= sizes[s]

Grown(g, sizes) ==
    [g EXCEPT !.disks = [s \in Slots |->
        IF sizes[s] = None THEN g.disks[s]
        ELSE [g.disks[s] EXCEPT !.size = sizes[s]]]]

Sent(g, m, target) ==
    Updated(g, Update(target, PlannedConfig(g, m), PlannedDisks(g, m)))

Applied(g, m, target) == Grown(Sent(g, m, target), PlannedSizes(g, m))

LEMMA SettledKeys ==
    ASSUME NEW g \in Guest, NEW m \in Manifest, NEW target
    PROVE  ChangedKeys(Sent(g, m, target), m) = {}
<1>1. Config(m) \in Params /\ g.config \in Params
    BY ConfigType DEF Guest
<1>2. Sent(g, m, target).config = Overlay(g.config, PlannedConfig(g, m))
    BY DEF Sent, Updated, Update, Guest
<1>3. ASSUME NEW k \in Keys \ {"cipassword"}
      PROVE  Config(m)[k] \in {None, Overlay(g.config, PlannedConfig(g, m))[k]}
    BY <1>1 DEF Overlay, PlannedConfig, ChangedKeys, Params
<1>4. QED
    BY <1>2, <1>3 DEF ChangedKeys

\* What the PUT leaves of a declared disk that was there and may change.
LEMMA RebuiltSlot ==
    ASSUME NEW cur \in Disk, NEW des \in Disk, ~Impossible(cur, des)
    PROVE  LET w == RebuiltDisk(cur, des)
               d == IF w = None THEN cur ELSE Stored(w)
           IN  /\ d \in Disk /\ d # None
               /\ d.storage = des.storage /\ d.size = cur.size /\ d.size <= des.size
               /\ \A o \in OptKeys : des.opts[o] \in {None, d.opts[o]}
<1> DEFINE w == RebuiltDisk(cur, des)
           d == IF w = None THEN cur ELSE Stored(w)
<1>1. /\ cur.size \in Nat /\ des.size \in Nat
      /\ cur.opts \in Opts /\ des.opts \in Opts /\ cur # None
    BY SizesAssumption, NoDiskAssumption DEF Disk
<1>2. des.storage = cur.storage /\ cur.size <= des.size
    BY <1>1 DEF Impossible
<1>3. d \in Disk /\ d.storage = cur.storage /\ d.size = cur.size /\ d.opts = MergedOpts(cur, des)
    <2>1. CASE MergedOpts(cur, des) = cur.opts
        BY <2>1 DEF RebuiltDisk
    <2>2. CASE MergedOpts(cur, des) # cur.opts
        <3>1. w \in DiskWrite /\ w # None
            BY <2>2, RebuiltDiskType, NoDiskAssumption
               DEF RebuiltDisk, MergedOpts, Disk, DiskWrite, Opts
        <3>2. QED
            BY <2>2, <3>1 DEF RebuiltDisk, Stored, Disk, DiskWrite
    <2>3. QED
        BY <2>1, <2>2
<1>4. \A o \in OptKeys : des.opts[o] \in {None, MergedOpts(cur, des)[o]}
    BY <1>1 DEF MergedOpts
<1>5. d # None
    BY <1>3, NoDiskAssumption
<1>6. QED
    BY <1>1, <1>2, <1>3, <1>4, <1>5

LEMMA SentAwaitsSizes ==
    ASSUME NEW g \in Guest, NEW m \in Manifest, NEW target, ~Unplannable(g, m)
    PROVE  AwaitsSizes(Sent(g, m, target), m, PlannedSizes(g, m))
<1> DEFINE writes == PlannedDisks(g, m)
           sizes == PlannedSizes(g, m)
           h == Sent(g, m, target)
<1>1. /\ h.disks = Written(g.disks, writes)
      /\ g.disks \in Disks /\ m.disks \in Disks
    BY DEF Sent, Updated, Update, Guest, Manifest
<1>2. ASSUME NEW s \in Slots, m.disks[s] # None
      PROVE  /\ h.disks[s] # None
             /\ h.disks[s].storage = m.disks[s].storage
             /\ \A o \in OptKeys : m.disks[s].opts[o] \in {None, h.disks[s].opts[o]}
             /\ sizes[s] = None => h.disks[s].size = m.disks[s].size
             /\ sizes[s] # None => h.disks[s].size <= m.disks[s].size
    <2> DEFINE cur == g.disks[s]
               des == m.disks[s]
    <2>1. des \in Disk /\ cur \in Disk \cup {None} /\ des.size \in Nat
        BY <1>1, <1>2, SizesAssumption DEF Disks, Disk
    <2>2. h.disks[s] = IF writes[s] = None THEN cur ELSE Stored(writes[s])
        BY <1>1 DEF Written
    <2>3. CASE s \notin ChangedSlots(g, m)
        <3>1. h.disks[s] = cur /\ ~DiskDiffers(cur, des) /\ sizes[s] = None
            BY <1>2, <2>2, <2>3 DEF PlannedDisks, PlannedSizes, ChangedSlots
        <3>2. QED
            BY <3>1 DEF DiskDiffers
    <2>4. CASE s \in ChangedSlots(g, m) /\ cur = None
        <3>1. writes[s] = Allocate(des) /\ sizes[s] = None
            BY <2>4 DEF PlannedDisks, PlannedSizes
        <3>2. h.disks[s] = des
            BY <2>1, <2>2, <3>1, NoDiskAssumption DEF Allocate, Stored, Disk, DiskWrite
        <3>3. QED
            BY <1>2, <3>1, <3>2
    <2>5. CASE s \in ChangedSlots(g, m) /\ cur # None
        <3>1. cur \in Disk /\ cur.size \in Nat /\ ~Impossible(cur, des)
            BY <2>1, <2>5, SizesAssumption DEF Unplannable, Disk
        <3>2. writes[s] = RebuiltDisk(cur, des)
            BY <2>5 DEF PlannedDisks
        <3>3. /\ h.disks[s] # None /\ h.disks[s].storage = des.storage
              /\ h.disks[s].size = cur.size /\ cur.size <= des.size
              /\ \A o \in OptKeys : des.opts[o] \in {None, h.disks[s].opts[o]}
            BY <2>1, <2>2, <3>1, <3>2, RebuiltSlot
        <3>4. sizes[s] = None => cur.size = des.size
            BY <2>1, <2>5, <3>1, <3>3, NoneAssumption DEF PlannedSizes, Disk
        <3>5. QED
            BY <3>3, <3>4
    <2>6. QED
        BY <2>3, <2>4, <2>5
<1>3. ASSUME NEW s \in Slots, sizes[s] # None
      PROVE  m.disks[s] # None /\ sizes[s] = m.disks[s].size
    BY <1>3 DEF PlannedSizes, ChangedSlots
<1>4. QED
    BY <1>2, <1>3, SettledKeys DEF AwaitsSizes

\* Once nothing is to be grown, nothing differs.
LEMMA AwaitsNothing ==
    ASSUME NEW g, NEW m, AwaitsSizes(g, m, NoWrites)
    PROVE  InSync(g, m)
BY DEF AwaitsSizes, NoWrites, InSync, ChangedSlots, DiskDiffers

LEMMA GrownInSync ==
    ASSUME NEW g \in Guest, NEW m \in Manifest, NEW sizes, AwaitsSizes(g, m, sizes)
    PROVE  InSync(Grown(g, sizes), m)
<1> DEFINE h == Grown(g, sizes)
<1>1. /\ h.config = g.config
      /\ h.disks = [s \in Slots |-> IF sizes[s] = None THEN g.disks[s]
                                    ELSE [g.disks[s] EXCEPT !.size = sizes[s]]]
    BY DEF Grown, Guest
<1>2. ChangedKeys(h, m) = {}
    BY <1>1 DEF AwaitsSizes, ChangedKeys
<1>3. ASSUME NEW s \in Slots, m.disks[s] # None
      PROVE  ~DiskDiffers(h.disks[s], m.disks[s])
    <2>1. g.disks[s] \in Disk /\ m.disks[s] \in Disk
        BY <1>3 DEF AwaitsSizes, Guest, Manifest, Disks
    <2>2. CASE sizes[s] = None
        BY <1>1, <1>3, <2>2 DEF AwaitsSizes, DiskDiffers
    <2>3. CASE sizes[s] # None
        <3>1. /\ h.disks[s] \in Disk /\ h.disks[s].size = m.disks[s].size
              /\ h.disks[s].storage = g.disks[s].storage
              /\ h.disks[s].opts = g.disks[s].opts
            BY <1>1, <1>3, <2>1, <2>3 DEF AwaitsSizes, Disk
        <3>2. QED
            BY <1>3, <3>1, NoDiskAssumption DEF AwaitsSizes, DiskDiffers
    <2>4. QED
        BY <2>2, <2>3
<1>4. QED
    BY <1>2, <1>3 DEF InSync, ChangedSlots

(***************************************************************************)
(* A plan settles the guest it was made for: when planUpdate does not      *)
(* refuse, its PUT and its resizes together leave the guest without any    *)
(* difference from the manifest, so that the next diff is empty.           *)
(***************************************************************************)
THEOREM PlanSettles ==
    ASSUME NEW g \in Guest, NEW m \in Manifest, NEW target \in GuestRef,
           ~Unplannable(g, m)
    PROVE  InSync(Applied(g, m, target), m)
<1>1. Update(target, PlannedConfig(g, m), PlannedDisks(g, m)) \in UpdateCall
    BY PlannedConfigType, PlannedDisksType DEF Update, UpdateCall, GuestRef
<1>2. Sent(g, m, target) \in Guest
    BY <1>1, UpdatedType DEF Sent
<1>3. QED
    BY <1>2, SentAwaitsSizes, GrownInSync DEF Applied
-----------------------------------------------------------------------------
(***************************************************************************)
(* What a process knows.                                                   *)
(***************************************************************************)
Aimed == Writing \cup {"findsource", "readpower", "summary", "config"}
Creating == Writing \cup {"nextid", "findsource", "readpower"}

DeclaredPlan(todo, m) ==
    /\ DeclaredKeys(todo.config, m)
    /\ DeclaredDisks(todo.disks, m)
    /\ \A s \in Slots : todo.sizes[s] # None => DeclaredSize(s, todo.sizes[s], m)
    /\ DeclaredPower(todo.power, m)

\* What holds of a process at a label.
Fits(label, m, md, r, s, todo) ==
    /\ label = "idle" => todo = NoPlan
    /\ label # "idle" => md # "client"
    /\ label \in Creating => md = "apply"
    /\ label \in Aimed => r \in GuestRef
    /\ label = "clone" => s \in GuestRef
    /\ label = "power" => todo.power # "none"
    /\ DeclaredPlan(todo, m)

LocalsOK ==
    /\ pc \in [Procs -> Writing \cup Reading \cup {"idle"}]
    /\ manifest \in [Procs -> Manifests]
    /\ mode \in [Procs -> Modes]
    /\ ref \in [Procs -> GuestRef \cup {None}]
    /\ source \in [Procs -> GuestRef \cup {None}]
    /\ plan \in [Procs -> Plan]
    /\ result \in [Procs -> Results]
    /\ \A p \in Procs :
        Fits(pc[p], manifest[p], mode[p], ref[p], source[p], plan[p])

TasksOK ==
    /\ tasks \subseteq Call
    /\ \A c \in tasks : \E m \in Manifests : Licensed(c, m)

BudgetsOK ==
    faults \in 0..MaxFaults /\ timeouts \in 0..MaxTimeouts /\ moves \in 0..MaxMoves

IInv == guests \in Cluster /\ TasksOK /\ LocalsOK /\ BudgetsOK

-----------------------------------------------------------------------------
(***************************************************************************)
(* Plans.                                                                  *)
(***************************************************************************)
LEMMA NoPlanFits ==
    ASSUME NEW m \in Manifest
    PROVE  NoPlan \in Plan /\ DeclaredPlan(NoPlan, m)
<1>1. NoPlan \in Plan
    BY ConfigType, AllocationsType DEF NoPlan, Plan, NoWrites
<1>2. DeclaredPlan(NoPlan, m)
    BY DEF NoPlan, NoParams, NoWrites, DeclaredPlan, DeclaredKeys,
           DeclaredDisks, DeclaredPower
<1>3. QED
    BY <1>1, <1>2

LEMMA PowerPlanFits ==
    ASSUME NEW m \in Manifest, NEW state
    PROVE  LET todo == [NoPlan EXCEPT !.power = PlannedPower(m, state)]
           IN  todo \in Plan /\ DeclaredPlan(todo, m)
<1>1. /\ PlannedPower(m, state) \in {"none", "start", "stop"}
      /\ DeclaredPower(PlannedPower(m, state), m)
    BY DEF PlannedPower, DeclaredPower
<1>2. QED
    BY <1>1, NoPlanFits DEF NoPlan, Plan, DeclaredPlan

\* The plan ReadConfig makes.
LEMMA DecidedPlanFits ==
    ASSUME NEW g \in Guest, NEW m \in Manifest, ~Unplannable(g, m),
           NEW power \in {"none", "start", "stop"}, DeclaredPower(power, m)
    PROVE  LET todo == [config |-> PlannedConfig(g, m), disks |-> PlannedDisks(g, m),
                        sizes |-> PlannedSizes(g, m), power |-> power,
                        report |-> "configured"]
           IN  todo \in Plan /\ DeclaredPlan(todo, m)
<1> DEFINE todo == [config |-> PlannedConfig(g, m), disks |-> PlannedDisks(g, m),
                    sizes |-> PlannedSizes(g, m), power |-> power,
                    report |-> "configured"]
<1>1. todo \in Plan
    BY PlannedConfigType, PlannedDisksType, PlannedSizesType DEF Plan
<1>2. DeclaredKeys(PlannedConfig(g, m), m)
    BY DEF DeclaredKeys, PlannedConfig
<1>3. ASSUME NEW s \in Slots, PlannedDisks(g, m)[s] # None
      PROVE  DeclaredDisk(PlannedDisks(g, m)[s], m.disks[s])
    <2>1. s \in ChangedSlots(g, m) /\ m.disks[s] # None
        BY <1>3 DEF PlannedDisks, ChangedSlots
    <2>2. m.disks[s] \in Disk /\ g.disks[s] \in Disk \cup {None}
        BY <2>1 DEF Manifest, Guest, Disks
    <2>3. CASE g.disks[s] = None
        <3>1. PlannedDisks(g, m)[s] = Allocate(m.disks[s])
            BY <2>1, <2>3 DEF PlannedDisks
        <3>2. QED
            BY <2>1, <2>2, <3>1 DEF DeclaredDisk, Allocate, Disk
    <2>4. CASE g.disks[s] # None
        <3>1. PlannedDisks(g, m)[s] = RebuiltDisk(g.disks[s], m.disks[s])
            BY <2>1, <2>4 DEF PlannedDisks
        <3>2. m.disks[s].storage = g.disks[s].storage
            BY <2>1, <2>4 DEF Unplannable, Impossible
        <3>3. RebuiltDisk(g.disks[s], m.disks[s]) =
                [form |-> "volume", storage |-> g.disks[s].storage,
                 size |-> g.disks[s].size,
                 opts |-> MergedOpts(g.disks[s], m.disks[s])]
            BY <1>3, <3>1 DEF RebuiltDisk
        <3>4. \A o \in OptKeys :
                m.disks[s].opts[o] \in {None, MergedOpts(g.disks[s], m.disks[s])[o]}
            BY DEF MergedOpts
        <3>5. QED
            BY <2>1, <3>1, <3>2, <3>3, <3>4 DEF DeclaredDisk
    <2>5. QED
        BY <2>3, <2>4
<1>4. ASSUME NEW s \in Slots, PlannedSizes(g, m)[s] # None
      PROVE  DeclaredSize(s, PlannedSizes(g, m)[s], m)
    BY <1>4 DEF PlannedSizes, ChangedSlots, DeclaredSize
<1>5. QED
    BY <1>1, <1>2, <1>3, <1>4 DEF DeclaredPlan, DeclaredDisks

\* Carrying out a part of a plan leaves a plan.
LEMMA SmallerPlanFits ==
    ASSUME NEW m \in Manifest, NEW todo \in Plan, DeclaredPlan(todo, m)
    PROVE  /\ LET rest == [todo EXCEPT !.config = NoParams, !.disks = NoWrites]
              IN  rest \in Plan /\ DeclaredPlan(rest, m)
           /\ \A s \in Slots :
                LET rest == [todo EXCEPT !.sizes[s] = None]
                IN  rest \in Plan /\ DeclaredPlan(rest, m)
<1>1. NoPlan \in Plan /\ DeclaredPlan(NoPlan, m)
    BY NoPlanFits
<1>2. LET rest == [todo EXCEPT !.config = NoParams, !.disks = NoWrites]
      IN  rest \in Plan /\ DeclaredPlan(rest, m)
    BY <1>1 DEF Plan, NoPlan, DeclaredPlan
<1>3. ASSUME NEW s \in Slots
      PROVE  LET rest == [todo EXCEPT !.sizes[s] = None]
             IN  rest \in Plan /\ DeclaredPlan(rest, m)
    BY DEF Plan, DeclaredPlan
<1>4. QED
    BY <1>2, <1>3

-----------------------------------------------------------------------------
(***************************************************************************)
(* The ways a step leaves its process.                                     *)
(***************************************************************************)
LEMMA FinishKeeps ==
    ASSUME IInv, NEW p \in Procs, NEW outcome \in Results, Finish(p, outcome)
    PROVE  LocalsOK'
<1>1. manifest[p] \in Manifest
    BY ManifestsAssumption DEF IInv, LocalsOK
<1>2. NoPlan \in Plan /\ DeclaredPlan(NoPlan, manifest[p])
    BY <1>1, NoPlanFits
<1>3. /\ pc' \in [Procs -> Writing \cup Reading \cup {"idle"}]
      /\ UNCHANGED <<manifest, mode>>
      /\ ref' \in [Procs -> GuestRef \cup {None}]
      /\ source' \in [Procs -> GuestRef \cup {None}]
      /\ plan' \in [Procs -> Plan]
      /\ result' \in [Procs -> Results]
    BY <1>2 DEF IInv, LocalsOK, Finish, Goto
<1>4. ASSUME NEW q \in Procs
      PROVE  Fits(pc'[q], manifest'[q], mode'[q], ref'[q], source'[q], plan'[q])
    <2>1. CASE q = p
        <3>1. pc'[q] = "idle" /\ plan'[q] = NoPlan /\ manifest'[q] = manifest[p]
            BY <2>1 DEF IInv, LocalsOK, Finish, Goto
        <3>2. QED
            BY <1>2, <3>1 DEF Fits, Creating, Aimed, Writing
    <2>2. CASE q # p
        BY <2>2 DEF IInv, LocalsOK, Finish, Goto
    <2>3. QED
        BY <2>1, <2>2
<1>5. QED
    BY <1>3, <1>4 DEF IInv, LocalsOK

LEMMA ContinueKeeps ==
    ASSUME IInv, NEW p \in Procs,
           NEW label \in Writing \cup Reading,
           NEW target \in GuestRef \cup {None}, NEW todo \in Plan,
           Fits(label, manifest[p], mode[p], target, source[p], todo),
           Continue(p, label, target, todo)
    PROVE  LocalsOK'
<1>1. /\ pc' \in [Procs -> Writing \cup Reading \cup {"idle"}]
      /\ ref' \in [Procs -> GuestRef \cup {None}]
      /\ plan' \in [Procs -> Plan]
      /\ UNCHANGED <<manifest, mode, source, result>>
    BY DEF IInv, LocalsOK, Continue, Goto
<1>2. ASSUME NEW q \in Procs
      PROVE  Fits(pc'[q], manifest'[q], mode'[q], ref'[q], source'[q], plan'[q])
    <2>1. CASE q = p
        BY <2>1 DEF IInv, LocalsOK, Continue, Goto
    <2>2. CASE q # p
        BY <2>2 DEF IInv, LocalsOK, Continue, Goto
    <2>3. QED
        BY <2>1, <2>2
<1>3. QED
    BY <1>1, <1>2 DEF IInv, LocalsOK

LEMMA ProceedKeeps ==
    ASSUME IInv, NEW p \in Procs, mode[p] = "apply",
           NEW target \in GuestRef, NEW todo \in Plan,
           DeclaredPlan(todo, manifest[p]),
           Proceed(p, target, todo)
    PROVE  LocalsOK'
<1>1. CASE NextCall(todo) = "idle"
    <2>1. todo.report \in Results
        BY DEF Plan, Results
    <2>2. QED
        BY <1>1, <2>1, FinishKeeps DEF Proceed
<1>2. CASE NextCall(todo) # "idle"
    <2>1. NextCall(todo) \in {"update", "resize", "power"}
        BY <1>2 DEF NextCall
    <2>2. NextCall(todo) = "power" => todo.power # "none"
        BY DEF NextCall
    <2>3. Fits(NextCall(todo), manifest[p], mode[p], target, source[p], todo)
        BY <2>1, <2>2 DEF Fits
    <2>4. QED
        BY <1>2, <2>1, <2>3, ContinueKeeps DEF Proceed, Writing
<1>3. QED
    BY <1>1, <1>2

LEMMA SettleKeeps ==
    ASSUME IInv, NEW p \in Procs, pc[p] \in Writing, Settle(p)
    PROVE  LocalsOK'
<1>1. /\ manifest[p] \in Manifest /\ mode[p] = "apply" /\ ref[p] \in GuestRef
    BY ManifestsAssumption DEF IInv, LocalsOK, Fits, Creating, Aimed
<1>2. NoPlan \in Plan /\ DeclaredPlan(NoPlan, manifest[p])
    BY <1>1, NoPlanFits
<1>3. Fits("readpower", manifest[p], mode[p], ref[p], source[p], NoPlan)
    BY <1>1, <1>2 DEF Fits
<1>4. QED
    BY <1>1, <1>2, <1>3, FinishKeeps, ContinueKeeps
       DEF Settle, Results, Reading

-----------------------------------------------------------------------------
(***************************************************************************)
(* The calls.                                                              *)
(***************************************************************************)
LEMMA CallsLicensed ==
    ASSUME IInv, NEW p \in Procs, NEW c \in Calls(p)
    PROVE  c \in Call /\ mode[p] = "apply" /\ Licensed(c, manifest[p])
<1> DEFINE m == manifest[p]
<1>1. pc[p] \in Writing /\ mode[p] = "apply" /\ ref[p] \in GuestRef
    BY DEF Calls, IInv, LocalsOK, Fits, Creating, Aimed, Writing
<1>2. m \in Manifest /\ plan[p] \in Plan /\ DeclaredPlan(plan[p], m)
    BY ManifestsAssumption DEF IInv, LocalsOK, Fits
<1>3. /\ Config(m) \in Params /\ CloneConfig(m) \in Params
      /\ Allocations(m) \in DiskWrites /\ NoWrites \in DiskWrites
      /\ m.node \in Nodes /\ m.pool \in Pools \cup {None}
      /\ m.disks \in [Slots -> Disk \cup {None}]
    BY <1>2, ConfigType, AllocationsType DEF Manifest, Disks
<1>4. DeclaredKeys(Config(m), m) /\ DeclaredKeys(CloneConfig(m), m)
    BY DEF DeclaredKeys, CloneConfig
<1>5. Allocated(Allocations(m), m) /\ DeclaredDisks(NoWrites, m)
    <2>1. ASSUME NEW s \in Slots, m.disks[s] # None
          PROVE  DeclaredDisk(Allocate(m.disks[s]), m.disks[s])
        BY <1>3, <2>1 DEF DeclaredDisk, Allocate, Disk
    <2>2. ASSUME NEW s \in Slots, Allocations(m)[s] # None
          PROVE  \/ /\ s = CloudInitSlot /\ m.drive # None
                    /\ Allocations(m)[s] = CloudInitDrive(m.drive)
                 \/ m.disks[s] # None /\ Allocations(m)[s] = Allocate(m.disks[s])
        BY <2>2 DEF Allocations
    <2>3. QED
        BY <2>1, <2>2 DEF Allocated, DeclaredDisks, NoWrites
<1>6. CASE pc[p] = "create"
    <2>1. c = Creation(m, ref[p].vmid)
        BY <1>6 DEF Calls
    <2>2. c \in CreateCall
        BY <1>1, <1>3, <2>1 DEF Creation, CreateCall, GuestRef
    <2>3. Licensed(c, m)
        BY <1>4, <1>5, <2>1 DEF Licensed, Creation, DeclaredPower
    <2>4. QED
        BY <1>1, <2>2, <2>3 DEF Call
<1>7. CASE pc[p] = "clone"
    <2>1. c = Cloning(m, ref[p].vmid, source[p]) /\ source[p] \in GuestRef
        BY <1>7 DEF Calls, IInv, LocalsOK, Fits
    <2>2. c \in CloneCall
        BY <1>1, <1>3, <2>1 DEF Cloning, CloneCall, GuestRef
    <2>3. Licensed(c, m)
        BY <1>4, <2>1 DEF Licensed, Cloning, DeclaredPower
    <2>4. QED
        BY <1>1, <2>2, <2>3 DEF Call
<1>8. CASE pc[p] = "postclone"
    <2>1. c = Update(ref[p], Config(m), NoWrites)
        BY <1>8 DEF Calls
    <2>2. c \in UpdateCall
        BY <1>1, <1>3, <2>1 DEF Update, UpdateCall, GuestRef
    <2>3. Licensed(c, m)
        BY <1>4, <1>5, <2>1 DEF Licensed, Update, DeclaredPower
    <2>4. QED
        BY <1>1, <2>2, <2>3 DEF Call
<1>9. CASE pc[p] = "update"
    <2>1. c = Update(ref[p], plan[p].config, plan[p].disks)
        BY <1>9 DEF Calls
    <2>2. c \in UpdateCall
        BY <1>1, <1>2, <2>1 DEF Update, UpdateCall, GuestRef, Plan
    <2>3. Licensed(c, m)
        BY <1>2, <2>1 DEF Licensed, Update, DeclaredPower, DeclaredPlan
    <2>4. QED
        BY <1>1, <2>2, <2>3 DEF Call
<1>10. CASE pc[p] = "resize"
    <2>1. PICK s \in NextSlot(plan[p]) : c = Resize(ref[p], s, plan[p].sizes[s])
        BY <1>10 DEF Calls
    <2>2. s \in Slots /\ plan[p].sizes[s] # None
        BY DEF NextSlot
    <2>3. c \in ResizeCall
        BY <1>1, <1>2, <2>1, <2>2 DEF Resize, ResizeCall, GuestRef, Plan
    <2>4. Licensed(c, m)
        BY <1>2, <2>1, <2>2 DEF Licensed, Resize, DeclaredPower, DeclaredPlan
    <2>5. QED
        BY <1>1, <2>3, <2>4 DEF Call
<1>11. CASE pc[p] = "power"
    <2>1. c = Switch(ref[p], plan[p].power) /\ plan[p].power # "none"
        BY <1>11 DEF Calls, IInv, LocalsOK, Fits
    <2>2. c \in PowerCall
        BY <1>1, <1>2, <2>1 DEF Switch, PowerCall, GuestRef, Plan
    <2>3. Licensed(c, m)
        BY <1>2, <2>1, <2>2 DEF Licensed, Switch, PowerCall, DeclaredPlan
    <2>4. QED
        BY <1>1, <2>2, <2>3 DEF Call
<1>12. QED
    BY <1>1, <1>6, <1>7, <1>8, <1>9, <1>10, <1>11 DEF Writing

LEMMA DoneKeeps ==
    ASSUME IInv, NEW p \in Procs, Done(p)
    PROVE  guests' \in Cluster /\ TasksOK' /\ BudgetsOK'
<1>1. PICK c \in Calls(p) : Accepts(guests, c) /\ guests' = Perform(guests, c)
    BY DEF Done, Admits
<1>2. c \in Call
    BY CallsLicensed
<1>3. guests' \in Cluster
    BY <1>1, <1>2, PerformType DEF IInv
<1>4. QED
    BY <1>3 DEF Done, IInv, TasksOK, BudgetsOK, budgets

LEMMA ReadsKeeps ==
    ASSUME IInv, NEW p \in Procs, NEW label, Reads(p, label)
    PROVE  guests' \in Cluster /\ TasksOK' /\ BudgetsOK'
BY DEF Reads, IInv, TasksOK, BudgetsOK, budgets

-----------------------------------------------------------------------------
(***************************************************************************)
(* Reading steps.                                                          *)
(***************************************************************************)
LEMMA NotFoundKeeps ==
    ASSUME IInv, NEW p \in Procs, pc[p] # "idle", NotFound(p)
    PROVE  LocalsOK'
<1> DEFINE m == manifest[p]
           target == [vmid |-> m.vmid, node |-> m.node]
<1>1. /\ m \in Manifest /\ mode[p] \in {"apply", "server", "diff"}
      /\ NoPlan \in Plan /\ DeclaredPlan(NoPlan, m)
    BY ManifestsAssumption, ModesAssumption, NoPlanFits
       DEF IInv, LocalsOK, Fits
<1>2. CASE mode[p] \in {"diff", "server"}
    BY <1>2, FinishKeeps DEF NotFound, Results
<1>3. CASE mode[p] = "apply" /\ m.vmid = None
    <2>1. Fits("nextid", m, mode[p], None, source[p], NoPlan)
        BY <1>1, <1>3 DEF Fits, Aimed, Writing
    <2>2. Continue(p, "nextid", None, NoPlan)
        BY <1>3 DEF NotFound
    <2>3. QED
        BY <1>1, <2>1, <2>2, ContinueKeeps DEF Reading
<1>4. CASE mode[p] = "apply" /\ m.vmid # None
    <2>1. target \in GuestRef
        BY <1>1, <1>4 DEF Manifest, GuestRef
    <2>2. PICK label \in {"create", "findsource"} : Continue(p, label, target, NoPlan)
        BY <1>4 DEF NotFound
    <2>3. Fits(label, m, mode[p], target, source[p], NoPlan)
        BY <1>1, <1>4, <2>1 DEF Fits
    <2>4. QED
        BY <1>1, <2>1, <2>2, <2>3, ContinueKeeps DEF Reading, Writing
<1>5. QED
    BY <1>1, <1>2, <1>3, <1>4

LEMMA FoundKeeps ==
    ASSUME IInv, NEW p \in Procs, pc[p] # "idle",
           NEW v \in VMIDs, guests[v] # None, Found(p, v)
    PROVE  LocalsOK'
<1> DEFINE m == manifest[p]
           target == [vmid |-> v, node |-> guests[v].node]
<1>1. target \in GuestRef
    BY DEF IInv, Cluster, Guest, GuestRef
<1>2. /\ m \in Manifest /\ mode[p] # "client"
      /\ NoPlan \in Plan /\ DeclaredPlan(NoPlan, m)
    BY ManifestsAssumption, NoPlanFits DEF IInv, LocalsOK, Fits
<1>3. CASE Finish(p, "failed")
    BY <1>3, FinishKeeps DEF Results
<1>4. ASSUME NEW label \in {"summary", "config"}, Continue(p, label, target, NoPlan)
      PROVE  LocalsOK'
    <2>1. Fits(label, m, mode[p], target, source[p], NoPlan)
        BY <1>1, <1>2 DEF Fits, Creating, Writing
    <2>2. QED
        BY <1>1, <1>2, <1>4, <2>1, ContinueKeeps DEF Reading
<1>5. QED
    BY <1>3, <1>4 DEF Found

LEMMA ResolveKeeps ==
    ASSUME IInv, NEW p \in Procs, Resolve(p)
    PROVE  IInv'
<1> DEFINE m == manifest[p]
<1>1. /\ pc[p] # "idle" /\ m \in Manifest /\ mode[p] # "client"
      /\ NoPlan \in Plan /\ DeclaredPlan(NoPlan, m)
    BY ManifestsAssumption, NoPlanFits DEF Resolve, Reads, IInv, LocalsOK, Fits
<1>2. ASSUME NEW v \in Named(guests, m.name), Found(p, v)
      PROVE  LocalsOK'
    BY <1>1, <1>2, FoundKeeps DEF Named
<1>3. CASE m.vmid # None /\ guests[m.vmid] # None
    <2>1. m.vmid \in VMIDs /\ Found(p, m.vmid)
        BY <1>1, <1>3 DEF Resolve, Manifest
    <2>2. LocalsOK'
        BY <1>1, <1>3, <2>1, FoundKeeps
    <2>3. QED
        BY <2>2, ReadsKeeps DEF Resolve, IInv
<1>4. CASE m.vmid # None /\ guests[m.vmid] = None
    <2>1. Continue(p, "checkname", None, NoPlan)
        BY <1>4 DEF Resolve
    <2>2. Fits("checkname", m, mode[p], None, source[p], NoPlan)
        BY <1>1 DEF Fits, Creating, Aimed, Writing
    <2>3. LocalsOK'
        BY <1>1, <2>1, <2>2, ContinueKeeps DEF Reading
    <2>4. QED
        BY <2>3, ReadsKeeps DEF Resolve, IInv
<1>5. CASE m.vmid = None
    <2>1. \/ NotFound(p)
          \/ \E v \in Named(guests, m.name) : Found(p, v)
          \/ Finish(p, "failed")
        BY <1>5 DEF Resolve
    <2>2. LocalsOK'
        BY <1>1, <1>2, <2>1, NotFoundKeeps, FinishKeeps DEF Results
    <2>3. QED
        BY <2>2, ReadsKeeps DEF Resolve, IInv
<1>6. QED
    BY <1>3, <1>4, <1>5

LEMMA CheckNameKeeps ==
    ASSUME IInv, NEW p \in Procs, CheckName(p)
    PROVE  IInv'
<1>1. pc[p] # "idle" /\ (NotFound(p) \/ Finish(p, "failed"))
    BY DEF CheckName, Reads
<1>2. LocalsOK'
    BY <1>1, NotFoundKeeps, FinishKeeps DEF Results
<1>3. QED
    BY <1>2, ReadsKeeps DEF CheckName, IInv

LEMMA NextIDKeeps ==
    ASSUME IInv, NEW p \in Procs, NextID(p) \/ NoNextID(p)
    PROVE  IInv'
<1>1. CASE NextID(p)
    <2>1. PICK v \in VMIDs, label \in {"create", "findsource"} :
            Continue(p, label, [vmid |-> v, node |-> manifest[p].node], NoPlan)
        BY <1>1 DEF NextID
    <2>2. /\ manifest[p] \in Manifest /\ mode[p] = "apply"
          /\ NoPlan \in Plan /\ DeclaredPlan(NoPlan, manifest[p])
        BY <1>1, ManifestsAssumption, NoPlanFits
           DEF NextID, Reads, IInv, LocalsOK, Fits, Creating
    <2>3. [vmid |-> v, node |-> manifest[p].node] \in GuestRef
        BY <2>2 DEF GuestRef, Manifest
    <2>4. Fits(label, manifest[p], mode[p],
               [vmid |-> v, node |-> manifest[p].node], source[p], NoPlan)
        BY <2>2, <2>3 DEF Fits
    <2>5. LocalsOK'
        BY <2>1, <2>2, <2>3, <2>4, ContinueKeeps DEF Reading, Writing
    <2>6. QED
        BY <1>1, <2>5, ReadsKeeps DEF NextID, IInv
<1>2. CASE NoNextID(p)
    <2>1. LocalsOK'
        BY <1>2, FinishKeeps DEF NoNextID, Results
    <2>2. QED
        BY <1>2, <2>1, ReadsKeeps DEF NoNextID, IInv
<1>3. QED
    BY <1>1, <1>2

LEMMA FindSourceKeeps ==
    ASSUME IInv, NEW p \in Procs, FindSource(p)
    PROVE  IInv'
<1>1. CASE Finish(p, "failed")
    <2>1. LocalsOK'
        BY <1>1, FinishKeeps DEF Results
    <2>2. QED
        BY <2>1, ReadsKeeps DEF FindSource, IInv
<1>2. CASE ~Finish(p, "failed")
    <2>1. PICK v \in Named(guests, manifest[p].clone) :
            source' = [source EXCEPT ![p] = [vmid |-> v, node |-> guests[v].node]]
        BY <1>2 DEF FindSource
    <2>2. Goto(p, "clone") /\ UNCHANGED <<manifest, mode, ref, plan, result>>
        BY <1>2 DEF FindSource
    <2>3. [vmid |-> v, node |-> guests[v].node] \in GuestRef
        BY <2>1 DEF Named, IInv, Cluster, Guest, GuestRef
    <2>4. pc[p] = "findsource"
        BY DEF FindSource, Reads
    <2>5. Fits("clone", manifest[p], mode[p], ref[p],
               [vmid |-> v, node |-> guests[v].node], plan[p])
        BY <2>3, <2>4 DEF IInv, LocalsOK, Fits, Creating, Aimed
    <2>6. /\ pc' \in [Procs -> Writing \cup Reading \cup {"idle"}]
          /\ source' \in [Procs -> GuestRef \cup {None}]
        BY <2>1, <2>2, <2>3 DEF IInv, LocalsOK, Goto, Writing
    <2>7. \A q \in Procs :
            Fits(pc'[q], manifest'[q], mode'[q], ref'[q], source'[q], plan'[q])
        BY <2>1, <2>2, <2>5 DEF IInv, LocalsOK, Goto
    <2>8. LocalsOK'
        BY <2>2, <2>6, <2>7 DEF IInv, LocalsOK
    <2>9. QED
        BY <2>8, ReadsKeeps DEF FindSource, IInv
<1>3. QED
    BY <1>1, <1>2

LEMMA ReadPowerKeeps ==
    ASSUME IInv, NEW p \in Procs, ReadPower(p)
    PROVE  IInv'
<1> DEFINE state == guests[ref[p].vmid].power
           todo == [NoPlan EXCEPT !.power = PlannedPower(manifest[p], state)]
<1>1. pc[p] = "readpower" /\ (Finish(p, "failed") \/ Proceed(p, ref[p], todo))
    BY DEF ReadPower, Reads
<1>2. manifest[p] \in Manifest /\ mode[p] = "apply" /\ ref[p] \in GuestRef
    BY <1>1, ManifestsAssumption DEF IInv, LocalsOK, Fits, Creating, Aimed
<1>3. todo \in Plan /\ DeclaredPlan(todo, manifest[p])
    BY <1>2, PowerPlanFits
<1>4. LocalsOK'
    BY <1>1, <1>2, <1>3, FinishKeeps, ProceedKeeps DEF Results
<1>5. QED
    BY <1>4, ReadsKeeps DEF ReadPower, IInv

LEMMA ReadSummaryKeeps ==
    ASSUME IInv, NEW p \in Procs, ReadSummary(p)
    PROVE  IInv'
<1> DEFINE state == guests[ref[p].vmid].power
           todo == [NoPlan EXCEPT !.power = PlannedPower(manifest[p], state)]
<1>1. /\ pc[p] = "summary"
      /\ Finish(p, "failed") \/ Continue(p, "config", ref[p], todo)
    BY DEF ReadSummary, Reads
<1>2. manifest[p] \in Manifest /\ mode[p] # "client" /\ ref[p] \in GuestRef
    BY <1>1, ManifestsAssumption DEF IInv, LocalsOK, Fits, Aimed
<1>3. todo \in Plan /\ DeclaredPlan(todo, manifest[p])
    BY <1>2, PowerPlanFits
<1>4. Fits("config", manifest[p], mode[p], ref[p], source[p], todo)
    BY <1>2, <1>3 DEF Fits, Creating, Writing
<1>5. LocalsOK'
    BY <1>1, <1>2, <1>3, <1>4, FinishKeeps, ContinueKeeps DEF Results, Reading
<1>6. QED
    BY <1>5, ReadsKeeps DEF ReadSummary, IInv

LEMMA ReadConfigKeeps ==
    ASSUME IInv, NEW p \in Procs, ReadConfig(p)
    PROVE  IInv'
<1> DEFINE m == manifest[p]
           g == guests[ref[p].vmid]
<1>1. /\ m \in Manifest /\ ref[p] \in GuestRef /\ mode[p] # "client"
      /\ mode[p] \in Modes /\ plan[p] \in Plan /\ DeclaredPlan(plan[p], m)
    BY ManifestsAssumption
       DEF ReadConfig, Reads, IInv, LocalsOK, Fits, Aimed
<1>2. CASE \E outcome \in Results : Finish(p, outcome)
    <2>1. LocalsOK'
        BY <1>2, FinishKeeps
    <2>2. QED
        BY <2>1, ReadsKeeps DEF ReadConfig, IInv
<1>3. CASE ~ \E outcome \in Results : Finish(p, outcome)
    <2>1. Reaches(guests, ref[p].vmid, ref[p].node) /\ Decide(p, g, m)
        BY <1>3 DEF ReadConfig, Results
    <2>2. g \in Guest
        BY <1>1, <2>1 DEF Reaches, IInv, Cluster, GuestRef
    <2>3. mode[p] \notin {"diff", "server"}
        BY <1>3, <2>1 DEF Decide, Results
    <2>4. ~Unplannable(g, m) /\ Proceed(p, ref[p], Todo(p, g, m))
        BY <1>3, <2>1, <2>3 DEF Decide, Results
    <2>5. mode[p] = "apply"
        BY <1>1, <2>3, ModesAssumption
    <2>6. plan[p].power \in {"none", "start", "stop"} /\ DeclaredPower(plan[p].power, m)
        BY <1>1 DEF Plan, DeclaredPlan
    <2>7. Todo(p, g, m) \in Plan /\ DeclaredPlan(Todo(p, g, m), m)
        BY <1>1, <2>2, <2>4, <2>6, DecidedPlanFits DEF Todo
    <2>8. LocalsOK'
        BY <1>1, <2>4, <2>5, <2>7, ProceedKeeps
    <2>9. QED
        BY <2>8, ReadsKeeps DEF ReadConfig, IInv
<1>4. QED
    BY <1>2, <1>3

-----------------------------------------------------------------------------
(***************************************************************************)
(* Writing steps.                                                          *)
(***************************************************************************)
LEMMA CreatingKeeps ==
    ASSUME IInv, NEW p \in Procs, Create(p) \/ Clone(p) \/ PostClone(p)
    PROVE  IInv'
<1>1. CASE Create(p) \/ PostClone(p)
    <2>1. Done(p) /\ Settle(p) /\ pc[p] \in Writing
        BY <1>1 DEF Create, PostClone, Writing
    <2>2. QED
        BY <2>1, DoneKeeps, SettleKeeps DEF IInv
<1>2. CASE Clone(p)
    <2>1. Done(p) /\ Continue(p, "postclone", ref[p], NoPlan) /\ pc[p] = "clone"
        BY <1>2 DEF Clone
    <2>2. manifest[p] \in Manifest /\ mode[p] = "apply" /\ ref[p] \in GuestRef
        BY <2>1, ManifestsAssumption
           DEF IInv, LocalsOK, Fits, Creating, Aimed, Writing
    <2>3. NoPlan \in Plan /\ DeclaredPlan(NoPlan, manifest[p])
        BY <2>2, NoPlanFits
    <2>4. Fits("postclone", manifest[p], mode[p], ref[p], source[p], NoPlan)
        BY <2>2, <2>3 DEF Fits
    <2>5. LocalsOK'
        BY <2>1, <2>2, <2>3, <2>4, ContinueKeeps DEF Writing
    <2>6. QED
        BY <2>1, <2>5, DoneKeeps DEF IInv
<1>3. QED
    BY <1>1, <1>2

LEMMA UpdatingKeeps ==
    ASSUME IInv, NEW p \in Procs, UpdateConfig(p) \/ ResizeDisk(p) \/ SwitchPower(p)
    PROVE  IInv'
<1>1. Done(p) /\ pc[p] \in {"update", "resize", "power"}
    BY DEF UpdateConfig, ResizeDisk, SwitchPower
<1>2. /\ manifest[p] \in Manifest /\ mode[p] = "apply" /\ ref[p] \in GuestRef
      /\ plan[p] \in Plan /\ DeclaredPlan(plan[p], manifest[p])
    BY <1>1, ManifestsAssumption DEF IInv, LocalsOK, Fits, Creating, Aimed, Writing
<1>3. CASE UpdateConfig(p)
    <2>1. LocalsOK'
        BY <1>2, <1>3, SmallerPlanFits, ProceedKeeps DEF UpdateConfig
    <2>2. QED
        BY <1>1, <2>1, DoneKeeps DEF IInv
<1>4. CASE ResizeDisk(p)
    <2>1. PICK s \in Slots : Proceed(p, ref[p], [plan[p] EXCEPT !.sizes[s] = None])
        BY <1>4 DEF ResizeDisk, NextSlot
    <2>2. LocalsOK'
        BY <1>2, <2>1, SmallerPlanFits, ProceedKeeps
    <2>3. QED
        BY <1>1, <2>2, DoneKeeps DEF IInv
<1>5. CASE SwitchPower(p)
    <2>1. plan[p].report \in Results
        BY <1>2 DEF Plan, Results
    <2>2. LocalsOK'
        BY <1>5, <2>1, FinishKeeps DEF SwitchPower
    <2>3. QED
        BY <1>1, <2>2, DoneKeeps DEF IInv
<1>6. QED
    BY <1>3, <1>4, <1>5

-----------------------------------------------------------------------------
(***************************************************************************)
(* Beginnings and bad endings.                                             *)
(***************************************************************************)
LEMMA StartKeeps ==
    ASSUME IInv, NEW p \in Procs, Start(p)
    PROVE  IInv'
<1>1. PICK m \in Manifests, md \in Modes : Begin(p, m, md) \/ Reject(p, m, md)
    BY DEF Start
<1>2. /\ pc[p] = "idle"
      /\ manifest' = [manifest EXCEPT ![p] = m] /\ mode' = [mode EXCEPT ![p] = md]
      /\ UNCHANGED <<guests, tasks, ref, source, plan, timeouts, moves>>
      /\ pc' = pc \/ (md # "client" /\ pc' = [pc EXCEPT ![p] = "resolve"])
      /\ \E r \in Results : result' = [result EXCEPT ![p] = r]
      /\ faults' \in 0..MaxFaults
    <2>1. CASE Begin(p, m, md)
        BY <2>1 DEF Begin, Goto, budgets, Results, IInv, BudgetsOK
    <2>2. CASE Reject(p, m, md)
        BY <2>2, BoundsAssumption DEF Reject, Results, IInv, BudgetsOK
    <2>3. QED
        BY <1>1, <2>1, <2>2
<1>3. PICK r \in Results : result' = [result EXCEPT ![p] = r]
    BY <1>2
<1>4. m \in Manifest /\ plan[p] = NoPlan /\ DeclaredPlan(NoPlan, m)
    BY <1>2, ManifestsAssumption, NoPlanFits DEF IInv, LocalsOK, Fits
<1>5. pc'[p] = "idle" \/ (pc'[p] = "resolve" /\ md # "client")
    BY <1>2 DEF IInv, LocalsOK
<1>6. ASSUME NEW q \in Procs
      PROVE  Fits(pc'[q], manifest'[q], mode'[q], ref'[q], source'[q], plan'[q])
    <2>1. CASE q = p
        <3>1. manifest'[q] = m /\ mode'[q] = md /\ plan'[q] = NoPlan
            BY <1>2, <1>4, <2>1 DEF IInv, LocalsOK
        <3>2. QED
            BY <1>4, <1>5, <2>1, <3>1 DEF Fits, Creating, Aimed, Writing
    <2>2. CASE q # p
        BY <1>2, <2>2 DEF IInv, LocalsOK
    <2>3. QED
        BY <2>1, <2>2
<1>7. /\ pc' \in [Procs -> Writing \cup Reading \cup {"idle"}]
      /\ manifest' \in [Procs -> Manifests] /\ mode' \in [Procs -> Modes]
      /\ result' \in [Procs -> Results]
    BY <1>2, <1>3 DEF IInv, LocalsOK, Reading
<1>8. LocalsOK'
    BY <1>2, <1>6, <1>7 DEF IInv, LocalsOK
<1>9. QED
    BY <1>2, <1>8 DEF IInv, TasksOK, BudgetsOK

LEMMA BadEndKeeps ==
    ASSUME IInv, NEW p \in Procs, Refused(p) \/ Fail(p) \/ TimeOut(p)
    PROVE  IInv'
<1>1. LocalsOK'
    BY FinishKeeps DEF Refused, Fail, TimeOut, Results
<1>2. CASE Refused(p) \/ Fail(p)
    BY <1>1, <1>2, BoundsAssumption
       DEF Refused, Fail, IInv, TasksOK, BudgetsOK, budgets
<1>3. CASE TimeOut(p)
    <2>1. PICK c \in Calls(p) : tasks' = tasks \cup {c}
        BY <1>3 DEF TimeOut
    <2>2. c \in Call /\ Licensed(c, manifest[p]) /\ manifest[p] \in Manifests
        BY CallsLicensed DEF IInv, LocalsOK
    <2>3. TasksOK'
        BY <2>1, <2>2 DEF IInv, TasksOK
    <2>4. BudgetsOK' /\ guests' = guests
        BY <1>3, BoundsAssumption DEF TimeOut, IInv, BudgetsOK
    <2>5. QED
        BY <1>1, <2>3, <2>4 DEF IInv
<1>4. QED
    BY <1>2, <1>3

LEMMA TaskEndsKeeps ==
    ASSUME IInv, NEW c \in tasks, TaskEnds(c)
    PROVE  IInv'
<1>1. c \in Call
    BY DEF IInv, TasksOK
<1>2. guests' \in Cluster
    BY <1>1, PerformType DEF TaskEnds, IInv
<1>3. LocalsOK'
    BY DEF TaskEnds, IInv, LocalsOK, locals
<1>4. TasksOK' /\ BudgetsOK'
    BY DEF TaskEnds, IInv, TasksOK, BudgetsOK, budgets
<1>5. QED
    BY <1>2, <1>3, <1>4 DEF IInv

LEMMA OperatorKeeps ==
    ASSUME IInv, NEW v \in VMIDs, Operator(v)
    PROVE  IInv'
<1>1. guests' \in Cluster
    <2>1. ASSUME guests[v] # None, NEW s \in {"running", "stopped"}
          PROVE  [guests EXCEPT ![v].power = s] \in Cluster
        BY <2>1 DEF IInv, Cluster, Guest
    <2>2. ASSUME guests[v] # None, NEW n \in Nodes
          PROVE  [guests EXCEPT ![v].node = n] \in Cluster
        BY <2>2 DEF IInv, Cluster, Guest
    <2>3. [guests EXCEPT ![v] = None] \in Cluster
        BY DEF IInv, Cluster
    <2>4. ASSUME NEW g \in Strangers
          PROVE  [guests EXCEPT ![v] = g] \in Cluster
        BY StrangersAssumption DEF IInv, Cluster
    <2>5. QED
        BY <2>1, <2>2, <2>3, <2>4 DEF Operator
<1>2. LocalsOK'
    BY DEF Operator, IInv, LocalsOK, locals
<1>3. TasksOK' /\ BudgetsOK'
    BY BoundsAssumption DEF Operator, IInv, TasksOK, BudgetsOK
<1>4. QED
    BY <1>1, <1>2, <1>3 DEF IInv

-----------------------------------------------------------------------------
LEMMA InitInv == Init => IInv
<1> SUFFICES ASSUME Init PROVE IInv
    OBVIOUS
<1>1. guests \in Cluster /\ TasksOK
    BY ClustersAssumption DEF Init, TasksOK
<1>2. BudgetsOK
    BY BoundsAssumption DEF Init, BudgetsOK
<1>3. ASSUME NEW p \in Procs
      PROVE  Fits(pc[p], manifest[p], mode[p], ref[p], source[p], plan[p])
    <2>1. manifest[p] \in Manifest
        BY ManifestsAssumption DEF Init
    <2>2. NoPlan \in Plan /\ DeclaredPlan(NoPlan, manifest[p])
        BY <2>1, NoPlanFits
    <2>3. pc[p] = "idle" /\ plan[p] = NoPlan
        BY DEF Init
    <2>4. QED
        BY <2>2, <2>3 DEF Fits, Creating, Aimed, Writing
<1>4. plan \in [Procs -> Plan]
    <2>1. ASSUME NEW p \in Procs PROVE NoPlan \in Plan
        BY ManifestsAssumption, NoPlanFits DEF Init
    <2>2. QED
        BY <2>1 DEF Init
<1>5. LocalsOK
    BY <1>3, <1>4 DEF Init, LocalsOK, Results
<1>6. QED
    BY <1>1, <1>2, <1>5 DEF IInv

LEMMA NextInv == IInv /\ [Next]_vars => IInv'
<1> SUFFICES ASSUME IInv, [Next]_vars PROVE IInv'
    OBVIOUS
<1>1. ASSUME NEW p \in Procs, Step(p)
      PROVE  IInv'
    BY <1>1, ResolveKeeps, CheckNameKeeps, NextIDKeeps, FindSourceKeeps,
       CreatingKeeps, ReadPowerKeeps, ReadSummaryKeeps, ReadConfigKeeps,
       UpdatingKeeps, BadEndKeeps DEF Step
<1>2. ASSUME NEW p \in Procs, Start(p) \/ Fail(p) \/ TimeOut(p)
      PROVE  IInv'
    BY <1>2, StartKeeps, BadEndKeeps
<1>3. CASE UNCHANGED vars
    BY <1>3 DEF vars, locals, budgets, IInv, TasksOK, LocalsOK, BudgetsOK
<1>4. QED
    BY <1>1, <1>2, <1>3, TaskEndsKeeps, OperatorKeeps DEF Next

THEOREM Invariance == Spec => []IInv
<1>1. QED
    BY InitInv, NextInv, PTL DEF Spec

(***************************************************************************)
(* Every variable keeps its type, and every call is made with a guest to   *)
(* make it to.                                                             *)
(***************************************************************************)
THEOREM TypeCorrect == Spec => []TypeOK
<1>1. IInv => TypeOK
    BY DEF IInv, TypeOK, TasksOK, LocalsOK, BudgetsOK
<1>2. QED
    BY <1>1, Invariance, PTL

(***************************************************************************)
(* Whatever the manifests, the cluster, the number of processes and the    *)
(* interleaving: no call says more than a manifest declares.               *)
(***************************************************************************)
THEOREM WritesAreDeclared == Spec => []OnlyDeclaredWrites
<1>1. IInv => OnlyDeclaredWrites
    <2> SUFFICES ASSUME IInv PROVE OnlyDeclaredWrites
        OBVIOUS
    <2>1. QED
        BY CallsLicensed DEF OnlyDeclaredWrites, IInv, TasksOK
<1>2. QED
    BY <1>1, Invariance, PTL

-----------------------------------------------------------------------------
\* A step of one process leaves every other where it was.
LEMMA OthersStay ==
    ASSUME IInv, NEW p \in Procs, NEW q \in Procs, q # p,
           Step(p) \/ Start(p) \/ Fail(p) \/ TimeOut(p)
    PROVE  /\ pc'[q] = pc[q] /\ manifest'[q] = manifest[q] /\ mode'[q] = mode[q]
           /\ ref'[q] = ref[q] /\ source'[q] = source[q] /\ plan'[q] = plan[q]
           /\ result'[q] = result[q]
<1> DEFINE Rests == /\ pc'[q] = pc[q] /\ manifest'[q] = manifest[q] /\ mode'[q] = mode[q]
                    /\ ref'[q] = ref[q] /\ source'[q] = source[q] /\ plan'[q] = plan[q]
                    /\ result'[q] = result[q]
<1>1. /\ DOMAIN pc = Procs /\ DOMAIN plan = Procs /\ DOMAIN result = Procs
      /\ DOMAIN manifest = Procs /\ DOMAIN mode = Procs /\ DOMAIN ref = Procs
      /\ DOMAIN source = Procs
    BY DEF IInv, LocalsOK
<1>2. ASSUME NEW outcome, Finish(p, outcome)
      PROVE  Rests
    BY <1>1, <1>2 DEF Finish, Goto
<1>3. ASSUME NEW label, NEW target, NEW todo, Continue(p, label, target, todo)
      PROVE  Rests
    BY <1>1, <1>3 DEF Continue, Goto
<1>4. CASE Start(p)
    BY <1>1, <1>4 DEF Start, Begin, Reject, Goto
<1>5. CASE Fail(p) \/ TimeOut(p) \/ Refused(p) \/ NoNextID(p) \/ SwitchPower(p)
    BY <1>2, <1>5 DEF Fail, TimeOut, Refused, NoNextID, SwitchPower
<1>6. CASE Resolve(p) \/ CheckName(p)
    BY <1>2, <1>3, <1>6 DEF Resolve, CheckName, NotFound, Found
<1>7. CASE FindSource(p)
    <2>1. CASE Finish(p, "failed")
        BY <1>2, <2>1
    <2>2. CASE ~Finish(p, "failed")
        BY <1>1, <1>7, <2>2 DEF FindSource, Goto
    <2>3. QED
        BY <2>1, <2>2
<1>8. CASE NextID(p) \/ Create(p) \/ Clone(p) \/ PostClone(p) \/ ReadSummary(p)
    BY <1>2, <1>3, <1>8 DEF NextID, Create, Clone, PostClone, ReadSummary, Settle
<1>9. CASE ReadPower(p) \/ ReadConfig(p) \/ UpdateConfig(p) \/ ResizeDisk(p)
    BY <1>2, <1>3, <1>9 DEF ReadPower, ReadConfig, Decide, UpdateConfig, ResizeDisk, Proceed
<1>10. QED
    BY <1>4, <1>5, <1>6, <1>7, <1>8, <1>9 DEF Step

\* A process that writes runs apply, before the step and after it.
LEMMA WritersApply ==
    ASSUME IInv, NEW p \in Procs,
           Step(p) \/ Start(p) \/ Fail(p) \/ TimeOut(p),
           ~UNCHANGED <<guests, tasks>>
    PROVE  mode'[p] = "apply"
<1>1. CASE Done(p) \/ TimeOut(p)
    <2>1. \E c \in Calls(p) : TRUE
        BY <1>1 DEF Done, TimeOut
    <2>2. mode[p] = "apply"
        BY <2>1, CallsLicensed
    <2>3. pc[p] \in Writing
        BY <2>1 DEF Calls, Writing
    <2>4. mode' = mode
        BY <1>1, <2>3
           DEF Step, Start, Fail, TimeOut, Resolve, CheckName, NextID, NoNextID,
               Create, FindSource, Clone, PostClone, ReadPower, ReadSummary,
               ReadConfig, UpdateConfig, ResizeDisk, SwitchPower, Refused, Begin,
               Reject, NotFound, Found, Settle, Decide, Todo, Proceed, Finish,
               Continue, Writing
    <2>5. QED
        BY <2>2, <2>4
<1>2. CASE ~Done(p) /\ ~TimeOut(p)
    BY <1>2
       DEF Step, Start, Fail, Resolve, CheckName, NextID, NoNextID, Create,
           FindSource, Clone, PostClone, ReadPower, ReadSummary, ReadConfig,
           UpdateConfig, ResizeDisk, SwitchPower, Refused, Begin, Reject, Reads
<1>3. QED
    BY <1>1, <1>2

(***************************************************************************)
(* A client or server dry run and a diff never change a guest or start a   *)
(* task.                                                                   *)
(***************************************************************************)
THEOREM DryRunsAreDry == Spec => DryRunsWriteNothing
<1>1. IInv /\ [Next]_vars => [\A p \in Procs : DryStep(p)]_vars
    <2> SUFFICES ASSUME IInv, [Next]_vars, ~UNCHANGED vars, NEW q \in Procs
                 PROVE  DryStep(q)
        OBVIOUS
    <2>1. CASE (\E c \in tasks : TaskEnds(c)) \/ (\E v \in VMIDs : Operator(v))
        BY <2>1 DEF TaskEnds, Operator, locals, Moves, DryStep
    <2>2. ASSUME NEW p \in Procs, Step(p) \/ Start(p) \/ Fail(p) \/ TimeOut(p)
          PROVE  DryStep(q)
        <3>1. CASE q = p
            BY <2>2, <3>1, WritersApply DEF DryStep
        <3>2. CASE q # p
            BY <2>2, <3>2, OthersStay DEF Moves, DryStep
        <3>3. QED
            BY <3>1, <3>2
    <2>3. QED
        BY <2>1, <2>2 DEF Next
<1>2. QED
    BY <1>1, Invariance, PTL DEF Spec, DryRunsWriteNothing

-----------------------------------------------------------------------------
(***************************************************************************)
(* One run at a time, on a cluster nobody else works on: what each label   *)
(* knows of the cluster.  Between any two calls the guest the run resolved *)
(* is still the only one its manifest is about, and the plan is still the  *)
(* one that guest calls for.                                               *)
(***************************************************************************)
OneAtATime == (\E p \in Procs : Procs = {p}) /\ MaxTimeouts = 0

\* What creation leaves out is not declared: a pool, and a disk in the slot of
\* the cloud-init drive.
CreatesInFull ==
    \A m \in Manifests : m.clone = None =>
        /\ m.pool = None
        /\ m.drive # None => m.disks[CloudInitSlot] = None

Standing == {"postclone", "readpower", "summary", "config", "update", "resize", "power"}

Absent(gs, m) == Named(gs, m.name) = {} /\ (m.vmid # None => gs[m.vmid] = None)

Free(gs, r, m) ==
    /\ Absent(gs, m) /\ gs[r.vmid] = None
    /\ r.node = m.node /\ m.vmid \in {None, r.vmid}

Stands(gs, r, m) == Targets(gs, m) = {r.vmid} /\ Reaches(gs, r.vmid, r.node)

PoolHolds(g, m) == CreatesInFull => m.pool \in {None, g.pool}
Settled(g, m) == CreatesInFull => InSync(g, m)

Awaits(g, m, todo) ==
    /\ PoolHolds(g, m)
    /\ todo.power = PlannedPower(m, g.power)
    /\ IF HasWrites(todo)
       THEN /\ ~Unplannable(g, m)
            /\ todo.config = PlannedConfig(g, m)
            /\ todo.disks = PlannedDisks(g, m)
            /\ todo.sizes = PlannedSizes(g, m)
       ELSE CreatesInFull \/ todo.sizes # NoWrites => AwaitsSizes(g, m, todo.sizes)

Located(gs, label, m, md, r) ==
    /\ label # "idle" => Valid(m)
    /\ label = "checkname" => m.vmid # None /\ gs[m.vmid] = None
    /\ label = "nextid" => m.vmid = None /\ Absent(gs, m)
    /\ label \in {"create", "findsource", "clone"} => Free(gs, r, m)
    /\ label = "create" => m.clone = None
    /\ label \in {"findsource", "clone", "postclone"} => m.clone # None
    /\ label \in Standing => Stands(gs, r, m) /\ (md # "diff" => r.node = m.node)

Matched(gs, label, m, md, r, todo) ==
    /\ label = "postclone" => gs[r.vmid].pool = m.pool
    /\ label = "readpower" => PoolHolds(gs[r.vmid], m) /\ Settled(gs[r.vmid], m)
    /\ label = "config" /\ md # "diff" =>
        ~PoolMoved(m, gs[r.vmid]) /\ todo.power = PlannedPower(m, gs[r.vmid].power)
    /\ label \in {"update", "resize", "power"} =>
        label = NextCall(todo) /\ Awaits(gs[r.vmid], m, todo)

Knows(gs, label, m, md, r, todo) ==
    Located(gs, label, m, md, r) /\ Matched(gs, label, m, md, r, todo)

LocatedNext(p) == Located(guests', pc'[p], manifest'[p], mode'[p], ref'[p])
MatchedNext(p) ==
    Matched(guests', pc'[p], manifest'[p], mode'[p], ref'[p], plan'[p])
KnowsNext(p) == LocatedNext(p) /\ MatchedNext(p)

-----------------------------------------------------------------------------
(***************************************************************************)
(* A write to the guest, and a new guest.                                  *)
(***************************************************************************)
LEMMA StillStands ==
    ASSUME NEW gs \in Cluster, NEW m \in Manifest, NEW r \in GuestRef, Stands(gs, r, m),
           NEW h \in Guest, h.type = gs[r.vmid].type, h.node = gs[r.vmid].node,
           h.config["name"] = gs[r.vmid].config["name"]
    PROVE  Stands([gs EXCEPT ![r.vmid] = h], r, m)
<1> DEFINE hs == [gs EXCEPT ![r.vmid] = h]
<1>1. /\ r.vmid \in VMIDs /\ h # None /\ gs[r.vmid] # None
      /\ hs \in Cluster /\ hs[r.vmid] = h
    BY NoGuestAssumption DEF GuestRef, Cluster, Stands, Reaches
<1>2. ASSUME NEW v \in VMIDs
      PROVE  /\ hs[v] # None <=> gs[v] # None
             /\ gs[v] # None => hs[v].config["name"] = gs[v].config["name"]
    BY <1>1 DEF Cluster
<1>3. Targets(hs, m) = Targets(gs, m)
    BY <1>2 DEF Targets, Named, Manifest
<1>4. QED
    BY <1>1, <1>3 DEF Stands, Reaches

LEMMA NewStands ==
    ASSUME NEW gs \in Cluster, NEW m \in Manifest, NEW r \in GuestRef, Free(gs, r, m),
           NEW h \in Guest, h.type = "qemu", h.node = m.node, h.config["name"] = m.name
    PROVE  Stands([gs EXCEPT ![r.vmid] = h], r, m)
<1> DEFINE hs == [gs EXCEPT ![r.vmid] = h]
<1>1. /\ r.vmid \in VMIDs /\ h # None /\ hs[r.vmid] = h
      /\ \A v \in VMIDs \ {r.vmid} : hs[v] = gs[v]
    BY NoGuestAssumption DEF GuestRef, Cluster
<1>2. Named(hs, m.name) = {r.vmid}
    BY <1>1 DEF Named, Free, Absent
<1>3. Targets(hs, m) = {r.vmid}
    BY <1>1, <1>2 DEF Targets, Free
<1>4. QED
    BY <1>1, <1>3 DEF Stands, Reaches, Free

LEMMA StandingGuest ==
    ASSUME NEW gs \in Cluster, NEW m \in Manifest, NEW r \in GuestRef, Stands(gs, r, m)
    PROVE  /\ r.vmid \in VMIDs /\ gs[r.vmid] \in Guest /\ gs[r.vmid] # None
           /\ gs[r.vmid].type = "qemu" /\ gs[r.vmid].node = r.node
           /\ m.vmid = None => gs[r.vmid].config["name"] = m.name
           /\ m.vmid # None => r.vmid = m.vmid
BY DEF Stands, Reaches, Cluster, GuestRef, Targets, Named

\* The name that is written is the one the guest is known by, unless by its vmid.
LEMMA OverlaidName ==
    ASSUME NEW gs \in Cluster, NEW m \in Manifest, NEW r \in GuestRef, Stands(gs, r, m),
           NEW h \in Guest, h.type = gs[r.vmid].type, h.node = gs[r.vmid].node,
           h.config["name"] \in {gs[r.vmid].config["name"], m.name}
    PROVE  Stands([gs EXCEPT ![r.vmid] = h], r, m)
<1>1. CASE m.vmid = None
    BY <1>1, StandingGuest, StillStands
<1>2. CASE m.vmid # None
    <2> DEFINE hs == [gs EXCEPT ![r.vmid] = h]
    <2>1. r.vmid = m.vmid /\ h # None /\ hs[r.vmid] = h
        BY <1>2, StandingGuest, NoGuestAssumption DEF Cluster
    <2>2. Targets(hs, m) = {r.vmid}
        BY <1>2, <2>1 DEF Targets
    <2>3. QED
        BY <2>1, <2>2, StandingGuest DEF Stands, Reaches
<1>3. QED
    BY <1>1, <1>2

(***************************************************************************)
(* The manifest holds when nothing differs and nothing is to be switched.  *)
(***************************************************************************)
LEMMA SettledConverges ==
    ASSUME CreatesInFull,
           NEW gs \in Cluster, NEW m \in Manifest, NEW r \in GuestRef, Stands(gs, r, m),
           r.node = m.node, PoolHolds(gs[r.vmid], m), InSync(gs[r.vmid], m),
           PlannedPower(m, gs[r.vmid].power) = "none"
    PROVE  Converged(gs, m)
<1> DEFINE g == gs[r.vmid]
<1>1. g \in Guest /\ g.type = "qemu" /\ g.node = m.node
    BY StandingGuest
<1>2. \A k \in Keys \ {"cipassword"} : Config(m)[k] \in {None, g.config[k]}
    BY DEF InSync, ChangedKeys
<1>3. \A s \in Slots : m.disks[s] # None => ~DiskDiffers(g.disks[s], m.disks[s])
    BY DEF InSync, ChangedSlots
<1>4. g.power \in {"running", "stopped"}
    BY <1>1 DEF Guest
<1>5. /\ m.run = "Always" => g.power = "running"
      /\ m.run = "Halted" => g.power = "stopped"
    BY <1>4 DEF PlannedPower
<1>6. Agrees(g, m)
    BY <1>1, <1>2, <1>3, <1>5 DEF Agrees, DiskDiffers, PoolHolds
<1>7. QED
    BY <1>6 DEF Converged, Stands

\* Sending nothing changes nothing.
LEMMA NothingSent ==
    ASSUME NEW g \in Guest, NEW target
    PROVE  /\ Updated(g, Update(target, NoParams, NoWrites)).config = g.config
           /\ Updated(g, Update(target, NoParams, NoWrites)).disks = g.disks
<1>1. /\ g.config \in Params /\ g.disks \in Disks
    BY DEF Guest
<1>2. Overlay(g.config, NoParams) = g.config
    BY <1>1 DEF Overlay, NoParams, Params
<1>3. Written(g.disks, NoWrites) = g.disks
    BY <1>1 DEF Written, NoWrites, Disks
<1>4. QED
    BY <1>2, <1>3 DEF Updated, Update, Guest

-----------------------------------------------------------------------------
(***************************************************************************)
(* What is left of a plan is right after each of its calls.                *)
(***************************************************************************)
\* The comparison looks at the config and the disks of a guest only.
LEMMA AwaitsSizesOf ==
    ASSUME NEW g, NEW h, NEW m, NEW sizes, h.config = g.config, h.disks = g.disks
    PROVE  AwaitsSizes(h, m, sizes) <=> AwaitsSizes(g, m, sizes)
BY DEF AwaitsSizes, ChangedKeys

LEMMA PlannedAwaits ==
    ASSUME NEW g \in Guest, NEW m \in Manifest, ~Unplannable(g, m), PoolHolds(g, m),
           NEW todo \in Plan,
           todo.config = PlannedConfig(g, m), todo.disks = PlannedDisks(g, m),
           todo.sizes = PlannedSizes(g, m), todo.power = PlannedPower(m, g.power)
    PROVE  Awaits(g, m, todo)
<1>1. CASE HasWrites(todo)
    BY <1>1 DEF Awaits
<1>2. CASE ~HasWrites(todo)
    <2> DEFINE h == Sent(g, m, None)
    <2>1. h.config = g.config /\ h.disks = g.disks
        BY <1>2, NothingSent DEF HasWrites, Sent
    <2>2. AwaitsSizes(h, m, todo.sizes)
        BY SentAwaitsSizes
    <2>3. QED
        BY <1>2, <2>1, <2>2, AwaitsSizesOf DEF Awaits
<1>3. QED
    BY <1>1, <1>2

LEMMA UpdatedAwaits ==
    ASSUME NEW g \in Guest, NEW m \in Manifest, NEW r,
           NEW todo \in Plan, HasWrites(todo), Awaits(g, m, todo)
    PROVE  Awaits(Updated(g, Update(r, todo.config, todo.disks)), m,
                  [todo EXCEPT !.config = NoParams, !.disks = NoWrites])
<1> DEFINE h == Updated(g, Update(r, todo.config, todo.disks))
           rest == [todo EXCEPT !.config = NoParams, !.disks = NoWrites]
<1>1. h = Sent(g, m, r) /\ ~Unplannable(g, m)
    BY DEF Awaits, Sent
<1>2. h.pool = g.pool /\ h.power = g.power
    BY DEF Updated, Guest
<1>3. rest.sizes = PlannedSizes(g, m) /\ rest.power = todo.power /\ ~HasWrites(rest)
    BY DEF Plan, HasWrites, Awaits
<1>4. AwaitsSizes(h, m, rest.sizes)
    BY <1>1, <1>3, SentAwaitsSizes
<1>5. QED
    BY <1>2, <1>3, <1>4 DEF Awaits, PoolHolds

\* One disk is next, and the server has nothing against its new size.
LEMMA NextGrows ==
    ASSUME NEW g \in Guest, NEW m \in Manifest, NEW r,
           NEW todo \in Plan, ~HasWrites(todo), Awaits(g, m, todo),
           NEW s \in NextSlot(todo)
    PROVE  /\ s \in Slots /\ todo.sizes[s] \in Sizes
           /\ g.disks[s] # None /\ g.disks[s].size <= todo.sizes[s]
           /\ NextSlot(todo) = {s}
           /\ Awaits(Resized(g, Resize(r, s, todo.sizes[s])), m,
                     [todo EXCEPT !.sizes[s] = None])
<1> DEFINE h == Resized(g, Resize(r, s, todo.sizes[s]))
           rest == [todo EXCEPT !.sizes[s] = None]
<1>1. s \in Slots /\ todo.sizes[s] # None /\ todo.sizes[s] \in Sizes
    BY DEF NextSlot, Plan
<1>2. AwaitsSizes(g, m, todo.sizes)
    BY <1>1 DEF Awaits, NoWrites
<1>3. g.disks[s] # None /\ g.disks[s].size <= todo.sizes[s] /\ g.disks[s] \in Disk
    BY <1>1, <1>2 DEF AwaitsSizes, Guest, Disks
<1>4. NextSlot(todo) = {s}
    <2>1. ASSUME NEW t \in NextSlot(todo)
          PROVE  t = s
        BY <2>1, SlotsAssumption DEF NextSlot
    <2>2. QED
        BY <2>1
<1>5. /\ h.pool = g.pool /\ h.power = g.power /\ h.config = g.config
      /\ h.disks = [g.disks EXCEPT ![s].size = todo.sizes[s]]
    BY DEF Resized, Resize, Guest
<1>6. /\ rest.power = todo.power /\ ~HasWrites(rest)
      /\ rest.sizes = [todo.sizes EXCEPT ![s] = None]
    BY DEF Plan, HasWrites
<1>7. ASSUME NEW t \in Slots
      PROVE  /\ t # s => h.disks[t] = g.disks[t] /\ rest.sizes[t] = todo.sizes[t]
             /\ t = s => /\ h.disks[t] \in Disk /\ h.disks[t].size = todo.sizes[s]
                         /\ h.disks[t].storage = g.disks[s].storage
                         /\ h.disks[t].opts = g.disks[s].opts
                         /\ rest.sizes[t] = None
    BY <1>1, <1>3, <1>5, <1>6 DEF Guest, Disks, Disk, Plan
<1>8. ChangedKeys(h, m) = {}
    BY <1>2, <1>5 DEF AwaitsSizes, ChangedKeys
<1>9. ASSUME NEW t \in Slots, m.disks[t] # None
      PROVE  /\ h.disks[t] # None
             /\ h.disks[t].storage = m.disks[t].storage
             /\ \A o \in OptKeys : m.disks[t].opts[o] \in {None, h.disks[t].opts[o]}
             /\ rest.sizes[t] = None => h.disks[t].size = m.disks[t].size
    <2>1. CASE t = s
        BY <1>1, <1>2, <1>7, <1>9, <2>1, NoDiskAssumption DEF AwaitsSizes
    <2>2. CASE t # s
        BY <1>2, <1>7, <1>9, <2>2 DEF AwaitsSizes
    <2>3. QED
        BY <2>1, <2>2
<1>10. ASSUME NEW t \in Slots, rest.sizes[t] # None
       PROVE  /\ m.disks[t] # None /\ rest.sizes[t] = m.disks[t].size
              /\ h.disks[t].size <= rest.sizes[t]
    BY <1>2, <1>7, <1>10 DEF AwaitsSizes
<1>11. AwaitsSizes(h, m, rest.sizes)
    BY <1>8, <1>9, <1>10 DEF AwaitsSizes
<1>12. QED
    BY <1>1, <1>3, <1>4, <1>5, <1>6, <1>11 DEF Awaits, PoolHolds

-----------------------------------------------------------------------------
(***************************************************************************)
(* The ways a step leaves its process.                                     *)
(***************************************************************************)
LEMMA FinishKnows ==
    ASSUME IInv, NEW p \in Procs, NEW outcome, Finish(p, outcome)
    PROVE  /\ pc'[p] = "idle" /\ result'[p] = outcome /\ manifest'[p] = manifest[p]
           /\ mode'[p] = mode[p] /\ KnowsNext(p)
<1>1. /\ pc'[p] = "idle" /\ result'[p] = outcome
      /\ manifest'[p] = manifest[p] /\ mode'[p] = mode[p]
    BY DEF Finish, Goto, IInv, LocalsOK
<1>2. KnowsNext(p)
    BY <1>1 DEF KnowsNext, LocatedNext, MatchedNext, Located, Matched, Standing
<1>3. QED
    BY <1>1, <1>2

LEMMA ContinueKnows ==
    ASSUME IInv, NEW p \in Procs, NEW label, NEW target, NEW todo,
           Continue(p, label, target, todo)
    PROVE  /\ pc'[p] = label /\ ref'[p] = target /\ plan'[p] = todo
           /\ manifest'[p] = manifest[p] /\ mode'[p] = mode[p] /\ result'[p] = result[p]
           /\ source'[p] = source[p]
           /\ LocatedNext(p) <=> Located(guests', label, manifest[p], mode[p], target)
           /\ MatchedNext(p) <=> Matched(guests', label, manifest[p], mode[p], target, todo)
<1>1. /\ pc'[p] = label /\ ref'[p] = target /\ plan'[p] = todo
      /\ manifest'[p] = manifest[p] /\ mode'[p] = mode[p] /\ result'[p] = result[p]
      /\ source'[p] = source[p]
    BY DEF Continue, Goto, IInv, LocalsOK
<1>2. QED
    BY <1>1 DEF LocatedNext, MatchedNext

\* With a plan the guest calls for: the next call is made, or all is done.
LEMMA ProceedKnows ==
    ASSUME IInv, NEW p \in Procs, guests' \in Cluster, ref[p] \in GuestRef,
           Valid(manifest[p]), Stands(guests', ref[p], manifest[p]),
           ref[p].node = manifest[p].node,
           NEW todo \in Plan, Awaits(guests'[ref[p].vmid], manifest[p], todo),
           Proceed(p, ref[p], todo)
    PROVE  /\ KnowsNext(p) /\ manifest'[p] = manifest[p] /\ mode'[p] = mode[p]
           /\ \/ /\ pc'[p] \in {"update", "resize", "power"} /\ plan'[p] = todo
                 /\ ref'[p] = ref[p]
              \/ /\ pc'[p] = "idle" /\ result'[p] = todo.report
                 /\ CreatesInFull => Converged(guests', manifest[p])
<1> DEFINE m == manifest[p]
           g == guests'[ref[p].vmid]
<1>1. m \in Manifest
    BY ManifestsAssumption DEF IInv, LocalsOK
<1>2. CASE NextCall(todo) = "idle"
    <2>1. Finish(p, todo.report)
        BY <1>2 DEF Proceed
    <2>2. /\ ~HasWrites(todo) /\ todo.sizes = NoWrites /\ todo.power = "none"
        BY <1>2 DEF NextCall, Plan
    <2>3. CreatesInFull => InSync(g, m)
        BY <2>2, AwaitsNothing DEF Awaits
    <2>4. CreatesInFull => Converged(guests', m)
        BY <1>1, <2>2, <2>3, SettledConverges DEF Awaits
    <2>5. QED
        BY <2>1, <2>4, FinishKnows
<1>3. CASE NextCall(todo) # "idle"
    <2>1. NextCall(todo) \in {"update", "resize", "power"}
        BY <1>3 DEF NextCall
    <2>2. Continue(p, NextCall(todo), ref[p], todo)
        BY <1>3 DEF Proceed
    <2>3. /\ Located(guests', NextCall(todo), m, mode[p], ref[p])
          /\ Matched(guests', NextCall(todo), m, mode[p], ref[p], todo)
        BY <2>1 DEF Located, Matched
    <2>4. QED
        BY <2>1, <2>2, <2>3, ContinueKnows DEF KnowsNext
<1>4. QED
    BY <1>2, <1>3

-----------------------------------------------------------------------------
(***************************************************************************)
(* What a call that went through did to the cluster.                       *)
(***************************************************************************)
LEMMA Locals ==
    ASSUME IInv, NEW p \in Procs
    PROVE  /\ manifest[p] \in Manifest /\ manifest[p] \in Manifests
           /\ plan[p] \in Plan /\ DeclaredPlan(plan[p], manifest[p])
           /\ mode[p] \in Modes
           /\ pc[p] \in Aimed => ref[p] \in GuestRef
           /\ pc[p] \in Creating => mode[p] = "apply"
           /\ pc[p] # "idle" => mode[p] # "client"
BY ManifestsAssumption DEF IInv, LocalsOK, Fits

LEMMA CreateDone ==
    ASSUME IInv, NEW p \in Procs, pc[p] = "create", Done(p)
    PROVE  /\ ref[p] \in GuestRef /\ guests' \in Cluster /\ guests[ref[p].vmid] = None
           /\ Created(Creation(manifest[p], ref[p].vmid)) \in Guest
           /\ guests' = [guests EXCEPT ![ref[p].vmid] =
                            Created(Creation(manifest[p], ref[p].vmid))]
<1> DEFINE c == Creation(manifest[p], ref[p].vmid)
<1>1. Accepts(guests, c) /\ guests' = Perform(guests, c) /\ c \in Calls(p)
    BY DEF Done, Calls, Admits
<1>2. c.op = "create" /\ c.vmid = ref[p].vmid
    BY DEF Creation
<1>3. ref[p] \in GuestRef /\ guests' \in Cluster
    BY Locals, DoneKeeps DEF Aimed, Writing
<1>4. c \in CreateCall
    BY <1>1, <1>2, CallsLicensed
       DEF Call, CreateCall, CloneCall, UpdateCall, ResizeCall, PowerCall
<1>5. Created(c) \in Guest
    BY <1>4, CreatedType
<1>6. QED
    BY <1>1, <1>2, <1>3, <1>5 DEF Accepts, Perform

LEMMA CloneDone ==
    ASSUME IInv, NEW p \in Procs, pc[p] = "clone", Done(p)
    PROVE  /\ ref[p] \in GuestRef /\ source[p] \in GuestRef /\ guests' \in Cluster
           /\ guests[ref[p].vmid] = None
           /\ Reaches(guests, source[p].vmid, source[p].node)
           /\ guests[source[p].vmid] \in Guest
           /\ guests' = [guests EXCEPT ![ref[p].vmid] =
                            Cloned(guests[source[p].vmid],
                                   Cloning(manifest[p], ref[p].vmid, source[p]))]
<1> DEFINE c == Cloning(manifest[p], ref[p].vmid, source[p])
<1>1. Accepts(guests, c) /\ guests' = Perform(guests, c)
    BY DEF Done, Calls, Admits
<1>2. c.op = "clone" /\ c.vmid = ref[p].vmid /\ c.source = source[p]
    BY DEF Cloning
<1>3. ref[p] \in GuestRef /\ guests' \in Cluster /\ source[p] \in GuestRef
    BY Locals, DoneKeeps DEF Aimed, Writing, IInv, LocalsOK, Fits
<1>4. QED
    BY <1>1, <1>2, <1>3 DEF Accepts, Perform, Reaches, IInv, Cluster, GuestRef

LEMMA UpdateDone ==
    ASSUME IInv, NEW p \in Procs, NEW config \in Params, NEW disks \in DiskWrites,
           Calls(p) = {Update(ref[p], config, disks)}, ref[p] \in GuestRef, Done(p)
    PROVE  /\ guests' \in Cluster
           /\ guests[ref[p].vmid] \in Guest
           /\ Updated(guests[ref[p].vmid], Update(ref[p], config, disks)) \in Guest
           /\ guests' = [guests EXCEPT ![ref[p].vmid] =
                            Updated(guests[ref[p].vmid], Update(ref[p], config, disks))]
<1> DEFINE c == Update(ref[p], config, disks)
<1>1. Accepts(guests, c) /\ guests' = Perform(guests, c)
    BY DEF Done, Admits
<1>2. c.op = "update" /\ c.vmid = ref[p].vmid /\ c.node = ref[p].node
    BY DEF Update
<1>3. c \in UpdateCall
    BY DEF Update, UpdateCall, GuestRef
<1>4. guests[ref[p].vmid] \in Guest
    BY <1>1, <1>2 DEF Accepts, Reaches, IInv, Cluster, GuestRef
<1>5. Updated(guests[ref[p].vmid], c) \in Guest
    BY <1>3, <1>4, UpdatedType
<1>6. QED
    BY <1>1, <1>2, <1>4, <1>5, DoneKeeps DEF Perform

LEMMA ResizeDone ==
    ASSUME IInv, NEW p \in Procs, pc[p] = "resize", Done(p)
    PROVE  \E s \in NextSlot(plan[p]) :
            LET g == guests[ref[p].vmid]
                h == Resized(g, Resize(ref[p], s, plan[p].sizes[s]))
            IN  /\ ref[p] \in GuestRef /\ guests' \in Cluster
                /\ g \in Guest /\ h \in Guest /\ g.disks[s] # None
                /\ g.disks[s].size <= plan[p].sizes[s]
                /\ guests' = [guests EXCEPT ![ref[p].vmid] = h]
<1>1. PICK s \in NextSlot(plan[p]) :
            /\ Accepts(guests, Resize(ref[p], s, plan[p].sizes[s]))
            /\ guests' = Perform(guests, Resize(ref[p], s, plan[p].sizes[s]))
    BY DEF Done, Calls, Admits
<1> DEFINE c == Resize(ref[p], s, plan[p].sizes[s])
<1>2. /\ c.op = "resize" /\ c.vmid = ref[p].vmid /\ c.node = ref[p].node
      /\ c.slot = s /\ c.size = plan[p].sizes[s]
    BY DEF Resize
<1>3. ref[p] \in GuestRef /\ plan[p] \in Plan
    BY Locals DEF Aimed, Writing
<1>4. c \in ResizeCall
    BY <1>3 DEF Resize, ResizeCall, GuestRef, Plan, NextSlot
<1>5. /\ guests[ref[p].vmid] \in Guest /\ guests[ref[p].vmid].disks[s] # None
      /\ guests[ref[p].vmid].disks[s].size <= plan[p].sizes[s]
    BY <1>1, <1>2, <1>3 DEF Accepts, Reaches, IInv, Cluster, GuestRef
<1>6. Resized(guests[ref[p].vmid], c) \in Guest
    BY <1>2, <1>4, <1>5, ResizedType
<1>7. QED
    BY <1>1, <1>2, <1>3, <1>5, <1>6, DoneKeeps DEF Perform

LEMMA SwitchDone ==
    ASSUME IInv, NEW p \in Procs, pc[p] = "power", Done(p)
    PROVE  LET g == guests[ref[p].vmid]
               h == [g EXCEPT !.power = IF plan[p].power = "start"
                                        THEN "running" ELSE "stopped"]
           IN  /\ ref[p] \in GuestRef /\ plan[p].power \in {"start", "stop"}
               /\ guests' \in Cluster /\ g \in Guest /\ h \in Guest
               /\ guests' = [guests EXCEPT ![ref[p].vmid] = h]
<1> DEFINE c == Switch(ref[p], plan[p].power)
<1>1. Accepts(guests, c) /\ guests' = Perform(guests, c)
    BY DEF Done, Calls, Admits
<1>2. ref[p] \in GuestRef /\ plan[p].power \in {"start", "stop"}
    BY Locals DEF Aimed, Writing, Plan, IInv, LocalsOK, Fits
<1>3. c.op = plan[p].power /\ c.vmid = ref[p].vmid /\ c.node = ref[p].node
    BY DEF Switch
<1>4. guests[ref[p].vmid] \in Guest
    BY <1>1, <1>2, <1>3 DEF Accepts, Reaches, IInv, Cluster, GuestRef
<1>5. guests' = [guests EXCEPT ![ref[p].vmid] = Powered(guests[ref[p].vmid], c)]
    BY <1>1, <1>2, <1>3 DEF Perform
<1>6. QED
    BY <1>2, <1>3, <1>4, <1>5, DoneKeeps DEF Powered, Guest

-----------------------------------------------------------------------------
(***************************************************************************)
(* Where a run stands, step by step.                                       *)
(***************************************************************************)
LEMMA NotFoundLocates ==
    ASSUME IInv, NEW p \in Procs, pc[p] # "idle", UNCHANGED guests,
           Valid(manifest[p]), Absent(guests, manifest[p]), NotFound(p)
    PROVE  LocatedNext(p)
<1> DEFINE m == manifest[p]
           target == [vmid |-> m.vmid, node |-> m.node]
<1>1. mode[p] \in {"apply", "server", "diff"} /\ m \in Manifest
    BY Locals, ModesAssumption
<1>2. CASE mode[p] \in {"diff", "server"}
    BY <1>2, FinishKnows DEF NotFound, KnowsNext
<1>3. CASE mode[p] = "apply" /\ m.vmid = None
    <2>1. Continue(p, "nextid", None, NoPlan)
        BY <1>3 DEF NotFound
    <2>2. Located(guests', "nextid", m, mode[p], None)
        BY <1>3 DEF Located, Standing
    <2>3. QED
        BY <2>1, <2>2, ContinueKnows
<1>4. CASE mode[p] = "apply" /\ m.vmid # None
    <2> DEFINE label == IF m.clone = None THEN "create" ELSE "findsource"
    <2>1. Continue(p, label, target, NoPlan)
        BY <1>4 DEF NotFound
    <2>2. Located(guests', label, m, mode[p], target)
        BY <1>4 DEF Located, Standing, Free, Absent
    <2>3. QED
        BY <2>1, <2>2, ContinueKnows
<1>5. QED
    BY <1>1, <1>2, <1>3, <1>4

LEMMA FoundLocates ==
    ASSUME IInv, NEW p \in Procs, pc[p] # "idle", UNCHANGED guests,
           Valid(manifest[p]),
           NEW v \in VMIDs, guests[v] # None, Targets(guests, manifest[p]) = {v},
           Found(p, v)
    PROVE  LocatedNext(p)
<1> DEFINE m == manifest[p]
           target == [vmid |-> v, node |-> guests[v].node]
<1>1. CASE \E outcome : Finish(p, outcome)
    BY <1>1, FinishKnows DEF KnowsNext
<1>2. CASE ~\E outcome : Finish(p, outcome)
    <2>1. PICK label \in {"config", "summary"} : Continue(p, label, target, NoPlan)
        BY <1>2 DEF Found
    <2>2. guests[v].type = "qemu" /\ (mode[p] # "diff" => m.node = guests[v].node)
        BY <1>2 DEF Found
    <2>3. Located(guests', label, m, mode[p], target)
        BY <2>1, <2>2 DEF Located, Standing, Stands, Reaches
    <2>4. QED
        BY <2>1, <2>3, ContinueKnows
<1>3. QED
    BY <1>1, <1>2

LEMMA ResolveLocates ==
    ASSUME IInv, NEW p \in Procs, Located(guests, pc[p], manifest[p], mode[p], ref[p]),
           Resolve(p) \/ CheckName(p)
    PROVE  LocatedNext(p)
<1> DEFINE m == manifest[p]
<1>1. /\ pc[p] \in {"resolve", "checkname"} /\ UNCHANGED guests
      /\ m \in Manifest /\ Valid(m) /\ guests \in Cluster
    BY Locals DEF Resolve, CheckName, Reads, Located, IInv
<1>2. CASE CheckName(p)
    <2>1. CASE Named(guests, m.name) = {}
        <3>1. Absent(guests, m) /\ NotFound(p)
            BY <1>2, <2>1 DEF CheckName, Located, Reads, Absent
        <3>2. QED
            BY <1>1, <3>1, NotFoundLocates
    <2>2. CASE Named(guests, m.name) # {}
        BY <1>2, <2>2, FinishKnows DEF CheckName, KnowsNext
    <2>3. QED
        BY <2>1, <2>2
<1>3. CASE Resolve(p) /\ m.vmid # None
    <2>1. m.vmid \in VMIDs
        BY <1>1, <1>3 DEF Manifest
    <2>2. CASE guests[m.vmid] # None
        <3>1. Found(p, m.vmid) /\ Targets(guests, m) = {m.vmid}
            BY <1>3, <2>2 DEF Resolve, Targets
        <3>2. QED
            BY <1>1, <2>1, <2>2, <3>1, FoundLocates
    <2>3. CASE guests[m.vmid] = None
        <3>1. Continue(p, "checkname", None, NoPlan)
            BY <1>3, <2>3 DEF Resolve
        <3>2. Located(guests', "checkname", m, mode[p], None)
            BY <1>1, <1>3, <2>3 DEF Located, Standing
        <3>3. QED
            BY <3>1, <3>2, ContinueKnows
    <2>4. QED
        BY <2>2, <2>3
<1>4. CASE Resolve(p) /\ m.vmid = None
    <2> DEFINE found == Named(guests, m.name)
    <2>1. CASE found = {}
        <3>1. NotFound(p) /\ Absent(guests, m)
            BY <1>4, <2>1 DEF Resolve, Absent
        <3>2. QED
            BY <1>1, <3>1, NotFoundLocates
    <2>2. CASE \E v \in found : found = {v}
        <3>1. PICK v \in found : found = {v}
            BY <2>2
        <3>2. v \in VMIDs /\ guests[v] # None /\ Targets(guests, m) = {v}
            BY <1>4, <3>1 DEF Named, Targets
        <3>3. \E w \in found : Found(p, w)
            BY <1>4, <3>1 DEF Resolve
        <3>4. Found(p, v)
            BY <3>1, <3>3
        <3>5. QED
            BY <1>1, <3>2, <3>4, FoundLocates
    <2>3. CASE found # {} /\ ~\E v \in found : found = {v}
        <3>1. Finish(p, "failed")
            BY <1>4, <2>3 DEF Resolve
        <3>2. QED
            BY <3>1, FinishKnows DEF KnowsNext
    <2>4. QED
        BY <2>1, <2>2, <2>3
<1>5. QED
    BY <1>2, <1>3, <1>4

LEMMA PreparingLocates ==
    ASSUME IInv, tasks = {}, NEW p \in Procs,
           Located(guests, pc[p], manifest[p], mode[p], ref[p]),
           NextID(p) \/ NoNextID(p) \/ FindSource(p)
    PROVE  LocatedNext(p)
<1> DEFINE m == manifest[p]
<1>1. CASE NoNextID(p)
    BY <1>1, FinishKnows DEF NoNextID, KnowsNext
<1>2. CASE NextID(p)
    <2> DEFINE label == IF m.clone = None THEN "create" ELSE "findsource"
    <2>1. PICK v \in VMIDs : /\ guests[v] = None
                             /\ Continue(p, label, [vmid |-> v, node |-> m.node], NoPlan)
        BY <1>2 DEF NextID
    <2>2. m.vmid = None /\ Absent(guests, m) /\ Valid(m) /\ UNCHANGED guests
        BY <1>2 DEF NextID, Reads, Located
    <2>3. Located(guests', label, m, mode[p], [vmid |-> v, node |-> m.node])
        BY <2>1, <2>2 DEF Located, Standing, Free
    <2>4. QED
        BY <2>1, <2>3, ContinueKnows
<1>3. CASE FindSource(p)
    <2>1. CASE Finish(p, "failed")
        BY <2>1, FinishKnows DEF KnowsNext
    <2>2. CASE ~Finish(p, "failed")
        <3>1. /\ pc[p] = "findsource" /\ UNCHANGED guests
              /\ Goto(p, "clone") /\ UNCHANGED <<manifest, mode, ref, plan, result>>
            BY <1>3, <2>2 DEF FindSource, Reads
        <3>2. pc'[p] = "clone"
            BY <3>1 DEF Goto, IInv, LocalsOK
        <3>3. QED
            BY <3>1, <3>2 DEF LocatedNext, Located, Standing
    <2>3. QED
        BY <2>1, <2>2
<1>4. QED
    BY <1>1, <1>2, <1>3

\* The guest that comes into being is the only one of its name.
LEMMA NewGuest ==
    ASSUME IInv, NEW p \in Procs, Located(guests, pc[p], manifest[p], mode[p], ref[p]),
           Done(p), pc[p] \in {"create", "clone"}
    PROVE  /\ Stands(guests', ref[p], manifest[p]) /\ ref[p].node = manifest[p].node
           /\ guests'[ref[p].vmid].config["name"] = manifest[p].name
           /\ Named(guests', manifest[p].name) = {ref[p].vmid}
           /\ \A v \in VMIDs \ {ref[p].vmid} : guests'[v] = guests[v]
<1> DEFINE m == manifest[p]
<1>1. m \in Manifest /\ guests \in Cluster /\ Free(guests, ref[p], m) /\ ref[p] \in GuestRef
    BY Locals DEF IInv, Located, Aimed, Writing
<1>2. m.name # None /\ "name" \in Keys
    BY <1>1, NoneAssumption DEF Manifest, Scalar, Keys, OwnKeys
<1>3. PICK h \in Guest : /\ h.type = "qemu" /\ h.node = m.node /\ h.config["name"] = m.name
                         /\ guests' = [guests EXCEPT ![ref[p].vmid] = h]
    <2>1. CASE pc[p] = "create"
        <3> DEFINE h == Created(Creation(m, ref[p].vmid))
        <3>1. h.type = "qemu" /\ h.node = m.node /\ h.config["name"] = m.name
            BY <1>2 DEF Created, Creation, Config
        <3>2. QED
            BY <2>1, <3>1, CreateDone
    <2>2. CASE pc[p] = "clone"
        <3> DEFINE g == guests[source[p].vmid]
                   c == Cloning(m, ref[p].vmid, source[p])
                   h == Cloned(g, c)
        <3>1. g \in Guest /\ g.type = "qemu"
            BY <2>2, CloneDone DEF Reaches
        <3>2. /\ c.node = m.node /\ c.config["name"] = m.name
            BY <1>2 DEF Cloning, CloneConfig, Config
        <3>3. h.type = "qemu" /\ h.node = m.node /\ h.config["name"] = m.name
            BY <1>2, <3>1, <3>2 DEF Cloned, Guest, Overlay
        <3>4. c \in CloneCall
            <4>1. c \in Calls(p) /\ c.op = "clone"
                BY <2>2 DEF Calls, Cloning
            <4>2. QED
                BY <4>1, CallsLicensed
                   DEF Call, CreateCall, CloneCall, UpdateCall, ResizeCall, PowerCall
        <3>5. h \in Guest
            BY <3>1, <3>4, ClonedType
        <3>6. QED
            BY <2>2, <3>3, <3>5, CloneDone
    <2>3. QED
        BY <2>1, <2>2
<1>4. Stands(guests', ref[p], m)
    BY <1>1, <1>3, NewStands
<1>5. /\ guests'[ref[p].vmid] = h /\ h # None
      /\ \A v \in VMIDs \ {ref[p].vmid} : guests'[v] = guests[v]
    BY <1>1, <1>3, NoGuestAssumption DEF Cluster, GuestRef
<1>6. Named(guests', m.name) = {ref[p].vmid}
    BY <1>1, <1>3, <1>5 DEF Named, Free, Absent, GuestRef
<1>7. QED
    BY <1>1, <1>3, <1>4, <1>5, <1>6 DEF Free

LEMMA SettleLocates ==
    ASSUME IInv, NEW p \in Procs, Valid(manifest[p]),
           Stands(guests', ref[p], manifest[p]), ref[p].node = manifest[p].node,
           Settle(p)
    PROVE  LocatedNext(p)
<1>1. CASE WantsPower(manifest[p])
    <2>1. Continue(p, "readpower", ref[p], NoPlan)
        BY <1>1 DEF Settle
    <2>2. Located(guests', "readpower", manifest[p], mode[p], ref[p])
        BY DEF Located, Standing
    <2>3. QED
        BY <2>1, <2>2, ContinueKnows
<1>2. CASE ~WantsPower(manifest[p])
    BY <1>2, FinishKnows DEF Settle, KnowsNext
<1>3. QED
    BY <1>1, <1>2

LEMMA ProceedLocates ==
    ASSUME IInv, NEW p \in Procs, NEW todo, Valid(manifest[p]),
           Stands(guests', ref[p], manifest[p]), ref[p].node = manifest[p].node,
           Proceed(p, ref[p], todo)
    PROVE  LocatedNext(p)
<1>1. CASE NextCall(todo) = "idle"
    BY <1>1, FinishKnows DEF Proceed, KnowsNext
<1>2. CASE NextCall(todo) # "idle"
    <2>1. Continue(p, NextCall(todo), ref[p], todo)
        BY <1>2 DEF Proceed
    <2>2. Located(guests', NextCall(todo), manifest[p], mode[p], ref[p])
        BY <1>2 DEF Located, Standing, NextCall
    <2>3. QED
        BY <2>1, <2>2, ContinueKnows
<1>3. QED
    BY <1>1, <1>2

\* A call to the guest the run resolved leaves it the one the manifest is about.
LEMMA WrittenStands ==
    ASSUME IInv, NEW p \in Procs, Located(guests, pc[p], manifest[p], mode[p], ref[p]),
           Done(p), pc[p] \in {"postclone", "update", "resize", "power"}
    PROVE  /\ Stands(guests', ref[p], manifest[p]) /\ ref[p].node = manifest[p].node
           /\ ref[p] \in GuestRef /\ guests \in Cluster /\ guests' \in Cluster
           /\ Valid(manifest[p]) /\ mode[p] = "apply"
<1> DEFINE m == manifest[p]
           g == guests[ref[p].vmid]
<1>1. /\ m \in Manifest /\ guests \in Cluster /\ guests' \in Cluster /\ ref[p] \in GuestRef
      /\ plan[p] \in Plan /\ DeclaredPlan(plan[p], m) /\ mode[p] = "apply"
    BY Locals, DoneKeeps DEF IInv, Aimed, Creating, Writing
<1>2. Stands(guests, ref[p], m) /\ ref[p].node = m.node /\ Valid(m)
    BY <1>1 DEF Located, Standing
<1>3. CASE pc[p] \in {"postclone", "update"}
    <2>1. PICK config \in Params, disks \in DiskWrites :
            /\ Calls(p) = {Update(ref[p], config, disks)}
            /\ config["name"] \in {None, m.name}
        <3>1. Config(m) \in Params /\ NoWrites \in DiskWrites /\ "name" \in Keys
            BY <1>1, ConfigType, AllocationsType DEF Keys, OwnKeys
        <3>2. Config(m)["name"] = m.name
            BY <3>1 DEF Config
        <3>3. /\ plan[p].config \in Params /\ plan[p].disks \in DiskWrites
              /\ plan[p].config["name"] \in {None, m.name}
            BY <1>1, <3>1, <3>2 DEF Plan, DeclaredPlan, DeclaredKeys
        <3>4. QED
            BY <1>3, <3>1, <3>2, <3>3 DEF Calls
    <2> DEFINE h == Updated(g, Update(ref[p], config, disks))
    <2>2. g \in Guest /\ h \in Guest /\ guests' = [guests EXCEPT ![ref[p].vmid] = h]
        BY <1>1, <2>1, UpdateDone
    <2>3. /\ h.type = g.type /\ h.node = g.node
          /\ h.config["name"] \in {g.config["name"], m.name}
        BY <2>1, <2>2 DEF Updated, Update, Overlay, Guest, Keys, OwnKeys
    <2>4. Stands(guests', ref[p], m)
        BY <1>1, <1>2, <2>2, <2>3, OverlaidName
    <2>5. QED
        BY <1>1, <1>2, <2>4
<1>4. CASE pc[p] = "resize"
    <2>1. PICK s \in NextSlot(plan[p]) :
            LET h == Resized(g, Resize(ref[p], s, plan[p].sizes[s]))
            IN  /\ g \in Guest /\ h \in Guest
                /\ guests' = [guests EXCEPT ![ref[p].vmid] = h]
        BY <1>4, ResizeDone
    <2> DEFINE h == Resized(g, Resize(ref[p], s, plan[p].sizes[s]))
    <2>2. h.type = g.type /\ h.node = g.node /\ h.config = g.config
        BY <2>1 DEF Resized, Guest
    <2>3. Stands(guests', ref[p], m)
        BY <1>1, <1>2, <2>1, <2>2, StillStands
    <2>4. QED
        BY <1>1, <1>2, <2>3
<1>5. CASE pc[p] = "power"
    <2> DEFINE h == [g EXCEPT !.power = IF plan[p].power = "start"
                                        THEN "running" ELSE "stopped"]
    <2>1. g \in Guest /\ h \in Guest /\ guests' = [guests EXCEPT ![ref[p].vmid] = h]
        BY <1>5, SwitchDone
    <2>2. h.type = g.type /\ h.node = g.node /\ h.config = g.config
        BY <2>1 DEF Guest
    <2>3. Stands(guests', ref[p], m)
        BY <1>1, <1>2, <2>1, <2>2, StillStands
    <2>4. QED
        BY <1>1, <1>2, <2>3
<1>6. QED
    BY <1>3, <1>4, <1>5

LEMMA WritingLocates ==
    ASSUME IInv, NEW p \in Procs, Located(guests, pc[p], manifest[p], mode[p], ref[p]),
           \/ Create(p) \/ Clone(p) \/ PostClone(p)
           \/ UpdateConfig(p) \/ ResizeDisk(p) \/ SwitchPower(p)
    PROVE  LocatedNext(p)
<1> DEFINE m == manifest[p]
<1>1. Done(p) /\ Valid(m)
    BY DEF Create, Clone, PostClone, UpdateConfig, ResizeDisk, SwitchPower, Located
<1>2. Stands(guests', ref[p], m) /\ ref[p].node = m.node
    BY <1>1, NewGuest, WrittenStands
       DEF Create, Clone, PostClone, UpdateConfig, ResizeDisk, SwitchPower
<1>3. CASE Create(p) \/ PostClone(p)
    BY <1>1, <1>2, <1>3, SettleLocates DEF Create, PostClone
<1>4. CASE Clone(p)
    <2>1. Continue(p, "postclone", ref[p], NoPlan) /\ m.clone # None
        BY <1>4 DEF Clone, Located
    <2>2. Located(guests', "postclone", m, mode[p], ref[p])
        BY <1>1, <1>2, <2>1 DEF Located, Standing
    <2>3. QED
        BY <2>1, <2>2, ContinueKnows
<1>5. CASE UpdateConfig(p) \/ ResizeDisk(p)
    BY <1>1, <1>2, <1>5, ProceedLocates DEF UpdateConfig, ResizeDisk
<1>6. CASE SwitchPower(p)
    BY <1>6, FinishKnows DEF SwitchPower, KnowsNext
<1>7. QED
    BY <1>3, <1>4, <1>5, <1>6

LEMMA ReadingLocates ==
    ASSUME IInv, NEW p \in Procs, Located(guests, pc[p], manifest[p], mode[p], ref[p]),
           ReadPower(p) \/ ReadSummary(p) \/ ReadConfig(p)
    PROVE  LocatedNext(p)
<1> DEFINE m == manifest[p]
<1>1. /\ pc[p] \in Standing /\ UNCHANGED guests /\ m \in Manifest
      /\ mode[p] \in {"apply", "server", "diff"}
    BY Locals, ModesAssumption
       DEF ReadPower, ReadSummary, ReadConfig, Reads, Standing
<1>2. Valid(m) /\ Stands(guests', ref[p], m) /\ (mode[p] # "diff" => ref[p].node = m.node)
    BY <1>1 DEF Located, Standing
<1>3. CASE \E outcome : Finish(p, outcome)
    BY <1>3, FinishKnows DEF KnowsNext
<1>4. CASE ~\E outcome : Finish(p, outcome)
    <2>1. CASE ReadPower(p)
        <3>1. mode[p] = "apply"
            BY <2>1, Locals DEF ReadPower, Reads, Creating
        <3>2. \E todo : Proceed(p, ref[p], todo)
            BY <1>4, <2>1 DEF ReadPower
        <3>3. QED
            BY <1>2, <3>1, <3>2, ProceedLocates
    <2>2. CASE ReadSummary(p)
        <3>1. \E todo : Continue(p, "config", ref[p], todo)
            BY <1>4, <2>2 DEF ReadSummary
        <3>2. Located(guests', "config", m, mode[p], ref[p])
            BY <1>2 DEF Located, Standing
        <3>3. QED
            BY <3>1, <3>2, ContinueKnows
    <2>3. CASE ReadConfig(p)
        <3>1. mode[p] = "apply" /\ \E todo : Proceed(p, ref[p], todo)
            BY <1>1, <1>4, <2>3 DEF ReadConfig, Decide
        <3>2. QED
            BY <1>2, <3>1, ProceedLocates
    <2>4. QED
        BY <2>1, <2>2, <2>3
<1>5. QED
    BY <1>3, <1>4

LEMMA StartLocates ==
    ASSUME IInv, NEW p \in Procs, Start(p)
    PROVE  LocatedNext(p)
<1>1. PICK m \in Manifests, md \in Modes : Begin(p, m, md) \/ Reject(p, m, md)
    BY DEF Start
<1>2. /\ pc[p] = "idle" /\ manifest'[p] = m
      /\ \/ pc'[p] = "idle"
         \/ pc'[p] = "resolve" /\ Valid(m)
    BY <1>1 DEF Begin, Reject, Goto, IInv, LocalsOK
<1>3. QED
    BY <1>2 DEF LocatedNext, Located, Standing

LEMMA StepLocates ==
    ASSUME IInv, tasks = {}, NEW p \in Procs,
           Located(guests, pc[p], manifest[p], mode[p], ref[p]),
           Start(p) \/ Step(p) \/ Fail(p)
    PROVE  LocatedNext(p)
<1>1. CASE Refused(p) \/ Fail(p)
    BY <1>1, FinishKnows DEF Refused, Fail, KnowsNext
<1>2. QED
    BY <1>1, StartLocates, ResolveLocates, PreparingLocates, WritingLocates,
       ReadingLocates DEF Step

-----------------------------------------------------------------------------
\* No task is left running, and the one run knows where it stands.
Alone ==
    /\ tasks = {}
    /\ moves = 0 =>
        \A p \in Procs : Located(guests, pc[p], manifest[p], mode[p], ref[p])

\* While nobody else works on the cluster, the one process takes every step.
LEMMA OneSteps ==
    ASSUME OneAtATime, IInv, tasks = {}, Next
    PROVE  \/ \E v \in VMIDs : Operator(v) /\ moves' # 0
           \/ \E p \in Procs : Procs = {p} /\ (Start(p) \/ Step(p) \/ Fail(p))
<1>1. ASSUME NEW p \in Procs PROVE ~TimeOut(p)
    BY DEF TimeOut, OneAtATime, IInv, BudgetsOK
<1>2. ASSUME NEW v \in VMIDs, Operator(v) PROVE moves' # 0
    BY <1>2 DEF Operator, IInv, BudgetsOK
<1>3. \A p \in Procs : Procs = {p}
    BY DEF OneAtATime
<1>4. QED
    BY <1>1, <1>2, <1>3 DEF Next

LEMMA NoTasksStay ==
    ASSUME IInv, tasks = {}, NEW p \in Procs, Start(p) \/ Step(p) \/ Fail(p)
    PROVE  tasks' = {} /\ moves' = moves
BY DEF Start, Begin, Reject, Step, Resolve, CheckName, NextID, NoNextID, Create,
       FindSource, Clone, PostClone, ReadPower, ReadSummary, ReadConfig, UpdateConfig,
       ResizeDisk, SwitchPower, Refused, Fail, Done, Reads, budgets

LEMMA AloneStays ==
    ASSUME OneAtATime
    PROVE  Spec => []Alone
<1>1. Init => Alone
    <2> SUFFICES ASSUME Init PROVE Alone
        OBVIOUS
    <2>1. ASSUME NEW p \in Procs
          PROVE  Located(guests, pc[p], manifest[p], mode[p], ref[p])
        BY DEF Init, Located, Standing
    <2>2. QED
        BY <2>1 DEF Init, Alone
<1>2. IInv /\ Alone /\ [Next]_vars => Alone'
    <2> SUFFICES ASSUME IInv, Alone, [Next]_vars PROVE Alone'
        OBVIOUS
    <2>1. CASE UNCHANGED vars
        BY <2>1 DEF vars, locals, budgets, Alone, Located
    <2>2. ASSUME NEW v \in VMIDs, Operator(v), moves' # 0
          PROVE  Alone'
        BY <2>2 DEF Alone, Operator
    <2>3. ASSUME NEW p \in Procs, Procs = {p}, Start(p) \/ Step(p) \/ Fail(p)
          PROVE  Alone'
        <3>1. tasks' = {} /\ moves' = moves
            BY <2>3, NoTasksStay DEF Alone
        <3>2. moves = 0 => LocatedNext(p)
            BY <2>3, StepLocates DEF Alone
        <3>3. QED
            BY <2>3, <3>1, <3>2 DEF Alone, LocatedNext
    <2>4. QED
        BY <2>1, <2>2, <2>3, OneSteps DEF Alone
<1>3. QED
    BY <1>1, <1>2, Invariance, PTL DEF Spec

(***************************************************************************)
(* One run at a time, and as long as nobody else works on the cluster: the *)
(* guest a run brings into being has a name no other guest has, whatever   *)
(* the manifests and the cluster they meet.                                *)
(***************************************************************************)
THEOREM DuplicatesAreNeverMade ==
    ASSUME OneAtATime
    PROVE  Spec => NeverDuplicates
<1> DEFINE Made == moves' = 0 => \A v \in VMIDs : guests[v] = None /\ guests'[v] # None =>
                       Named(guests', guests'[v].config["name"]) = {v}
<1>1. IInv /\ Alone /\ [Next]_vars => [Made]_vars
    <2> SUFFICES ASSUME IInv, Alone, Next, moves' = 0,
                        NEW v \in VMIDs, guests[v] = None, guests'[v] # None
                 PROVE  Named(guests', guests'[v].config["name"]) = {v}
        OBVIOUS
    <2>1. PICK p \in Procs : Procs = {p} /\ (Start(p) \/ Step(p) \/ Fail(p))
        BY OneSteps DEF Alone
    <2>2. moves = 0 /\ Located(guests, pc[p], manifest[p], mode[p], ref[p])
        BY <2>1, NoTasksStay DEF Alone
    <2>3. guests' # guests
        OBVIOUS
    <2>4. Done(p)
        BY <2>1, <2>3
           DEF Start, Begin, Reject, Step, Resolve, CheckName, NextID, NoNextID, Create,
               FindSource, Clone, PostClone, ReadPower, ReadSummary, ReadConfig,
               UpdateConfig, ResizeDisk, SwitchPower, Refused, Fail, Reads
    <2>5. CASE pc[p] \in {"create", "clone"}
        <3>1. /\ guests'[ref[p].vmid].config["name"] = manifest[p].name
              /\ Named(guests', manifest[p].name) = {ref[p].vmid}
              /\ \A w \in VMIDs \ {ref[p].vmid} : guests'[w] = guests[w]
            BY <2>2, <2>4, <2>5, NewGuest
        <3>2. v = ref[p].vmid
            BY <3>1
        <3>3. QED
            BY <3>1, <3>2
    <2>6. CASE pc[p] \in {"postclone", "update", "resize", "power"}
        <3>1. /\ Stands(guests, ref[p], manifest[p]) /\ ref[p] \in GuestRef
              /\ guests \in Cluster
            BY <2>2, <2>4, <2>6, WrittenStands DEF Located, Standing
        <3>2. guests[ref[p].vmid] # None
            BY <3>1 DEF Stands, Reaches
        <3>3. \A w \in VMIDs \ {ref[p].vmid} : guests'[w] = guests[w]
            BY <2>4, <2>6, <3>1
               DEF Done, Calls, Perform, Update, Resize, Switch, Cluster, GuestRef
        <3>4. QED
            BY <3>2, <3>3
    <2>7. QED
        BY <2>4, <2>5, <2>6 DEF Done, Calls
<1>2. QED
    BY <1>1, AloneStays, Invariance, PTL DEF Spec, NeverDuplicates

-----------------------------------------------------------------------------
(***************************************************************************)
(* What a run knows of its guest, and that success finds the manifest met. *)
(***************************************************************************)
Ready(p) == Knows(guests, pc[p], manifest[p], mode[p], ref[p], plan[p])

Arrives(p) ==
    CreatesInFull /\ Succeeds(p) => Converged(guests', manifest[p])

LEMMA FinishArrives ==
    ASSUME IInv, NEW p \in Procs, NEW outcome, Finish(p, outcome),
           \/ mode[p] # "apply" \/ outcome \notin Successes
           \/ CreatesInFull => Converged(guests', manifest[p])
    PROVE  MatchedNext(p) /\ Arrives(p)
BY FinishKnows DEF KnowsNext, Arrives, Succeeds

LEMMA ContinueArrives ==
    ASSUME IInv, NEW p \in Procs, NEW label, label # "idle", NEW target, NEW todo,
           Continue(p, label, target, todo),
           Matched(guests', label, manifest[p], mode[p], target, todo)
    PROVE  MatchedNext(p) /\ Arrives(p)
BY ContinueKnows DEF Arrives, Succeeds, Ends

LEMMA ProceedArrives ==
    ASSUME IInv, NEW p \in Procs, guests' \in Cluster, ref[p] \in GuestRef,
           Valid(manifest[p]), Stands(guests', ref[p], manifest[p]),
           ref[p].node = manifest[p].node,
           NEW todo \in Plan, Awaits(guests'[ref[p].vmid], manifest[p], todo),
           Proceed(p, ref[p], todo)
    PROVE  MatchedNext(p) /\ Arrives(p)
BY ProceedKnows DEF KnowsNext, Arrives, Succeeds, Ends

LEMMA SettleArrives ==
    ASSUME IInv, NEW p \in Procs, guests' \in Cluster, ref[p] \in GuestRef,
           Stands(guests', ref[p], manifest[p]), ref[p].node = manifest[p].node,
           PoolHolds(guests'[ref[p].vmid], manifest[p]),
           Settled(guests'[ref[p].vmid], manifest[p]),
           Settle(p)
    PROVE  MatchedNext(p) /\ Arrives(p)
<1> DEFINE m == manifest[p]
<1>1. CASE WantsPower(m)
    <2>1. Continue(p, "readpower", ref[p], NoPlan)
        BY <1>1 DEF Settle
    <2>2. Matched(guests', "readpower", m, mode[p], ref[p], NoPlan)
        BY DEF Matched
    <2>3. QED
        BY <2>1, <2>2, ContinueArrives
<1>2. CASE ~WantsPower(m)
    <2>1. Finish(p, "created")
        BY <1>2 DEF Settle
    <2>2. PlannedPower(m, guests'[ref[p].vmid].power) = "none"
        BY <1>2 DEF WantsPower, PlannedPower
    <2>3. CreatesInFull => Converged(guests', m)
        BY <2>2, Locals, SettledConverges DEF Settled
    <2>4. QED
        BY <2>1, <2>3, FinishArrives
<1>3. QED
    BY <1>1, <1>2

LEMMA NotFoundArrives ==
    ASSUME IInv, NEW p \in Procs, pc[p] # "idle", NotFound(p)
    PROVE  MatchedNext(p) /\ Arrives(p)
<1> DEFINE m == manifest[p]
           label == IF m.clone = None THEN "create" ELSE "findsource"
           target == [vmid |-> m.vmid, node |-> m.node]
<1>1. CASE mode[p] = "diff"
    BY <1>1, FinishArrives DEF NotFound
<1>2. CASE mode[p] = "server"
    <2>1. Finish(p, "created")
        BY <1>2 DEF NotFound
    <2>2. QED
        BY <1>2, <2>1, FinishArrives
<1>3. CASE mode[p] \notin {"diff", "server"}
    <2>1. \/ Continue(p, "nextid", None, NoPlan)
          \/ Continue(p, label, target, NoPlan)
        BY <1>3 DEF NotFound
    <2>2. /\ Matched(guests', "nextid", m, mode[p], None, NoPlan)
          /\ Matched(guests', label, m, mode[p], target, NoPlan)
        BY DEF Matched
    <2>3. QED
        BY <2>1, <2>2, ContinueArrives
<1>4. QED
    BY <1>1, <1>2, <1>3

\* Straight to the config only when pool and power have no say.
LEMMA FoundArrives ==
    ASSUME IInv, NEW p \in Procs, pc[p] # "idle", UNCHANGED guests,
           NEW v \in VMIDs, guests[v] # None, Found(p, v)
    PROVE  MatchedNext(p) /\ Arrives(p)
<1> DEFINE m == manifest[p]
           target == [vmid |-> v, node |-> guests[v].node]
<1>1. CASE Finish(p, "failed")
    BY <1>1, FinishArrives DEF Successes
<1>2. CASE ~Finish(p, "failed")
    <2>1. PICK label \in {"config", "summary"} :
            /\ Continue(p, label, target, NoPlan)
            /\ label = "config" /\ mode[p] # "diff" => m.pool = None /\ ~WantsPower(m)
        BY <1>2 DEF Found
    <2>2. Matched(guests', label, m, mode[p], target, NoPlan)
        BY <2>1 DEF Matched, PoolMoved, NoPlan, WantsPower, PlannedPower
    <2>3. QED
        BY <2>1, <2>2, ContinueArrives
<1>3. QED
    BY <1>1, <1>2

LEMMA ResolveArrives ==
    ASSUME IInv, NEW p \in Procs, Ready(p), Resolve(p) \/ CheckName(p)
    PROVE  MatchedNext(p) /\ Arrives(p)
<1> DEFINE m == manifest[p]
           found == Named(guests, m.name)
<1>1. /\ pc[p] \in {"resolve", "checkname"} /\ UNCHANGED guests /\ m \in Manifest
    BY Locals DEF Resolve, CheckName, Reads
<1>2. CASE Finish(p, "failed")
    BY <1>2, FinishArrives DEF Successes
<1>3. CASE NotFound(p)
    BY <1>1, <1>3, NotFoundArrives
<1>4. CASE Continue(p, "checkname", None, NoPlan)
    <2>1. Matched(guests', "checkname", m, mode[p], None, NoPlan)
        BY DEF Matched
    <2>2. QED
        BY <1>4, <2>1, ContinueArrives
<1>5. CASE \E v \in VMIDs : guests[v] # None /\ Found(p, v)
    BY <1>1, <1>5, FoundArrives
<1>6. CASE CheckName(p)
    BY <1>2, <1>3, <1>6 DEF CheckName
<1>7. CASE Resolve(p) /\ m.vmid # None
    BY <1>1, <1>4, <1>5, <1>7 DEF Resolve, Manifest
<1>8. CASE Resolve(p) /\ m.vmid = None
    <2>1. \/ NotFound(p) \/ Finish(p, "failed") \/ \E v \in found : Found(p, v)
        BY <1>8 DEF Resolve
    <2>2. QED
        BY <1>2, <1>3, <1>5, <2>1 DEF Named
<1>9. QED
    BY <1>6, <1>7, <1>8

LEMMA PreparingArrives ==
    ASSUME IInv, NEW p \in Procs, NextID(p) \/ NoNextID(p) \/ FindSource(p)
    PROVE  MatchedNext(p) /\ Arrives(p)
<1>1. CASE Finish(p, "failed")
    BY <1>1, FinishArrives DEF Successes
<1>2. CASE NextID(p)
    <2> DEFINE label == IF manifest[p].clone = None THEN "create" ELSE "findsource"
    <2>1. PICK target : Continue(p, label, target, NoPlan)
        BY <1>2 DEF NextID
    <2>2. Matched(guests', label, manifest[p], mode[p], target, NoPlan)
        BY DEF Matched
    <2>3. QED
        BY <2>1, <2>2, ContinueArrives
<1>3. CASE FindSource(p) /\ Goto(p, "clone")
    <2>1. pc'[p] = "clone"
        BY <1>3 DEF Goto, IInv, LocalsOK
    <2>2. QED
        BY <2>1 DEF MatchedNext, Matched, Arrives, Succeeds, Ends
<1>4. QED
    BY <1>1, <1>2, <1>3 DEF NoNextID, FindSource

\* A guest created from the manifest is in sync with it from the start.
LEMMA CreateArrives ==
    ASSUME IInv, NEW p \in Procs, Ready(p), Create(p)
    PROVE  MatchedNext(p) /\ Arrives(p)
<1> DEFINE m == manifest[p]
           h == Created(Creation(m, ref[p].vmid))
<1>1. pc[p] = "create" /\ Done(p) /\ Settle(p)
    BY DEF Create
<1>2. /\ m.clone = None /\ m \in Manifest
      /\ CreatesInFull => m.pool = None /\ (m.drive # None => m.disks[CloudInitSlot] = None)
    BY <1>1, Locals DEF Ready, Knows, Located, CreatesInFull
<1>3. /\ ref[p] \in GuestRef /\ guests' \in Cluster /\ guests'[ref[p].vmid] = h
    BY <1>1, CreateDone DEF IInv, Cluster, GuestRef
<1>4. h.config = Config(m) /\ h.disks = Written([s \in Slots |-> None], Allocations(m))
    BY DEF Created, Creation
<1>5. ChangedKeys(h, m) = {}
    BY <1>4 DEF ChangedKeys
<1>6. ASSUME CreatesInFull, NEW s \in Slots, m.disks[s] # None
      PROVE  ~DiskDiffers(h.disks[s], m.disks[s])
    <2>1. m.disks[s] \in Disk
        BY <1>2, <1>6 DEF Manifest, Disks
    <2>2. Allocate(m.disks[s]) # None
        BY <2>1, NoDiskAssumption DEF Allocate, Disk, DiskWrite
    <2>3. Allocations(m)[s] = Allocate(m.disks[s])
        BY <1>2, <1>6 DEF Allocations
    <2>4. h.disks[s] = m.disks[s]
        BY <1>4, <2>1, <2>2, <2>3 DEF Written, Stored, Allocate, Disk
    <2>5. QED
        BY <1>6, <2>4 DEF DiskDiffers
<1>7. Settled(h, m) /\ PoolHolds(h, m)
    BY <1>2, <1>5, <1>6 DEF Settled, InSync, ChangedSlots, PoolHolds
<1>8. Stands(guests', ref[p], m) /\ ref[p].node = m.node
    BY <1>1, NewGuest DEF Ready, Knows
<1>9. QED
    BY <1>1, <1>3, <1>7, <1>8, SettleArrives

LEMMA CloneArrives ==
    ASSUME IInv, NEW p \in Procs, Clone(p)
    PROVE  MatchedNext(p) /\ Arrives(p)
<1> DEFINE m == manifest[p]
           c == Cloning(m, ref[p].vmid, source[p])
           h == Cloned(guests[source[p].vmid], c)
<1>1. pc[p] = "clone" /\ Done(p) /\ Continue(p, "postclone", ref[p], NoPlan)
    BY DEF Clone
<1>2. guests'[ref[p].vmid] = h /\ guests[source[p].vmid] \in Guest
    BY <1>1, CloneDone DEF IInv, Cluster, GuestRef
<1>3. h.pool = m.pool
    BY <1>2 DEF Cloned, Cloning, Guest
<1>4. Matched(guests', "postclone", m, mode[p], ref[p], NoPlan)
    BY <1>2, <1>3 DEF Matched
<1>5. QED
    BY <1>1, <1>4, ContinueArrives

\* A clone declares no disks, and its configuration pass writes every key.
LEMMA PostCloneArrives ==
    ASSUME IInv, NEW p \in Procs, Ready(p), PostClone(p)
    PROVE  MatchedNext(p) /\ Arrives(p)
<1> DEFINE m == manifest[p]
           g == guests[ref[p].vmid]
           h == Updated(g, Update(ref[p], Config(m), NoWrites))
<1>1. pc[p] = "postclone" /\ Done(p) /\ Settle(p)
    BY DEF PostClone
<1>2. /\ m \in Manifest /\ Valid(m) /\ m.clone # None /\ g.pool = m.pool
      /\ ref[p] \in GuestRef
    BY <1>1, Locals DEF Ready, Knows, Located, Matched, Aimed, Writing
<1>3. /\ guests' \in Cluster /\ guests'[ref[p].vmid] = h
      /\ g \in Guest /\ Config(m) \in Params
    <2>1. Config(m) \in Params /\ NoWrites \in DiskWrites
        BY <1>2, ConfigType, AllocationsType
    <2>2. Calls(p) = {Update(ref[p], Config(m), NoWrites)}
        BY <1>1 DEF Calls
    <2>3. QED
        BY <1>1, <1>2, <2>1, <2>2, UpdateDone DEF IInv, Cluster, GuestRef
<1>4. h.config = Overlay(g.config, Config(m)) /\ h.pool = g.pool
    BY <1>3 DEF Updated, Update, Guest
<1>5. ChangedKeys(h, m) = {}
    BY <1>3, <1>4 DEF ChangedKeys, Overlay
<1>6. Settled(h, m) /\ PoolHolds(h, m)
    BY <1>2, <1>4, <1>5 DEF Settled, InSync, ChangedSlots, Valid, PoolHolds
<1>7. Stands(guests', ref[p], m) /\ ref[p].node = m.node
    BY <1>1, WrittenStands DEF Ready, Knows
<1>8. QED
    BY <1>1, <1>2, <1>3, <1>6, <1>7, SettleArrives

LEMMA AwaitsInSync ==
    ASSUME NEW g \in Guest, NEW m \in Manifest, InSync(g, m)
    PROVE  AwaitsSizes(g, m, NoWrites)
BY DEF AwaitsSizes, NoWrites, InSync, ChangedSlots, DiskDiffers

LEMMA ReadPowerArrives ==
    ASSUME IInv, NEW p \in Procs, Ready(p), ReadPower(p)
    PROVE  MatchedNext(p) /\ Arrives(p)
<1> DEFINE m == manifest[p]
           g == guests[ref[p].vmid]
           todo == [NoPlan EXCEPT !.power = PlannedPower(m, g.power)]
<1>1. /\ pc[p] = "readpower" /\ UNCHANGED guests /\ mode[p] = "apply"
      /\ m \in Manifest /\ ref[p] \in GuestRef /\ guests \in Cluster
    BY Locals DEF ReadPower, Reads, Aimed, Creating, IInv
<1>2. /\ Valid(m) /\ Stands(guests', ref[p], m) /\ ref[p].node = m.node
      /\ PoolHolds(g, m) /\ Settled(g, m)
    BY <1>1 DEF Ready, Knows, Located, Matched, Standing
<1>3. g \in Guest /\ g # None
    BY <1>1, <1>2, StandingGuest
<1>4. Proceed(p, ref[p], todo)
    BY <1>3 DEF ReadPower
<1>5. todo \in Plan
    BY <1>1, PowerPlanFits
<1>6. Awaits(guests'[ref[p].vmid], m, todo)
    <2>1. /\ todo.config = NoParams /\ todo.disks = NoWrites /\ todo.sizes = NoWrites
          /\ todo.power = PlannedPower(m, g.power)
        BY DEF NoPlan
    <2>2. QED
        BY <1>1, <1>2, <1>3, <2>1, AwaitsInSync DEF Awaits, HasWrites, Settled
<1>7. QED
    BY <1>1, <1>2, <1>4, <1>5, <1>6, ProceedArrives

LEMMA ReadSummaryArrives ==
    ASSUME IInv, NEW p \in Procs, ReadSummary(p)
    PROVE  MatchedNext(p) /\ Arrives(p)
<1> DEFINE m == manifest[p]
           g == guests[ref[p].vmid]
           todo == [NoPlan EXCEPT !.power = PlannedPower(m, g.power)]
<1>1. CASE Finish(p, "failed")
    BY <1>1, FinishArrives DEF Successes
<1>2. CASE ~Finish(p, "failed")
    <2>1. ~PoolMoved(m, g) /\ Continue(p, "config", ref[p], todo) /\ UNCHANGED guests
        BY <1>2 DEF ReadSummary, Reads
    <2>2. Matched(guests', "config", m, mode[p], ref[p], todo)
        BY <2>1 DEF Matched, NoPlan
    <2>3. QED
        BY <2>1, <2>2, ContinueArrives
<1>3. QED
    BY <1>1, <1>2

LEMMA ReadConfigArrives ==
    ASSUME IInv, NEW p \in Procs, Ready(p), ReadConfig(p)
    PROVE  MatchedNext(p) /\ Arrives(p)
<1> DEFINE m == manifest[p]
           g == guests[ref[p].vmid]
<1>1. /\ pc[p] = "config" /\ UNCHANGED guests /\ m \in Manifest /\ ref[p] \in GuestRef
      /\ guests \in Cluster /\ plan[p] \in Plan /\ DeclaredPlan(plan[p], m)
    BY Locals DEF ReadConfig, Reads, Aimed, IInv
<1>2. Valid(m) /\ Stands(guests', ref[p], m) /\ (mode[p] # "diff" => ref[p].node = m.node)
    BY <1>1 DEF Ready, Knows, Located, Standing
<1>3. mode[p] # "diff" => PoolHolds(g, m) /\ plan[p].power = PlannedPower(m, g.power)
    BY <1>1 DEF Ready, Knows, Matched, PoolMoved, PoolHolds
<1>4. g \in Guest
    BY <1>1, <1>2, StandingGuest
<1>5. CASE \E outcome \in {"same", "differs", "failed"} : Finish(p, outcome)
    BY <1>5, FinishArrives DEF Successes
<1>6. CASE Finish(p, "configured") /\ mode[p] = "server"
    BY <1>6, FinishArrives
<1>7. CASE mode[p] # "diff" /\ InSync(g, m) /\ plan[p].power = "none" /\ Finish(p, "unchanged")
    <2>1. CreatesInFull => Converged(guests', m)
        BY <1>1, <1>2, <1>3, <1>7, SettledConverges
    <2>2. QED
        BY <1>7, <2>1, FinishArrives
<1>8. CASE /\ mode[p] # "diff" /\ ~Unplannable(g, m)
           /\ Proceed(p, ref[p], Todo(p, g, m))
    <2>1. Todo(p, g, m) \in Plan
        BY <1>1, <1>4, <1>8, DecidedPlanFits DEF Todo, Plan, DeclaredPlan
    <2>2. Awaits(g, m, Todo(p, g, m))
        BY <1>1, <1>3, <1>4, <1>8, <2>1, PlannedAwaits DEF Todo
    <2>3. QED
        BY <1>1, <1>2, <1>8, <2>1, <2>2, ProceedArrives
<1>9. QED
    BY <1>5, <1>6, <1>7, <1>8 DEF ReadConfig, Decide

LEMMA UpdateArrives ==
    ASSUME IInv, NEW p \in Procs, Ready(p), UpdateConfig(p)
    PROVE  MatchedNext(p) /\ Arrives(p)
<1> DEFINE m == manifest[p]
           g == guests[ref[p].vmid]
           h == Updated(g, Update(ref[p], plan[p].config, plan[p].disks))
           rest == [plan[p] EXCEPT !.config = NoParams, !.disks = NoWrites]
<1>1. pc[p] = "update" /\ Done(p) /\ Proceed(p, ref[p], rest)
    BY DEF UpdateConfig
<1>2. /\ m \in Manifest /\ plan[p] \in Plan /\ DeclaredPlan(plan[p], m)
      /\ ref[p] \in GuestRef /\ guests \in Cluster
    BY <1>1, Locals DEF Aimed, Writing, IInv
<1>3. HasWrites(plan[p]) /\ Awaits(g, m, plan[p])
    BY <1>1 DEF Ready, Knows, Matched, NextCall
<1>4. g \in Guest /\ guests'[ref[p].vmid] = h
    <2>1. plan[p].config \in Params /\ plan[p].disks \in DiskWrites
        BY <1>2 DEF Plan
    <2>2. Calls(p) = {Update(ref[p], plan[p].config, plan[p].disks)}
        BY <1>1 DEF Calls
    <2>3. QED
        BY <1>1, <1>2, <2>1, <2>2, UpdateDone DEF Cluster, GuestRef
<1>5. Awaits(guests'[ref[p].vmid], m, rest)
    <2>1. Awaits(h, m, rest)
        BY <1>2, <1>3, <1>4, UpdatedAwaits
    <2>2. QED
        BY <1>4, <2>1
<1>6. rest \in Plan
    BY <1>2, SmallerPlanFits
<1>7. QED
    BY <1>1, <1>5, <1>6, WrittenStands, ProceedArrives DEF Ready, Knows

LEMMA ResizeArrives ==
    ASSUME IInv, NEW p \in Procs, Ready(p), ResizeDisk(p)
    PROVE  MatchedNext(p) /\ Arrives(p)
<1> DEFINE m == manifest[p]
           g == guests[ref[p].vmid]
<1>1. pc[p] = "resize" /\ Done(p)
    BY DEF ResizeDisk
<1>2. /\ m \in Manifest /\ plan[p] \in Plan /\ DeclaredPlan(plan[p], m)
      /\ ref[p] \in GuestRef /\ guests \in Cluster
    BY <1>1, Locals DEF Aimed, Writing, IInv
<1>3. ~HasWrites(plan[p]) /\ Awaits(g, m, plan[p])
    BY <1>1 DEF Ready, Knows, Matched, NextCall
<1>4. PICK s \in NextSlot(plan[p]) :
        /\ g \in Guest
        /\ guests' = [guests EXCEPT ![ref[p].vmid] =
                        Resized(g, Resize(ref[p], s, plan[p].sizes[s]))]
    BY <1>1, ResizeDone
<1> DEFINE rest == [plan[p] EXCEPT !.sizes[s] = None]
<1>5. s \in Slots /\ NextSlot(plan[p]) = {s} /\ Awaits(guests'[ref[p].vmid], m, rest)
    BY <1>2, <1>3, <1>4, NextGrows DEF Cluster, GuestRef
<1>6. Proceed(p, ref[p], rest)
    BY <1>5 DEF ResizeDisk
<1>7. rest \in Plan
    BY <1>2, <1>5, SmallerPlanFits
<1>8. QED
    BY <1>1, <1>5, <1>6, <1>7, WrittenStands, ProceedArrives DEF Ready, Knows

LEMMA SwitchArrives ==
    ASSUME IInv, NEW p \in Procs, Ready(p), SwitchPower(p)
    PROVE  MatchedNext(p) /\ Arrives(p)
<1> DEFINE m == manifest[p]
           g == guests[ref[p].vmid]
           h == [g EXCEPT !.power = IF plan[p].power = "start"
                                    THEN "running" ELSE "stopped"]
<1>1. pc[p] = "power" /\ Done(p) /\ Finish(p, plan[p].report)
    BY DEF SwitchPower
<1>2. m \in Manifest /\ plan[p] \in Plan /\ guests \in Cluster
    BY Locals DEF IInv
<1>3. /\ "power" = NextCall(plan[p]) /\ Awaits(g, m, plan[p])
    BY <1>1 DEF Ready, Knows, Matched
<1>4. ~HasWrites(plan[p]) /\ plan[p].sizes = NoWrites
    BY <1>3 DEF NextCall
<1>5. PoolHolds(g, m) /\ plan[p].power = PlannedPower(m, g.power) /\ Settled(g, m)
    BY <1>3, <1>4, AwaitsNothing DEF Awaits, Settled
<1>6. /\ g \in Guest /\ guests'[ref[p].vmid] = h /\ plan[p].power \in {"start", "stop"}
    BY <1>1, <1>2, SwitchDone DEF Cluster, GuestRef
<1>7. /\ h.config = g.config /\ h.disks = g.disks /\ h.pool = g.pool
      /\ h.power = IF plan[p].power = "start" THEN "running" ELSE "stopped"
    BY <1>6 DEF Guest
<1>8. Settled(h, m) /\ PoolHolds(h, m)
    BY <1>5, <1>7 DEF Settled, InSync, ChangedKeys, ChangedSlots, PoolHolds
<1>9. PlannedPower(m, h.power) = "none"
    BY <1>5, <1>6, <1>7 DEF PlannedPower
<1>10. CreatesInFull => Converged(guests', m)
    BY <1>1, <1>2, <1>6, <1>8, <1>9, WrittenStands, SettledConverges
       DEF Ready, Knows, Settled
<1>11. QED
    BY <1>1, <1>10, FinishArrives

LEMMA StartArrives ==
    ASSUME IInv, NEW p \in Procs, Start(p)
    PROVE  MatchedNext(p) /\ Arrives(p)
<1>1. pc[p] = "idle" /\ pc'[p] \in {"idle", "resolve"}
    BY DEF Start, Begin, Reject, Goto, IInv, LocalsOK
<1>2. QED
    BY <1>1 DEF MatchedNext, Matched, Arrives, Succeeds, Ends

LEMMA StepArrives ==
    ASSUME IInv, NEW p \in Procs, Ready(p),
           Start(p) \/ Step(p) \/ Fail(p)
    PROVE  MatchedNext(p) /\ Arrives(p)
<1>1. CASE Refused(p) \/ Fail(p)
    BY <1>1, FinishArrives DEF Refused, Fail, Successes
<1>2. QED
    BY <1>1, StartArrives, ResolveArrives, PreparingArrives, CreateArrives, CloneArrives,
       PostCloneArrives, ReadPowerArrives, ReadSummaryArrives, ReadConfigArrives,
       UpdateArrives, ResizeArrives, SwitchArrives DEF Step

Aware == moves = 0 => \A p \in Procs : Ready(p)

LEMMA AwareStays ==
    ASSUME OneAtATime
    PROVE  Spec => []Aware
<1>1. Init => Aware
    <2> SUFFICES ASSUME Init, NEW p \in Procs PROVE Ready(p)
        BY DEF Aware
    <2>1. pc[p] = "idle"
        BY DEF Init
    <2>2. QED
        BY <2>1 DEF Ready, Knows, Located, Matched, Standing
<1>2. IInv /\ Alone /\ Aware /\ [Next]_vars => Aware'
    <2> SUFFICES ASSUME IInv, Alone, Aware, [Next]_vars PROVE Aware'
        OBVIOUS
    <2>1. CASE UNCHANGED vars
        BY <2>1 DEF vars, locals, budgets, Aware, Ready, Knows, Located, Matched
    <2>2. ASSUME NEW v \in VMIDs, Operator(v), moves' # 0
          PROVE  Aware'
        BY <2>2 DEF Aware
    <2>3. ASSUME NEW p \in Procs, Procs = {p}, Start(p) \/ Step(p) \/ Fail(p)
          PROVE  Aware'
        <3>1. tasks = {} /\ moves' = moves
            BY <2>3, NoTasksStay DEF Alone
        <3>2. moves = 0 => LocatedNext(p) /\ MatchedNext(p)
            BY <2>3, <3>1, StepLocates, StepArrives DEF Aware, Ready, Knows
        <3>3. QED
            BY <2>3, <3>1, <3>2 DEF Aware, Ready, Knows, LocatedNext, MatchedNext
    <2>4. QED
        BY <2>1, <2>2, <2>3, OneSteps DEF Alone
<1>3. QED
    BY <1>1, <1>2, AloneStays, Invariance, PTL DEF Spec

(***************************************************************************)
(* One run at a time, and as long as nobody else works on the cluster: a   *)
(* run of apply that reports success leaves exactly one guest its manifest *)
(* is about, as the manifest declares it, for every cluster it meets,      *)
(* whatever earlier runs that failed left behind, and for every manifest   *)
(* that declares nothing creation leaves out.                              *)
(***************************************************************************)
THEOREM SuccessMeansConverged ==
    ASSUME OneAtATime, CreatesInFull
    PROVE  Spec => SuccessConverges
<1> DEFINE Met == moves = 0 =>
              \A p \in Procs : Succeeds(p) => Converged(guests', manifest[p])
<1>1. IInv /\ Alone /\ Aware /\ [Next]_vars => [Met]_vars
    <2> SUFFICES ASSUME IInv, Alone, Aware, Next, moves = 0, NEW q \in Procs,
                        Succeeds(q)
                 PROVE  Converged(guests', manifest[q])
        OBVIOUS
    <2>1. ASSUME NEW v \in VMIDs, Operator(v)
          PROVE  FALSE
        BY <2>1 DEF Operator, locals, Succeeds, Ends
    <2>2. PICK p \in Procs : Procs = {p} /\ (Start(p) \/ Step(p) \/ Fail(p))
        BY <2>1, OneSteps DEF Alone
    <2>3. q = p
        BY <2>2
    <2>4. QED
        BY <2>2, <2>3, StepArrives DEF Aware, Arrives
<1>2. QED
    BY <1>1, AwareStays, AloneStays, Invariance, PTL DEF Spec, SuccessConverges

-----------------------------------------------------------------------------
(***************************************************************************)
(* What a run says when it ends, and what it spares: for the commands that *)
(* make one run after the other.                                           *)
(***************************************************************************)
\* A run's manifest and mode are chosen when it begins.
LEMMA StepKeepsMode ==
    ASSUME IInv, NEW p \in Procs, Step(p) \/ Fail(p) \/ TimeOut(p)
    PROVE  mode'[p] = mode[p] /\ manifest'[p] = manifest[p]
<1>1. ASSUME NEW label, NEW target, NEW todo, Continue(p, label, target, todo)
      PROVE  UNCHANGED <<manifest, mode>>
    BY <1>1 DEF Continue
<1>2. ASSUME NEW outcome, Finish(p, outcome)
      PROVE  UNCHANGED <<manifest, mode>>
    BY <1>2 DEF Finish
<1>3. QED
    BY <1>1, <1>2
       DEF Step, Resolve, CheckName, NextID, NoNextID, Create, FindSource, Clone,
           PostClone, ReadPower, ReadSummary, ReadConfig, UpdateConfig, ResizeDisk,
           SwitchPower, Refused, Fail, TimeOut, Proceed, Settle, NotFound, Found, Decide

LEMMA ApplyAnswers ==
    ASSUME IInv, NEW p \in Procs, Step(p) \/ Fail(p), Ends(p), mode[p] = "apply"
    PROVE  result'[p] \in Successes \cup {"failed"}
<1> DEFINE Answers == Successes \cup {"failed"}
<1>1. ASSUME NEW outcome \in Answers, Finish(p, outcome)
      PROVE  result'[p] \in Answers
    BY <1>1, FinishKnows
<1>2. ASSUME NEW label, label # "idle", NEW target, NEW todo,
             Continue(p, label, target, todo)
      PROVE  FALSE
    BY <1>2, ContinueKnows DEF Ends
<1>3. ASSUME NEW todo, todo.report \in {"created", "configured"}, Proceed(p, ref[p], todo)
      PROVE  result'[p] \in Answers
    <2>1. NextCall(todo) = "idle"
        BY <1>2, <1>3 DEF Proceed
    <2>2. QED
        BY <1>1, <1>3, <2>1 DEF Proceed, Successes
<1>4. CASE Settle(p)
    BY <1>1, <1>2, <1>4 DEF Settle, Successes
<1>5. CASE Resolve(p) \/ CheckName(p)
    <2>1. ASSUME NotFound(p)
          PROVE  result'[p] \in Answers
        BY <1>2, <2>1 DEF NotFound
    <2>2. ASSUME NEW v, Found(p, v)
          PROVE  result'[p] \in Answers
        BY <1>1, <1>2, <2>2 DEF Found
    <2>3. QED
        BY <1>1, <1>2, <1>5, <2>1, <2>2 DEF Resolve, CheckName
<1>6. CASE NextID(p) \/ Clone(p) \/ ReadSummary(p)
    BY <1>1, <1>2, <1>6 DEF NextID, Clone, ReadSummary
<1>7. CASE FindSource(p)
    <2>1. ~Goto(p, "clone")
        BY DEF Goto, Ends, IInv, LocalsOK
    <2>2. QED
        BY <1>1, <1>7, <2>1 DEF FindSource
<1>8. CASE ReadPower(p) \/ ReadConfig(p)
    <2>1. NoPlan.report = "created"
        BY DEF NoPlan
    <2>2. CASE ReadPower(p)
        <3> DEFINE todo == [NoPlan EXCEPT !.power =
                                PlannedPower(manifest[p], guests[ref[p].vmid].power)]
        <3>1. Finish(p, "failed") \/ Proceed(p, ref[p], todo)
            BY <2>2 DEF ReadPower
        <3>2. todo.report = "created"
            BY DEF NoPlan
        <3> HIDE DEF todo
        <3>3. QED
            BY <1>1, <1>3, <3>1, <3>2
    <2>3. CASE ReadConfig(p)
        BY <1>1, <1>3, <2>3 DEF ReadConfig, Decide, Todo, Successes
    <2>4. QED
        BY <1>8, <2>2, <2>3
<1>9. CASE UpdateConfig(p) \/ ResizeDisk(p) \/ SwitchPower(p)
    <2>1. plan[p].report \in {"created", "configured"}
        BY Locals DEF Plan
    <2>2. CASE UpdateConfig(p)
        <3> DEFINE todo == [plan[p] EXCEPT !.config = NoParams, !.disks = NoWrites]
        <3>1. Proceed(p, ref[p], todo)
            BY <2>2 DEF UpdateConfig
        <3>2. todo.report = plan[p].report
            BY Locals DEF Plan
        <3> HIDE DEF todo
        <3>3. QED
            BY <1>3, <2>1, <3>1, <3>2
    <2>3. CASE ResizeDisk(p)
        <3>1. PICK s : Proceed(p, ref[p], [plan[p] EXCEPT !.sizes[s] = None])
            BY <2>3 DEF ResizeDisk
        <3> DEFINE todo == [plan[p] EXCEPT !.sizes[s] = None]
        <3>2. todo.report = plan[p].report
            BY Locals DEF Plan
        <3>3. Proceed(p, ref[p], todo)
            BY <3>1
        <3> HIDE DEF todo
        <3>4. QED
            BY <1>3, <2>1, <3>2, <3>3
    <2>4. CASE SwitchPower(p)
        BY <1>1, <2>1, <2>4 DEF SwitchPower, Successes
    <2>5. QED
        BY <1>9, <2>2, <2>3, <2>4
<1>10. CASE Refused(p) \/ Fail(p) \/ NoNextID(p)
    BY <1>1, <1>10 DEF Refused, Fail, NoNextID
<1>11. QED
    BY <1>4, <1>5, <1>6, <1>7, <1>8, <1>9, <1>10 DEF Step, Create, PostClone

\* Diff looks, and says what it saw.
Differs(gs, m) ==
    \A v \in Targets(gs, m) : Targets(gs, m) = {v} => ~InSync(gs[v], m)

LEMMA DiffAnswers ==
    ASSUME IInv, NEW p \in Procs, Ready(p),
           Step(p) \/ Fail(p), Ends(p), mode[p] = "diff"
    PROVE  /\ guests' = guests /\ result'[p] \in {"same", "differs", "failed"}
           /\ result'[p] = "differs" => Differs(guests, manifest[p])
           /\ result'[p] = "same" => ~Differs(guests, manifest[p])
<1> DEFINE m == manifest[p]
           g == guests[ref[p].vmid]
<1>1. pc[p] \notin Creating
    BY Locals DEF Creating
<1>2. ASSUME NEW outcome, Finish(p, outcome)
      PROVE  result'[p] = outcome
    BY <1>2, FinishKnows
<1>3. ASSUME NEW label, label # "idle", NEW target, NEW todo,
             Continue(p, label, target, todo)
      PROVE  FALSE
    BY <1>3, ContinueKnows DEF Ends
<1>4. ASSUME NEW v, Found(p, v)
      PROVE  result'[p] = "failed"
    BY <1>2, <1>3, <1>4 DEF Found
<1>5. ASSUME NotFound(p)
      PROVE  result'[p] = "differs"
    BY <1>2, <1>5 DEF NotFound
<1>6. CASE Resolve(p) \/ CheckName(p)
    <2>1. guests' = guests
        BY <1>6 DEF Resolve, CheckName, Reads
    <2>2. \/ result'[p] = "failed"
          \/ NotFound(p) /\ Targets(guests, m) = {}
        BY <1>2, <1>3, <1>4, <1>6
           DEF Resolve, CheckName, Reads, Targets, Ready, Knows, Located
    <2>3. QED
        BY <1>5, <2>1, <2>2 DEF Differs
<1>7. CASE ReadConfig(p)
    <2>1. Targets(guests, m) = {ref[p].vmid} /\ Reaches(guests, ref[p].vmid, ref[p].node)
        BY <1>7 DEF ReadConfig, Reads, Ready, Knows, Located, Standing, Stands
    <2>2. Finish(p, IF InSync(g, m) THEN "same" ELSE "differs") /\ guests' = guests
        BY <1>7, <2>1 DEF ReadConfig, Decide, Reads
    <2>3. result'[p] = IF InSync(g, m) THEN "same" ELSE "differs"
        BY <1>2, <2>2
    <2>4. QED
        BY <2>1, <2>2, <2>3 DEF Differs
<1>8. CASE Refused(p) \/ Fail(p) \/ ReadSummary(p)
    <2>1. guests' = guests /\ result'[p] = "failed"
        BY <1>2, <1>3, <1>8 DEF Refused, Fail, ReadSummary, Reads
    <2>2. QED
        BY <2>1
<1>9. QED
    BY <1>1, <1>6, <1>7, <1>8
       DEF Step, NextID, NoNextID, Create, FindSource, Clone, PostClone, ReadPower,
           UpdateConfig, ResizeDisk, SwitchPower, Reads, Creating, Writing

\* Two manifests that are never about one guest, whatever they make of it.
Apart(m, n) ==
    \/ m.vmid # None /\ n.vmid # None /\ m.vmid # n.vmid
    \/ m.vmid = None /\ n.vmid = None /\ m.name # n.name

LEMMA OnlyCallsChange ==
    ASSUME NEW p \in Procs, Start(p) \/ Step(p) \/ Fail(p), guests' # guests
    PROVE  Done(p) /\ pc[p] \in {"create", "clone", "postclone", "update", "resize", "power"}
<1>1. Done(p)
    BY DEF Start, Begin, Reject, Step, Resolve, CheckName, NextID, NoNextID, Create,
           FindSource, Clone, PostClone, ReadPower, ReadSummary, ReadConfig,
           UpdateConfig, ResizeDisk, SwitchPower, Refused, Fail, Reads
<1>2. QED
    BY <1>1 DEF Done, Calls

LEMMA ApartSpares ==
    ASSUME IInv, NEW p \in Procs, Ready(p), Start(p) \/ Step(p) \/ Fail(p),
           NEW n \in Manifests, Apart(manifest[p], n), Converged(guests, n)
    PROVE  Converged(guests', n)
<1> DEFINE m == manifest[p]
           r == ref[p].vmid
<1>1. PICK v : Targets(guests, n) = {v} /\ Agrees(guests[v], n)
    BY DEF Converged
<1>2. CASE guests' = guests
    BY <1>2
<1>3. CASE guests' # guests
    <2>1. Done(p) /\ Located(guests, pc[p], m, mode[p], ref[p])
        BY <1>3, OnlyCallsChange DEF Ready, Knows
    <2>2. /\ Targets(guests', m) = {r} /\ guests'[r] # None
          /\ Targets(guests, m) = {r} \/ guests[r] = None
          /\ \A w \in VMIDs \ {r} : guests'[w] = guests[w]
        <3>1. CASE pc[p] \in {"create", "clone"}
            BY <2>1, <3>1, NewGuest DEF Located, Free, Stands, Reaches
        <3>2. CASE pc[p] \in {"postclone", "update", "resize", "power"}
            <4>1. /\ Stands(guests', ref[p], m) /\ ref[p] \in GuestRef
                  /\ guests \in Cluster /\ Targets(guests, m) = {r}
                BY <2>1, <3>2, WrittenStands DEF Located, Standing, Stands
            <4>2. \A w \in VMIDs \ {r} : guests'[w] = guests[w]
                BY <2>1, <3>2, <4>1
                   DEF Done, Calls, Perform, Update, Resize, Switch, Cluster, GuestRef
            <4>3. QED
                BY <4>1, <4>2 DEF Stands, Reaches
        <3>3. QED
            BY <1>3, <3>1, <3>2, OnlyCallsChange
    <2>3. v \in VMIDs /\ guests[v] # None
        BY <1>1, ManifestsAssumption DEF Targets, Named, Manifest
    <2>4. v # r
        BY <1>1, <2>2, <2>3 DEF Apart, Targets, Named
    <2>5. Targets(guests', n) = {v}
        BY <1>1, <2>2, <2>3, <2>4 DEF Apart, Targets, Named
    <2>6. QED
        BY <1>1, <2>2, <2>3, <2>4, <2>5 DEF Converged
<1>4. QED
    BY <1>2, <1>3

-----------------------------------------------------------------------------
(***************************************************************************)
(* What was there stays.  The one call that could push a volume out of its *)
(* slot is the PUT of an update, and it was planned from the guest's own   *)
(* disks: in a slot that is taken it names the volume that is there.       *)
(***************************************************************************)
DisklessStrangers == \A g \in Strangers, s \in Slots : g.disks[s] = None

NamesVolumes(disks, writes) ==
    \A s \in Slots : disks[s] # None /\ writes[s] # None =>
        /\ writes[s].form = "volume"
        /\ writes[s].storage = disks[s].storage /\ writes[s].size = disks[s].size

Careful(gs, label, r, todo) ==
    /\ label = "resize" => ~HasWrites(todo)
    /\ label = "update" /\ gs[r.vmid] # None =>
        NamesVolumes(gs[r.vmid].disks, todo.disks)

CarefulNext(p) == Careful(guests', pc'[p], ref'[p], plan'[p])

LEMMA PlannedNamesVolumes ==
    ASSUME NEW g \in Guest, NEW m \in Manifest
    PROVE  NamesVolumes(g.disks, PlannedDisks(g, m))
BY DEF NamesVolumes, PlannedDisks, RebuiltDisk

LEMMA ProceedCareful ==
    ASSUME IInv, NEW p \in Procs, NEW todo, Proceed(p, ref[p], todo),
           \/ ~HasWrites(todo)
           \/ guests'[ref[p].vmid] # None =>
                NamesVolumes(guests'[ref[p].vmid].disks, todo.disks)
    PROVE  CarefulNext(p)
<1>1. CASE NextCall(todo) = "idle"
    BY <1>1, FinishKnows DEF Proceed, CarefulNext, Careful
<1>2. CASE NextCall(todo) # "idle"
    <2>1. Continue(p, NextCall(todo), ref[p], todo)
        BY <1>2 DEF Proceed
    <2>2. pc'[p] = NextCall(todo) /\ ref'[p] = ref[p] /\ plan'[p] = todo
        BY <2>1, ContinueKnows
    <2>3. /\ NextCall(todo) = "update" => HasWrites(todo)
          /\ NextCall(todo) = "resize" => ~HasWrites(todo)
        BY DEF NextCall
    <2>4. QED
        BY <2>2, <2>3 DEF CarefulNext, Careful
<1>3. QED
    BY <1>1, <1>2

LEMMA StepCareful ==
    ASSUME IInv, NEW p \in Procs, Careful(guests, pc[p], ref[p], plan[p]),
           Start(p) \/ Step(p) \/ Fail(p)
    PROVE  CarefulNext(p)
<1> DEFINE m == manifest[p]
           g == guests[ref[p].vmid]
<1>1. CASE \E outcome : Finish(p, outcome)
    BY <1>1, FinishKnows DEF CarefulNext, Careful
<1>2. CASE \E label, target, todo : /\ Continue(p, label, target, todo)
                                    /\ label \notin {"update", "resize"}
    BY <1>2, ContinueKnows DEF CarefulNext, Careful
<1>3. CASE Goto(p, "clone")
    <2>1. pc'[p] = "clone"
        BY <1>3 DEF Goto, IInv, LocalsOK
    <2>2. QED
        BY <2>1 DEF CarefulNext, Careful
<1>4. CASE \E todo : Proceed(p, ref[p], todo) /\ ~HasWrites(todo)
    BY <1>4, ProceedCareful
<1>5. CASE Start(p)
    <2>1. pc'[p] \in {"idle", "resolve"}
        BY <1>5 DEF Start, Begin, Reject, Goto, IInv, LocalsOK
    <2>2. QED
        BY <2>1 DEF CarefulNext, Careful
<1>6. CASE Refused(p) \/ Fail(p) \/ SwitchPower(p) \/ NoNextID(p) \/ FindSource(p)
    BY <1>1, <1>3, <1>6 DEF Refused, Fail, SwitchPower, NoNextID, FindSource
<1>7. CASE NextID(p) \/ Clone(p)
    <2> DEFINE made == IF manifest[p].clone = None THEN "create" ELSE "findsource"
    <2>1. ASSUME NEW label, label \notin {"update", "resize"}, NEW target, NEW todo,
                 Continue(p, label, target, todo)
          PROVE  CarefulNext(p)
        BY <1>2, <2>1
    <2>2. CASE NextID(p)
        <3>1. PICK target : Continue(p, made, target, NoPlan)
            BY <2>2 DEF NextID
        <3>2. QED
            BY <2>1, <3>1
    <2>3. CASE Clone(p)
        BY <2>1, <2>3 DEF Clone
    <2>4. QED
        BY <1>7, <2>2, <2>3
<1>8. CASE Create(p) \/ PostClone(p) \/ ReadSummary(p)
    BY <1>1, <1>2, <1>8 DEF Create, PostClone, Settle, ReadSummary
<1>9. CASE Resolve(p) \/ CheckName(p)
    <2>1. ASSUME NotFound(p)
          PROVE  CarefulNext(p)
        BY <1>1, <1>2, <2>1 DEF NotFound
    <2>2. ASSUME NEW v, Found(p, v)
          PROVE  CarefulNext(p)
        BY <1>1, <1>2, <2>2 DEF Found
    <2>3. QED
        BY <1>1, <1>2, <1>9, <2>1, <2>2 DEF Resolve, CheckName
<1>10. CASE ReadPower(p)
    <2>1. ASSUME NEW power PROVE ~HasWrites([NoPlan EXCEPT !.power = power])
        BY DEF HasWrites, NoPlan
    <2>2. QED
        BY <1>1, <1>4, <1>10, <2>1 DEF ReadPower
<1>11. CASE ReadConfig(p)
    <2>1. CASE Proceed(p, ref[p], Todo(p, g, m))
        <3>1. /\ UNCHANGED guests /\ ref[p] \in GuestRef /\ m \in Manifest
              /\ guests \in Cluster
            BY <1>11, Locals DEF ReadConfig, Reads, Aimed, IInv
        <3>2. g # None => NamesVolumes(g.disks, PlannedDisks(g, m))
            BY <3>1, PlannedNamesVolumes DEF Cluster, GuestRef
        <3>3. QED
            BY <2>1, <3>1, <3>2, ProceedCareful DEF Todo
    <2>2. CASE ~Proceed(p, ref[p], Todo(p, g, m))
        BY <1>1, <1>11, <2>2 DEF ReadConfig, Decide
    <2>3. QED
        BY <2>1, <2>2
<1>12. CASE UpdateConfig(p)
    <2>1. plan[p] \in Plan
        BY Locals
    <2>2. ~HasWrites([plan[p] EXCEPT !.config = NoParams, !.disks = NoWrites])
        BY <2>1 DEF HasWrites, Plan
    <2>3. QED
        BY <1>4, <1>12, <2>2 DEF UpdateConfig
<1>13. CASE ResizeDisk(p)
    <2>1. plan[p] \in Plan /\ ~HasWrites(plan[p])
        BY <1>13, Locals DEF ResizeDisk, Careful
    <2>2. ASSUME NEW s \in Slots PROVE ~HasWrites([plan[p] EXCEPT !.sizes[s] = None])
        BY <2>1 DEF HasWrites, Plan
    <2>3. QED
        BY <1>4, <1>13, <2>2 DEF ResizeDisk, NextSlot
<1>14. QED
    BY <1>5, <1>6, <1>7, <1>8, <1>9, <1>10, <1>11, <1>12, <1>13 DEF Step

LEMMA OperatorCareful ==
    ASSUME IInv, DisklessStrangers, NEW v \in VMIDs, Operator(v),
           NEW p \in Procs, Careful(guests, pc[p], ref[p], plan[p])
    PROVE  CarefulNext(p)
<1>1. UNCHANGED <<pc, ref, plan>> /\ guests \in Cluster
    BY DEF Operator, locals, IInv
<1> SUFFICES ASSUME pc[p] = "update", guests'[ref[p].vmid] # None
             PROVE  NamesVolumes(guests'[ref[p].vmid].disks, plan[p].disks)
    BY <1>1 DEF CarefulNext, Careful
<1>2. ref[p] \in GuestRef /\ ref[p].vmid \in VMIDs
    BY Locals DEF Aimed, Writing, GuestRef
<1> DEFINE w == ref[p].vmid
<1>3. CASE guests'[w] = guests[w]
    BY <1>1, <1>3 DEF Careful
<1>4. CASE guests[w] # None /\ guests'[w].disks = guests[w].disks
    BY <1>1, <1>4 DEF Careful
<1>5. CASE guests'[w] \in Strangers
    BY <1>5 DEF NamesVolumes, DisklessStrangers
<1>6. CASE w = v
    <2>1. ASSUME guests[v] # None, NEW s, guests' = [guests EXCEPT ![v].power = s]
          PROVE  guests'[v].disks = guests[v].disks
        BY <1>1, <2>1 DEF Cluster, Guest
    <2>2. ASSUME guests[v] # None, NEW n, guests' = [guests EXCEPT ![v].node = n]
          PROVE  guests'[v].disks = guests[v].disks
        BY <1>1, <2>2 DEF Cluster, Guest
    <2>3. ASSUME guests' = [guests EXCEPT ![v] = None]
          PROVE  FALSE
        BY <1>1, <1>2, <1>6, <2>3 DEF Cluster
    <2>4. ASSUME NEW g \in Strangers, guests' = [guests EXCEPT ![v] = g]
          PROVE  guests'[v] \in Strangers
        BY <1>1, <2>4 DEF Cluster
    <2>5. QED
        BY <1>4, <1>5, <1>6, <2>1, <2>2, <2>3, <2>4 DEF Operator
<1>7. CASE w # v
    <2>1. guests'[w] = guests[w]
        BY <1>1, <1>2, <1>7 DEF Operator, Cluster
    <2>2. QED
        BY <1>3, <2>1
<1>8. QED
    BY <1>6, <1>7

AllCareful ==
    tasks = {} /\ \A p \in Procs : Careful(guests, pc[p], ref[p], plan[p])

LEMMA CarefulStays ==
    ASSUME OneAtATime, DisklessStrangers
    PROVE  Spec => []AllCareful
<1>1. Init => AllCareful
    BY DEF Init, AllCareful, Careful
<1>2. IInv /\ AllCareful /\ [Next]_vars => AllCareful'
    <2> SUFFICES ASSUME IInv, AllCareful, [Next]_vars PROVE AllCareful'
        OBVIOUS
    <2>1. CASE UNCHANGED vars
        BY <2>1 DEF vars, locals, AllCareful, Careful
    <2>2. ASSUME NEW v \in VMIDs, Operator(v)
          PROVE  AllCareful'
        BY <2>2, OperatorCareful DEF AllCareful, CarefulNext, Operator
    <2>3. ASSUME NEW p \in Procs, Procs = {p}, Start(p) \/ Step(p) \/ Fail(p)
          PROVE  AllCareful'
        <3>1. tasks' = {} /\ CarefulNext(p)
            BY <2>3, NoTasksStay, StepCareful DEF AllCareful
        <3>2. QED
            BY <2>3, <3>1 DEF AllCareful, CarefulNext
    <2>4. QED
        BY <2>1, <2>2, <2>3, OneSteps DEF AllCareful
<1>3. QED
    BY <1>1, <1>2, Invariance, PTL DEF Spec

LEMMA KeepsItself ==
    ASSUME NEW g \in Guest
    PROVE  Keeps(g, g)
<1>1. ASSUME NEW s \in Slots, g.disks[s] # None
      PROVE  g.disks[s].size >= g.disks[s].size
    <2>1. g.disks[s].size \in Nat
        BY <1>1, SizesAssumption DEF Guest, Disks, Disk
    <2>2. QED
        BY <2>1
<1>2. QED
    BY <1>1, NoGuestAssumption DEF Keeps

\* An update that names the volumes that are there keeps them.
LEMMA UpdatedKeeps ==
    ASSUME NEW g \in Guest, NEW r \in GuestRef, NEW config \in Params,
           NEW writes \in DiskWrites, NamesVolumes(g.disks, writes)
    PROVE  Keeps(g, Updated(g, Update(r, config, writes)))
<1> DEFINE h == Updated(g, Update(r, config, writes))
<1>1. h \in Guest
    BY UpdatedType DEF Update, UpdateCall, GuestRef
<1>2. /\ h.node = g.node /\ h.type = g.type /\ h.pool = g.pool
      /\ h.disks = Written(g.disks, writes)
      /\ h.detached = g.detached \cup
            {s \in Slots : /\ g.disks[s] # None /\ writes[s] # None
                           /\ writes[s].form = "allocate"}
    BY DEF Updated, Update, Guest
<1>3. h.detached = g.detached
    BY <1>2 DEF NamesVolumes
<1>4. ASSUME NEW s \in Slots, g.disks[s] # None
      PROVE  /\ h.disks[s] # None
             /\ h.disks[s].storage = g.disks[s].storage
             /\ h.disks[s].size >= g.disks[s].size
    <2>1. g.disks[s] \in Disk /\ g.disks[s].size \in Nat
        BY <1>4, SizesAssumption DEF Guest, Disks, Disk
    <2>2. CASE writes[s] = None
        BY <1>2, <1>4, <2>1, <2>2 DEF Written
    <2>3. CASE writes[s] # None
        <3>1. /\ h.disks[s] = Stored(writes[s])
              /\ writes[s].storage = g.disks[s].storage
              /\ writes[s].size = g.disks[s].size
            BY <1>2, <1>4, <2>3 DEF Written, NamesVolumes
        <3>2. Stored(writes[s]) \in Disk
            BY <2>3 DEF Stored, DiskWrites, DiskWrite, Disk
        <3>3. QED
            BY <2>1, <3>1, <3>2, NoDiskAssumption DEF Stored
    <2>4. QED
        BY <2>2, <2>3
<1>5. QED
    BY <1>1, <1>2, <1>3, <1>4, NoGuestAssumption DEF Keeps

LEMMA ResizedKeeps ==
    ASSUME NEW g \in Guest, NEW r, NEW s \in Slots, NEW size \in Sizes,
           g.disks[s] # None, g.disks[s].size <= size
    PROVE  Keeps(g, Resized(g, Resize(r, s, size)))
<1> DEFINE h == Resized(g, Resize(r, s, size))
<1>1. /\ h.node = g.node /\ h.type = g.type /\ h.pool = g.pool
      /\ h.detached = g.detached /\ h.disks = [g.disks EXCEPT ![s].size = size]
      /\ h \in Guest
    <2>1. [g.disks[s] EXCEPT !.size = size] \in Disk
        BY DEF Guest, Disks, Disk
    <2>2. QED
        BY <2>1 DEF Resized, Resize, Guest, Disks
<1>2. ASSUME NEW t \in Slots, g.disks[t] # None
      PROVE  /\ h.disks[t] # None
             /\ h.disks[t].storage = g.disks[t].storage
             /\ h.disks[t].size >= g.disks[t].size
    <2>1. /\ g.disks[t] \in Disk /\ g.disks[t].size \in Nat /\ size \in Nat
          /\ g.disks \in [Slots -> Disk \cup {None}]
        BY <1>2, SizesAssumption DEF Guest, Disks, Disk
    <2>2. CASE t = s
        BY <1>1, <2>1, <2>2, NoDiskAssumption DEF Disk
    <2>3. CASE t # s
        BY <1>1, <1>2, <2>1, <2>3
    <2>4. QED
        BY <2>2, <2>3
<1>3. QED
    BY <1>1, <1>2, NoGuestAssumption DEF Keeps

\* A call that goes through changes one guest, and keeps what was there.
LEMMA DoneKeepsGuests ==
    ASSUME IInv, NEW p \in Procs, Careful(guests, pc[p], ref[p], plan[p]), Done(p),
           NEW v \in VMIDs, guests[v] # None
    PROVE  Keeps(guests[v], guests'[v])
<1> DEFINE w == ref[p].vmid
           g == guests[w]
<1>1. /\ pc[p] \in Writing /\ ref[p] \in GuestRef /\ w \in VMIDs /\ guests \in Cluster
      /\ manifest[p] \in Manifest /\ plan[p] \in Plan /\ guests[v] \in Guest
    BY Locals DEF Done, Calls, Aimed, Writing, GuestRef, IInv, Cluster
<1>2. CASE guests'[v] = guests[v]
    BY <1>1, <1>2, KeepsItself
<1>3. CASE pc[p] \in {"create", "clone"}
    <2>1. v # w /\ \E h : guests' = [guests EXCEPT ![w] = h]
        BY <1>3, CreateDone, CloneDone
    <2>2. guests'[v] = guests[v]
        BY <1>1, <2>1 DEF Cluster
    <2>3. QED
        BY <1>2, <2>2
<1>4. CASE pc[p] \in {"postclone", "update"}
    <2>1. PICK config \in Params, writes \in DiskWrites :
            /\ Calls(p) = {Update(ref[p], config, writes)}
            /\ g # None => NamesVolumes(g.disks, writes)
        <3>1. Config(manifest[p]) \in Params /\ NoWrites \in DiskWrites
            BY <1>1, ConfigType, AllocationsType
        <3>2. plan[p].config \in Params /\ plan[p].disks \in DiskWrites
            BY <1>1 DEF Plan
        <3>3. NamesVolumes(g.disks, NoWrites)
            BY DEF NamesVolumes, NoWrites
        <3>4. QED
            BY <1>4, <3>1, <3>2, <3>3 DEF Calls, Careful
    <2>2. /\ g \in Guest
          /\ guests' = [guests EXCEPT ![w] = Updated(g, Update(ref[p], config, writes))]
        BY <1>1, <2>1, UpdateDone
    <2>3. Keeps(g, Updated(g, Update(ref[p], config, writes)))
        BY <1>1, <2>1, <2>2, NoGuestAssumption, UpdatedKeeps
    <2>4. QED
        BY <1>1, <1>2, <2>2, <2>3 DEF Cluster
<1>5. CASE pc[p] = "resize"
    <2>1. PICK s \in NextSlot(plan[p]) :
            LET h == Resized(g, Resize(ref[p], s, plan[p].sizes[s]))
            IN  /\ g \in Guest /\ g.disks[s] # None
                /\ g.disks[s].size <= plan[p].sizes[s]
                /\ guests' = [guests EXCEPT ![w] = h]
        BY <1>5, ResizeDone
    <2>2. s \in Slots /\ plan[p].sizes[s] \in Sizes
        BY <1>1 DEF NextSlot, Plan
    <2>3. Keeps(g, Resized(g, Resize(ref[p], s, plan[p].sizes[s])))
        BY <2>1, <2>2, ResizedKeeps
    <2>4. QED
        BY <1>1, <1>2, <2>1, <2>3 DEF Cluster
<1>6. CASE pc[p] = "power"
    <2> DEFINE h == [g EXCEPT !.power = IF plan[p].power = "start"
                                        THEN "running" ELSE "stopped"]
    <2>1. g \in Guest /\ h \in Guest /\ guests' = [guests EXCEPT ![w] = h]
        BY <1>6, SwitchDone
    <2>2. Keeps(g, g) /\ h # None
        BY <2>1, KeepsItself, NoGuestAssumption
    <2>3. Keeps(g, h)
        BY <2>1, <2>2 DEF Keeps, Guest
    <2>4. QED
        BY <1>1, <1>2, <2>1, <2>3 DEF Cluster
<1>7. QED
    BY <1>1, <1>3, <1>4, <1>5, <1>6 DEF Writing

(***************************************************************************)
(* One run at a time, on a cluster where guests are moved, switched,       *)
(* removed and replaced meanwhile (by guests that have no disks yet): no   *)
(* run removes a guest, moves it, takes it out of its pool, or takes a     *)
(* disk, its volume or a part of its size away.                            *)
(***************************************************************************)
THEOREM NothingIsDestroyed ==
    ASSUME OneAtATime, DisklessStrangers
    PROVE  Spec => NeverDestroys
<1> DEFINE Kept == moves' = moves =>
              \A v \in VMIDs : guests[v] # None => Keeps(guests[v], guests'[v])
<1>1. IInv /\ AllCareful /\ [Next]_vars => [Kept]_vars
    <2> SUFFICES ASSUME IInv, AllCareful, Next, moves' = moves,
                        NEW v \in VMIDs, guests[v] # None
                 PROVE  Keeps(guests[v], guests'[v])
        OBVIOUS
    <2>1. guests[v] \in Guest
        BY DEF IInv, Cluster
    <2>2. ASSUME NEW w \in VMIDs, Operator(w)
          PROVE  FALSE
        BY <2>2 DEF Operator, IInv, BudgetsOK
    <2>3. PICK p \in Procs : Start(p) \/ Step(p) \/ Fail(p)
        BY <2>2, OneSteps DEF AllCareful
    <2>4. CASE Done(p)
        BY <2>4, DoneKeepsGuests DEF AllCareful
    <2>5. CASE ~Done(p)
        <3>1. guests' = guests
            BY <2>3, <2>5
               DEF Start, Begin, Reject, Step, Resolve, CheckName, NextID, NoNextID,
                   Create, FindSource, Clone, PostClone, ReadPower, ReadSummary,
                   ReadConfig, UpdateConfig, ResizeDisk, SwitchPower, Refused, Fail, Reads
        <3>2. QED
            BY <2>1, <3>1, KeepsItself
    <2>6. QED
        BY <2>4, <2>5
<1>2. QED
    BY <1>1, CarefulStays, Invariance, PTL DEF Spec, NeverDestroys

-----------------------------------------------------------------------------
(***************************************************************************)
(* Only what is declared changes.  A manifest that is written with a name  *)
(* alone is about the guests of that name; none of them is renamed when    *)
(* every manifest is, and a manifest with a vmid is about one vmid.        *)
(***************************************************************************)
OneWay == \/ \A m \in Manifests : m.vmid = None
          \/ \A m \in Manifests : m.vmid # None

Aims(gs, label, m, r) ==
    /\ label = "nextid" => m.vmid = None
    /\ label \in {"create", "findsource", "clone"} => m.vmid \in {None, r.vmid}
    /\ label \in Standing => r.vmid \in Targets(gs, m)

AimsNext(p) == Aims(guests', pc'[p], manifest'[p], ref'[p])

\* A call a manifest stands for, to a guest that manifest is about.
Meant(gs, c, m) ==
    Licensed(c, m) /\ (c.op \notin {"create", "clone"} => c.vmid \in Targets(gs, m))

LEMMA NameIsAKey == "name" \in Keys /\ \A m \in Manifest : Config(m)["name"] = m.name
BY DEF Keys, OwnKeys, Config

LEMMA PerformElsewhere ==
    ASSUME NEW gs \in Cluster, NEW c
    PROVE  /\ \A v \in VMIDs : v # c.vmid => Perform(gs, c)[v] = gs[v]
           /\ c.vmid \in VMIDs /\ c.op \in {"update"} =>
                Perform(gs, c)[c.vmid] = Updated(gs[c.vmid], c)
           /\ c.vmid \in VMIDs /\ c.op = "resize" =>
                Perform(gs, c)[c.vmid] = Resized(gs[c.vmid], c)
           /\ c.vmid \in VMIDs /\ c.op \in {"start", "stop"} =>
                Perform(gs, c)[c.vmid] = Powered(gs[c.vmid], c)
BY DEF Perform, Cluster

LEMMA CallOps ==
    ASSUME NEW c \in Call
    PROVE  /\ c.vmid \in VMIDs /\ c.op \in {"create", "clone", "update", "resize", "start", "stop"}
           /\ c.op = "create" => c \in CreateCall
           /\ c.op = "clone" => c \in CloneCall
           /\ c.op = "update" => c \in UpdateCall
           /\ c.op = "resize" => c \in ResizeCall
           /\ c.op \in {"start", "stop"} => c \in PowerCall
BY DEF Call, CreateCall, CloneCall, UpdateCall, ResizeCall, PowerCall

\* A call that is meant changes a guest only as its manifest declares.
LEMMA MeantChanges ==
    ASSUME NEW gs \in Cluster, NEW c \in Call, Accepts(gs, c),
           NEW m \in Manifests, Meant(gs, c, m),
           NEW v \in VMIDs, gs[v] # None, Perform(gs, c)[v] # gs[v]
    PROVE  /\ Perform(gs, c)[v] # None
           /\ v \in Targets(gs, m) /\ Declared(gs[v], Perform(gs, c)[v], m)
<1> DEFINE g == gs[v]
           h == Perform(gs, c)[v]
<1>1. v = c.vmid /\ g \in Guest /\ h \in Guest \cup {None}
    BY PerformElsewhere, PerformType DEF Cluster
<1>2. c.op \notin {"create", "clone"} /\ v \in Targets(gs, m)
    BY <1>1 DEF Accepts, Meant
<1>3. CASE c.op = "update"
    <2>1. h = Updated(g, c) /\ c \in UpdateCall
        BY <1>1, <1>3, PerformElsewhere, CallOps
    <2>2. /\ h \in Guest /\ h.power = g.power
          /\ h.config = Overlay(g.config, c.config) /\ h.disks = Written(g.disks, c.disks)
        <3>1. h \in Guest
            BY <1>1, <2>1, UpdatedType
        <3>2. QED
            BY <1>1, <2>1, <3>1 DEF Updated, Guest
    <2>3. DeclaredKeys(c.config, m) /\ DeclaredDisks(c.disks, m)
        BY <1>3 DEF Meant, Licensed
    <2>4. \A k \in Keys : h.config[k] # g.config[k] => h.config[k] = Config(m)[k]
        BY <2>2, <2>3 DEF Overlay, DeclaredKeys
    <2>5. \A s \in Slots : h.disks[s] # g.disks[s] => m.disks[s] # None
        BY <2>2, <2>3 DEF Written, DeclaredDisks, DeclaredDisk
    <2>6. QED
        BY <1>2, <2>2, <2>4, <2>5, NoGuestAssumption DEF Declared
<1>4. CASE c.op = "resize"
    <2>1. h = Resized(g, c) /\ c \in ResizeCall /\ g.disks[c.slot] # None
        BY <1>1, <1>4, PerformElsewhere, CallOps DEF Accepts
    <2>2. h \in Guest /\ h.power = g.power /\ h.config = g.config
        BY <1>1, <2>1, ResizedType DEF Resized, Guest
    <2>3. \A s \in Slots : s # c.slot => h.disks[s] = g.disks[s]
        BY <1>1, <2>1 DEF Resized, Guest, Disks
    <2>4. m.disks[c.slot] # None
        BY <1>4 DEF Meant, Licensed, DeclaredSize
    <2>5. QED
        BY <1>2, <2>2, <2>3, <2>4, NoGuestAssumption DEF Declared
<1>5. CASE c.op \in {"start", "stop"}
    <2>1. h = Powered(g, c)
        BY <1>1, <1>5, PerformElsewhere
    <2>2. /\ h.config = g.config /\ h.disks = g.disks /\ h \in Guest
          /\ h.power = IF c.op = "start" THEN "running" ELSE "stopped"
        BY <1>1, <2>1 DEF Powered, Guest
    <2>3. /\ c.op = "start" => m.run = "Always"
          /\ c.op = "stop" => m.run = "Halted"
        BY DEF Meant, Licensed, DeclaredPower
    <2>4. QED
        BY <1>2, <1>5, <2>2, <2>3, NoGuestAssumption DEF Declared
<1>6. QED
    BY <1>2, <1>3, <1>4, <1>5, CallOps

\* It takes no guest away from the manifests about it.
LEMMA TargetsStay ==
    ASSUME OneWay, NEW gs \in Cluster, NEW c \in Call, Accepts(gs, c),
           NEW m \in Manifests, Meant(gs, c, m),
           NEW n \in Manifests, NEW v \in VMIDs, v \in Targets(gs, n)
    PROVE  v \in Targets(Perform(gs, c), n)
<1> DEFINE g == gs[v]
           h == Perform(gs, c)[v]
<1>1. g # None /\ m \in Manifest /\ n \in Manifest /\ g \in Guest
    BY ManifestsAssumption DEF Targets, Named, Cluster
<1>2. CASE h = g
    BY <1>1, <1>2 DEF Targets, Named
<1>3. CASE h # g
    <2>1. h # None /\ v \in Targets(gs, m) /\ Declared(g, h, m)
        BY <1>1, <1>3, MeantChanges
    <2>2. CASE n.vmid # None
        BY <2>1, <2>2 DEF Targets
    <2>3. CASE n.vmid = None
        <3>1. /\ g.config["name"] = n.name /\ m.vmid = None /\ g.config["name"] = m.name
            BY <2>1, <2>3 DEF OneWay, Targets, Named
        <3>2. h.config["name"] = n.name
            BY <1>1, <2>1, <3>1, NameIsAKey DEF Declared
        <3>3. QED
            BY <2>1, <2>3, <3>2 DEF Targets, Named
    <2>4. QED
        BY <2>2, <2>3
<1>4. QED
    BY <1>2, <1>3

\* The guest a call brings into being is one its manifest is about.
LEMMA NewIsTarget ==
    ASSUME NEW gs \in Cluster, NEW m \in Manifest, NEW c \in Call,
           c.op \in {"create", "clone"}, Accepts(gs, c),
           c.config["name"] = m.name, m.vmid \in {None, c.vmid}
    PROVE  c.vmid \in Targets(Perform(gs, c), m)
<1> DEFINE h == Perform(gs, c)[c.vmid]
<1>1. c.vmid \in VMIDs /\ Perform(gs, c) \in Cluster
    BY CallOps, PerformType
<1>2. m.name # None
    BY NoneAssumption DEF Manifest, Scalar
<1>3. h # None /\ h.config["name"] = m.name
    <2>1. CASE c.op = "create"
        <3>1. h = Created(c) /\ c \in CreateCall
            BY <1>1, <2>1, CallOps DEF Perform, Cluster
        <3>2. QED
            BY <3>1, CreatedType, NoGuestAssumption DEF Created
    <2>2. CASE c.op = "clone"
        <3>1. /\ h = Cloned(gs[c.source.vmid], c) /\ c \in CloneCall
              /\ gs[c.source.vmid] \in Guest
            BY <1>1, <2>2, CallOps DEF Perform, Cluster, Accepts, Reaches, CloneCall, GuestRef
        <3>2. h \in Guest /\ h.config = Overlay(gs[c.source.vmid].config, c.config)
            <4>1. h \in Guest
                BY <3>1, ClonedType
            <4>2. QED
                BY <3>1, <4>1 DEF Cloned, Guest
        <3>3. h.config["name"] = m.name
            BY <1>2, <3>2, NameIsAKey DEF Overlay
        <3>4. QED
            BY <3>2, <3>3, NoGuestAssumption
    <2>3. QED
        BY <2>1, <2>2
<1>4. QED
    BY <1>1, <1>3 DEF Targets, Named

LEMMA CallsMeant ==
    ASSUME IInv, NEW p \in Procs, Aims(guests, pc[p], manifest[p], ref[p]),
           NEW c \in Calls(p)
    PROVE  /\ c \in Call /\ c.vmid = ref[p].vmid /\ Meant(guests, c, manifest[p])
           /\ pc[p] \in {"create", "clone"} =>
                /\ c.op \in {"create", "clone"} /\ c.config["name"] = manifest[p].name
                /\ manifest[p].vmid \in {None, c.vmid}
<1> DEFINE m == manifest[p]
<1>1. c \in Call /\ Licensed(c, m) /\ m \in Manifest
    BY CallsLicensed, Locals
<1>2. CASE pc[p] = "create"
    <2>1. c = Creation(m, ref[p].vmid)
        BY <1>2 DEF Calls
    <2>2. c.op = "create" /\ c.vmid = ref[p].vmid /\ c.config = Config(m)
        BY <2>1 DEF Creation
    <2>3. QED
        BY <1>1, <1>2, <2>2, NameIsAKey DEF Meant, Aims
<1>3. CASE pc[p] = "clone"
    <2>1. c = Cloning(m, ref[p].vmid, source[p])
        BY <1>3 DEF Calls
    <2>2. c.op = "clone" /\ c.vmid = ref[p].vmid /\ c.config = CloneConfig(m)
        BY <2>1 DEF Cloning
    <2>3. c.config["name"] = m.name
        BY <1>1, <2>2, NameIsAKey DEF CloneConfig
    <2>4. QED
        BY <1>1, <1>3, <2>2, <2>3 DEF Meant, Aims
<1>4. CASE pc[p] \in {"postclone", "update", "resize", "power"}
    <2>1. c.vmid = ref[p].vmid
        BY <1>4 DEF Calls, Update, Resize, Switch
    <2>2. ref[p].vmid \in Targets(guests, m)
        BY <1>4 DEF Aims, Standing
    <2>3. QED
        BY <1>1, <1>4, <2>1, <2>2 DEF Meant
<1>5. QED
    BY <1>2, <1>3, <1>4 DEF Calls

\* A guest a process knows is still its target once it has taken a step.
LEMMA TargetsAfterStep ==
    ASSUME OneWay, IInv, NEW p \in Procs, Aims(guests, pc[p], manifest[p], ref[p]),
           guests' = guests \/ Done(p)
    PROVE  /\ pc[p] \in Standing => ref[p].vmid \in Targets(guests', manifest[p])
           /\ Done(p) /\ pc[p] \in {"create", "clone"} =>
                ref[p].vmid \in Targets(guests', manifest[p])
<1>1. manifest[p] \in Manifests /\ manifest[p] \in Manifest /\ guests \in Cluster
    BY Locals DEF IInv
<1>2. CASE guests' = guests /\ ~Done(p)
    BY <1>2 DEF Aims
<1>3. CASE Done(p)
    <2>1. PICK c \in Calls(p) : Accepts(guests, c) /\ guests' = Perform(guests, c)
        BY <1>3 DEF Done, Admits
    <2>2. CASE pc[p] \in Standing
        <3>1. ref[p].vmid \in Targets(guests, manifest[p]) /\ ref[p].vmid \in VMIDs
            BY <2>1, <2>2, CallsMeant, CallOps DEF Aims
        <3>2. pc[p] \notin {"create", "clone"}
            BY <2>2 DEF Standing
        <3>3. QED
            BY <1>1, <2>1, <3>1, <3>2, CallsMeant, TargetsStay
    <2>3. CASE pc[p] \in {"create", "clone"}
        BY <1>1, <2>1, <2>3, CallsMeant, NewIsTarget DEF Standing
    <2>4. QED
        BY <2>2, <2>3
<1>4. QED
    BY <1>2, <1>3

LEMMA StepAims ==
    ASSUME OneWay, IInv, NEW p \in Procs, Aims(guests, pc[p], manifest[p], ref[p]),
           Start(p) \/ Step(p) \/ Fail(p) \/ TimeOut(p)
    PROVE  AimsNext(p)
<1> DEFINE m == manifest[p]
           Holds == ref[p].vmid \in Targets(guests', m)
<1>1. CASE \E outcome : Finish(p, outcome)
    BY <1>1, FinishKnows DEF AimsNext, Aims, Standing
<1>2. ASSUME NEW label, NEW target, NEW todo, Continue(p, label, target, todo),
             Aims(guests', label, m, target)
      PROVE  AimsNext(p)
    BY <1>2, ContinueKnows DEF AimsNext
<1>3. ASSUME NEW todo, Proceed(p, ref[p], todo), Holds
      PROVE  AimsNext(p)
    <2>1. CASE NextCall(todo) = "idle"
        BY <1>1, <1>3, <2>1 DEF Proceed
    <2>2. CASE NextCall(todo) # "idle"
        <3>1. NextCall(todo) \in {"update", "resize", "power"}
            BY <2>2 DEF NextCall
        <3>2. Aims(guests', NextCall(todo), m, ref[p])
            BY <1>3, <3>1 DEF Aims
        <3>3. QED
            BY <1>2, <1>3, <2>2, <3>2 DEF Proceed
    <2>3. QED
        BY <2>1, <2>2
<1>4. ASSUME Settle(p), Holds
      PROVE  AimsNext(p)
    <2>1. Aims(guests', "readpower", m, ref[p])
        BY <1>4 DEF Aims
    <2>2. QED
        BY <1>1, <1>2, <1>4, <2>1 DEF Settle
<1>5. ASSUME NotFound(p)
      PROVE  AimsNext(p)
    <2> DEFINE target == [vmid |-> m.vmid, node |-> m.node]
    <2>1. /\ m.vmid = None => Aims(guests', "nextid", m, None)
          /\ Aims(guests', "create", m, target) /\ Aims(guests', "findsource", m, target)
        BY DEF Aims, Standing
    <2>2. CASE \E outcome : Finish(p, outcome)
        BY <1>1, <2>2
    <2>3. CASE ~\E outcome : Finish(p, outcome)
        <3>1. CASE m.vmid = None
            <4>1. Continue(p, "nextid", None, NoPlan)
                BY <1>5, <2>3, <3>1 DEF NotFound
            <4>2. QED
                BY <1>2, <2>1, <3>1, <4>1
        <3>2. CASE m.vmid # None
            <4>1. \/ Continue(p, "create", target, NoPlan)
                  \/ Continue(p, "findsource", target, NoPlan)
                BY <1>5, <2>3, <3>2 DEF NotFound
            <4>2. QED
                BY <1>2, <2>1, <4>1
        <3>3. QED
            BY <3>1, <3>2
    <2>4. QED
        BY <2>2, <2>3
<1>6. ASSUME NEW v, Found(p, v), v \in Targets(guests, m), guests' = guests
      PROVE  AimsNext(p)
    <2> DEFINE target == [vmid |-> v, node |-> guests[v].node]
    <2>1. Aims(guests', "config", m, target) /\ Aims(guests', "summary", m, target)
        BY <1>6 DEF Aims
    <2>2. \/ \E outcome : Finish(p, outcome)
          \/ Continue(p, "config", target, NoPlan)
          \/ Continue(p, "summary", target, NoPlan)
        BY <1>6 DEF Found
    <2>3. QED
        BY <1>1, <1>2, <2>1, <2>2
<1>7. CASE Start(p)
    <2>1. pc'[p] \in {"idle", "resolve"}
        BY <1>7 DEF Start, Begin, Reject, Goto, IInv, LocalsOK
    <2>2. QED
        BY <2>1 DEF AimsNext, Aims, Standing
<1>8. CASE Refused(p) \/ Fail(p) \/ TimeOut(p) \/ SwitchPower(p) \/ NoNextID(p)
    BY <1>1, <1>8 DEF Refused, Fail, TimeOut, SwitchPower, NoNextID
<1>9. CASE CheckName(p)
    BY <1>1, <1>5, <1>9 DEF CheckName
<1>10. CASE Resolve(p)
    <2>1. guests' = guests
        BY <1>10 DEF Resolve, Reads
    <2>2. CASE m.vmid # None
        <3>1. CASE guests[m.vmid] # None
            BY <1>6, <1>10, <2>1, <2>2, <3>1 DEF Resolve, Targets
        <3>2. CASE guests[m.vmid] = None
            <4>1. Continue(p, "checkname", None, NoPlan)
                BY <1>10, <2>2, <3>2 DEF Resolve
            <4>2. Aims(guests', "checkname", m, None)
                BY DEF Aims, Standing
            <4>3. QED
                BY <1>2, <4>1, <4>2
        <3>3. QED
            BY <3>1, <3>2
    <2>3. CASE m.vmid = None
        <3>1. \/ NotFound(p)
              \/ \E v \in Named(guests, m.name) : Found(p, v)
              \/ Finish(p, "failed")
            BY <1>10, <2>3 DEF Resolve
        <3>2. Targets(guests, m) = Named(guests, m.name)
            BY <2>3 DEF Targets
        <3>3. QED
            BY <1>1, <1>5, <1>6, <2>1, <3>1, <3>2
    <2>4. QED
        BY <2>2, <2>3
<1>11. CASE NextID(p)
    <2>1. PICK v \in VMIDs, label \in {"create", "findsource"} :
            Continue(p, label, [vmid |-> v, node |-> m.node], NoPlan)
        BY <1>11 DEF NextID
    <2>2. m.vmid = None
        BY <1>11 DEF NextID, Reads, Aims
    <2>3. Aims(guests', label, m, [vmid |-> v, node |-> m.node])
        BY <2>2 DEF Aims, Standing
    <2>4. QED
        BY <1>2, <2>1, <2>3
<1>12. CASE FindSource(p)
    <2>1. CASE Finish(p, "failed")
        BY <1>1, <2>1
    <2>2. CASE ~Finish(p, "failed")
        <3>1. /\ pc[p] = "findsource" /\ pc'[p] = "clone"
              /\ UNCHANGED <<manifest, ref>>
            BY <1>12, <2>2 DEF FindSource, Reads, Goto, IInv, LocalsOK
        <3>2. QED
            BY <3>1 DEF AimsNext, Aims, Standing
    <2>3. QED
        BY <2>1, <2>2
<1>13. CASE Create(p) \/ PostClone(p)
    <2>1. Done(p) /\ Settle(p) /\ pc[p] \in {"create", "postclone"}
        BY <1>13 DEF Create, PostClone
    <2>2. Holds
        BY <2>1, TargetsAfterStep DEF Standing
    <2>3. QED
        BY <1>4, <2>1, <2>2
<1>14. CASE Clone(p)
    <2>1. Done(p) /\ pc[p] = "clone" /\ Continue(p, "postclone", ref[p], NoPlan)
        BY <1>14 DEF Clone
    <2>2. Holds
        BY <2>1, TargetsAfterStep
    <2>3. Aims(guests', "postclone", m, ref[p])
        BY <2>2 DEF Aims
    <2>4. QED
        BY <1>2, <2>1, <2>3
<1>15. CASE ReadPower(p) \/ ReadSummary(p) \/ ReadConfig(p)
    <2>1. guests' = guests /\ pc[p] \in Standing
        BY <1>15 DEF ReadPower, ReadSummary, ReadConfig, Reads, Standing
    <2>2. Holds
        BY <2>1, TargetsAfterStep
    <2>3. Aims(guests', "config", m, ref[p])
        BY <2>2 DEF Aims
    <2>4. \/ \E outcome : Finish(p, outcome)
          \/ \E todo : Proceed(p, ref[p], todo) \/ Continue(p, "config", ref[p], todo)
        BY <1>15 DEF ReadPower, ReadSummary, ReadConfig, Decide
    <2>5. QED
        BY <1>1, <1>2, <1>3, <2>2, <2>3, <2>4
<1>16. CASE UpdateConfig(p) \/ ResizeDisk(p)
    <2>1. Done(p) /\ pc[p] \in Standing /\ \E todo : Proceed(p, ref[p], todo)
        BY <1>16 DEF UpdateConfig, ResizeDisk, Standing
    <2>2. Holds
        BY <2>1, TargetsAfterStep
    <2>3. QED
        BY <1>3, <2>1, <2>2
<1>17. QED
    BY <1>7, <1>8, <1>9, <1>10, <1>11, <1>12, <1>13, <1>14, <1>15, <1>16 DEF Step

OnTarget ==
    /\ \A p \in Procs : Aims(guests, pc[p], manifest[p], ref[p])
    /\ \A c \in tasks : \E m \in Manifests : Meant(guests, c, m)

\* While nobody else works on the cluster, it changes by calls that are meant.
LEMMA ChangesAreMeant ==
    ASSUME MaxMoves = 0, IInv, OnTarget, Next
    PROVE  \/ guests' = guests
           \/ \E c \in Call, m \in Manifests :
                Accepts(guests, c) /\ Meant(guests, c, m) /\ guests' = Perform(guests, c)
<1>1. ASSUME NEW p \in Procs, Done(p)
      PROVE  \E c \in Call, m \in Manifests :
                Accepts(guests, c) /\ Meant(guests, c, m) /\ guests' = Perform(guests, c)
    <2>1. PICK c \in Calls(p) : Accepts(guests, c) /\ guests' = Perform(guests, c)
        BY <1>1 DEF Done, Admits
    <2>2. c \in Call /\ Meant(guests, c, manifest[p]) /\ manifest[p] \in Manifests
        BY CallsMeant, Locals DEF OnTarget
    <2>3. QED
        BY <2>1, <2>2
<1>2. ASSUME NEW c \in tasks, TaskEnds(c), guests' # guests
      PROVE  \E m \in Manifests :
                /\ c \in Call /\ Accepts(guests, c) /\ Meant(guests, c, m)
                /\ guests' = Perform(guests, c)
    BY <1>2 DEF TaskEnds, OnTarget, IInv, TasksOK
<1>3. ASSUME NEW v \in VMIDs, Operator(v)
      PROVE  FALSE
    BY <1>3 DEF Operator, IInv, BudgetsOK
<1>4. ASSUME NEW p \in Procs, Start(p) \/ Step(p) \/ Fail(p) \/ TimeOut(p), ~Done(p)
      PROVE  guests' = guests
    BY <1>4
       DEF Start, Begin, Reject, Step, Resolve, CheckName, NextID, NoNextID,
           Create, FindSource, Clone, PostClone, ReadPower, ReadSummary,
           ReadConfig, UpdateConfig, ResizeDisk, SwitchPower, Refused, Fail, TimeOut, Reads
<1>5. QED
    BY <1>1, <1>2, <1>3, <1>4 DEF Next

LEMMA TargetsRemain ==
    ASSUME OneWay, MaxMoves = 0, IInv, OnTarget, Next,
           NEW n \in Manifests, NEW v \in Targets(guests, n)
    PROVE  v \in Targets(guests', n)
<1>1. v \in VMIDs
    BY ManifestsAssumption DEF Targets, Named, Manifest
<1>2. guests \in Cluster
    BY DEF IInv
<1>3. QED
    BY <1>1, <1>2, ChangesAreMeant, TargetsStay

LEMMA OnTargetStays ==
    ASSUME OneWay, MaxMoves = 0
    PROVE  Spec => []OnTarget
<1>1. Init => OnTarget
    BY DEF Init, OnTarget, Aims, Standing
<1>2. IInv /\ OnTarget /\ [Next]_vars => OnTarget'
    <2> SUFFICES ASSUME IInv, OnTarget, [Next]_vars PROVE OnTarget'
        OBVIOUS
    <2>1. CASE UNCHANGED vars
        <3>1. UNCHANGED <<guests, tasks, pc, manifest, ref>>
            BY <2>1 DEF vars, locals
        <3>2. ASSUME NEW m PROVE Targets(guests, m)' = Targets(guests, m)
            BY <3>1 DEF Targets, Named
        <3>3. QED
            BY <3>1, <3>2 DEF OnTarget, Aims, Meant
    <2>2. CASE Next
        <3>1. ASSUME NEW q \in Procs
              PROVE  AimsNext(q)
            <4>1. CASE UNCHANGED locals
                <5>1. manifest[q] \in Manifests
                    BY Locals
                <5>2. pc[q] \in Standing => ref[q].vmid \in Targets(guests', manifest[q])
                    BY <2>2, <5>1, TargetsRemain DEF OnTarget, Aims
                <5>3. QED
                    BY <4>1, <5>2 DEF OnTarget, AimsNext, Aims, locals
            <4>2. ASSUME NEW p \in Procs, Start(p) \/ Step(p) \/ Fail(p) \/ TimeOut(p)
                  PROVE  AimsNext(q)
                <5>1. CASE q = p
                    BY <4>2, <5>1, StepAims DEF OnTarget
                <5>2. CASE q # p
                    <6>1. /\ pc'[q] = pc[q] /\ manifest'[q] = manifest[q] /\ ref'[q] = ref[q]
                          /\ manifest[q] \in Manifests
                        BY <4>2, <5>2, OthersStay, Locals
                    <6>2. pc[q] \in Standing => ref[q].vmid \in Targets(guests', manifest[q])
                        BY <2>2, <6>1, TargetsRemain DEF OnTarget, Aims
                    <6>3. QED
                        BY <6>1, <6>2 DEF OnTarget, AimsNext, Aims
                <5>3. QED
                    BY <5>1, <5>2
            <4>3. QED
                BY <2>2, <4>1, <4>2 DEF Next, TaskEnds, Operator
        <3>2. ASSUME NEW c \in tasks'
              PROVE  \E m \in Manifests : Meant(guests', c, m)
            <4>1. PICK m \in Manifests : Meant(guests, c, m)
                <5>1. CASE c \in tasks
                    BY <5>1 DEF OnTarget
                <5>2. CASE c \notin tasks
                    <6>1. PICK p \in Procs : c \in Calls(p)
                        BY <2>2, <3>2, <5>2
                           DEF Next, Start, Begin, Reject, Step, Resolve, CheckName,
                               NextID, NoNextID, Create, FindSource, Clone, PostClone,
                               ReadPower, ReadSummary, ReadConfig, UpdateConfig,
                               ResizeDisk, SwitchPower, Refused, Fail, TimeOut, Reads,
                               Done, TaskEnds, Operator
                    <6>2. QED
                        BY <6>1, CallsMeant, Locals DEF OnTarget
                <5>3. QED
                    BY <5>1, <5>2
            <4>2. QED
                BY <2>2, <4>1, TargetsRemain DEF Meant
        <3>3. QED
            BY <3>1, <3>2 DEF OnTarget, AimsNext
    <2>3. QED
        BY <2>1, <2>2
<1>3. QED
    BY <1>1, <1>2, Invariance, PTL DEF Spec

(***************************************************************************)
(* Any number of pvectl at once, dying and giving up on tasks that go on,  *)
(* but nobody else at work, and manifests that all go by their name or all *)
(* by their vmid: every change of a guest is to a key, a disk or a power   *)
(* state that a manifest about that guest declares, and no guest goes.     *)
(***************************************************************************)
THEOREM ChangesAreDeclared ==
    ASSUME OneWay, MaxMoves = 0
    PROVE  Spec => OnlyDeclaredChanges
<1> DEFINE AsDeclared == moves' = moves =>
        \A v \in VMIDs : guests[v] # None /\ guests'[v] # guests[v] =>
            /\ guests'[v] # None
            /\ \E m \in Manifests : /\ v \in Targets(guests, m)
                                    /\ Declared(guests[v], guests'[v], m)
<1>1. IInv /\ OnTarget /\ [Next]_vars => [AsDeclared]_vars
    <2> SUFFICES ASSUME IInv, OnTarget, Next, NEW v \in VMIDs, guests[v] # None,
                        guests'[v] # guests[v]
                 PROVE  /\ guests'[v] # None
                        /\ \E m \in Manifests : /\ v \in Targets(guests, m)
                                                /\ Declared(guests[v], guests'[v], m)
        OBVIOUS
    <2>1. guests \in Cluster
        BY DEF IInv
    <2>2. PICK c \in Call, m \in Manifests :
            Accepts(guests, c) /\ Meant(guests, c, m) /\ guests' = Perform(guests, c)
        BY ChangesAreMeant
    <2>3. QED
        BY <2>1, <2>2, MeantChanges
<1>2. QED
    BY <1>1, OnTargetStays, Invariance, PTL DEF Spec, OnlyDeclaredChanges

-----------------------------------------------------------------------------
(***************************************************************************)
(* Several runs at once on guests that are there.  Manifests about one     *)
(* guest that declare no key and no disk differently get on with each      *)
(* other: what one of them has established or still has to do stays so     *)
(* through every call of another.                                          *)
(***************************************************************************)
Compatible(m, n) ==
    /\ \A k \in Keys \ {"cipassword"} :
        None \in {Config(m)[k], Config(n)[k]} \/ Config(m)[k] = Config(n)[k]
    /\ \A s \in Slots : None \in {m.disks[s], n.disks[s]} \/ m.disks[s] = n.disks[s]

Placed(gs) == \A m \in Manifests : \E v \in VMIDs : Targets(gs, m) = {v}

Peaceful(gs) ==
    \A m, n \in Manifests : Targets(gs, m) = Targets(gs, n) => Compatible(m, n)

\* An option is set by sending the disk with the size it had when it was read.
PlainDisks ==
    \A m \in Manifests, s \in Slots : m.disks[s] # None =>
        \A o \in OptKeys : m.disks[s].opts[o] = None

Direct == {"resolve", "summary", "config", "update", "resize", "power"}

Allocates(writes) == \A s \in Slots : writes[s] # None => writes[s].form = "allocate"

Gentle(c) ==
    /\ c.op \in {"update", "resize", "start", "stop"}
    /\ c.op = "update" => Allocates(c.disks)

There(cur, des) == cur # None /\ cur.storage = des.storage

KeysOwed(g, m, config) ==
    \A k \in Keys \ {"cipassword"} : Config(m)[k] \in {None, g.config[k], config[k]}

DisksOwed(g, m, disks, sizes) ==
    \A s \in Slots : m.disks[s] # None =>
        \/ ~DiskDiffers(g.disks[s], m.disks[s])
        \/ disks[s] = Allocate(m.disks[s])
        \/ There(g.disks[s], m.disks[s]) /\ sizes[s] # None

PowerOwed(g, m, power) == PlannedPower(m, g.power) \in {"none", power}

\* What the manifest declares is so, or still in the plan.
Owes(g, m, todo) ==
    /\ m.pool \in {None, g.pool} /\ PowerOwed(g, m, todo.power)
    /\ KeysOwed(g, m, todo.config)
    /\ DisksOwed(g, m, todo.disks, todo.sizes)

Owing(g, label, m, todo) ==
    /\ g.type = "qemu" /\ g.node = m.node
    /\ label = "config" => m.pool \in {None, g.pool} /\ PowerOwed(g, m, todo.power)
    /\ label \in {"update", "resize", "power"} => label = NextCall(todo) /\ Owes(g, m, todo)

Progress(gs, label, m, md, r, todo, outcome) ==
    /\ label \in Direct \cup {"idle"}
    /\ Allocates(todo.disks)
    /\ md = "apply" =>
        /\ label \notin {"idle", "resolve"} => Owing(gs[r.vmid], label, m, todo)
        /\ label = "idle" /\ outcome \in Successes => Converged(gs, m)

ProgressNext(p) ==
    Progress(guests', pc'[p], manifest'[p], mode'[p], ref'[p], plan'[p], result'[p])

(***************************************************************************)
(* A plain disk differs in its storage or its size.                        *)
(***************************************************************************)
LEMMA PlainDiffers ==
    ASSUME PlainDisks, NEW m \in Manifests, NEW s \in Slots, m.disks[s] # None, NEW cur
    PROVE  DiskDiffers(cur, m.disks[s]) <=>
             \/ cur = None
             \/ m.disks[s].storage # cur.storage
             \/ m.disks[s].size # cur.size
BY DEF PlainDisks, DiskDiffers

LEMMA PlainRebuilt ==
    ASSUME PlainDisks, NEW m \in Manifests, NEW s \in Slots, m.disks[s] # None,
           NEW cur \in Disk
    PROVE  RebuiltDisk(cur, m.disks[s]) = None
<1>1. MergedOpts(cur, m.disks[s]) = cur.opts
    BY DEF PlainDisks, MergedOpts, Disk, Opts
<1>2. QED
    BY <1>1 DEF RebuiltDisk

LEMMA PowerAgrees ==
    ASSUME NEW m \in Manifest, NEW n \in Manifest, Compatible(m, n)
    PROVE  ~(m.run = "Always" /\ n.run = "Halted")
<1>1. /\ "onboot" \in Keys \ {"cipassword"}
      /\ Config(m)["onboot"] = Onboot(m.run) /\ Config(n)["onboot"] = Onboot(n.run)
    BY DEF Keys, OwnKeys, Config
<1>2. "1" # None /\ "0" # None
    BY NoneAssumption DEF Scalar
<1>3. QED
    BY <1>1, <1>2 DEF Compatible, Onboot

LEMMA CompatibleEitherWay ==
    ASSUME NEW m, NEW n, Compatible(m, n)
    PROVE  Compatible(n, m)
BY DEF Compatible

(***************************************************************************)
(* What a call of another run leaves as it was.                            *)
(***************************************************************************)
LEMMA GentleSpares ==
    ASSUME PlainDisks, NEW gs \in Cluster, NEW n \in Manifests,
           NEW c \in Call, Accepts(gs, c), Meant(gs, c, n), Gentle(c),
           NEW m \in Manifests, NEW v \in VMIDs, gs[v] # None,
           c.vmid = v => Compatible(m, n)
    PROVE  LET g == gs[v]
               h == Perform(gs, c)[v]
           IN  /\ g \in Guest /\ h \in Guest /\ h # None
               /\ h.type = g.type /\ h.node = g.node /\ h.pool = g.pool
               /\ \A k \in Keys \ {"cipassword"} :
                    Config(m)[k] \in {None, g.config[k]} => Config(m)[k] \in {None, h.config[k]}
               /\ \A s \in Slots : m.disks[s] # None =>
                    /\ ~DiskDiffers(g.disks[s], m.disks[s]) =>
                         ~DiskDiffers(h.disks[s], m.disks[s])
                    /\ There(g.disks[s], m.disks[s]) => There(h.disks[s], m.disks[s])
               /\ PlannedPower(m, g.power) = "none" => PlannedPower(m, h.power) = "none"
<1> DEFINE g == gs[v]
           h == Perform(gs, c)[v]
<1>1. /\ g \in Guest /\ m \in Manifest /\ n \in Manifest /\ Licensed(c, n)
    BY ManifestsAssumption DEF Cluster, Meant
<1>2. CASE c.vmid # v
    BY <1>1, <1>2, PerformElsewhere
<1>3. CASE c.vmid = v /\ c.op = "update"
    <2>1. h = Updated(g, c) /\ c \in UpdateCall
        BY <1>1, <1>3, PerformElsewhere, CallOps
    <2>2. h \in Guest /\ h # None
        BY <1>1, <2>1, UpdatedType, NoGuestAssumption
    <2>3. /\ h.type = g.type /\ h.node = g.node /\ h.pool = g.pool /\ h.power = g.power
          /\ h.config = Overlay(g.config, c.config) /\ h.disks = Written(g.disks, c.disks)
        BY <1>1, <2>1, <2>2 DEF Updated, Guest
    <2>4. /\ DeclaredKeys(c.config, n) /\ DeclaredDisks(c.disks, n)
          /\ Allocates(c.disks) /\ Compatible(m, n)
        BY <1>1, <1>3 DEF Licensed, Gentle
    <2>5. ASSUME NEW k \in Keys \ {"cipassword"}, Config(m)[k] \in {None, g.config[k]}
          PROVE  Config(m)[k] \in {None, h.config[k]}
        BY <2>3, <2>4, <2>5 DEF Overlay, DeclaredKeys, Compatible
    <2>6. ASSUME NEW s \in Slots, m.disks[s] # None
          PROVE  \/ h.disks[s] = g.disks[s]
                 \/ /\ ~DiskDiffers(h.disks[s], m.disks[s])
                    /\ There(h.disks[s], m.disks[s])
        <3>1. CASE c.disks[s] = None
            BY <2>3, <3>1 DEF Written
        <3>2. CASE c.disks[s] # None
            <4>1. n.disks[s] # None /\ c.disks[s] = Allocate(n.disks[s])
                BY <2>4, <3>2 DEF DeclaredDisks, DeclaredDisk, Allocates
            <4>2. n.disks[s] = m.disks[s]
                BY <2>4, <2>6, <4>1 DEF Compatible
            <4>3. h.disks[s] = Stored(Allocate(m.disks[s]))
                BY <2>3, <3>2, <4>1, <4>2 DEF Written
            <4>4. h.disks[s] \in Disk \cup {None} /\ Stored(Allocate(m.disks[s])) \in Disk
                BY <1>1, <2>2, <2>6 DEF Guest, Disks, Manifest, Stored, Allocate, Disk
            <4>5. h.disks[s] # None
                BY <4>3, <4>4, NoDiskAssumption
            <4>6. QED
                BY <2>6, <4>3, <4>5, PlainDiffers DEF Stored, Allocate, There
        <3>3. QED
            BY <3>1, <3>2
    <2>7. QED
        BY <1>1, <2>2, <2>3, <2>5, <2>6
<1>4. CASE c.vmid = v /\ c.op = "resize"
    <2>1. h = Resized(g, c) /\ c \in ResizeCall /\ g.disks[c.slot] # None
        BY <1>1, <1>4, PerformElsewhere, CallOps DEF Accepts
    <2>2. h \in Guest /\ h # None
        BY <1>1, <2>1, ResizedType, NoGuestAssumption
    <2>3. /\ h.type = g.type /\ h.node = g.node /\ h.pool = g.pool /\ h.power = g.power
          /\ h.config = g.config
          /\ h.disks = [g.disks EXCEPT ![c.slot].size = c.size]
        BY <1>1, <2>1 DEF Resized, Guest
    <2>4. c.slot \in Slots /\ n.disks[c.slot] # None /\ c.size = n.disks[c.slot].size
        BY <1>1, <1>4, <2>1 DEF Licensed, DeclaredSize, ResizeCall
    <2>5. ASSUME NEW s \in Slots, m.disks[s] # None, s = c.slot
          PROVE  /\ h.disks[s] # None /\ h.disks[s].storage = g.disks[s].storage
                 /\ h.disks[s].size = m.disks[s].size
        <3>1. n.disks[s] = m.disks[s]
            BY <1>4, <2>4, <2>5 DEF Compatible
        <3>2. g.disks \in Disks /\ g.disks[s] \in Disk
            BY <1>1, <2>1, <2>5 DEF Guest, Disks
        <3>3. /\ h.disks[s] = [g.disks[s] EXCEPT !.size = c.size]
              /\ h.disks[s] \in Disk
            BY <2>1, <2>3, <2>5, <3>2 DEF Disks, Disk, ResizeCall
        <3>4. QED
            BY <2>4, <2>5, <3>1, <3>2, <3>3, NoDiskAssumption DEF Disk
    <2>6. ASSUME NEW s \in Slots, s # c.slot
          PROVE  h.disks[s] = g.disks[s]
        BY <1>1, <2>3, <2>6 DEF Guest, Disks
    <2>7. ASSUME NEW s \in Slots, m.disks[s] # None
          PROVE  /\ ~DiskDiffers(g.disks[s], m.disks[s]) =>
                      ~DiskDiffers(h.disks[s], m.disks[s])
                 /\ There(g.disks[s], m.disks[s]) => There(h.disks[s], m.disks[s])
        BY <2>5, <2>6, <2>7, PlainDiffers DEF There
    <2>8. QED
        BY <1>1, <2>2, <2>3, <2>7
<1>5. CASE c.vmid = v /\ c.op \in {"start", "stop"}
    <2>1. h = Powered(g, c)
        BY <1>1, <1>5, PerformElsewhere
    <2>2. /\ h \in Guest /\ h # None
          /\ h.type = g.type /\ h.node = g.node /\ h.pool = g.pool
          /\ h.config = g.config /\ h.disks = g.disks
          /\ h.power = IF c.op = "start" THEN "running" ELSE "stopped"
        BY <1>1, <2>1, NoGuestAssumption DEF Powered, Guest
    <2>3. /\ c.op = "start" => n.run = "Always"
          /\ c.op = "stop" => n.run = "Halted"
        BY <1>1 DEF Licensed, DeclaredPower
    <2>4. ~(m.run = "Always" /\ n.run = "Halted") /\ ~(n.run = "Always" /\ m.run = "Halted")
        BY <1>1, <1>5, PowerAgrees, CompatibleEitherWay
    <2>5. PlannedPower(m, h.power) = "none"
        BY <1>5, <2>2, <2>3, <2>4 DEF PlannedPower
    <2>6. QED
        BY <1>1, <2>2, <2>5
<1>6. QED
    BY <1>2, <1>3, <1>4, <1>5 DEF Gentle

\* It neither adds a guest to the ones a manifest is about nor takes one away.
LEMMA GentleKeepsTargets ==
    ASSUME OneWay, NEW gs \in Cluster, NEW n \in Manifests,
           NEW c \in Call, Accepts(gs, c), Meant(gs, c, n), Gentle(c),
           NEW m \in Manifests
    PROVE  Targets(Perform(gs, c), m) = Targets(gs, m)
<1> DEFINE hs == Perform(gs, c)
<1>1. m \in Manifest /\ n \in Manifest
    BY ManifestsAssumption
<1>2. ASSUME NEW v \in VMIDs
      PROVE  gs[v] = None => hs[v] = None
    <2>1. c.vmid \in VMIDs /\ gs[c.vmid] # None
        BY CallOps DEF Gentle, Accepts, Reaches
    <2>2. QED
        BY <2>1, PerformElsewhere
<1>3. ASSUME NEW v \in Targets(hs, m)
      PROVE  v \in Targets(gs, m)
    <2>1. v \in VMIDs /\ hs[v] # None /\ gs[v] # None
        BY <1>1, <1>2, <1>3 DEF Targets, Named, Manifest
    <2>2. CASE m.vmid # None
        BY <1>3, <2>1, <2>2 DEF Targets
    <2>3. CASE m.vmid = None
        <3>1. hs[v].config["name"] = m.name
            BY <1>3, <2>3 DEF Targets, Named
        <3>2. CASE hs[v] = gs[v]
            BY <2>1, <2>3, <3>1, <3>2 DEF Targets, Named
        <3>3. CASE hs[v] # gs[v]
            <4>1. v \in Targets(gs, n) /\ Declared(gs[v], hs[v], n)
                BY <2>1, <3>3, MeantChanges
            <4>2. gs[v].config["name"] = n.name
                BY <2>3, <4>1 DEF OneWay, Targets, Named
            <4>3. gs[v].config["name"] = m.name
                BY <1>1, <3>1, <4>1, <4>2, NameIsAKey DEF Declared
            <4>4. QED
                BY <2>1, <2>3, <4>3 DEF Targets, Named
        <3>4. QED
            BY <3>2, <3>3
    <2>4. QED
        BY <2>2, <2>3
<1>4. ASSUME NEW v \in Targets(gs, m)
      PROVE  v \in Targets(hs, m)
    <2>1. v \in VMIDs
        BY <1>1, <1>4 DEF Targets, Named, Manifest
    <2>2. QED
        BY <1>4, <2>1, TargetsStay
<1>5. QED
    BY <1>3, <1>4

\* The two manifests of a call and of a run on the same guest.
LEMMA SharersAgree ==
    ASSUME NEW gs, Placed(gs), Peaceful(gs), NEW m \in Manifests, NEW n \in Manifests,
           NEW v, v \in Targets(gs, m), v \in Targets(gs, n)
    PROVE  Compatible(m, n)
<1>1. Targets(gs, m) = {v} /\ Targets(gs, n) = {v}
    BY DEF Placed
<1>2. QED
    BY <1>1 DEF Peaceful

LEMMA AgreesWhen ==
    ASSUME PlainDisks, NEW m \in Manifests, NEW g \in Guest
    PROVE  Agrees(g, m) <=>
             /\ g.type = "qemu" /\ g.node = m.node
             /\ m.pool \in {None, g.pool}
             /\ \A k \in Keys \ {"cipassword"} : Config(m)[k] \in {None, g.config[k]}
             /\ \A s \in Slots : m.disks[s] # None => ~DiskDiffers(g.disks[s], m.disks[s])
             /\ PlannedPower(m, g.power) = "none"
<1>1. m \in Manifest /\ g.power \in {"running", "stopped"}
    BY ManifestsAssumption DEF Guest
<1>2. PlannedPower(m, g.power) = "none" <=>
        /\ m.run = "Always" => g.power = "running"
        /\ m.run = "Halted" => g.power = "stopped"
    BY <1>1 DEF PlannedPower, Manifest, RunStrategies
<1>3. ASSUME NEW s \in Slots, m.disks[s] # None
      PROVE  ~DiskDiffers(g.disks[s], m.disks[s]) <=>
                /\ g.disks[s] # None
                /\ g.disks[s].storage = m.disks[s].storage
                /\ g.disks[s].size = m.disks[s].size
                /\ \A o \in OptKeys : m.disks[s].opts[o] \in {None, g.disks[s].opts[o]}
    BY <1>3, PlainDiffers DEF PlainDisks
<1>4. QED
    BY <1>2, <1>3 DEF Agrees

(***************************************************************************)
(* A run under way, and a run that ended, look at the same after a call of *)
(* another run.                                                            *)
(***************************************************************************)
LEMMA ProgressStays ==
    ASSUME OneWay, PlainDisks,
           NEW gs \in Cluster, Placed(gs), Peaceful(gs), NEW n \in Manifests,
           NEW c \in Call, Accepts(gs, c), Meant(gs, c, n), Gentle(c),
           NEW m \in Manifests, NEW label, NEW md, NEW r, NEW todo, NEW outcome,
           Aims(gs, label, m, r), Progress(gs, label, m, md, r, todo, outcome)
    PROVE  Progress(Perform(gs, c), label, m, md, r, todo, outcome)
<1> DEFINE hs == Perform(gs, c)
<1>1. m \in Manifest
    BY ManifestsAssumption
<1>2. ASSUME NEW v \in Targets(gs, m)
      PROVE  /\ v \in VMIDs /\ gs[v] # None
             /\ c.vmid = v => Compatible(m, n)
    <2>1. v \in VMIDs /\ gs[v] # None
        BY <1>1, <1>2 DEF Targets, Named, Manifest
    <2>2. c.vmid = v => v \in Targets(gs, n)
        BY DEF Meant, Gentle
    <2>3. QED
        BY <1>2, <2>1, <2>2, SharersAgree
<1>3. ASSUME md = "apply", label \notin {"idle", "resolve"}
      PROVE  Owing(hs[r.vmid], label, m, todo)
    <2> DEFINE g == gs[r.vmid]
               h == hs[r.vmid]
    <2>1. Owing(g, label, m, todo)
        BY <1>3 DEF Progress
    <2>2. r.vmid \in Targets(gs, m)
        BY <1>3 DEF Progress, Aims, Direct, Standing
    <2>3. /\ g \in Guest /\ h \in Guest /\ h # None
          /\ h.type = g.type /\ h.node = g.node /\ h.pool = g.pool
          /\ \A k \in Keys \ {"cipassword"} :
               Config(m)[k] \in {None, g.config[k]} => Config(m)[k] \in {None, h.config[k]}
          /\ \A s \in Slots : m.disks[s] # None =>
               /\ ~DiskDiffers(g.disks[s], m.disks[s]) =>
                    ~DiskDiffers(h.disks[s], m.disks[s])
               /\ There(g.disks[s], m.disks[s]) => There(h.disks[s], m.disks[s])
          /\ PlannedPower(m, g.power) = "none" => PlannedPower(m, h.power) = "none"
        BY <1>2, <2>2, GentleSpares
    <2> HIDE DEF g, h
    <2>4. PowerOwed(g, m, todo.power) => PowerOwed(h, m, todo.power)
        BY <2>3 DEF PowerOwed, PlannedPower
    <2>5. KeysOwed(g, m, todo.config) => KeysOwed(h, m, todo.config)
        BY <2>3 DEF KeysOwed
    <2>6. DisksOwed(g, m, todo.disks, todo.sizes) => DisksOwed(h, m, todo.disks, todo.sizes)
        BY <2>3 DEF DisksOwed
    <2>7. Owing(h, label, m, todo)
        BY <2>1, <2>3, <2>4, <2>5, <2>6 DEF Owing, Owes
    <2>8. QED
        BY <2>7 DEF h
<1>4. ASSUME Converged(gs, m)
      PROVE  Converged(hs, m)
    <2>1. PICK v \in Targets(gs, m) : Targets(gs, m) = {v} /\ Agrees(gs[v], m)
        BY <1>4 DEF Converged
    <2>2. gs[v] \in Guest /\ hs[v] \in Guest /\ Agrees(hs[v], m)
        BY <1>2, <2>1, GentleSpares, AgreesWhen
    <2>3. Targets(hs, m) = {v}
        BY <2>1, GentleKeepsTargets
    <2>4. QED
        BY <2>2, <2>3 DEF Converged
<1>5. QED
    BY <1>3, <1>4 DEF Progress

-----------------------------------------------------------------------------
(***************************************************************************)
(* What a step leaves of its own process.                                  *)
(***************************************************************************)
LEMMA FinishProgress ==
    ASSUME IInv, NEW p \in Procs, NEW outcome, Finish(p, outcome),
           mode[p] = "apply" /\ outcome \in Successes => Converged(guests', manifest[p])
    PROVE  ProgressNext(p)
<1>1. plan'[p] = NoPlan
    BY DEF Finish, IInv, LocalsOK
<1>2. QED
    BY <1>1, FinishKnows DEF ProgressNext, Progress, Allocates, NoPlan, NoWrites

LEMMA NothingOwed ==
    ASSUME PlainDisks, NEW gs \in Cluster, NEW m \in Manifests, NEW v \in VMIDs,
           Targets(gs, m) = {v}, gs[v] \in Guest, gs[v].type = "qemu", gs[v].node = m.node,
           NEW todo \in Plan, Owes(gs[v], m, todo), NextCall(todo) = "idle"
    PROVE  Converged(gs, m)
<1> DEFINE g == gs[v]
<1>1. m \in Manifest /\ m.disks \in Disks
    BY ManifestsAssumption DEF Manifest
<1>2. /\ todo.config = NoParams /\ todo.disks = NoWrites /\ todo.sizes = NoWrites
      /\ todo.power = "none"
    BY DEF NextCall, Plan, HasWrites
<1>3. \A k \in Keys \ {"cipassword"} : Config(m)[k] \in {None, g.config[k]}
    BY <1>2 DEF Owes, KeysOwed, NoParams
<1>4. ASSUME NEW s \in Slots, m.disks[s] # None
      PROVE  ~DiskDiffers(g.disks[s], m.disks[s])
    <2>1. Allocate(m.disks[s]) \in DiskWrite
        BY <1>1, <1>4 DEF Disks, Disk, Allocate, DiskWrite
    <2>2. Allocate(m.disks[s]) # None
        BY <2>1, NoDiskAssumption
    <2>3. QED
        BY <1>2, <1>4, <2>2 DEF Owes, DisksOwed, NoWrites
<1>5. PlannedPower(m, g.power) = "none" /\ m.pool \in {None, g.pool}
    BY <1>2 DEF Owes, PowerOwed
<1>6. Agrees(g, m)
    BY <1>3, <1>4, <1>5, AgreesWhen
<1>7. QED
    BY <1>6 DEF Converged

LEMMA ProceedProgress ==
    ASSUME PlainDisks, IInv, NEW p \in Procs, guests' \in Cluster, ref[p].vmid \in VMIDs,
           Targets(guests', manifest[p]) = {ref[p].vmid},
           guests'[ref[p].vmid] \in Guest, guests'[ref[p].vmid].type = "qemu",
           guests'[ref[p].vmid].node = manifest[p].node,
           NEW todo \in Plan, Allocates(todo.disks),
           Owes(guests'[ref[p].vmid], manifest[p], todo),
           Proceed(p, ref[p], todo)
    PROVE  ProgressNext(p)
<1>1. CASE NextCall(todo) = "idle"
    <2>1. Converged(guests', manifest[p])
        BY <1>1, Locals, NothingOwed
    <2>2. QED
        BY <1>1, <2>1, FinishProgress DEF Proceed
<1>2. CASE NextCall(todo) # "idle"
    <2>1. NextCall(todo) \in {"update", "resize", "power"}
        BY <1>2 DEF NextCall
    <2>2. Continue(p, NextCall(todo), ref[p], todo)
        BY <1>2 DEF Proceed
    <2>3. QED
        BY <2>1, <2>2, ContinueKnows DEF ProgressNext, Progress, Owing, Direct
<1>3. QED
    BY <1>1, <1>2

(***************************************************************************)
(* What a run that is at its guest starts from.                            *)
(***************************************************************************)
Joined(p) ==
    /\ Placed(guests) /\ Peaceful(guests)
    /\ Aims(guests, pc[p], manifest[p], ref[p])
    /\ Progress(guests, pc[p], manifest[p], mode[p], ref[p], plan[p], result[p])

LEMMA AtGuest ==
    ASSUME IInv, NEW p \in Procs, Joined(p), pc[p] \notin {"idle", "resolve"}
    PROVE  /\ pc[p] \in {"summary", "config", "update", "resize", "power"}
           /\ ref[p] \in GuestRef /\ ref[p].vmid \in VMIDs
           /\ Targets(guests, manifest[p]) = {ref[p].vmid}
           /\ guests[ref[p].vmid] \in Guest /\ guests[ref[p].vmid] # None
<1>1. pc[p] \in {"summary", "config", "update", "resize", "power"}
    BY DEF Joined, Progress, Direct
<1>2. ref[p] \in GuestRef /\ ref[p].vmid \in VMIDs
    BY <1>1, Locals DEF Aimed, Writing, GuestRef
<1>3. ref[p].vmid \in Targets(guests, manifest[p])
    BY <1>1 DEF Joined, Aims, Standing
<1>4. Targets(guests, manifest[p]) = {ref[p].vmid}
    BY <1>3, Locals DEF Joined, Placed
<1>5. guests[ref[p].vmid] \in Guest /\ guests[ref[p].vmid] # None
    BY <1>2, <1>3 DEF Targets, Named, IInv, Cluster
<1>6. QED
    BY <1>1, <1>2, <1>4, <1>5

LEMMA CallsGentle ==
    ASSUME IInv, NEW p \in Procs, Joined(p), NEW c \in Calls(p)
    PROVE  /\ c \in Call /\ Gentle(c) /\ Meant(guests, c, manifest[p])
           /\ pc[p] \in {"update", "resize", "power"} /\ mode[p] = "apply"
<1>1. pc[p] \in {"update", "resize", "power"}
    BY DEF Calls, Joined, Progress, Direct
<1>2. c \in Call /\ Meant(guests, c, manifest[p]) /\ mode[p] = "apply"
    BY CallsMeant, CallsLicensed DEF Joined
<1>3. plan[p] \in Plan /\ Fits(pc[p], manifest[p], mode[p], ref[p], source[p], plan[p])
    BY DEF IInv, LocalsOK
<1>4. Gentle(c)
    BY <1>1, <1>3 DEF Calls, Update, Resize, Switch, Fits, Plan, Gentle, Joined, Progress
<1>5. QED
    BY <1>1, <1>2, <1>4

LEMMA DoneProgress ==
    ASSUME OneWay, PlainDisks, IInv, NEW p \in Procs, Joined(p), Done(p)
    PROVE  /\ \E c \in Calls(p) : Accepts(guests, c) /\ guests' = Perform(guests, c)
           /\ guests' \in Cluster
           /\ Targets(guests', manifest[p]) = {ref[p].vmid}
           /\ guests'[ref[p].vmid] \in Guest /\ guests'[ref[p].vmid].type = "qemu"
           /\ guests'[ref[p].vmid].node = manifest[p].node
           /\ Owes(guests'[ref[p].vmid], manifest[p], plan[p])
           /\ pc[p] = NextCall(plan[p])
<1>1. PICK c \in Calls(p) : Accepts(guests, c) /\ guests' = Perform(guests, c)
    BY DEF Done, Admits
<1>2. /\ c \in Call /\ Gentle(c) /\ Meant(guests, c, manifest[p])
      /\ pc[p] \in {"update", "resize", "power"} /\ mode[p] = "apply"
    BY CallsGentle
<1>3. manifest[p] \in Manifests /\ guests \in Cluster
    BY Locals DEF IInv
<1>4. guests' \in Cluster /\ Targets(guests', manifest[p]) = Targets(guests, manifest[p])
    BY <1>1, <1>2, <1>3, PerformType, GentleKeepsTargets
<1>5. Progress(guests', pc[p], manifest[p], mode[p], ref[p], plan[p], result[p])
    BY <1>1, <1>2, <1>3, ProgressStays DEF Joined
<1>6. Owing(guests'[ref[p].vmid], pc[p], manifest[p], plan[p])
    BY <1>2, <1>5 DEF Progress
<1>7. /\ Targets(guests, manifest[p]) = {ref[p].vmid} /\ ref[p].vmid \in VMIDs
    BY <1>2, AtGuest
<1>8. guests'[ref[p].vmid] \in Guest
    BY <1>4, <1>7 DEF Targets, Named, Cluster
<1>9. QED
    BY <1>1, <1>2, <1>4, <1>6, <1>7, <1>8 DEF Owing

LEMMA UpdateProgress ==
    ASSUME OneWay, PlainDisks, IInv, NEW p \in Procs, Joined(p), UpdateConfig(p)
    PROVE  ProgressNext(p)
<1> DEFINE m == manifest[p]
           todo == plan[p]
           rest == [todo EXCEPT !.config = NoParams, !.disks = NoWrites]
           h == guests'[ref[p].vmid]
<1>1. pc[p] = "update" /\ Done(p) /\ Proceed(p, ref[p], rest)
    BY DEF UpdateConfig
<1>2. /\ m \in Manifest /\ todo \in Plan /\ DeclaredPlan(todo, m)
      /\ rest \in Plan /\ m \in Manifests
    BY Locals, SmallerPlanFits
<1>3. /\ guests' \in Cluster /\ Targets(guests', m) = {ref[p].vmid}
      /\ h \in Guest /\ h.type = "qemu" /\ h.node = m.node /\ Owes(h, m, todo)
    BY <1>1, DoneProgress
<1>4. /\ ref[p].vmid \in VMIDs /\ guests[ref[p].vmid] \in Guest
    BY <1>1, AtGuest
<1>5. /\ h.config = Overlay(guests[ref[p].vmid].config, todo.config)
      /\ h.disks = Written(guests[ref[p].vmid].disks, todo.disks)
    <2>1. guests' = Perform(guests, Update(ref[p], todo.config, todo.disks))
        BY <1>1, DoneProgress DEF Calls
    <2>2. h = Updated(guests[ref[p].vmid], Update(ref[p], todo.config, todo.disks))
        BY <1>4, <2>1, PerformElsewhere DEF Update, IInv
    <2>3. QED
        BY <1>4, <2>2 DEF Updated, Update, Guest
<1>6. rest.config = NoParams /\ rest.disks = NoWrites
      /\ rest.sizes = todo.sizes /\ rest.power = todo.power
    BY <1>2 DEF Plan
<1>7. KeysOwed(h, m, rest.config)
    BY <1>3, <1>5 DEF Owes, KeysOwed, Overlay
<1>8. ASSUME NEW s \in Slots, m.disks[s] # None
      PROVE  \/ ~DiskDiffers(h.disks[s], m.disks[s])
             \/ There(h.disks[s], m.disks[s]) /\ rest.sizes[s] # None
    <2>1. CASE todo.disks[s] = Allocate(m.disks[s])
        <3>1. Allocate(m.disks[s]) \in DiskWrite /\ Stored(Allocate(m.disks[s])) \in Disk
            BY <1>2, <1>8 DEF Manifest, Disks, Disk, Allocate, Stored, DiskWrite
        <3>2. h.disks[s] = Stored(Allocate(m.disks[s])) /\ h.disks[s] # None
            BY <1>5, <2>1, <3>1, NoDiskAssumption DEF Written
        <3>3. QED
            BY <1>2, <1>8, <3>2, PlainDiffers DEF Stored, Allocate
    <2>2. CASE todo.disks[s] # Allocate(m.disks[s])
        BY <1>3, <1>6, <1>8, <2>2 DEF Owes, DisksOwed
    <2>3. QED
        BY <2>1, <2>2
<1>9. Owes(h, m, rest) /\ Allocates(rest.disks)
    BY <1>3, <1>6, <1>7, <1>8 DEF Owes, DisksOwed, Allocates, NoWrites
<1>10. QED
    BY <1>1, <1>2, <1>3, <1>4, <1>9, ProceedProgress

LEMMA ResizeProgress ==
    ASSUME OneWay, PlainDisks, IInv, NEW p \in Procs, Joined(p), ResizeDisk(p)
    PROVE  ProgressNext(p)
<1> DEFINE m == manifest[p]
           todo == plan[p]
           h == guests'[ref[p].vmid]
<1>1. pc[p] = "resize" /\ Done(p)
    BY DEF ResizeDisk
<1>2. PICK s \in NextSlot(todo) : Proceed(p, ref[p], [todo EXCEPT !.sizes[s] = None])
    BY DEF ResizeDisk
<1> DEFINE rest == [todo EXCEPT !.sizes[s] = None]
<1>3. s \in Slots /\ todo.sizes[s] # None
    BY DEF NextSlot
<1>4. /\ m \in Manifest /\ todo \in Plan /\ DeclaredPlan(todo, m)
      /\ rest \in Plan /\ m \in Manifests
    BY <1>3, Locals, SmallerPlanFits
<1>5. /\ guests' \in Cluster /\ Targets(guests', m) = {ref[p].vmid}
      /\ h \in Guest /\ h.type = "qemu" /\ h.node = m.node /\ Owes(h, m, todo)
      /\ "resize" = NextCall(todo)
    BY <1>1, DoneProgress
<1>6. ref[p].vmid \in VMIDs /\ guests[ref[p].vmid] \in Guest
    BY <1>1, AtGuest
<1>7. m.disks[s] # None /\ todo.sizes[s] = m.disks[s].size
    BY <1>3, <1>4 DEF DeclaredPlan, DeclaredSize
<1>8. h.disks[s] # None => h.disks[s].size = m.disks[s].size
    <2>1. NextSlot(todo) = {s}
        BY <1>3, SlotsAssumption DEF NextSlot
    <2>2. Calls(p) = {Resize(ref[p], s, todo.sizes[s])}
        BY <1>1, <2>1 DEF Calls
    <2>3. /\ guests' = Perform(guests, Resize(ref[p], s, todo.sizes[s]))
          /\ Accepts(guests, Resize(ref[p], s, todo.sizes[s]))
        BY <1>1, <2>2, DoneProgress
    <2>4. /\ h = Resized(guests[ref[p].vmid], Resize(ref[p], s, todo.sizes[s]))
          /\ guests[ref[p].vmid].disks[s] # None
        BY <1>6, <2>3, PerformElsewhere DEF Resize, IInv, Accepts
    <2>5. h.disks[s].size = todo.sizes[s]
        BY <1>3, <1>6, <2>4 DEF Resized, Resize, Guest, Disks, Disk
    <2>6. QED
        BY <1>7, <2>5
<1>9. /\ rest.config = todo.config /\ rest.disks = todo.disks /\ rest.power = todo.power
      /\ \A t \in Slots \ {s} : rest.sizes[t] = todo.sizes[t]
    BY <1>3, <1>4 DEF Plan
<1>10. todo.disks = NoWrites
    BY <1>5 DEF NextCall, HasWrites
<1>11. ASSUME NEW t \in Slots, m.disks[t] # None
       PROVE  \/ ~DiskDiffers(h.disks[t], m.disks[t])
              \/ There(h.disks[t], m.disks[t]) /\ rest.sizes[t] # None
    <2>1. Allocate(m.disks[t]) \in DiskWrite
        BY <1>4, <1>11 DEF Manifest, Disks, Disk, Allocate, DiskWrite
    <2>2. todo.disks[t] # Allocate(m.disks[t])
        BY <1>10, <2>1, NoDiskAssumption DEF NoWrites
    <2>3. \/ ~DiskDiffers(h.disks[t], m.disks[t])
          \/ There(h.disks[t], m.disks[t]) /\ todo.sizes[t] # None
        BY <1>5, <1>11, <2>2 DEF Owes, DisksOwed
    <2>4. CASE t # s
        BY <1>9, <2>3, <2>4
    <2>5. CASE t = s
        BY <1>4, <1>8, <1>11, <2>3, <2>5, PlainDiffers DEF There
    <2>6. QED
        BY <2>4, <2>5
<1>12. Owes(h, m, rest) /\ Allocates(rest.disks)
    BY <1>5, <1>9, <1>10, <1>11 DEF Owes, DisksOwed, Allocates, NoWrites
<1>13. QED
    BY <1>2, <1>4, <1>5, <1>6, <1>12, ProceedProgress

LEMMA SwitchProgress ==
    ASSUME OneWay, PlainDisks, IInv, NEW p \in Procs, Joined(p), SwitchPower(p)
    PROVE  ProgressNext(p)
<1> DEFINE m == manifest[p]
           todo == plan[p]
           rest == [todo EXCEPT !.power = "none"]
           h == guests'[ref[p].vmid]
<1>1. pc[p] = "power" /\ Done(p) /\ Finish(p, todo.report)
    BY DEF SwitchPower
<1>2. /\ m \in Manifest /\ todo \in Plan /\ DeclaredPlan(todo, m) /\ m \in Manifests
      /\ todo.power # "none"
    BY <1>1, Locals DEF IInv, LocalsOK, Fits
<1>3. /\ guests' \in Cluster /\ Targets(guests', m) = {ref[p].vmid}
      /\ h \in Guest /\ h.type = "qemu" /\ h.node = m.node /\ Owes(h, m, todo)
      /\ "power" = NextCall(todo)
    BY <1>1, DoneProgress
<1>4. ref[p].vmid \in VMIDs /\ guests[ref[p].vmid] \in Guest
    BY <1>1, AtGuest
<1>5. h = Powered(guests[ref[p].vmid], Switch(ref[p], todo.power))
    <2>1. guests' = Perform(guests, Switch(ref[p], todo.power))
        BY <1>1, DoneProgress DEF Calls
    <2>2. todo.power \in {"start", "stop"}
        BY <1>2 DEF Plan
    <2>3. QED
        BY <1>4, <2>1, <2>2, PerformElsewhere DEF Switch, IInv
<1>6. PlannedPower(m, h.power) = "none"
    BY <1>2, <1>4, <1>5
       DEF Powered, Switch, Guest, PlannedPower, DeclaredPlan, DeclaredPower, Plan
<1>7. /\ rest \in Plan /\ rest.config = todo.config /\ rest.disks = todo.disks
      /\ rest.sizes = todo.sizes /\ rest.power = "none"
    BY <1>2 DEF Plan
<1>8. Owes(h, m, rest)
    BY <1>3, <1>6, <1>7 DEF Owes, PowerOwed
<1>9. NextCall(rest) = "idle"
    BY <1>3, <1>7 DEF NextCall, HasWrites
<1>10. Converged(guests', m)
    BY <1>2, <1>3, <1>4, <1>7, <1>8, <1>9, NothingOwed
<1>11. QED
    BY <1>1, <1>10, FinishProgress

LEMMA SummaryProgress ==
    ASSUME IInv, NEW p \in Procs, Joined(p), ReadSummary(p)
    PROVE  ProgressNext(p)
<1> DEFINE m == manifest[p]
           g == guests[ref[p].vmid]
           todo == [NoPlan EXCEPT !.power = PlannedPower(m, g.power)]
<1>1. pc[p] = "summary" /\ guests' = guests
    BY DEF ReadSummary, Reads
<1>2. CASE Finish(p, "failed")
    BY <1>2, FinishProgress DEF Successes
<1>3. CASE ~Finish(p, "failed")
    <2>1. ~PoolMoved(m, g) /\ Continue(p, "config", ref[p], todo)
        BY <1>3, <1>1, AtGuest DEF ReadSummary
    <2>2. todo.power = PlannedPower(m, g.power) /\ Allocates(todo.disks)
        BY DEF NoPlan, Allocates, NoWrites
    <2>3. mode[p] = "apply" => Owing(g, "config", m, todo)
        BY <1>1, <2>1, <2>2 DEF Joined, Progress, Owing, PoolMoved, PowerOwed
    <2>4. /\ pc'[p] = "config" /\ ref'[p] = ref[p] /\ plan'[p] = todo
          /\ manifest'[p] = m /\ mode'[p] = mode[p]
        BY <2>1, ContinueKnows
    <2>5. QED
        BY <1>1, <2>2, <2>3, <2>4 DEF ProgressNext, Progress, Direct
<1>4. QED
    BY <1>2, <1>3

\* A fresh plan holds all that the manifest declares and the guest lacks.
LEMMA TodoOwes ==
    ASSUME PlainDisks, NEW m \in Manifests, NEW g \in Guest, ~Unplannable(g, m)
    PROVE  /\ KeysOwed(g, m, PlannedConfig(g, m))
           /\ DisksOwed(g, m, PlannedDisks(g, m), PlannedSizes(g, m))
           /\ Allocates(PlannedDisks(g, m))
<1>1. m \in Manifest /\ m.disks \in Disks /\ g.disks \in Disks
    BY ManifestsAssumption DEF Manifest, Guest
<1>2. KeysOwed(g, m, PlannedConfig(g, m))
    BY DEF KeysOwed, PlannedConfig, ChangedKeys
<1>3. ASSUME NEW s \in Slots, s \in ChangedSlots(g, m), g.disks[s] # None
      PROVE  /\ There(g.disks[s], m.disks[s]) /\ PlannedSizes(g, m)[s] # None
             /\ PlannedDisks(g, m)[s] = None
    <2>1. /\ m.disks[s] # None /\ DiskDiffers(g.disks[s], m.disks[s])
          /\ ~Impossible(g.disks[s], m.disks[s])
        BY <1>3 DEF Unplannable, ChangedSlots
    <2>2. g.disks[s] \in Disk /\ m.disks[s] \in Disk
        BY <1>1, <1>3, <2>1 DEF Disks
    <2>3. /\ m.disks[s].size \in Sizes /\ g.disks[s].size \in Sizes
          /\ m.disks[s].size \in Nat /\ g.disks[s].size \in Nat
        BY <2>2, SizesAssumption DEF Disk
    <2>4. /\ g.disks[s].storage = m.disks[s].storage
          /\ ~(m.disks[s].size < g.disks[s].size)
        BY <1>3, <2>1 DEF Impossible
    <2>5. m.disks[s].size # g.disks[s].size
        BY <1>3, <2>1, <2>4, PlainDiffers
    <2>6. m.disks[s].size > g.disks[s].size
        BY <2>3, <2>4, <2>5
    <2>7. PlannedSizes(g, m)[s] = m.disks[s].size
        BY <1>3, <2>6 DEF PlannedSizes
    <2>8. PlannedDisks(g, m)[s] = None
        BY <1>3, <2>1, <2>2, PlainRebuilt DEF PlannedDisks
    <2>9. QED
        BY <1>3, <2>3, <2>4, <2>7, <2>8, NoneAssumption DEF There
<1>4. ASSUME NEW s \in Slots, s \in ChangedSlots(g, m), g.disks[s] = None
      PROVE  PlannedDisks(g, m)[s] = Allocate(m.disks[s])
    BY <1>4 DEF PlannedDisks
<1>5. ASSUME NEW s \in Slots, s \notin ChangedSlots(g, m)
      PROVE  /\ PlannedDisks(g, m)[s] = None
             /\ m.disks[s] # None => ~DiskDiffers(g.disks[s], m.disks[s])
    BY <1>5 DEF PlannedDisks, ChangedSlots
<1>6. DisksOwed(g, m, PlannedDisks(g, m), PlannedSizes(g, m))
    BY <1>3, <1>4, <1>5 DEF DisksOwed
<1>7. \A s \in Slots : PlannedDisks(g, m)[s] \in {None, Allocate(m.disks[s])}
    BY <1>3, <1>4, <1>5
<1>8. Allocates(PlannedDisks(g, m))
    BY <1>7 DEF Allocates, Allocate
<1>9. QED
    BY <1>2, <1>6, <1>8

LEMMA ConfigProgress ==
    ASSUME PlainDisks, IInv, NEW p \in Procs, Joined(p), ReadConfig(p)
    PROVE  ProgressNext(p)
<1> DEFINE m == manifest[p]
           g == guests[ref[p].vmid]
           todo == Todo(p, g, m)
<1>1. pc[p] = "config" /\ guests' = guests
    BY DEF ReadConfig, Reads
<1>2. /\ ref[p].vmid \in VMIDs /\ Targets(guests, m) = {ref[p].vmid}
      /\ g \in Guest /\ m \in Manifests /\ guests \in Cluster
      /\ m \in Manifest /\ plan[p] \in Plan /\ DeclaredPlan(plan[p], m)
    BY <1>1, AtGuest, Locals DEF IInv
<1>3. mode[p] = "apply" => Owing(g, "config", m, plan[p])
    BY <1>1 DEF Joined, Progress
<1>4. CASE mode[p] # "apply"
    <2>1. mode[p] \in {"server", "diff"}
        BY <1>1, <1>4, Locals, ModesAssumption
    <2>2. \E outcome : Finish(p, outcome)
        BY <2>1 DEF ReadConfig, Decide
    <2>3. QED
        BY <1>4, <2>2, FinishProgress
<1>5. CASE mode[p] = "apply" /\ Finish(p, "failed")
    BY <1>5, FinishProgress DEF Successes
<1>6. CASE mode[p] = "apply" /\ ~Finish(p, "failed")
    <2>1. Decide(p, g, m)
        BY <1>1, <1>6 DEF ReadConfig
    <2>2. CASE InSync(g, m) /\ plan[p].power = "none"
        <3>1. Finish(p, "unchanged")
            BY <1>6, <2>1, <2>2 DEF Decide
        <3>2. Agrees(g, m)
            BY <1>2, <1>3, <1>6, <2>2, AgreesWhen
               DEF InSync, ChangedKeys, ChangedSlots, Owing, PowerOwed
        <3>3. Converged(guests', m)
            BY <1>1, <1>2, <3>2 DEF Converged
        <3>4. QED
            BY <3>1, <3>3, FinishProgress
    <2>3. CASE ~(InSync(g, m) /\ plan[p].power = "none")
        <3>1. ~Unplannable(g, m) /\ Proceed(p, ref[p], todo)
            BY <1>6, <2>1, <2>3 DEF Decide
        <3>2. todo \in Plan
            BY <1>2, <3>1, DecidedPlanFits DEF Todo, DeclaredPlan, Plan
        <3>3. Owes(g, m, todo) /\ Allocates(todo.disks)
            BY <1>2, <1>3, <1>6, <3>1, TodoOwes DEF Owes, Owing, Todo
        <3>4. QED
            BY <1>1, <1>2, <1>3, <1>6, <3>1, <3>2, <3>3, ProceedProgress DEF Owing
    <2>4. QED
        BY <2>2, <2>3
<1>7. QED
    BY <1>4, <1>5, <1>6

LEMMA ResolveProgress ==
    ASSUME IInv, NEW p \in Procs, Joined(p), Resolve(p)
    PROVE  ProgressNext(p)
<1> DEFINE m == manifest[p]
<1>1. pc[p] = "resolve" /\ guests' = guests
    BY DEF Resolve, Reads
<1>2. m \in Manifest /\ m \in Manifests
    BY Locals
<1>3. PICK v \in VMIDs : Targets(guests, m) = {v}
    BY <1>2 DEF Joined, Placed
<1>4. Found(p, v) /\ guests[v] # None
    <2>1. CASE m.vmid # None
        BY <1>3, <2>1 DEF Resolve, Targets
    <2>2. CASE m.vmid = None
        <3>1. Named(guests, m.name) = {v}
            BY <1>3, <2>2 DEF Targets
        <3>2. QED
            BY <2>2, <3>1 DEF Resolve, Named
    <2>3. QED
        BY <2>1, <2>2
<1> DEFINE target == [vmid |-> v, node |-> guests[v].node]
<1>5. CASE Finish(p, "failed")
    BY <1>5, FinishProgress DEF Successes
<1>6. CASE ~Finish(p, "failed")
    <2>1. guests[v].type = "qemu" /\ (mode[p] # "diff" => m.node = guests[v].node)
        BY <1>4, <1>6 DEF Found
    <2>2. PICK label \in {"summary", "config"} :
            /\ Continue(p, label, target, NoPlan)
            /\ mode[p] # "diff" /\ label = "config" => m.pool = None /\ ~WantsPower(m)
        BY <1>4, <1>6, <2>1 DEF Found
    <2>3. /\ NoPlan.power = "none" /\ Allocates(NoPlan.disks)
        BY DEF NoPlan, Allocates, NoWrites
    <2>4. mode[p] = "apply" => Owing(guests[v], label, m, NoPlan)
        BY <2>1, <2>2, <2>3 DEF Owing, PowerOwed, PlannedPower, WantsPower
    <2>5. QED
        BY <1>1, <2>2, <2>3, <2>4, ContinueKnows DEF ProgressNext, Progress, Direct
<1>7. QED
    BY <1>5, <1>6

LEMMA StepProgress ==
    ASSUME OneWay, PlainDisks, IInv, NEW p \in Procs, Joined(p),
           Start(p) \/ Step(p) \/ Fail(p) \/ TimeOut(p)
    PROVE  ProgressNext(p)
<1>1. CASE Start(p)
    <2>1. /\ plan' = plan /\ pc'[p] \in {"idle", "resolve"}
          /\ result'[p] \notin Successes
        BY <1>1 DEF Start, Begin, Reject, Goto, Successes, IInv, LocalsOK
    <2>2. QED
        BY <2>1 DEF Joined, ProgressNext, Progress, Direct
<1>2. CASE Refused(p) \/ Fail(p) \/ TimeOut(p)
    BY <1>2, FinishProgress DEF Refused, Fail, TimeOut, Successes
<1>3. CASE \/ CheckName(p) \/ NextID(p) \/ NoNextID(p) \/ Create(p) \/ FindSource(p)
           \/ Clone(p) \/ PostClone(p) \/ ReadPower(p)
    <2>1. FALSE
        BY <1>3
           DEF Joined, Progress, Direct, CheckName, NextID, NoNextID, Create, FindSource,
               Clone, PostClone, ReadPower, Reads
    <2>2. QED
        BY <2>1
<1>4. QED
    BY <1>1, <1>2, <1>3, ResolveProgress, SummaryProgress, ConfigProgress,
       UpdateProgress, ResizeProgress, SwitchProgress DEF Step

(***************************************************************************)
(* All processes, and the tasks nobody waits for.                          *)
(***************************************************************************)
Sharing ==
    /\ Placed(guests) /\ Peaceful(guests)
    /\ \A c \in tasks : Gentle(c)
    /\ \A p \in Procs :
        Progress(guests, pc[p], manifest[p], mode[p], ref[p], plan[p], result[p])

LEMMA ChangesAreGentle ==
    ASSUME MaxMoves = 0, IInv, OnTarget, Sharing, Next
    PROVE  \/ guests' = guests
           \/ \E c \in Call, m \in Manifests :
                /\ Accepts(guests, c) /\ Meant(guests, c, m) /\ Gentle(c)
                /\ guests' = Perform(guests, c)
<1>1. ASSUME NEW p \in Procs, Done(p)
      PROVE  \E c \in Call, m \in Manifests :
                /\ Accepts(guests, c) /\ Meant(guests, c, m) /\ Gentle(c)
                /\ guests' = Perform(guests, c)
    <2>1. PICK c \in Calls(p) : Accepts(guests, c) /\ guests' = Perform(guests, c)
        BY <1>1 DEF Done, Admits
    <2>2. /\ c \in Call /\ Meant(guests, c, manifest[p]) /\ Gentle(c)
          /\ manifest[p] \in Manifests
        BY CallsGentle, Locals DEF OnTarget, Sharing, Joined
    <2>3. QED
        BY <2>1, <2>2
<1>2. ASSUME NEW c \in tasks, TaskEnds(c), guests' # guests
      PROVE  \E m \in Manifests :
                /\ c \in Call /\ Accepts(guests, c) /\ Meant(guests, c, m) /\ Gentle(c)
                /\ guests' = Perform(guests, c)
    BY <1>2 DEF TaskEnds, OnTarget, Sharing, IInv, TasksOK
<1>3. ASSUME NEW v \in VMIDs, Operator(v)
      PROVE  FALSE
    BY <1>3 DEF Operator, IInv, BudgetsOK
<1>4. ASSUME NEW p \in Procs, Start(p) \/ Step(p) \/ Fail(p) \/ TimeOut(p), ~Done(p)
      PROVE  guests' = guests
    BY <1>4
       DEF Start, Begin, Reject, Step, Resolve, CheckName, NextID, NoNextID,
           Create, FindSource, Clone, PostClone, ReadPower, ReadSummary,
           ReadConfig, UpdateConfig, ResizeDisk, SwitchPower, Refused, Fail, TimeOut, Reads
<1>5. QED
    BY <1>1, <1>2, <1>3, <1>4 DEF Next

LEMMA SharingStays ==
    ASSUME OneWay, PlainDisks, MaxMoves = 0,
           \A gs \in Clusters : Placed(gs) /\ Peaceful(gs)
    PROVE  Spec => []Sharing
<1>1. Init => Sharing
    BY DEF Init, Sharing, Progress, Allocates, NoPlan, NoWrites, Successes
<1>2. IInv /\ OnTarget /\ Sharing /\ [Next]_vars => Sharing'
    <2> SUFFICES ASSUME IInv, OnTarget, Sharing, [Next]_vars PROVE Sharing'
        OBVIOUS
    <2>1. CASE UNCHANGED vars
        <3>1. UNCHANGED <<guests, tasks, pc, manifest, mode, ref, plan, result>>
            BY <2>1 DEF vars, locals
        <3>2. ASSUME NEW m PROVE Targets(guests, m)' = Targets(guests, m)
            BY <3>1 DEF Targets, Named
        <3>3. ASSUME NEW p \in Procs PROVE ProgressNext(p)
            BY <3>1 DEF Sharing, ProgressNext
        <3>4. QED
            BY <3>1, <3>2, <3>3 DEF Sharing, ProgressNext, Placed, Peaceful
    <2>2. CASE Next
        <3>1. guests \in Cluster
            BY DEF IInv
        <3>2. ASSUME NEW m \in Manifests
              PROVE  Targets(guests', m) = Targets(guests, m)
            BY <2>2, <3>1, ChangesAreGentle, GentleKeepsTargets
        <3>3. Placed(guests') /\ Peaceful(guests')
            BY <3>2 DEF Sharing, Placed, Peaceful
        <3>4. ASSUME NEW p \in Procs,
                     UNCHANGED <<pc[p], manifest[p], mode[p], ref[p], plan[p], result[p]>>
              PROVE  ProgressNext(p)
            <4>1. manifest[p] \in Manifests
                BY Locals
            <4>2. Progress(guests', pc[p], manifest[p], mode[p], ref[p], plan[p], result[p])
                BY <2>2, <3>1, <4>1, ChangesAreGentle, ProgressStays DEF Sharing, OnTarget
            <4>3. QED
                BY <3>4, <4>2 DEF ProgressNext
        <3>5. ASSUME NEW q \in Procs
              PROVE  ProgressNext(q)
            <4>1. CASE UNCHANGED locals
                BY <3>4, <4>1 DEF locals
            <4>2. ASSUME NEW p \in Procs, Start(p) \/ Step(p) \/ Fail(p) \/ TimeOut(p)
                  PROVE  ProgressNext(q)
                <5>1. CASE q = p
                    BY <4>2, <5>1, StepProgress DEF OnTarget, Sharing, Joined
                <5>2. CASE q # p
                    BY <3>4, <4>2, <5>2, OthersStay
                <5>3. QED
                    BY <5>1, <5>2
            <4>3. QED
                BY <2>2, <4>1, <4>2 DEF Next, TaskEnds, Operator
        <3>6. ASSUME NEW c \in tasks', c \notin tasks
              PROVE  Gentle(c)
            <4>1. PICK p \in Procs : c \in Calls(p)
                BY <2>2, <3>6
                   DEF Next, Start, Begin, Reject, Step, Resolve, CheckName,
                       NextID, NoNextID, Create, FindSource, Clone, PostClone,
                       ReadPower, ReadSummary, ReadConfig, UpdateConfig,
                       ResizeDisk, SwitchPower, Refused, Fail, TimeOut, Reads,
                       Done, TaskEnds, Operator
            <4>2. QED
                BY <4>1, CallsGentle DEF OnTarget, Sharing, Joined
        <3>7. QED
            BY <3>3, <3>5, <3>6 DEF Sharing, ProgressNext
    <2>3. QED
        BY <2>1, <2>2
<1>3. QED
    BY <1>1, <1>2, OnTargetStays, Invariance, PTL DEF Spec

(***************************************************************************)
(* Any number of pvectl at once, dying and giving up on tasks that go on,  *)
(* on guests that are there and at which nobody else works: what a run     *)
(* that succeeded has established is undone by no other, if manifests      *)
(* about one guest declare nothing differently and no disk has an option   *)
(* to set.                                                                 *)
(***************************************************************************)
THEOREM UpdatesAreNotLost ==
    ASSUME OneWay, PlainDisks, MaxMoves = 0,
           \A gs \in Clusters : Placed(gs) /\ Peaceful(gs)
    PROVE  Spec => []NoLostUpdate
<1>1. Sharing => NoLostUpdate
    BY DEF Sharing, Progress, NoLostUpdate
<1>2. QED
    BY <1>1, SharingStays, PTL
=============================================================================
