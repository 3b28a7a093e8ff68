---------------------------- MODULE Export_proofs ----------------------------
(***************************************************************************)
(* Proofs about Export: types, that an export replayed is unchanged, that  *)
(* a replay never stops a machine, that an edited one changes only what    *)
(* was edited, and that an apply that succeeded has settled the machine.   *)
(***************************************************************************)
EXTENDS ExportProperties, TLAPS

-----------------------------------------------------------------------------
(***************************************************************************)
(* What get makes of a machine.                                            *)
(***************************************************************************)
\* A whole size is shown as it is.
LEMMA ShownWhole ==
    ASSUME NEW n \in Nat, n % KiB = 0
    PROVE  Shown(n) = n
  BY NumbersAssumption, SMT DEF Shown

LEMMA ShownIsNat ==
    ASSUME NEW n \in Nat
    PROVE  Shown(n) \in Nat
<1>1. n \div KiB \in Nat
  BY NumbersAssumption, SMT
<1> QED
  BY <1>1, NumbersAssumption, SMT DEF Shown

LEMMA FromConfigIsManifest ==
    ASSUME NEW g \in Live
    PROVE  FromConfig(g) \in Manifest
<1> DEFINE m == FromConfig(g)
<1>1. m.settings \in [Settings -> Numbers \cup {None}]
  BY DEF FromConfig, Live, Setting
<1>2. m.run \in {"Always", "Halted", "Manual"}
  BY DEF FromConfig, RunFromOnboot
<1>3. m.networks \in [NetSlots -> Network \cup {None}]
  BY DEF FromConfig, Live, NIC, Network, Shared
<1>4. m.disks \in [DriveSlots -> Disk \cup {None}]
  <2>1. ASSUME NEW s \in DriveSlots, g.drives[s] # None
        PROVE  FromDrive(g.drives[s]) \in Disk
    <3>1. g.drives[s] \in Drive
      BY <2>1 DEF Live
    <3>2. Shown(g.drives[s].size) \in Nat
      BY <3>1, ShownIsNat DEF Drive
    <3> QED
      BY <3>1, <3>2 DEF FromDrive, Drive, Disk
  <2> QED
    BY <2>1 DEF FromConfig
<1>5. m.sshkeys \in SUBSET Key
  <2>1. ASSUME NEW k \in StoredKey
        PROVE  Unescaped(k) \in Key
    BY DEF StoredKey, Unescaped, Key
  <2>2. g.sshkeys.keys \in SUBSET StoredKey
    BY DEF Live, KeyText
  <2> QED
    BY <2>1, <2>2 DEF FromConfig, DecodedKeys
<1> QED
  BY <1>1, <1>2, <1>3, <1>4, <1>5 DEF FromConfig, Manifest

(***************************************************************************)
(* The export of a machine is in sync with it, key by key.                 *)
(***************************************************************************)
LEMMA ExportedSettings ==
    ASSUME NEW g \in Live
    PROVE  ChangedSettings(g, FromConfig(g)) = {}
  BY DEF ChangedSettings, FromConfig

LEMMA ExportedNets ==
    ASSUME NEW g \in Live
    PROVE  ChangedNets(g, FromConfig(g)) = {}
<1> SUFFICES ASSUME NEW s \in NetSlots, FromConfig(g).networks[s] # None
             PROVE  ~NICDiffers(g.nets[s], FromConfig(g).networks[s])
  BY DEF ChangedNets
<1>1. g.nets[s] \in NIC /\ g.nets[s] # None
  BY NoneAssumption DEF Live, FromConfig
<1>2. FromConfig(g).networks[s] = Shared(g.nets[s])
  BY <1>1 DEF FromConfig
<1>3. g.nets[s].model # None
  BY <1>1, NoneAssumption DEF NIC
<1> QED
  BY <1>1, <1>2, <1>3 DEF NICDiffers, Shared, ModelOf

LEMMA ExportedDrives ==
    ASSUME NEW g \in Live, WholeSizes(g.drives)
    PROVE  ChangedDrives(g, FromConfig(g)) = {}
<1> SUFFICES ASSUME NEW s \in DriveSlots, FromConfig(g).disks[s] # None
             PROVE  ~DriveDiffers(g.drives[s], FromConfig(g).disks[s])
  BY DEF ChangedDrives
<1>1. g.drives[s] \in Drive /\ g.drives[s] # None
  BY DEF Live, FromConfig
<1>2. FromConfig(g).disks[s] = FromDrive(g.drives[s])
  BY DEF FromConfig
<1>3. Shown(g.drives[s].size) = g.drives[s].size
  BY <1>1, ShownWhole DEF WholeSizes, Drive
<1> QED
  BY <1>1, <1>2, <1>3 DEF DriveDiffers, FromDrive

LEMMA ExportedKeys ==
    ASSUME NEW g \in Live, ~g.sshkeys.newline,
           \A k \in g.sshkeys.keys : k.mark # "%2B"
    PROVE  ~KeysChanged(g, FromConfig(g))
<1>1. ASSUME NEW k \in g.sshkeys.keys
      PROVE  Unescaped(Escaped(Unescaped(k))) = Unescaped(k)
  <2>1. k \in StoredKey /\ k.mark # "%2B"
    BY DEF Live, KeyText
  <2>2. k.mark \in {"none", "+", "%20"}
    BY <2>1 DEF StoredKey
  <2> QED
    BY <2>2 DEF Unescaped, Escaped
<1>2. DecodedKeys(g.sshkeys) = {Unescaped(Escaped(k)) : k \in DecodedKeys(g.sshkeys)}
  BY <1>1 DEF DecodedKeys
<1>3. FromConfig(g).sshkeys = DecodedKeys(g.sshkeys)
  BY DEF FromConfig
<1> QED
  BY <1>2, <1>3 DEF KeysChanged

(***************************************************************************)
(* apply of an exact export, as it was printed, finds nothing to do        *)
(* (newVMFromConfig against the diff of planUpdate).                       *)
(***************************************************************************)
THEOREM ExportInSync ==
    ASSUME NEW g \in Live, Exact(g)
    PROVE  /\ InSync(g, FromConfig(g))
           /\ PlannedPower(FromConfig(g), g.power) = "none"
<1>1. ~OnbootChanged(g, FromConfig(g))
  BY DEF OnbootChanged, Onboot, FromConfig, RunFromOnboot
<1>2. PlannedPower(FromConfig(g), g.power) = "none"
  BY DEF Exact, PlannedPower, FromConfig, RunFromOnboot
<1> QED
  BY <1>1, <1>2, ExportedSettings, ExportedNets, ExportedDrives, ExportedKeys
  DEF InSync, Exact

-----------------------------------------------------------------------------
(***************************************************************************)
(* Types.                                                                  *)
(***************************************************************************)
LEMMA NumberOfIsNumber ==
    ASSUME NEW g \in Live, NEW k \in Settings, NEW default
    PROVE  NumberOf(g, k, default) \in Numbers \cup {default}
  BY DEF NumberOf, Live, Setting

LEMMA FromSummaryIsManifest ==
    ASSUME NEW g \in Live, FromSummary(g).settings["cores"] \in Numbers
    PROVE  FromSummary(g) \in Manifest
<1> DEFINE m == FromSummary(g)
<1>1. m.settings \in [Settings -> Numbers \cup {None}]
  <2>1. ASSUME NEW k \in Settings
        PROVE  m.settings[k] \in Numbers \cup {None}
    <3>1. CASE k = "cores"
      BY <3>1
    <3>2. CASE k = "memory"
      BY <3>2, NumberOfIsNumber, NumbersAssumption DEF FromSummary, Settings
    <3>3. CASE k = "tags"
      BY <3>3, NumberOfIsNumber DEF FromSummary, Settings
    <3>4. CASE k \notin {"cores", "memory", "tags"}
      BY <3>4 DEF FromSummary
    <3> QED
      BY <3>1, <3>2, <3>3, <3>4
  <2>2. m.settings = [k \in Settings |-> m.settings[k]]
    BY DEF FromSummary
  <2> QED
    BY <2>1, <2>2
<1> QED
  BY <1>1 DEF FromSummary, Manifest

LEMMA NoPutIsPut == NoPut \in Puts
  BY DEF NoPut, Puts

LEMMA NoResizesIsMap == NoResizes \in [DriveSlots -> Nat \cup {None}]
  BY DEF NoResizes

LEMMA EscapedIsStored ==
    ASSUME NEW k \in Key
    PROVE  Escaped(k) \in StoredKey
  BY DEF Key, Escaped, StoredKey

LEMMA AllocatedIsDrive ==
    ASSUME NEW d \in Disk
    PROVE  Allocated(d) \in Drive
<1>1. Shown(d.size) \in Nat
  BY ShownIsNat DEF Disk
<1> QED
  BY <1>1, PlainAssumption DEF Allocated, Disk, Drive

LEMMA RebuiltIsDrive ==
    ASSUME NEW d \in Drive, NEW e \in Disk
    PROVE  Rebuilt(d, e) \in Drive \cup {None}
  BY DEF Rebuilt, Disk, Drive, Over

LEMMA PutOfIsPut ==
    ASSUME NEW g \in Live, NEW m \in Manifest
    PROVE  PutOf(g, m) \in Puts
<1> DEFINE p == PutOf(g, m)
<1>1. p.settings \in [Settings -> Numbers \cup {None}]
  BY DEF PutOf, Manifest
<1>2. p.onboot \in {None, 0, 1}
  BY DEF PutOf, Onboot
<1>3. p.nets \in [NetSlots -> SentNIC \cup {None}]
  <2>1. ASSUME NEW s \in ChangedNets(g, m)
        PROVE  NetworkValue(m.networks[s]) \in SentNIC
    BY <2>1, VirtioAssumption
    DEF ChangedNets, Manifest, Network, NetworkValue, ModelOf, SentNIC
  <2> QED
    BY <2>1 DEF PutOf
<1>4. p.drives \in [DriveSlots -> Drive \cup {None}]
  <2>1. ASSUME NEW s \in ChangedDrives(g, m)
        PROVE  /\ Allocated(m.disks[s]) \in Drive
               /\ g.drives[s] # None => Rebuilt(g.drives[s], m.disks[s]) \in Drive \cup {None}
    <3>1. s \in DriveSlots /\ m.disks[s] \in Disk
      BY <2>1 DEF ChangedDrives, Manifest
    <3>2. g.drives[s] # None => g.drives[s] \in Drive
      BY <3>1 DEF Live
    <3> QED
      BY <3>1, <3>2, AllocatedIsDrive, RebuiltIsDrive
  <2> QED
    BY <2>1 DEF PutOf
<1>5. p.sshkeys \in SUBSET StoredKey
  BY EscapedIsStored DEF PutOf, Manifest
<1> QED
  BY <1>1, <1>2, <1>3, <1>4, <1>5 DEF PutOf, Puts

LEMMA ResizesOfIsMap ==
    ASSUME NEW g \in Live, NEW m \in Manifest
    PROVE  ResizesOf(g, m) \in [DriveSlots -> Nat \cup {None}]
<1>1. ASSUME NEW s \in DriveSlots, s \in ChangedDrives(g, m)
      PROVE  Shown(m.disks[s].size) \in Nat
  BY <1>1, ShownIsNat DEF ChangedDrives, Manifest, Disk
<1> QED
  BY <1>1 DEF ResizesOf

LEMMA UpdatedIsLive ==
    ASSUME NEW g \in Live, NEW p \in Puts, NEW mac \in MACs
    PROVE  Updated(g, p, mac) \in Live
<1> DEFINE h == Updated(g, p, mac)
<1>1. h.settings \in [Settings -> Setting \cup {None}]
  BY PlainAssumption DEF Updated, Live, Puts, Setting
<1>2. h.onboot \in {None, 0, 1}
  BY DEF Updated, Live, Puts, Over
<1>3. h.nets \in [NetSlots -> NIC \cup {None}]
  BY PlainAssumption DEF Updated, Live, Puts, SentNIC, NIC
<1>4. h.drives \in [DriveSlots -> Drive \cup {None}]
  BY DEF Updated, Live, Puts, Over
<1>5. h.sshkeys \in KeyText
  BY DEF Updated, Live, Puts, KeyText
<1>6. h.power \in {"running", "stopped"}
  BY DEF Updated, Live
<1>7. DOMAIN h = {"settings", "onboot", "nets", "drives", "sshkeys", "power"}
  BY DEF Updated, Live
<1> QED
  BY <1>1, <1>2, <1>3, <1>4, <1>5, <1>6, <1>7 DEF Updated, Live

-----------------------------------------------------------------------------
(***************************************************************************)
(* The invariant: what a plan says follows from the draft, which no step   *)
(* changes while one is carried out, and the power state planned for is    *)
(* the one read unless somebody else has changed the machine.              *)
(***************************************************************************)
Planned ==
    /\ pc \in {"idle", "getconfig", "summary", "config"} => put = NoPut /\ resizes = NoResizes
    /\ pc \in {"idle", "getconfig", "summary"} => power = "none"
    /\ pc = "power" => power # "none"
    /\ pc \notin {"idle", "getconfig"} => draft # None

StopsAreAsked ==
    /\ power = "stop" => draft.run = "Halted"
    /\ put.onboot = 0 => draft.run = "Halted"
    /\ exported \notin Drafts \cup {None} => exported.run # "Halted"

PowerAsRead ==
    pc = "config" /\ origin # "stale" => power = PlannedPower(draft, guest.power)

Inv == TypeOK /\ Planned /\ StopsAreAsked /\ PowerAsRead

\* A plan, and where the process goes from it.
LEMMA ProceedTypes ==
    ASSUME TypeOK, NEW p \in Puts, NEW r \in [DriveSlots -> Nat \cup {None}],
           NEW w \in {"none", "start", "stop"}, Proceed(p, r, w)
    PROVE  /\ pc' \in {"idle", "put", "resize", "power"}
           /\ put' \in Puts /\ resizes' \in [DriveSlots -> Nat \cup {None}]
           /\ power' \in {"none", "start", "stop"}
           /\ result' \in {"none", "configured", "unchanged", "failed"}
           /\ draft' = draft /\ exported' = exported /\ origin' = origin
           /\ edits' = edits /\ moves' = moves
           /\ put' = p /\ resizes' = r
           /\ pc' = "idle" => p = NoPut /\ r = NoResizes /\ power' = "none"
           /\ pc' # "idle" => power' = w
           /\ pc' = "power" => w # "none"
<1>1. pc' \in {"idle", "put", "resize", "power"}
  BY DEF Proceed, NextCall
<1>2. pc' = "idle" => p = NoPut /\ r = NoResizes /\ power' = "none"
  BY DEF Proceed, NextCall
<1>3. pc' = "power" => w # "none"
  BY DEF Proceed, NextCall
<1> QED
  BY <1>1, <1>2, <1>3 DEF Proceed, records, TypeOK

LEMMA FinishTypes ==
    ASSUME TypeOK, NEW outcome \in {"configured", "unchanged", "failed"}, Finish(outcome)
    PROVE  /\ pc' = "idle" /\ result' = outcome
           /\ put' = NoPut /\ resizes' = NoResizes /\ power' = "none"
           /\ draft' = draft /\ exported' = exported /\ origin' = origin
           /\ edits' = edits /\ moves' = moves
           /\ put' \in Puts /\ resizes' \in [DriveSlots -> Nat \cup {None}]
  BY NoPutIsPut, NoResizesIsMap DEF Finish, records

LEMMA SaveKeeps ==
    ASSUME Inv, NEW m \in Manifest, NEW from \in {"get", "list", "hand"}, Save(m, from),
           pc \in {"idle", "getconfig"}, m \in Drafts \/ m.run # "Halted"
    PROVE  Inv'
<1> USE DEF Inv
<1>1. TypeOK'
  BY DEF Save, TypeOK, plans
<1>2. Planned'
  BY DEF Save, Planned, plans
<1>3. StopsAreAsked'
  <2>1. put.onboot # 0 /\ power # "stop"
    BY NoneAssumption DEF Planned, NoPut
  <2> QED
    BY <2>1 DEF Save, StopsAreAsked, plans
<1>4. PowerAsRead'
  BY DEF Save, PowerAsRead
<1> QED
  BY <1>1, <1>2, <1>3, <1>4

\* An end of apply.
LEMMA FinishKeeps ==
    ASSUME Inv, NEW outcome \in {"configured", "unchanged", "failed"}, Finish(outcome),
           guest' \in Live, faults' \in 0..MaxFaults
    PROVE  Inv'
<1> USE DEF Inv
<1>1. TypeOK'
  BY FinishTypes DEF TypeOK
<1>2. Planned'
  BY FinishTypes DEF Planned
<1>3. StopsAreAsked'
  BY FinishTypes, NoneAssumption DEF StopsAreAsked, NoPut
<1>4. PowerAsRead'
  BY FinishTypes DEF PowerAsRead
<1> QED
  BY <1>1, <1>2, <1>3, <1>4

\* A step of a plan that only stops a machine when the draft asks for it.
LEMMA ProceedKeeps ==
    ASSUME Inv, NEW p \in Puts, NEW r \in [DriveSlots -> Nat \cup {None}],
           NEW w \in {"none", "start", "stop"}, Proceed(p, r, w),
           pc \notin {"idle", "getconfig"},
           w = "stop" \/ p.onboot = 0 => draft.run = "Halted",
           guest' \in Live, faults' = faults
    PROVE  Inv'
<1> USE DEF Inv
<1>1. TypeOK'
  BY ProceedTypes DEF TypeOK
<1>2. Planned'
  BY ProceedTypes DEF Planned
<1>3. StopsAreAsked'
  BY ProceedTypes DEF StopsAreAsked
<1>4. PowerAsRead'
  BY ProceedTypes DEF PowerAsRead
<1> QED
  BY <1>1, <1>2, <1>3, <1>4

LEMMA InitInv == Init => Inv
<1> SUFFICES ASSUME Init PROVE Inv
  OBVIOUS
<1>1. TypeOK
  BY MachinesAssumption, NoPutIsPut, NoResizesIsMap, ExportBounds DEF Init, TypeOK
<1>2. StopsAreAsked
  BY NoneAssumption DEF Init, StopsAreAsked, NoPut
<1> QED
  BY <1>1, <1>2 DEF Init, Inv, Planned, PowerAsRead

LEMMA EditKeeps ==
    ASSUME Inv, Edit
    PROVE  Inv'
<1> USE DEF Inv
<1>1. draft \in Manifest
  BY DEF Edit, TypeOK
<1>2. draft' \in Manifest
  <2>1. ASSUME NEW k \in Settings, NEW n \in Numbers \cup {None},
               draft' = [draft EXCEPT !.settings[k] = n]
        PROVE  draft' \in Manifest
    BY <1>1, <2>1 DEF Manifest
  <2>2. ASSUME NEW r \in {"Always", "Halted", "Manual"}, draft' = [draft EXCEPT !.run = r]
        PROVE  draft' \in Manifest
    BY <1>1, <2>2 DEF Manifest
  <2>3. ASSUME NEW s \in NetSlots, NEW n \in WantedNICs \cup {None},
               draft' = [draft EXCEPT !.networks[s] = n]
        PROVE  draft' \in Manifest
    BY <1>1, <2>3, DraftsAssumption DEF Manifest
  <2>4. ASSUME NEW s \in DriveSlots, NEW d \in WantedDisks \cup {None},
               draft' = [draft EXCEPT !.disks[s] = d]
        PROVE  draft' \in Manifest
    BY <1>1, <2>4, DraftsAssumption DEF Manifest
  <2>5. ASSUME NEW k \in WantedKeys, draft' = [draft EXCEPT !.sshkeys = @ \cup {k}]
        PROVE  draft' \in Manifest
    BY <1>1, <2>5, DraftsAssumption DEF Manifest
  <2> QED
    BY <2>1, <2>2, <2>3, <2>4, <2>5 DEF Edit
<1>3. TypeOK'
  BY <1>2, ExportBounds DEF Edit, TypeOK, plans, records
<1>4. Planned'
  BY DEF Edit, Planned, plans
<1>5. StopsAreAsked'
  BY NoneAssumption DEF Edit, StopsAreAsked, Planned, NoPut, plans, records
<1>6. PowerAsRead'
  BY DEF Edit, PowerAsRead
<1> QED
  BY <1>3, <1>4, <1>5, <1>6

\* The plan apply makes is the one its draft asks for.
LEMMA PlannedStops ==
    ASSUME NEW g \in Live, NEW m \in Manifest, NEW p
    PROVE  /\ PlannedPower(m, p) \in {"none", "start", "stop"}
           /\ PlannedPower(m, p) = "stop" => m.run = "Halted"
           /\ PutOf(g, m).onboot = 0 => m.run = "Halted"
           /\ m.run = "Manual" => PlannedPower(m, p) = "none"
<1>1. PutOf(g, m).onboot = 0 => m.run = "Halted"
  BY NoneAssumption DEF PutOf, Onboot
<1> QED
  BY <1>1 DEF PlannedPower

LEMMA ReadConfigKeeps ==
    ASSUME Inv, ReadConfig
    PROVE  Inv'
<1> USE DEF Inv
<1>1. guest \in Live /\ draft \in Manifest /\ pc \notin {"idle", "getconfig"}
  BY DEF ReadConfig, TypeOK, Planned
<1>2. guest' \in Live /\ faults' = faults /\ faults' \in 0..MaxFaults
  BY DEF ReadConfig, TypeOK
<1>3. CASE Finish("unchanged") \/ Finish("failed")
  BY <1>2, <1>3, FinishKeeps
<1>4. CASE Proceed(PutOf(guest, draft), ResizesOf(guest, draft), power)
  <2>1. power \in {"none", "start", "stop"}
    BY DEF TypeOK
  <2>2. power = "stop" \/ PutOf(guest, draft).onboot = 0 => draft.run = "Halted"
    BY <1>1, PlannedStops DEF StopsAreAsked
  <2>3. PutOf(guest, draft) \in Puts
    BY <1>1, PutOfIsPut
  <2>4. ResizesOf(guest, draft) \in [DriveSlots -> Nat \cup {None}]
    BY <1>1, ResizesOfIsMap
  <2> QED
    BY <1>1, <1>2, <1>4, <2>1, <2>2, <2>3, <2>4, ProceedKeeps
<1> QED
  BY <1>3, <1>4 DEF ReadConfig

LEMMA CallsKeep ==
    ASSUME Inv, UpdateConfig \/ ResizeDisk \/ ResizeRefused \/ SwitchPower \/ Fail
    PROVE  Inv'
<1> USE DEF Inv
<1>1. /\ guest \in Live /\ put \in Puts /\ faults \in 0..MaxFaults
      /\ resizes \in [DriveSlots -> Nat \cup {None}]
      /\ power \in {"none", "start", "stop"}
  BY DEF TypeOK
<1>2. NoPut.onboot # 0
  BY NoneAssumption DEF NoPut
<1>3. CASE UpdateConfig
  <2>1. guest' \in Live
    BY <1>1, <1>3, UpdatedIsLive DEF UpdateConfig
  <2> QED
    BY <1>1, <1>2, <1>3, <2>1, NoPutIsPut, ProceedKeeps DEF UpdateConfig, StopsAreAsked
<1>4. CASE ResizeDisk
  <2>1. PICK d \in DriveSlots :
            /\ IsNext(d) /\ CanGrow(d)
            /\ guest' = [guest EXCEPT !.drives[d].size = resizes[d]]
            /\ Proceed(NoPut, [resizes EXCEPT ![d] = None], power)
    BY <1>4 DEF ResizeDisk
  <2>2. [resizes EXCEPT ![d] = None] \in [DriveSlots -> Nat \cup {None}]
    BY <1>1
  <2>3. resizes[d] \in Nat /\ guest.drives[d] # None
    BY <1>1, <2>1 DEF IsNext, CanGrow
  <2>4. guest.drives[d] \in Drive
    BY <1>1, <2>3 DEF Live
  <2>5. [guest.drives[d] EXCEPT !.size = resizes[d]] \in Drive
    BY <2>3, <2>4 DEF Drive
  <2>6. guest' \in Live
    BY <1>1, <2>1, <2>5 DEF Live
  <2>7. pc \notin {"idle", "getconfig"} /\ faults' = faults
    BY <1>4, <2>1 DEF ResizeDisk, IsNext
  <2> QED
    BY <1>1, <1>2, <2>1, <2>2, <2>6, <2>7, NoPutIsPut, ProceedKeeps DEF StopsAreAsked
<1>5. CASE ResizeRefused
  BY <1>1, <1>5, FinishKeeps DEF ResizeRefused
<1>6. CASE SwitchPower
  <2>1. guest' \in Live
    BY <1>1, <1>6 DEF SwitchPower, Live
  <2> QED
    BY <1>1, <1>6, <2>1, FinishKeeps DEF SwitchPower
<1>7. CASE Fail
  <2>1. faults' \in 0..MaxFaults
    BY <1>1, <1>7, ExportBounds DEF Fail
  <2> QED
    BY <1>1, <1>7, <2>1, FinishKeeps DEF Fail
<1> QED
  BY <1>3, <1>4, <1>5, <1>6, <1>7

LEMMA NextInv ==
    ASSUME Inv, [Next]_vars
    PROVE  Inv'
<1> USE DEF Inv
<1>1. CASE Get
  BY <1>1 DEF Get, TypeOK, Planned, StopsAreAsked, PowerAsRead, plans, records
<1>2. CASE GetConfig
  <2>1. FromConfig(guest) \in Manifest /\ FromConfig(guest).run # "Halted"
    BY FromConfigIsManifest DEF TypeOK, FromConfig, RunFromOnboot
  <2> QED
    BY <1>2, <2>1, SaveKeeps DEF GetConfig
<1>3. CASE List
  <2>1. FromSummary(guest) \in Manifest /\ FromSummary(guest).run # "Halted"
    <3>1. FromSummary(guest).run = "Manual"
      BY DEF FromSummary
    <3> QED
      BY <1>3, <3>1, FromSummaryIsManifest DEF List, TypeOK
  <2> QED
    BY <1>3, <2>1, SaveKeeps DEF List
<1>4. CASE Write
  BY <1>4, SaveKeeps, DraftsAssumption DEF Write
<1>5. CASE Edit
  BY <1>5, EditKeeps
<1>6. CASE Apply
  <2>1. guest' \in Live /\ faults' \in 0..MaxFaults
    BY <1>6 DEF Apply, TypeOK
  <2>2. CASE Finish("failed")
    BY <2>1, <2>2, FinishKeeps
  <2>3. CASE ~Finish("failed")
    <3>1. /\ pc = "idle" /\ draft # None
          /\ pc' = IF draft.run = "Manual" THEN "config" ELSE "summary"
          /\ result' = "none"
          /\ UNCHANGED <<guest, faults, draft, plans, records, edits, moves>>
      BY <1>6, <2>3 DEF Apply
    <3>2. draft.run = "Manual" => PlannedPower(draft, guest.power) = "none"
      BY DEF PlannedPower
    <3>3. PowerAsRead'
      BY <3>1, <3>2 DEF PowerAsRead, Planned, plans, records
    <3> QED
      BY <3>1, <3>3 DEF TypeOK, Planned, StopsAreAsked, plans, records
  <2> QED
    BY <2>2, <2>3
<1>7. CASE ReadSummary
  <2>1. /\ PlannedPower(draft, guest.power) \in {"none", "start", "stop"}
        /\ PlannedPower(draft, guest.power) = "stop" => draft.run = "Halted"
    BY DEF PlannedPower
  <2> QED
    BY <1>7, <2>1 DEF ReadSummary, TypeOK, Planned, StopsAreAsked, PowerAsRead, records
<1>8. CASE ReadConfig
  BY <1>8, ReadConfigKeeps
<1>9. CASE UpdateConfig \/ ResizeDisk \/ ResizeRefused \/ SwitchPower \/ Fail
  BY <1>9, CallsKeep
<1>10. CASE Others
  <2>1. guest' \in Live
    BY <1>10, MachinesAssumption DEF Others
  <2> QED
    BY <1>10, <2>1, ExportBounds
    DEF Others, TypeOK, Planned, StopsAreAsked, PowerAsRead, plans, records
<1>11. CASE UNCHANGED vars
  BY <1>11 DEF vars, TypeOK, Planned, StopsAreAsked, PowerAsRead, plans, records
<1> QED
  BY <1>1, <1>2, <1>3, <1>4, <1>5, <1>6, <1>7, <1>8, <1>9, <1>10, <1>11 DEF Next

(***************************************************************************)
(* Types hold in every behaviour of get, edit and apply; with them a plan  *)
(* stops a machine only where its manifest says Halted.                    *)
(***************************************************************************)
THEOREM ExportInvariance == Spec => []Inv
  BY InitInv, NextInv, PTL DEF Spec

THEOREM ExportTypeCorrect == Spec => []TypeOK
<1>1. Inv => TypeOK
  BY DEF Inv
<1> QED
  BY <1>1, ExportInvariance, PTL

-----------------------------------------------------------------------------
(***************************************************************************)
(* An exact export, applied as it was printed, is unchanged, whatever      *)
(* apply was doing when somebody asks (Handler.Get).                       *)
(***************************************************************************)
THEOREM ReplaysAreUnchanged == Spec => RoundTripUnchanged
<1>1. ASSUME Inv, [Next]_vars, Complete(guest), Exact(guest), Apply \/ ReadConfig,
             origin = "get", draft = FromConfig(guest)
      PROVE  pc' \notin {"put", "resize", "power"} /\ result' \in {"none", "unchanged"}
  <2>1. guest \in Live
    BY <1>1 DEF Inv, TypeOK
  <2>2. CASE Apply
    BY <1>1, <2>2 DEF Apply, Complete
  <2>3. CASE ReadConfig
    <3>1. power = "none"
      BY <1>1, <2>1, <2>3, ExportInSync DEF Inv, PowerAsRead, ReadConfig
    <3>2. Finish("unchanged")
      BY <1>1, <2>1, <2>3, <3>1, ExportInSync DEF ReadConfig
    <3> QED
      BY <3>2 DEF Finish
  <2> QED
    BY <1>1, <2>2, <2>3
<1>2. Inv /\ [Next]_vars => [Complete(guest) /\ Exact(guest) => RoundTrip]_vars
  BY <1>1 DEF RoundTrip
<1> QED
  BY <1>2, ExportInvariance, PTL DEF Spec, RoundTripUnchanged

(***************************************************************************)
(* No later apply of a manifest that get or the list printed stops the     *)
(* machine or keeps it from starting on boot (runStrategyFromOnboot).      *)
(***************************************************************************)
THEOREM ReplaysNeverStop == Spec => ReplayNeverStops
<1> DEFINE Safe == /\ guest.power = "running" => guest'.power = "running"
                   /\ guest'.onboot \in {guest.onboot, 1}
<1>1. ASSUME Inv, Next, moves' = moves,
             exported \notin Drafts \cup {None}, draft.run = exported.run
      PROVE  Safe
  <2>1. draft.run # "Halted"
    BY <1>1 DEF Inv, StopsAreAsked
  <2>2. power # "stop" /\ put.onboot \in {None, 1}
    BY <1>1, <2>1 DEF Inv, StopsAreAsked, TypeOK, Puts
  <2>3. guest \in Live
    BY <1>1 DEF Inv, TypeOK
  <2>4. CASE UpdateConfig
    BY <2>2, <2>3, <2>4 DEF UpdateConfig, Updated, Over, Live
  <2>5. CASE ResizeDisk
    BY <2>3, <2>5 DEF ResizeDisk, Live
  <2>6. CASE SwitchPower
    <3>1. power = "start"
      BY <1>1, <2>2, <2>6 DEF Inv, Planned, TypeOK, SwitchPower
    <3> QED
      BY <2>3, <2>6, <3>1 DEF SwitchPower, Live
  <2>7. CASE Others
    BY <1>1, <2>7 DEF Others, Inv, TypeOK
  <2>8. CASE guest' = guest
    BY <2>8
  <2> QED
    BY <1>1, <2>4, <2>5, <2>6, <2>7, <2>8
    DEF Next, Get, GetConfig, List, Write, Edit, Save, Apply, ReadSummary, ReadConfig,
        ResizeRefused, Fail
<1>2. Inv /\ [Next]_vars =>
        [moves' = moves /\ exported \notin Drafts \cup {None} /\ draft.run = exported.run
         => Safe]_vars
  BY <1>1
<1> QED
  BY <1>2, ExportInvariance, PTL DEF Spec, ReplayNeverStops

-----------------------------------------------------------------------------
(***************************************************************************)
(* That only edits are applied needs more: while nobody else touches the   *)
(* machine, the plan that is sent is still the one its config calls for,   *)
(* and a disk still to be grown is smaller than the manifest says.         *)
(***************************************************************************)
PutAsRead ==
    pc = "put" /\ origin # "stale" =>
        /\ put = PutOf(guest, draft) /\ resizes = ResizesOf(guest, draft)
        /\ ~Unplannable(guest, draft)

Growing(g, m, r) ==
    \A s \in DriveSlots : r[s] # None =>
        /\ m.disks[s] # None /\ g.drives[s] # None
        /\ m.disks[s].size > g.drives[s].size

ResizesAsRead == pc = "resize" /\ origin # "stale" => Growing(guest, draft, resizes)

PlanAsRead == Inv /\ PutAsRead /\ ResizesAsRead

LEMMA ResizesGrow ==
    ASSUME NEW g, NEW m
    PROVE  Growing(g, m, ResizesOf(g, m))
  BY DEF Growing, ResizesOf, ChangedDrives

\* What UpdateConfig writes does not change the size of a disk to be grown.
LEMMA PutKeepsSizes ==
    ASSUME NEW g \in Live, NEW m \in Manifest, NEW mac
    PROVE  Growing(Updated(g, PutOf(g, m), mac), m, ResizesOf(g, m))
<1> DEFINE h == Updated(g, PutOf(g, m), mac)
<1> SUFFICES ASSUME NEW s \in DriveSlots, ResizesOf(g, m)[s] # None
             PROVE  /\ m.disks[s] # None /\ h.drives[s] # None
                    /\ m.disks[s].size > h.drives[s].size
  BY DEF Growing
<1>1. /\ s \in ChangedDrives(g, m) /\ g.drives[s] # None /\ m.disks[s] # None
      /\ m.disks[s].size > g.drives[s].size
  BY DEF ResizesOf, ChangedDrives
<1>2. g.drives[s] \in Drive /\ m.disks[s] \in Disk
  BY <1>1 DEF Live, Manifest
<1>3. h.drives[s] = Over(Rebuilt(g.drives[s], m.disks[s]), g.drives[s])
  BY <1>1 DEF Updated, PutOf, Live
<1>4. h.drives[s] # None /\ h.drives[s].size = g.drives[s].size
  BY <1>1, <1>2, <1>3, NoneAssumption DEF Over, Rebuilt, Drive
<1> QED
  BY <1>1, <1>4

LEMMA PlanAsReadInit == Init => PlanAsRead
  BY InitInv DEF PlanAsRead, PutAsRead, ResizesAsRead, Init

LEMMA PlanAsReadNext ==
    ASSUME PlanAsRead, [Next]_vars
    PROVE  PlanAsRead'
<1>1. Inv /\ Inv'
  BY NextInv DEF PlanAsRead
<1>2. guest \in Live /\ TypeOK
  BY <1>1 DEF Inv, TypeOK
<1>3. CASE ReadConfig
  <2>1. CASE pc' = "idle"
    BY <1>1, <2>1 DEF PlanAsRead, PutAsRead, ResizesAsRead
  <2>2. CASE pc' # "idle"
    <3>1. /\ Proceed(PutOf(guest, draft), ResizesOf(guest, draft), power)
          /\ ~Unplannable(guest, draft) \/ (InSync(guest, draft) /\ power = "none")
          /\ guest' = guest
      BY <1>3, <2>2 DEF ReadConfig, Finish
    <3>2. ~(InSync(guest, draft) /\ power = "none")
      BY <1>3, <2>2 DEF ReadConfig, Finish
    <3>3. /\ put' = PutOf(guest, draft) /\ resizes' = ResizesOf(guest, draft)
          /\ draft' = draft
      BY <3>1 DEF Proceed
    <3> QED
      BY <1>1, <3>1, <3>2, <3>3, ResizesGrow DEF PlanAsRead, PutAsRead, ResizesAsRead
  <2> QED
    BY <2>1, <2>2
<1>4. CASE UpdateConfig
  <2>1. pc' # "put" /\ resizes' = resizes /\ draft' = draft /\ origin' = origin
    BY <1>4 DEF UpdateConfig, Proceed, NextCall, records
  <2>2. ASSUME origin # "stale"
        PROVE  Growing(guest', draft, resizes)
    <3>1. PICK mac \in MACs : guest' = Updated(guest, put, mac)
      BY <1>4 DEF UpdateConfig
    <3>2. put = PutOf(guest, draft) /\ resizes = ResizesOf(guest, draft)
      BY <1>4, <2>2 DEF UpdateConfig, PlanAsRead, PutAsRead
    <3>3. draft \in Manifest
      BY <1>1, <1>4 DEF UpdateConfig, Inv, TypeOK, Planned
    <3> QED
      BY <1>2, <3>1, <3>2, <3>3, PutKeepsSizes
  <2> QED
    BY <1>1, <2>1, <2>2 DEF PlanAsRead, PutAsRead, ResizesAsRead
<1>5. CASE ResizeDisk
  <2>1. PICK d \in DriveSlots :
            /\ IsNext(d) /\ CanGrow(d)
            /\ guest' = [guest EXCEPT !.drives[d].size = resizes[d]]
            /\ Proceed(NoPut, [resizes EXCEPT ![d] = None], power)
    BY <1>5 DEF ResizeDisk
  <2>2. /\ pc = "resize" /\ pc' # "put" /\ resizes' = [resizes EXCEPT ![d] = None]
        /\ draft' = draft /\ origin' = origin
    BY <2>1 DEF IsNext, Proceed, NextCall, records
  <2>3. resizes \in [DriveSlots -> Nat \cup {None}]
    BY <1>2 DEF TypeOK
  <2>4. \A s \in DriveSlots : s # d => guest'.drives[s] = guest.drives[s]
    BY <1>2, <2>1 DEF Live
  <2>5. origin # "stale" => Growing(guest', draft, resizes')
    BY <2>2, <2>3, <2>4 DEF PlanAsRead, ResizesAsRead, Growing
  <2> QED
    BY <1>1, <2>2, <2>5 DEF PlanAsRead, PutAsRead, ResizesAsRead
<1>6. CASE ResizeRefused \/ SwitchPower \/ Fail
  <2>1. pc' = "idle"
    BY <1>6 DEF ResizeRefused, SwitchPower, Fail, Finish
  <2> QED
    BY <1>1, <2>1 DEF PlanAsRead, PutAsRead, ResizesAsRead
<1>7. CASE Others
  <2>1. origin' = "stale"
    BY <1>7 DEF Others
  <2> QED
    BY <1>1, <2>1 DEF PlanAsRead, PutAsRead, ResizesAsRead
<1>8. CASE Get \/ GetConfig \/ List \/ Write \/ Edit \/ Apply \/ ReadSummary
  <2>1. pc' \notin {"put", "resize"}
    BY <1>8 DEF Get, GetConfig, List, Write, Edit, Save, Apply, ReadSummary, Finish
  <2> QED
    BY <1>1, <2>1 DEF PlanAsRead, PutAsRead, ResizesAsRead
<1>9. CASE UNCHANGED vars
  BY <1>1, <1>9 DEF vars, plans, records, PlanAsRead, PutAsRead, ResizesAsRead
<1> QED
  BY <1>3, <1>4, <1>5, <1>6, <1>7, <1>8, <1>9 DEF Next

\* Sizes are rounded down.
LEMMA ShownAtMost ==
    ASSUME NEW n \in Nat
    PROVE  Shown(n) <= n
<1>1. (n \div KiB) * KiB <= n
  BY NumbersAssumption, SMT
<1> QED
  BY <1>1 DEF Shown

(***************************************************************************)
(* Where the draft says what is printed, nothing is written.               *)
(***************************************************************************)
LEMMA SettingSpared ==
    ASSUME NEW g \in Live, NEW m \in Manifest, NEW mac, NEW k \in Settings,
           m.settings[k] \in {None, FromConfig(g).settings[k]}
    PROVE  Updated(g, PutOf(g, m), mac).settings[k] = g.settings[k]
<1>1. k \notin ChangedSettings(g, m)
  BY DEF ChangedSettings, FromConfig
<1>2. PutOf(g, m).settings[k] = None
  BY <1>1 DEF PutOf
<1> QED
  BY <1>2 DEF Updated, Live

LEMMA NICSpared ==
    ASSUME NEW g \in Live, NEW m \in Manifest, NEW mac, NEW s \in NetSlots,
           m.networks[s] \in {None, FromConfig(g).networks[s]}
    PROVE  Updated(g, PutOf(g, m), mac).nets[s] = g.nets[s]
<1>1. s \notin ChangedNets(g, m)
  BY ExportedNets DEF ChangedNets
<1>2. PutOf(g, m).nets[s] = None
  BY <1>1 DEF PutOf
<1> QED
  BY <1>2 DEF Updated, Live

LEMMA DriveSpared ==
    ASSUME NEW g \in Live, NEW m \in Manifest, NEW mac, NEW s \in DriveSlots,
           m.disks[s] \in {None, FromConfig(g).disks[s]}, ~Unplannable(g, m)
    PROVE  Updated(g, PutOf(g, m), mac).drives[s] = g.drives[s]
<1>1. s \notin ChangedDrives(g, m)
  <2>1. SUFFICES ASSUME s \in ChangedDrives(g, m) PROVE FALSE
    OBVIOUS
  <2>2. m.disks[s] # None /\ m.disks[s] = FromDrive(g.drives[s]) /\ g.drives[s] # None
    BY <2>1 DEF ChangedDrives, FromConfig
  <2>3. g.drives[s] \in Drive
    BY <2>2 DEF Live
  <2>4. /\ DriveDiffers(g.drives[s], m.disks[s])
        /\ ~Impossible(g.drives[s], m.disks[s])
    BY <2>1 DEF ChangedDrives, Unplannable
  <2>5. g.drives[s].size # Shown(g.drives[s].size)
    BY <2>2, <2>4 DEF DriveDiffers, FromDrive
  <2>6. ~(Shown(g.drives[s].size) < g.drives[s].size)
    BY <2>2, <2>4 DEF Impossible, FromDrive
  <2>7. g.drives[s].size \in Nat
    BY <2>3 DEF Drive
  <2>8. Shown(g.drives[s].size) \in Nat /\ Shown(g.drives[s].size) <= g.drives[s].size
    BY <2>7, ShownIsNat, ShownAtMost
  <2> QED
    BY <2>5, <2>6, <2>7, <2>8
<1>2. PutOf(g, m).drives[s] = None
  BY <1>1 DEF PutOf
<1> QED
  BY <1>2 DEF Updated, Over, Live

LEMMA KeysSpared ==
    ASSUME NEW g \in Live, NEW m \in Manifest, NEW mac, NoBarePlus(g),
           m.sshkeys \in {{}, DecodedKeys(g.sshkeys)}
    PROVE  MeantKeys(Updated(g, PutOf(g, m), mac).sshkeys) = MeantKeys(g.sshkeys)
<1> DEFINE p == PutOf(g, m)
           Meant(k) == [id |-> k.id, mark |-> IF k.mark = "+" THEN "%2B" ELSE k.mark]
<1>1. CASE p.sshkeys = {}
  <2>1. Updated(g, p, mac).sshkeys = g.sshkeys
    BY <1>1 DEF Updated, Live
  <2> QED
    BY <2>1
<1>2. CASE p.sshkeys # {}
  <2>1. p.sshkeys = {Escaped(k) : k \in DecodedKeys(g.sshkeys)}
    BY <1>2 DEF PutOf, KeysChanged
  <2>2. Updated(g, p, mac).sshkeys.keys = p.sshkeys
    BY <1>2 DEF Updated, Live
  <2>3. ASSUME NEW k \in g.sshkeys.keys
        PROVE  Meant(Escaped(Unescaped(k))) = Meant(k)
    <3>1. k \in StoredKey /\ k.mark # "+"
      BY DEF Live, KeyText, NoBarePlus
    <3>2. k.mark \in {"none", "%2B", "%20"}
      BY <3>1 DEF StoredKey
    <3>3. CASE k.mark = "none"
      BY <3>1, <3>3 DEF Unescaped, Escaped
    <3>4. CASE k.mark = "%2B"
      BY <3>1, <3>4 DEF Unescaped, Escaped
    <3>5. CASE k.mark = "%20"
      BY <3>1, <3>5 DEF Unescaped, Escaped
    <3> QED
      BY <3>2, <3>3, <3>4, <3>5
  <2>4. p.sshkeys = {Escaped(Unescaped(k)) : k \in g.sshkeys.keys}
    BY <2>1 DEF DecodedKeys
  <2>5. {Meant(k) : k \in p.sshkeys} = {Meant(k) : k \in g.sshkeys.keys}
    <3> HIDE DEF p, Meant
    <3> QED
      BY <2>3, <2>4
  <2> QED
    BY <2>2, <2>5 DEF MeantKeys
<1> QED
  BY <1>1, <1>2

\* What the list says of a machine with one socket is what get says.
LEMMA SummaryAgrees ==
    ASSUME NEW g \in Live, OneSocket(g), NEW k \in Settings
    PROVE  FromSummary(g).settings[k] \in {None, FromConfig(g).settings[k]}
<1>1. CASE k = "cores"
  <2>1. g.settings["cores"] \in Setting /\ g.settings["cores"] # None
    BY DEF OneSocket, Settings, Live
  <2>2. g.settings["cores"].number \in Nat
    BY <2>1, NumbersAssumption DEF Setting
  <2>3. NumberOf(g, "cores", 1) * 1 = g.settings["cores"].number
    BY <2>1, <2>2 DEF NumberOf
  <2>4. FromSummary(g).settings["cores"] = NumberOf(g, "cores", 1) * NumberOf(g, "sockets", 1)
    BY DEF FromSummary, Settings
  <2>5. FromConfig(g).settings["cores"] = g.settings["cores"].number
    BY <2>1 DEF FromConfig, Settings
  <2> QED
    BY <1>1, <2>3, <2>4, <2>5 DEF OneSocket
<1>2. CASE k = "memory"
  BY <1>2 DEF FromSummary, FromConfig, Settings, OneSocket, NumberOf
<1>3. CASE k = "tags"
  BY <1>3 DEF FromSummary, FromConfig, Settings, NumberOf
<1>4. CASE k \notin {"cores", "memory", "tags"}
  BY <1>4 DEF FromSummary
<1> QED
  BY <1>1, <1>2, <1>3, <1>4

LEMMA UpdateSpares ==
    ASSUME PlanAsRead, UpdateConfig, NEW printed,
           \/ printed = FromConfig(guest)
           \/ printed = FromSummary(guest) /\ OneSocket(guest),
           origin # "stale"
    PROVE  Spared(guest, guest', printed)
<1>1. guest \in Live /\ draft \in Manifest
  BY DEF UpdateConfig, PlanAsRead, Inv, TypeOK, Planned
<1>2. PICK mac \in MACs : guest' = Updated(guest, PutOf(guest, draft), mac)
  BY DEF UpdateConfig, PlanAsRead, PutAsRead
<1>3. ~Unplannable(guest, draft)
  BY DEF UpdateConfig, PlanAsRead, PutAsRead
<1>4. ASSUME NEW k \in Settings, Untouched(printed, "settings", k)
      PROVE  guest'.settings[k] = guest.settings[k]
  <2>1. draft.settings[k] \in {None, FromConfig(guest).settings[k]}
    BY <1>1, <1>4, SummaryAgrees DEF Untouched
  <2> QED
    BY <1>1, <1>2, <2>1, SettingSpared
<1>5. ASSUME NEW s \in NetSlots, Untouched(printed, "networks", s)
      PROVE  guest'.nets[s] = guest.nets[s]
  <2>1. draft.networks[s] \in {None, FromConfig(guest).networks[s]}
    BY <1>5 DEF Untouched, FromSummary
  <2> QED
    BY <1>1, <1>2, <2>1, NICSpared
<1>6. ASSUME NEW s \in DriveSlots, Untouched(printed, "disks", s)
      PROVE  guest'.drives[s] = guest.drives[s]
  <2>1. draft.disks[s] \in {None, FromConfig(guest).disks[s]}
    BY <1>6 DEF Untouched, FromSummary
  <2> QED
    BY <1>1, <1>2, <1>3, <2>1, DriveSpared
<1>7. ASSUME {draft.sshkeys, printed.sshkeys} = {exported.sshkeys}, NoBarePlus(guest)
      PROVE  MeantKeys(guest'.sshkeys) = MeantKeys(guest.sshkeys)
  <2>1. draft.sshkeys = printed.sshkeys
    BY <1>7
  <2>2. printed.sshkeys \in {{}, DecodedKeys(guest.sshkeys)}
    BY DEF FromConfig, FromSummary
  <2> QED
    BY <1>1, <1>2, <1>7, <2>1, <2>2, KeysSpared
<1> QED
  BY <1>4, <1>5, <1>6, <1>7 DEF Spared

LEMMA ResizeSpares ==
    ASSUME PlanAsRead, ResizeDisk, NEW printed,
           printed \in {FromConfig(guest), FromSummary(guest)},
           origin # "stale"
    PROVE  Spared(guest, guest', printed)
<1>1. guest \in Live /\ resizes \in [DriveSlots -> Nat \cup {None}]
  BY DEF PlanAsRead, Inv, TypeOK
<1>2. PICK d \in DriveSlots :
          IsNext(d) /\ guest' = [guest EXCEPT !.drives[d].size = resizes[d]]
  BY DEF ResizeDisk
<1>3. /\ draft.disks[d] # None /\ guest.drives[d] # None
      /\ draft.disks[d].size > guest.drives[d].size
  BY <1>2 DEF IsNext, PlanAsRead, ResizesAsRead, Growing
<1>4. ~Untouched(printed, "disks", d)
  <2>1. SUFFICES ASSUME draft.disks[d] = FromConfig(guest).disks[d] PROVE FALSE
    BY <1>3 DEF Untouched, FromSummary
  <2>2. draft.disks[d] = FromDrive(guest.drives[d])
    BY <1>3, <2>1 DEF FromConfig
  <2>3. guest.drives[d].size \in Nat
    BY <1>1, <1>3 DEF Live, Drive
  <2>4. /\ Shown(guest.drives[d].size) <= guest.drives[d].size
        /\ Shown(guest.drives[d].size) \in Nat
    BY <2>3, ShownAtMost, ShownIsNat
  <2>5. draft.disks[d].size = Shown(guest.drives[d].size)
    BY <2>2 DEF FromDrive
  <2> QED
    BY <1>3, <2>3, <2>4, <2>5
<1>5. /\ guest'.settings = guest.settings /\ guest'.nets = guest.nets
      /\ guest'.sshkeys = guest.sshkeys
      /\ \A s \in DriveSlots : s # d => guest'.drives[s] = guest.drives[s]
  BY <1>1, <1>2 DEF Live
<1> QED
  BY <1>4, <1>5 DEF Spared

(***************************************************************************)
(* An apply of an edited export leaves every setting, NIC and disk that    *)
(* was not edited exactly as it is on the machine, with what the manifest  *)
(* cannot say, and ssh keys as they are meant where none holds a bare "+"  *)
(* (planUpdate sends changed keys only, and rebuildDiskValue builds on     *)
(* what is there).                                                         *)
(***************************************************************************)
THEOREM EditsOnly == Spec => OnlyEditsAreApplied
<1> DEFINE printed == IF origin' = "get" THEN FromConfig(guest) ELSE FromSummary(guest)
           Premise == /\ guest' # guest
                      /\ \/ origin' = "get"
                         \/ origin' = "list" /\ OneSocket(guest)
<1>1. ASSUME PlanAsRead, Next, Premise
      PROVE  Spared(guest, guest', printed)
  <2>1. CASE UpdateConfig
    <3>1. origin' = origin
      BY <2>1 DEF UpdateConfig, Proceed, records
    <3> QED
      BY <1>1, <2>1, <3>1, UpdateSpares
  <2>2. CASE ResizeDisk
    <3>1. origin' = origin
      BY <2>2 DEF ResizeDisk, Proceed, records
    <3> QED
      BY <1>1, <2>2, <3>1, ResizeSpares
  <2>3. CASE SwitchPower
    <3>1. /\ guest'.settings = guest.settings /\ guest'.nets = guest.nets
          /\ guest'.sshkeys = guest.sshkeys /\ guest'.drives = guest.drives
      BY <1>1, <2>3 DEF SwitchPower, PlanAsRead, Inv, TypeOK, Live
    <3> QED
      BY <3>1 DEF Spared
  <2>4. CASE Others
    BY <1>1, <2>4 DEF Others
  <2> QED
    BY <1>1, <2>1, <2>2, <2>3, <2>4
    DEF Next, Get, GetConfig, List, Write, Edit, Save, Apply, ReadSummary, ReadConfig,
        ResizeRefused, Fail
<1>2. Spec => []PlanAsRead
  BY PlanAsReadInit, PlanAsReadNext, PTL DEF Spec
<1>3. PlanAsRead /\ [Next]_vars => [Premise => Spared(guest, guest', printed)]_vars
  BY <1>1
<1> QED
  BY <1>2, <1>3, PTL DEF Spec, OnlyEditsAreApplied

-----------------------------------------------------------------------------
(***************************************************************************)
(* What is still missing after each call of an apply: the keys are right   *)
(* from the PUT on, the disks that remain to be resized are too small and  *)
(* otherwise right.                                                        *)
(***************************************************************************)
SettledKeys(g, m) ==
    /\ ChangedSettings(g, m) = {} /\ ChangedNets(g, m) = {}
    /\ ~OnbootChanged(g, m) /\ ~KeysChanged(g, m)

SettledDrives(drives, m, r) ==
    \A s \in DriveSlots :
        /\ m.disks[s] # None =>
            /\ drives[s] # None
            /\ drives[s].storage = m.disks[s].storage
            /\ m.disks[s].cache \in {None, drives[s].cache}
            /\ m.disks[s].format \in {None, drives[s].format}
            /\ r[s] = None => drives[s].size = m.disks[s].size
        /\ r[s] # None => m.disks[s] # None /\ r[s] = m.disks[s].size

SettledBut(g, m, r) == SettledKeys(g, m) /\ SettledDrives(g.drives, m, r)

Settling ==
    origin # "stale" /\ WholeSizes(draft.disks) =>
        /\ pc = "resize" => SettledBut(guest, draft, resizes)
        /\ pc = "power" => InSync(guest, draft)
        /\ pc \in {"put", "resize", "power"} => power = PlannedPower(draft, guest.power)
        /\ pc = "idle" /\ result \in {"configured", "unchanged"} =>
            InSync(guest, draft) /\ PlannedPower(draft, guest.power) = "none"

LEMMA DriveSettles ==
    ASSUME NEW cur \in Drive, NEW des \in Disk, ~Impossible(cur, des)
    PROVE  LET d == Over(Rebuilt(cur, des), cur)
           IN  /\ d # None /\ d.storage = des.storage /\ d.size = cur.size
               /\ des.cache \in {None, d.cache} /\ des.format \in {None, d.format}
               /\ cur.size <= des.size
<1> DEFINE merged == [cur EXCEPT !.cache = Over(des.cache, cur.cache),
                                 !.format = Over(des.format, cur.format)]
<1>1. merged \in Drive
  BY DEF Drive, Disk, Over
<1>2. Over(Rebuilt(cur, des), cur) = merged
  BY <1>1, NoneAssumption DEF Over, Rebuilt
<1>3. /\ merged.storage = cur.storage /\ merged.size = cur.size
      /\ merged.cache = Over(des.cache, cur.cache)
      /\ merged.format = Over(des.format, cur.format)
  BY DEF Drive
<1>4. cur # None /\ cur.size \in Nat /\ des.size \in Nat
  BY NoneAssumption DEF Drive, Disk
<1>5. des.storage = cur.storage /\ cur.size <= des.size
  BY <1>4 DEF Impossible
<1> HIDE DEF merged
<1> QED
  BY <1>1, <1>2, <1>3, <1>5, NoneAssumption DEF Over

LEMMA DrivesSettle ==
    ASSUME NEW g \in Live, NEW m \in Manifest, ~Unplannable(g, m), WholeSizes(m.disks),
           NEW drives,
           \A s \in DriveSlots : drives[s] = Over(PutOf(g, m).drives[s], g.drives[s])
    PROVE  SettledDrives(drives, m, ResizesOf(g, m))
<1> DEFINE r == ResizesOf(g, m)
<1> SUFFICES ASSUME NEW s \in DriveSlots
             PROVE  /\ m.disks[s] # None =>
                        /\ drives[s] # None
                        /\ drives[s].storage = m.disks[s].storage
                        /\ m.disks[s].cache \in {None, drives[s].cache}
                        /\ m.disks[s].format \in {None, drives[s].format}
                        /\ r[s] = None => drives[s].size = m.disks[s].size
                    /\ r[s] # None => m.disks[s] # None /\ r[s] = m.disks[s].size
  BY DEF SettledDrives
<1> DEFINE cur == g.drives[s]
           des == m.disks[s]
<1>1. cur \in Drive \cup {None} /\ des \in Disk \cup {None}
  BY DEF Live, Manifest
<1>2. des # None => des \in Disk /\ des.size \in Nat /\ Shown(des.size) = des.size
  BY <1>1, ShownWhole DEF Disk, WholeSizes
<1>3. r[s] = IF s \in ChangedDrives(g, m) /\ cur # None /\ des.size > cur.size
             THEN Shown(des.size) ELSE None
  BY DEF ResizesOf
<1>4. drives[s] = Over(PutOf(g, m).drives[s], cur)
  OBVIOUS
<1>5. CASE s \notin ChangedDrives(g, m)
  <2>1. drives[s] = cur /\ r[s] = None
    BY <1>3, <1>4, <1>5 DEF PutOf, Over
  <2>2. des # None => ~DriveDiffers(cur, des)
    BY <1>5 DEF ChangedDrives
  <2> QED
    BY <2>1, <2>2 DEF DriveDiffers
<1>6. CASE s \in ChangedDrives(g, m) /\ cur = None
  <2>1. des # None /\ r[s] = None /\ PutOf(g, m).drives[s] = Allocated(des)
    BY <1>3, <1>6 DEF ChangedDrives, PutOf
  <2>2. Allocated(des) \in Drive
    BY <1>2, <2>1, AllocatedIsDrive
  <2>3. drives[s] = Allocated(des)
    BY <1>4, <2>1, <2>2, NoneAssumption DEF Over
  <2> QED
    BY <1>2, <2>1, <2>2, <2>3, NoneAssumption DEF Allocated
<1>7. CASE s \in ChangedDrives(g, m) /\ cur # None
  <2>1. des # None /\ ~Impossible(cur, des)
    BY <1>7 DEF ChangedDrives, Unplannable
  <2>2. drives[s] = Over(Rebuilt(cur, des), cur)
    BY <1>4, <1>7 DEF PutOf
  <2>3. /\ drives[s] # None /\ drives[s].storage = des.storage
        /\ drives[s].size = cur.size /\ cur.size <= des.size
        /\ des.cache \in {None, drives[s].cache}
        /\ des.format \in {None, drives[s].format}
    BY <1>1, <1>2, <1>7, <2>1, <2>2, DriveSettles
  <2>4. cur.size \in Nat
    BY <1>1, <1>7 DEF Drive
  <2>5. r[s] = None => cur.size = des.size
    BY <1>2, <1>3, <1>7, <2>1, <2>3, <2>4, NoneAssumption
  <2>6. r[s] # None => r[s] = des.size
    BY <1>2, <1>3, <2>1
  <2> QED
    BY <2>1, <2>3, <2>5, <2>6
<1> QED
  BY <1>5, <1>6, <1>7

LEMMA SentSettles ==
    ASSUME NEW g \in Live, NEW m \in Manifest, NEW mac \in MACs,
           ~Unplannable(g, m), WholeSizes(m.disks)
    PROVE  SettledBut(Updated(g, PutOf(g, m), mac), m, ResizesOf(g, m))
<1> DEFINE p == PutOf(g, m)
           h == Updated(g, p, mac)
<1>1. h \in Live /\ p \in Puts
  BY PutOfIsPut, UpdatedIsLive
<1>2. ChangedSettings(h, m) = {}
  <2>1. SUFFICES ASSUME NEW k \in Settings, m.settings[k] # None
                 PROVE  h.settings[k] # None /\ h.settings[k].number = m.settings[k]
    BY DEF ChangedSettings
  <2>2. CASE k \in ChangedSettings(g, m)
    <3>1. p.settings[k] = m.settings[k]
      BY <2>2 DEF PutOf
    <3>2. h.settings[k] = [number |-> m.settings[k], rest |-> Plain]
      BY <2>1, <3>1 DEF Updated, Live
    <3>3. m.settings[k] \in Numbers
      BY <2>1 DEF Manifest
    <3>4. h.settings[k] \in Setting
      BY <3>2, <3>3, PlainAssumption DEF Setting
    <3> QED
      BY <3>2, <3>4, NoneAssumption
  <2>3. CASE k \notin ChangedSettings(g, m)
    <3>1. p.settings[k] = None
      BY <2>3 DEF PutOf
    <3>2. h.settings[k] = g.settings[k]
      BY <3>1 DEF Updated, Live
    <3> QED
      BY <2>1, <2>3, <3>2 DEF ChangedSettings
  <2> QED
    BY <2>2, <2>3
<1>3. ChangedNets(h, m) = {}
  <2>1. SUFFICES ASSUME NEW s \in NetSlots, m.networks[s] # None
                 PROVE  ~NICDiffers(h.nets[s], m.networks[s])
    BY DEF ChangedNets
  <2> DEFINE des == m.networks[s]
  <2>2. CASE s \in ChangedNets(g, m)
    <3>1. des \in Network
      BY <2>1 DEF Manifest
    <3>2. p.nets[s] = NetworkValue(des)
      BY <2>2 DEF PutOf
    <3>3. NetworkValue(des) \in Network /\ ModelOf(des) \in Models
      BY <3>1, VirtioAssumption DEF NetworkValue, Network, ModelOf
    <3>4. h.nets[s] = [model |-> ModelOf(des), mac |-> mac, bridge |-> des.bridge,
                       tag |-> des.tag, rest |-> Plain]
      BY <3>2, <3>3, NoneAssumption DEF Updated, Live, NetworkValue
    <3>5. h.nets[s] \in NIC
      BY <3>1, <3>3, <3>4, PlainAssumption DEF NIC, Network
    <3> QED
      BY <3>4, <3>5, NoneAssumption DEF NICDiffers
  <2>3. CASE s \notin ChangedNets(g, m)
    <3>1. p.nets[s] = None
      BY <2>3 DEF PutOf
    <3>2. h.nets[s] = g.nets[s]
      BY <3>1 DEF Updated, Live
    <3> QED
      BY <2>1, <2>3, <3>2 DEF ChangedNets
  <2> QED
    BY <2>2, <2>3
<1>4. ~OnbootChanged(h, m)
  <2>1. h.onboot = Over(p.onboot, g.onboot)
    BY DEF Updated, Live
  <2> QED
    BY <2>1 DEF OnbootChanged, PutOf, Over
<1>5. ~KeysChanged(h, m)
  <2>1. CASE KeysChanged(g, m)
    <3>1. p.sshkeys = {Escaped(k) : k \in m.sshkeys} /\ m.sshkeys # {}
      BY <2>1 DEF PutOf, KeysChanged
    <3>2. h.sshkeys = [keys |-> p.sshkeys, newline |-> FALSE]
      BY <3>1 DEF Updated, Live
    <3>3. DecodedKeys(h.sshkeys) = {Unescaped(Escaped(k)) : k \in m.sshkeys}
      BY <3>1, <3>2 DEF DecodedKeys
    <3>4. ~h.sshkeys.newline
      BY <3>2
    <3> HIDE DEF h
    <3> QED
      BY <3>3, <3>4 DEF KeysChanged
  <2>2. CASE ~KeysChanged(g, m)
    <3>1. h.sshkeys = g.sshkeys
      BY <2>2 DEF Updated, Live, PutOf
    <3> QED
      BY <2>2, <3>1 DEF KeysChanged, DecodedKeys
  <2> QED
    BY <2>1, <2>2
<1>6. SettledDrives(h.drives, m, ResizesOf(g, m))
  <2>1. \A s \in DriveSlots : h.drives[s] = Over(p.drives[s], g.drives[s])
    BY DEF Updated, Live
  <2> QED
    BY <2>1, DrivesSettle
<1> QED
  BY <1>2, <1>3, <1>4, <1>5, <1>6 DEF SettledBut, SettledKeys

\* Nothing to send: the keys were right before.
LEMMA UnsentSettles ==
    ASSUME NEW g \in Live, NEW m \in Manifest, PutOf(g, m) = NoPut,
           ~Unplannable(g, m), WholeSizes(m.disks)
    PROVE  SettledBut(g, m, ResizesOf(g, m))
<1> DEFINE p == PutOf(g, m)
<1>1. /\ \A k \in Settings : p.settings[k] = None
      /\ \A s \in NetSlots : p.nets[s] = None
      /\ \A s \in DriveSlots : p.drives[s] = None
      /\ p.onboot = None /\ p.sshkeys = {}
  BY DEF NoPut
<1>2. ChangedSettings(g, m) = {}
  BY <1>1 DEF PutOf, ChangedSettings
<1>3. ChangedNets(g, m) = {}
  <2>1. SUFFICES ASSUME NEW s \in ChangedNets(g, m) PROVE FALSE
    OBVIOUS
  <2>2. s \in NetSlots /\ m.networks[s] \in Network
    BY <2>1 DEF ChangedNets, Manifest
  <2>3. NetworkValue(m.networks[s]) \in Network
    BY <2>2, VirtioAssumption DEF NetworkValue, Network, ModelOf
  <2>4. p.nets[s] = NetworkValue(m.networks[s])
    BY <2>1, <2>2 DEF PutOf
  <2> QED
    BY <1>1, <2>2, <2>3, <2>4, NoneAssumption
<1>4. ~OnbootChanged(g, m)
  BY <1>1 DEF PutOf, OnbootChanged
<1>5. ~KeysChanged(g, m)
  BY <1>1 DEF PutOf, KeysChanged
<1>6. \A s \in DriveSlots : g.drives[s] = Over(p.drives[s], g.drives[s])
  BY <1>1 DEF Over
<1> QED
  BY <1>2, <1>3, <1>4, <1>5, <1>6, DrivesSettle DEF SettledBut, SettledKeys

LEMMA AllSettled ==
    ASSUME NEW g, NEW m, SettledBut(g, m, NoResizes)
    PROVE  InSync(g, m)
  BY DEF SettledBut, SettledKeys, SettledDrives, NoResizes, InSync, ChangedDrives, DriveDiffers

\* One disk less.
LEMMA GrownSettles ==
    ASSUME NEW g \in Live, NEW m \in Manifest, NEW r \in [DriveSlots -> Nat \cup {None}],
           SettledBut(g, m, r), NEW d \in DriveSlots, r[d] # None, g.drives[d] # None
    PROVE  SettledBut([g EXCEPT !.drives[d].size = r[d]], m, [r EXCEPT ![d] = None])
<1> DEFINE h == [g EXCEPT !.drives[d].size = r[d]]
<1>1. /\ h.settings = g.settings /\ h.nets = g.nets /\ h.onboot = g.onboot
      /\ h.sshkeys = g.sshkeys /\ h.drives = [g.drives EXCEPT ![d].size = r[d]]
  BY DEF Live
<1>2. SettledKeys(h, m)
  BY <1>1 DEF SettledBut, SettledKeys, ChangedSettings, ChangedNets, OnbootChanged, KeysChanged
<1>3. g.drives[d] \in Drive /\ r[d] \in Nat
  BY DEF Live
<1>4. \A s \in DriveSlots : s # d => h.drives[s] = g.drives[s]
  BY <1>1 DEF Live
<1>5. h.drives[d] = [g.drives[d] EXCEPT !.size = r[d]]
  BY <1>1 DEF Live
<1>6. h.drives[d] \in Drive
  BY <1>3, <1>5 DEF Drive
<1>7. /\ h.drives[d] # None /\ h.drives[d].storage = g.drives[d].storage
      /\ h.drives[d].cache = g.drives[d].cache /\ h.drives[d].format = g.drives[d].format
      /\ h.drives[d].size = r[d]
  BY <1>3, <1>5, <1>6, NoneAssumption DEF Drive
<1>8. SettledDrives(h.drives, m, [r EXCEPT ![d] = None])
  BY <1>4, <1>7 DEF SettledBut, SettledDrives
<1> QED
  BY <1>2, <1>8 DEF SettledBut

LEMMA PowerSettles ==
    ASSUME NEW m, NEW w, NEW old, w = PlannedPower(m, old), w # "none"
    PROVE  PlannedPower(m, IF w = "start" THEN "running" ELSE "stopped") = "none"
  BY DEF PlannedPower

\* What is left of the plan is right: so is the next call, or the end.
LEMMA ProceedSettles ==
    ASSUME TypeOK, TypeOK', NEW p \in Puts, NEW r \in [DriveSlots -> Nat \cup {None}],
           Proceed(p, r, power), draft' = draft,
           power = PlannedPower(draft, guest'.power),
           p # NoPut \/ SettledBut(guest', draft, r)
    PROVE  Settling'
<1> DEFINE w == power
<1>1. /\ put' = p /\ resizes' = r
      /\ pc' = "idle" => p = NoPut /\ r = NoResizes /\ w = "none"
      /\ pc' = "put" => p # NoPut
      /\ pc' = "resize" => p = NoPut
      /\ pc' = "power" => p = NoPut /\ r = NoResizes
      /\ pc' # "idle" => power' = w
  BY DEF Proceed, NextCall
<1>2. pc' = "resize" => SettledBut(guest', draft, resizes')
  BY <1>1
<1>3. pc' \in {"power", "idle"} => InSync(guest', draft)
  BY <1>1, AllSettled
<1>4. pc' # "idle" => power' = PlannedPower(draft, guest'.power)
  BY <1>1
<1>5. pc' = "idle" => PlannedPower(draft, guest'.power) = "none"
  BY <1>1
<1> QED
  BY <1>2, <1>3, <1>4, <1>5 DEF Settling

LEMMA SettlingNext ==
    ASSUME PlanAsRead, PlanAsRead', Settling, [Next]_vars
    PROVE  Settling'
<1>1. TypeOK /\ TypeOK' /\ Planned /\ PowerAsRead
  BY DEF PlanAsRead, Inv
<1> SUFFICES ASSUME origin' # "stale", WholeSizes(draft'.disks)
             PROVE  Settling'
  BY DEF Settling
<1>2. CASE Get \/ GetConfig \/ List \/ Write \/ Edit \/ Apply \/ ReadSummary
  <2>1. /\ pc' \notin {"put", "resize", "power"}
        /\ pc' = "idle" => result' \in {"none", "failed"}
    BY <1>2 DEF Get, GetConfig, List, Write, Edit, Save, Apply, ReadSummary, Finish
  <2> QED
    BY <2>1 DEF Settling
<1>3. CASE ResizeRefused \/ Fail
  <2>1. pc' = "idle" /\ result' = "failed"
    BY <1>3 DEF ResizeRefused, Fail, Finish
  <2> QED
    BY <2>1 DEF Settling
<1>4. CASE ReadConfig
  <2>1. /\ pc = "config" /\ guest' = guest /\ draft' = draft /\ origin' = origin
        /\ draft # None
    BY <1>1, <1>4 DEF ReadConfig, Finish, Proceed, records, Planned
  <2>2. power = PlannedPower(draft, guest.power) /\ draft \in Manifest /\ guest \in Live
    BY <1>1, <2>1 DEF PowerAsRead, TypeOK
  <2>3. CASE InSync(guest, draft) /\ power = "none"
    <3>1. pc' = "idle"
      BY <1>4, <2>3 DEF ReadConfig, Finish
    <3> QED
      BY <2>1, <2>2, <2>3, <3>1 DEF Settling
  <2>4. CASE ~(InSync(guest, draft) /\ power = "none") /\ Unplannable(guest, draft)
    <3>1. pc' = "idle" /\ result' = "failed"
      BY <1>4, <2>4 DEF ReadConfig, Finish
    <3> QED
      BY <3>1 DEF Settling
  <2>5. CASE ~(InSync(guest, draft) /\ power = "none") /\ ~Unplannable(guest, draft)
    <3> DEFINE p == PutOf(guest, draft)
               r == ResizesOf(guest, draft)
    <3>1. Proceed(p, r, power)
      BY <1>4, <2>5 DEF ReadConfig
    <3>2. p \in Puts /\ r \in [DriveSlots -> Nat \cup {None}]
      BY <2>2, PutOfIsPut, ResizesOfIsMap
    <3>3. p # NoPut \/ SettledBut(guest', draft, r)
      BY <2>1, <2>2, <2>5, UnsentSettles
    <3> HIDE DEF p, r
    <3> QED
      BY <1>1, <2>1, <2>2, <3>1, <3>2, <3>3, ProceedSettles
  <2> QED
    BY <2>3, <2>4, <2>5
<1>5. CASE UpdateConfig
  <2>1. PICK mac \in MACs : guest' = Updated(guest, put, mac)
    BY <1>5 DEF UpdateConfig
  <2>2. /\ pc = "put" /\ draft' = draft /\ origin' = origin /\ draft # None
        /\ Proceed(NoPut, resizes, power)
    BY <1>1, <1>5 DEF UpdateConfig, Proceed, records, Planned
  <2>3. guest \in Live /\ draft \in Manifest /\ resizes \in [DriveSlots -> Nat \cup {None}]
    BY <1>1, <2>2 DEF TypeOK
  <2>4. /\ put = PutOf(guest, draft) /\ resizes = ResizesOf(guest, draft)
        /\ ~Unplannable(guest, draft) /\ power = PlannedPower(draft, guest.power)
    BY <2>2 DEF PlanAsRead, PutAsRead, Settling
  <2>5. SettledBut(guest', draft, resizes)
    BY <2>1, <2>2, <2>3, <2>4, SentSettles
  <2>6. guest'.power = guest.power
    BY <2>1, <2>3 DEF Updated, Live
  <2> QED
    BY <1>1, <2>2, <2>3, <2>4, <2>5, <2>6, NoPutIsPut, ProceedSettles
<1>6. CASE ResizeDisk
  <2>1. PICK d \in DriveSlots :
            /\ IsNext(d) /\ CanGrow(d)
            /\ guest' = [guest EXCEPT !.drives[d].size = resizes[d]]
            /\ Proceed(NoPut, [resizes EXCEPT ![d] = None], power)
    BY <1>6 DEF ResizeDisk
  <2> DEFINE r == [resizes EXCEPT ![d] = None]
  <2>2. /\ pc = "resize" /\ draft' = draft /\ origin' = origin /\ draft # None
        /\ resizes[d] # None /\ guest.drives[d] # None
    BY <1>1, <2>1 DEF IsNext, CanGrow, Proceed, records, Planned
  <2>3. /\ guest \in Live /\ draft \in Manifest
        /\ resizes \in [DriveSlots -> Nat \cup {None}]
        /\ r \in [DriveSlots -> Nat \cup {None}]
    BY <1>1, <2>2 DEF TypeOK
  <2>4. SettledBut(guest, draft, resizes) /\ power = PlannedPower(draft, guest.power)
    BY <2>2 DEF Settling
  <2>5. SettledBut(guest', draft, r)
    BY <2>1, <2>2, <2>3, <2>4, GrownSettles
  <2>6. guest'.power = guest.power
    BY <2>1, <2>3 DEF Live
  <2> HIDE DEF r
  <2>7. Proceed(NoPut, r, power)
    BY <2>1 DEF r
  <2> QED
    BY <1>1, <2>2, <2>3, <2>4, <2>5, <2>6, <2>7, NoPutIsPut, ProceedSettles
<1>7. CASE SwitchPower
  <2> DEFINE state == IF power = "start" THEN "running" ELSE "stopped"
  <2>1. /\ pc = "power" /\ pc' = "idle" /\ guest' = [guest EXCEPT !.power = state]
        /\ draft' = draft /\ origin' = origin /\ power # "none" /\ guest \in Live
    BY <1>1, <1>7 DEF SwitchPower, Finish, records, Planned, TypeOK
  <2>2. InSync(guest, draft) /\ power = PlannedPower(draft, guest.power)
    BY <2>1 DEF Settling
  <2>3. /\ guest'.power = state /\ guest'.settings = guest.settings
        /\ guest'.nets = guest.nets /\ guest'.onboot = guest.onboot
        /\ guest'.drives = guest.drives /\ guest'.sshkeys = guest.sshkeys
    BY <2>1 DEF Live
  <2>4. InSync(guest', draft)
    BY <2>2, <2>3 DEF InSync, ChangedSettings, ChangedNets, ChangedDrives, OnbootChanged,
                      KeysChanged
  <2>5. PlannedPower(draft, guest'.power) = "none"
    BY <2>1, <2>2, <2>3, PowerSettles
  <2> QED
    BY <2>1, <2>4, <2>5 DEF Settling
<1>8. CASE Others
  BY <1>8 DEF Others
<1>9. CASE UNCHANGED vars
  BY <1>9 DEF vars, plans, records, Settling
<1> QED
  BY <1>2, <1>3, <1>4, <1>5, <1>6, <1>7, <1>8, <1>9 DEF Next

(***************************************************************************)
(* After an apply that succeeded, of whatever manifest however come by and *)
(* edited, the machine is in sync with it and in the power state it asks   *)
(* for, as long as the manifest's sizes are whole and nobody else was at   *)
(* the machine: what planUpdate sends reads back as what was declared.     *)
(***************************************************************************)
THEOREM AppliesSettle == Spec => []AppliedIsSettled
<1>1. Init => Settling
  BY DEF Init, Settling
<1>2. Spec => []PlanAsRead
  BY PlanAsReadInit, PlanAsReadNext, PTL DEF Spec
<1>3. Settling => AppliedIsSettled
  BY DEF Settling, AppliedIsSettled
<1> QED
  BY <1>1, <1>2, <1>3, SettlingNext, PTL DEF Spec
=============================================================================
