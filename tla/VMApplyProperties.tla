------------------------ MODULE VMApplyProperties ------------------------
(***************************************************************************)
(* What pvectl apply promises, stated over VMApply.                        *)
(***************************************************************************)
EXTENDS VMApply

Ends(p) == pc[p] # "idle" /\ pc'[p] = "idle"

Successes == {"created", "configured", "unchanged"}
Succeeds(p) == Ends(p) /\ mode[p] = "apply" /\ result'[p] \in Successes

\* The guests a manifest is about.
Targets(gs, m) ==
    IF m.vmid = None THEN Named(gs, m.name) ELSE {v \in {m.vmid} : gs[v] # None}

\* Everything the manifest declares is so, but for the write-only password.
Agrees(g, m) ==
    /\ g.type = "qemu" /\ g.node = m.node
    /\ m.pool \in {None, g.pool}
    /\ \A k \in Keys \ {"cipassword"} : Config(m)[k] \in {None, g.config[k]}
    /\ \A s \in Slots : m.disks[s] # None =>
        /\ g.disks[s] # None
        /\ g.disks[s].storage = m.disks[s].storage
        /\ g.disks[s].size = m.disks[s].size
        /\ \A o \in OptKeys : m.disks[s].opts[o] \in {None, g.disks[s].opts[o]}
    /\ m.run = "Always" => g.power = "running"
    /\ m.run = "Halted" => g.power = "stopped"

Converged(gs, m) ==
    \E v \in Targets(gs, m) : Targets(gs, m) = {v} /\ Agrees(gs[v], m)

-----------------------------------------------------------------------------
(***************************************************************************)
(* A run of apply that reports success leaves exactly one guest the        *)
(* manifest is about, and that guest is as the manifest declares: config,  *)
(* disks, pool, node and power state, unless somebody else works on the    *)
(* cluster.  (applyCreate, applyUpdate, planUpdate, reconcilePower.)       *)
(***************************************************************************)
SuccessConverges ==
    [][moves = 0 =>
        \A p \in Procs : Succeeds(p) => Converged(guests', manifest[p])]_vars

(***************************************************************************)
(* Whatever apply does, a guest that was there stays: it is not removed,   *)
(* moved, or put in another pool, and each of its disks keeps its volume,  *)
(* its storage and at least its size.  (planUpdate rejects what Proxmox    *)
(* cannot do in place, rebuildDiskValue keeps the volume, clone and create *)
(* go to a free vmid.)                                                     *)
(***************************************************************************)
Keeps(g, h) ==
    /\ h # None
    /\ h.node = g.node /\ h.type = g.type /\ h.pool = g.pool
    /\ h.detached = g.detached
    /\ \A s \in Slots : g.disks[s] # None =>
        /\ h.disks[s] # None
        /\ h.disks[s].storage = g.disks[s].storage
        /\ h.disks[s].size >= g.disks[s].size

NeverDestroys ==
    [][moves' = moves =>
        \A v \in VMIDs : guests[v] # None => Keeps(guests[v], guests'[v])]_vars

(***************************************************************************)
(* A guest that was there changes only where a manifest about it says so,  *)
(* and only to the value that manifest declares; every other guest and     *)
(* every undeclared key, disk and power state is left alone, whatever runs *)
(* interleave and however late their tasks end.  (The managed-key rule:    *)
(* diff.Compute, planUpdate, plannedPowerFor.)                             *)
(***************************************************************************)
Declared(g, h, m) ==
    /\ \A k \in Keys : h.config[k] # g.config[k] => h.config[k] = Config(m)[k]
    /\ \A s \in Slots : h.disks[s] # g.disks[s] => m.disks[s] # None
    /\ h.power # g.power =>
        h.power = CASE m.run = "Always" -> "running"
                    [] m.run = "Halted" -> "stopped"
                    [] OTHER -> g.power

OnlyDeclaredChanges ==
    [][moves' = moves =>
        \A v \in VMIDs : guests[v] # None /\ guests'[v] # guests[v] =>
            /\ guests'[v] # None
            /\ \E m \in Manifests : /\ v \in Targets(guests, m)
                                    /\ Declared(guests[v], guests'[v], m)]_vars

(***************************************************************************)
(* Every call apply is about to make, or has left running, says what its   *)
(* manifest declares and nothing more, although its contents were computed *)
(* from a config read calls ago: declared keys at their declared values,   *)
(* declared disks on their declared storage, growth to the declared size,  *)
(* the power state runStrategy asks for.  (createParams, cloneParams,      *)
(* configParams, planUpdate, rebuildDiskValue, plannedPowerFor.)           *)
(***************************************************************************)
DeclaredKeys(config, m) ==
    \A k \in Keys : config[k] \in {None, Config(m)[k]}

DeclaredDisk(w, d) ==
    /\ d # None
    /\ w.storage = d.storage
    /\ \A o \in OptKeys : d.opts[o] \in {None, w.opts[o]}
    /\ w.form = "allocate" => w = Allocate(d)

DeclaredDisks(disks, m) ==
    \A s \in Slots : disks[s] # None => DeclaredDisk(disks[s], m.disks[s])

\* Creation makes the cloud-init drive besides.
Allocated(disks, m) ==
    \A s \in Slots : disks[s] # None =>
        \/ s = CloudInitSlot /\ m.drive # None /\ disks[s] = CloudInitDrive(m.drive)
        \/ DeclaredDisk(disks[s], m.disks[s])

DeclaredSize(s, size, m) == m.disks[s] # None /\ size = m.disks[s].size

DeclaredPower(power, m) ==
    /\ power = "start" => m.run = "Always"
    /\ power = "stop" => m.run = "Halted"

Licensed(c, m) ==
    /\ c.op \in {"create", "clone", "update"} => DeclaredKeys(c.config, m)
    /\ c.op = "create" => Allocated(c.disks, m)
    /\ c.op = "update" => DeclaredDisks(c.disks, m)
    /\ c.op \in {"create", "clone"} => c.node = m.node
    /\ c.op = "clone" => c.pool = m.pool
    /\ c.op = "resize" => DeclaredSize(c.slot, c.size, m)
    /\ DeclaredPower(c.op, m)

OnlyDeclaredWrites ==
    /\ \A p \in Procs : \A c \in Calls(p) :
            mode[p] = "apply" /\ Licensed(c, manifest[p])
    /\ \A c \in tasks : \E m \in Manifests : Licensed(c, m)

(***************************************************************************)
(* Dry runs and diff start no task and change no guest.                    *)
(***************************************************************************)
Moves(p) == <<pc'[p], plan'[p], result'[p]>> # <<pc[p], plan[p], result[p]>>

DryStep(p) ==
    Moves(p) /\ mode'[p] # "apply" => guests' = guests /\ tasks' = tasks

DryRunsWriteNothing == [][\A p \in Procs : DryStep(p)]_vars

(***************************************************************************)
(* A guest that apply brings into being has a name no other guest has, so  *)
(* the name identifies it in the next run, whichever of the same name's    *)
(* manifests, with a vmid or without, is applied.  (resolveRef: "the name  *)
(* must not already be taken by another guest, or apply would duplicate    *)
(* it".  A rename is not checked, two runs at once are not serialised, and *)
(* a creation given up on may still take place: see the README.)           *)
(***************************************************************************)
NeverDuplicates ==
    [][moves' = 0 => \A v \in VMIDs : guests[v] = None /\ guests'[v] # None =>
            Named(guests', guests'[v].config["name"]) = {v}]_vars

(***************************************************************************)
(* What a successful run established stays established while other runs    *)
(* change other keys of the same guest, at any interleaving of their reads *)
(* and writes: no update is lost.  (apply PUTs the changed keys only.)     *)
(***************************************************************************)
NoLostUpdate ==
    \A p \in Procs :
        pc[p] = "idle" /\ mode[p] = "apply" /\ result[p] \in Successes =>
            Converged(guests, manifest[p])

(***************************************************************************)
(* Applied again and again, through API errors, kills and time-outs at any *)
(* call, a manifest is converged at last and stays so, unless somebody     *)
(* else works on the cluster.                                              *)
(***************************************************************************)
EventuallyConverged == \A m \in Manifests : <>[](moves = 0 => Converged(guests, m))
=============================================================================
