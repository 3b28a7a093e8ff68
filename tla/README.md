# A formal model of pvectl

pvectl is a kubectl-like command line for Proxmox VE: `apply` and `diff` bring a
virtual machine to what a YAML manifest declares, `delete`, `start`, `stop` and
`migrate` act on machines by name, `exec` runs a command inside one, and a
kubeconfig-like file says which cluster all of them talk to. There is no daemon
and no stored state: everything pvectl knows, it reads from the cluster at each
run, and every run is a sequence of API calls between which anybody may change
the cluster. That is where its hard cases are, and what these modules model.

The modules are TLA+, checked with TLC on small instances; what matters most is
proved with TLAPS for every value of the constants. `PROJECT.json` lists the
components, the runs, the lines of source each definition stands for, the
hazards, and for every property a mutant: a plausible bug (an operator next to
the one it replaces, named `X_Something`) that makes the property fail. Mutants
are in no `Next`.

    tlc -config VMApply_edits.cfg MCVMApply      # a run
    tlapm VMApply_proofs.tla                     # the proofs of a module

## The system: parts, state, operations

Paths are under `src/internal`.

**VM apply and diff** (`resource/vm/apply.go`, `handler.go`, `convert.go`,
`normalize.go`, `validate.go`, `diff/diff.go`). State: only that of one run: the
guest it resolved, the diff, the plan. `Apply` decodes, validates, resolves the
secret, finds the guest by `spec.vmid` or else by name, and then creates it
(directly, or a clone and a second configuration pass) or updates it (pool check,
config read, diff of the managed keys, one PUT, resizes, power call). `Diff` is
the read half. Hard: the reads and writes are separate calls with nothing that
ties them together (no digest, no lock); each task may fail, or outlive
`--timeout`; nothing is undone; the same manifest is applied again afterwards and
must then do the rest. Correct means: success is the declared state; only
declared things are written; what others wrote stays; nothing is destroyed;
repeated, it is a no-op; the dry runs and diff tell the truth.

**API client** (`api/client.go`, `telmate.go`, `raw.go`). Stateless calls on top
of an SDK, each of which awaits its task. `withinCtx` puts calls the SDK does not
cancel on a goroutine of their own and abandons them at the deadline. Correct
means: a late answer is neither waited for nor taken for another one.

**Remote commands** (`api/exec.go`, `cmd/exec.go`). `ExecWait` starts a command
through the guest agent and polls until it ended, for `--exec-timeout` at most;
the end becomes pvectl's exit status. Hard: the deadline races the answer in each
of three places; replies get lost; codes and signals have edges. Correct means:
started once, the true end or an error, exit status 0 only for success.

**Imperative verbs** (`handler.go`, `cmd/delete.go`, `lifecycle.go`,
`migrate.go`). A list of names; for each a lookup and one call by vmid. Hard: the
vmid may stand for another guest by the time of the call; the list stops at the
first error; a call that timed out goes on.

**Config file** (`config/`, `cliopt/factory.go`, `cmd/config.go`). Nodes, users
and contexts in one YAML file, read by every command, rewritten in place by
`config use-context` with no lock and no temporary file. Hard: other processes,
the user's editor and crashes between truncation and writing.

**Several documents** (`cmd/apply.go`, `cmd/diff.go`, `runtime/`). State: the
decoded documents, the one it is at, how many failed. `-f` names files,
directories and standard input; all of it is decoded before the first call, in
the order of `-f` and, in a directory, of file names. Each document is dispatched
by its type and is one apply; apply counts failures and goes on, diff stops at the
first error and exits with 0, 1 or 2. Hard: a document may clone what an earlier
one declares; the task of a document that timed out is still running when the next
one begins. Correct means: no failure is forgotten, the exit status tells of the
cluster, one apply is enough when nothing fails.

**Registry of kinds** (`resource/registry.go`, `runtime/object.go`). Two maps from
types and names to handlers, filled at start. Correct means: the name and the
document of a type lead to the same handler, or the name is ambiguous.

**get and describe** (`resource/vm/live.go`, `cmd/get.go`, `printer/`). Reads the
config and prints it as a manifest that is documented to apply back as unchanged.
Hard: live.go, convert.go and normalize.go are three conversions written apart;
a manifest cannot say all that a config holds (MAC, cpu flags, spelling); the file
is edited and applied much later, when the machine has changed. Correct means: what
was not edited stays; nothing is stopped that the user did not ask to stop; what
was applied reads back as applied.

**Logging and redaction** (`verbose/`, `api/logging.go`, `api/redact.go`). State:
the list of known credentials. `-v` lines are meant to be pasted into public
issues, so credentials are masked by header, by key, and swept literally. Hard:
credentials are minted in the middle of a run, contain each other, are cut by the
preview, and come back in replies without a key. Correct means: they stay out, and
nothing else is hidden.

**Secret references** (`secretref/`), the **test doubles** (`api/apitest`,
`src/test/pvefake`) and the **program shell** (`cmd/root.go`): lookups, I/O,
start-up and the exit status.

The parts interact by calls: a command takes its cluster from the config file,
its handler from the registry, and works on the cluster through the client. What
they share is outside: the cluster and the config file. No signal handler
cancels a run's context, so Ctrl-C is a kill.

## The modules

| Module | What it is |
|---|---|
| `Proxmox` | The cluster as pvectl sees it: guests by vmid with config, disks, pool and power, and the effect of each call |
| `VMPlan` (extends Proxmox) | Pure part of apply: parameters of a manifest, managed-key diff, plan |
| `VMApply` (extends VMPlan) | The state machine: processes, their calls, faults, late tasks, operators |
| `VMApplyProperties`, `VMApplyHistory` | What apply promises; the same over runs that follow each other |
| `VMScenarios`, `MCVMApply`, `MCVMApplyHistory` | Manifests, clusters and instances |
| `VMApply_proofs`, `VMApplyHistory_proofs` | Proofs: what every call says and what the calls come to, what runs after each other say |
| `RemoteCommand` | Abstract specification of `exec` |
| `Exec`, `MCExec`, `Exec_proofs` | ExecWait, its goroutines and exit status; implements RemoteCommand |
| `Verbs`, `MCVerbs`, `Verbs_proofs` | delete, start, stop, migrate |
| `ConfigFile`, `MCConfigFile`, `ConfigFile_proofs` | The config file, use-context, and the choice of a cluster |
| `Registry` | Which handler serves a word or a document (operators) |
| `Documents` | What `-f` decodes to (operators) |
| `Batch` (extends VMApplyProperties, Registry, Documents), `BatchProperties`, `MCBatch`, `Batch_proofs` | apply and diff over several documents; implements VMApply |
| `GuestConfig` | One machine's config in full, its export, and what apply finds and writes (operators) |
| `Export` (extends GuestConfig), `ExportProperties`, `MCExport`, `Export_proofs` | get, the editor, apply, and others at work on the machine |
| `DebugLog`, `MCDebugLog`, `DebugLog_proofs` | The debug log of a session |

### VM apply

`pc[p]` is the call process `p` makes next, one label per API call of the code:
`resolve` and `checkname` (resolveRef), `nextid`, `create`, `findsource`,
`clone`, `postclone`, `readpower` (applyCreate and createFromClone), `summary`,
`config`, `update`, `resize`, `power` (applyUpdate). An action is that call with
the local work up to the next: `ReadConfig`, for example, reads the config, diffs
it, decides (`Decide`) and leaves the plan (`Todo`) behind. `ref`, `source` and
`plan` are the locals that live across calls; `Finish` forgets them. `manifest`
and `mode` (apply, the two dry runs, diff) are the run's input. Between any two
actions come those of other processes, of an operator (`Operator`: power,
migration, deletion, another guest under the vmid), and of tasks nobody waits
for (`TaskEnds`, after `TimeOut`). `Fail` is a kill or an error without effect;
`Refused` is the server's own refusal. Every error ends the run, as in the code.

Data is abstract: a scalar is its class under the normalisation of
`normalize.go` (sorted tags, decoded keys, a NIC without its MAC), a disk is a
record of storage, size and two options, and a disk in a call is either an
allocation or the volume that is there. Sizes are ordered numbers, slots are
numbers ordered like their keys. `cipassword` is a key of its own because the API
masks it, `onboot` because runStrategy makes it, `pool` because it is outside the
config. `drive` is the storage of the cloud-init drive of a manifest with
`cloudInit`: creation makes one in `CloudInitSlot` (`ide2`), last of all and over a disk
declared there, of size 0, as the value the server keeps shows no size; the
diff does not look at it, unless a manifest declares a disk in that slot.

Proxmox is not in the repository. What a call does is taken from the fake server
the repository's tests run against (`src/test/pvefake`), and where the fake is
silent from what the code relies on: a taken vmid is refused, the vmid of a running
creation is reserved, a clone lands in the pool it was told, an allocation on an
occupied slot detaches the volume that was there. Those definitions are marked
external in the map.

### Exec

`pc` is where ExecWait is, `worker`, `reply` and `channel` the goroutine of the
call it last made, `command` the command in the guest, `ctx` the deadline. After
the deadline ExecWait may leave a call (`AbandonExec`, `AbandonStatus`) or a wait
(`GiveUp`), or still take an answer that is there, as Go's select picks among
ready cases at random. The goroutine goes on by itself. Time is left out: the
deadline may pass at any moment, and a poll may come at any moment.

### Verbs

`todo` is what is left of the list, `ref` what the lookup found. `Find` and then
`Done` or `Refused` deal with one name. As in the code, delete, start and stop
look among virtual machines only (findQemu) and migrate among all guests. As on
the fake server, a running guest can be deleted.

### Config file

The file is missing, empty, a text, or garbled by two writes on top of each
other. `Truncate` and `Write` are the two steps of `os.WriteFile`; `Load` is
config.Load and Validate; `Resolve` picks the context as `--context` and
`PVECTL_CONTEXT` or the file say. A write of the whole text is one step, since
the file is far below what write(2) cuts in two, and the user's editor writes in
place. `written` and `chosen` remember what the user ever gave the file; they
restrict nothing.

### Several documents

`Batch` adds to VMApply the command around a run: `Launch` decodes its input and
refuses it as a whole or starts, `BeginDocument` and `RejectDocument` are a
document's Begin and Reject, `Work` any step of it. `Along` is the loop: when a
step ends the document's run, the command takes account of it (`Account`) in the
same step and is at the next document. `FailDocument` is a call that fails or a
time-out, after which the next document is begun while the task goes on; `Killed`
is the same with the process gone. `Registry` and `Documents` are functions of the
registrations and of the input; names of files are numbers, an apiVersion is the
sequence of its parts. The registry pvectl is built with has one kind; the
instance has three, two of them of one name, for which the code is written.
`PROPERTY Spec` says that a batch is nothing but runs of VMApply.

### get, edit and apply

VMApply keeps a config value as its class under normalisation, which is right for
races and wrong for what the conversions lose. `GuestConfig` is the other cut: one
machine, its values as records: a NIC with its MAC and the options nobody manages,
a disk with its kind and bytes, a setting with a spelling (`rest`), ssh keys with
the escape of a "+". `FromConfig` is live.go; `Changed...` are the comparisons of
normalize.go; `PutOf`, `ResizesOf` are planUpdate. `Export` has `Get` and
`GetConfig` (two calls), `List`, the user's `Write` and `Edit`, and apply call by
call. `Others` replaces the machine's config between any two calls. Settings that
are compared as they are (`nameserver`, `ipconfig0`, the name) behave as
`description` and `ciuser` do and are left out; keys of `raw` never come from get.
`Numbers` bounds the cores that the list would double (see below).

### Debug log

A text is a sequence of words, a credential several words used nowhere else, a body
its leaves with the keys above each. `Connect` is newTelmateClient, `Begin` and
`Done` are logTask, `Send` is the server, which may answer a request with a page or a JSON message
that repeats what it was sent, and with headers of its own, and `Log` is loggingTransport.RoundTrip. `Scrub`
replaces from left to right, longest credential first, as strings.ReplaceAll does;
credentials of one length are swept in any order, where the code's sort is stable.
A form or a JSON document is decoded, masked by key and encoded again (`RedactBody`)
before the sweep: `FormEscapes` and `JSONEscapes` are the words that `values.Encode` and
`json.Marshal` spell in another way, and how. `redactParams` encodes nothing.
`printed` holds the lines of the last step. What a literal sweep can tell apart is
stated at the end of the module (`Distinctive`): hypotheses of the theorems, not of the
model. Levels 2 and 3 print names and keys of
changes and are left out.

## The runs

Every passing run checks the invariants of its module on all interleavings
within its bounds; all have been explored completely.

| Run | Instance | Shows |
|---|---|---|
| `edits` | 1 process, 8 manifests of a machine and a clone, 1 fault, 1 operator action | `SuccessConverges`: apply that reports success leaves exactly one guest, as declared. `NeverDestroys`: no guest or volume is lost, moved or shrunk by pvectl. `NeverDuplicates`: a guest that apply makes has a name of its own |
| `shared` | 2 processes on one guest with disjoint keys, 1 fault, 1 late task | `NoLostUpdate`, `OnlyDeclaredWrites`, `OnlyDeclaredChanges` |
| `rerun` | apply, both dry runs and diff one after the other, 1 fault | `ReapplyIsNoop`, `ForecastHolds`, `DiffTellsTheWrites`, `DifferenceIsActedOn`, `DryRunsWriteNothing` |
| `batch` | 1 process, 5 inputs over 3 manifests (one a clone of another, one with a password), 1 fault, 1 time-out, 1 operator action, 1 outage, fair | `FailuresAreCounted`, `ExitTellsTheCluster`, `OneApplyIsEnough`, `LookupsAgree`, `EventuallyConverged`, `Spec` (refinement of VMApply) |
| `exec` | codes -1, 0, 1, 255, 256, signals 1, 9, 127, 128, fair | `SuccessIsTheCommands`, `KeepsPromise` (refinement of RemoteCommand), `AlwaysReturns`, `NoLeak` |
| `verbs` | 1 process, 10 orders, 1 fault, 1 late task, 1 reused vmid, fair | `SuccessAchieves`, `ContainersAreSafe`, `EventuallyMigrated` |
| `config` | 2 processes, 4 texts, 1 edit, 1 crash | `LoadedIsUsers`, `TargetsAreChosen` |
| `replay` | 8 machines, 2 manifests by hand, 1 edit, 1 fault, 1 change by others | `RoundTripUnchanged`, `OnlyEditsAreApplied`, `ReplayNeverStops`, `AppliedIsSettled` |
| `debuglog` | levels 0 to 9, 6 logins with credentials that JSON does not escape, 2 calls, any reply | `CredentialsStayOut`, `NeverHalfMasked`, `NothingElseIsHidden` |

Three runs end in a counterexample; each contradicts a sentence of the repository:

| Run | What happens |
|---|---|
| `creation` | `createParams` (convert.go:16) does not send `spec.pool`, and puts the cloud-init drive in `ide2` over a disk the manifest declares there (convert.go:31); nothing refuses such a manifest. Apply reports created, and the guest has neither the pool nor the disk. The next apply, documented as idempotent, is refused by the create-only check of the pool, or else fails when it resizes the drive |
| `debuglog_escaped` | A password with a `&` that the server repeats in a JSON message is printed as `\u0026` at level 8: `json.Marshal` (redact.go:138) comes before the sweep, which knows the literal only, though `Logger.Secret` promises to remove a credential that comes by an unforeseen route |
| `round_trip` | A key whose "+" is stored as %2B is exported with "+", which `url.PathEscape` (convert.go:147) leaves as it is and `decodeSSHKeys` reads as a space: an unedited export is written back, though `get -o yaml` is documented to apply as unchanged |

**Bounds.** A guest has at most two disks, two tunable keys and the description,
every size and value two members: enough for each to be absent, equal, different,
grown, shrunk, and for two manifests to differ in one and agree in another. Three
vmids hold the template or another guest, the guest itself, and a twin of it.
Two processes are what a race between a read and a write takes: a third only
repeats what one of the two, a late task or an operator does already. One fault
falls on each call in turn; a second one only repeats a run that is repeated
anyway. `Export` has three drives and two NICs, so that an edit touches one and
spares another, and a unit of size (`KiB`) of 4 bytes, so that there are sizes that
are not whole; each of its machines has one thing the conversions treat specially.
The disks of `edits` and `rerun` include one in `ide2` without `cloudInit`, and a
cloud-init drive without a disk in `ide2`; both at once are in the run `creation`.
`DebugLog` has a token whose secret is part of the password, a password shorter than
the bound, one that a form escapes, a preview shorter than a credential with its key, ordinary values and
an unswept password that the encoders change, and a reply with a cookie among its headers. Edits, faults and
moves of `Export` are counted over the whole behaviour. A wider instance says
nothing new about the plan, which `PlanSettles` proves for all guests and
manifests. The exec codes are the edges of what a
process can exit with.

**What the runs leave out on purpose.** `NeverDestroys` is checked for one run at
a time, and the guests that appear under a reused vmid have no disks: two runs
that fill the same new slot, a PUT that lands late, or an update that reaches a
guest that came to use the vmid in between do displace a volume, and nothing in
the code prevents it (no digest is sent). `NeverDuplicates` is checked for one run
at a time without time-outs, and speaks of creation: two concurrent creations,
or a creation repeated while the first one's task still runs, do make two guests,
and a pinned vmid may rename its guest to a name in use (handler.go:236). A clone
whose configuration failed never gets its password (apply.go:125), which is
documented to be set on creation only: `Agrees` leaves the password out.
`RoundTripUnchanged` is for a machine that is running if it starts on boot (its
export says Always, which manifests.md documents, and apply starts it), with sizes
in whole KiB, no newline at the end of its keys and no %2B; `round_trip` shows the
last one. `OnlyEditsAreApplied` says nothing of keys stored with a bare "+", which
are written back as %20 with any edit of the keys, nor of the list of a machine
with two sockets, whose cores get doubled. `CredentialsStayOut` excuses ordinary
parameters and replies that carry a credential the logger was never told: shorter
than eight characters, or a ticket below level 8. `debuglog` has no swept
credential with a character JSON escapes: `debuglog_escaped` shows what becomes of one.
`SuccessConverges` and `ReapplyIsNoop` are checked for manifests that creation
carries out in full: the run `creation` has another.
`SuccessConverges` and `SuccessAchieves` speak of a cluster nobody else works on.
`ForecastHolds` allows that a creation a dry run announces is refused by the
server, and the resize of a drive that shows no size, which planUpdate takes for a small
one. `KeepsPromise` allows any error after the deadline: one that passes
within GuestExec is returned as the plain context error (exec.go:53), although
exec.go:34 speaks of `ErrExecTimeout`. These are in the hazards of `PROJECT.json`,
with notes.

**Fairness.** `Batch` and `Verbs`: a process that runs is scheduled and its call
comes back or times out (weak fairness of `Step`: the client bounds each call by
`--timeout`); a task on the cluster ends; every manifest or order is given again
and again, which is the user's or CI's doing and what "idempotent" is for (strong
fairness of `Launch` and `Begin`: the process is not always idle). Errors and
time-outs are bounded, so that at last a run gets through. `Exec`: time passes, a goroutine that
can send is scheduled, and ExecWait at last takes the deadline that is ready at
each of its selects; nothing is assumed of the server or of the command, which may
never answer or end. Exec's behaviours end when ExecWait returned, hence no
deadlock check there.

`EventuallyMigrated` speaks of migrations only: a delete repeated after one that
timed out but went through reports that there is no such machine.

## The proofs

Everything here is for any set of processes, manifests, clusters, keys, slots,
sizes and bounds; a theorem that needs more says so under its ASSUME.

**`VMApply_proofs`**, first part: what every call says.

- `TypeCorrect`: `Spec => []TypeOK`.
- `WritesAreDeclared`: `Spec => []OnlyDeclaredWrites`. The property is about calls
  made from plans computed calls ago, so it is not inductive. The strengthening
  `IInv` says of every process what its label means: that a process that writes
  is in mode apply, that its plan holds declared keys, disks, sizes and power
  only, and that its `ref` and `source` are there when the label needs them. Each
  action keeps it (one lemma per group of actions), because `Todo` builds only
  declared plans from any config whatever and later steps only take parts off them.
- `DryRunsAreDry`: `Spec => DryRunsWriteNothing`, an action property that
  follows from the same invariant: in another mode than apply no label is a
  writing one.
- `PlanSettles`: for every guest and manifest, unless the plan is refused,
  carrying it out leaves a guest in sync with the manifest. It is the data half of
  idempotence.

**`VMApply_proofs`**, second part: what the calls come to. `IInv` says nothing of the
cluster; here an invariant says of each label what the run still knows of the guest
it resolved.

- `DuplicatesAreNeverMade` (`NeverDuplicates`) and `SuccessMeansConverged`
  (`SuccessConverges`), one run at a time. `Alone`: from the lookup to the last
  call, the manifest is about the one guest the run resolved, or about none while
  it is to be created (`Located`). `Aware`: the plan is the one that guest
  calls for, part by part as the PUT and the resizes take parts off it (`Matched`,
  `Awaits`); at the end nothing is left and `PlanSettles` gives the rest.
- `NothingIsDestroyed` (`NeverDestroys`), one run at a time, operators at work.
  `Careful`: where a PUT names a slot that is taken it names the volume there.
- `ChangesAreDeclared` (`OnlyDeclaredChanges`), any number of runs, faults and late
  tasks. `OnTarget`: each call made, and each left running, is licensed by a manifest
  that is about the guest it goes to (`Meant`); a call that is meant changes no
  name, so what manifests are about stays (`Aims`).
- `UpdatesAreNotLost` (`NoLostUpdate`), any number of runs, faults and late tasks.
  `Sharing`: all that a run's manifest declares is so on its guest or still owed by
  its plan, at each of its labels (`Progress`, `Owes`, `Owing`), and every task is
  `Gentle`: for a guest some manifest is about, setting what that manifest declares
  or sending back a disk as it is. A gentle call of a compatible manifest takes
  nothing from what others have achieved or still owe (`GentleSpares`).

**`VMApplyHistory_proofs`**: runs that follow each other. `MemoryOnlyWatches` shows
that the history variables restrict nothing (`HSpec => Spec`), so all of the above
holds here.

- `SameMeansNoWrites` (`DiffTellsTheWrites`), any number of runs, moves, faults and
  late tasks: `Told` says that while what diff saw is still so, apply is at a
  label at which it has no config to send (`StillSame`).
- `ReapplyingChangesNothing` (`ReapplyIsNoop`), `ForecastsHold` (`ForecastHolds`)
  and `DifferencesAreActedOn` (`DifferenceIsActedOn`), one run at a time. A
  `Verdict` is computed from guest and manifest alone; `Foreseen` says that a
  run that ended left a cluster whose verdict is the one it announced (`Foretold`),
  and that an apply after it is on the way to just that answer (`Follows`).

**`Exec_proofs`** proves type correctness, `SuccessIsSuccess` (`Spec =>
[]SuccessIsTheCommands`) and `ExecRefines` (`Spec => KeepsPromise`): initial
states map to initial states and each step to a step of RemoteCommand or a
stutter. The invariant says that a status in flight (in `reply`, on the channel, or
in `result`) that is an end is the command's end, and that a pid in flight means
the command was started, so no second start is possible.

**`Verbs_proofs`** proves type correctness and `ContainersSpared`: while an order is
not a migration, the call in the process, and each one left running, names a
virtual machine, and a path that names a type reaches no guest of another.
`SuccessIsForEveryName` (`SuccessAchieves`) has no hypothesis beyond the property's
own. Its invariant `Watched`: while nobody else was at work, every name of the order
is achieved or still on the list, also if it is on it twice, and the guest found
for the first is the one it names; a call done for one name spares what was achieved
for the others (`CallSparesAchieved`).

**`ConfigFile_proofs`** proves type correctness, `LoadedIsWritten` and
`TargetsChosen`. The invariant: a text with its header is a whole text (what a
truncation leaves has none, and what a write writes was loaded from one that
had), so whatever passes Validate has been written by the user.

**`Batch_proofs`** proves, for every input, registry and number of processes, that
`BTypeOK` holds and that `BSpec => Spec` (`BatchRefines`): each step of a command
is a step of one document's run or a stutter. `BTypeOK` carries the fact it takes, that
a run is under way only for the document the command is at. So what is proved of VMApply
holds of batches; `BatchWritesAreDeclared` says it of declared writes and dry runs.
`LookupsAlwaysAgree` (`LookupsAgree`) is a fact about every registry.
`FailuresAreAllCounted` (`FailuresAreCounted`) and `ExitStatusTellsTheCluster`
(`ExitTellsTheCluster`), one command at a time, compose `SuccessMeansConverged`:
`KnownOf` says that the documents a command is past are as declared or counted, and
that the run under way spares them, being about another guest.

**`Export_proofs`** proves `ExportInSync`: for every machine whose sizes are whole and
whose keys apply would escape as they are read, what `FromConfig` prints is in sync
with it; one lemma per section of the config. From it and the invariant `Inv` (a
plan is there only between the calls it is for; a planned stop was asked for; the
power apply read is the machine's unless others moved it) follow
`ReplaysAreUnchanged`, `ReplaysNeverStop` and, with a second invariant
(`PlanAsRead`: until others move the machine, the plan about to be sent is the one
its config calls for, and a disk still to be grown is too small), `EditsOnly`. With a
third (`Settling`: after the PUT every declared key is settled, and every disk but
those the resizes still name), `AppliesSettle` (`AppliedIsSettled`) follows.

**`DebugLog_proofs`** proves the three properties of the log for all texts, credentials,
bodies, answers, encoders, levels and limits of which `Distinctive` (below) is so.

- The functions that `Replaced` and `Scrub` define by recursion have no value for the
  provers until it is shown that they exist. `SetInduction`, from the well-foundedness
  of `<` on the naturals, stands in for the library's induction, which takes an operator;
  `BackwardInduction` goes along a text from its end, and `RestsExist` builds the
  function the text's rests satisfy, so that its `CHOOSE` unfolds.
- `ReplacedMoves` says where the words of a text go to (`Moved`): no word of an
  occurrence survives, neighbours outside of one stay neighbours, all else is the mark.
  Swept literal by literal, a text keeps a value that has no literal in it and
  touches none (`Stands`), and is rid of every literal (`Fit` says of a text that it
  has no word of a known literal but inside one).
- `DebugLogTypeCorrect`: `Spec => []TypeOK`, with the secrets longest first.
- The invariant `IInv`: `Session`, what the logger knows at each label and what can be
  in a header, a call or an answer; `Clean`, every line is without the words of what is
  known, and each other word has a source in a body or header that was sent or received; `Shown`,
  at the highest level the bodies of a call are among its lines. `CredentialsNeverLeak`
  (`CredentialsStayOut`), `CredentialsMaskedWhole` (`NeverHalfMasked`) and
  `WhatWasSentStaysVisible` (`NothingElseIsHidden`) follow from it.

**Assumptions** are those of the `ASSUME`s, which TLC evaluates in the runs: sizes are
natural numbers, slots too, `None` is no value, disk, guest or exit status (`NoGuestAssumption`,
`NoDiskAssumption`, `StatusAssumption`: the code has nil there), the given manifests,
clusters, inputs and texts are of their types, and strings are words
(`WordsAssumption`: the provers do not know what a string is).

**Hypotheses** of single theorems are what the code needs to keep the promise. Each
is a boundary of the program, not of the proof:

| Hypothesis | Why it is needed | Runs that satisfy it |
|---|---|---|
| `OneAtATime`: one process, no call given up on | two creations at once both find nothing and both create (apply.go:71), and a task that went on is another process | `edits`, `rerun` |
| `CreatesInFull`: a manifest that is no clone has no pool, and no disk in `ide2` if it has `cloudInit` | `createParams` never sends the pool and puts the cloud-init drive over the disk: the run `creation` | `edits`, `rerun`, `batch` |
| `DisklessStrangers`: a guest that appears under a reused vmid has no disks | a PUT planned for the guest before it displaces a volume of the new one (no digest is sent) | `edits` |
| `OneWay`: all manifests by name, or all by vmid | a manifest with a vmid may rename its guest (handler.go:236), and another manifest is then about another guest | `shared` |
| `MaxMoves = 0`: nobody but pvectl works on the cluster | apply reads the summary, then the config: a move between the two makes what it says, and the power call, stale (apply.go:140) | `shared`, `rerun` |
| `PlainDisks`: no disk option is declared | an option is set by sending the disk again with the size it was read with, which can put another run's resize back in the config (apply.go:367) | `shared` |
| `Placed`, `Peaceful`: each manifest has its one guest, and two about the same guest declare nothing differently | what two manifests declare differently the later one wins, rightly | `shared` |
| `DocumentsApart`: no two documents of an input are about one guest | the second one undoes the first, and the command counts no failure | `batch` |
| `Distinctive`: credentials neither overlap nor share words with anything that is printed on purpose, and the keys that carry them are in the tables | a sweep for literals (verbose.go:129) cannot tell one credential from the end of another, nor a password from an ordinary word, nor find one that is escaped: the run `debuglog_escaped` | `debuglog` |

`Distinctive` has six parts. `LiteralsApart`: no known credential ends in what another
begins with. `LiteralsWhole`: where a text that may be printed (`Printable`: as it is, or
as the encoder of a body it may be in spells it) has words of a credential, it has the credential
whole, or these words are part of another one that is swept at login (a password
that contains a token's secret). `LiteralsPlain`: no such text has words of an escaped
spelling of a credential that the credential itself does not have. As the server may
repeat a credential in JSON, these two leave out one that JSON escapes; of the form's
encoder they ask nothing for what is under a sensitive key, so a token's "=" and a
password a form escapes are allowed. `OwnWordsApart`: the log's own words, and keys, are no part of
one. `KeysAreNamed`: the sensitive tables have the keys a login uses, and not `username`.
`TicketsAreNew`: the server mints no ticket equal to a token. MCDebugLog assumes
it of its instance, so TLC evaluates it there.

`batch` satisfies `DocumentsApart` and `CreatesInFull` and goes beyond
`OneAtATime`: it has a time-out and an operator as well. There the two properties of
the exit status are checked where the theorems say nothing.

**Only model-checked.** Liveness (`EventuallyConverged`, `EventuallyMigrated`,
`AlwaysReturns`, `NoLeak`), which TLAPS does not do (no `ENABLED`).
`OneApplyIsEnough`: it says that a first apply does not fail, which depends on what
the given documents ask of the given cluster (a disk that would shrink, a vmid in
use, a clone before its source), not on a relation the code keeps. No module uses
RECURSIVE.

## Not modelled

TLS and the SDK's own retries; formatting of tables, describe and YAML; the
standard output of remote commands; `--online`; the environment behind secret
references (a reference resolves or not); the check of `spec.raw` for conflicts
(its keys are keys like the others, `Tunables`); flag parsing (a usage error of `diff` exits
with 1, which `diff` documents as differences found); `get -o json` of several
machines, which prints an array that apply cannot decode; bodies that do not parse, which the
log shows as they came, swept only; the in-memory client of the unit tests.

## Plan

What is left, in this order.

1. `FailuresAreCounted` and `ExitTellsTheCluster` with time-outs: a late task of an
   earlier document is `Gentle` to the later ones.
2. `UpdatesAreNotLost` for manifests that set disk options, when the manifests about
   one guest declare no disk in common.
3. `Converge`: an abstract specification of apply (declared keys are set, one by
   one, others never) and VMApply as its refinement for manifests that do not clash.
4. The conflicts of `spec.raw` that validate.go refuses, and partial writes of a
   long config file.
