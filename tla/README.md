# Verification of terraform-provider-sysutils

TLA+ models of the provider's Go code (`src/internal/provider`), the TLC runs that check them on
small instances, and theorems about them that TLAPS proves for every value of the constants.
Every definition is translated from the source; `PROJECT.json` maps it to the lines it stands for,
names the runs, and lists for every checked property a change of the code that the property catches.

## The system

The provider acts on the host it runs on. Terraform starts one or more provider processes (one per
provider configuration, more when several Terraform runs overlap) and each applies up to ten
resources in parallel, one goroutine per operation. A resource keeps no state of its own: what
persists is the host (files, kernel, package database, systemd) and Terraform's state of it, which is
saved only after an operation returned. Between two runs anybody may change the host.

### Components

| Part (source files) | State it keeps or changes | What must be right | Module |
|---|---|---|---|
| Edit locks (`lock.go`) | a registry of semaphores per process; lock files held with `flock` | one holder per key over all processes; nobody waits for ever; no entry outlives its users | `EditLock`, `KeyedLock` |
| Safe file access (`safefs.go`, `dropin.go`) | a file, its attributes, the temporary file beside it | never a partial file; only what was read is replaced; attributes kept; what was reported survives a power loss | `ManagedFile`, `SharedFile`, `AtomicEdits` |
| Line and block (`file_line*.go`) | one line, or one block between markers, in a shared file | other lines kept; no copies; repeated applies converge | `FileLine` |
| Hosts, cron, SSH keys, INI values, limits (`hosts*`, `cron*`, `ssh*`, `ini*`, `limits*`) | one entry in a file that others edit too | found again in every spelling; other lines kept; the program that reads the file finds what is configured | `HostsEntry`, `CronJob`, `AuthorizedKey`, `IniValue`, `LimitsEntry`, run by `Entries` |
| Kernel parameters and modules (`sysctl*`, `kernel_module*`) | the running kernel and files for the next boot | kernel and files agree; what the kernel refuses is not tried again at boot | `Kernel`, run by `Settings` |
| Host name, time zone, locale (`hostname*`, `timezone*`, `locale*`) | several files and a kernel value; what was there before | all places agree; destroy restores what was there before create | `Hostname`, `Locale` |
| Mounts (`mount*`) | the mount table and fstab | remount or not; what cannot be mounted is not entered | `Mount` |
| Alternatives (`alternatives*`) | a link group | selected in manual mode; destroy unregisters what it registered | `Alternatives` |
| Users and groups (`user*`, `group*`) | the account database through `useradd` and others | memberships that are not configured are kept; half-done creations are seen | `Accounts` |
| Files, templates (`file_resource`, `file_content_wo`, `template*`, `fsutil.go`) | one file, its mode and owner | never readable by the wrong user; drift seen, of write-only content as well | `FileContent` |
| Directories, links (`directory*`, `symlink*`) | a directory and what is in it; a link | mounts and entries of others left alone; the link is never missing | `Directory` |
| Archives (`archive*`) | an extracted tree and its manifest | a merge that fails leaves the old tree; destroy removes only what was extracted | `Archive` |
| Remote files (`remote_file*`) | a download | nothing unverified is installed; an own file is adopted, another refused | `RemoteFile` |
| ACLs and inode flags (`acl.go`, `file_acl*`, `fileattr*`, `file_attributes*`) | extended attributes, flags and what they were before | entries of others kept unless exclusive; the mask grants what is listed; flags given back | `Inode` |
| Swap (`swap*.go`) | a swap file or device, the kernel's swap list, fstab | never formats what it must not; undoes what it did when a later step fails | `Swap` |
| Packages (`package.go`, `package_resource.go`, ...) | the package database, the index | the right package in the right version; what is planned is what is done | `Packages` |
| Repositories (`package_repository*`) | key and repository files, a line of apk, the index | a repository never refers to a missing key; a failed creation is undone | `Repositories` |
| Units, services (`systemd*`, `service*`) | unit files, enablement, run state | what is on disk is loaded and runs; destroy brings back what was there | `Units`, `Services` |
| Drop-ins (`sudoers*`, `logrotate*`, `journald*`, `systemd_dropin*`) | a whole file, checked by a tool, and a service that reads it | a file the tool refuses is never installed; the service is restarted in the end | `DropIns` |
| Firewall (`firewall*`) | tagged rules in a table or in the built-in chains | exactly one copy of each rule, never a gap | `Firewall` |
| Commands (`exec*`, `ephemeral_exec.go`) | a process group, its output, the result of a run | the whole group is killed and nobody else; the result is that of a complete run; the caller returns | `Command` |
| Path resolution (`rootfs.go`, `trustpath.go`) | none | never leaves the tree | (its result: a path, or a file that is refused) |
| Unit text, templates, facts, data sources, functions, validators, provider | none | | |

They interact through the host: resources of several types edit the same file (`/etc/hosts`,
`/etc/fstab`, `authorized_keys`), always inside `lockFileForEdit`; package resources hold the
package-manager lock around their tools, and the apk repository edit takes a file lock inside it;
firewall rules take a lock of their own. Inside the lock each edit is read, transform, replace with
`safefs.go`.

What is hard: goroutines and processes that meet in the locks; other programs, which take no lock;
a kill or power loss between two steps; steps of which one fails after others succeeded; state that
is stale because an apply was cut short or the host drifted; timeouts that race with success.

## The modules

| Module | What it is |
|---|---|
| `EditLock`; `KeyedLock` | the lock; what it promises (proved and checked to be implemented) |
| `ManagedFile` | one system call per step of the read, replace, rewrite and remove cycles |
| `SharedFile`; `AtomicEdits` | `ManagedFile` under the lock; what that amounts to (checked to be implemented) |
| `FileLine`, `Swap`, `Firewall`, `Command` | a component each, with a state machine of its own |
| `Lifecycle` | what Terraform does with the state of any one resource: the base of all that follow, and of `Command` |
| `Packages`, `Repositories`, `Units`, `Services`, `DropIns` | a state machine each; `MCSoftware` runs one of them per behaviour |
| `Kinds` | the operators that a kind of resource on a host defines |
| `Entries` and five kinds, `Settings` and eleven modules of kinds | two state machines and what they run; `MCHost` runs one kind per behaviour |
| `EditLockProofs`, `SharedFileProofs`, `FirewallProofs`, `UnitProofs` | theorems about `EditLock`, about `ManagedFile` and `SharedFile`, `Firewall` and `Units`; those of `Swap`, `Command` and `DropIns` are at the end of these modules, those of `Repositories` and `Services` in `MCSoftware` |
| `MC...` | the instances for TLC |

`SharedFile` extends `ManagedFile` with the lock as `KeyedLock` promises it (which `EditLock` is proved to
implement). All the others edit a shared file in one step, which is what `AtomicEdits` allows, and take
the locks of packages and of the firewall as given in the same way.

The provider has two dozen resources of one shape: Terraform hands them a configuration and a state, they
read and change a few places of the host in a fixed order, and return a state. `Lifecycle` is this shape:
`Configured`, `Refreshed`, `Begin`, `Goto`, `Succeeded`, `Failed`, `Faulted`, `Killed`, `Intrusion` follow
the framework (a Create that fails leaves a state only if it set one, and then a tainted one; an Update
that fails keeps the state it was given or the one it set; a Delete that fails keeps it; a replacement is
a destroy and a create; a killed provider saves nothing). The modules say what the resource does.

### EditLock and KeyedLock (run `edit_lock`)

One process holds `lockRegistry` (`regSem`, `regRefs`): an entry appears with its first user and goes
with its last, so the semaphore of a key may be another one later. A goroutine registers, takes the
slot, opens the lock file, polls `flock` and returns; every exit releases what it had. The order of
`releaseSem`, closing the descriptor and `unregisterLock` is that of the code. `Expire` is the
deadline of a file lock or the cancellation of any lock. `Crash(p)` kills a process: the kernel closes
its descriptors and its registry is gone. `KeyedLock` is what callers rely on: a key has at most one
holder.

* `RegistryExact` an entry counts exactly its holders and waiters, so none leaks and none is dropped early.
* `ImplementsKeyedLock` refinement: a key has at most one holder, in one process or two, and every step
  is a grant, an unlock, a death or a stutter.
* `FileLockReturns`, `LockProgress`: whoever asks for a file lock gets an answer, and a lock that is
  free and wanted is taken by someone. Fairness: weak fairness of each step of a goroutine (the Go
  scheduler runs it), of the expiry of a deadline (a timer), and holders release (every caller defers
  `unlock`). The locks of the package manager and the firewall have no deadline, hence no promise of a
  return.

Bounds (`MCEditLock.cfg`): three threads in two processes, a file key, as many semaphores as can be
live at once, one kill. Three threads make a holder, a waiter and one that arrives while the entry is
on its way out, which is where the reference count matters. Two keys share nothing but the map, so one
is enough for TLC; the theorems are for any number, and for the locks without a deadline as well.

### ManagedFile (run `managed_file`)

The state is the file system as the code sees it: which inode the path refers to, each inode's
content, attributes and timestamps, what of it is flushed (`disk...`), and per editor the program
counter, `fileSnapshot`, the text it read and its temporary file. The content is the set of marks in
the file: an editor adds or removes its own, foreign programs theirs. Actions follow the system calls
of `readRegularFileNoFollow`, `writeManagedFileWith`, `replaceFileAtomicWith`, `rewriteInPlace`,
`removeManagedFile`; between any two, a foreign program may write, chmod, replace or remove the file.
`Coarse` lets two changes share a timestamp; the ghost `unseen` marks the two changes that the code
knowingly cannot notice (same size within one tick; between last check and rename), and nothing else.

* `OnlyReadIsReplaced` what a rename, rewrite or unlink destroys is what the cycle had read.
* `AttrsKept` the new file has the mode, owner and ACL of the one it replaces.
* `NoTrace` a cycle that returns an error left the file as it was, and no temporary file remains of an
  operation that returned.
* `NeverPartial` after a power loss the path refers to the old or the new content, whole.
* `ChangesSurvive` a change that was reported flushed is there after a power loss.

Not covered by the code, and so not promised: new parent directories are not flushed, and a run that
repeats an edit after a crash between rename and flush finds nothing to do and flushes nothing.

`Sites` says what kinds of path there are; the initial state chooses one. `DropIn` is a file that
destroy removes when it is empty, `Mounted` one that another file is mounted over (rename fails with
`EBUSY`, and the file is rewritten in place). `dir`, too, is chosen: the directory is there or still to
be made. Bounds (`MCManagedFile.cfg`): a shared file, and a drop-in under a mount, one editor, two
changes by others, and two among failed calls, killed processes and losses of power. All five properties
are proved as well, for any of these (see What is proved). Three inodes: the
file, the temporary file and one that another program puts there, after which the freed one is used
again, which is what a snapshot must not be fooled by.

### SharedFile and AtomicEdits (run `shared_file`)

Editors take the lock of `lockFileForEdit` around the cycle. `Spelling` gives the path each editor was
configured with; `FileLockKey` resolves the directory if it exists. `AtomicEdits` is a set of marks
that changes by whole edits.

* `EditsSerialised` no two editors are in the cycle of the file at once.
* `ImplementsAtomicEdits` the file changes by whole edits only, so none is lost and none undoes what another
  editor did meanwhile.

Bounds: three editors, two of which name the file by one path and one by another; two failed calls or
killed processes.

### FileLine (runs `file_line`, `file_line_live`)

The pure operations come first: `Inspect`, `Ensure`, `RemoveFragment`, `Stored` (what a text reads back
as, the composition of `bytes` and `parseTextFile`). A regular expression is the set of lines it
matches. The resource is `Configure` by the user, `Refresh` (Read), `Import`, `Apply` and
`Save` (Create and Update; the state is saved in a step of its own), `Delete`, `Interrupt` (killed, or
the flush failed, after the write) and `Foreign`.

* `Settled` after an apply that ended well the plan is empty and stays so while others edit the file.
* `OthersKept` an edit keeps all other lines and their order, but for an empty last line.
* `Converges` (liveness) once changes stop, every fragment is in place. Fairness: Terraform is run
  again and again (weak for refresh and save; strong for apply and delete, as the lock is free again
  and again). That is what "repeated applies converge" in the docs is about.

Bounds: texts of up to three lines out of two foreign lines, the empty line and three lines that the
regexp matches; a resource that moves between two lines and a block, one that moves between two bodies
of a block and a line; three configuration changes, one foreign change, one interruption. Other
programs do not put a line that resources insert next to inside a block.

### Swap (run `swap`)

`area` is what is at the path, `active` the kernel's entry, `inUse` whether a device is mounted, `fstab`
the entry; `state` and `tainted` are Terraform's. An operation is a sequence of steps, one per call that
changes the host: `prepareFile` or `prepareDevice`, allocation (a new file, or one renamed over the old),
`mkswap`, `swapon` or `swapoff`, the fstab edit, and the check of `/proc/swaps` at the end. `live` is the
entry as it was looked up at first: the code does not look again. Any step can fail (`Fault`), the
provider can be killed (`Kill`), and users replace, open up, format, mount, enable, disable and enter
areas at any time, since no lock covers a swap area.

* `Settled` after an apply that ended well the next plan is empty.
* `Recorded` whatever fails, what the provider made is in the state, so destroy undoes it.
* `DataKept` data of others goes only with `force`, or if the state says the provider made the file.
* `EnabledBeforeEntered` an area that the kernel refuses does not get into fstab.

Where others act between a check and the step it allows, no property can promise more than the code:
`DataKept` says so with `raced`.

Bounds (`MCSwap.cfg`): a file and a device, sizes 1 and 2, two priorities, three changes of the
configuration, two by others, one fault. Not modelled: `root_dir`, MiB arithmetic, several entries of
one area in fstab, the check that the directory is trusted.

### Firewall (runs `firewall`, `firewall_move`)

`nft` is the provider's table (rules with handles in two chains, and whether others keep objects in it),
`ipt` the chains of `iptables` and `ip6tables`. `run` is the operation that holds the firewall lock, of
which there is one (`EditLock`), with what `find` listed and what is left to do. An `nft` script is one
step, since `nft` applies it as a transaction; of `iptables` each `-C`, `-I`/`-A` and `-D` is a step, so
a rule of family `inet` is in force for one family before the other. A command can fail, or time out
after it took effect; tools come and go; others delete, edit, copy and add rules.

* `Settled` after an apply that ended well there is one copy of the rule per family, as configured, and
  the next plan is empty.
* `NoGap` an update within a backend never leaves a family without the rule, also when it fails half way.
* `OthersKept` rules of other resources and tools are neither removed nor reordered.
* `PlaceKept` an update keeps the position of the rule.
* `MCFirewallMove.cfg` expects a violation of `NeverBlocked` (see Findings).

Bounds: a rule that moves between backends, chains and families, one that stays and is in the way;
three changes of the configuration, one by others, one fault. Two chains and two families are those
that a move needs. What a rule matches is one value: the parsers decide only whether the attributes can
express a listed rule.

### Packages, Repositories, Units, Services, DropIns (runs `software`, `unit_effect`)

One resource in each behaviour; the initial state says which. All of them share two changes of the
configuration (three for a repository, which may be replaced before it is destroyed), one by others and
one failed call or killed provider (`MCSoftware.cfg`). The sets of configurations are in `MCSoftware`,
chosen so that what the code tells apart is there: the modules themselves take any set, which the
theorems need. Two configurations make a create, an update or replacement, and a destroy.

* `Packages`: names and versions are what the tools make of them, not text: a name that apt takes for a
  removal or a pattern, one that rpm takes for name and version, a virtual package, a local file; one
  version in the spellings with and without epoch and release. `db` is what is installed, `index` what
  the package manager knows, `repo` what there is; a new provider process refreshes the index once. The
  steps are refresh, query and plan, the install, upgrade, downgrade or removal, the verification, and
  the record.
* `Repositories`: the key, the repository and the old key are files that are written and removed in the
  order of the code, the index is refreshed last; what a failure rolls back, and what is then stored, is
  modelled case by case. For apk the repository is the line after a marker.
* `Units`: each `systemctl` call is a step; `unit` is the file, what systemd has loaded of it, what runs
  of it, the enablement and a vendor's unit of the same name. systemd may become unreachable (`down`).
* `Services`: systemd or OpenRC, chosen at first; `restart_on_change` watches a file that another
  resource writes before.
* `DropIns`: one module for `sudoers`, `logrotate`, `journald_config` and `systemd_dropin`; a text is
  known by its bytes, by what it means, by whether its tool accepts it and whether an import can express
  it. `pending` is the private state that says that a restart is due.

The properties (each is that of the modules it names):

* `Settled` after an apply that ended well, and until something else happens, the plan is empty.
* `Applied` an empty plan means that the repository's files, key and index, what systemd has loaded of
  the unit, and what journald runs with, are as configured, unless the exceptions in the module hold.
* `KeyStored` a repository never refers to a key that is not there; no secret key is stored.
* `Recorded` a create that did something leaves a state; a repository's files never stay without one;
  new triggers are stored only once the service was restarted for them.
* `Predicted` the planned version is the one installed, and a downgrade is only ever asked for.
* `OthersKept` no command acts on another package, no destroy on a vendor's unit, no write on a user's
  file or another repository's line; no sudoers file is installed that `visudo` rejects.
* `DestroyRestores` a destroyed unit is as it was before, and journald does not go on with the drop-in.
* `MCUnit.cfg` expects a violation of `TakesEffect` (see Findings).

### Entries and the kinds of entries (run `host`)

`HostsEntry`, `CronJob`, `AuthorizedKey`, `IniValue` and `LimitsEntry` say what a file is and what
create, update, read, import and destroy make of it, in pure operators; `Entries` has the file, the
resource's life, and others who edit the file between any two steps. A line is a record of what the code
parses from it, with the spellings that the code compares or normalises: case of host names and limits,
the two forms of a value, quotes in a cron environment, the separator of a key. Two operators are there
for the properties only: `Rest` (the lines of others) and `InEffect`, which is what the program that
reads the file finds by its own rules (the first matching address, the last limit, the last value of the
last section of a name).

### Settings and the kinds of settings (run `host`)

The other seventeen resources change a host in several steps, which a kind names in the order of the
code (`Steps`); `Outcomes` gives what a step may make of the host, including the refusals of the kernel
and of the tools, `OnFault` what a failing call leaves and returns, `Undoing` the steps of a destroy.
`Settings` interleaves them with others and with faults. `previous` and `applied` are the private state:
what a create found, and what was applied last.

* `Kernel` a value in the kernel, in its file and in an old file; modules with parameters, built in or
  not, with two files that may be others'.
* `Hostname` (and the time zone), `Locale` each place that holds the value, with or without systemd and the
  locale compilers, below `root_dir` or not.
* `Mount` the stack of what is mounted, and fstab with lines that are spelled in several ways.
* `Alternatives` the group's mode, link and registered paths, and paths that others could change.
* `Accounts` the user with its groups, as `useradd`, `usermod` and `groupadd` change them.
* `FileContent` files and templates: opened, owned, written, in this order, through a descriptor that
  may have lost its path. `content_wo` is known by what was written last.
* `Directory` a directory, its recursive owner and modes entry by entry, mount points in it; and links,
  which a new link replaces.
* `Archive` what an archive may contain (names that leave the tree, links, duplicates), the staged merge
  and its rollback, stale entries, the manifest, drift. `Stays` is recursive, so this is for TLC only.
* `RemoteFile` what the server sends, verification, the rename or its refusal, adoption, litter.
* `Inode` ACLs with the mask and the default ACL, exclusive or not; flags, their originals, and those
  that the file system ignores.

### The properties of the run `host`

* `Settled` after an apply that ended well, and until something else happens, a refresh changes nothing
  and the plan is empty: Read reads back what Create and Update write.
* `Effective` after such an apply what is configured is what is used, now and after the next boot. More
  than that, an empty plan is the truth: whatever failed and whatever others did, when a refresh and a
  plan have nothing to tell, the host is as configured. The second half is claimed of the kinds in
  `Watched` only. The others do not read back all that they set: the pretty host name, the second file
  of the time zone, the compiled locales, a user's supplementary groups, the options that a file system
  is mounted with, the parameters of a loaded module, the mode of `authorized_keys`.
* `Kept` no step changes, moves or removes what belongs to others.
* `Gone` a destroy that ended well, at once or when tried again, leaves nothing of the resource, and
  brings back what was there before where it promises so; a release of an ACL entry or flag likewise.
* `Harmless` an operation that fails leaves nothing that takes effect at the next boot, and no content
  is ever in a file with a mode or owner that is not its own.
* `TypeOK` includes that only what the validation of the kind accepts is ever applied.

Where the code cannot promise more, the conditions say so: `work.alone` (nobody interfered since the
operation began), `faults = 0`, `lost` (a provider was killed, so what it did is unrecorded).

Bounds (`MCHost.cfg`): per kind a few configurations, of which some are refused by the
validation, by a tool or by the kernel; a few hosts with copies, spellings, obstacles and entries
of others, which `MCHost` lists; two configurations, one change by others between any two steps and one failed call or killed
provider. Create, update or replacement, and destroy with one disturbance at any place is what the code
handles; all the private state that a later operation reads is written within that many.

### Command (run `command`)

`runCommand` runs every command the provider uses. `proc` is the child and one process that it leaves in
the background, in its group or not; `holds` who has the output open; `outputDone` and `childExited` are
the channels that the two goroutines close, `deadline` and `grace` the timers, and `pc` where the caller
is: selecting, draining after a kill, closing the readers, reaping. The `select` picks any case that is
ready. The child is reaped last, so that its process ID, which is the group's, is not reused (`Reuse`)
while it can still be signalled. Around it are create, update and destroy of `sysutils_exec` and the
ephemeral resource, interrupts, a refused `SIGKILL` and a killed provider.

* `GroupKilled` the number that is signalled is still the group's; when a timeout or an interrupt is
  reported nobody in the group goes on.
* `Truthful` what is recorded or handed out is the result of a run that ended by itself, all of whose
  output was read, with a status that the configuration allows; a state is only given up after such a
  run of the destroy command.
* `Returns` (liveness) with a timeout, when interrupted, and once the child has exited, the operation
  ends, whoever keeps the output open. Fairness: the caller and the goroutines run when they can (Go's
  scheduler), timers go off, and who was sent `SIGKILL` dies. Nothing is assumed of the command.

Bounds (`MCCommand.cfg`): two changes of the configuration, one write (beyond the cap, so that truncation
happens), one fault. A second write would be read like the first. The ephemeral resource, which runs its
command when it is opened, is opened only while no `sysutils_exec` is in the state.

### Fairness and deadlock

Fairness is assumed only in `EditLock`, `FileLine` (run `file_line_live`) and `Command`. Deadlock is not
checked where a run stops because the bounds on changes and faults are used up.

## What is proved

For each theorem, `PROJECT.json` names the property it states. The argument is the same everywhere: an
invariant that every step preserves, of which the property is a part or a consequence of a step.

`EditLockProofs`, for any threads, processes, keys and number of faults: type correctness, mutual
exclusion, refinement of `KeyedLock`, exactness of registry and semaphores. Mutual exclusion needs only
`FlockInv`: whoever is past `try` is the thread whose descriptor has the flock. The registry needs
`RegInv`, because an entry counts the threads that hold its semaphore: it relates the count to the set
of threads of the process that are between register and unregister for that key, and says that all of
them got the entry's semaphore. Semaphores need both, plus that a registered semaphore belongs to one
process and one key only.

`SharedFileProofs`, about the system calls, for any editors, inodes, marks, changes and faults. `FileInv`
is what holds with any number of editors, locked or not: the path never refers to a temporary file and no
two editors have the same one (`Apart`), what it refers to before and after a loss of power is whole and
flushed (`Durable`), and each editor's temporary file has what its steps so far gave it (`Own`). From it
follow `NeverPartial` and `NoTrace`. The other three properties of the run are about one editor at a time,
which is the hypothesis `Alone`: it is what the lock gives, and two editors at once do overwrite each
other's changes. `Aware` then says that, as long as no change went by unnoticed (`unseen`), a file that
looks as it did when it was read is what was read, and from the last check on it does look so; `Surviving`
that what was done is in the file, and once it is flushed on the disk.

About the lock around them: `EditsAreSerialised` assumes `OneKey` (all editors compute the same key, which
holds if the directory exists or they spell the path alike) and nothing about failures. `LockInv` says that
whoever is inside the cycle holds its key. `SharedEditsAreAtomic` is the refinement: the cycles of any
number of resources, with crashes and failures between any two system calls, implement
`AtomicEdits`. Its hypotheses are `OneKey` and that the file is nobody's drop-in and no mount point
(`SharedSites`); nobody edits without the lock in `SharedFile`. `Agreed` says that from the read to the
change the file is what was read; that it stays so while another editor takes a step is where the lock
comes in.

`Swap`, for any configurations, areas, priorities and numbers of changes and faults: every
property of the run `swap`, that a create leaves a state, and that no area is formatted or replaced while
the kernel swaps to it. `SwapAssumption` says what users put at the path: their areas are not marked
as the provider's, the mode matters for files only, and a file with a swap header holds nothing else.
`Types` adds to `TypeOK` which steps belong to which operation. On it rest four invariants. `Made` is
`Recorded` in the middle of an operation: `Recorded` is about idle states, so it needs to know that a
create and an update carry in `created` and `changed` what they made, and that a delete that passed a
step undid it. `Looked` says that `live`, which the code looks up once, is still true while nobody
interferes. `Allowed` says at each step that destroys data why it may. `Reached` says which part of the
host is as configured after each step. `AppliedIsSettled` assumes `MkswapUuid`; without it `Settled` is
false.

`FirewallProofs`, for any resources, configurations, bodies and numbers of changes and faults: type
correctness, `NoGap` and `OthersKept`. `ConfigsTyped`, which TLC evaluates for the configurations of the
run, says what the schema and its validators let a configuration be and that the markers `Null` and
`Other` are none of the values. `FirewallInvariant` has three parts. `Types` says where an operation
stands and what it has planned: the families in which a rule is missing and the stale rules are listed
once each, rules found carry the name of the resource, a handle belongs to one rule. `Backed` is about
updates within `iptables`, one command at a time: nothing stale is deleted while a family lacks the
rule, and then there is one copy more in each family than copies are going to be deleted. Counting copies is
needed because `iptables -D` names a rule by what it says, so that it may delete another copy than the
stale one. `Looked` says that what an nft script deletes by its handle is a rule of the resource, and that
a table that is deleted holds nothing else, as long as nobody interfered since the listing. The lists
that the code filters are stated by the positions they keep (`At`, with `Rank` for the new position): what
is kept of a list, of a list with an element more or less, and of what was kept of a list, are lemmas
without an induction. `OthersKept` then compares the rules at the positions of others before and after a
step.

`Command`, for any output, configurations and number of faults: `GroupKilled` and `Truthful`. `GroupInv`
says why the number is still the group's: the child is reaped only before `end`, only a reaped process
loses its number, and once the group is killed the child, which alone starts processes, is doomed, so
nobody joins the group. `TruthInv` says that while the caller waits or drains, the channels are closed by
their goroutines only, and that it closes them itself when it is done without a kill; so a result that is
accepted is that of a process which ended by itself, with all of its output read.

`UnitProofs`, for any unit files, configurations and numbers of changes and faults: all that the run
`software` says of a unit. The effect of every `systemctl` command and of every step on the unit comes
first, as lemmas. `UnitInvariant` is made of `Types` (which steps belong to which operation), `Progress`
(what the steps passed have achieved), `Told` (systemd has loaded what was written, unless it was
unreachable), `Alone` and `Remembered` (what of the unit is still that of before the create, while nobody
else interferes, and that `preexisting` says so), `Present` and `Settled`. `TextsTyped` says that unit
files and configurations are none of the markers of the model (`Null`, a symlink) and that their fields
have values that systemd knows.

`DropIns`, for each of the four kinds and likewise any texts: `DropInInvariant` says what was written and
is recorded (`Wrote`), and what the daemon still has to be told: `pending` says for journald, and the
steps that are left for systemd, that it will be (`JournaldTold`, `SystemdTold`).

`MCSoftware`: `KeyStored`, from `KeyInvariant` of `Repositories` (between the steps, the key of the plan is there before the
repository refers to it, and it is dropped only once nothing does); `DestroyRestores`, from the invariants
of `Units` and `DropIns`; and of services `Settled`, and that new triggers are stored only after the restart
they ask for, from `ServiceInv` (whose part `Reached` says which part of the service is as configured after
each step). They assume `OptionsTyped`, that the configurations are as the modules take them, which TLC
evaluates for those of the run.

What proving brought to light in the models, and is in them now: when `[Install]` is removed from a unit
while links of it exist, `systemctl` goes by the links; `disable` and `reenable` fail without a unit file.

Only model-checked: `FileLine`, which filters sequences (what a filter returns is an induction over the
sequence); of `Firewall` `Settled`, `PlaceKept` and `NeverBlocked`; `Packages`, and of `Repositories` all but its keys; hence of the run
`software` as a whole `TypeOK`, `Settled`, `Applied`, `Recorded`, `Predicted` and `OthersKept`, though
the parts of them that are about units, services and drop-ins are theorems of these modules; the run
`host`, as `Archive` has a recursive operator and `Settings` uses it. Liveness under fairness
(`Converges`, `Returns`, `FileLockReturns`, `LockProgress`) is out of the prover's reach.

## Findings

Two have a run that shows them, and an entry in `PROJECT.json` with the lines.

* `firewall_move`: an update to another backend that fails after it added a rule leaves a state that
  names the old backend; the next refresh drops the resource, and every later create is refused.
* `unit_effect`: an update whose `daemon-reload` fails stores the new content, so that the next plan is
  empty and systemd never loads it.

Met while modelling. The models follow the code here, and the properties are stated so that they hold:

* Locks: while the directory of a file does not exist, two spellings of its path have two keys.
* Managed files: within one tick of the timestamps a change by others can be overwritten unnoticed.
* Lines: an update of a line with a `regexp` can replace a second, unmanaged match. Destroy of a line
  that ends the file without a newline drops an empty line before it.
* Swap: with a `mkswap` that writes no UUID the plan is never empty. Destroy of a swap file deletes a
  regular file that a user put in its place. A create that formatted a device and failed to enable it
  leaves no state. A refresh reports the kernel's priority as drift of one entered in fstab by others.
* Firewall: `iptables -D` of a stale copy that equals the kept rule deletes the first of the two, so the
  position can change. A refresh with only `ip6tables` at hand drops an ipv4 rule from the state.
* Packages: a half-installed dpkg package is skipped on destroy; the planned `installed_version` is not
  kept for a version with an explicit zero epoch, nor with `latest` and `update_cache`.
* Repositories: removing the own line of apk can affect a line of others'; an update that rewrote its own
  key and then failed stores that no refresh is due; a failed removal of the old key leaves it there; a
  repository file removed by hand cannot be created again, because its key exists.
* Units: a create while systemd is unreachable leaves an orphaned file; one over a unit that still runs
  does not restart it; an import, and a destroy whose last reload failed, forget `preexisting`.
* Services: a drop-in that systemd has not seen is not reloaded by a start, while the triggers are
  stored as done.
* Drop-ins: a destroy of a systemd drop-in whose reload fails succeeds without a reload when retried; an
  edit by others between plan and apply hides a restart that is due.
* Cron, limits: a create after a killed provider is refused, and the file has to be imported. INI: a
  change of the separator from white space to `=` leaves the old line.
* Host name: restore loses a loopback line that already was there for the new name; a create that failed
  half-way takes the changed name for the previous one when retried.
* Locale: a recorded previous value that is no locale makes every restore fail.
* Kernel modules: a failed write after the unload leaves the module unloaded; parameters of a module that
  is loaded already do not take effect, nor can what a killed update loaded be read back; options that
  others write before the load stay.
* Users: taking `groups` out of the configuration empties the supplementary groups, and an update without
  `shell` empties the shell, where the documentation says that both are left alone; a user whose read-back
  failed after `useradd` is orphaned; drift of the comment is not read.
* Mounts: a create with `mounted = false` whose last read fails has written fstab and is refused later;
  destroy unmounts the topmost file system only; after a remount whose fstab edit failed, going back to
  the old options leaves the new ones mounted.
* Alternatives: an update that fails after selecting the new path leaves `applied_path` at the old one; a
  change of the path leaves the old alternative registered.
* Directories, links: a recursive owner without recursive modes clears setuid bits (the kernel does); a
  file that appears between the check and the rename of a link is replaced.
* Files: destroy removes a link that has taken the file's place.
* Remote files: a create that fails after the rename leaves a file without a state.
* Archives: a failed removal of stale entries forgets which directories were there before, so that a later
  destroy removes one; a failed merge records the full manifest; after a failed update drift is checked by
  existence only; with the archive gone, drift plans an update that cannot be applied.
* ACLs: import sets `exclusive`, so the first apply without it removes entries of others. Flags: a create
  whose verification fails leaves them without a state, and the next one takes them for the originals; a
  flag cleared by others is forgotten.
* Commands: a command of a killed provider goes on, and the next create runs it again; one that finished
  before the deadline, but not yet in the eyes of the goroutines, is reported as timed out.

## Plan

The list of components is done but for what is under Not modelled. What is left is to prove more: `Settled`
and `PlaceKept` of `Firewall`, on the invariant there is; the rest of `Repositories` (`Settled`, `EmptyPlanMeansDone`, `Recorded`, `UsersFilesKept`,
`UsersLinesKept`) and `Packages`, after which the properties of the run `software` are theorems as a whole;
then `FileLine`, its filters stated by the positions they keep as in `Firewall`, and the kinds of `MCHost` once `Stays` of `Archive` is stated without recursion.

## Not modelled

Schemas, messages, data sources, functions and facts have no state. Templates and regular expressions are
evaluated by libraries: their results are values. `systemd_directives.go` is a generated table, and
`systemd_unitfile.go` a text format: a unit file is known by what it means. Path resolution under
`root_dir` only reads; the models have its result, a path or a file that is refused, as they have that of
reaching `~/.ssh` without following links. Of archives, the compressed formats and the staging directory,
which only the provider can enter, are left out; of ACLs and flags, their binary form; of commands, the
goroutine that writes standard input, which nothing waits for. The component list of `PROJECT.json` says
for each part what is missing and why.
