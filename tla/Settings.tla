-------------------------------- MODULE Settings --------------------------------
(***************************************************************************)
(* The resources that set something of the host in several places:         *)
(* sysutils_sysctl, _kernel_module, _hostname, _timezone, _locale, _mount, *)
(* _alternative, _user, _group, _file, _template_file, _directory,         *)
(* _symlink, _archive_extract, _remote_file, _file_acl and                 *)
(* _file_attributes.                                                       *)
(* What each does to the host is in the module of the kind (Kinds lists    *)
(* what they define); here is what they share.  Between two steps          *)
(* of an operation others may change the host, a call may fail, or the     *)
(* provider may be killed.  previous and applied are the private state:    *)
(* what a Create recorded, and what was applied last (the host name, the   *)
(* path of an alternative, the content of a file that the state may not    *)
(* have, or that was downloaded, the flags of before).                     *)
(***************************************************************************)
EXTENDS Lifecycle, Sequences

CONSTANTS Unknown,       \* a value that is not known at plan time
          Options(_),    \* the configurations of a kind
          Hosts(_),      \* the hosts to begin with
          Others(_, _)   \* what others make of a host

VARIABLES kind, host,
          previous, applied,
          work,          \* [todo, old, failed, changed, alone, note] of the operation
          before         \* history: what a destroy is to bring back, or Null

vars == <<lifecycle, kind, host, previous, applied, work, before>>

Ker == INSTANCE Kernel
Name == INSTANCE Hostname
Lang == INSTANCE Locale
Mnt == INSTANCE Mount
Alt == INSTANCE Alternatives
Acc == INSTANCE Accounts
File == INSTANCE FileContent
Dir == INSTANCE Directory
Arch == INSTANCE Archive
Remote == INSTANCE RemoteFile
Node == INSTANCE Inode

Singletons == {"hostname", "timezone", "locale"}
Files == {"file", "template"}
Kinds == {"sysctl", "module", "mount", "alternative", "user", "group", "directory", "symlink", "archive", "remote", "acl", "flags"}
         \cup Files \cup Singletons

Valid(c) ==
    CASE kind = "sysctl" -> Ker!ParameterValid(host, c) [] kind = "module" -> Ker!ModuleValid(host, c)
      [] kind = "hostname" -> Name!Valid(host, c) [] kind = "timezone" -> Name!ZoneValid(host, c)
      [] kind = "locale" -> Lang!Valid(host, c)
      [] kind = "mount" -> Mnt!Valid(host, c) [] kind = "alternative" -> Alt!Valid(host, c)
      [] kind = "user" -> Acc!UserValid(host, c) [] kind = "group" -> Acc!GroupValid(host, c)
      [] kind \in {"file", "template"} -> File!Valid(host, c) [] kind = "directory" -> Dir!DirValid(host, c)
      [] kind = "symlink" -> Dir!LinkValid(host, c) [] kind = "archive" -> Arch!Valid(host, c)
      [] kind = "remote" -> Remote!Valid(host, c)
      [] kind = "acl" -> Node!AclValid(host, c) [] kind = "flags" -> Node!FlagsValid(host, c)
Differs(c, s) ==
    CASE kind = "sysctl" -> Ker!ParameterDiffers(host, c, s) [] kind = "module" -> Ker!ModuleDiffers(host, c, s)
      [] kind = "hostname" -> Name!Differs(host, c, s) [] kind = "timezone" -> Name!ZoneDiffers(host, c, s)
      [] kind = "locale" -> Lang!Differs(host, c, s)
      [] kind = "mount" -> Mnt!Differs(host, c, s) [] kind = "alternative" -> Alt!Differs(host, c, s)
      [] kind = "user" -> Acc!UserDiffers(host, c, s) [] kind = "group" -> Acc!GroupDiffers(host, c, s)
      [] kind \in {"file", "template"} -> File!Differs(host, c, s, applied) [] kind = "directory" -> Dir!DirDiffers(host, c, s)
      [] kind = "symlink" -> Dir!LinkDiffers(host, c, s) [] kind = "archive" -> Arch!Differs(host, c, s)
      [] kind = "remote" -> Remote!Differs(host, c, s, applied)
      [] kind = "acl" -> Node!AclDiffers(host, c, s) [] kind = "flags" -> Node!FlagsDiffers(host, c, s)
Replaces(c, s) ==
    CASE kind = "locale" -> Lang!Replaces(c, s) [] kind = "group" -> Acc!GroupReplaces(c, s) [] OTHER -> FALSE
Asked ==
    CASE kind = "locale" -> Lang!Resolved(host, config, state)
      [] kind \in {"file", "template"} -> File!Planned(host, config, state) [] kind = "directory" -> Dir!DirPlanned(host, config, state)
      [] kind = "symlink" -> Dir!LinkPlanned(host, config, state) [] kind = "archive" -> Arch!Planned(host, config, state)
      [] kind = "remote" -> Remote!Planned(config, state, applied)
      [] OTHER -> config
Recorded(c) ==
    CASE kind = "hostname" -> Name!Recorded(host, c) [] kind = "locale" -> Lang!Recorded(host, c)
      [] kind = "alternative" -> Alt!Recorded(host, c) [] kind = "user" -> Acc!UserRecorded(host, c)
      [] kind = "group" -> Acc!GroupRecorded(host, c)
      [] kind \in {"file", "template"} -> File!Recorded(host, c) [] kind = "directory" -> Dir!DirRecorded(host, c)
      [] kind = "symlink" -> Dir!LinkRecorded(host, c) [] kind = "archive" -> Arch!Recorded(c, state, work.note, work.failed)
      [] kind = "remote" -> Remote!Recorded(host, c)
      [] OTHER -> c
Found(s) ==
    CASE kind = "sysctl" -> Ker!ParameterFound(host, s, applied) [] kind = "module" -> Ker!ModuleFound(host, s, applied)
      [] kind = "hostname" -> Name!Found(host, s, applied) [] kind = "timezone" -> Name!ZoneFound(host, s, applied)
      [] kind = "locale" -> Lang!Found(host, s, applied)
      [] kind = "mount" -> Mnt!Found(host, s, applied) [] kind = "alternative" -> Alt!Found(host, s, applied)
      [] kind = "user" -> Acc!UserFound(host, s, applied) [] kind = "group" -> Acc!GroupFound(host, s, applied)
      [] kind \in {"file", "template"} -> File!Found(host, s, applied) [] kind = "directory" -> Dir!DirFound(host, s, applied)
      [] kind = "symlink" -> Dir!LinkFound(host, s, applied) [] kind = "archive" -> Arch!Found(host, s, applied)
      [] kind = "remote" -> Remote!Found(host, s, applied)
      [] kind = "acl" -> Node!AclFound(host, s, applied) [] kind = "flags" -> Node!FlagsFound(host, s, applied)
Imports ==
    CASE kind = "sysctl" -> Ker!ParameterImports [] kind = "module" -> Ker!ModuleImports
      [] kind = "hostname" -> Name!Imports [] kind = "timezone" -> Name!ZoneImports [] kind = "locale" -> Lang!Imports
      [] kind = "mount" -> Mnt!Imports [] kind = "alternative" -> Alt!Imports
      [] kind = "user" -> Acc!UserImports [] kind = "group" -> Acc!GroupImports
      [] kind \in Files -> {kind} [] kind = "directory" -> Dir!DirImports [] kind = "symlink" -> Dir!LinkImports
      [] kind = "archive" -> Arch!Imports [] kind = "remote" -> Remote!Imports
      [] kind = "acl" -> Node!AclImports [] kind = "flags" -> Node!FlagsImports
Imported(i) ==
    CASE kind = "sysctl" -> Ker!ParameterImported(host, i) [] kind = "module" -> Ker!ModuleImported(host, i)
      [] kind = "hostname" -> Name!Imported(host, i) [] kind = "timezone" -> Name!ZoneImported(host, i)
      [] kind = "locale" -> Lang!Imported(host, i)
      [] kind = "mount" -> Mnt!Imported(host, i) [] kind = "alternative" -> Alt!Imported(host, i)
      [] kind = "user" -> Acc!UserImported(host, i) [] kind = "group" -> Acc!GroupImported(host, i)
      [] kind \in {"file", "template"} -> File!Imported(host, i) [] kind = "directory" -> Dir!DirImported(host, i)
      [] kind = "symlink" -> Dir!LinkImported(host, i) [] kind = "remote" -> Remote!Imported(host, i)
      [] kind = "acl" -> Node!AclImported(host, i) [] kind = "flags" -> Node!FlagsImported(host, i)
Snapshot ==
    CASE kind = "hostname" -> Name!Snapshot(host) [] kind = "timezone" -> Name!ZoneSnapshot(host)
      [] kind = "locale" -> Lang!Snapshot(host, Asked) [] OTHER -> Null

\* What the steps of an operation depend on.
Context(p) ==
    [plan |-> p, state |-> state, previous |-> previous, applied |-> applied,
     old |-> IF work = Null THEN host ELSE work.old, note |-> IF work = Null THEN Null ELSE work.note]
Steps(x) ==
    CASE kind = "sysctl" -> Ker!ParameterSteps(host, x) [] kind = "module" -> Ker!ModuleSteps(host, x)
      [] kind = "hostname" -> Name!Steps(host, x) [] kind = "timezone" -> Name!ZoneSteps(host, x)
      [] kind = "locale" -> Lang!Steps(host, x)
      [] kind = "mount" -> Mnt!Steps(host, x) [] kind = "alternative" -> Alt!Steps(host, x)
      [] kind = "user" -> Acc!UserSteps(host, x) [] kind = "group" -> Acc!GroupSteps(host, x)
      [] kind \in {"file", "template"} -> File!Steps(host, x) [] kind = "directory" -> Dir!DirSteps(host, x)
      [] kind = "symlink" -> Dir!LinkSteps(host, x) [] kind = "archive" -> Arch!Steps(host, x)
      [] kind = "remote" -> Remote!Steps(host, x)
      [] kind = "acl" -> Node!AclSteps(host, x) [] kind = "flags" -> Node!FlagsSteps(host, x)
Undoing(x) ==
    CASE kind = "sysctl" -> Ker!ParameterUndoing(host, x) [] kind = "module" -> Ker!ModuleUndoing(host, x)
      [] kind = "hostname" -> Name!Undoing(host, x) [] kind = "timezone" -> Name!ZoneUndoing(host, x)
      [] kind = "locale" -> Lang!Undoing(host, x)
      [] kind = "mount" -> Mnt!Undoing(host, x) [] kind = "alternative" -> Alt!Undoing(host, x)
      [] kind = "user" -> Acc!UserUndoing(host, x) [] kind = "group" -> Acc!GroupUndoing(host, x)
      [] kind \in {"file", "template"} -> File!Undoing(host, x) [] kind = "directory" -> Dir!DirUndoing(host, x)
      [] kind = "symlink" -> Dir!LinkUndoing(host, x) [] kind = "archive" -> Arch!Undoing(host, x)
      [] kind = "remote" -> Remote!Undoing(host, x)
      [] kind = "acl" -> Node!AclUndoing(host, x) [] kind = "flags" -> Node!FlagsUndoing(host, x)
Outcomes(s, x, r) ==
    CASE kind = "sysctl" -> Ker!ParameterOutcomes(s, host, x, r) [] kind = "module" -> Ker!ModuleOutcomes(s, host, x, r)
      [] kind = "hostname" -> Name!Outcomes(s, host, x, r) [] kind = "timezone" -> Name!ZoneOutcomes(s, host, x, r)
      [] kind = "locale" -> Lang!Outcomes(s, host, x, r)
      [] kind = "mount" -> Mnt!Outcomes(s, host, x, r) [] kind = "alternative" -> Alt!Outcomes(s, host, x, r)
      [] kind = "user" -> Acc!UserOutcomes(s, host, x, r) [] kind = "group" -> Acc!GroupOutcomes(s, host, x, r)
      [] kind \in {"file", "template"} -> File!Outcomes(s, host, x, r) [] kind = "directory" -> Dir!DirOutcomes(s, host, x, r)
      [] kind = "symlink" -> Dir!LinkOutcomes(s, host, x, r) [] kind = "archive" -> Arch!Outcomes(s, host, x, r)
      [] kind = "remote" -> Remote!Outcomes(s, host, x, r)
      [] kind = "acl" -> Node!AclOutcomes(s, host, x, r) [] kind = "flags" -> Node!FlagsOutcomes(s, host, x, r)
OnFault(s, x, r) ==
    CASE kind = "sysctl" -> Ker!ParameterOnFault(s, host, x, r) [] kind = "module" -> Ker!ModuleOnFault(s, host, x, r)
      [] kind = "hostname" -> Name!OnFault(s, host, x, r) [] kind = "timezone" -> Name!ZoneOnFault(s, host, x, r)
      [] kind = "locale" -> Lang!OnFault(s, host, x, r)
      [] kind = "mount" -> Mnt!OnFault(s, host, x, r) [] kind = "alternative" -> Alt!OnFault(s, host, x, r)
      [] kind = "user" -> Acc!UserOnFault(s, host, x, r) [] kind = "group" -> Acc!GroupOnFault(s, host, x, r)
      [] kind \in {"file", "template"} -> File!OnFault(s, host, x, r) [] kind = "directory" -> Dir!DirOnFault(s, host, x, r)
      [] kind = "symlink" -> Dir!LinkOnFault(s, host, x, r) [] kind = "archive" -> Arch!OnFault(s, host, x, r)
      [] kind = "remote" -> Remote!OnFault(s, host, x, r)
      [] kind = "acl" -> Node!AclOnFault(s, host, x, r) [] kind = "flags" -> Node!FlagsOnFault(s, host, x, r)

Init ==
    /\ LifecycleInit
    /\ kind \in Kinds /\ host \in Hosts(kind)
    /\ previous = Null /\ applied = Null /\ work = Null /\ before = Null

private == <<previous, applied, before>>
Configure ==
    /\ Configured({c \in Options(kind) : Valid(c)})
    /\ UNCHANGED <<kind, host, private, work>>

\* The private state goes with the state.
Refresh ==
    /\ Idle /\ state # Null /\ Refreshed(Found(state))
    /\ previous' = IF Found(state) = Null THEN Null ELSE previous
    /\ applied' = CASE Found(state) = Null -> Null
                    [] kind = "alternative" /\ applied = Null -> state.path
                    [] kind = "file" -> File!Seen(host, applied)
                    [] OTHER -> applied
    /\ UNCHANGED <<kind, host, work, before>>
Import ==
    /\ Idle /\ state = Null /\ \E i \in Imports : Imported(i) # Null /\ Refreshed(Imported(i))
    /\ host' = CASE kind = "module" -> Ker!Foreign(host) [] kind = "mount" -> Mnt!Foreign(host) [] OTHER -> host
    /\ previous' = Null /\ applied' = Null /\ before' = Null /\ UNCHANGED <<kind, work>>

Begins(o, p, steps) ==
    /\ Begin(o, "run", p, state # Null /\ (Found(state) # state \/ (kind = "file" /\ File!Seen(host, applied) # applied)))
    /\ work' = [todo |-> steps, old |-> host, failed |-> FALSE, changed |-> FALSE, alone |-> TRUE, note |-> Null]
    /\ UNCHANGED <<kind, host>>
BeginCreate ==
    /\ state = Null /\ config # Null /\ Begins("create", Asked, Steps(Context(Asked)))
    /\ previous' = Snapshot /\ applied' = Null
    /\ before' = IF kind \in Singletons \cup {"flags"} THEN host ELSE Null
BeginUpdate ==
    /\ state # Null /\ ~tainted /\ config # Null /\ Differs(config, state) /\ ~Replaces(config, state)
    /\ Begins("update", Asked, Steps(Context(Asked))) /\ UNCHANGED private
BeginDelete ==
    /\ state # Null /\ (config # Null => tainted \/ Replaces(config, state))
    /\ Begins("delete", state, Undoing(Context(state))) /\ UNCHANGED private

Reads(step) == IF kind = "archive" THEN step.do = "read" ELSE step = "read"
NotedBy(r) == IF "note" \in DOMAIN r THEN r.note ELSE work.note
Step ==
    /\ pc = "run" /\ work.todo # <<>>
    /\ \E r \in Outcomes(Head(work.todo), Context(plan), Tail(work.todo)) :
         /\ host' = r.host
         /\ work' = [work EXCEPT !.todo = r.next, !.failed = @ \/ r.failed, !.changed = @ \/ r.changed,
                                 !.old = IF Reads(Head(work.todo)) THEN host ELSE @, !.note = NotedBy(r)]
    /\ Goto("run") /\ UNCHANGED <<kind, private>>

StepFails ==
    /\ pc = "run" /\ work.todo # <<>>
    /\ LET r == OnFault(Head(work.todo), Context(plan), Tail(work.todo)) IN
         /\ host' = r.host
         /\ work' = [work EXCEPT !.todo = r.next, !.failed = @ \/ r.failed, !.changed = @ \/ r.changed,
                                 !.note = NotedBy(r)]
    /\ faults < MaxFaults /\ faults' = faults + 1
    /\ UNCHANGED <<resource, running, done, raced, lost, configs, foreign, kind, previous, applied>>
    /\ before' = IF op = "delete" THEN before ELSE Null

AppliedBy(c) ==
    CASE kind = "hostname" -> c.hostname [] kind = "alternative" -> c.path
      [] kind = "file" -> File!Note(host, Context(c)) [] kind = "remote" -> work.note
      [] kind = "archive" -> IF work.note = Null THEN applied ELSE work.note.existing
      [] kind = "flags" -> IF op = "create" THEN work.note.flags ELSE applied [] OTHER -> Null
\* After a partial Create some are recorded, so that a destroy can clean up;
\* what the others have done is not.  A file that got another content than
\* was planned is recorded in any case.
Cleaned == {"sysctl", "module", "mount", "alternative", "group"}
Ended == pc = "run" /\ work.todo = <<>>
Succeeds ==
    /\ Ended /\ ~work.failed
    /\ Succeeded(IF op = "delete" THEN Null ELSE Recorded(plan))
    /\ previous' = IF op = "delete" THEN Null ELSE previous
    /\ applied' = IF op = "delete" THEN Null ELSE AppliedBy(plan)
    /\ work' = Null /\ UNCHANGED <<kind, host, before>>
Fails ==
    /\ Ended /\ work.failed
    /\ LET kept == work.changed /\ (kind \in {"file", "archive"} \/ (op = "create" /\ kind \in Cleaned)) IN
         /\ Failed(IF kept THEN Recorded(plan) ELSE Null)
         /\ applied' = IF kept THEN AppliedBy(plan) ELSE applied
    /\ before' = IF kind = "flags" THEN Null ELSE before
    /\ work' = Null /\ UNCHANGED <<kind, host, previous>>

Kill ==
    /\ Killed /\ work' = Null /\ before' = IF op = "delete" THEN before ELSE Null
    /\ UNCHANGED <<kind, host, previous, applied>>
\* (A change after the last step is one after the operation.)
OthersChange ==
    /\ ~Ended /\ Intrusion /\ \E h \in Others(kind, host) : h # host /\ host' = h
    /\ work' = IF work = Null THEN Null ELSE [work EXCEPT !.alone = FALSE]
    /\ before' = Null /\ UNCHANGED <<kind, previous, applied>>

Next ==
    \/ Configure \/ Refresh \/ Import \/ BeginCreate \/ BeginUpdate \/ BeginDelete
    \/ Step \/ StepFails \/ Succeeds \/ Fails \/ Kill \/ OthersChange

Spec == Init /\ [][Next]_vars
-------------------------------------------------------------------------------
InEffect(c) ==
    CASE kind = "sysctl" -> Ker!ParameterInEffect(host, c) [] kind = "module" -> Ker!ModuleInEffect(host, c)
      [] kind = "hostname" -> Name!InEffect(host, c) [] kind = "timezone" -> Name!ZoneInEffect(host, c)
      [] kind = "locale" -> Lang!InEffect(host, c)
      [] kind = "mount" -> Mnt!InEffect(host, c) [] kind = "alternative" -> Alt!InEffect(host, c)
      [] kind = "user" -> Acc!UserInEffect(host, c) [] kind = "group" -> Acc!GroupInEffect(host, c)
      [] kind \in {"file", "template"} -> File!InEffect(host, c, applied) [] kind = "directory" -> Dir!DirInEffect(host, c)
      [] kind = "symlink" -> Dir!LinkInEffect(host, c, lost) [] kind = "archive" -> Arch!InEffect(host, state, lost)
      [] kind = "remote" -> Remote!InEffect(host, c, applied, lost)
      [] kind = "acl" -> Node!AclInEffect(host, c) [] kind = "flags" -> Node!FlagsInEffect(host, c)
Rest(h) ==
    CASE kind = "sysctl" -> Ker!ParameterRest(h) [] kind = "module" -> Ker!ModuleRest(h)
      [] kind = "hostname" -> Name!Rest(h) [] kind = "timezone" -> Name!ZoneRest(h)
      [] kind = "locale" -> Lang!Rest(h) [] kind = "mount" -> Mnt!Rest(h)
      [] kind = "alternative" -> Alt!Rest(h) [] kind = "user" -> Acc!UserRest(h, plan, state)
      [] kind = "group" -> Acc!GroupRest(h, plan) [] kind \in Files -> File!Rest(h, op)
      [] kind = "directory" -> Dir!DirRest(h, op, state) [] kind = "symlink" -> Dir!LinkRest(h, op, host)
      [] kind = "archive" -> Arch!Rest(h, op, Context(plan), faults = 0 /\ foreign = 0)
      [] kind = "remote" -> Remote!Rest(h, op, Context(plan), host)
      [] kind = "acl" -> Node!AclRest(h, op, plan, state) [] kind = "flags" -> Node!FlagsRest(h, plan, state)
Undone ==
    CASE kind = "sysctl" -> Ker!ParameterUndone(host, state) [] kind = "module" -> Ker!ModuleUndone(host)
      [] kind = "hostname" -> Name!Undone(host, state, before) [] kind = "timezone" -> Name!ZoneUndone(host, state, before)
      [] kind = "locale" -> Lang!Undone(host, state, before) [] kind = "mount" -> Mnt!Undone(host, work.old)
      [] kind = "alternative" -> Alt!Undone(host, Context(plan)) [] kind = "user" -> Acc!UserUndone(host)
      [] kind = "group" -> Acc!GroupUndone(host) [] kind \in Files -> File!Undone(host)
      [] kind = "directory" -> Dir!DirUndone(host) [] kind = "symlink" -> Dir!LinkUndone(host)
      [] kind = "archive" -> Arch!Undone(host, state, lost) [] kind = "remote" -> Remote!Undone(host)
      [] kind = "acl" -> Node!AclUndone(host, state) [] kind = "flags" -> Node!FlagsUndone(host, before)
Released ==
    CASE kind = "acl" -> Node!AclReleased(host, state, plan) [] kind = "flags" -> Node!FlagsReleased(host, state, plan, before)
Boot(h) ==
    CASE kind = "sysctl" -> Ker!ParameterBoot(h) [] kind = "module" -> Ker!ModuleBoot(h) [] kind = "mount" -> Mnt!Boot(h)
      [] kind \in Files -> File!Boot(h) [] kind = "archive" -> Arch!Boot(h) [] kind = "remote" -> Remote!Boot(h)

TypeOK ==
    /\ config = Null \/ (config \in Options(kind) /\ Valid(config))
    /\ pc \in {"idle", "run"} /\ (pc = "run") = (work # Null)
    /\ state = Null => ~tainted
    /\ kind \in Kinds

\* After an apply that ended well, and as long as nothing else happens, a
\* refresh changes nothing and the next plan is empty, but for a file that is
\* to be downloaded in every apply: its plan never is.
Settled ==
    done /\ Idle /\ state # Null /\ config # Null =>
        /\ Found(state) = state
        /\ Differs(config, state) = (kind = "remote" /\ config.force)

\* A refresh finds nothing new.  (One that fails, because something else is
\* in the place, changes nothing either.)
Fresh ==
    /\ Found(state) = state
    /\ kind = "file" => File!Seen(host, applied) = applied
    /\ kind \in Files => File!Regular(host)
    /\ kind = "directory" => Dir!IsDirectory(host.dir)
    /\ kind = "remote" => Remote!Regular(host)
    /\ kind \in {"acl", "flags"} => Node!Target(host.node)
\* The kinds whose Read looks at all that Create and Update set.
Watched == {"sysctl", "alternative", "group", "directory", "symlink", "remote", "acl", "flags"} \cup Files

\* After such an apply the host uses what is configured, and so it does after
\* the next boot, whichever of the places that hold it a program reads: the
\* kernel and its files, the mount table and fstab, /etc/localtime and
\* /etc/timezone, the link group in manual mode, the account database, the
\* content of a file with its mode and owner, a tree with all its entries, all
\* that an archive holds.  (What a failed update loaded a module with, or
\* mounted a file system with, cannot be read back.)  Nor is there another
\* time when it does not and a refresh and a plan have nothing to tell:
\* whatever failed and whatever others did, an empty plan is the truth.
Effective ==
    (/\ Idle /\ state # Null /\ config # Null
     /\ \/ done /\ (kind \in {"module", "mount"} => faults = 0)
        \/ kind \in Watched /\ ~tainted /\ Fresh /\ ~Differs(config, state)) =>
        InEffect(config)

\* No operation changes what the places hold for others: their lines,
\* mounts and alternatives, memberships that were never configured, what is
\* at the path and is none of the resource's business, files and directories
\* that an archive is extracted between.  A create takes over no files of a
\* kernel module that others wrote, and a link that is there is never missing.
Kept ==
    (host' # host /\ foreign' = foreign /\ (kind = "module" => op = "create")
        /\ (kind \in {"module", "symlink", "acl", "flags"} => work.alone) /\ (kind \in {"user", "group"} => op # "delete")) =>
        Rest(host) = Rest(host')

\* A destroy that ended well, be it the first or one that is tried again,
\* leaves nothing of a parameter, a module or a mount for the next boot, no
\* user, group, file, directory, link, extracted entry or entry of an ACL, the
\* link group as it was asked to, and brings the name, the zone, the locale or
\* the flags back that were there before the create.  An update does so with
\* the entries of an ACL and the flags that it does not have any more.
Gone ==
    /\ (op = "delete" /\ Idle' /\ state # Null /\ state' = Null /\ work # Null /\ work.alone
          /\ (kind = "flags" => before # Null)
          /\ (kind \in Singletons => state.restore /\ previous # Null /\ before # Null)) => Undone
    /\ (op = "update" /\ kind \in {"acl", "flags"} /\ Ended /\ ~work.failed /\ work.alone
          /\ (kind = "flags" => before # Null)) => Released

\* An operation that fails does no more harm than it reports.  A parameter, a
\* module or a mount that does not accept what is configured does not get it
\* at the next boot either (a module that is built in has no such say); a file
\* keeps its content, an archive in whose way something is leaves all as it was,
\* and so does a download that is refused.  What is written to a file is at no
\* time in one with another mode or owner than it is to have, and what was
\* downloaded is verified before.
Harmless ==
    /\ (kind \in Files /\ pc = "run" /\ foreign' = foreign /\ op # "delete") =>
         File!Covered(host, host', Context(plan))
    /\ (kind = "remote" /\ pc = "run" /\ foreign' = foreign /\ op # "delete") =>
         Remote!Covered(host, host', Context(plan))
    /\ (/\ kind \in {"sysctl", "module", "mount", "archive", "remote"} \cup Files
        /\ kind = "module" => ~host.builtin
        /\ op \in {"create", "update"} /\ Idle' /\ work # Null /\ work.failed /\ work.alone /\ faults' = 0
        /\ kind = "mount" => plan.mounted) =>
           Boot(host) = Boot(work.old)
==============================================================================
