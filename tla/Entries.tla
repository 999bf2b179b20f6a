-------------------------------- MODULE Entries --------------------------------
(***************************************************************************)
(* The resources that keep one entry in a text file that others edit too:  *)
(* sysutils_hosts_entry, _cron_job, _ssh_authorized_key, _ini_value and    *)
(* _limits.  What an operation makes of the file is in the module of the   *)
(* kind; here is what they share: the resource's life, and the file        *)
(* changing under it.  Reading, editing and replacing the file is one step *)
(* under the lock (see EditLock, ManagedFile and SharedFile).              *)
(***************************************************************************)
EXTENDS Lifecycle, Sequences

CONSTANTS Options(_),    \* the configurations of a kind
          Files(_)       \* what others make of its file

VARIABLES kind, file

vars == <<lifecycle, kind, file>>

Hosts == INSTANCE HostsEntry
Cron == INSTANCE CronJob
Keys == INSTANCE AuthorizedKey
Ini == INSTANCE IniValue
Limits == INSTANCE LimitsEntry
LOCAL K == INSTANCE Kinds

Valid(c) ==
    CASE kind = "hosts" -> Hosts!Valid(c) [] kind = "cron" -> Cron!Valid(c)
      [] kind = "key" -> Keys!Valid(c) [] kind = "ini" -> Ini!Valid(c) [] kind = "limits" -> Limits!Valid(c)
Differs(c, s) ==
    CASE kind = "hosts" -> Hosts!Differs(c, s) [] kind = "cron" -> Cron!Differs(c, s)
      [] kind = "key" -> Keys!Differs(c, s) [] kind = "ini" -> Ini!Differs(c, s)
      [] kind = "limits" -> Limits!Differs(c, s)
Replaces(c, s) ==
    CASE kind = "ini" -> Ini!Replaces(c, s) [] kind = "limits" -> Limits!Replaces(c, s) [] OTHER -> FALSE
Apply(c, s) ==
    CASE kind = "hosts" -> Hosts!Apply(file, c, s) [] kind = "cron" -> Cron!Apply(file, c, s)
      [] kind = "key" -> Keys!Apply(file, c, s) [] kind = "ini" -> Ini!Apply(file, c, s)
      [] kind = "limits" -> Limits!Apply(file, c, s)
Verified(c) == kind = "ini" => Ini!Verified(file, c)
Recorded(c) ==
    CASE kind = "cron" -> Cron!Recorded(file, c) [] kind = "key" -> Keys!Recorded(file, c) [] OTHER -> c
Found(s) ==
    CASE kind = "hosts" -> Hosts!Found(file, s) [] kind = "cron" -> Cron!Found(file, s)
      [] kind = "key" -> Keys!Found(file, s) [] kind = "ini" -> Ini!Found(file, s)
      [] kind = "limits" -> Limits!Found(file, s)
Imports ==
    CASE kind = "hosts" -> Hosts!Imports [] kind = "cron" -> Cron!Imports
      [] kind = "key" -> Keys!Imports [] kind = "ini" -> Ini!Imports [] kind = "limits" -> Limits!Imports
Imported(i) ==
    CASE kind = "hosts" -> Hosts!Imported(file, i) [] kind = "cron" -> Cron!Imported(file, i)
      [] kind = "key" -> Keys!Imported(file, i) [] kind = "ini" -> Ini!Imported(file, i)
      [] kind = "limits" -> Limits!Imported(file, i)
Removal(s) ==
    CASE kind = "hosts" -> Hosts!Removal(file, s) [] kind = "cron" -> Cron!Removal(file, s)
      [] kind = "key" -> Keys!Removal(file, s) [] kind = "ini" -> Ini!Removal(file, s)
      [] kind = "limits" -> Limits!Removal(file, s)

Init ==
    /\ LifecycleInit
    /\ kind \in {"hosts", "cron", "key", "ini", "limits"}
    /\ file \in Files(kind)

\* A bug: what is configured is not validated.
ConfigureAny == Configured(Options(kind)) /\ UNCHANGED <<kind, file>>
Configure == Configured({c \in Options(kind) : Valid(c)}) /\ UNCHANGED <<kind, file>>

\* What is no regular file cannot be read: the refresh fails.
Refresh == Idle /\ state # Null /\ file # K!Refused /\ Refreshed(Found(state)) /\ UNCHANGED <<kind, file>>
Import ==
    /\ Idle /\ state = Null /\ file # K!Refused
    /\ \E i \in Imports : Imported(i) # Null /\ Refreshed(Imported(i))
    /\ UNCHANGED <<kind, file>>

Stale == file = K!Refused \/ Found(state) # state
BeginCreate ==
    /\ state = Null /\ config # Null /\ Begin("create", "edit", config, FALSE)
    /\ UNCHANGED <<kind, file>>
BeginUpdate ==
    /\ state # Null /\ ~tainted /\ config # Null /\ Differs(config, state) /\ ~Replaces(config, state)
    /\ Begin("update", "edit", config, Stale)
    /\ UNCHANGED <<kind, file>>
BeginDelete ==
    /\ state # Null /\ (config # Null => tainted \/ Replaces(config, state))
    /\ Begin("delete", "remove", state, Stale)
    /\ UNCHANGED <<kind, file>>

Edit ==
    /\ pc = "edit" /\ Apply(plan, state).ok
    /\ file' = Apply(plan, state).file
    /\ Goto("verify") /\ UNCHANGED kind
Refuse == pc = "edit" /\ ~Apply(plan, state).ok /\ Failed(Null) /\ UNCHANGED <<kind, file>>

\* An INI value is read back; if it is not there, the change stays.
Verify ==
    /\ pc = "verify"
    /\ IF Verified(plan) THEN Succeeded(Recorded(plan)) ELSE Failed(Null)
    /\ UNCHANGED <<kind, file>>

Remove ==
    /\ pc = "remove" /\ file' = Removal(state).file
    /\ IF Removal(state).ok THEN Succeeded(Null) ELSE Failed(Null)
    /\ UNCHANGED kind

CallFails == pc \in {"edit", "remove"} /\ Faulted(Null) /\ UNCHANGED <<kind, file>>
Kill == Killed /\ UNCHANGED <<kind, file>>
OthersEdit ==
    /\ Intrusion /\ \E f \in Files(kind) \cup {Null, K!Refused} : file' = f /\ file' # file
    /\ UNCHANGED kind

Next ==
    \/ Configure \/ Refresh \/ Import \/ BeginCreate \/ BeginUpdate \/ BeginDelete
    \/ Edit \/ Refuse \/ Verify \/ Remove \/ CallFails \/ Kill \/ OthersEdit

Spec == Init /\ [][Next]_vars
-------------------------------------------------------------------------------
Rest(f, m) ==
    CASE kind = "hosts" -> Hosts!Rest(f, m) [] kind = "cron" -> Cron!Rest(f, m)
      [] kind = "key" -> Keys!Rest(f, m) [] kind = "ini" -> Ini!Rest(f, m)
      [] kind = "limits" -> Limits!Rest(f, m)
InEffect(c) ==
    CASE kind = "hosts" -> Hosts!InEffect(file, c) [] kind = "cron" -> Cron!InEffect(file, c)
      [] kind = "key" -> Keys!InEffect(file, c) [] kind = "ini" -> Ini!InEffect(file, c)
      [] kind = "limits" -> Limits!InEffect(file, c)

TypeOK ==
    /\ config = Null \/ (config \in Options(kind) /\ Valid(config))
    /\ pc \in {"idle", "edit", "verify", "remove"}
    /\ ~K!Absent(file) /\ file # K!Refused => file.mode \in {"ours", "drifted"}

\* After an apply that ended well, and as long as nothing else happens, a
\* refresh changes nothing and the next plan is empty.
Settled ==
    done /\ Idle /\ state # Null /\ config # Null =>
        Found(state) = state /\ ~Differs(config, state)

\* After such an apply the programs that read the file, each by its own
\* rules, see what is configured; and they do whenever a refresh finds nothing
\* new and the plan is empty, whatever failed and whatever others did.  (The
\* mode of authorized_keys is set but never read.)
Effective ==
    (/\ Idle /\ state # Null /\ config # Null
     /\ \/ done
        \/ kind # "key" /\ ~tainted /\ file # K!Refused /\ Found(state) = state /\ ~Differs(config, state)) =>
        IF kind = "ini" /\ K!Absent(file) THEN config.state = "absent" ELSE InEffect(config)

\* No operation changes, moves or removes the lines of others, a refused file
\* is left alone, and a create takes no job or limit over that is there.
Kept ==
    file' # file /\ foreign' = foreign =>
        LET m == {plan, state} \ {Null}
        IN  /\ file # K!Refused
            /\ Rest(file, m) = Rest(file', m)
            /\ op = "create" /\ kind \in {"cron", "limits"} => K!Absent(file) \/ Found(plan) = Null

\* A destroy that ended well leaves no entry behind; with an entry that was
\* asked to be absent there is nothing to remove.
Gone ==
    (op = "delete" /\ Idle' /\ state' = Null /\ foreign' = foreign /\ file # K!Refused
        /\ (kind = "ini" => state.state = "present")) =>
        \E s \in {state} : Found(s)' \in {Null, IF kind = "ini" THEN [s EXCEPT !.state = "absent"] ELSE Null}
==============================================================================
