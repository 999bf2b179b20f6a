-------------------------------- MODULE DropIns --------------------------------
(***************************************************************************)
(* The resources that own one file in a directory of drop-ins:             *)
(* sysutils_sudoers, _logrotate, _journald_config and _systemd_dropin.     *)
(* How a file is replaced is in ManagedFile; here a write is one step, and *)
(* the steps that follow it (reload, restart, record) can each fail.       *)
(*                                                                         *)
(* A text is a record: id is its bytes, means what the program that reads  *)
(* it takes from it, good that the program accepts it, and parses that an  *)
(* import can express it in attributes.                                    *)
(***************************************************************************)
EXTENDS Lifecycle, TLAPS

CONSTANTS Options, Texts

VARIABLES kind,          \* "sudoers", "logrotate", "journald" or "systemd"
          root,          \* "host", or "tree": root_dir is set
          tools,         \* where visudo or logrotate is installed
          file,          \* the drop-in: Null, Symlink, or its text and mode
          loaded,        \* the text that journald, or systemd, has read
          runs,          \* the text that the running unit was started with
          active,        \* whether that unit runs
          pending,       \* private state: a restart of journald is due
          changed, semantic, \* what the operation writes, as it decided
          err,           \* an error to report once the state is stored
          untold         \* no restart or reload was asked for since the file changed,
                         \* others changed it, or an apply failed

place == <<kind, root>>
daemon == <<loaded, runs, active>>
progress == <<changed, semantic, err>>
vars == <<lifecycle, place, tools, file, daemon, pending, progress, untold>>

Text(id, means, good, parses) == [id |-> id, means |-> means, good |-> good, parses |-> parses]
File(text, mode) == [text |-> text, mode |-> mode]
Symlink == File(Null, "symlink")
Regular(f) == f \notin {Null, Symlink}
Disk == IF Regular(file) THEN file.text ELSE Null

\* A drop-in of journald is not restarted for below root_dir; the two that a
\* tool can check have no attribute restart.
SudoersOptions == [text : Texts, validate : BOOLEAN, restart : {FALSE}]
LogrotateOptions == [text : {t \in Texts : t.parses}, validate : BOOLEAN, restart : {FALSE}]
JournaldOptions ==
    [text : {t \in Texts : t.parses}, validate : {TRUE}, restart : {r \in BOOLEAN : r => root = "host"}]
SystemdOptions == [text : Texts, validate : {TRUE}, restart : BOOLEAN]
Valid(c) ==
    CASE kind = "sudoers" -> c \in SudoersOptions
      [] kind = "logrotate" -> c \in LogrotateOptions
      [] kind = "journald" -> c \in JournaldOptions
      [] kind = "systemd" -> c \in SystemdOptions

StateOf(c, text, mode) ==
    [text |-> text, mode |-> mode, validate |-> c.validate, restart |-> c.restart]

\* Read: the mode and the owner of a drop-in of systemd are not attributes.
Found(m) ==
    IF file = Null THEN Null
    ELSE StateOf(m, file.text, IF kind = "systemd" THEN "ours" ELSE file.mode)

Differs(c, s) == s # StateOf(c, c.text, "ours")
\* A pending restart plans an update too.
Planned == Differs(config, state) \/ (pending /\ config.restart)

\* The programs of the tree are never run, and visudo must be there on the
\* host.
SudoersCheck ==
    IF root = "host" THEN IF "host" \in tools THEN "run" ELSE "missing"
    ELSE IF tools = {"host", "tree"} THEN "run" ELSE "skip"
LogrotateCheck == IF root = "host" /\ "host" \in tools THEN "run" ELSE "skip"
Check(c) ==
    IF ~c.validate THEN "skip"
    ELSE CASE kind = "sudoers" -> SudoersCheck
           [] kind = "logrotate" -> LogrotateCheck
           [] OTHER -> "skip"
Accepted(c) == Check(c) = "skip" \/ (Check(c) = "run" /\ c.text.good)

Init ==
    /\ LifecycleInit
    /\ kind \in {"sudoers", "logrotate", "journald", "systemd"}
    /\ root \in IF kind = "systemd" THEN {"host"} ELSE {"host", "tree"}
    /\ tools \in IF kind \in {"sudoers", "logrotate"} THEN SUBSET {"host", "tree"} ELSE {{}}
    /\ file \in {Null, File(CHOOSE t \in Texts : t.parses, "drifted")}
    /\ loaded = Disk /\ runs = Disk /\ active = (kind \in {"journald", "systemd"})
    /\ pending = FALSE /\ changed = FALSE /\ semantic = FALSE /\ err = FALSE /\ untold = FALSE

Configure ==
    /\ Configured({c \in Options : Valid(c)})
    /\ UNCHANGED <<place, tools, file, daemon, pending, progress, untold>>

\* A missing file removes the resource from the state, and its private state.
Refresh ==
    /\ Idle /\ state # Null /\ file # Symlink /\ Refreshed(Found(state))
    /\ pending' = (pending /\ file # Null)
    /\ UNCHANGED <<place, tools, file, daemon, progress, untold>>

\* Sudoers are imported as content, logrotate and journald as attributes if
\* the file can be parsed.
Imported(m) == Regular(file) /\ Refreshed(Found(m))
ImportSudoers == kind = "sudoers" /\ Imported([validate |-> TRUE, restart |-> FALSE])
ImportLogrotate ==
    /\ kind = "logrotate" /\ Imported([validate |-> TRUE, restart |-> FALSE])
    /\ file.text.parses
ImportJournald ==
    /\ kind = "journald" /\ Imported([validate |-> TRUE, restart |-> FALSE])
    /\ file.text.parses
ImportSystemd == kind = "systemd" /\ Imported([validate |-> TRUE, restart |-> TRUE])
Import ==
    /\ Idle /\ state = Null
    /\ ImportSudoers \/ ImportLogrotate \/ ImportJournald \/ ImportSystemd
    /\ pending' = FALSE /\ untold' = TRUE
    /\ UNCHANGED <<place, tools, file, daemon, progress>>

Starts(o, late) ==
    /\ Begin(o, IF kind = "systemd" THEN "look" ELSE "write", config, late)
    /\ changed' = TRUE /\ semantic' = TRUE /\ err' = FALSE
    /\ UNCHANGED <<place, tools, file, daemon, pending, untold>>
BeginCreate == state = Null /\ config # Null /\ Starts("create", FALSE)
BeginUpdate == state # Null /\ ~tainted /\ config # Null /\ Planned /\ Starts("update", state # Found(state))

\* systemd: whether the file and its meaning change is read before the lock
\* is taken.
Look ==
    /\ pc = "look"
    /\ IF file = Symlink THEN Failed(Null) /\ UNCHANGED progress
       ELSE /\ changed' = (op = "create" \/ Disk # plan.text)
            /\ semantic' = (op = "create" \/ Disk = Null \/ Disk.means # plan.text.means)
            /\ Goto(IF changed' THEN "write" ELSE "save")
            /\ UNCHANGED err
    /\ UNCHANGED <<place, tools, file, daemon, pending, untold>>

\* dropInSpec.write: under the lock, a create refuses any file, the tool
\* checks the new one, and mode and owner become those of a drop-in.
Refused == file = Symlink \/ (op = "create" /\ file # Null)
Replaced == File(plan.text, "ours")
WriteUnchecked ==
    /\ pc = "write" /\ ~Refused
    /\ file' = Replaced
    /\ Goto(IF kind = "systemd" THEN "reload" ELSE "save")
    /\ UNCHANGED <<place, tools, daemon, pending, progress, untold>>
Write ==
    /\ pc = "write" /\ ~Refused /\ Accepted(plan)
    /\ file' = Replaced
    /\ Goto(IF kind = "systemd" THEN "reload" ELSE "save")
    /\ UNCHANGED <<place, tools, daemon, pending, progress, untold>>
Refuse ==
    /\ pc = "write" /\ (Refused \/ ~Accepted(plan)) /\ Failed(Null)
    /\ UNCHANGED <<place, tools, file, daemon, pending, progress, untold>>

\* systemd: daemon-reload, and whether the unit still loads.
Reload ==
    /\ pc = "reload" /\ loaded' = Disk
    /\ LET bad == Disk # Null /\ ~Disk.good
       IN  err' = bad /\ Goto(IF bad \/ ~plan.restart \/ ~semantic THEN "save" ELSE "tryrestart")
    /\ UNCHANGED <<place, tools, file, runs, active, pending, changed, semantic, untold>>
TryRestart ==
    /\ pc = "tryrestart" /\ Goto("save")
    /\ runs' = (IF active THEN loaded ELSE runs) /\ untold' = (untold /\ raced)
    /\ UNCHANGED <<place, tools, file, loaded, active, pending, progress>>

\* The end of an operation: systemd reads the file again, whatever went wrong
\* before; journald is restarted once the state is stored.
Quiet == untold \/ (changed /\ err) \/ ~plan.restart
EndSystemd ==
    /\ pc = "save" /\ kind = "systemd" /\ untold' = Quiet
    /\ IF op = "delete" THEN IF err THEN Failed(Null) ELSE Succeeded(Null)
       ELSE IF file \in {Null, Symlink} THEN Failed(Null)
       ELSE IF err \/ Disk # plan.text THEN Failed(Found(plan)) ELSE Succeeded(Found(plan))
    /\ UNCHANGED <<place, tools, file, daemon, pending, progress>>

Recorded == StateOf(plan, plan.text, "ours")
RestartDue ==
    /\ kind = "journald" /\ plan.restart
    /\ op = "update" => plan.text # state.text \/ pending
EndWritten ==
    /\ pc = "save" /\ kind # "systemd" /\ op # "delete" /\ ~RestartDue
    /\ Succeeded(Recorded) /\ pending' = FALSE
    /\ untold' = (untold \/ ~plan.restart)
    /\ UNCHANGED <<place, tools, file, daemon, progress>>
RestartJournald ==
    /\ pc = "save" /\ op # "delete" /\ RestartDue
    /\ Succeeded(Recorded) /\ pending' = FALSE /\ untold' = FALSE
    /\ loaded' = Disk /\ runs' = Disk
    /\ UNCHANGED <<place, tools, file, active, progress>>
\* A restart that fails taints what was created, and stays due otherwise.
RestartForgotten ==
    /\ pc = "save" /\ op # "delete" /\ RestartDue /\ faults < MaxFaults /\ faults' = faults + 1
    /\ state' = Recorded /\ tainted' = (op = "create") /\ pending' = FALSE
    /\ pc' = "idle" /\ op' = "none" /\ plan' = Null /\ done' = FALSE
    /\ UNCHANGED <<config, raced, lost, configs, foreign>>
    /\ UNCHANGED <<place, tools, file, daemon, progress, untold>>
RestartFails ==
    /\ pc = "save" /\ op # "delete" /\ RestartDue /\ faults < MaxFaults /\ faults' = faults + 1
    /\ state' = Recorded /\ tainted' = (op = "create") /\ pending' = (op = "update")
    /\ pc' = "idle" /\ op' = "none" /\ plan' = Null /\ done' = FALSE
    /\ UNCHANGED <<config, raced, lost, configs, foreign>>
    /\ UNCHANGED <<place, tools, file, daemon, progress, untold>>

BeginDelete ==
    /\ state # Null /\ (config = Null \/ tainted)
    /\ Begin("delete", "remove", state, state # Found(state))
    /\ changed' = FALSE /\ semantic' = TRUE /\ err' = FALSE
    /\ UNCHANGED <<place, tools, file, daemon, pending, untold>>

\* removeDropInFile leaves what is no regular file and reports it; journald
\* is restarted even if the file was gone, systemd reloaded only if it was not.
RemoveOnce ==
    /\ pc = "remove" /\ file # Symlink /\ file' = Null /\ changed' = (file # Null)
    /\ IF file = Null THEN Succeeded(Null)
       ELSE IF kind = "systemd" THEN Goto("reload")
       ELSE IF kind = "journald" /\ plan.restart THEN Goto("restart")
       ELSE Succeeded(Null)
    /\ UNCHANGED <<place, tools, daemon, pending, semantic, err, untold>>
Remove ==
    /\ pc = "remove"
    /\ IF file = Symlink THEN Failed(Null) /\ UNCHANGED <<file, changed>>
       ELSE /\ file' = Null /\ changed' = (file # Null)
            /\ IF kind = "systemd" /\ file # Null THEN Goto("reload")
               ELSE IF kind = "journald" /\ plan.restart THEN Goto("restart")
               ELSE Succeeded(Null)
    /\ UNCHANGED <<place, tools, daemon, pending, semantic, err, untold>>
RemoveRestart ==
    /\ pc = "restart" /\ Succeeded(Null) /\ loaded' = Disk /\ runs' = Disk
    /\ UNCHANGED <<place, tools, file, active, pending, progress, untold>>

\* systemctl fails; what reads the file again afterwards still stores it.
CommandFails ==
    /\ pc \in {"reload", "tryrestart"} /\ faults < MaxFaults /\ faults' = faults + 1
    /\ pc' = "save" /\ err' = TRUE
    /\ UNCHANGED <<resource, op, plan, done, raced, lost, configs, foreign>>
    /\ UNCHANGED <<place, tools, file, daemon, pending, changed, semantic, untold>>
CallFails ==
    /\ pc \in {"look", "write", "remove", "restart"} /\ Faulted(Null)
    /\ UNCHANGED <<place, tools, file, daemon, pending, progress, untold>>
Kill ==
    /\ Killed /\ untold' = TRUE
    /\ UNCHANGED <<place, tools, file, daemon, pending, progress>>

\* Others edit, replace or remove the file, change its mode, reload systemd,
\* start or stop the unit, and install or remove the tools.
OthersAct ==
    /\ Intrusion
    /\ \/ /\ \E t \in Texts : file' = File(t, "drifted") /\ file' # file
          /\ untold' = TRUE /\ UNCHANGED <<tools, daemon>>
       \/ file # Symlink /\ file' = Symlink /\ untold' = TRUE /\ UNCHANGED <<tools, daemon>>
       \/ file # Null /\ file' = Null /\ untold' = TRUE /\ UNCHANGED <<tools, daemon>>
       \/ kind = "systemd" /\ loaded # Disk /\ loaded' = Disk
          /\ UNCHANGED <<file, tools, runs, active, untold>>
       \/ /\ kind = "systemd" /\ active' = ~active /\ runs' = IF active THEN runs ELSE loaded
          /\ UNCHANGED <<file, tools, loaded, untold>>
       \/ /\ kind \in {"sudoers", "logrotate"} /\ tools' = (IF tools = {} THEN {"host"} ELSE {})
          /\ UNCHANGED <<file, daemon, untold>>
    /\ UNCHANGED <<place, pending, progress>>

Next ==
    \/ Configure \/ Refresh \/ Import \/ BeginCreate \/ BeginUpdate \/ Look \/ Write \/ Refuse
    \/ Reload \/ TryRestart \/ EndSystemd \/ EndWritten \/ RestartJournald \/ RestartFails
    \/ BeginDelete \/ Remove \/ RemoveRestart \/ CommandFails \/ CallFails \/ Kill \/ OthersAct

Spec == Init /\ [][Next]_vars
-------------------------------------------------------------------------------
TypeOK ==
    /\ config = Null \/ (config \in Options /\ Valid(config))
    /\ state # Null => state.text \in Texts /\ state.mode \in {"ours", "drifted"}
    /\ file \in {Null, Symlink} \cup [text : Texts, mode : {"ours", "drifted"}]
    /\ {loaded, runs} \subseteq Texts \cup {Null}
    /\ pending => kind = "journald"

\* After an apply that ended well, and as long as nothing else happens, the
\* next plan is empty.
Settled ==
    done /\ Idle /\ state # Null /\ config # Null =>
        Found(state) = state /\ ~Planned

\* journald, asked to restart, runs with the file whenever the plan is empty,
\* whatever failed before; systemd has loaded and restarted after an apply
\* that ended well.
Applied ==
    Idle /\ state # Null /\ config # Null /\ config.restart /\ ~tainted /\ ~untold
        /\ Found(state) = state /\ ~Planned =>
            /\ loaded = Disk
            /\ active /\ runs # Null => runs.means = Disk.means

\* A file that the tool rejects is not installed unless the check is turned
\* off, or there is no tool to run.
OnlyChecked ==
    (pc = "write" /\ file' # file /\ foreign' = foreign /\ plan.validate /\ kind = "sudoers"
        /\ (root = "host" \/ tools = {"host", "tree"}))
        => file'.text.good

\* A create that wrote the file leaves a state, unless the provider was
\* killed or the file was removed meanwhile.
CreateRecorded ==
    (op = "create" /\ pc # "write" /\ pc # "look" /\ Idle') => state' # Null \/ lost' \/ file \in {Null, Symlink}

\* A create never takes over a file that is there, and what is no regular
\* file is neither replaced nor removed.
FilesKept ==
    file' # file /\ foreign' = foreign =>
        /\ file # Symlink
        /\ op = "create" => file = Null

\* After a destroy that ended well journald does not run with the file, even
\* if an earlier attempt removed it and failed to restart.
DestroyRestores ==
    (op = "delete" /\ Idle' /\ state' = Null /\ kind = "journald" /\ state.restart) => runs' = Disk'
-------------------------------------------------------------------------------
(* Proofs, for any texts, configurations and numbers of changes and faults. *)

Modes == {"ours", "drifted"}
States == [text : Texts, mode : Modes, validate : BOOLEAN, restart : BOOLEAN]
DropInFiles == [text : Texts, mode : Modes]

TextsTyped ==
    /\ \E t \in Texts : t.parses
    /\ Null \notin Texts \cup States \cup DropInFiles \cup {Symlink}

\* The steps of an operation, of each kind of drop-in.
Steps ==
    [none |-> {"idle"},
     create |-> IF kind = "systemd" THEN {"look", "write", "reload", "tryrestart", "save"}
                ELSE {"write", "save"},
     update |-> IF kind = "systemd" THEN {"look", "write", "reload", "tryrestart", "save"}
                ELSE {"write", "save"},
     delete |-> IF kind = "systemd" THEN {"remove", "reload", "tryrestart", "save"}
                ELSE IF kind = "journald" THEN {"remove", "restart"} ELSE {"remove"}]

HostTypes ==
    /\ kind \in {"sudoers", "logrotate", "journald", "systemd"}
    /\ file \in {Null, Symlink} \cup DropInFiles
    /\ loaded \in Texts \cup {Null} /\ runs \in Texts \cup {Null}
    /\ active \in BOOLEAN /\ untold \in BOOLEAN /\ pending \in BOOLEAN
    /\ changed \in BOOLEAN /\ semantic \in BOOLEAN /\ err \in BOOLEAN

ApplyTypes ==
    /\ config # Null => config \in Options /\ Valid(config)
    /\ state \in States \cup {Null}
    /\ state # Null /\ kind = "journald" => state.validate
    /\ pending => kind = "journald"
    /\ tainted \in BOOLEAN /\ done \in BOOLEAN /\ raced \in BOOLEAN
    /\ op \in {"none", "create", "update", "delete"} /\ pc \in Steps[op]
    /\ op \in {"create", "update"} => plan = config /\ config # Null
    /\ op = "create" => state = Null
    /\ op = "update" => state # Null /\ ~tainted /\ Planned
    /\ op = "delete" => state # Null /\ plan = state
    /\ pc \in {"write", "reload", "tryrestart"} => changed

Types == HostTypes /\ ApplyTypes

\* What a configuration may be, of each kind.
LEMMA Configuration ==
    ASSUME NEW c, kind \in {"sudoers", "logrotate", "journald", "systemd"}, Valid(c)
    PROVE  /\ c = [text |-> c.text, validate |-> c.validate, restart |-> c.restart]
           /\ c.text \in Texts /\ c.validate \in BOOLEAN /\ c.restart \in BOOLEAN
           /\ kind \in {"sudoers", "logrotate"} => ~c.restart
           /\ kind \in {"journald", "systemd"} => c.validate
<1>1. CASE kind = "sudoers"
  BY <1>1 DEF Valid, SudoersOptions
<1>2. CASE kind = "logrotate"
  BY <1>2 DEF Valid, LogrotateOptions
<1>3. CASE kind = "journald"
  BY <1>3 DEF Valid, JournaldOptions
<1>4. CASE kind = "systemd"
  BY <1>4 DEF Valid, SystemdOptions
<1> QED
  BY <1>1, <1>2, <1>3, <1>4

LEMMA TypesInit == ASSUME TextsTyped, Init PROVE Types
<1> DEFINE t == CHOOSE x \in Texts : x.parses
<1>1. t \in Texts
  BY DEF TextsTyped
<1>2. file \in {Null, File(t, "drifted")}
  BY DEF Init
<1> HIDE DEF t
<1>3. file \in {Null} \cup DropInFiles
  BY <1>1, <1>2 DEF File, DropInFiles, Modes
<1>4. Disk \in Texts \cup {Null}
  BY <1>3, TextsTyped DEF Disk, Regular, DropInFiles
<1>5. loaded = Disk /\ runs = Disk /\ active \in BOOLEAN
  BY DEF Init
<1>6. HostTypes
  BY <1>3, <1>4, <1>5 DEF Init, HostTypes
<1> QED
  BY <1>6 DEF Init, LifecycleInit, Types, ApplyTypes, Steps

LEMMA FoundTyped ==
    ASSUME TextsTyped, HostTypes, file # Symlink, NEW m, m.validate \in BOOLEAN, m.restart \in BOOLEAN
    PROVE  /\ Found(m) \in States \cup {Null} /\ (Found(m) = Null <=> file = Null)
           /\ Found(m) # Null => Found(m).validate = m.validate /\ Found(m).restart = m.restart
<1>1. file # Null => file.text \in Texts /\ file.mode \in Modes
  BY DEF HostTypes, DropInFiles
<1>2. file # Null => Found(m) \in States
  BY <1>1 DEF Found, StateOf, States, Modes
<1>3. Found(m) # Null => file # Null
  BY DEF Found
<1> QED
  BY <1>2, <1>3 DEF Found, StateOf, TextsTyped
\* The file, the units and the flags keep their types.
LEMMA HostTypesStep == ASSUME TextsTyped, Types, Next PROVE HostTypes'
<1> USE DEF HostTypes, daemon, place, progress
<1>1. HostTypes /\ Disk \in Texts \cup {Null}
  BY DEF Types, Disk, Regular, DropInFiles
<1>2. plan # Null /\ op \in {"create", "update"} => File(plan.text, "ours") \in DropInFiles
  <2>1. op \in {"create", "update"} => Valid(plan)
    BY DEF Types, ApplyTypes
  <2> QED
    BY <1>1, <2>1, Configuration DEF File, DropInFiles, Modes
<1>3. pc = "write" => op \in {"create", "update"} /\ plan # Null
  BY DEF Types, ApplyTypes, Steps
<1>4. raced \in BOOLEAN /\ (plan.restart \in BOOLEAN \/ pc = "idle")
  <2>1. op \in {"create", "update"} => Valid(plan)
    BY DEF Types, ApplyTypes
  <2>2. op = "delete" => plan \in States
    BY DEF Types, ApplyTypes
  <2>3. op = "none" => pc = "idle"
    BY DEF Types, ApplyTypes, Steps
  <2> QED
    BY <1>1, <2>1, <2>2, <2>3, Configuration DEF States, Types, ApplyTypes
<1>5. CASE Configure
  BY <1>1, <1>5 DEF Configure
<1>6. CASE Refresh
  BY <1>1, <1>6 DEF Refresh
<1>7. CASE Import
  BY <1>1, <1>7 DEF Import
<1>8. CASE BeginCreate \/ BeginUpdate
  BY <1>1, <1>8 DEF BeginCreate, BeginUpdate, Starts
<1>9. CASE Look
  BY <1>1, <1>9 DEF Look
<1>10. CASE Write
  BY <1>1, <1>2, <1>3, <1>10 DEF Write, Replaced
<1>11. CASE Refuse
  BY <1>1, <1>11 DEF Refuse
<1>12. CASE Reload
  BY <1>1, <1>12 DEF Reload
<1>13. CASE TryRestart
  BY <1>1, <1>4, <1>13 DEF TryRestart
<1>14. CASE EndSystemd
  BY <1>1, <1>4, <1>14 DEF EndSystemd, Quiet
<1>15. CASE EndWritten
  BY <1>1, <1>4, <1>15 DEF EndWritten
<1>16. CASE RestartJournald
  BY <1>1, <1>16 DEF RestartJournald
<1>17. CASE RestartFails
  BY <1>1, <1>17 DEF RestartFails
<1>18. CASE BeginDelete
  BY <1>1, <1>18 DEF BeginDelete
<1>19. CASE Remove
  BY <1>1, <1>19 DEF Remove
<1>20. CASE RemoveRestart
  BY <1>1, <1>20 DEF RemoveRestart
<1>21. CASE CommandFails
  BY <1>1, <1>21 DEF CommandFails
<1>22. CASE CallFails
  BY <1>1, <1>22 DEF CallFails
<1>23. CASE Kill
  BY <1>1, <1>23 DEF Kill
<1>24. CASE OthersAct
  <2>1. /\ file' \in {Null, Symlink, file} \/ \E t \in Texts : file' = File(t, "drifted")
        /\ loaded' = loaded \/ loaded' = Disk
        /\ runs' = runs \/ runs' = loaded
        /\ active' = active \/ active' = ~active
        /\ untold' = untold \/ untold' = TRUE
        /\ UNCHANGED <<kind, pending, progress>>
    BY <1>24 DEF OthersAct
  <2>2. file' \in {Null, Symlink} \cup DropInFiles
    BY <1>1, <2>1 DEF File, DropInFiles, Modes
  <2>3. active' \in BOOLEAN /\ untold' \in BOOLEAN
    BY <1>1, <2>1
  <2> HIDE DEF HostTypes
  <2>4. /\ Symlink' = Symlink /\ kind' = kind /\ loaded' \in Texts \cup {Null} /\ runs' \in Texts \cup {Null}
        /\ pending' = pending /\ changed' = changed /\ semantic' = semantic /\ err' = err
    BY <1>1, <2>1 DEF Symlink, File, HostTypes
  <2> QED
    BY <1>1, <2>2, <2>3, <2>4 DEF HostTypes
<1> QED
  BY <1>5, <1>6, <1>7, <1>8, <1>9, <1>10, <1>11, <1>12, <1>13, <1>14, <1>15, <1>16, <1>17, <1>18,
     <1>19, <1>20, <1>21, <1>22, <1>23, <1>24 DEF Next

LEMMA Ended ==
    ASSUME ApplyTypes, UNCHANGED <<place, config>>, pc' = "idle", op' = "none",
           state' \in States \cup {Null}, state' # Null /\ kind = "journald" => state'.validate,
           pending' => kind = "journald",
           tainted' \in BOOLEAN, done' \in BOOLEAN, raced' \in BOOLEAN
    PROVE  ApplyTypes'
  BY DEF ApplyTypes, Steps, place, Valid, SudoersOptions, LogrotateOptions, JournaldOptions, SystemdOptions

LEMMA Moved ==
    ASSUME ApplyTypes, UNCHANGED <<place, config, state, tainted, pending, op, plan>>,
           pc' \in Steps[op], done' \in BOOLEAN, raced' \in BOOLEAN,
           pc' \in {"write", "reload", "tryrestart"} => changed'
    PROVE  ApplyTypes'
  BY DEF ApplyTypes, Steps, place, Valid, SudoersOptions, LogrotateOptions, JournaldOptions, SystemdOptions,
         Planned, Differs, StateOf

\* What an operation was asked for.
LEMMA Asked ==
    ASSUME TextsTyped, Types, op # "none"
    PROVE  /\ plan.text \in Texts /\ plan.validate \in BOOLEAN /\ plan.restart \in BOOLEAN
           /\ kind = "journald" => plan.validate
           /\ op # "delete" => Valid(plan) /\ StateOf(plan, plan.text, "ours") \in States
<1>1. CASE op = "delete"
  BY <1>1 DEF Types, ApplyTypes, States
<1>2. CASE op \in {"create", "update"}
  <2>1. Valid(plan) /\ kind \in {"sudoers", "logrotate", "journald", "systemd"}
    BY <1>2 DEF Types, ApplyTypes, HostTypes
  <2> QED
    BY <1>2, <2>1, Configuration DEF StateOf, States, Modes
<1> QED
  BY <1>1, <1>2 DEF Types, ApplyTypes

LEMMA ApplyTypesStep == ASSUME TextsTyped, Types, Next PROVE ApplyTypes'
<1>1. HostTypes /\ ApplyTypes
  BY DEF Types
<1>2. ASSUME op # "none", Failed(Null), UNCHANGED <<place, pending>> PROVE ApplyTypes'
  BY <1>1, <1>2, Ended DEF Failed, ApplyTypes
<1>3. ASSUME op # "none", Faulted(Null), UNCHANGED <<place, pending>> PROVE ApplyTypes'
  BY <1>1, <1>3, Ended DEF Faulted, ApplyTypes
<1>4. ASSUME Succeeded(Null), UNCHANGED <<place, pending>> PROVE ApplyTypes'
  BY <1>1, <1>4, Ended DEF Succeeded, ApplyTypes
<1>5. CASE Configure
  <2>1. state' = state /\ tainted' = tainted /\ raced' = raced /\ done' = FALSE /\ op' = op /\ pc' = pc /\ op = "none"
        /\ pc = "idle" /\ pending' = pending /\ kind' = kind /\ root' = root /\ changed' = changed
    BY <1>1, <1>5 DEF Configure, Configured, Idle, running, place, progress, ApplyTypes, Steps
  <2>2. config' # Null => config' \in Options /\ Valid(config')
    BY <1>5 DEF Configure, Configured
  <2>3. config' # Null => Valid(config)'
    BY <2>1, <2>2 DEF Valid, SudoersOptions, LogrotateOptions, JournaldOptions, SystemdOptions
  <2> QED
    BY <1>1, <2>1, <2>2, <2>3 DEF ApplyTypes, Steps
<1>6. CASE Refresh
  <2>1. state \in States /\ state.validate \in BOOLEAN /\ state.restart \in BOOLEAN /\ op = "none" /\ file # Symlink
    BY <1>1, <1>6 DEF ApplyTypes, Refresh, States, Idle, Steps
  <2>2. Found(state) \in States \cup {Null} /\ (Found(state) # Null => Found(state).validate = state.validate)
    BY <1>1, <2>1, FoundTyped
  <2> QED
    BY <1>1, <1>6, <2>1, <2>2, Ended DEF Refresh, Refreshed, ApplyTypes, running, Idle
<1>7. CASE Import
  <2>1. PICK m : /\ m.validate = TRUE /\ m.validate \in BOOLEAN /\ m.restart \in BOOLEAN /\ Refreshed(Found(m)) /\ file # Symlink
    BY <1>7 DEF Import, Imported, ImportSudoers, ImportLogrotate, ImportJournald, ImportSystemd, Regular
  <2>2. Found(m) \in States \cup {Null} /\ (Found(m) # Null => Found(m).validate = TRUE)
    BY <1>1, <2>1, FoundTyped
  <2>3. op = "none" /\ pc = "idle" /\ pending' = FALSE /\ place' = place
    BY <1>1, <1>7 DEF Import, Idle, ApplyTypes, Steps
  <2> QED
    BY <1>1, <2>1, <2>2, <2>3, Ended DEF Refreshed, ApplyTypes, running
<1>8. CASE BeginCreate \/ BeginUpdate
  <2>1. PICK o \in {"create", "update"} : Starts(o, IF o = "create" THEN FALSE ELSE state # Found(state))
        /\ (o = "create" => state = Null) /\ (o = "update" => state # Null /\ ~tainted /\ Planned) /\ config # Null
    BY <1>8 DEF BeginCreate, BeginUpdate
  <2>2. op' = o /\ plan' = config /\ UNCHANGED <<config, state, tainted, kind, root, pending>> /\ done' = FALSE
        /\ pc' = (IF kind = "systemd" THEN "look" ELSE "write")
        /\ raced' = (IF o = "create" THEN FALSE ELSE state # Found(state))
    BY <2>1 DEF Starts, Begin, resource, place
  <2>3. Planned' = Planned /\ (config # Null => Valid(config)')
    BY <1>1, <2>2 DEF Planned, Differs, StateOf, ApplyTypes, Valid, SudoersOptions, LogrotateOptions, JournaldOptions, SystemdOptions
  <2>4. raced' \in BOOLEAN
    BY <2>2
  <2>5. changed' = TRUE
    BY <2>1 DEF Starts
  <2>6. CASE o = "create"
    BY <1>1, <2>1, <2>2, <2>3, <2>4, <2>5, <2>6 DEF ApplyTypes, Steps
  <2>7. CASE o = "update"
    BY <1>1, <2>1, <2>2, <2>3, <2>4, <2>5, <2>7 DEF ApplyTypes, Steps
  <2> QED
    BY <2>1, <2>6, <2>7
<1>9. CASE Look
  <2>1. op # "none" /\ kind = "systemd"
    BY <1>1, <1>9 DEF Look, ApplyTypes, Steps
  <2>2. UNCHANGED <<place, pending>>
    BY <1>9 DEF Look
  <2>3. ASSUME file # Symlink PROVE ApplyTypes'
    <3>1. Goto(IF changed' THEN "write" ELSE "save")
      BY <1>9, <2>3 DEF Look
    <3> QED
      BY <1>1, <1>9, <2>1, <2>2, <3>1, Moved DEF Look, Goto, ApplyTypes, Steps, resource
  <2> QED
    BY <1>2, <1>9, <2>1, <2>2, <2>3 DEF Look
<1>10. CASE Write
  <2>1. op \in {"create", "update"} /\ changed'
    BY <1>1, <1>10 DEF Write, ApplyTypes, Steps, progress
  <2> QED
    BY <1>1, <1>10, <2>1, Moved DEF Write, Goto, ApplyTypes, Steps, resource
<1>11. CASE Refuse
  BY <1>1, <1>2, <1>11 DEF Refuse, ApplyTypes, Steps
<1>12. CASE Reload
  <2>1. op # "none" /\ kind = "systemd" /\ changed'
    BY <1>1, <1>12 DEF Reload, ApplyTypes, Steps
  <2>2. pc' \in {"save", "tryrestart"} /\ UNCHANGED <<resource, op, plan, done, raced, place, pending>>
    BY <1>12 DEF Reload, Goto
  <2> QED
    BY <1>1, <1>12, <2>1, <2>2, Moved DEF ApplyTypes, Steps, resource
<1>13. CASE TryRestart
  <2>1. op # "none" /\ kind = "systemd"
    BY <1>1, <1>13 DEF TryRestart, ApplyTypes, Steps
  <2>2. pc' = "save" /\ UNCHANGED <<resource, op, plan, done, raced, place, pending>>
    BY <1>13 DEF TryRestart, Goto
  <2> QED
    BY <1>1, <2>1, <2>2, Moved DEF ApplyTypes, Steps, resource
<1>14. CASE EndSystemd
  <2>1. op # "none" /\ kind = "systemd" /\ UNCHANGED <<place, pending>>
    BY <1>1, <1>14 DEF EndSystemd, ApplyTypes, Steps
  <2>2. CASE op = "delete"
    BY <1>14, <1>2, <1>4, <2>1, <2>2 DEF EndSystemd
  <2>3. CASE op # "delete"
    <3>1. /\ file # Symlink => Found(plan) \in States \cup {Null} /\ (file # Null => Found(plan) # Null)
      BY <1>1, <2>1, Asked, FoundTyped
    <3>2. CASE Failed(Null)
      BY <1>2, <2>1, <3>2
    <3>3. CASE file \notin {Null, Symlink} /\ (Failed(Found(plan)) \/ Succeeded(Found(plan)))
      <4>1. Found(plan) \in States
        BY <3>1, <3>3
      <4> HIDE DEF Found
      <4> QED
        BY <1>1, <2>1, <3>3, <4>1, Ended DEF Failed, Succeeded, ApplyTypes
    <3> QED
      BY <1>14, <2>3, <3>2, <3>3 DEF EndSystemd
  <2> QED
    BY <2>2, <2>3
<1>15. CASE EndWritten \/ RestartJournald \/ RestartFails
  <2>1. op \in {"create", "update"} /\ place' = place
    BY <1>1, <1>15 DEF EndWritten, RestartJournald, RestartFails, ApplyTypes, Steps
  <2>2. Recorded \in States /\ (kind = "journald" => Recorded.validate)
    BY <2>1, Asked DEF Recorded, StateOf
  <2>3. pending' => kind = "journald"
    BY <1>1, <1>15 DEF EndWritten, RestartJournald, RestartFails, RestartDue, ApplyTypes
  <2>4. /\ state' = Recorded /\ pc' = "idle" /\ op' = "none" /\ config' = config /\ raced' = raced
        /\ tainted' = FALSE \/ tainted' = (op = "create")
        /\ done' = FALSE \/ done' = ~raced
    BY <1>15 DEF EndWritten, RestartJournald, RestartFails, Succeeded
  <2>5. tainted' \in BOOLEAN /\ done' \in BOOLEAN
    BY <2>4
  <2> HIDE DEF Recorded
  <2> QED
    BY <1>1, <2>1, <2>2, <2>3, <2>4, <2>5, Ended DEF ApplyTypes
<1>16. CASE BeginDelete
  <2>1. op' = "delete" /\ plan' = state /\ state # Null /\ UNCHANGED <<config, state, tainted, kind, root, pending>>
        /\ pc' = "remove" /\ raced' = (state # Found(state)) /\ done' = FALSE
    BY <1>16 DEF BeginDelete, Begin, resource, place
  <2>2. (config # Null => Valid(config)') /\ raced' \in BOOLEAN
    BY <1>1, <2>1 DEF ApplyTypes, Valid, SudoersOptions, LogrotateOptions, JournaldOptions, SystemdOptions
  <2> QED
    BY <1>1, <2>1, <2>2 DEF ApplyTypes, Steps
<1>17. CASE Remove
  <2>1. op = "delete" /\ UNCHANGED <<place, pending>>
    BY <1>1, <1>17 DEF Remove, ApplyTypes, Steps
  <2>2. CASE Failed(Null) \/ Succeeded(Null)
    BY <1>2, <1>4, <2>1, <2>2
  <2>3. CASE kind = "systemd" /\ file # Null /\ changed' = (file # Null) /\ Goto("reload")
    BY <1>1, <2>1, <2>3, Moved DEF Goto, ApplyTypes, Steps, resource
  <2>4. CASE kind = "journald" /\ Goto("restart")
    BY <1>1, <2>1, <2>4, Moved DEF Goto, ApplyTypes, Steps, resource
  <2> QED
    BY <1>17, <2>2, <2>3, <2>4 DEF Remove
<1>18. CASE RemoveRestart
  BY <1>4, <1>18 DEF RemoveRestart
<1>19. CASE CommandFails
  <2>1. op # "none" /\ kind = "systemd"
    BY <1>1, <1>19 DEF CommandFails, ApplyTypes, Steps
  <2>2. pc' = "save" /\ UNCHANGED <<resource, op, plan, done, raced, place, pending>>
    BY <1>19 DEF CommandFails
  <2> QED
    BY <1>1, <2>1, <2>2, Moved DEF ApplyTypes, Steps, resource
<1>20. CASE CallFails
  BY <1>1, <1>3, <1>20 DEF CallFails, ApplyTypes, Steps
<1>21. CASE Kill
  BY <1>1, <1>21, Ended DEF Kill, Killed, resource, ApplyTypes
<1>22. CASE OthersAct
  <2>1. raced' = TRUE /\ done' = FALSE /\ pc' = pc /\ op' = op /\ plan' = plan
        /\ UNCHANGED <<place, config, state, tainted, pending, changed>>
    BY <1>22 DEF OthersAct, Intrusion, resource, running, progress
  <2> QED
    BY <1>1, <2>1, Moved DEF ApplyTypes
<1> QED
  BY <1>5, <1>6, <1>7, <1>8, <1>9, <1>10, <1>11, <1>12, <1>13, <1>14, <1>15, <1>16, <1>17, <1>18,
     <1>19, <1>20, <1>21, <1>22 DEF Next

\* Between the write and its end the file is as written, unless others
\* changed it since.
Wrote == pc = "save" /\ kind # "systemd" /\ (~raced \/ ~untold) => file = Replaced

\* journald has read what it was restarted for, unless the file is gone.
JournaldTold ==
    kind = "journald" /\ state # Null /\ ~tainted /\ ~pending /\ ~untold =>
        /\ state.restart /\ runs = loaded
        /\ loaded = state.text \/ state.mode = "ours"
        /\ pc # "save" => file = Null \/ loaded = Disk

\* The running unit was started with settings that mean the same as text d.
RunsWith(d) == active /\ runs # Null /\ d # Null => runs.means = d.means

\* systemd has loaded the file and restarted the unit, or will have when the
\* operation ends, or the operation reports an error.
SystemdTold ==
    kind = "systemd" =>
        /\ op = "delete" => semantic
        /\ ~untold /\ pc \in {"idle", "look", "remove", "write"} => loaded = Disk /\ RunsWith(Disk)
        /\ ~untold /\ pc = "write" /\ ~semantic => Disk # Null /\ Disk.means = plan.text.means
        /\ ~untold /\ pc = "reload" /\ ~semantic =>
              RunsWith(Disk) /\ Disk # Null /\ loaded # Null /\ loaded.means = Disk.means
        /\ (~raced \/ ~untold) /\ pc = "tryrestart" => loaded = Disk
        /\ ~untold /\ pc = "save" => (err /\ changed) \/ ~plan.restart \/ (loaded = Disk /\ RunsWith(Disk))

DropInInvariant == Types /\ Wrote /\ JournaldTold /\ SystemdTold /\ Settled

LEMMA FileOf ==
    ASSUME TextsTyped, NEW t \in Texts, NEW m \in Modes
    PROVE  Regular(File(t, m)) /\ File(t, m).text = t /\ File(t, m).mode = m /\ File(t, m) # Symlink
<1>1. File(t, m) # Null
  BY DEF TextsTyped, File, DropInFiles
<1>2. t # Null
  BY DEF TextsTyped
<1>3. File(t, m).text = t /\ File(t, m).mode = m /\ Symlink.text = Null
  BY DEF File, Symlink
<1> QED
  BY <1>1, <1>2, <1>3 DEF Regular

LEMMA InvariantInit == ASSUME TextsTyped, Init PROVE DropInInvariant
<1>1. Types
  BY TypesInit
<1>2. pc = "idle" /\ op = "none" /\ state = Null /\ done = FALSE /\ loaded = Disk /\ runs = Disk
  BY DEF Init, LifecycleInit
<1> QED
  BY <1>1, <1>2 DEF DropInInvariant, Wrote, JournaldTold, SystemdTold, Settled, RunsWith, Idle

\* The only steps on the way to "save" of what systemd does not read.
LEMMA WroteStep == ASSUME TextsTyped, Types, Wrote, Next PROVE Wrote'
<1>1. HostTypes /\ ApplyTypes
  BY DEF Types
<1> SUFFICES ASSUME pc' = "save", kind' # "systemd", ~raced' \/ ~untold' PROVE file' = Replaced'
  BY DEF Wrote
<1>2. CASE Write
  BY <1>2 DEF Write, Goto, Replaced
<1>3. CASE OthersAct
  <2>1. /\ pc' = pc /\ plan' = plan /\ kind' = kind /\ raced' = TRUE
        /\ file' = file \/ untold' = TRUE
        /\ untold' = untold \/ untold' = TRUE
    BY <1>3 DEF OthersAct, Intrusion, running, place
  <2> QED
    BY <1>1, <2>1 DEF Wrote, Replaced, HostTypes
<1>4. kind' = kind /\ kind # "systemd"
  BY DEF Next, Configure, Refresh, Import, BeginCreate, BeginUpdate, Starts, Look, Write, Refuse, Reload, TryRestart,
         EndSystemd, EndWritten, RestartJournald, RestartFails, BeginDelete, Remove, RemoveRestart,
         CommandFails, CallFails, Kill, OthersAct, place
<1>5. ~(Look \/ Reload \/ TryRestart \/ EndSystemd \/ CommandFails)
  BY <1>1, <1>4 DEF Look, Reload, TryRestart, EndSystemd, CommandFails, ApplyTypes, Steps
<1>6. ~(Configure \/ Refresh \/ Import)
  BY DEF Configure, Configured, Refresh, Import, Imported, ImportSudoers, ImportLogrotate, ImportJournald,
         ImportSystemd, Refreshed, running, Idle
<1>7. ~(BeginCreate \/ BeginUpdate \/ BeginDelete \/ Refuse \/ EndWritten \/ RestartJournald \/ RestartFails)
  BY <1>4 DEF BeginCreate, BeginUpdate, Starts, Begin, BeginDelete, Refuse, Failed, EndWritten, RestartJournald, RestartFails,
         Succeeded
<1>8. ~(Remove \/ RemoveRestart \/ CallFails \/ Kill)
  BY <1>4 DEF Remove, RemoveRestart, CallFails, Kill, Killed, Faulted, Failed, Succeeded, Goto
<1> QED
  BY <1>2, <1>3, <1>5, <1>6, <1>7, <1>8 DEF Next

\* A plan that leaves the text and asks for a restart again changes the mode.
LEMMA OnlyModeDiffers ==
    ASSUME TextsTyped, Types, kind = "journald", op = "update", ~pending,
           plan.text = state.text, plan.restart, state.restart
    PROVE  state.mode # "ours"
<1>1. state \in States /\ plan = config /\ Planned /\ state.validate /\ plan.validate /\ Valid(plan)
  BY Asked DEF Types, ApplyTypes
<1>2. state = [text |-> state.text, mode |-> state.mode, validate |-> TRUE, restart |-> TRUE]
  BY <1>1 DEF States
<1>3. plan.validate = TRUE /\ plan.restart = TRUE
  BY <1>1, Asked
<1> QED
  BY <1>1, <1>2, <1>3 DEF Planned, Differs, StateOf

LEMMA JournaldStep == ASSUME TextsTyped, DropInInvariant, Next, Types' PROVE JournaldTold'
<1>1. HostTypes /\ ApplyTypes /\ Wrote /\ JournaldTold /\ Types
  BY DEF Types, DropInInvariant
<1> SUFFICES ASSUME kind' = "journald", state' # Null, ~tainted', ~pending', ~untold'
             PROVE  /\ state'.restart /\ runs' = loaded'
                    /\ loaded' = state'.text \/ state'.mode = "ours"
                    /\ pc' # "save" => file' = Null \/ loaded' = Disk'
  BY DEF JournaldTold
<1>2. kind' = kind /\ kind = "journald"
  BY DEF Next, Configure, Refresh, Import, BeginCreate, BeginUpdate, Starts, Look, Write, Refuse, Reload, TryRestart,
         EndSystemd, EndWritten, RestartJournald, RestartFails, BeginDelete, Remove, RemoveRestart,
         CommandFails, CallFails, Kill, OthersAct, place
<1>3. ~(Look \/ Reload \/ TryRestart \/ EndSystemd \/ CommandFails \/ Import \/ Kill)
  BY <1>1, <1>2 DEF Look, Reload, TryRestart, EndSystemd, CommandFails, Import, Kill, ApplyTypes, Steps
\* Steps that leave the file and the daemon alone.
<1>4. ASSUME UNCHANGED <<state, tainted, pending, untold, file, daemon>>, pc # "save" PROVE JournaldTold'
  BY <1>1, <1>2, <1>4 DEF JournaldTold, daemon, Disk
<1>5. CASE Configure
  <2>1. JournaldTold'
    BY <1>4, <1>5 DEF Configure, Configured, Idle, running
  <2> QED
    BY <1>2, <2>1 DEF JournaldTold
<1>6. CASE Refresh
  <2>1. /\ state # Null /\ file # Symlink /\ state' = Found(state) /\ tainted' = (tainted /\ state' # Null)
        /\ pending' = (pending /\ file # Null) /\ pc = "idle" /\ pc' = pc /\ UNCHANGED <<file, daemon, untold>>
    BY <1>6 DEF Refresh, Refreshed, running, Idle
  <2>2. state \in States /\ file # Null /\ state'.restart = state.restart
    <3>1. state \in States /\ state.validate \in BOOLEAN /\ state.restart \in BOOLEAN
      BY <1>1, <2>1 DEF ApplyTypes, States
    <3> QED
      BY <1>1, <2>1, <3>1, FoundTyped
  <2>3. ~tainted /\ ~pending /\ ~untold
    BY <1>1, <2>1, <2>2 DEF HostTypes, ApplyTypes
  <2>4. file \in DropInFiles /\ Regular(file) /\ state'.text = file.text
    BY <1>1, <2>1, <2>2 DEF HostTypes, Regular, Found, StateOf
  <2> QED
    BY <1>1, <1>2, <2>1, <2>2, <2>3, <2>4 DEF JournaldTold, Disk, daemon
<1>7. CASE BeginCreate \/ BeginUpdate \/ BeginDelete
  <2>1. JournaldTold'
    BY <1>4, <1>7 DEF BeginCreate, BeginUpdate, BeginDelete, Starts, Begin, resource, Idle
  <2> QED
    BY <1>2, <2>1 DEF JournaldTold
<1>8. CASE Write
  <2>1. UNCHANGED <<state, tainted, pending, untold, daemon>> /\ pc' = "save"
    BY <1>2, <1>8 DEF Write, Goto, resource
  <2> QED
    BY <1>1, <1>2, <2>1 DEF JournaldTold, daemon
<1>9. CASE Refuse
  <2>1. UNCHANGED <<state, pending, untold, file, daemon>> /\ pc = "write" /\ tainted' = (tainted \/ (op = "create" /\ Null # Null))
    BY <1>9 DEF Refuse, Failed
  <2>2. tainted' = tainted
    BY <1>1, <2>1 DEF ApplyTypes
  <2> QED
    BY <1>2, <1>4, <2>1, <2>2 DEF JournaldTold
<1>10. CASE EndWritten
  <2>1. op \in {"create", "update"} /\ pc = "save" /\ plan.restart \in BOOLEAN /\ plan.text \in Texts /\ ~RestartDue
    BY <1>1, <1>10, Asked DEF EndWritten, ApplyTypes, Steps
  <2>2. state' = Recorded /\ UNCHANGED <<file, daemon>> /\ ~untold /\ plan.restart
    BY <1>1, <1>10, <2>1 DEF EndWritten, Succeeded, HostTypes
  <2>3. op = "update" /\ ~pending /\ plan.text = state.text /\ state # Null /\ ~tainted
    BY <1>1, <1>2, <2>1, <2>2 DEF RestartDue, ApplyTypes, HostTypes
  <2>4. state.restart /\ runs = loaded /\ (loaded = state.text \/ state.mode = "ours")
    BY <1>1, <1>2, <2>2, <2>3 DEF JournaldTold
  <2>5. loaded = plan.text
    BY <1>1, <1>2, <2>2, <2>3, <2>4, OnlyModeDiffers
  <2>6. file = Replaced /\ Disk = plan.text
    BY <1>1, <1>2, <2>1, <2>2, FileOf DEF Wrote, Replaced, Disk, Modes
  <2> QED
    BY <2>2, <2>4, <2>5, <2>6 DEF Recorded, StateOf, Disk, daemon
<1>11. CASE RestartJournald
  BY <1>11 DEF RestartJournald, RestartDue, Succeeded, Recorded, StateOf, Disk
<1>12. CASE RestartFails
  <2>1. op \in {"create", "update"}
    BY <1>1, <1>12 DEF RestartFails, ApplyTypes, Steps
  <2> QED
    BY <1>12, <2>1 DEF RestartFails
<1>13. CASE Remove
  <2>1. state' = state /\ pending' = pending /\ untold' = untold /\ daemon' = daemon /\ pc = "remove" /\ pc' # "save"
    BY <1>2, <1>13 DEF Remove, Failed, Succeeded, Goto, resource
  <2>2. tainted' = tainted
    <3>1. CASE Failed(Null)
      BY <1>1, <3>1 DEF Failed, ApplyTypes
    <3>2. CASE Goto("restart")
      BY <3>2 DEF Goto, resource
    <3> QED
      BY <1>2, <1>13, <3>1, <3>2 DEF Remove, Succeeded
  <2>3. file' = Null \/ file' = file
    BY <1>13 DEF Remove
  <2> QED
    BY <1>1, <1>2, <2>1, <2>2, <2>3 DEF JournaldTold, Disk, daemon
<1>14. CASE RemoveRestart
  BY <1>14 DEF RemoveRestart, Succeeded
<1>15. CASE CallFails
  <2>1. UNCHANGED <<state, pending, untold, file, daemon>> /\ pc # "save" /\ tainted' = (tainted \/ (op = "create" /\ Null # Null))
    BY <1>15 DEF CallFails, Faulted
  <2>2. tainted' = tainted
    BY <1>1, <2>1 DEF ApplyTypes
  <2> QED
    BY <1>2, <1>4, <2>1, <2>2 DEF JournaldTold
<1>16. CASE OthersAct
  <2>1. /\ UNCHANGED <<state, tainted, pending, pc, file, loaded, runs>> /\ ~untold
    BY <1>1, <1>2, <1>16 DEF OthersAct, Intrusion, resource, running, HostTypes, daemon
  <2> QED
    BY <1>1, <1>2, <2>1 DEF JournaldTold, Disk
<1> QED
  BY <1>2, <1>3, <1>5, <1>6, <1>7, <1>8, <1>9, <1>10, <1>11, <1>12, <1>13, <1>14, <1>15, <1>16 DEF Next, JournaldTold

LEMMA SystemdStep == ASSUME TextsTyped, DropInInvariant, Next, Types' PROVE SystemdTold'
<1>1. HostTypes /\ ApplyTypes /\ Types /\ SystemdTold
  BY DEF Types, DropInInvariant
<1> SUFFICES ASSUME kind' = "systemd" PROVE SystemdTold'
  BY DEF SystemdTold
<1>2. kind' = kind /\ kind = "systemd"
  BY DEF Next, Configure, Refresh, Import, BeginCreate, BeginUpdate, Starts, Look, Write, Refuse, Reload, TryRestart,
         EndSystemd, EndWritten, RestartJournald, RestartFails, BeginDelete, Remove, RemoveRestart,
         CommandFails, CallFails, Kill, OthersAct, place
<1>3. ~(EndWritten \/ RestartJournald \/ RestartFails \/ RemoveRestart)
  BY <1>1, <1>2 DEF EndWritten, RestartJournald, RestartFails, RestartDue, RemoveRestart, ApplyTypes, Steps
\* Nothing that systemd has or reads changes.
<1>4. ASSUME UNCHANGED <<file, daemon>>, untold' = untold,
             pc \in {"idle", "look", "remove", "write"}, pc' \in {"idle", "look", "remove"},
             op' = "delete" => semantic'
      PROVE  SystemdTold'
  BY <1>1, <1>2, <1>4 DEF SystemdTold, RunsWith, Disk, daemon, HostTypes
<1>5. CASE Configure \/ Refresh
  BY <1>1, <1>4, <1>5 DEF Configure, Configured, Refresh, Refreshed, Idle, running, ApplyTypes, Steps
<1>6. CASE Import
  BY <1>1, <1>2, <1>6 DEF Import, Imported, ImportSudoers, ImportLogrotate, ImportJournald, ImportSystemd, Refreshed,
     Idle, running, ApplyTypes, Steps, SystemdTold
<1>7. CASE BeginCreate \/ BeginUpdate \/ BeginDelete
  BY <1>2, <1>4, <1>7 DEF BeginCreate, BeginUpdate, BeginDelete, Starts, Begin, Idle
<1>8. CASE Look
  <2>1. op \in {"create", "update"} /\ op' # "delete"
    BY <1>1, <1>2, <1>8 DEF Look, Failed, Goto, ApplyTypes, Steps
  <2>2. CASE file = Symlink
    BY <1>4, <1>8, <2>1, <2>2 DEF Look, Failed
  <2>3. CASE file # Symlink
    <3>1. /\ changed' = (op = "create" \/ Disk # plan.text) /\ semantic' = (op = "create" \/ Disk = Null \/ Disk.means # plan.text.means)
          /\ pc' = (IF changed' THEN "write" ELSE "save") /\ plan' = plan /\ op' = op
          /\ UNCHANGED <<file, loaded, runs, active, untold>> /\ pc = "look"
      BY <1>8, <2>3 DEF Look, Goto, daemon
    <3> QED
      BY <1>1, <1>2, <2>1, <3>1 DEF SystemdTold, RunsWith, Disk
  <2> QED
    BY <2>2, <2>3
<1>9. CASE Write
  <2>1. op \in {"create", "update"} /\ plan.text \in Texts
    BY <1>1, <1>9, Asked DEF Write, ApplyTypes, Steps
  <2>2. file' = File(plan.text, "ours") /\ pc' = "reload" /\ UNCHANGED <<op, plan, loaded, runs, active, untold, semantic>> /\ pc = "write"
    BY <1>2, <1>9 DEF Write, Goto, Replaced, daemon, progress
  <2>3. Disk' = plan.text
    BY <2>1, <2>2, FileOf DEF Disk, Modes
  <2>4. Disk # Null => Disk \in Texts
    BY <1>1 DEF Disk, HostTypes, Regular, DropInFiles
  <2>5. plan.text # Null
    BY <2>1 DEF TextsTyped
  <2> QED
    BY <1>1, <1>2, <2>1, <2>2, <2>3, <2>4, <2>5 DEF SystemdTold, RunsWith, HostTypes
<1>10. CASE Refuse
  BY <1>4, <1>10 DEF Refuse, Failed
<1>11. CASE Reload
  <2>1. /\ pc = "reload" /\ loaded' = Disk /\ UNCHANGED <<file, runs, active, semantic, changed, untold, op, plan, raced>>
        /\ err' = (Disk # Null /\ ~Disk.good)
        /\ pc' = (IF err' \/ ~plan.restart \/ ~semantic THEN "save" ELSE "tryrestart")
    BY <1>11 DEF Reload, Goto
  <2>2. changed
    BY <1>1, <2>1 DEF ApplyTypes
  <2>3. Disk' = Disk
    BY <2>1 DEF Disk
  <2> QED
    BY <1>1, <1>2, <2>1, <2>2, <2>3 DEF SystemdTold, RunsWith
<1>12. CASE TryRestart
  <2>1. /\ pc = "tryrestart" /\ pc' = "save" /\ runs' = (IF active THEN loaded ELSE runs) /\ untold' = (untold /\ raced)
        /\ UNCHANGED <<file, loaded, active, semantic, changed, err, op, plan, raced>>
    BY <1>12 DEF TryRestart, Goto, progress
  <2>2. Disk' = Disk
    BY <2>1 DEF Disk
  <2> QED
    BY <1>1, <1>2, <2>1, <2>2 DEF SystemdTold, RunsWith, HostTypes, ApplyTypes
<1>13. CASE EndSystemd
  <2>1. /\ untold' = Quiet /\ pc = "save" /\ pc' = "idle" /\ op' = "none" /\ UNCHANGED <<file, loaded, runs, active>>
    BY <1>13 DEF EndSystemd, Failed, Succeeded, daemon
  <2>2. Disk' = Disk /\ (~untold' => loaded = Disk /\ RunsWith(Disk))
    BY <1>1, <1>2, <2>1 DEF SystemdTold, Quiet, Disk
  <2> QED
    BY <2>1, <2>2 DEF SystemdTold, RunsWith
<1>14. CASE Remove
  <2>0. pc = "remove" /\ op = "delete" /\ semantic' = semantic /\ semantic /\ UNCHANGED <<loaded, runs, active, untold>>
    BY <1>1, <1>2, <1>14 DEF Remove, ApplyTypes, Steps, SystemdTold, daemon
  <2>1. CASE file' = file /\ pc' = "idle"
    BY <1>4, <2>0, <2>1 DEF daemon
  <2>2. CASE file' = Null /\ pc' = "reload"
    BY <1>1, <1>2, <2>0, <2>2 DEF SystemdTold
  <2> QED
    BY <1>2, <1>14, <2>1, <2>2 DEF Remove, Failed, Succeeded, Goto
<1>15. CASE CommandFails
  <2>1. /\ pc \in {"reload", "tryrestart"} /\ pc' = "save" /\ err' = TRUE
        /\ UNCHANGED <<file, loaded, runs, active, semantic, changed, untold, op, plan>>
    BY <1>15 DEF CommandFails, daemon
  <2>2. changed
    BY <1>1, <2>1 DEF ApplyTypes
  <2> QED
    BY <1>1, <1>2, <2>1, <2>2 DEF SystemdTold
<1>16. CASE CallFails
  <2>1. pc # "restart"
    BY <1>1, <1>2 DEF ApplyTypes, Steps
  <2> QED
    BY <1>4, <1>16, <2>1 DEF CallFails, Faulted
<1>17. CASE Kill
  BY <1>17 DEF Kill, Killed, SystemdTold
<1>18. CASE OthersAct
  <2>1. UNCHANGED <<pc, op, plan, changed, semantic, err>> /\ raced' = TRUE
    BY <1>18 DEF OthersAct, Intrusion, running, progress
  <2>2. \/ untold' = TRUE
        \/ UNCHANGED <<file, runs, active, untold>> /\ loaded' = Disk
        \/ UNCHANGED <<file, loaded, untold>> /\ active' = ~active /\ runs' = (IF active THEN runs ELSE loaded)
    BY <1>2, <1>18 DEF OthersAct
  <2>3. CASE untold' = TRUE
    BY <1>1, <1>2, <2>1, <2>3 DEF SystemdTold
  <2>4. CASE UNCHANGED <<file, runs, active, untold>> /\ loaded' = Disk
    <3>1. Disk' = Disk
      BY <2>4 DEF Disk
    <3> QED
      BY <1>1, <1>2, <2>1, <2>4, <3>1 DEF SystemdTold, RunsWith
  <2>5. CASE UNCHANGED <<file, loaded, untold>> /\ active' = ~active /\ runs' = (IF active THEN runs ELSE loaded)
    <3>1. Disk' = Disk
      BY <2>5 DEF Disk
    <3> QED
      BY <1>1, <1>2, <2>1, <2>5, <3>1 DEF SystemdTold, RunsWith
  <2> QED
    BY <2>2, <2>3, <2>4, <2>5
<1> QED
  BY <1>3, <1>5, <1>6, <1>7, <1>8, <1>9, <1>10, <1>11, <1>12, <1>13, <1>14, <1>15, <1>16, <1>17, <1>18 DEF Next

LEMMA SettledStep == ASSUME TextsTyped, DropInInvariant, Next, Types' PROVE Settled'
<1>1. HostTypes /\ ApplyTypes /\ Types /\ Wrote /\ Settled
  BY DEF Types, DropInInvariant
<1> SUFFICES ASSUME done', pc' = "idle", state' # Null, config' # Null
             PROVE  Found(state)' = state' /\ ~Planned'
  BY DEF Settled, Idle
<1>2. kind' = kind
  BY DEF Next, Configure, Refresh, Import, BeginCreate, BeginUpdate, Starts, Look, Write, Refuse, Reload, TryRestart,
         EndSystemd, EndWritten, RestartJournald, RestartFails, BeginDelete, Remove, RemoveRestart,
         CommandFails, CallFails, Kill, OthersAct, place
<1>3. ~(Configure \/ Import \/ BeginCreate \/ BeginUpdate \/ BeginDelete \/ Look \/ Write \/ Refuse)
  <2>1. ~(Configure \/ Import \/ BeginCreate \/ BeginUpdate \/ BeginDelete)
    BY DEF Configure, Configured, Import, Imported, ImportSudoers, ImportLogrotate, ImportJournald, ImportSystemd,
           Refreshed, BeginCreate, BeginUpdate, BeginDelete, Starts, Begin
  <2> QED
    BY <2>1 DEF Look, Write, Refuse, Failed, Goto
<1>4. ~(Reload \/ TryRestart \/ RestartFails \/ RemoveRestart \/ CommandFails \/ CallFails \/ Kill \/ OthersAct)
  BY DEF Reload, TryRestart, RestartFails, RemoveRestart, CommandFails, CallFails, Faulted, Kill, Killed, OthersAct,
         Intrusion, Succeeded, Goto
<1>5. ~Remove
  BY DEF Remove, Failed, Succeeded, Goto
<1>6. CASE Refresh
  <2>1. /\ state # Null /\ file # Symlink /\ state' = Found(state) /\ pending' = (pending /\ file # Null)
        /\ pc = "idle" /\ done /\ UNCHANGED <<file, config>>
    BY <1>6 DEF Refresh, Refreshed, Idle
  <2>2. Found(state) = state /\ ~Planned
    BY <1>1, <2>1 DEF Settled, Idle
  <2>3. state' = state /\ file # Null
    BY <1>1, <2>1, <2>2 DEF Found
  <2> QED
    BY <1>1, <1>2, <2>1, <2>2, <2>3 DEF Found, Planned, Differs, StateOf, HostTypes
<1>7. CASE EndSystemd
  <2>1. op # "delete" /\ Disk = plan.text /\ file \notin {Null, Symlink} /\ ~err
        /\ state' = Found(plan) /\ UNCHANGED <<file, config, pending>> /\ kind = "systemd"
    BY <1>7 DEF EndSystemd, Failed, Succeeded
  <2>2. plan = config /\ ~pending
    BY <1>1, <1>7, <2>1 DEF EndSystemd, ApplyTypes, Steps
  <2>3. file.text = plan.text
    BY <2>1 DEF Disk, Regular
  <2> QED
    BY <1>2, <2>1, <2>2, <2>3 DEF Found, Planned, Differs, StateOf
<1>8. CASE EndWritten \/ RestartJournald
  <2>1. pc = "save" /\ op \in {"create", "update"} /\ kind # "systemd"
    BY <1>1, <1>8 DEF EndWritten, RestartJournald, RestartDue, ApplyTypes, Steps
  <2>2. ~raced /\ state' = Recorded /\ UNCHANGED <<file, config>> /\ pending' = FALSE
    BY <1>8 DEF EndWritten, RestartJournald, Succeeded
  <2>3. plan = config /\ plan.text \in Texts
    BY <1>1, <2>1, Asked DEF ApplyTypes
  <2>4. file = File(plan.text, "ours")
    BY <1>1, <2>1, <2>2 DEF Wrote, Replaced
  <2>5. file # Null /\ file.text = plan.text /\ file.mode = "ours"
    BY <2>3, <2>4, FileOf DEF Modes, Regular
  <2> QED
    BY <1>2, <2>1, <2>2, <2>3, <2>5 DEF Recorded, Found, Planned, Differs, StateOf
<1> QED
  BY <1>3, <1>4, <1>5, <1>6, <1>7, <1>8 DEF Next

LEMMA InvariantStep == ASSUME TextsTyped, DropInInvariant, [Next]_vars PROVE DropInInvariant'
<1>1. CASE Next
  <2>1. Types'
    BY <1>1, HostTypesStep, ApplyTypesStep DEF DropInInvariant, Types
  <2> QED
    BY <1>1, <2>1, WroteStep, JournaldStep, SystemdStep, SettledStep DEF DropInInvariant
<1>2. CASE UNCHANGED vars
  <2>1. UNCHANGED <<kind, root, tools, file, loaded, runs, active, pending, changed, semantic, err, untold,
                    config, state, tainted, pc, op, plan, done, raced>>
    BY <1>2 DEF vars, lifecycle, resource, running, place, daemon, progress
  <2>2. Disk' = Disk /\ Found(state)' = Found(state) /\ Planned' = Planned
    BY <2>1 DEF Disk, Found, Planned, Differs, StateOf
  <2>3. HostTypes' /\ ApplyTypes'
    BY <2>1, <2>2, Moved DEF DropInInvariant, Types, HostTypes, ApplyTypes, place
  <2> QED
    BY <2>1, <2>2, <2>3 DEF DropInInvariant, Types, Wrote, Replaced, JournaldTold, SystemdTold, RunsWith, Settled, Idle
<1> QED
  BY <1>1, <1>2

\* What the invariant says of the empty plan.
LEMMA InvariantImplies == ASSUME TextsTyped, DropInInvariant PROVE TypeOK /\ Settled /\ Applied
<1>1. HostTypes /\ ApplyTypes /\ JournaldTold /\ SystemdTold /\ Settled
  BY DEF DropInInvariant, Types
<1>2. TypeOK
  BY <1>1 DEF TypeOK, HostTypes, ApplyTypes, DropInFiles, States, Modes
<1>3. ASSUME Idle, state # Null, config # Null, config.restart, ~tainted, ~untold, Found(state) = state, ~Planned
      PROVE  loaded = Disk /\ (active /\ runs # Null => runs.means = Disk.means)
  <2>1. state = StateOf(config, config.text, "ours") /\ ~pending /\ config.text \in Texts
        /\ kind \in {"journald", "systemd"}
    BY <1>1, <1>3, Configuration DEF Planned, Differs, HostTypes, ApplyTypes
  <2>2. file # Null /\ state.text = file.text
    BY <1>3 DEF Found, StateOf
  <2>3. Disk = config.text /\ Disk # Null
    <3>1. file.text = config.text
      BY <2>1, <2>2 DEF StateOf
    <3>2. file.text # Null
      BY <2>1, <3>1 DEF TextsTyped
    <3>3. Regular(file)
      BY <2>2, <3>2 DEF Regular, Symlink, File
    <3> QED
      BY <3>1, <3>2, <3>3 DEF Disk
  <2> QED
    BY <1>1, <1>3, <2>1, <2>2, <2>3 DEF JournaldTold, SystemdTold, RunsWith, Idle
<1> QED
  BY <1>1, <1>2, <1>3 DEF Applied

(* In every reachable state: the types, the empty plan after an apply that  *)
(* ended well, and what journald and systemd run with when it is empty.     *)
THEOREM DropInsHold == ASSUME TextsTyped PROVE Spec => [](TypeOK /\ Settled /\ Applied)
  BY TextsTyped, InvariantInit, InvariantStep, InvariantImplies, PTL DEF Spec

Counted == foreign \in Nat

LEMMA CountedStep == ASSUME Counted, [Next]_vars PROVE Counted'
  BY DEF Counted, Next, Configure, Configured, Refresh, Refreshed, Import, Imported, ImportSudoers, ImportLogrotate,
     ImportJournald, ImportSystemd, BeginCreate, BeginUpdate, Starts, Begin, Look, Write, Refuse, Reload, TryRestart,
     EndSystemd, EndWritten, RestartJournald, RestartFails, BeginDelete, Remove, RemoveRestart, CommandFails,
     CallFails, Faulted, Kill, Killed, OthersAct, Intrusion, Succeeded, Failed, Goto, bounds, vars, lifecycle

LEMMA StepsKeep ==
    ASSUME TextsTyped, DropInInvariant, Counted, [Next]_vars
    PROVE  OnlyChecked /\ FilesKept /\ CreateRecorded /\ DestroyRestores
<1>1. HostTypes /\ ApplyTypes /\ Types
  BY DEF DropInInvariant, Types
<1>2. CASE UNCHANGED vars
  <2>1. file' = file /\ pc' = pc /\ op' = op /\ state' = state
    BY <1>2 DEF vars, lifecycle, resource, running
  <2>2. pc' = "idle" => op = "none"
    BY <1>1, <2>1 DEF ApplyTypes, Steps
  <2> QED
    BY <2>1, <2>2 DEF OnlyChecked, FilesKept, CreateRecorded, DestroyRestores, Idle
<1>3. CASE Next
  <2>0. file' # file /\ foreign' = foreign => Write \/ Remove
    <3>1. OthersAct => foreign' # foreign
      BY DEF OthersAct, Intrusion, Counted
    <3>2. file' = file \/ Write \/ Remove \/ OthersAct
      BY <1>3 DEF Next, Configure, Refresh, Import, BeginCreate, BeginUpdate, Starts, Look, Refuse,
         Reload, TryRestart, EndSystemd, EndWritten, RestartJournald, RestartFails, BeginDelete, RemoveRestart,
         CommandFails, CallFails, Kill
    <3> QED
      BY <3>1, <3>2
  <2>1. OnlyChecked
    <3> SUFFICES ASSUME pc = "write", file' # file, foreign' = foreign, plan.validate, kind = "sudoers",
                        root = "host" \/ tools = {"host", "tree"}
                 PROVE  file'.text.good
      BY DEF OnlyChecked
    <3>1. Write
      BY <2>0 DEF Remove
    <3>2. plan.text.good /\ file' = File(plan.text, "ours")
      BY <3>1 DEF Write, Accepted, Check, SudoersCheck, Replaced
    <3> QED
      BY <3>2 DEF File
  <2>2. FilesKept
    <3> SUFFICES ASSUME file' # file, foreign' = foreign PROVE file # Symlink /\ (op = "create" => file = Null)
      BY DEF FilesKept
    <3>1. CASE Write
      BY <3>1 DEF Write, Refused
    <3>2. CASE Remove
      BY <1>1, <3>2 DEF Remove, ApplyTypes, Steps
    <3> QED
      BY <2>0, <3>1, <3>2
  <2>3. CreateRecorded
    <3> SUFFICES ASSUME op = "create", pc # "write", pc # "look", pc' = "idle", state' = Null
                 PROVE  lost' \/ file \in {Null, Symlink}
      BY DEF CreateRecorded, Idle
    <3>1. pc \in {"reload", "tryrestart", "save"} /\ plan.text \in Texts
      BY <1>1, Asked DEF ApplyTypes, Steps
    <3>2. EndSystemd \/ EndWritten \/ RestartJournald \/ RestartFails \/ Kill
      BY <1>3, <3>1 DEF Next, Configure, Configured, Refresh, Import, BeginCreate, BeginUpdate, Starts, Begin, Idle, Look, Write,
         Refuse, Reload, TryRestart, BeginDelete, Remove, RemoveRestart, CommandFails, CallFails, OthersAct, Intrusion,
         Goto, running
    <3>3. ~(EndWritten \/ RestartJournald \/ RestartFails)
      <4>1. Recorded \in States
        BY <1>1, Asked DEF Recorded
      <4> QED
        BY <4>1 DEF EndWritten, RestartJournald, RestartFails, Succeeded, TextsTyped
    <3>4. CASE EndSystemd
      <4>1. file \notin {Null, Symlink} => Found(plan) # Null
        BY <1>1, <3>1, Asked, FoundTyped
      <4> QED
        BY <3>4, <4>1 DEF EndSystemd, Failed, Succeeded
    <3>5. CASE Kill
      BY <3>5 DEF Kill, Killed
    <3> QED
      BY <3>2, <3>3, <3>4, <3>5
  <2>4. DestroyRestores
    <3> SUFFICES ASSUME op = "delete", pc' = "idle", state' = Null, kind = "journald", state.restart
                 PROVE  runs' = Disk'
      BY DEF DestroyRestores, Idle
    <3>1. pc \in {"remove", "restart"} /\ state # Null /\ plan = state
      BY <1>1 DEF ApplyTypes, Steps
    <3>2. RemoveRestart
      <4>1. Remove \/ RemoveRestart \/ CallFails \/ Kill
        BY <1>3, <3>1 DEF Next, Configure, Configured, Refresh, Import, BeginCreate, BeginUpdate, Starts, Begin, Idle, Look, Write,
           Refuse, Reload, TryRestart, EndSystemd, EndWritten, RestartJournald, RestartFails, RestartDue, BeginDelete,
           CommandFails, OthersAct, Intrusion, running
      <4> QED
        BY <3>1, <4>1 DEF Remove, Failed, Goto, CallFails, Faulted, Kill, Killed, resource
    <3> QED
      BY <3>2 DEF RemoveRestart, Disk
  <2> QED
    BY <2>1, <2>2, <2>3, <2>4
<1> QED
  BY <1>2, <1>3

(* Every step of a drop-in: only what the tool accepted is installed, other *)
(* files are left alone, what was created is recorded, and what was         *)
(* destroyed no longer runs.                                                *)
THEOREM DropInStepsHold ==
    ASSUME TextsTyped
    PROVE  Spec => [][OnlyChecked /\ FilesKept /\ CreateRecorded /\ DestroyRestores]_vars
<1>1. Init => Counted
  BY DEF Counted, Init, LifecycleInit
<1>2. Counted /\ [Next]_vars => Counted'
  BY CountedStep
<1>3. DropInInvariant /\ Counted /\ [Next]_vars =>
        OnlyChecked /\ FilesKept /\ CreateRecorded /\ DestroyRestores
  BY TextsTyped, StepsKeep
<1> QED
  BY TextsTyped, InvariantInit, InvariantStep, <1>1, <1>2, <1>3, PTL DEF Spec
================================================================================
