--------------------------------- MODULE Units ---------------------------------
(***************************************************************************)
(* sysutils_systemd_unit (systemd_unit_resource.go): writes a unit file,   *)
(* reloads systemd, enables and starts the unit, restarts it when the file *)
(* changed, and undoes all of it on destroy.  Every systemctl call is a    *)
(* step of its own: others use systemctl and edit the file in between, a   *)
(* call may fail, or systemd becomes unreachable for the rest of the       *)
(* operation (down).                                                       *)
(***************************************************************************)
EXTENDS Lifecycle

CONSTANTS Options,       \* the configurations
          Files          \* the unit files that others write

VARIABLES shape,         \* "plain", "template" or "mount"
          unit,          \* the unit on the host
          preexisting,   \* private state: it was active before the file was
          changed, semantic, \* what writing the file changed
          enabled,       \* the enablement that converge read
          err,           \* converge has an error to report
          wrote,         \* the operation wrote the file
          untold,        \* systemd or the running unit may not have the file on disk:
                         \* others wrote it or started what was loaded before, or an
                         \* apply failed or was not to restart
          before,        \* whether the unit was active when the file was made
          down           \* systemctl fails for the rest of the operation

private == <<shape, preexisting>>
progress == <<changed, semantic, enabled, err, wrote, untold, before, down>>
vars == <<lifecycle, private, unit, progress>>

-------------------------------------------------------------------------------
(***************************************************************************)
(* systemd as the resources see it through systemctl (systemd.go): one     *)
(* unit, its files on disk, what the manager has loaded and what it runs.  *)
(* For a template the running unit is its one instance.                    *)
(*                                                                         *)
(* A unit file is a record: id is its text, means what systemd reads from  *)
(* it, install says that it has an [Install] section, and starts what      *)
(* becomes of the unit when it is started; "unloadable" is a bad setting.  *)
(***************************************************************************)
UnitFile(id, means, install, starts) ==
    [id |-> id, means |-> means, install |-> install, starts |-> starts]

Path(from, as) == [from |-> from, as |-> as]

\* The file that the manager loads: /etc hides /usr/lib.
Fragment(u) ==
    IF u.file # Null THEN Path("etc", u.file)
    ELSE IF u.vendor # Null THEN Path("vendor", u.vendor)
    ELSE IF u.kernel THEN Path("kernel", Null) ELSE Null

Result(u, ok) == [unit |-> u, ok |-> ok]
Done(u) == Result(u, TRUE)

DaemonReload(u) == Done([u EXCEPT !.loaded = Fragment(u)])

Installable(u) == Fragment(u) # Null /\ Fragment(u).as # Null /\ Fragment(u).as.install

\* enable of a unit without [Install] succeeds and does nothing; enable,
\* disable and reenable need a unit file and reload the manager.
Enable(u) ==
    IF Fragment(u) = Null THEN Result(u, FALSE)
    ELSE DaemonReload([u EXCEPT !.link = IF Installable(u) THEN "enabled" ELSE @])
Disable(u) ==
    IF Fragment(u) = Null THEN Result(u, FALSE) ELSE DaemonReload([u EXCEPT !.link = "disabled"])
Reenable(u) ==
    IF Fragment(u) = Null THEN Result(u, FALSE)
    ELSE DaemonReload([u EXCEPT !.link = IF Installable(u) THEN "enabled" ELSE "disabled"])

Startable(u) == u.loaded # Null /\ (u.loaded.as # Null => u.loaded.as.starts # "unloadable")
Start(u) ==
    IF ~Startable(u) THEN Result(u, FALSE)
    ELSE IF u.loaded.as = Null THEN Done([u EXCEPT !.active = "active"])
    ELSE Result([u EXCEPT !.active = u.loaded.as.starts, !.runs = u.loaded.as.means],
                u.loaded.as.starts # "failed")
Stop(u) == Done([u EXCEPT !.active = "inactive"])
TryRestart(u) == IF u.active = "active" THEN Start(u) ELSE Done(u)

-------------------------------------------------------------------------------
\* The client in systemd.go.

\* isEnabled: what "systemctl is-enabled" prints.  Existing symlinks win, even
\* if [Install] was removed since.
IsEnabled(u) ==
    IF Fragment(u) = Null THEN "not-found"
    ELSE IF u.link # "disabled" \/ Installable(u) THEN u.link ELSE "static"
\* isActive
IsActive(u) == u.active
\* show: a unit that the manager does not have is loaded for the query.
Show(u) == IF u.loaded # Null THEN u.loaded ELSE Fragment(u)

UnitFileEnabled(word) == word = "enabled"
UnitRunState(word) == IF word \in {"active", "reloading", "refreshing"} THEN "running" ELSE "stopped"
-------------------------------------------------------------------------------
\* The resource.

Configurations ==
    [file : Files \cup {c.file : c \in Options}, enabled : BOOLEAN \cup {Null},
     state : {"running", "stopped", Null}, restart : BOOLEAN]
\* What is no regular file is neither read, written nor removed.
Symlink == UnitFile("symlink", 0, FALSE, "unloadable")
Template == shape = "template"

\* A template cannot be started itself.
Valid(c) == Template => c.state = Null

StateOf(file, atBoot, run, restart) ==
    [file |-> file, enabled |-> atBoot, state |-> run, restart |-> restart]

\* refresh: the resource is gone if the file is; otherwise what is found.
Found(m) ==
    IF unit.file = Null THEN Null
    ELSE StateOf(unit.file, UnitFileEnabled(IsEnabled(unit)),
                 IF Template THEN Null ELSE UnitRunState(IsActive(unit)), m.restart)

\* The plan is not empty: enabled and state count only where they are set.
Differs(c, s) ==
    \/ c.file # s.file \/ c.restart # s.restart
    \/ c.enabled # Null /\ c.enabled # s.enabled
    \/ c.state # Null /\ c.state # s.state

Absent ==
    [file |-> Null, vendor |-> Null, kernel |-> FALSE, loaded |-> Null, link |-> "disabled",
     active |-> "inactive", runs |-> Null]
Mounted(a) ==
    [file |-> Null, vendor |-> Null, kernel |-> TRUE, loaded |-> Path("kernel", Null), link |-> "disabled",
     active |-> a, runs |-> Null]

Init ==
    /\ LifecycleInit
    /\ shape \in {"plain", "template", "mount"}
    /\ unit \in IF shape = "mount" THEN {Absent, Mounted("active")} ELSE {Absent}
    /\ preexisting = FALSE /\ changed = FALSE /\ semantic = FALSE
    /\ enabled = FALSE /\ err = FALSE /\ wrote = FALSE /\ untold = FALSE /\ before = Null /\ down = FALSE

Configure == Configured({c \in Options : Valid(c)}) /\ UNCHANGED <<private, unit, progress>>

Refresh ==
    /\ Idle /\ state # Null /\ unit.file # Symlink /\ Refreshed(Found(state))
    /\ UNCHANGED <<private, unit, progress>>

Import ==
    /\ Idle /\ state = Null /\ unit.file \notin {Null, Symlink}
    /\ Refreshed(Found(StateOf(Null, Null, Null, TRUE)))
    /\ preexisting' = FALSE /\ before' = Null
    /\ UNCHANGED <<shape, unit, changed, semantic, enabled, err, wrote, untold, down>>

Fresh ==
    /\ changed' = FALSE /\ semantic' = FALSE /\ enabled' = FALSE /\ err' = FALSE /\ wrote' = FALSE /\ down' = FALSE

\* checkUnitAbsent: no file and no unit of that name.  A mount, device, swap
\* or slice unit that the kernel has without a file may get one.
Known ==
    IF Template THEN IsEnabled(unit) # "not-found"
    ELSE Show(unit) # Null /\ Show(unit).from = "vendor"

BeginCreate ==
    /\ state = Null /\ config # Null /\ unit.file = Null /\ ~Known
    /\ Begin("create", "write", config, FALSE)
    /\ preexisting' = (Show(unit) # Null /\ Show(unit).from = "kernel" /\ unit.active # "inactive")
    /\ Fresh
    /\ UNCHANGED <<shape, unit, untold, before>>

BeginUpdate ==
    /\ state # Null /\ ~tainted /\ config # Null /\ Differs(config, state)
    /\ Begin("update", "write", config, state # Found(state))
    /\ Fresh
    /\ UNCHANGED <<private, unit, untold, before>>

\* Create writes the file unless one appeared since; writeUnitFile compares.
WriteFile ==
    /\ pc = "write"
    /\ IF (op = "create" /\ unit.file # Null) \/ unit.file = Symlink
         THEN Failed(Null) /\ UNCHANGED <<unit, progress>>
         ELSE /\ unit' = [unit EXCEPT !.file = plan.file]
              /\ changed' = (unit.file # plan.file)
              /\ semantic' = (unit.file = Null \/ unit.file.means # plan.file.means)
              /\ wrote' = changed'
              /\ before' = IF op = "create" THEN unit.active ELSE before
              /\ untold' = (untold /\ ~semantic')
              /\ Goto("reload")
              /\ UNCHANGED <<enabled, err, down>>
    /\ UNCHANGED private

\* After a systemctl call: to the next step, or to the end if it failed.
Continue(next, ok) ==
    /\ err' = ~ok /\ Goto(IF ok THEN next ELSE "save")
    /\ enabled' = IF pc = "reenable" THEN UnitFileEnabled(IsEnabled(unit)) ELSE enabled
    /\ UNCHANGED <<changed, semantic, wrote, untold, before, down>>
Call(next, r) == unit' = r.unit /\ Continue(next, r.ok) /\ UNCHANGED private
Skip(next) == unit' = unit /\ Continue(next, TRUE) /\ UNCHANGED private

\* daemon-reload, and checkLoaded.
Loaded(u) == u.loaded # Null /\ (u.loaded.as # Null => u.loaded.as.starts # "unloadable")
ReloadIfSemantic ==
    /\ pc = "reload"
    /\ IF semantic
         THEN LET r == DaemonReload(unit) IN Call("reenable", Result(r.unit, Loaded(r.unit)))
         ELSE Skip("reenable")
Reload ==
    /\ pc = "reload"
    /\ IF changed
         THEN LET r == DaemonReload(unit) IN Call("reenable", Result(r.unit, Loaded(r.unit)))
         ELSE Skip("reenable")

\* The enablement is read once; [Install] may have changed along with the file.
Reenabled ==
    /\ pc = "reenable"
    /\ IF semantic /\ op # "create" /\ UnitFileEnabled(IsEnabled(unit)) /\ plan.enabled \in {Null, TRUE}
         THEN Call("restart", Reenable(unit)) ELSE Skip("restart")

\* restartRunning: the unit, or the instance that runs from the template.
Restart ==
    /\ pc = "restart"
    /\ IF /\ semantic /\ op # "create" /\ plan.restart /\ plan.state # "stopped"
          /\ UnitRunState(IsActive(unit)) = "running"
          /\ Template => unit.loaded # Null /\ unit.loaded.from = "etc"
         THEN Call("enable", TryRestart(unit)) ELSE Skip("enable")

\* setUnitEnabled verifies what the command did: without [Install], nothing.
SetUnitEnabled ==
    /\ pc = "enable"
    /\ IF plan.enabled # Null /\ plan.enabled # enabled
         THEN LET r == IF plan.enabled THEN Enable(unit) ELSE Disable(unit)
              IN  Call("run", Result(r.unit, r.ok /\ plan.enabled = UnitFileEnabled(IsEnabled(r.unit))))
         ELSE Skip("run")

\* setUnitRunState verifies too: the unit may have exited at once.
SetUnitRunState ==
    /\ pc = "run"
    /\ IF plan.state # Null /\ plan.state # UnitRunState(IsActive(unit))
         THEN LET r == IF plan.state = "running" THEN Start(unit) ELSE Stop(unit)
              IN  Call("save", Result(r.unit, r.ok /\ plan.state = UnitRunState(IsActive(r.unit))))
         ELSE Skip("save")

\* A create does not restart what ran before its file was written.
Untold ==
    \/ untold
    \/ wrote /\ (err \/ ~plan.restart \/ (op = "create" /\ before = "active"))

\* saveRefreshed stores what is there, whatever went wrong before; Terraform
\* reports a result that is not what was planned as an error.
SaveOnSuccess ==
    /\ pc = "save" /\ untold' = Untold
    /\ LET s == Found(StateOf(plan.file, plan.enabled, plan.state, plan.restart))
       IN  IF s = Null \/ err \/ Differs(plan, s) THEN Failed(Null) ELSE Succeeded(s)
    /\ UNCHANGED <<private, unit, changed, semantic, enabled, err, wrote, before, down>>
Save ==
    /\ pc = "save" /\ untold' = Untold
    /\ LET s == Found(StateOf(plan.file, plan.enabled, plan.state, plan.restart))
       IN  IF s = Null \/ unit.file = Symlink THEN Failed(Null)
           ELSE IF err \/ Differs(plan, s) THEN Failed(s) ELSE Succeeded(s)
    /\ UNCHANGED <<private, unit, changed, semantic, enabled, err, wrote, before, down>>

\* Delete leaves a unit running that systemd no longer defines by our file,
\* and one that was active before the file was.
Ours == unit.loaded # Null /\ unit.loaded.from = "etc"
StopsPreexisting == IF Template THEN Ours ELSE unit.file # Null \/ Ours
Stops == (IF Template THEN Ours ELSE unit.file # Null \/ Ours) /\ ~preexisting

BeginDelete ==
    /\ Idle /\ state # Null /\ (config = Null \/ tainted)
    /\ Begin("delete", IF unit.file = Symlink THEN "left" ELSE IF Stops THEN "stop" ELSE IF unit.file # Null THEN "disable" ELSE "unloaded",
             state, FALSE)
    /\ changed' = Ours /\ semantic' = FALSE /\ enabled' = FALSE /\ err' = FALSE /\ wrote' = FALSE
    /\ down' = FALSE
    /\ UNCHANGED <<private, unit, untold, before>>

\* A file that is no longer regular is left, with a warning.
LeaveFile == pc = "left" /\ Succeeded(Null) /\ UNCHANGED <<private, unit, progress>>

\* stopUnit: a failed unit is reset, so that systemd can forget it.
StopUnit ==
    /\ pc = "stop" /\ unit' = Stop(unit).unit
    /\ Goto(IF unit.file # Null THEN "disable" ELSE "unloaded")
    /\ UNCHANGED <<private, progress>>
DisableUnit ==
    /\ pc = "disable" /\ Goto("unlink")
    /\ unit' = IF IsEnabled(unit) \in {"enabled", "enabled-runtime"} THEN Disable(unit).unit ELSE unit
    /\ UNCHANGED <<private, progress>>
Unlink ==
    /\ pc = "unlink" /\ Goto("unloaded")
    /\ unit' = [unit EXCEPT !.file = Null] /\ changed' = TRUE
    /\ UNCHANGED <<private, semantic, enabled, err, wrote, untold, before, down>>
\* daemon-reload, if the file was there or the unit is loaded from it.
Unload ==
    /\ pc = "unloaded" /\ Succeeded(Null)
    /\ unit' = IF changed THEN DaemonReload(unit).unit ELSE unit
    /\ untold' = FALSE
    /\ UNCHANGED <<private, changed, semantic, enabled, err, wrote, before, down>>

\* A systemctl call fails, and converge returns its error.
CommandFails ==
    /\ pc \in {"reload", "reenable", "restart", "enable", "run"} /\ faults < MaxFaults
    /\ faults' = faults + 1 /\ pc' = "save" /\ err' = TRUE
    /\ UNCHANGED <<resource, op, plan, done, raced, lost, configs, foreign>>
    /\ UNCHANGED <<private, unit, changed, semantic, enabled, wrote, untold, before, down>>

\* systemd cannot be reached any more, so that nothing is stored either.
SystemdFails ==
    /\ pc \notin {"write", "left"} /\ Faulted(Null)
    /\ down' = TRUE /\ untold' = (untold \/ wrote)
    /\ UNCHANGED <<private, unit, changed, semantic, enabled, err, wrote, before>>

Kill ==
    /\ Killed /\ untold' = (untold \/ wrote)
    /\ preexisting' = (preexisting /\ op # "create")
    /\ UNCHANGED <<shape, unit, changed, semantic, enabled, err, wrote, before, down>>

\* Others edit, replace or remove the file, install a unit of that name, and
\* start, stop, enable or disable the unit, or reload systemd.
OthersAct ==
    /\ Intrusion
    /\ \/ \E f \in Files \cup {Symlink} :
            unit.file \notin {f, Null} /\ unit' = [unit EXCEPT !.file = f] /\ untold' = TRUE
       \/ unit.file # Null /\ unit' = [unit EXCEPT !.file = Null] /\ untold' = TRUE
       \/ unit.file # Null /\ unit' = DaemonReload([unit EXCEPT !.file = Null]).unit /\ untold' = TRUE
       \/ /\ shape = "plain" /\ unit.vendor = Null
          /\ \E f \in Files : unit' = DaemonReload([unit EXCEPT !.vendor = f]).unit
          /\ UNCHANGED untold
       \/ /\ Startable(unit) /\ unit' = Start(unit).unit /\ unit' # unit
          /\ untold' = (untold \/ unit.loaded # Fragment(unit))
       \/ unit.active # "inactive" /\ unit' = Stop(unit).unit /\ UNCHANGED untold
       \/ /\ Installable(unit)
          /\ \E l \in {"enabled", "enabled-runtime", "disabled"} : unit' = [unit EXCEPT !.link = l]
          /\ unit' # unit /\ UNCHANGED untold
       \/ unit' = DaemonReload(unit).unit /\ unit' # unit /\ UNCHANGED untold
    /\ UNCHANGED <<private, changed, semantic, enabled, err, wrote, before, down>>

Next ==
    \/ Configure \/ Refresh \/ Import \/ BeginCreate \/ BeginUpdate \/ WriteFile \/ Reload
    \/ Reenabled \/ Restart \/ SetUnitEnabled \/ SetUnitRunState \/ Save \/ BeginDelete
    \/ LeaveFile \/ StopUnit \/ DisableUnit \/ Unlink \/ Unload \/ CommandFails \/ SystemdFails
    \/ Kill \/ OthersAct

Spec == Init /\ [][Next]_vars
-------------------------------------------------------------------------------
AllFiles == Files \cup {c.file : c \in Options} \cup {Symlink}
TypeOK ==
    /\ config \in Options \cup {Null}
    /\ state \in [file : AllFiles, enabled : BOOLEAN, state : {"running", "stopped", Null},
                  restart : BOOLEAN] \cup {Null}
    /\ unit.file \in AllFiles \cup {Null} /\ unit.vendor \in Files \cup {Null}
    /\ unit.link \in {"enabled", "enabled-runtime", "disabled"}
    /\ unit.active \in {"active", "inactive", "failed"}
    /\ pc \in {"idle", "write", "reload", "reenable", "restart", "enable", "run", "save",
              "left", "stop", "disable", "unlink", "unloaded"}

\* After an apply that ended well, and as long as nothing else happens, the
\* next plan is empty.
Settled == done /\ Idle /\ state # Null /\ config # Null => ~Differs(config, Found(state))

\* Then systemd has loaded the file that is on disk, and a unit that runs and
\* that changes restart runs with what it says.
Applied ==
    done /\ Idle /\ state # Null /\ config # Null /\ ~untold =>
        /\ unit.loaded = Path("etc", unit.file)
        /\ unit.active = "active" /\ unit.runs # Null => unit.runs = unit.file.means

\* Every empty plan of a unit that was not imported means so, whatever failed
\* before: the resource "runs systemctl daemon-reload when the file changes".
TakesEffect ==
    Idle /\ state # Null /\ config # Null /\ ~tainted /\ before # Null
        /\ state = Found(state) /\ ~Differs(config, state) =>
        unit.loaded = Path("etc", unit.file)

\* A create that wrote the file leaves a state, unless the provider was
\* killed or systemd could not be reached any more.
CreateRecorded == (op = "create" /\ wrote /\ Idle') => state' # Null \/ unit'.file # plan.file \/ lost' \/ down'

\* A destroy leaves no file of ours, not even loaded, and no enablement,
\* however many attempts it takes; a unit that was inactive before the create
\* is stopped, and one that was active is left alone, unless a failed destroy
\* made Terraform forget that it was.
DestroyRestores ==
    /\ (op = "delete" /\ Idle' /\ state' = Null /\ foreign = 0 /\ before # Null) =>
          /\ unit'.file = Null /\ (unit'.loaded # Null => unit'.loaded.from # "etc")
          /\ unit'.link # "enabled"
          /\ before = "inactive" => unit'.active = "inactive"
    /\ (op = "delete" /\ foreign' = 0 /\ faults' = 0 /\ before = "active") => unit'.active = unit.active

\* A destroy never stops or disables a unit of that name that is not defined
\* by our file, as long as nobody changes it meanwhile.
VendorKept ==
    (op = "delete" /\ ~Idle /\ foreign' = foreign /\ ~raced /\ unit.file = Null
        /\ unit.loaded # Null /\ unit.loaded.from = "vendor")
        => unit'.active = unit.active /\ unit'.link = unit.link
-------------------------------------------------------------------------------
(* What the proofs rest on (UnitProofs), for any configurations, files   *)
(* and numbers of changes and faults.                                        *)

\* The texts of unit files, and what is told apart from them.
Texts == Files \cup {c.file : c \in Options}
Paths == [from : {"etc", "vendor", "kernel"}, as : AllFiles \cup {Null}]
States == [file : AllFiles, enabled : BOOLEAN, state : {"running", "stopped", Null}, restart : BOOLEAN]
TextsTyped ==
    /\ Null \notin AllFiles \cup Paths \cup States \cup Options
    /\ Null \notin {"running", "stopped", "active", "inactive", "failed"}
    /\ Symlink \notin Texts
    /\ \A f \in Texts : f.starts \in {"active", "inactive", "failed", "unloadable"}
    /\ \A c \in Options : c.restart \in BOOLEAN

UnitTypes ==
    [file : AllFiles \cup {Null}, vendor : Files \cup {Null}, kernel : BOOLEAN,
     loaded : Paths \cup {Null}, link : {"enabled", "enabled-runtime", "disabled"},
     active : {"active", "inactive", "failed"}, runs : {f.means : f \in AllFiles} \cup {Null}]

Converging == {"reload", "reenable", "restart", "enable", "run", "save"}
Steps ==
    [none |-> {"idle"}, create |-> Converging \cup {"write"}, update |-> Converging \cup {"write"},
     delete |-> {"left", "stop", "disable", "unlink", "unloaded"}]

Types ==
    /\ shape \in {"plain", "template", "mount"} /\ (unit.kernel => shape = "mount")
    /\ unit \in UnitTypes
    /\ preexisting \in BOOLEAN /\ changed \in BOOLEAN /\ semantic \in BOOLEAN /\ enabled \in BOOLEAN
    /\ err \in BOOLEAN /\ wrote \in BOOLEAN /\ untold \in BOOLEAN /\ down \in BOOLEAN
    /\ before \in {"active", "inactive", "failed", Null}
    /\ config # Null => config \in Options /\ Valid(config)
    /\ state \in States \cup {Null}
    /\ tainted \in BOOLEAN /\ done \in BOOLEAN /\ raced \in BOOLEAN /\ lost \in BOOLEAN
    /\ foreign \in Nat /\ faults \in Nat
    /\ op \in {"none", "create", "update", "delete"} /\ pc \in Steps[op]
    /\ op \in {"create", "update"} => plan = config /\ config # Null
    /\ op = "create" => state = Null
    /\ op \in {"update", "delete"} => state # Null
    /\ op = "delete" => plan = state

\* What the operation has done so far.
Progress ==
    /\ pc \notin {"idle", "save"} => ~err
    /\ pc = "write" => ~wrote
    /\ op \in {"create", "update"} => changed = wrote /\ (~wrote => ~semantic)
    /\ op = "create" /\ pc # "write" => wrote /\ semantic
    /\ pc = "stop" => ~preexisting /\ (~raced => IF Template THEN Ours ELSE unit.file # Null \/ Ours)
    /\ pc = "disable" /\ ~raced => unit.file # Null
    /\ pc = "unloaded" => unit.file = Null
    /\ op = "delete" => ~wrote

\* systemd has the file that nobody touched, except what the operation has
\* still to tell it; a unit that it has not restarted yet may run with the
\* file from before.
IsLoaded == unit.loaded = Path("etc", unit.file)
RunsFile == unit.active = "active" /\ unit.runs # Null => unit.runs = unit.file.means
RestartComes ==
    \/ op = "create" /\ before = "active"
    \/ op = "update" /\ semantic /\ (pc \in {"reload", "reenable", "restart"} \/ ~plan.restart)
    \/ op = "update" /\ semantic /\ plan.state = "stopped" /\ pc \in {"enable", "run"}
Told ==
    ~untold /\ unit.file # Null =>
        /\ Idle \/ ~wrote => IsLoaded /\ RunsFile
        /\ pc \in Converging /\ wrote /\ ~err => (IsLoaded \/ pc = "reload") /\ (RunsFile \/ RestartComes)

\* A unit that nobody else touches: where its file is, that its links go
\* before its file, and what was active before the file was.
Making == op = "create" /\ pc = "write"
Alone ==
    foreign = 0 =>
        /\ unit.vendor = Null /\ unit.file # Symlink /\ unit.link # "enabled-runtime" /\ pc # "left"
        /\ pc \in Converging => unit.file = plan.file
        /\ pc \in {"disable", "unlink"} => unit.file # Null
        /\ Making => unit.file = Null
        /\ unit.file = Null \/ pc = "unlink" => unit.link = "disabled"
        /\ pc \in {"stop", "unloaded"} => changed \/ ~Ours
        /\ Making /\ preexisting => unit.active # "inactive"
        /\ ~Making /\ preexisting => before # "inactive"
        /\ before = "inactive" /\ (unit.file = Null \/ pc \in {"disable", "unlink"}) => unit.active = "inactive"
        /\ Template => unit.active = "inactive"
        /\ unit.loaded # Null => unit.loaded.from # "vendor"

\* And nothing fails: what was active before the file was is known.
Remembered ==
    foreign = 0 /\ faults = 0 =>
        /\ state = Null /\ op # "create" => unit.file = Null /\ ~Ours
        /\ state # Null /\ op # "delete" => unit.file # Null
        /\ unit.file # Null => before # Null
        /\ ~unit.kernel => before \in {Null, "inactive"} /\ (unit.file = Null => unit.active = "inactive")
        /\ Making /\ unit.kernel => preexisting = (unit.active # "inactive")
        /\ before = "active" /\ ~Making => preexisting

\* The file of an apply that ended well is there.
Present == done /\ Idle /\ state # Null => unit.file # Null

UnitInvariant == Types /\ Progress /\ Told /\ Alone /\ Remembered /\ Present /\ Settled
==============================================================================
