-------------------------------- MODULE Services --------------------------------
(***************************************************************************)
(* sysutils_service (service.go, service_resource.go) and the actions of   *)
(* service_action.go: the enablement and run state of a service that       *)
(* something else installed, with systemd or OpenRC.  Each command is a    *)
(* step; the status that the first step reads decides the later ones.      *)
(*                                                                         *)
(* A value of restart_on_change stands for the version of the file that it *)
(* watches, which another resource writes before this one is applied.      *)
(***************************************************************************)
EXTENDS Lifecycle

CONSTANT Options

VARIABLES init,          \* "systemd" or "openrc": which of them booted the host
          behaves,       \* what starting the service comes to
          dropin,        \* the watched file is a drop-in that systemd has not seen
          svc,           \* the service on the host
          st,            \* its status when the operation began
          restarts,      \* the operation is to restart it
          started        \* the operation started it

host == <<init, behaves, dropin>>
progress == <<st, restarts, started>>
vars == <<lifecycle, host, svc, progress>>

Versions == {1, 2}
Configurations ==
    [name : {"unit", "alias"}, enabled : BOOLEAN \cup {Null}, state : {"running", "stopped", Null},
     triggers : Versions \cup {Null}, runlevel : {"default", "boot"}]
Service == [link : {"enabled", "disabled", "static", "masked"}, levels : SUBSET {"default", "boot"},
            active : {"active", "inactive", "failed"}, exists : BOOLEAN,
            disk : Versions, loaded : Versions, runs : Versions]
Result(s, ok) == [svc |-> s, ok |-> ok]

\* OpenRC knows services by the name of their script only, and its names are
\* more restricted.
Valid(c) == init = "openrc" => c.name = "unit"

-------------------------------------------------------------------------------
\* The backends.

\* Status: systemd resolves an alias to the unit; OpenRC looks the service up
\* in the runlevel.
SystemdStatusOfName(m) ==
    [found |-> svc.exists, enabled |-> m.name = "unit" /\ svc.link = "enabled",
     running |-> svc.active = "active"]
SystemdStatus(m) ==
    [found |-> svc.exists, enabled |-> svc.link = "enabled", running |-> svc.active = "active"]
OpenrcStatus(m) ==
    [found |-> svc.exists, enabled |-> m.runlevel \in svc.levels, running |-> svc.active = "active"]
StatusOfName(m) == IF init = "systemd" THEN SystemdStatusOfName(m) ELSE OpenrcStatus(m)
Status(m) == IF init = "systemd" THEN SystemdStatus(m) ELSE OpenrcStatus(m)

\* SetEnabled: systemctl enable does nothing to a static unit and refuses a
\* masked one; rc-update adds to and deletes from the runlevel.
SystemdSetEnabled(on) ==
    CASE svc.link = "static" -> Result(svc, TRUE)
      [] svc.link = "masked" -> Result(svc, ~on)
      [] OTHER -> Result([svc EXCEPT !.link = IF on THEN "enabled" ELSE "disabled",
                                     !.loaded = svc.disk], TRUE)
OpenrcSetEnabled(on, level) ==
    Result([svc EXCEPT !.levels = IF on THEN @ \cup {level} ELSE @ \ {level}], TRUE)
SetEnabled(m, on) ==
    IF init = "systemd" THEN SystemdSetEnabled(on) ELSE OpenrcSetEnabled(on, m.runlevel)

\* What the init system starts is what it has loaded; OpenRC reads the script.
Launch(s) ==
    IF s.link = "masked" \/ ~s.exists THEN Result(s, FALSE)
    ELSE Result([s EXCEPT !.active = behaves, !.runs = s.loaded], behaves # "failed")
ReadAgain(s) == [s EXCEPT !.loaded = s.disk]

\* reloadIfNeeded: a drop-in created since does not show.
NeedDaemonReload == svc.loaded # svc.disk /\ ~dropin
ReloadIfNeeded == IF NeedDaemonReload \/ init = "openrc" THEN ReadAgain(svc) ELSE svc
SetRunning(on) ==
    IF on THEN Launch(ReloadIfNeeded) ELSE Result([svc EXCEPT !.active = "inactive"], TRUE)
Restarted == Launch(ReadAgain(svc))

-------------------------------------------------------------------------------
\* The resource.

StateOf(m, s) ==
    [name |-> m.name, enabled |-> s.enabled, state |-> IF s.running THEN "running" ELSE "stopped",
     triggers |-> m.triggers, runlevel |-> m.runlevel]
Found(m) == IF Status(m).found THEN StateOf(m, Status(m)) ELSE Null

Differs(c, s) ==
    \/ c.triggers # s.triggers \/ c.runlevel # s.runlevel
    \/ c.enabled # Null /\ c.enabled # s.enabled
    \/ c.state # Null /\ c.state # s.state

\* Setting the map for the first time or removing it is no change.
TriggersChanged(prior, planned) == prior # Null /\ planned # Null /\ prior # planned

Init ==
    /\ LifecycleInit
    /\ init \in {"systemd", "openrc"} /\ behaves \in {"active", "inactive", "failed"}
    /\ dropin \in (IF init = "systemd" THEN BOOLEAN ELSE {FALSE})
    /\ svc \in {s \in Service :
         /\ s.disk = 1 /\ s.loaded = 1 /\ s.runs = 1
         /\ s.exists /\ s.active \in {"active", "inactive"}
         /\ init = "systemd" => s.levels = {}
         /\ init = "openrc" => s.link = "disabled" /\ s.levels \in {{}, {"default"}}}
    /\ st = [found |-> FALSE, enabled |-> FALSE, running |-> FALSE]
    /\ restarts = FALSE /\ started = FALSE

Configure == Configured({c \in Options : Valid(c)}) /\ UNCHANGED <<host, svc, progress>>
Refresh == Idle /\ state # Null /\ Refreshed(Found(state)) /\ UNCHANGED <<host, svc, progress>>
Import ==
    /\ Idle /\ state = Null /\ config # Null
    /\ LET m == [config EXCEPT !.triggers = Null, !.runlevel = "default"]
       IN  Status(m).found /\ Refreshed(Found(m))
    /\ UNCHANGED <<host, svc, progress>>

\* The resource whose file is watched is applied before this one.
Begins(o, late) ==
    /\ config # Null /\ Begin(o, "status", config, late)
    /\ svc' = IF config.triggers = Null THEN svc ELSE [svc EXCEPT !.disk = config.triggers]
    /\ started' = FALSE
    /\ UNCHANGED <<host, st>>
BeginCreate == state = Null /\ Begins("create", FALSE) /\ restarts' = FALSE
BeginUpdate ==
    /\ state # Null /\ config # Null /\ config.name = state.name /\ Differs(config, state)
    /\ Begins("update", state # Found(state))
    /\ restarts' = TriggersChanged(state.triggers, config.triggers)

\* converge.
GetStatus ==
    /\ pc = "status" /\ st' = Status(plan)
    /\ Goto(IF st'.found THEN "enable" ELSE "failed")
    /\ UNCHANGED <<host, svc, restarts, started>>

Verify(r, holds, next) ==
    /\ svc' = r.svc /\ Goto(IF r.ok /\ holds THEN next ELSE "failed")
    /\ UNCHANGED <<host, st, restarts>>

\* Every change is verified by reading the status back.
Enable ==
    /\ pc = "enable" /\ UNCHANGED started
    /\ IF plan.enabled # Null /\ plan.enabled # st.enabled
         THEN LET r == SetEnabled(plan, plan.enabled)
              IN  Verify(r, plan.enabled = (IF init = "systemd" THEN r.svc.link = "enabled"
                                            ELSE plan.runlevel \in r.svc.levels), "run")
         ELSE Verify(Result(svc, TRUE), TRUE, "run")

Run ==
    /\ pc = "run"
    /\ LET on == plan.state = "running"
       IN  IF plan.state # Null /\ on # st.running
             THEN /\ Verify(SetRunning(on), on = (SetRunning(on).svc.active = "active"), "restart")
                  /\ started' = on
             ELSE Verify(Result(svc, TRUE), TRUE, "restart") /\ UNCHANGED started

Restart ==
    /\ pc = "restart" /\ UNCHANGED started
    /\ IF restarts /\ st.running /\ ~started /\ plan.state # "stopped"
         THEN Verify(Restarted, Restarted.svc.active = "active", "save")
         ELSE Verify(Result(svc, TRUE), TRUE, "save")

Save ==
    /\ pc = "save"
    /\ IF Found(plan) = Null THEN Failed(Null) ELSE Succeeded(Found(plan))
    /\ UNCHANGED <<host, svc, progress>>

\* A failed create leaves nothing to record; a failed update records what the
\* service looks like, with the old triggers, so that a restart is retried.
FailedSavesPlan ==
    /\ pc = "failed" /\ Failed(IF op = "update" THEN Found(plan) ELSE Null)
    /\ UNCHANGED <<host, svc, progress>>
SaveFailed ==
    /\ pc = "failed" /\ Failed(IF op = "update" THEN Found(state) ELSE Null)
    /\ UNCHANGED <<host, svc, progress>>

\* Delete leaves the service as it is.
Delete ==
    /\ Idle /\ state # Null /\ (config # Null => config.name # state.name)
    /\ Refreshed(Null)
    /\ UNCHANGED <<host, svc, progress>>

\* A command fails, with what it was to do done or not done.
CommandFails ==
    /\ pc \in {"status", "enable", "run", "restart"} /\ faults < MaxFaults
    /\ faults' = faults + 1 /\ pc' = "failed"
    /\ svc' \in {svc} \cup (IF pc = "restart" THEN {[svc EXCEPT !.active = "inactive"]} ELSE {})
    /\ UNCHANGED <<resource, op, plan, done, raced, lost, configs, foreign>>
    /\ UNCHANGED <<host, progress>>
InitFails == Faulted(Null) /\ UNCHANGED <<host, svc, progress>>
Kill == Killed /\ UNCHANGED <<host, svc, progress>>

\* The actions sysutils_service and sysutils_systemd_daemon_reload, which an
\* action_trigger invokes: they change the host and never the state.
Invoke ==
    /\ Intrusion /\ svc.exists
    /\ svc' \in {Restarted.svc, ReadAgain(svc)}
                  \cup (IF svc.active = "active" THEN {SetRunning(FALSE).svc, ReloadIfNeeded}
                        ELSE {SetRunning(TRUE).svc})
    /\ UNCHANGED <<host, progress>>

\* Others start, stop, enable, disable, mask and remove the service.
OthersAct ==
    /\ Intrusion
    /\ \/ \E a \in {"active", "inactive", "failed"} :
            svc' = [svc EXCEPT !.active = a, !.runs = IF a = "active" THEN svc.loaded ELSE @]
       \/ init = "systemd" /\ \E l \in {"enabled", "disabled", "masked"} : svc' = [svc EXCEPT !.link = l]
       \/ init = "openrc" /\ \E l \in SUBSET {"default", "boot"} : svc' = [svc EXCEPT !.levels = l]
       \/ svc' = [svc EXCEPT !.exists = FALSE, !.active = "inactive"]
    /\ svc' # svc
    /\ UNCHANGED <<host, progress>>

Next ==
    \/ Configure \/ Refresh \/ Import \/ BeginCreate \/ BeginUpdate \/ GetStatus \/ Enable \/ Run
    \/ Restart \/ Save \/ SaveFailed \/ Delete \/ CommandFails \/ InitFails \/ Kill \/ Invoke
    \/ OthersAct

Spec == Init /\ [][Next]_vars
-------------------------------------------------------------------------------
TypeOK ==
    /\ config \in Options \cup {Null} /\ Options \subseteq Configurations
    /\ state # Null => state \in Configurations /\ Null \notin {state.enabled, state.state}
    /\ svc \in Service /\ tainted = FALSE
    /\ pc \in {"idle", "status", "enable", "run", "restart", "save", "failed"}

AtBoot == IF init = "systemd" THEN svc.link = "enabled" ELSE config.runlevel \in svc.levels

\* After an apply that ended well, and as long as nothing else happens, the
\* next plan is empty, and the service is as configured.
Settled ==
    done /\ Idle /\ state # Null /\ config # Null =>
        /\ ~Differs(config, Found(state))
        /\ config.enabled # Null => config.enabled = AtBoot
        /\ config.state # Null => (config.state = "running") = (svc.active = "active")

\* New triggers are stored only once the running service has been started
\* with what they watch, so that a restart that failed is tried again.
RestartNotLost ==
    (op = "update" /\ Idle' /\ ~raced /\ svc.active = "active" /\ state' # Null
        /\ TriggersChanged(state.triggers, state'.triggers))
        => svc.runs = state'.triggers \/ (dropin /\ started)

-------------------------------------------------------------------------------
(* The invariant behind Settled and RestartNotLost, for any configurations  *)
(* and numbers of changes and faults; the proofs are in MCSoftware.         *)

OptionsTyped == Options \subseteq Configurations /\ Null \notin {"running", "stopped"}

Runs == svc.active = "active"
EnabledAs(c) == c.enabled # Null => c.enabled = Status(c).enabled
RunsAs(c) == c.state # Null => (c.state = "running") = Runs

\* What the steps so far have brought about, while nobody interferes.
Reached ==
    /\ pc # "status" /\ pc # "failed" => svc.exists
    /\ pc = "enable" => st = Status(plan)
    /\ pc = "run" => EnabledAs(plan) /\ st.running = Runs
    /\ pc \in {"restart", "save"} => EnabledAs(plan) /\ RunsAs(plan)
    \* A service that is running by now ran all along, or was started.
    /\ pc = "restart" => /\ started => svc.runs = svc.disk \/ dropin
                         /\ ~started /\ Runs => st.running
    /\ pc = "save" => (Runs /\ restarts => svc.runs = svc.disk \/ (dropin /\ started))

ServiceInv ==
    /\ svc \in Service /\ behaves \in {"active", "inactive", "failed"}
    /\ init \in {"systemd", "openrc"}
    /\ config \in Options \cup {Null}
    /\ Idle => op = "none"
    /\ ~Idle =>
         /\ plan = config /\ plan \in Options
         /\ plan.triggers # Null => svc.disk = plan.triggers
         /\ op = "update" => restarts = TriggersChanged(state.triggers, plan.triggers)
         /\ pc \in {"status", "enable", "run"} => ~started
         /\ raced \/ Reached
    /\ done /\ Idle /\ state # Null =>
         /\ config \in Options /\ state = StateOf(config, Status(config))
         /\ svc.exists /\ EnabledAs(config) /\ RunsAs(config)

\* The same service, but for whether it runs, and what.
Same(t, s) ==
    /\ t \in Service /\ t.link = s.link /\ t.levels = s.levels
    /\ t.exists = s.exists /\ t.disk = s.disk
==============================================================================
