------------------------------ MODULE UnitProofs ------------------------------
(***************************************************************************)
(* Proofs about Units, for any unit files and configurations and any       *)
(* number of changes and faults: every apply that ends well has its effect *)
(* and stays planned empty, creates are recorded, and a destroy leaves the *)
(* unit as it was.  The effect of each systemctl command and of each step  *)
(* comes first, then UnitInvariant, part by part.                          *)
(***************************************************************************)
EXTENDS Units, TLAPS

\* The same files on disk.

Keeps(u, v) == v.file = u.file /\ v.vendor = u.vendor /\ v.kernel = u.kernel

(* What the systemctl commands do to a unit.                                *)
LEMMA UnitFields ==
    ASSUME NEW u \in UnitTypes
    PROVE  /\ u = [file |-> u.file, vendor |-> u.vendor, kernel |-> u.kernel, loaded |-> u.loaded,
                   link |-> u.link, active |-> u.active, runs |-> u.runs]
           /\ u.file \in AllFiles \cup {Null} /\ u.vendor \in Files \cup {Null} /\ u.kernel \in BOOLEAN
           /\ u.loaded \in Paths \cup {Null} /\ u.link \in {"enabled", "enabled-runtime", "disabled"}
           /\ u.active \in {"active", "inactive", "failed"} /\ u.runs \in {f.means : f \in AllFiles} \cup {Null}
  BY DEF UnitTypes

LEMMA FragmentEffect ==
    ASSUME TextsTyped, NEW u, u.file \in AllFiles \cup {Null}, u.vendor \in Files \cup {Null}, u.kernel \in BOOLEAN
    PROVE  /\ Fragment(u) \in Paths \cup {Null}
           /\ u.file # Null => Fragment(u) = Path("etc", u.file) /\ Fragment(u) # Null
           /\ u.file = Null => Fragment(u) = Null \/ Fragment(u).from # "etc"
           /\ u.file = Null /\ u.vendor = Null => Fragment(u) = Null \/ (u.kernel /\ Fragment(u).from = "kernel")
<1>1. u.vendor \in AllFiles \cup {Null}
  BY DEF AllFiles
<1>2. \A f \in {"etc", "vendor", "kernel"}, a \in AllFiles \cup {Null} : Path(f, a) \in Paths /\ Path(f, a).from = f
  BY DEF Paths, Path
<1>3. \A p \in Paths : p # Null
  BY DEF TextsTyped
<1> QED
  BY <1>1, <1>2, <1>3 DEF Fragment

LEMMA WithLink ==
    ASSUME NEW u \in UnitTypes, NEW l \in {"enabled", "enabled-runtime", "disabled"}
    PROVE  [u EXCEPT !.link = l] =
             [file |-> u.file, vendor |-> u.vendor, kernel |-> u.kernel, loaded |-> u.loaded,
              link |-> l, active |-> u.active, runs |-> u.runs]
  BY UnitFields DEF UnitTypes
LEMMA WithLoaded ==
    ASSUME NEW u \in UnitTypes, NEW p \in Paths \cup {Null}
    PROVE  [u EXCEPT !.loaded = p] =
             [file |-> u.file, vendor |-> u.vendor, kernel |-> u.kernel, loaded |-> p,
              link |-> u.link, active |-> u.active, runs |-> u.runs]
  BY UnitFields DEF UnitTypes
LEMMA WithFile ==
    ASSUME NEW u \in UnitTypes, NEW f \in AllFiles \cup {Null}
    PROVE  [u EXCEPT !.file = f] =
             [file |-> f, vendor |-> u.vendor, kernel |-> u.kernel, loaded |-> u.loaded,
              link |-> u.link, active |-> u.active, runs |-> u.runs]
  BY UnitFields DEF UnitTypes
LEMMA WithVendor ==
    ASSUME NEW u \in UnitTypes, NEW f \in Files \cup {Null}
    PROVE  [u EXCEPT !.vendor = f] =
             [file |-> u.file, vendor |-> f, kernel |-> u.kernel, loaded |-> u.loaded,
              link |-> u.link, active |-> u.active, runs |-> u.runs]
  BY UnitFields DEF UnitTypes
LEMMA WithActive ==
    ASSUME NEW u \in UnitTypes, NEW a \in {"active", "inactive", "failed"}
    PROVE  [u EXCEPT !.active = a] =
             [file |-> u.file, vendor |-> u.vendor, kernel |-> u.kernel, loaded |-> u.loaded,
              link |-> u.link, active |-> a, runs |-> u.runs]
  BY UnitFields DEF UnitTypes
LEMMA WithRuns ==
    ASSUME NEW u \in UnitTypes, NEW a \in {"active", "inactive", "failed"}, NEW r
    PROVE  [u EXCEPT !.active = a, !.runs = r] =
             [file |-> u.file, vendor |-> u.vendor, kernel |-> u.kernel, loaded |-> u.loaded,
              link |-> u.link, active |-> a, runs |-> r]
<1> DEFINE w == [u EXCEPT !.active = a]
<1>1. w = [file |-> u.file, vendor |-> u.vendor, kernel |-> u.kernel, loaded |-> u.loaded,
           link |-> u.link, active |-> a, runs |-> u.runs]
  BY WithActive
<1>2. [u EXCEPT !.active = a, !.runs = r] = [w EXCEPT !.runs = r]
  OBVIOUS
<1> HIDE DEF w
<1>3. [w EXCEPT !.runs = r] = [file |-> w.file, vendor |-> w.vendor, kernel |-> w.kernel, loaded |-> w.loaded,
           link |-> w.link, active |-> w.active, runs |-> r]
  BY <1>1
<1> QED
  BY <1>1, <1>2, <1>3

LEMMA ReloadEffect ==
    ASSUME TextsTyped, NEW u \in UnitTypes, NEW v, v = DaemonReload(u).unit
    PROVE  /\ v \in UnitTypes /\ Keeps(u, v) /\ v.loaded = Fragment(u)
           /\ v.link = u.link /\ v.active = u.active /\ v.runs = u.runs
           /\ DaemonReload(u).ok = TRUE
<1> DEFINE p == Fragment(u)
<1>1. p \in Paths \cup {Null}
  BY UnitFields, FragmentEffect
<1>2. v = [u EXCEPT !.loaded = p] /\ DaemonReload(u).ok = TRUE
  BY DEF DaemonReload, Done, Result
<1> HIDE DEF p
<1>3. v = [file |-> u.file, vendor |-> u.vendor, kernel |-> u.kernel, loaded |-> p,
           link |-> u.link, active |-> u.active, runs |-> u.runs]
  BY <1>1, <1>2, WithLoaded
<1>4. v \in UnitTypes
  BY <1>1, <1>3, UnitFields DEF UnitTypes
<1> QED
  BY <1>2, <1>3, <1>4 DEF Keeps, p

\* A unit with other links.
Linked(u, l) == [u EXCEPT !.link = l]

LEMMA LinkEffect ==
    ASSUME TextsTyped, NEW u \in UnitTypes, NEW l \in {"enabled", "enabled-runtime", "disabled"},
           NEW v, v = DaemonReload(Linked(u, l)).unit
    PROVE  /\ v \in UnitTypes /\ Keeps(u, v) /\ v.loaded = Fragment(u)
           /\ v.link = l /\ v.active = u.active /\ v.runs = u.runs
<1> DEFINE w == Linked(u, l)
<1>0. v = DaemonReload(w).unit
  OBVIOUS
<1>1. w = [file |-> u.file, vendor |-> u.vendor, kernel |-> u.kernel, loaded |-> u.loaded,
           link |-> l, active |-> u.active, runs |-> u.runs]
  BY WithLink DEF Linked
<1>2. w \in UnitTypes /\ Fragment(w) = Fragment(u)
  BY <1>1, UnitFields DEF UnitTypes, Fragment
<1> HIDE DEF w
<1>3. /\ v \in UnitTypes /\ Keeps(w, v) /\ v.loaded = Fragment(w)
      /\ v.link = w.link /\ v.active = w.active /\ v.runs = w.runs
  BY <1>0, <1>2, ReloadEffect
<1>4. /\ w.file = u.file /\ w.vendor = u.vendor /\ w.kernel = u.kernel /\ w.loaded = u.loaded
      /\ w.link = l /\ w.active = u.active /\ w.runs = u.runs
  BY <1>1
<1> QED
  BY <1>2, <1>3, <1>4 DEF Keeps

LEMMA EnableEffect ==
    ASSUME TextsTyped, NEW u \in UnitTypes, NEW v, v = Enable(u).unit
    PROVE  /\ v \in UnitTypes /\ Keeps(u, v) /\ v.active = u.active /\ v.runs = u.runs
           /\ v.link \in {u.link, "enabled"}
           /\ v.loaded = u.loaded \/ v.loaded = Fragment(u)
<1>1. CASE Fragment(u) = Null
  BY <1>1 DEF Enable, Result, Keeps
<1>2. CASE Fragment(u) # Null
  <2>1. ASSUME NEW l \in {"enabled", "enabled-runtime", "disabled"}, v = DaemonReload(Linked(u, l)).unit
        PROVE  /\ v \in UnitTypes /\ Keeps(u, v) /\ v.active = u.active /\ v.runs = u.runs
               /\ v.link = l /\ v.loaded = Fragment(u)
    BY <2>1, LinkEffect
  <2>2. CASE Installable(u)
    <3>1. v = DaemonReload(Linked(u, "enabled")).unit
      BY <1>2, <2>2 DEF Enable, Linked
    <3> QED
      BY <2>1, <3>1
  <2>3. CASE ~Installable(u)
    <3>1. v = DaemonReload(Linked(u, u.link)).unit
      BY <1>2, <2>3 DEF Enable, Linked
    <3>2. u.link \in {"enabled", "enabled-runtime", "disabled"}
      BY UnitFields
    <3> QED
      BY <2>1, <3>1, <3>2
  <2> QED
    BY <2>2, <2>3
<1> QED
  BY <1>1, <1>2

LEMMA DisableEffect ==
    ASSUME TextsTyped, NEW u \in UnitTypes, NEW v, v = Disable(u).unit
    PROVE  /\ v \in UnitTypes /\ Keeps(u, v) /\ v.active = u.active /\ v.runs = u.runs
           /\ v.link \in {u.link, "disabled"} /\ (Fragment(u) # Null => v.link = "disabled")
           /\ v.loaded = u.loaded \/ v.loaded = Fragment(u)
<1>1. CASE Fragment(u) = Null
  BY <1>1 DEF Disable, Result, Keeps
<1>2. CASE Fragment(u) # Null
  <2>1. v = DaemonReload(Linked(u, "disabled")).unit
    BY <1>2 DEF Disable, Linked
  <2> QED
    BY <2>1, LinkEffect
<1> QED
  BY <1>1, <1>2

LEMMA ReenableEffect ==
    ASSUME TextsTyped, NEW u \in UnitTypes, NEW v, v = Reenable(u).unit
    PROVE  /\ v \in UnitTypes /\ Keeps(u, v) /\ v.active = u.active /\ v.runs = u.runs
           /\ v.link \in {u.link, "enabled", "disabled"}
           /\ v.loaded = u.loaded \/ v.loaded = Fragment(u)
<1>1. CASE Fragment(u) = Null
  BY <1>1 DEF Reenable, Result, Keeps
<1>2. CASE Fragment(u) # Null
  <2>1. ASSUME NEW l \in {"enabled", "enabled-runtime", "disabled"}, v = DaemonReload(Linked(u, l)).unit
        PROVE  /\ v \in UnitTypes /\ Keeps(u, v) /\ v.active = u.active /\ v.runs = u.runs
               /\ v.link = l /\ v.loaded = Fragment(u)
    BY <2>1, LinkEffect
  <2>2. CASE Installable(u)
    <3>1. v = DaemonReload(Linked(u, "enabled")).unit
      BY <1>2, <2>2 DEF Reenable, Linked
    <3> QED
      BY <2>1, <3>1
  <2>3. CASE ~Installable(u)
    <3>1. v = DaemonReload(Linked(u, "disabled")).unit
      BY <1>2, <2>3 DEF Reenable, Linked
    <3>2. "disabled" \in {"enabled", "enabled-runtime", "disabled"}
      BY UnitFields
    <3> QED
      BY <2>1, <3>1, <3>2
  <2> QED
    BY <2>2, <2>3
<1> QED
  BY <1>1, <1>2

LEMMA StartEffect ==
    ASSUME TextsTyped, NEW u \in UnitTypes, NEW v, v = Start(u).unit
    PROVE  /\ v \in UnitTypes /\ Keeps(u, v) /\ v.link = u.link /\ v.loaded = u.loaded
           /\ ~Startable(u) => v = u /\ ~Start(u).ok
           /\ Startable(u) /\ u.loaded.as = Null => v.runs = u.runs /\ v.active = "active"
           /\ Startable(u) /\ u.loaded.as # Null => v.runs = u.loaded.as.means /\ v.active = u.loaded.as.starts
<1>1. CASE ~Startable(u)
  BY <1>1 DEF Start, Result, Keeps
<1>2. CASE Startable(u) /\ u.loaded.as = Null
  <2>1. v = [u EXCEPT !.active = "active"]
    BY <1>2 DEF Start, Done, Result
  <2>2. v = [file |-> u.file, vendor |-> u.vendor, kernel |-> u.kernel, loaded |-> u.loaded,
             link |-> u.link, active |-> "active", runs |-> u.runs]
    BY <2>1, WithActive
  <2>3. v \in UnitTypes
    BY <2>2, UnitFields DEF UnitTypes
  <2> QED
    BY <1>2, <2>2, <2>3 DEF Keeps
<1>3. CASE Startable(u) /\ u.loaded.as # Null
  <2> DEFINE a == u.loaded.as.starts
             r == u.loaded.as.means
  <2>1. u.loaded # Null /\ u.loaded.as.starts # "unloadable" /\ u.loaded.as \in AllFiles
    BY <1>3, UnitFields DEF Startable, Paths
  <2>2. v = [u EXCEPT !.active = a, !.runs = r]
    BY <1>3 DEF Start, Result
  <2>3. a \in {"active", "inactive", "failed"} /\ r \in {f.means : f \in AllFiles} \cup {Null}
    <3>1. u.loaded.as \in Texts \/ u.loaded.as = Symlink
      BY <2>1 DEF AllFiles, Texts
    <3>2. Symlink.starts = "unloadable"
      BY DEF Symlink, UnitFile
    <3> QED
      BY <2>1, <3>1, <3>2 DEF TextsTyped
  <2> HIDE DEF a, r
  <2>4. v = [file |-> u.file, vendor |-> u.vendor, kernel |-> u.kernel, loaded |-> u.loaded,
             link |-> u.link, active |-> a, runs |-> r]
    BY <2>2, <2>3, WithRuns
  <2>5. v \in UnitTypes
    BY <2>3, <2>4, UnitFields DEF UnitTypes
  <2> QED
    BY <1>3, <2>4, <2>5 DEF Keeps, a, r
<1> QED
  BY <1>1, <1>2, <1>3

LEMMA StopEffect ==
    ASSUME NEW u \in UnitTypes, NEW v, v = Stop(u).unit
    PROVE  /\ v \in UnitTypes /\ Keeps(u, v) /\ v.link = u.link /\ v.loaded = u.loaded
           /\ v.active = "inactive" /\ v.runs = u.runs
<1>1. v = [u EXCEPT !.active = "inactive"]
  BY DEF Stop, Done, Result
<1>2. v = [file |-> u.file, vendor |-> u.vendor, kernel |-> u.kernel, loaded |-> u.loaded,
           link |-> u.link, active |-> "inactive", runs |-> u.runs]
  BY <1>1, WithActive
<1>3. v \in UnitTypes
  BY <1>2, UnitFields DEF UnitTypes
<1> QED
  BY <1>2, <1>3 DEF Keeps

LEMMA FileEffect ==
    ASSUME NEW u \in UnitTypes, NEW f \in AllFiles \cup {Null}, NEW v, v = [u EXCEPT !.file = f]
    PROVE  /\ v \in UnitTypes /\ v.file = f /\ v.vendor = u.vendor /\ v.kernel = u.kernel
           /\ v.link = u.link /\ v.loaded = u.loaded /\ v.active = u.active /\ v.runs = u.runs
<1>2. v = [file |-> f, vendor |-> u.vendor, kernel |-> u.kernel, loaded |-> u.loaded,
           link |-> u.link, active |-> u.active, runs |-> u.runs]
  BY WithFile
<1>3. v \in UnitTypes
  BY <1>2, UnitFields DEF UnitTypes
<1> QED
  BY <1>2, <1>3

LEMMA VendorEffect ==
    ASSUME NEW u \in UnitTypes, NEW f \in Files, NEW v, v = [u EXCEPT !.vendor = f]
    PROVE  /\ v \in UnitTypes /\ v.file = u.file /\ v.vendor = f /\ v.kernel = u.kernel
           /\ v.link = u.link /\ v.loaded = u.loaded /\ v.active = u.active /\ v.runs = u.runs
<1>2. v = [file |-> u.file, vendor |-> f, kernel |-> u.kernel, loaded |-> u.loaded,
           link |-> u.link, active |-> u.active, runs |-> u.runs]
  BY WithVendor
<1>3. v \in UnitTypes
  BY <1>2, UnitFields DEF UnitTypes
<1> QED
  BY <1>2, <1>3

(* A step of converge.                                                      *)
Moved(next) ==
    /\ unit' \in UnitTypes /\ Keeps(unit, unit')
    /\ err' \in BOOLEAN /\ enabled' \in BOOLEAN
    /\ pc' = IF err' THEN "save" ELSE next
    /\ UNCHANGED <<config, state, tainted, op, plan, done, raced, lost, configs, foreign, faults,
                   shape, preexisting, changed, semantic, wrote, untold, before, down>>

LEMMA Calls ==
    ASSUME NEW next, NEW u, NEW ok, Call(next, Result(u, ok)),
           u \in UnitTypes, Keeps(unit, u), enabled \in BOOLEAN
    PROVE  Moved(next) /\ unit' = u /\ err' = ~ok
  BY DEF Call, Continue, Goto, Moved, Result, private, resource, bounds, UnitFileEnabled

LEMMA Skips ==
    ASSUME NEW next, Skip(next), unit \in UnitTypes, enabled \in BOOLEAN
    PROVE  Moved(next) /\ unit' = unit /\ ~err'
  BY DEF Skip, Continue, Goto, Moved, private, resource, bounds, UnitFileEnabled, Keeps

\* A result is what it has in its two fields.
LEMMA Results ==
    ASSUME NEW u
    PROVE  /\ \A ok : Result(u, ok).unit = u /\ Result(u, ok).ok = ok
           /\ Reenable(u) = Result(Reenable(u).unit, Reenable(u).ok)
           /\ TryRestart(u) = Result(TryRestart(u).unit, TryRestart(u).ok)
  BY DEF Result, Reenable, TryRestart, Start, DaemonReload, Done

LEMMA ReloadStep ==
    ASSUME TextsTyped, Types, Reload
    PROVE  /\ pc = "reload" /\ Moved("reenable") /\ unit'.link = unit.link
           /\ unit'.active = unit.active /\ unit'.runs = unit.runs
           /\ unit'.loaded = IF changed THEN Fragment(unit) ELSE unit.loaded
<1>1. unit \in UnitTypes /\ enabled \in BOOLEAN
  BY DEF Types
<1>2. CASE changed
  <2> DEFINE u == DaemonReload(unit).unit
  <2>1. u \in UnitTypes /\ Keeps(unit, u) /\ u.loaded = Fragment(unit) /\ u.link = unit.link
        /\ u.active = unit.active /\ u.runs = unit.runs
    BY <1>1, ReloadEffect
  <2>2. Call("reenable", Result(u, Loaded(u)))
    BY <1>2 DEF Reload
  <2> HIDE DEF u
  <2> QED
    BY <1>1, <1>2, <2>1, <2>2, Calls DEF Reload
<1>3. CASE ~changed
  BY <1>1, <1>3, Skips DEF Reload
<1> QED
  BY <1>2, <1>3

LEMMA ReenabledStep ==
    ASSUME TextsTyped, Types, Reenabled
    PROVE  /\ pc = "reenable" /\ Moved("restart")
           /\ unit'.link \in {unit.link, "enabled", "disabled"}
           /\ unit'.active = unit.active /\ unit'.runs = unit.runs
           /\ unit'.loaded = unit.loaded \/ unit'.loaded = Fragment(unit)
<1>1. unit \in UnitTypes /\ enabled \in BOOLEAN
  BY DEF Types
<1>2. CASE Call("restart", Reenable(unit))
  <2> DEFINE u == Reenable(unit).unit
             ok == Reenable(unit).ok
  <2>1. u \in UnitTypes /\ Keeps(unit, u) /\ u.link \in {unit.link, "enabled", "disabled"}
        /\ u.active = unit.active /\ u.runs = unit.runs /\ (u.loaded = unit.loaded \/ u.loaded = Fragment(unit))
    BY <1>1, ReenableEffect
  <2>2. Call("restart", Result(u, ok))
    BY <1>2, Results
  <2> HIDE DEF u, ok
  <2> QED
    BY <1>1, <2>1, <2>2, Calls DEF Reenabled
<1>3. CASE Skip("restart")
  BY <1>1, <1>3, Skips DEF Reenabled
<1> QED
  BY <1>2, <1>3 DEF Reenabled

\* A unit that runs is restarted, or it was not asked for.
LEMMA RestartStep ==
    ASSUME TextsTyped, Types, Restart
    PROVE  /\ pc = "restart" /\ Moved("enable") /\ unit'.link = unit.link /\ unit'.loaded = unit.loaded
           /\ \/ /\ unit.active = "active" /\ unit' = Start(unit).unit /\ err' = ~Start(unit).ok
                 /\ op # "create" /\ semantic /\ plan.restart
              \/ /\ unit' = unit /\ ~err'
                 /\ \/ ~semantic \/ op = "create" \/ ~plan.restart \/ plan.state = "stopped"
                    \/ unit.active # "active" \/ (Template /\ ~Ours)
<1>1. unit \in UnitTypes /\ enabled \in BOOLEAN /\ unit.active \in {"active", "inactive", "failed"}
  BY UnitFields DEF Types
<1>2. UnitRunState(unit.active) = "running" <=> unit.active = "active"
  BY <1>1 DEF UnitRunState
<1> DEFINE due == /\ semantic /\ op # "create" /\ plan.restart /\ plan.state # "stopped"
                  /\ UnitRunState(IsActive(unit)) = "running"
                  /\ Template => unit.loaded # Null /\ unit.loaded.from = "etc"
<1>3. CASE due
  <2> DEFINE u == Start(unit).unit
             ok == Start(unit).ok
  <2>1. u \in UnitTypes /\ Keeps(unit, u) /\ u.link = unit.link /\ u.loaded = unit.loaded
    BY <1>1, StartEffect
  <2>2. unit.active = "active"
    BY <1>2, <1>3 DEF IsActive
  <2>3. Call("enable", Result(u, ok))
    <3>1. Call("enable", TryRestart(unit))
      BY <1>3 DEF Restart
    <3>2. TryRestart(unit) = Result(u, ok)
      BY <2>2, Results DEF TryRestart
    <3> QED
      BY <3>1, <3>2
  <2> HIDE DEF u, ok
  <2>4. Moved("enable") /\ unit' = u /\ err' = ~ok
    BY <1>1, <2>1, <2>3, Calls
  <2> QED
    BY <1>3, <2>1, <2>2, <2>4 DEF Restart, u, ok
<1>4. CASE ~due
  <2>1. Skip("enable")
    BY <1>4 DEF Restart
  <2>2. Moved("enable") /\ unit' = unit /\ ~err'
    BY <1>1, <2>1, Skips
  <2> QED
    BY <1>2, <1>4, <2>2 DEF Restart, IsActive, Ours
<1> QED
  BY <1>3, <1>4

LEMMA EnabledStep ==
    ASSUME TextsTyped, Types, SetUnitEnabled
    PROVE  /\ pc = "enable" /\ Moved("run")
           /\ unit'.link \in {unit.link, "enabled", "disabled"}
           /\ unit'.active = unit.active /\ unit'.runs = unit.runs
           /\ unit'.loaded = unit.loaded \/ unit'.loaded = Fragment(unit)
<1>1. unit \in UnitTypes /\ enabled \in BOOLEAN
  BY DEF Types
<1> DEFINE Fine(u) == /\ u \in UnitTypes /\ Keeps(unit, u) /\ u.link \in {unit.link, "enabled", "disabled"}
                      /\ u.active = unit.active /\ u.runs = unit.runs
                      /\ u.loaded = unit.loaded \/ u.loaded = Fragment(unit)
<1>2. Fine(Enable(unit).unit) /\ Fine(Disable(unit).unit)
  BY <1>1, EnableEffect, DisableEffect
<1>3. CASE \E u, ok : Call("run", Result(u, ok)) /\ Fine(u)
  BY <1>1, <1>3, Calls DEF SetUnitEnabled
<1>4. CASE Skip("run")
  BY <1>1, <1>4, Skips DEF SetUnitEnabled
<1>5. ASSUME plan.enabled # Null /\ plan.enabled # enabled PROVE \E u, ok : Call("run", Result(u, ok)) /\ Fine(u)
  <2> DEFINE r == IF plan.enabled THEN Enable(unit) ELSE Disable(unit)
             b == r.ok /\ plan.enabled = UnitFileEnabled(IsEnabled(r.unit))
  <2>1. Call("run", Result(r.unit, b))
    BY <1>5 DEF SetUnitEnabled
  <2>2. Fine(r.unit)
    BY <1>2
  <2> HIDE DEF r, b, Fine
  <2> QED
    BY <2>1, <2>2
<1> QED
  BY <1>3, <1>4, <1>5 DEF SetUnitEnabled

\* What a unit is started with, and a stop that is asked for.
LEMMA RunStep ==
    ASSUME TextsTyped, Types, SetUnitRunState
    PROVE  /\ pc = "run" /\ Moved("save") /\ unit'.link = unit.link /\ unit'.loaded = unit.loaded
           /\ \/ unit' = Start(unit).unit /\ plan.state = "running" /\ plan.state # Null
              \/ unit'.active = "inactive" /\ plan.state # Null
              \/ unit' = unit /\ (plan.state = "stopped" => unit.active # "active")
<1>1. unit \in UnitTypes /\ enabled \in BOOLEAN
  BY DEF Types
<1>2. Null # "stopped"
  BY DEF TextsTyped
<1>3. CASE plan.state # Null /\ plan.state # UnitRunState(IsActive(unit))
  <2> DEFINE r == IF plan.state = "running" THEN Start(unit) ELSE Stop(unit)
             b == r.ok /\ plan.state = UnitRunState(IsActive(r.unit))
             u == r.unit
  <2>1. Call("save", Result(u, b))
    BY <1>3 DEF SetUnitRunState
  <2>2. u \in UnitTypes /\ Keeps(unit, u) /\ u.link = unit.link /\ u.loaded = unit.loaded
    BY <1>1, StartEffect, StopEffect
  <2>3. (u = Start(unit).unit /\ plan.state = "running") \/ u.active = "inactive"
    BY <1>1, StopEffect
  <2> HIDE DEF u, r, b
  <2>4. Moved("save") /\ unit' = u
    BY <1>1, <2>1, <2>2, Calls
  <2> QED
    BY <1>3, <2>2, <2>3, <2>4 DEF SetUnitRunState
<1>4. CASE ~(plan.state # Null /\ plan.state # UnitRunState(IsActive(unit)))
  <2>1. Skip("save")
    BY <1>4 DEF SetUnitRunState
  <2>2. Moved("save") /\ unit' = unit
    BY <1>1, <2>1, Skips
  <2> QED
    BY <1>2, <1>4, <2>2 DEF SetUnitRunState, UnitRunState, IsActive
<1> QED
  BY <1>3, <1>4

(* What others do, and that systemd has still what it had of a file that    *)
(* they did not touch.                                                      *)
LEMMA OthersStep ==
    ASSUME TextsTyped, Types, OthersAct
    PROVE  /\ unit' \in UnitTypes /\ unit'.kernel = unit.kernel /\ untold' \in BOOLEAN
           /\ foreign' = foreign + 1 /\ raced' = TRUE /\ done' = FALSE /\ (unit.file = Null => unit'.file = Null)
           /\ UNCHANGED <<config, state, tainted, pc, op, plan, lost, configs, faults, shape, preexisting,
                          changed, semantic, enabled, err, wrote, before, down>>
           /\ ~untold' /\ unit'.file # Null =>
                 ~untold /\ unit'.file = unit.file /\ (IsLoaded => IsLoaded') /\ (RunsFile => RunsFile')
<1>1. unit \in UnitTypes /\ untold \in BOOLEAN
  BY DEF Types
<1>2. /\ foreign' = foreign + 1 /\ raced' = TRUE /\ done' = FALSE
      /\ UNCHANGED <<config, state, tainted, pc, op, plan, lost, configs, faults, shape, preexisting,
                     changed, semantic, enabled, err, wrote, before, down>>
  BY DEF OthersAct, Intrusion, resource, running, private
<1> DEFINE Same == /\ unit'.kernel = unit.kernel /\ (unit.file = Null => unit'.file = Null)
                   /\ ~untold' /\ unit'.file # Null =>
                        ~untold /\ unit'.file = unit.file /\ (IsLoaded => IsLoaded') /\ (RunsFile => RunsFile')
<1> SUFFICES unit' \in UnitTypes /\ untold' \in BOOLEAN /\ Same
  BY <1>1, <1>2
<1>3. CASE \E f \in Files \cup {Symlink} : unit.file # Null /\ unit' = [unit EXCEPT !.file = f] /\ untold' = TRUE
  BY <1>1, <1>3, FileEffect DEF AllFiles
<1>4. CASE unit' = [unit EXCEPT !.file = Null] /\ untold' = TRUE
  BY <1>1, <1>4, FileEffect
<1>5. CASE unit' = DaemonReload([unit EXCEPT !.file = Null]).unit /\ untold' = TRUE
  <2> DEFINE u == [unit EXCEPT !.file = Null]
  <2>1. u \in UnitTypes /\ u.kernel = unit.kernel /\ u.file = Null
    BY <1>1, FileEffect
  <2>2. unit' = DaemonReload(u).unit
    BY <1>5
  <2> HIDE DEF u
  <2>3. unit' \in UnitTypes /\ Keeps(u, unit')
    BY <2>1, <2>2, ReloadEffect
  <2> QED
    BY <1>5, <2>1, <2>3 DEF Keeps
<1>6. CASE \E f \in Files : unit' = DaemonReload([unit EXCEPT !.vendor = f]).unit /\ untold' = untold
  <2>1. PICK f \in Files : unit' = DaemonReload([unit EXCEPT !.vendor = f]).unit
    BY <1>6
  <2> DEFINE u == [unit EXCEPT !.vendor = f]
  <2>2. /\ u \in UnitTypes /\ u.kernel = unit.kernel /\ u.file = unit.file /\ u.active = unit.active /\ u.runs = unit.runs
    BY <1>1, VendorEffect
  <2>3. unit' = DaemonReload(u).unit
    BY <2>1
  <2> HIDE DEF u
  <2>4. /\ unit' \in UnitTypes /\ Keeps(u, unit') /\ unit'.loaded = Fragment(u)
        /\ unit'.active = u.active /\ unit'.runs = u.runs
    BY <2>2, <2>3, ReloadEffect
  <2>5. unit.file # Null => Fragment(u) = Path("etc", unit.file)
    BY <2>2 DEF Fragment
  <2> QED
    BY <1>1, <1>6, <2>2, <2>4, <2>5 DEF Keeps, IsLoaded, RunsFile
<1>7. CASE Startable(unit) /\ unit' = Start(unit).unit /\ untold' = (untold \/ unit.loaded # Fragment(unit))
  <2>1. /\ unit' \in UnitTypes /\ Keeps(unit, unit') /\ unit'.loaded = unit.loaded
        /\ unit.loaded.as # Null => unit'.runs = unit.loaded.as.means
    BY <1>1, <1>7, StartEffect
  <2>2. unit.file # Null => Fragment(unit) = Path("etc", unit.file) /\ Path("etc", unit.file).as = unit.file
    BY DEF Fragment, Path
  <2>3. untold' \in BOOLEAN
    BY <1>1, <1>7
  <2> QED
    BY <1>1, <1>7, <2>1, <2>2, <2>3 DEF Keeps, IsLoaded, RunsFile
<1>8. CASE unit' = Stop(unit).unit /\ untold' = untold
  BY <1>1, <1>8, StopEffect DEF Keeps, IsLoaded, RunsFile
<1>9. CASE \E l \in {"enabled", "enabled-runtime", "disabled"} : unit' = [unit EXCEPT !.link = l] /\ untold' = untold
  <2>1. PICK l \in {"enabled", "enabled-runtime", "disabled"} : unit' = [unit EXCEPT !.link = l]
    BY <1>9
  <2>2. unit' = [file |-> unit.file, vendor |-> unit.vendor, kernel |-> unit.kernel, loaded |-> unit.loaded,
                 link |-> l, active |-> unit.active, runs |-> unit.runs]
    BY <1>1, <2>1, WithLink
  <2>3. unit' \in UnitTypes
    BY <1>1, <2>2, UnitFields DEF UnitTypes
  <2>4. unit'.file = unit.file /\ unit'.kernel = unit.kernel /\ unit'.loaded = unit.loaded
        /\ unit'.active = unit.active /\ unit'.runs = unit.runs
    BY <2>2
  <2> QED
    BY <1>1, <1>9, <2>3, <2>4 DEF IsLoaded, RunsFile
<1>10. CASE unit' = DaemonReload(unit).unit /\ untold' = untold
  <2>1. /\ unit' \in UnitTypes /\ Keeps(unit, unit') /\ unit'.loaded = Fragment(unit)
        /\ unit'.active = unit.active /\ unit'.runs = unit.runs
    BY <1>1, <1>10, ReloadEffect
  <2>2. unit.file # Null => Fragment(unit) = Path("etc", unit.file)
    BY DEF Fragment
  <2> QED
    BY <1>1, <1>10, <2>1, <2>2 DEF Keeps, IsLoaded, RunsFile
<1> HIDE DEF Same
<1> QED
  BY <1>3, <1>4, <1>5, <1>6, <1>7, <1>8, <1>9, <1>10 DEF OthersAct

(* The steps of a destroy, and the write of the file.                       *)
LEMMA StopStep ==
    ASSUME TextsTyped, Types, StopUnit
    PROVE  /\ unit' \in UnitTypes /\ Keeps(unit, unit') /\ unit'.link = unit.link /\ unit'.loaded = unit.loaded
           /\ unit'.active = "inactive" /\ pc = "stop"
           /\ pc' = IF unit.file # Null THEN "disable" ELSE "unloaded"
           /\ UNCHANGED <<config, state, tainted, op, plan, done, raced, lost, configs, foreign, faults, shape,
                          preexisting, changed, semantic, enabled, err, wrote, untold, before, down>>
  BY StopEffect DEF StopUnit, Types, Goto, private, progress, resource, bounds

LEMMA DisableStep ==
    ASSUME TextsTyped, Types, DisableUnit
    PROVE  /\ unit' \in UnitTypes /\ Keeps(unit, unit') /\ unit'.link \in {unit.link, "disabled"}
           /\ unit.file # Null /\ unit.link = "enabled" => unit'.link = "disabled"
           /\ unit'.loaded = unit.loaded \/ unit'.loaded = Fragment(unit)
           /\ unit'.active = unit.active /\ unit'.runs = unit.runs
           /\ pc = "disable" /\ pc' = "unlink"
           /\ UNCHANGED <<config, state, tainted, op, plan, done, raced, lost, configs, foreign, faults, shape,
                          preexisting, changed, semantic, enabled, err, wrote, untold, before, down>>
<1>1. unit \in UnitTypes
  BY DEF Types
<1>2. unit.file # Null => Fragment(unit) # Null
  BY <1>1, UnitFields, FragmentEffect
<1>3. CASE unit' = unit /\ IsEnabled(unit) \notin {"enabled", "enabled-runtime"}
  BY <1>1, <1>2, <1>3 DEF DisableUnit, Goto, private, progress, resource, bounds, Keeps, IsEnabled
<1>4. CASE unit' = Disable(unit).unit
  BY <1>1, <1>2, <1>4, DisableEffect DEF DisableUnit, Goto, private, progress, resource, bounds
<1> QED
  BY <1>3, <1>4 DEF DisableUnit

LEMMA UnlinkStep ==
    ASSUME TextsTyped, Types, Unlink
    PROVE  /\ unit' \in UnitTypes /\ unit'.file = Null /\ unit'.vendor = unit.vendor /\ unit'.kernel = unit.kernel
           /\ unit'.link = unit.link /\ unit'.loaded = unit.loaded
           /\ unit'.active = unit.active /\ unit'.runs = unit.runs
           /\ pc = "unlink" /\ pc' = "unloaded" /\ changed' = TRUE
           /\ UNCHANGED <<config, state, tainted, op, plan, done, raced, lost, configs, foreign, faults, shape,
                          preexisting, semantic, enabled, err, wrote, untold, before, down>>
<1>1. unit' = [unit EXCEPT !.file = Null] /\ unit \in UnitTypes
  BY DEF Unlink, Types
<1>2. /\ unit' \in UnitTypes /\ unit'.file = Null /\ unit'.vendor = unit.vendor /\ unit'.kernel = unit.kernel
      /\ unit'.link = unit.link /\ unit'.loaded = unit.loaded /\ unit'.active = unit.active /\ unit'.runs = unit.runs
  BY <1>1, FileEffect
<1>3. /\ pc = "unlink" /\ pc' = "unloaded" /\ changed' = TRUE
      /\ UNCHANGED <<config, state, tainted, op, plan, done, raced, lost, configs, foreign, faults, shape,
                     preexisting, semantic, enabled, err, wrote, untold, before, down>>
  BY DEF Unlink, Goto, private, resource, bounds
<1> QED
  BY <1>2, <1>3

LEMMA UnloadStep ==
    ASSUME TextsTyped, Types, Unload
    PROVE  /\ unit' \in UnitTypes /\ Keeps(unit, unit') /\ unit'.link = unit.link
           /\ unit'.active = unit.active /\ unit'.runs = unit.runs
           /\ unit'.loaded = IF changed THEN Fragment(unit) ELSE unit.loaded
           /\ pc = "unloaded" /\ pc' = "idle" /\ op' = "none" /\ state' = Null /\ plan' = Null
           /\ tainted' = FALSE /\ done' = ~raced /\ untold' = FALSE
           /\ UNCHANGED <<config, raced, lost, configs, foreign, faults, shape, preexisting,
                          changed, semantic, enabled, err, wrote, before, down>>
<1>1. unit \in UnitTypes
  BY DEF Types
<1>2. CASE changed
  BY <1>1, <1>2, ReloadEffect DEF Unload, Succeeded, private, bounds
<1>3. CASE ~changed
  BY <1>1, <1>3 DEF Unload, Succeeded, private, bounds, Keeps
<1> QED
  BY <1>2, <1>3

\* The file is written, or there is one that is not ours to replace.
LEMMA WriteStep ==
    ASSUME TextsTyped, Types, WriteFile
    PROVE  /\ pc = "write" /\ op \in {"create", "update"} /\ plan.file \in Texts
           /\ \/ /\ unit' = unit /\ ((op = "create" /\ unit.file # Null) \/ unit.file = Symlink)
                 /\ pc' = "idle" /\ op' = "none" /\ plan' = Null /\ done' = FALSE
                 /\ UNCHANGED <<state, tainted, changed, semantic, wrote, untold, before, err, enabled, down>>
              \/ /\ unit' \in UnitTypes /\ unit'.file = plan.file /\ unit'.vendor = unit.vendor
                 /\ unit'.kernel = unit.kernel /\ unit'.link = unit.link /\ unit'.loaded = unit.loaded
                 /\ unit'.active = unit.active /\ unit'.runs = unit.runs
                 /\ op = "create" => unit.file = Null
                 /\ changed' = (unit.file # plan.file) /\ wrote' = changed'
                 /\ semantic' = (unit.file = Null \/ unit.file.means # plan.file.means)
                 /\ before' = IF op = "create" THEN unit.active ELSE before
                 /\ untold' = (untold /\ ~semantic') /\ pc' = "reload"
                 /\ UNCHANGED <<state, tainted, op, plan, done, err, enabled, down>>
           /\ UNCHANGED <<config, raced, lost, configs, foreign, faults, shape, preexisting>>
<1>1. unit \in UnitTypes /\ pc = "write"
  BY DEF Types, WriteFile
<1>2. op \in {"create", "update"} /\ plan \in Options
  BY <1>1 DEF Types, Steps, Converging
<1>3. plan.file \in Texts
  BY <1>2 DEF Texts
<1>4. CASE (op = "create" /\ unit.file # Null) \/ unit.file = Symlink
  <2>1. Failed(Null) /\ UNCHANGED <<unit, progress, private>>
    BY <1>4 DEF WriteFile
  <2>2. tainted' = tainted
    BY <2>1 DEF Failed, Types
  <2> QED
    BY <1>1, <1>2, <1>3, <1>4, <2>1, <2>2 DEF Failed, bounds, private, progress
<1>5. CASE ~((op = "create" /\ unit.file # Null) \/ unit.file = Symlink)
  <2>1. unit' = [unit EXCEPT !.file = plan.file]
    BY <1>5 DEF WriteFile
  <2>2. plan.file \in AllFiles \cup {Null}
    BY <1>3 DEF AllFiles, Texts
  <2>3. /\ unit' \in UnitTypes /\ unit'.file = plan.file /\ unit'.vendor = unit.vendor
        /\ unit'.kernel = unit.kernel /\ unit'.link = unit.link /\ unit'.loaded = unit.loaded
        /\ unit'.active = unit.active /\ unit'.runs = unit.runs
    BY <1>1, <2>1, <2>2, FileEffect
  <2>4. /\ changed' = (unit.file # plan.file) /\ wrote' = changed'
        /\ semantic' = (unit.file = Null \/ unit.file.means # plan.file.means)
        /\ before' = IF op = "create" THEN unit.active ELSE before
        /\ untold' = (untold /\ ~semantic') /\ pc' = "reload"
        /\ UNCHANGED <<config, raced, lost, configs, foreign, faults, shape, preexisting>>
        /\ UNCHANGED <<state, tainted, op, plan, done, err, enabled, down>>
    BY <1>5 DEF WriteFile, Goto, resource, bounds, private
  <2> QED
    BY <1>1, <1>2, <1>3, <1>5, <2>3, <2>4
<1> QED
  BY <1>4, <1>5

LEMMA FoundTyped ==
    ASSUME TextsTyped, Types, NEW m, m.restart \in BOOLEAN
    PROVE  /\ unit.file = Null => Found(m) = Null
           /\ unit.file # Null => Found(m) \in States /\ Found(m) # Null
<1>1. unit.file \in AllFiles \cup {Null}
  BY UnitFields DEF Types
<1>2. UnitFileEnabled(IsEnabled(unit)) \in BOOLEAN /\ UnitRunState(IsActive(unit)) \in {"running", "stopped"}
  BY DEF UnitFileEnabled, UnitRunState
<1>3. ASSUME unit.file # Null PROVE Found(m) \in States
  BY <1>1, <1>2, <1>3 DEF Found, StateOf, States
<1>4. Null \notin States
  BY DEF TextsTyped
<1> QED
  BY <1>3, <1>4 DEF Found

\* What the end of a create or an update stores.
LEMMA SaveStep ==
    ASSUME TextsTyped, Types, Save, NEW s, s = Found(StateOf(plan.file, plan.enabled, plan.state, plan.restart))
    PROVE  /\ pc = "save" /\ pc' = "idle" /\ op' = "none" /\ plan' = Null /\ unit' = unit /\ untold' = Untold
           /\ op \in {"create", "update"} /\ plan = config /\ config \in Options
           /\ tainted' \in BOOLEAN /\ done' \in BOOLEAN
           /\ unit.file \in {Null, Symlink} => state' = state /\ ~done'
           /\ unit.file \notin {Null, Symlink} => state' = s /\ s \in States /\ s # Null
           /\ done' => ~Differs(plan, s)
           /\ UNCHANGED <<config, raced, lost, configs, foreign, faults, shape, preexisting,
                          changed, semantic, enabled, err, wrote, before, down>>
<1>1. pc = "save" /\ op \in {"create", "update"} /\ plan = config /\ config \in Options /\ raced \in BOOLEAN
      /\ tainted \in BOOLEAN
  BY DEF Save, Types, Steps, Converging
<1>2. plan.restart \in BOOLEAN
  BY <1>1 DEF TextsTyped
<1>3. StateOf(plan.file, plan.enabled, plan.state, plan.restart).restart \in BOOLEAN
  BY <1>2 DEF StateOf
<1>4. (unit.file = Null => s = Null) /\ (unit.file # Null => s \in States /\ s # Null)
  BY <1>3, FoundTyped
<1>5. /\ IF s = Null \/ unit.file = Symlink THEN Failed(Null)
         ELSE IF err \/ Differs(plan, s) THEN Failed(s) ELSE Succeeded(s)
      /\ untold' = Untold /\ UNCHANGED <<private, unit, changed, semantic, enabled, err, wrote, before, down>>
  BY DEF Save
<1> QED
  BY <1>1, <1>4, <1>5 DEF Failed, Succeeded, bounds, private

LEMMA UnitTypesInit == ASSUME TextsTyped, Init PROVE Types
<1>1. unit = Absent \/ (unit = Mounted("active") /\ shape = "mount")
  BY DEF Init
<1>2. Absent \in UnitTypes /\ ~Absent.kernel
  BY DEF Absent, UnitTypes
<1>3. Mounted("active") \in UnitTypes
  <2> DEFINE p == Path("kernel", Null)
             k == TRUE
             u == [file |-> Null, vendor |-> Null, kernel |-> k, loaded |-> p, link |-> "disabled",
                   active |-> "active", runs |-> Null]
  <2>1. p \in Paths /\ k \in BOOLEAN
    BY DEF Path, Paths
  <2>2. Mounted("active") = u
    BY DEF Mounted
  <2> HIDE DEF p, k
  <2>3. u \in UnitTypes
    BY <2>1 DEF UnitTypes
  <2> HIDE DEF u
  <2> QED
    BY <2>2, <2>3
<1> HIDE DEF Absent
<1>4. unit \in UnitTypes /\ (unit.kernel => shape = "mount")
  BY <1>1, <1>2, <1>3
<1> QED
  BY <1>4 DEF Init, LifecycleInit, Types, Steps, Converging

\* What does not depend on the unit keeps its type when the operation ends.
LEMMA TypesEnded ==
    ASSUME Types, UNCHANGED <<config, shape>>, unit' \in UnitTypes, unit'.kernel => shape = "mount",
           pc' = "idle", op' = "none", state' \in States \cup {Null},
           preexisting' \in BOOLEAN, changed' \in BOOLEAN, semantic' \in BOOLEAN, enabled' \in BOOLEAN,
           err' \in BOOLEAN, wrote' \in BOOLEAN, untold' \in BOOLEAN, down' \in BOOLEAN,
           before' \in {"active", "inactive", "failed", Null},
           tainted' \in BOOLEAN, done' \in BOOLEAN, raced' \in BOOLEAN, lost' \in BOOLEAN,
           foreign' \in Nat, faults' \in Nat
    PROVE  Types'
<1>1. config' # Null => Valid(config)'
  BY DEF Types, Valid, Template
<1> QED
  BY <1>1 DEF Types, Steps, Converging

LEMMA TypesConfigured ==
    ASSUME Types, op = "none", config' # Null => config' \in Options /\ Valid(config)', done' \in BOOLEAN,
           UNCHANGED <<shape, unit, preexisting, changed, semantic, enabled, err, wrote, untold, before, down,
                       state, tainted, pc, op, plan, raced, lost, foreign, faults>>
    PROVE  Types'
  BY DEF Types

LEMMA TypesMoved ==
    ASSUME Types, UNCHANGED <<config, shape, state, op, plan, preexisting, tainted, lost, faults>>, unit' \in UnitTypes,
           unit'.kernel => shape = "mount", pc' \in Steps[op],
           changed' \in BOOLEAN, semantic' \in BOOLEAN, enabled' \in BOOLEAN,
           err' \in BOOLEAN, wrote' \in BOOLEAN, untold' \in BOOLEAN, down' \in BOOLEAN,
           before' \in {"active", "inactive", "failed", Null}, raced' \in BOOLEAN, done' \in BOOLEAN, foreign' \in Nat
    PROVE  Types'
<1>1. config' # Null => Valid(config)'
  BY DEF Types, Valid, Template
<1> QED
  BY <1>1 DEF Types, Steps, Converging

LEMMA UnitTypesStep == ASSUME TextsTyped, Types, Next PROVE Types'
<1>1. /\ unit \in UnitTypes /\ (unit.kernel => shape = "mount")
      /\ preexisting \in BOOLEAN /\ changed \in BOOLEAN /\ semantic \in BOOLEAN /\ enabled \in BOOLEAN
      /\ err \in BOOLEAN /\ wrote \in BOOLEAN /\ untold \in BOOLEAN /\ down \in BOOLEAN
      /\ before \in {"active", "inactive", "failed", Null}
      /\ tainted \in BOOLEAN /\ done \in BOOLEAN /\ raced \in BOOLEAN /\ lost \in BOOLEAN
      /\ foreign \in Nat /\ faults \in Nat /\ state \in States \cup {Null}
      /\ pc = "idle" <=> op = "none"
      /\ pc \in Steps[op] /\ op \in {"none", "create", "update", "delete"}
      /\ unit.active \in {"active", "inactive", "failed"} /\ unit.file \in AllFiles \cup {Null}
  BY UnitFields DEF Types, Steps, Converging
<1>2. state # Null => state.restart \in BOOLEAN
  BY <1>1 DEF States
<1>3. CASE Configure
  <2>1. /\ op' = op /\ pc' = pc /\ plan' = plan /\ op = "none" /\ shape' = shape /\ unit' = unit /\ state' = state
        /\ tainted' = tainted /\ done' \in BOOLEAN /\ raced' = raced /\ lost' = lost /\ foreign' = foreign /\ faults' = faults
        /\ UNCHANGED <<preexisting, changed, semantic, enabled, err, wrote, untold, before, down>>
    BY <1>1, <1>3 DEF Configure, Configured, Idle, running, private, progress
  <2>2. config' # Null => config' \in Options /\ Valid(config')
    BY <1>3 DEF Configure, Configured
  <2>3. config' # Null => config' \in Options /\ Valid(config)'
    BY <2>1, <2>2 DEF Valid, Template
  <2> QED
    BY <1>1, <2>1, <2>3, TypesConfigured
<1>4. CASE Refresh
  <2>1. /\ pc = "idle" /\ state # Null /\ state' = Found(state) /\ UNCHANGED <<unit, shape, config, pc, op, raced, lost, foreign, faults>>
        /\ tainted' = (tainted /\ Found(state) # Null) /\ done' = (done /\ state # Null)
        /\ UNCHANGED <<preexisting, changed, semantic, enabled, err, wrote, untold, before, down>>
    BY <1>4 DEF Refresh, Refreshed, Idle, running, bounds, private, progress
  <2>2. Found(state) \in States \cup {Null}
    BY <1>2, <2>1, FoundTyped
  <2>3. tainted' \in BOOLEAN /\ done' \in BOOLEAN
    BY <2>1
  <2> QED
    BY <1>1, <2>1, <2>2, <2>3, TypesEnded
<1>5. CASE Import
  <2> DEFINE m == StateOf(Null, Null, Null, TRUE)
  <2>1. /\ pc = "idle" /\ state' = Found(m) /\ UNCHANGED <<unit, shape, config, pc, op, raced, lost, foreign, faults>>
        /\ tainted' = (tainted /\ Found(m) # Null) /\ done' = (done /\ state # Null)
        /\ preexisting' = FALSE /\ before' = Null
        /\ UNCHANGED <<changed, semantic, enabled, err, wrote, untold, down>>
    BY <1>5 DEF Import, Refreshed, Idle, running, bounds
  <2>2. Found(m) \in States \cup {Null}
    <3>1. m.restart = TRUE
      BY DEF StateOf
    <3>2. ASSUME NEW x, x.restart = TRUE PROVE Found(x) \in States \cup {Null}
      <4>1. x.restart \in BOOLEAN
        BY <3>2
      <4> QED
        BY <4>1, FoundTyped
    <3> QED
      BY <3>1, <3>2
  <2>3. tainted' \in BOOLEAN /\ done' \in BOOLEAN
    BY <2>1
  <2> HIDE DEF m
  <2> QED
    BY <1>1, <2>1, <2>2, <2>3, TypesEnded
<1>6. CASE BeginCreate \/ BeginUpdate \/ BeginDelete
  <2>1. /\ op = "none" /\ UNCHANGED <<config, state, tainted, lost, foreign, faults, unit, shape, untold, before>> /\ done' = FALSE
        /\ changed' \in BOOLEAN /\ semantic' = FALSE /\ enabled' = FALSE /\ err' = FALSE /\ wrote' = FALSE /\ down' = FALSE
        /\ preexisting' \in BOOLEAN /\ raced' \in BOOLEAN
    <3>1. CASE BeginCreate
      BY <1>1, <3>1 DEF BeginCreate, Begin, Fresh, Idle, resource, bounds
    <3>2. CASE BeginUpdate
      BY <1>1, <3>2 DEF BeginUpdate, Begin, Fresh, Idle, resource, bounds, private
    <3>3. CASE BeginDelete
      BY <1>1, <3>3 DEF BeginDelete, Begin, Idle, resource, bounds, private, Ours
    <3> QED
      BY <1>6, <3>1, <3>2, <3>3
  <2>2. \/ op' = "create" /\ pc' = "write" /\ plan' = config /\ config # Null /\ state = Null
        \/ op' = "update" /\ pc' = "write" /\ plan' = config /\ config # Null /\ state # Null
        \/ op' = "delete" /\ pc' \in {"left", "stop", "disable", "unloaded"} /\ plan' = state /\ state # Null
    BY <1>6 DEF BeginCreate, BeginUpdate, BeginDelete, Begin
  <2>3. config' # Null => config' \in Options /\ Valid(config)'
    BY <2>1 DEF Types, Valid, Template
  <2>4. pc' \in Steps[op'] /\ op' \in {"create", "update", "delete"}
    BY <2>2 DEF Steps
  <2> QED
    BY <1>1, <2>1, <2>2, <2>3, <2>4 DEF Types
<1>7. CASE WriteFile
  <2>1. before' \in {"active", "inactive", "failed", Null} /\ unit' \in UnitTypes /\ unit'.kernel = unit.kernel
        /\ pc = "write" /\ op \in {"create", "update"}
        /\ changed' \in BOOLEAN /\ semantic' \in BOOLEAN /\ wrote' \in BOOLEAN /\ untold' \in BOOLEAN
        /\ UNCHANGED <<enabled, err, down, tainted, state, config, raced, lost, foreign, faults, shape, preexisting>>
        /\ done' \in BOOLEAN
        /\ \/ pc' = "idle" /\ op' = "none"
           \/ pc' = "reload" /\ op' = op /\ plan' = plan
    BY <1>1, <1>7, WriteStep
  <2>2. CASE pc' = "idle" /\ op' = "none"
    BY <1>1, <2>1, <2>2, TypesEnded
  <2>3. CASE pc' = "reload" /\ op' = op /\ plan' = plan
    <3>1. pc' \in Steps[op]
      BY <2>1, <2>3 DEF Steps, Converging
    <3> QED
      BY <1>1, <2>1, <2>3, <3>1, TypesMoved
  <2> QED
    BY <2>1, <2>2, <2>3
<1>8. ASSUME NEW next \in Converging, Moved(next), op \in {"create", "update"} PROVE Types'
  <2>1. pc' \in Steps[op]
    BY <1>8 DEF Moved, Steps, Converging
  <2> QED
    BY <1>1, <1>8, <2>1, TypesMoved DEF Moved, Keeps
<1>9. CASE Reload \/ Reenabled \/ Restart \/ SetUnitEnabled \/ SetUnitRunState
  <2>1. op \in {"create", "update"}
    <3>1. pc \in {"reload", "reenable", "restart", "enable", "run"}
      BY <1>9 DEF Reload, Reenabled, Restart, SetUnitEnabled, SetUnitRunState
    <3> QED
      BY <1>1, <3>1 DEF Steps
  <2> QED
    BY <1>8, <1>9, <2>1, ReloadStep, ReenabledStep, RestartStep, EnabledStep, RunStep DEF Converging
<1>10. CASE Save
  <2> DEFINE s == Found(StateOf(plan.file, plan.enabled, plan.state, plan.restart))
  <2>1. state' \in States \cup {Null}
    BY <1>1, <1>10, SaveStep
  <2>2. Untold \in BOOLEAN
    BY <1>1 DEF Untold
  <2> QED
    BY <1>1, <1>10, <2>1, <2>2, SaveStep, TypesEnded
<1>11. CASE LeaveFile
  <2>1. state' = Null /\ tainted' \in BOOLEAN /\ done' \in BOOLEAN /\ pc' = "idle" /\ op' = "none"
        /\ UNCHANGED <<config, shape, unit, preexisting, changed, semantic, enabled, err, wrote, untold, before, down,
                       raced, lost, foreign, faults>>
    BY <1>1, <1>11 DEF LeaveFile, Succeeded, bounds, private, progress
  <2>2. /\ unit' \in UnitTypes /\ (unit'.kernel => shape = "mount") /\ state' \in States \cup {Null}
        /\ preexisting' \in BOOLEAN /\ changed' \in BOOLEAN /\ semantic' \in BOOLEAN /\ enabled' \in BOOLEAN
        /\ err' \in BOOLEAN /\ wrote' \in BOOLEAN /\ untold' \in BOOLEAN /\ down' \in BOOLEAN
        /\ before' \in {"active", "inactive", "failed", Null}
        /\ raced' \in BOOLEAN /\ lost' \in BOOLEAN /\ foreign' \in Nat /\ faults' \in Nat
    BY <1>1, <2>1
  <2> QED
    BY <2>1, <2>2, TypesEnded
<1>12. CASE StopUnit
  <2>1. pc' \in Steps[op]
    BY <1>1, <1>12, StopStep DEF Steps, Converging
  <2> QED
    BY <1>1, <1>12, <2>1, StopStep, TypesMoved DEF Keeps
<1>13. CASE DisableUnit
  <2>1. pc' \in Steps[op]
    BY <1>1, <1>13, DisableStep DEF Steps, Converging
  <2> QED
    BY <1>1, <1>13, <2>1, DisableStep, TypesMoved DEF Keeps
<1>14. CASE Unlink
  <2>1. pc' \in Steps[op]
    BY <1>1, <1>14, UnlinkStep DEF Steps, Converging
  <2> QED
    BY <1>1, <1>14, <2>1, UnlinkStep, TypesMoved
<1>15. CASE Unload
  BY <1>1, <1>15, UnloadStep, TypesEnded DEF Keeps
<1>16. CASE CommandFails
  <2>1. pc' \in Steps[op] /\ faults' \in Nat
    BY <1>1, <1>16 DEF CommandFails, Steps, Converging
  <2>2. config' # Null => config' \in Options /\ Valid(config)'
    BY <1>16 DEF Types, Valid, Template, CommandFails, resource, private
  <2> QED
    BY <1>1, <1>16, <2>1, <2>2 DEF CommandFails, Types, resource, private
<1>17. CASE SystemdFails
  <2>1. state' = state /\ tainted' \in BOOLEAN /\ faults' \in Nat /\ untold' \in BOOLEAN
    BY <1>1, <1>17 DEF SystemdFails, Faulted
  <2> QED
    BY <1>1, <1>17, <2>1, TypesEnded DEF SystemdFails, Faulted, private
<1>18. CASE Kill
  <2>1. state' = state /\ tainted' = tainted /\ faults' \in Nat /\ untold' \in BOOLEAN /\ preexisting' \in BOOLEAN
    BY <1>1, <1>18 DEF Kill, Killed, resource
  <2> QED
    BY <1>1, <1>18, <2>1, TypesEnded DEF Kill, Killed, resource
<1>19. CASE OthersAct
  <2>1. pc' = pc /\ op' = op /\ pc' \in Steps[op] /\ foreign' \in Nat
    BY <1>1, <1>19, OthersStep
  <2> QED
    BY <1>1, <1>19, <2>1, OthersStep, TypesMoved
<1> QED
  BY <1>3, <1>4, <1>5, <1>6, <1>7, <1>9, <1>10, <1>11, <1>12, <1>13, <1>14, <1>15, <1>16, <1>17, <1>18, <1>19 DEF Next

(* The other steps, in one place.                                           *)
LEMMA QuietSteps ==
    ASSUME Types, Configure \/ Refresh
    PROVE  /\ pc = "idle" /\ op = "none"
           /\ UNCHANGED <<unit, shape, preexisting, changed, semantic, enabled, err, wrote, untold, before, down,
                          pc, op, plan, raced, lost, foreign, faults>>
           /\ Configure => state' = state /\ done' = FALSE
           /\ Refresh => state # Null /\ state' = Found(state) /\ config' = config /\ unit.file # Symlink /\ done' = done
<1>1. pc = "idle" => op = "none"
  BY DEF Types, Steps, Converging
<1>2. CASE Configure
  BY <1>1, <1>2 DEF Configure, Configured, Idle, running, private, progress, Refresh, Refreshed
<1>3. CASE Refresh
  BY <1>1, <1>3 DEF Refresh, Refreshed, Idle, running, bounds, private, progress, Configure, Configured, Types
<1> QED
  BY <1>2, <1>3

LEMMA ImportStep ==
    ASSUME Types, Import
    PROVE  /\ pc = "idle" /\ op = "none" /\ state = Null /\ unit.file \notin {Null, Symlink}
           /\ preexisting' = FALSE /\ before' = Null /\ ~done'
           /\ UNCHANGED <<unit, shape, changed, semantic, enabled, err, wrote, untold, down,
                          pc, op, plan, raced, lost, foreign, faults>>
<1>1. pc = "idle" => op = "none"
  BY DEF Types, Steps, Converging
<1> QED
  BY <1>1 DEF Import, Refreshed, Idle, running, bounds

LEMMA BeginSteps ==
    ASSUME Types, BeginCreate \/ BeginUpdate \/ BeginDelete
    PROVE  /\ pc = "idle" /\ op = "none" /\ done' = FALSE
           /\ semantic' = FALSE /\ err' = FALSE /\ wrote' = FALSE /\ down' = FALSE
           /\ UNCHANGED <<config, state, tainted, lost, foreign, faults, unit, shape, untold, before>>
           /\ \/ /\ op' = "create" /\ pc' = "write" /\ plan' = config /\ config # Null /\ state = Null
                 /\ changed' = FALSE /\ unit.file = Null
                 /\ preexisting' = (Show(unit) # Null /\ Show(unit).from = "kernel" /\ unit.active # "inactive")
              \/ /\ op' = "update" /\ pc' = "write" /\ plan' = config /\ config # Null /\ state # Null
                 /\ changed' = FALSE /\ preexisting' = preexisting
              \/ /\ op' = "delete" /\ plan' = state /\ state # Null /\ raced' = FALSE
                 /\ changed' = Ours /\ preexisting' = preexisting
                 /\ pc' = IF unit.file = Symlink THEN "left" ELSE IF Stops THEN "stop"
                          ELSE IF unit.file # Null THEN "disable" ELSE "unloaded"
<1>1. pc = "idle" => op = "none"
  BY DEF Types, Steps, Converging
<1>2. CASE BeginCreate
  BY <1>1, <1>2 DEF BeginCreate, Begin, Fresh, Idle, resource, bounds
<1>3. CASE BeginUpdate
  BY <1>1, <1>3 DEF BeginUpdate, Begin, Fresh, Idle, resource, bounds, private
<1>4. CASE BeginDelete
  BY <1>1, <1>4 DEF BeginDelete, Begin, Idle, resource, bounds, private
<1> QED
  BY <1>2, <1>3, <1>4

LEMMA LeaveStep ==
    ASSUME LeaveFile
    PROVE  /\ pc = "left" /\ pc' = "idle" /\ op' = "none" /\ state' = Null /\ done' = ~raced
           /\ UNCHANGED <<config, unit, shape, preexisting, changed, semantic, enabled, err, wrote, untold, before, down,
                          raced, lost, foreign, faults>>
  BY DEF LeaveFile, Succeeded, bounds, private, progress

LEMMA FailSteps ==
    ASSUME Types, CommandFails \/ SystemdFails \/ Kill
    PROVE  /\ pc # "idle" /\ op # "none" /\ faults' = faults + 1 /\ state' = state /\ config' = config
           /\ UNCHANGED <<unit, shape, changed, semantic, enabled, wrote, before, raced, foreign>>
           /\ \/ /\ CommandFails /\ pc \in Converging /\ pc # "save" /\ pc' = "save" /\ err' = TRUE
                 /\ UNCHANGED <<op, plan, done, lost, preexisting, untold, down>>
              \/ /\ SystemdFails /\ pc' = "idle" /\ op' = "none" /\ plan' = Null /\ done' = FALSE /\ pc # "write"
                 /\ down' = TRUE /\ untold' = (untold \/ wrote) /\ UNCHANGED <<lost, preexisting, err>>
              \/ /\ Kill /\ pc' = "idle" /\ op' = "none" /\ plan' = Null /\ done' = FALSE
                 /\ lost' = TRUE /\ untold' = (untold \/ wrote) /\ preexisting' = (preexisting /\ op # "create")
                 /\ UNCHANGED <<err, down>>
<1>1. op = "none" => pc = "idle"
  BY DEF Types, Steps
<1>2. CASE CommandFails
  BY <1>1, <1>2 DEF CommandFails, resource, private, Converging
<1>3. CASE SystemdFails
  BY <1>1, <1>3 DEF SystemdFails, Faulted, Idle, private
<1>4. CASE Kill
  BY <1>1, <1>4 DEF Kill, Killed, Idle, resource
<1> QED
  BY <1>2, <1>3, <1>4

LEMMA ConvergeSteps ==
    ASSUME TextsTyped, Types, Reload \/ Reenabled \/ Restart \/ SetUnitEnabled \/ SetUnitRunState
    PROVE  /\ pc \in {"reload", "reenable", "restart", "enable", "run"} /\ op \in {"create", "update"}
           /\ \E next \in Converging \ {"reload"} : Moved(next)
<1>1. pc \in {"reload", "reenable", "restart", "enable", "run"}
  BY DEF Reload, Reenabled, Restart, SetUnitEnabled, SetUnitRunState
<1>2. op \in {"create", "update"}
  BY <1>1 DEF Types, Steps
<1> QED
  BY <1>1, <1>2, ReloadStep, ReenabledStep, RestartStep, EnabledStep, RunStep DEF Converging

LEMMA ProgressStep == ASSUME TextsTyped, Types, Progress, Next PROVE Progress'
<1>1. /\ pc = "idle" <=> op = "none"
      /\ pc \in Steps[op] /\ op \in {"none", "create", "update", "delete"} /\ wrote \in BOOLEAN
  BY DEF Types, Steps, Converging
<1>2. ASSUME pc' = "idle", op' = "none" PROVE Progress'
  BY <1>2 DEF Progress
<1>3. CASE Configure \/ Refresh \/ Import
  BY <1>1, <1>2, <1>3, QuietSteps, ImportStep
<1>4. CASE BeginCreate \/ BeginUpdate \/ BeginDelete
  <2>1. /\ semantic' = FALSE /\ err' = FALSE /\ wrote' = FALSE /\ unit' = unit /\ shape' = shape
        /\ \/ op' \in {"create", "update"} /\ pc' = "write" /\ changed' = FALSE
           \/ /\ op' = "delete" /\ preexisting' = preexisting /\ raced' = FALSE
              /\ pc' = IF unit.file = Symlink THEN "left" ELSE IF Stops THEN "stop"
                       ELSE IF unit.file # Null THEN "disable" ELSE "unloaded"
    BY <1>4, BeginSteps
  <2>2. CASE op' \in {"create", "update"} /\ pc' = "write" /\ changed' = FALSE
    BY <2>1, <2>2 DEF Progress
  <2>3. CASE /\ op' = "delete" /\ preexisting' = preexisting /\ raced' = FALSE
             /\ pc' = IF unit.file = Symlink THEN "left" ELSE IF Stops THEN "stop"
                      ELSE IF unit.file # Null THEN "disable" ELSE "unloaded"
    <3>1. pc' = "stop" => ~preexisting /\ IF Template' THEN Ours' ELSE unit'.file # Null \/ Ours'
      BY <2>1, <2>3 DEF Stops, Template, Ours
    <3>2. pc' = "disable" => unit'.file # Null
      BY <2>1, <2>3
    <3>3. pc' \in {"left", "stop", "disable", "unloaded"}
      BY <2>3
    <3>4. pc' = "unloaded" => unit'.file = Null
      BY <2>1, <2>3
    <3> QED
      BY <2>1, <2>3, <3>1, <3>2, <3>3, <3>4 DEF Progress
  <2> QED
    BY <2>1, <2>2, <2>3
<1>5. CASE WriteFile
  <2>1. CASE pc' = "idle" /\ op' = "none"
    BY <1>2, <2>1
  <2>2. CASE pc' = "reload"
    <3>1. /\ pc = "write" /\ op \in {"create", "update"} /\ changed' = (unit.file # plan.file) /\ wrote' = changed'
          /\ semantic' = (unit.file = Null \/ unit.file.means # plan.file.means) /\ err' = err /\ op' = op
          /\ op = "create" => unit.file = Null
          /\ plan.file \in Texts
      BY <1>5, <2>2, WriteStep
    <3>2. plan.file # Null
      BY <3>1 DEF TextsTyped, AllFiles, Texts
    <3> QED
      BY <2>2, <3>1, <3>2 DEF Progress
  <2> QED
    BY <1>5, <2>1, <2>2, WriteStep
<1>6. CASE Reload \/ Reenabled \/ Restart \/ SetUnitEnabled \/ SetUnitRunState
  BY <1>6, ConvergeSteps DEF Progress, Moved, Converging
<1>7. CASE Save
  BY <1>2, <1>7, SaveStep
<1>8. CASE LeaveFile \/ Unload
  BY <1>2, <1>8, LeaveStep, UnloadStep
<1>9. CASE StopUnit
  BY <1>1, <1>9, StopStep DEF Progress, Keeps, Steps
<1>10. CASE DisableUnit \/ Unlink
  <2>1. /\ pc \in {"disable", "unlink"} /\ pc' \in {"unlink", "unloaded"} /\ op' = op
        /\ pc' = "unloaded" => unit'.file = Null
        /\ UNCHANGED <<semantic, err, wrote, raced, preexisting>>
    BY <1>10, DisableStep, UnlinkStep
  <2>2. op = "delete"
    BY <1>1, <2>1 DEF Steps, Converging
  <2> QED
    BY <2>1, <2>2 DEF Progress
<1>11. CASE CommandFails \/ SystemdFails \/ Kill
  <2>1. CASE pc' = "idle" /\ op' = "none"
    BY <1>2, <2>1
  <2>2. CASE pc' = "save"
    <3>1. pc \in Converging /\ op' = op /\ UNCHANGED <<changed, wrote, semantic>>
      BY <1>1, <1>11, <2>2, FailSteps
    <3>2. op # "delete" /\ pc # "write"
      BY <1>1, <3>1 DEF Steps, Converging
    <3> QED
      BY <2>2, <3>1, <3>2 DEF Progress
  <2> QED
    BY <1>11, <2>1, <2>2, FailSteps
<1>12. CASE OthersAct
  BY <1>12, OthersStep DEF Progress
<1> QED
  BY <1>3, <1>4, <1>5, <1>6, <1>7, <1>8, <1>9, <1>10, <1>11, <1>12 DEF Next

(* systemd keeps what it was told.                                          *)
LEMMA ToldAtRest ==
    ASSUME pc' \notin Converging \/ ~wrote', ~untold' /\ unit'.file # Null => IsLoaded' /\ RunsFile'
    PROVE  Told'
  BY DEF Told

\* A step of converge that leaves the running unit alone.
LEMMA ToldMoved ==
    ASSUME Types, Progress, Told, NEW next, Moved(next), pc \in Converging \ {"save"}, op \in {"create", "update"},
           unit.file # Null => (IsLoaded => IsLoaded'),
           pc = "reload" /\ wrote /\ unit.file # Null => IsLoaded',
           next # "idle", RunsFile => RunsFile',
           unit.file # Null /\ ~err' /\ RestartComes => RestartComes' \/ RunsFile' \/ (~IsLoaded /\ pc # "reload")
    PROVE  Told'
<1>1. unit'.file = unit.file /\ wrote' = wrote /\ untold' = untold /\ pc' # "idle" /\ ~err /\ wrote \in BOOLEAN
  BY DEF Moved, Keeps, Progress, Types, Converging
<1>2. ASSUME ~untold, unit.file # Null, ~wrote PROVE IsLoaded' /\ RunsFile'
  BY <1>2 DEF Told
<1>3. ASSUME ~untold, unit.file # Null, wrote, ~err' PROVE IsLoaded' /\ (RunsFile' \/ RestartComes')
  <2>1. (IsLoaded \/ pc = "reload") /\ (RunsFile \/ RestartComes)
    BY <1>1, <1>3 DEF Told
  <2> QED
    BY <1>3, <2>1
<1> QED
  BY <1>1, <1>2, <1>3 DEF Told, Idle

LEMMA ToldStep == ASSUME TextsTyped, Types, Progress, Told, Next PROVE Told'
<1>1. /\ pc = "idle" <=> op = "none"
      /\ pc \in Steps[op] /\ op \in {"none", "create", "update", "delete"} /\ wrote \in BOOLEAN /\ untold \in BOOLEAN
      /\ "idle" \notin Converging
  BY DEF Types, Steps, Converging
<1>2. unit \in UnitTypes /\ unit.file \in AllFiles \cup {Null}
  BY UnitFields DEF Types
<1>3. pc \notin Converging \/ ~wrote => (pc = "write" => ~wrote) /\ (op = "delete" => ~wrote)
  BY DEF Progress
<1>4. ASSUME Idle \/ ~wrote PROVE ~untold /\ unit.file # Null => IsLoaded /\ RunsFile
  BY <1>4 DEF Told
<1>5. unit.file # Null => Fragment(unit) = Path("etc", unit.file)
  BY DEF Fragment
<1>6. CASE Configure \/ Refresh \/ Import
  <2>1. pc = "idle" /\ pc' = pc /\ unit' = unit /\ untold' = untold
    BY <1>6, QuietSteps, ImportStep
  <2>2. ~untold' /\ unit'.file # Null => IsLoaded' /\ RunsFile'
    BY <1>4, <2>1 DEF IsLoaded, RunsFile, Idle
  <2> QED
    BY <1>1, <2>1, <2>2, ToldAtRest
<1>7. CASE BeginCreate \/ BeginUpdate \/ BeginDelete
  <2>1. pc = "idle" /\ wrote' = FALSE /\ unit' = unit /\ untold' = untold
    BY <1>7, BeginSteps
  <2>2. ~untold' /\ unit'.file # Null => IsLoaded' /\ RunsFile'
    BY <1>4, <2>1 DEF IsLoaded, RunsFile, Idle
  <2> QED
    BY <2>1, <2>2, ToldAtRest
<1>8. CASE WriteFile
  <2>1. pc = "write" /\ ~wrote
    BY <1>1, <1>8, WriteStep DEF Progress
  <2>2. CASE unit' = unit /\ pc' = "idle" /\ untold' = untold
    BY <1>1, <1>4, <2>1, <2>2, ToldAtRest DEF IsLoaded, RunsFile
  <2>3. CASE pc' = "reload"
    <3>1. /\ unit'.file = plan.file /\ unit'.loaded = unit.loaded /\ unit'.active = unit.active /\ unit'.runs = unit.runs
          /\ op \in {"create", "update"} /\ op' = op /\ plan.file # Null
          /\ wrote' = (unit.file # plan.file)
          /\ semantic' = (unit.file = Null \/ unit.file.means # plan.file.means)
          /\ before' = IF op = "create" THEN unit.active ELSE before
          /\ untold' = (untold /\ ~semantic') /\ err' = err
      <4>1. plan.file \in Texts
        BY <1>8, WriteStep
      <4>2. plan.file # Null
        BY <4>1 DEF TextsTyped, AllFiles, Texts
      <4> QED
        BY <1>8, <2>3, <4>2, WriteStep
    <3>2. ASSUME ~untold', ~wrote' PROVE IsLoaded' /\ RunsFile'
      BY <1>1, <1>4, <2>1, <3>1, <3>2 DEF IsLoaded, RunsFile
    <3>3. ASSUME ~untold' PROVE RunsFile' \/ RestartComes'
      <4>1. CASE semantic'
        BY <2>3, <3>1, <4>1 DEF RunsFile, RestartComes
      <4>2. CASE ~semantic'
        BY <1>1, <1>4, <2>1, <3>1, <3>3, <4>2 DEF RunsFile
      <4> QED
        BY <4>1, <4>2
    <3> QED
      BY <2>3, <3>2, <3>3 DEF Told, Idle
  <2> QED
    BY <1>8, <2>2, <2>3, WriteStep
<1>9. CASE Reload
  <2>1. /\ pc = "reload" /\ Moved("reenable") /\ unit'.active = unit.active /\ unit'.runs = unit.runs
        /\ unit'.loaded = IF changed THEN Fragment(unit) ELSE unit.loaded
        /\ op \in {"create", "update"}
    BY <1>1, <1>9, ReloadStep DEF Steps, Converging
  <2>2. changed = wrote /\ unit'.file = unit.file
    BY <2>1 DEF Progress, Moved, Keeps
  <2>3. wrote /\ unit.file # Null => IsLoaded'
    BY <1>5, <2>1, <2>2 DEF IsLoaded
  <2>4. unit.file # Null => (IsLoaded => IsLoaded')
    BY <1>5, <2>1, <2>2 DEF IsLoaded
  <2>5. RunsFile => RunsFile'
    BY <2>1, <2>2 DEF RunsFile
  <2>6. ~err' => (RestartComes => RestartComes')
    BY <2>1 DEF RestartComes, Moved
  <2> QED
    BY <2>1, <2>3, <2>4, <2>5, <2>6, ToldMoved DEF Converging
<1>10. CASE Reenabled
  <2>1. /\ pc = "reenable" /\ Moved("restart") /\ unit'.active = unit.active /\ unit'.runs = unit.runs
        /\ unit'.loaded = unit.loaded \/ unit'.loaded = Fragment(unit)
        /\ op \in {"create", "update"} /\ unit'.file = unit.file
    BY <1>1, <1>10, ReenabledStep DEF Steps, Converging, Moved, Keeps
  <2>4. unit.file # Null => (IsLoaded => IsLoaded')
    BY <1>5, <2>1 DEF IsLoaded
  <2>5. RunsFile => RunsFile'
    BY <2>1 DEF RunsFile
  <2>6. ~err' => (RestartComes => RestartComes')
    BY <2>1 DEF RestartComes, Moved
  <2> QED
    BY <2>1, <2>4, <2>5, <2>6, ToldMoved DEF Converging
<1>11. CASE Restart
  <2>1. /\ pc = "restart" /\ Moved("enable") /\ unit'.loaded = unit.loaded /\ unit'.file = unit.file
        /\ op \in {"create", "update"}
    BY <1>1, <1>11, RestartStep DEF Steps, Converging, Moved, Keeps
  <2>2. unit.file # Null => (IsLoaded => IsLoaded')
    BY <2>1 DEF IsLoaded
  <2>3. CASE unit.active = "active" /\ unit' = Start(unit).unit /\ err' = ~Start(unit).ok
    <3>1. /\ ~Startable(unit) => unit' = unit /\ err'
          /\ Startable(unit) /\ unit.loaded.as # Null => unit'.runs = unit.loaded.as.means
      BY <1>2, <2>3, StartEffect
    <3>2. IsLoaded /\ unit.file # Null => unit.loaded.as = unit.file
      BY DEF IsLoaded, Path
    <3> HIDE DEF Path
    <3>3. ~untold /\ unit.file # Null => /\ ~wrote => IsLoaded' /\ RunsFile'
                                         /\ wrote /\ ~err' => IsLoaded' /\ RunsFile'
      <4>1. pc # "reload" /\ ~err /\ pc \in Converging
        BY <2>1 DEF Progress, Converging
      <4>2. ~untold /\ unit.file # Null => IsLoaded /\ (~wrote => RunsFile)
        BY <4>1, <1>1 DEF Told
      <4>3. IsLoaded /\ unit.file # Null /\ Startable(unit) => RunsFile'
        BY <2>1, <3>1, <3>2 DEF RunsFile
      <4>4. ~Startable(unit) /\ RunsFile => RunsFile'
        BY <3>1 DEF RunsFile
      <4> QED
        BY <2>2, <3>1, <4>2, <4>3, <4>4
    <3>4. pc' # "idle" /\ unit'.file = unit.file /\ wrote' = wrote /\ untold' = untold
      BY <2>1 DEF Moved
    <3> QED
      BY <3>3, <3>4 DEF Told, Idle
  <2>4. CASE /\ unit' = unit /\ ~err'
             /\ \/ ~semantic \/ op = "create" \/ ~plan.restart \/ plan.state = "stopped"
                \/ unit.active # "active" \/ (Template /\ ~Ours)
    <3>1. IsLoaded /\ unit.file # Null => Ours
      <4>1. unit.file # Null => Path("etc", unit.file) # Null /\ Path("etc", unit.file).from = "etc"
        BY <1>2, <1>5, FragmentEffect, UnitFields DEF Path
      <4> QED
        BY <4>1 DEF IsLoaded, Ours
    <3>2. RunsFile => RunsFile'
      BY <2>4 DEF RunsFile
    <3>3. unit.file # Null => (RestartComes => RestartComes' \/ RunsFile' \/ (~IsLoaded /\ pc # "reload"))
      BY <2>1, <2>4, <3>1 DEF RestartComes, Moved, RunsFile
    <3>4. CASE unit.file # Null
      BY <2>1, <2>2, <3>2, <3>3, <3>4, ToldMoved DEF Converging
    <3>5. CASE unit.file = Null
      BY <2>1, <3>5 DEF Told
    <3> QED
      BY <3>4, <3>5
  <2> QED
    BY <1>11, <2>3, <2>4, RestartStep
<1>12. CASE SetUnitEnabled
  <2>1. /\ pc = "enable" /\ Moved("run") /\ unit'.active = unit.active /\ unit'.runs = unit.runs
        /\ unit'.loaded = unit.loaded \/ unit'.loaded = Fragment(unit)
        /\ op \in {"create", "update"} /\ unit'.file = unit.file
    BY <1>1, <1>12, EnabledStep DEF Steps, Converging, Moved, Keeps
  <2>4. unit.file # Null => (IsLoaded => IsLoaded')
    BY <1>5, <2>1 DEF IsLoaded
  <2>5. RunsFile => RunsFile'
    BY <2>1 DEF RunsFile
  <2>6. ~err' => (RestartComes => RestartComes')
    BY <2>1 DEF RestartComes, Moved
  <2> QED
    BY <2>1, <2>4, <2>5, <2>6, ToldMoved DEF Converging
<1>13. CASE SetUnitRunState
  <2>1. /\ pc = "run" /\ Moved("save") /\ unit'.loaded = unit.loaded /\ unit'.file = unit.file
        /\ op \in {"create", "update"}
    BY <1>1, <1>13, RunStep DEF Steps, Converging, Moved, Keeps
  <2>2. IsLoaded => IsLoaded'
    BY <2>1 DEF IsLoaded
  <2>3. CASE unit' = Start(unit).unit /\ plan.state = "running"
    <3>1. /\ ~Startable(unit) => unit' = unit
          /\ Startable(unit) /\ unit.loaded.as # Null => unit'.runs = unit.loaded.as.means
      BY <1>2, <2>3, StartEffect
    <3>2. IsLoaded => unit.loaded.as = unit.file
      BY DEF IsLoaded, Path
    <3>3. unit.file # Null /\ IsLoaded /\ Startable(unit) => RunsFile'
      BY <2>1, <3>1, <3>2 DEF RunsFile
    <3>4. ~Startable(unit) => (RunsFile => RunsFile') /\ (RestartComes => RestartComes')
      BY <2>1, <2>3, <3>1 DEF RunsFile, RestartComes, Moved
    <3>5. pc # "reload" /\ ~err /\ pc \in Converging
      BY <2>1 DEF Progress, Converging
    <3>6. pc' # "idle" /\ unit'.file = unit.file /\ wrote' = wrote /\ untold' = untold /\ pc' \in Converging
      BY <2>1 DEF Moved, Converging
    <3> QED
      BY <1>1, <2>2, <3>3, <3>4, <3>5, <3>6 DEF Told, Idle
  <2>4. CASE unit'.active = "inactive"
    BY <2>1, <2>2, <2>4, ToldMoved DEF Converging, RunsFile
  <2>5. CASE unit' = unit /\ (plan.state = "stopped" => unit.active # "active")
    <3>1. RunsFile => RunsFile'
      BY <2>5 DEF RunsFile
    <3>2. RestartComes => RestartComes' \/ RunsFile'
      BY <2>1, <2>5 DEF RestartComes, Moved, RunsFile
    <3> QED
      BY <2>1, <2>2, <3>1, <3>2, ToldMoved DEF Converging
  <2> QED
    BY <1>13, <2>3, <2>4, <2>5, RunStep
<1>14. CASE Save
  <2>1. /\ pc = "save" /\ pc' = "idle" /\ unit' = unit /\ untold' = Untold
    BY <1>14, SaveStep
  <2>2. ~Untold /\ unit.file # Null => IsLoaded /\ RunsFile
    BY <2>1 DEF Untold, Told, RestartComes, Converging
  <2>3. ~untold' /\ unit'.file # Null => IsLoaded' /\ RunsFile'
    BY <2>1, <2>2 DEF IsLoaded, RunsFile
  <2> QED
    BY <1>1, <2>1, <2>3, ToldAtRest
<1>15. CASE LeaveFile \/ StopUnit \/ DisableUnit
  <2>1. /\ pc \in {"left", "stop", "disable"} /\ wrote' = wrote /\ untold' = untold /\ unit'.file = unit.file
        /\ unit'.loaded = unit.loaded \/ unit'.loaded = Fragment(unit)
        /\ (unit'.active = unit.active /\ unit'.runs = unit.runs) \/ unit'.active = "inactive"
    BY <1>15, LeaveStep, StopStep, DisableStep DEF Keeps
  <2>2. ~wrote
    BY <1>1, <2>1 DEF Progress, Steps, Converging
  <2>3. ~untold' /\ unit'.file # Null => IsLoaded' /\ RunsFile'
    BY <1>4, <1>5, <2>1, <2>2 DEF IsLoaded, RunsFile
  <2> QED
    BY <2>1, <2>2, <2>3, ToldAtRest
<1>16. CASE Unlink
  BY <1>16, UnlinkStep DEF Told
<1>17. CASE Unload
  BY <1>17, UnloadStep DEF Progress, Keeps, Told
<1>18. CASE CommandFails \/ SystemdFails \/ Kill
  <2>1. unit' = unit /\ wrote' = wrote
    BY <1>18, FailSteps
  <2>2. IsLoaded' = IsLoaded /\ RunsFile' = RunsFile
    BY <2>1 DEF IsLoaded, RunsFile
  <2>3. CASE pc' = "idle" /\ untold' = (untold \/ wrote)
    BY <1>1, <1>4, <2>1, <2>2, <2>3, ToldAtRest
  <2>4. CASE pc' = "save" /\ err' = TRUE /\ untold' = untold
    BY <1>4, <2>1, <2>2, <2>4 DEF Told, Idle
  <2> QED
    BY <1>18, <2>3, <2>4, FailSteps
<1>19. CASE OthersAct
  <2>1. /\ ~untold' /\ unit'.file # Null => ~untold /\ unit.file # Null /\ (IsLoaded => IsLoaded') /\ (RunsFile => RunsFile')
        /\ UNCHANGED <<wrote, err, pc, op, plan, semantic, before>>
    BY <1>19, OthersStep
  <2>2. RestartComes' = RestartComes
    BY <2>1 DEF RestartComes
  <2> QED
    BY <2>1, <2>2 DEF Told, Idle
<1> QED
  BY <1>6, <1>7, <1>8, <1>9, <1>10, <1>11, <1>12, <1>13, <1>14, <1>15, <1>16, <1>17, <1>18, <1>19 DEF Next

(* A unit that nobody else touches.                                         *)
\* The operation ends, or nothing runs, and the unit is as it was.
LEMMA AloneAtRest ==
    ASSUME TextsTyped, Types, Alone, foreign' = foreign, pc' = "idle", unit' = unit, shape' = shape,
           \/ before' = before /\ (preexisting' => preexisting /\ (~Making \/ foreign # 0))
           \/ before' = Null /\ preexisting' = FALSE
    PROVE  Alone'
<1>1. before' # Null \/ before' # "inactive"
  BY DEF TextsTyped
<1>2. pc' \notin Converging \cup {"left", "write", "disable", "unlink", "stop", "unloaded"}
  BY DEF Converging
<1> QED
  BY <1>1, <1>2 DEF Alone, Making, Ours, Template

\* A step of converge.
LEMMA AloneMoved ==
    ASSUME TextsTyped, Types, Alone, NEW next \in Converging, Moved(next), pc \in Converging, op \in {"create", "update"},
           unit'.link \in {unit.link, "enabled", "disabled"},
           unit'.loaded = unit.loaded \/ unit'.loaded = Fragment(unit),
           foreign = 0 => (Template => unit'.active = "inactive")
    PROVE  Alone'
<1>1. pc' \in Converging /\ "write" \notin Converging
      /\ pc' \notin {"left", "write", "disable", "unlink", "stop", "unloaded"} /\ pc \notin {"left", "write"}
  BY DEF Moved, Converging
<1>2. plan.file # Null
  BY DEF Types, Texts, TextsTyped, AllFiles
<1>3. unit'.file = unit.file /\ unit'.vendor = unit.vendor /\ UNCHANGED <<op, plan, foreign, shape, before, preexisting>>
  BY DEF Moved, Keeps
<1>4. foreign = 0 => unit.file = plan.file /\ unit.vendor = Null /\ unit.file # Symlink /\ unit.link # "enabled-runtime"
  BY DEF Alone
<1>5. foreign = 0 => unit'.loaded = unit.loaded \/ unit'.loaded = Path("etc", unit.file)
  BY <1>2, <1>4 DEF Fragment
<1>6. foreign = 0 => (unit'.loaded # Null => unit'.loaded.from # "vendor")
  BY <1>5 DEF Alone, Path
<1>7. foreign = 0 => (~Making' /\ preexisting' => before' # "inactive")
  BY <1>1, <1>3 DEF Alone, Making
<1> QED
  BY <1>1, <1>2, <1>3, <1>4, <1>6, <1>7 DEF Alone, Making, Template

LEMMA AloneStep == ASSUME TextsTyped, Types, Progress, Alone, Next PROVE Alone'
<1>1. /\ pc = "idle" <=> op = "none"
      /\ pc \in Steps[op] /\ op \in {"none", "create", "update", "delete"}
      /\ foreign \in Nat /\ unit \in UnitTypes /\ preexisting \in BOOLEAN
  BY DEF Types, Steps, Converging
<1>2. /\ unit.file \in AllFiles \cup {Null} /\ unit.link \in {"enabled", "enabled-runtime", "disabled"}
      /\ unit.vendor \in Files \cup {Null} /\ unit.kernel \in BOOLEAN
  BY <1>1, UnitFields
<1>3. /\ unit.file # Null => Fragment(unit) = Path("etc", unit.file)
      /\ unit.file = Null /\ unit.vendor = Null => Fragment(unit) = Null \/ Fragment(unit).from = "kernel"
  BY <1>2, FragmentEffect
<1>4. CASE Configure \/ Refresh \/ Import
  <2>1. pc = "idle" /\ pc' = pc /\ unit' = unit /\ foreign' = foreign /\ shape' = shape
        /\ ((before' = before /\ preexisting' = preexisting) \/ (before' = Null /\ preexisting' = FALSE))
    BY <1>4, QuietSteps, ImportStep
  <2>2. ~Making
    BY <2>1 DEF Making
  <2>3. CASE before' = before /\ preexisting' = preexisting
    BY <2>1, <2>2, <2>3, AloneAtRest
  <2>4. CASE before' = Null /\ preexisting' = FALSE
    BY <2>1, <2>4, AloneAtRest
  <2> QED
    BY <2>1, <2>3, <2>4
<1>5. CASE BeginCreate \/ BeginUpdate \/ BeginDelete
  <2>1. /\ pc = "idle" /\ UNCHANGED <<foreign, unit, shape, before>>
        /\ \/ op' = "create" /\ pc' = "write" /\ unit.file = Null /\ (preexisting' => unit.active # "inactive")
           \/ op' = "update" /\ pc' = "write" /\ preexisting' = preexisting
           \/ /\ op' = "delete" /\ changed' = Ours /\ preexisting' = preexisting
              /\ pc' = IF unit.file = Symlink THEN "left" ELSE IF Stops THEN "stop"
                       ELSE IF unit.file # Null THEN "disable" ELSE "unloaded"
    BY <1>5, BeginSteps
  <2>2. pc' \notin Converging \cup {"unlink"} /\ Ours' = Ours /\ Template' = Template
    BY <2>1 DEF Converging, Ours, Template
  <2>3. CASE op' = "create" /\ pc' = "write" /\ unit.file = Null /\ (preexisting' => unit.active # "inactive")
    BY <2>1, <2>2, <2>3 DEF Alone, Making
  <2>4. CASE op' = "update" /\ pc' = "write" /\ preexisting' = preexisting
    BY <2>1, <2>2, <2>4 DEF Alone, Making
  <2>5. CASE /\ op' = "delete" /\ changed' = Ours /\ preexisting' = preexisting
             /\ pc' = IF unit.file = Symlink THEN "left" ELSE IF Stops THEN "stop"
                      ELSE IF unit.file # Null THEN "disable" ELSE "unloaded"
    <3>1. ASSUME foreign = 0 PROVE pc' # "left" /\ (pc' = "disable" => unit.file # Null)
      BY <2>5, <3>1 DEF Alone
    <3>2. ASSUME foreign = 0, pc' = "disable", before = "inactive" PROVE unit.active = "inactive"
      <4>1. ~Stops /\ unit.file # Null /\ ~preexisting
        BY <1>1, <2>1, <2>5, <3>2 DEF Alone, Making
      <4>2. Template
        BY <4>1 DEF Stops
      <4> QED
        BY <3>2, <4>2 DEF Alone
    <3>3. pc' \in {"stop", "unloaded"} => changed' \/ ~Ours'
      BY <2>2, <2>5
    <3>4. pc' # "write" /\ ~Making /\ ~Making'
      BY <2>1, <2>5 DEF Making
    <3> QED
      BY <2>1, <2>2, <2>5, <3>1, <3>2, <3>3, <3>4 DEF Alone
  <2> QED
    BY <2>1, <2>3, <2>4, <2>5
<1>6. CASE WriteFile
  <2>1. CASE unit' = unit /\ ((op = "create" /\ unit.file # Null) \/ unit.file = Symlink) /\ pc' = "idle"
    <3>1. UNCHANGED <<foreign, shape, before, preexisting>> /\ pc = "write"
      BY <1>6, <2>1, WriteStep
    <3>2. ~Making \/ foreign # 0
      BY <2>1, <3>1 DEF Alone, Making
    <3> QED
      BY <2>1, <3>1, <3>2, AloneAtRest
  <2>2. CASE pc' = "reload"
    <3>1. /\ pc = "write" /\ op' = op /\ plan' = plan /\ unit'.file = plan.file /\ unit'.vendor = unit.vendor
          /\ unit'.link = unit.link /\ unit'.active = unit.active /\ unit'.loaded = unit.loaded
          /\ before' = IF op = "create" THEN unit.active ELSE before
          /\ UNCHANGED <<foreign, shape, preexisting>>
          /\ plan.file \in Texts
      BY <1>6, <2>2, WriteStep
    <3>2. plan.file # Null /\ plan.file # Symlink
      BY <3>1 DEF TextsTyped, AllFiles, Texts
    <3>3. foreign = 0 => (preexisting' => before' # "inactive")
      BY <3>1 DEF Alone, Making
    <3>4. ~Making' /\ Template' = Template
      BY <2>2, <3>1 DEF Making, Template
    <3> QED
      BY <2>2, <3>1, <3>2, <3>3, <3>4 DEF Alone
  <2> QED
    BY <1>6, <2>1, <2>2, WriteStep
<1>7. CASE Reload \/ Reenabled \/ Restart \/ SetUnitEnabled \/ SetUnitRunState
  <2>1. /\ pc \in Converging /\ op \in {"create", "update"} /\ \E next \in Converging : Moved(next)
    BY <1>7, ConvergeSteps DEF Converging
  <2>2. unit'.link \in {unit.link, "enabled", "disabled"} /\ (unit'.loaded = unit.loaded \/ unit'.loaded = Fragment(unit))
    BY <1>7, ReloadStep, ReenabledStep, RestartStep, EnabledStep, RunStep
  <2>3. ASSUME foreign = 0, Template PROVE unit'.active = "inactive"
    <3>1. unit.active = "inactive" /\ plan.state = Null
      BY <2>1, <2>3 DEF Alone, Types, Valid
    <3>2. CASE Reload \/ Reenabled \/ SetUnitEnabled
      BY <3>1, <3>2, ReloadStep, ReenabledStep, EnabledStep
    <3>3. CASE Restart
      BY <3>1, <3>3, RestartStep
    <3>4. CASE SetUnitRunState
      BY <3>1, <3>4, RunStep
    <3> QED
      BY <1>7, <3>2, <3>3, <3>4
  <2> QED
    BY <2>1, <2>2, <2>3, AloneMoved
<1>8. CASE Save
  <2> DEFINE s == Found(StateOf(plan.file, plan.enabled, plan.state, plan.restart))
  <2>1. pc = "save" /\ pc' = "idle" /\ unit' = unit /\ UNCHANGED <<foreign, shape, before, preexisting>>
    BY <1>8, SaveStep
  <2> QED
    BY <2>1, AloneAtRest DEF Making
<1>9. CASE LeaveFile
  <2>1. pc = "left" /\ pc' = "idle" /\ unit' = unit /\ UNCHANGED <<foreign, shape, before, preexisting>>
    BY <1>9, LeaveStep
  <2> QED
    BY <2>1, AloneAtRest DEF Making
<1>10. CASE StopUnit
  <2>1. /\ pc = "stop" /\ pc' = (IF unit.file # Null THEN "disable" ELSE "unloaded")
        /\ unit'.file = unit.file /\ unit'.vendor = unit.vendor /\ unit'.link = unit.link /\ unit'.loaded = unit.loaded
        /\ unit'.active = "inactive" /\ UNCHANGED <<foreign, shape, before, preexisting, changed, op, plan>>
    BY <1>10, StopStep DEF Keeps
  <2>2. pc' \notin Converging /\ ~Making /\ ~Making' /\ Ours' = Ours
    BY <2>1 DEF Converging, Making, Ours
  <2> QED
    BY <2>1, <2>2 DEF Alone
<1>11. CASE DisableUnit
  <2>1. /\ pc = "disable" /\ pc' = "unlink" /\ unit'.file = unit.file /\ unit'.vendor = unit.vendor
        /\ unit'.link \in {unit.link, "disabled"} /\ (unit.file # Null /\ unit.link = "enabled" => unit'.link = "disabled")
        /\ unit'.loaded = unit.loaded \/ unit'.loaded = Fragment(unit)
        /\ unit'.active = unit.active /\ UNCHANGED <<foreign, shape, before, preexisting, changed, op, plan>>
    BY <1>11, DisableStep DEF Keeps
  <2>2. pc' \notin Converging /\ ~Making /\ ~Making' /\ Template' = Template
    BY <2>1 DEF Converging, Making, Template
  <2>3. ASSUME foreign = 0 PROVE unit.file # Null /\ unit'.link = "disabled" /\ (unit'.loaded # Null => unit'.loaded.from # "vendor")
    <3>1. unit.file # Null /\ unit.link # "enabled-runtime" /\ (unit.loaded # Null => unit.loaded.from # "vendor")
      BY <2>1, <2>3 DEF Alone
    <3> QED
      BY <1>2, <1>3, <2>1, <3>1 DEF Path
  <2> QED
    BY <2>1, <2>2, <2>3 DEF Alone
<1>12. CASE Unlink
  <2>1. /\ pc = "unlink" /\ pc' = "unloaded" /\ unit'.file = Null /\ unit'.vendor = unit.vendor
        /\ unit'.link = unit.link /\ unit'.loaded = unit.loaded /\ changed' = TRUE
        /\ unit'.active = unit.active /\ UNCHANGED <<foreign, shape, before, preexisting, op, plan>>
    BY <1>12, UnlinkStep
  <2>2. pc' \notin Converging /\ ~Making /\ ~Making' /\ Template' = Template
    BY <2>1 DEF Converging, Making, Template
  <2>3. Null # Symlink
    BY DEF TextsTyped, AllFiles
  <2> QED
    BY <2>1, <2>2, <2>3 DEF Alone
<1>13. CASE Unload
  <2>1. /\ pc = "unloaded" /\ pc' = "idle" /\ unit'.file = unit.file /\ unit'.vendor = unit.vendor
        /\ unit'.link = unit.link /\ unit'.active = unit.active
        /\ unit'.loaded = IF changed THEN Fragment(unit) ELSE unit.loaded
        /\ UNCHANGED <<foreign, shape, before, preexisting>>
    BY <1>13, UnloadStep DEF Keeps
  <2>2. pc' \notin Converging /\ ~Making /\ ~Making' /\ Template' = Template
    BY <2>1 DEF Converging, Making, Template
  <2>3. unit.file = Null
    BY <2>1 DEF Progress
  <2>4. foreign = 0 => (unit'.loaded # Null => unit'.loaded.from # "vendor")
    BY <1>3, <2>1, <2>3 DEF Alone
  <2> QED
    BY <2>1, <2>2, <2>3, <2>4 DEF Alone
<1>14. CASE CommandFails \/ SystemdFails \/ Kill
  <2>1. UNCHANGED <<unit, shape, before, foreign>>
    BY <1>14, FailSteps
  <2>2. CASE pc' = "save"
    <3>1. pc \in Converging /\ UNCHANGED <<op, plan, preexisting>>
      BY <1>14, <2>2, FailSteps
    <3>2. pc' \in Converging /\ ~Making /\ ~Making' /\ Template' = Template
      BY <2>1, <2>2, <3>1 DEF Converging, Making, Template
    <3> QED
      BY <2>1, <2>2, <3>1, <3>2 DEF Alone
  <2>3. CASE pc' = "idle"
    <3>1. preexisting' => preexisting /\ ~Making
      BY <1>1, <1>14, <2>3, FailSteps DEF Making
    <3> QED
      BY <2>1, <2>3, <3>1, AloneAtRest
  <2> QED
    BY <1>14, <2>2, <2>3, FailSteps
<1>15. CASE OthersAct
  <2>1. foreign' # 0
    BY <1>1, <1>15, OthersStep
  <2> QED
    BY <2>1 DEF Alone
<1> QED
  BY <1>4, <1>5, <1>6, <1>7, <1>8, <1>9, <1>10, <1>11, <1>12, <1>13, <1>14, <1>15 DEF Next

(* And nothing fails.                                                       *)
LEMMA RememberedStep == ASSUME TextsTyped, Types, Progress, Alone, Remembered, Next PROVE Remembered'
<1>1. /\ pc = "idle" <=> op = "none"
      /\ pc \in Steps[op] /\ op \in {"none", "create", "update", "delete"}
      /\ foreign \in Nat /\ faults \in Nat /\ unit \in UnitTypes /\ preexisting \in BOOLEAN
      /\ unit.active \in {"active", "inactive", "failed"}
      /\ "idle" \notin Converging /\ "write" \notin Converging
      /\ op = "create" => state = Null
      /\ op \in {"update", "delete"} => state # Null
  BY UnitFields DEF Types, Steps, Converging
<1>2. SUFFICES ASSUME foreign' = 0, faults' = 0, foreign = 0, faults = 0 PROVE Remembered'
  <2>1. CASE OthersAct
    <3>1. foreign' # 0
      BY <1>1, <2>1, OthersStep
    <3> QED
      BY <3>1 DEF Remembered
  <2>2. CASE CommandFails \/ SystemdFails \/ Kill
    <3>1. faults' # 0
      <4>1. faults' = faults + 1
        BY <2>2, FailSteps
      <4> QED
        BY <1>1, <4>1
    <3> QED
      BY <3>1 DEF Remembered
  <2>3. CASE ~OthersAct /\ ~(CommandFails \/ SystemdFails \/ Kill)
    <3>1. foreign' = foreign /\ faults' = faults
      <4>1. CASE Configure \/ Refresh \/ Import
        BY <4>1, QuietSteps, ImportStep
      <4>2. CASE BeginCreate \/ BeginUpdate \/ BeginDelete
        BY <4>2, BeginSteps
      <4>3. CASE WriteFile
        BY <4>3, WriteStep
      <4>4. CASE Reload \/ Reenabled \/ Restart \/ SetUnitEnabled \/ SetUnitRunState
        BY <4>4, ConvergeSteps DEF Moved
      <4>5. CASE Save
        BY <4>5, SaveStep
      <4>6. CASE LeaveFile \/ StopUnit \/ DisableUnit \/ Unlink \/ Unload
        BY <4>6, LeaveStep, StopStep, DisableStep, UnlinkStep, UnloadStep
      <4> QED
        BY <2>3, <4>1, <4>2, <4>3, <4>4, <4>5, <4>6 DEF Next
    <3> QED
      BY <1>2, <3>1 DEF Remembered
  <2> QED
    BY <2>1, <2>2, <2>3
<1>3. /\ unit.vendor = Null /\ unit.file # Symlink /\ pc # "left"
      /\ pc \in Converging => unit.file = plan.file
      /\ pc \in {"disable", "unlink"} => unit.file # Null
      /\ Making => unit.file = Null
      /\ pc \in {"stop", "unloaded"} => changed \/ ~Ours
      /\ before = "inactive" /\ (unit.file = Null \/ pc \in {"disable", "unlink"}) => unit.active = "inactive"
      /\ unit.loaded # Null => unit.loaded.from # "vendor"
  BY <1>2 DEF Alone
<1>4. /\ state = Null /\ op # "create" => unit.file = Null /\ ~Ours
      /\ state # Null /\ op # "delete" => unit.file # Null
      /\ unit.file # Null => before # Null
      /\ ~unit.kernel => before \in {Null, "inactive"} /\ (unit.file = Null => unit.active = "inactive")
      /\ Making /\ unit.kernel => preexisting = (unit.active # "inactive")
      /\ before = "active" /\ ~Making => preexisting
  BY <1>2 DEF Remembered
<1>5. op \in {"create", "update"} => plan.file \in Texts /\ plan.file # Null /\ plan.file # Symlink
  BY DEF Types, Texts, TextsTyped, AllFiles
<1>6. /\ unit.file \in AllFiles \cup {Null} /\ unit.loaded \in Paths \cup {Null}
      /\ unit.vendor \in Files \cup {Null} /\ unit.kernel \in BOOLEAN
  BY <1>1, UnitFields
<1>7. unit.file = Null => Fragment(unit) = Null \/ (unit.kernel /\ Fragment(unit).from = "kernel")
  BY <1>3, <1>6, FragmentEffect
<1>8. CASE Configure
  <2>1. UNCHANGED <<unit, state, op, pc, before, preexisting>>
    BY <1>8, QuietSteps
  <2> QED
    BY <1>4, <2>1 DEF Remembered, Making, Ours
<1>9. CASE Refresh
  <2>1. UNCHANGED <<unit, op, pc, before, preexisting>> /\ state # Null /\ state' = Found(state) /\ op = "none"
    BY <1>9, QuietSteps
  <2>2. unit.file # Null /\ state' # Null
    <3>1. state.restart \in BOOLEAN
      BY <2>1 DEF Types, States
    <3> QED
      BY <1>4, <2>1, <3>1, FoundTyped
  <2> QED
    BY <1>4, <2>1, <2>2 DEF Remembered, Making
<1>10. CASE Import
  BY <1>4, <1>10, ImportStep
<1>11. CASE BeginCreate \/ BeginUpdate \/ BeginDelete
  <2>1. /\ UNCHANGED <<unit, state, before>> /\ op = "none" /\ pc = "idle"
        /\ \/ /\ op' = "create" /\ pc' = "write" /\ state = Null
              /\ preexisting' = (Show(unit) # Null /\ Show(unit).from = "kernel" /\ unit.active # "inactive")
           \/ op' = "update" /\ preexisting' = preexisting /\ state # Null
           \/ op' = "delete" /\ preexisting' = preexisting /\ state # Null
    BY <1>11, BeginSteps
  <2>2. ~Making /\ Ours' = Ours
    BY <2>1 DEF Making, Ours
  <2>3. CASE /\ op' = "create" /\ pc' = "write" /\ state = Null
             /\ preexisting' = (Show(unit) # Null /\ Show(unit).from = "kernel" /\ unit.active # "inactive")
    <3>1. unit.file = Null /\ ~Ours
      BY <1>4, <2>1, <2>3
    <3>2. ASSUME unit.kernel PROVE Show(unit) # Null /\ Show(unit).from = "kernel"
      <4>1. CASE unit.loaded # Null
        <5>1. unit.loaded.from \in {"etc", "vendor", "kernel"}
          BY <1>6, <4>1 DEF Paths
        <5> QED
          BY <1>3, <3>1, <4>1, <5>1 DEF Show, Ours
      <4>2. CASE unit.loaded = Null
        <5>1. Fragment(unit) = Path("kernel", Null) /\ Fragment(unit) \in Paths \cup {Null}
          BY <1>3, <1>6, <3>1, <3>2, FragmentEffect DEF Fragment
        <5>2. Path("kernel", Null) \in Paths
          BY DEF Path, Paths
        <5>3. Fragment(unit) # Null
          BY <5>1, <5>2 DEF TextsTyped
        <5> QED
          BY <4>2, <5>1, <5>3 DEF Show, Path
      <4> QED
        BY <4>1, <4>2
    <3>3. unit.kernel => preexisting' = (unit.active # "inactive")
      BY <2>3, <3>2
    <3> QED
      BY <1>4, <2>1, <2>2, <2>3, <3>1, <3>3 DEF Remembered, Making
  <2>4. CASE op' \in {"update", "delete"} /\ preexisting' = preexisting /\ state # Null
    <3>1. ~Making'
      BY <2>4 DEF Making
    <3> QED
      BY <1>4, <2>1, <2>2, <2>4, <3>1 DEF Remembered
  <2> QED
    BY <2>1, <2>3, <2>4
<1>12. CASE WriteFile
  <2>1. pc = "write" /\ op \in {"create", "update"} /\ plan.file # Null
    BY <1>5, <1>12, WriteStep
  <2>2. ~((op = "create" /\ unit.file # Null) \/ unit.file = Symlink)
    BY <1>3, <2>1 DEF Making
  <2>3. /\ unit'.file = plan.file /\ unit'.kernel = unit.kernel /\ unit'.active = unit.active
        /\ before' = (IF op = "create" THEN unit.active ELSE before) /\ pc' = "reload"
        /\ UNCHANGED <<state, op, preexisting>>
    BY <1>12, <2>2, WriteStep
  <2>4. ~Making' /\ (Making <=> op = "create") /\ (op = "create" => unit.file = Null)
    BY <1>3, <2>1, <2>3 DEF Making
  <2>5. unit.active # Null
    BY <1>1 DEF TextsTyped
  <2>6. CASE op = "create"
    BY <1>1, <1>4, <2>1, <2>3, <2>4, <2>5, <2>6 DEF Remembered
  <2>7. CASE op = "update"
    BY <1>1, <1>4, <2>1, <2>3, <2>4, <2>7 DEF Remembered
  <2> QED
    BY <2>1, <2>6, <2>7
<1>13. CASE Reload \/ Reenabled \/ Restart \/ SetUnitEnabled \/ SetUnitRunState
  <2>1. /\ pc \in Converging /\ op \in {"create", "update"} /\ \E next \in Converging : Moved(next)
    BY <1>13, ConvergeSteps DEF Converging
  <2>2. unit'.file = unit.file /\ unit'.kernel = unit.kernel /\ UNCHANGED <<state, op, before, preexisting>> /\ pc' \in Converging
    BY <2>1 DEF Moved, Keeps, Converging
  <2>3. ~Making /\ ~Making' /\ unit.file # Null
    BY <1>1, <1>3, <1>5, <2>1, <2>2 DEF Making
  <2> QED
    BY <1>1, <1>4, <2>1, <2>2, <2>3 DEF Remembered
<1>14. CASE Save
  <2> DEFINE s == Found(StateOf(plan.file, plan.enabled, plan.state, plan.restart))
  <2>1. /\ pc = "save" /\ pc' = "idle" /\ op' = "none" /\ unit' = unit /\ UNCHANGED <<before, preexisting>>
        /\ op \in {"create", "update"}
        /\ unit.file \notin {Null, Symlink} => state' = s /\ s # Null
    BY <1>14, SaveStep
  <2> HIDE DEF s
  <2>2. unit.file \notin {Null, Symlink}
    BY <1>3, <1>5, <2>1 DEF Converging
  <2>3. ~Making /\ ~Making'
    BY <2>1 DEF Making
  <2> QED
    BY <1>4, <2>1, <2>2, <2>3 DEF Remembered
<1>15. CASE LeaveFile
  BY <1>3, <1>15, LeaveStep
<1>16. CASE StopUnit \/ DisableUnit
  <2>1. /\ pc \in {"stop", "disable"} /\ unit'.file = unit.file /\ unit'.kernel = unit.kernel
        /\ unit'.active \in {unit.active, "inactive"} /\ UNCHANGED <<state, op, before, preexisting>>
    BY <1>16, StopStep, DisableStep DEF Keeps
  <2>2. op = "delete"
    BY <1>1, <2>1 DEF Steps, Converging
  <2>3. ~Making /\ ~Making'
    BY <2>1, <2>2 DEF Making
  <2> QED
    BY <1>1, <1>4, <2>1, <2>2, <2>3 DEF Remembered
<1>17. CASE Unlink
  <2>1. /\ pc = "unlink" /\ unit'.file = Null /\ unit'.kernel = unit.kernel
        /\ unit'.active = unit.active /\ UNCHANGED <<state, op, before, preexisting>>
    BY <1>17, UnlinkStep
  <2>2. op = "delete"
    BY <1>1, <2>1 DEF Steps, Converging
  <2>3. ~Making /\ ~Making'
    BY <2>1, <2>2 DEF Making
  <2>4. ~unit.kernel => unit.active = "inactive"
    BY <1>3, <1>4, <2>1
  <2> QED
    BY <1>1, <1>4, <2>1, <2>2, <2>3, <2>4 DEF Remembered
<1>18. CASE Unload
  <2>1. /\ pc = "unloaded" /\ op' = "none" /\ pc' = "idle" /\ state' = Null
        /\ unit'.file = unit.file /\ unit'.kernel = unit.kernel /\ unit'.active = unit.active
        /\ unit'.loaded = IF changed THEN Fragment(unit) ELSE unit.loaded
        /\ UNCHANGED <<before, preexisting>>
    BY <1>18, UnloadStep DEF Keeps
  <2>2. ~Making /\ ~Making' /\ unit.file = Null
    BY <2>1 DEF Making, Progress
  <2>3. ~Ours'
    BY <1>3, <1>7, <2>1, <2>2 DEF Ours
  <2> QED
    BY <1>4, <2>1, <2>2, <2>3 DEF Remembered
<1>19. CASE OthersAct
  BY <1>1, <1>2, <1>19, OthersStep
<1>20. CASE CommandFails \/ SystemdFails \/ Kill
  BY <1>1, <1>2, <1>20, FailSteps
<1> QED
  BY <1>8, <1>9, <1>10, <1>11, <1>12, <1>13, <1>14, <1>15, <1>16, <1>17, <1>18, <1>19, <1>20 DEF Next

(* After an apply that ended well the file is there and the next plan is    *)
(* empty.                                                                   *)
LEMMA SettledStep ==
    ASSUME TextsTyped, Types, Present, Settled, Next
    PROVE  Present' /\ Settled'
<1>1. /\ pc = "idle" <=> op = "none"
      /\ pc \in Steps[op] /\ op \in {"none", "create", "update", "delete"}
      /\ done \in BOOLEAN
  BY DEF Types, Steps, Converging
<1>2. ASSUME pc' # "idle" \/ ~done' \/ state' = Null PROVE Present' /\ Settled'
  BY <1>2 DEF Present, Settled, Idle
<1>3. CASE Configure \/ Import
  BY <1>2, <1>3, QuietSteps, ImportStep
<1>4. CASE Refresh
  <2>1. /\ pc = "idle" /\ unit' = unit /\ shape' = shape /\ config' = config /\ done' = done
        /\ state # Null /\ state' = Found(state)
    BY <1>4, QuietSteps
  <2>2. CASE done
    <3>1. unit.file # Null
      BY <2>1, <2>2 DEF Present, Idle
    <3>2. Found(state)' = Found(state)
      BY <2>1, <3>1 DEF Found, StateOf, Template
    <3>3. config # Null => ~Differs(config, Found(state))
      BY <2>1, <2>2 DEF Settled, Idle
    <3>4. config' # Null => ~Differs(config, Found(state))'
      BY <2>1, <3>2, <3>3 DEF Differs
    <3> QED
      BY <2>1, <3>1, <3>4 DEF Present, Settled
  <2>3. CASE ~done
    BY <1>2, <2>1, <2>3
  <2> QED
    BY <2>2, <2>3
<1>5. CASE BeginCreate \/ BeginUpdate \/ BeginDelete
  BY <1>2, <1>5, BeginSteps
<1>6. CASE WriteFile
  BY <1>2, <1>6, WriteStep
<1>7. CASE Reload \/ Reenabled \/ Restart \/ SetUnitEnabled \/ SetUnitRunState
  <2>1. pc' # "idle"
    BY <1>7, ConvergeSteps DEF Moved, Converging
  <2> QED
    BY <1>2, <2>1
<1>8. CASE Save
  <2> DEFINE m == StateOf(plan.file, plan.enabled, plan.state, plan.restart)
             s == Found(m)
  <2>1. /\ unit' = unit /\ shape' = shape /\ config' = config /\ plan = config
        /\ unit.file \in {Null, Symlink} => ~done'
        /\ unit.file \notin {Null, Symlink} => state' = s
        /\ done' => ~Differs(plan, s)
    BY <1>8, SaveStep
  <2>2. CASE done'
    <3>1. unit.file # Null /\ state' = s
      BY <2>1, <2>2
    <3>2. s = StateOf(unit.file, UnitFileEnabled(IsEnabled(unit)),
                      IF Template THEN Null ELSE UnitRunState(IsActive(unit)), m.restart)
      BY <3>1 DEF Found
    <3>3. Found(state)' = StateOf(unit.file, UnitFileEnabled(IsEnabled(unit)),
                                  IF Template THEN Null ELSE UnitRunState(IsActive(unit)), s.restart)
      <4> HIDE DEF s
      <4> QED
        BY <2>1, <3>1 DEF Found, Template
    <3>4. s.restart = m.restart
      <4> HIDE DEF s, m
      <4> QED
        BY <3>2 DEF StateOf
    <3> HIDE DEF s, m
    <3>5. Found(state)' = s
      BY <3>2, <3>3, <3>4
    <3>6. ~Differs(config, Found(state))'
      BY <2>1, <2>2, <3>5 DEF Differs
    <3> QED
      BY <2>1, <3>1, <3>6 DEF Present, Settled
  <2>3. CASE ~done'
    BY <1>2, <2>3
  <2> QED
    BY <2>2, <2>3
<1>9. CASE LeaveFile \/ Unload
  BY <1>2, <1>9, LeaveStep, UnloadStep
<1>10. CASE StopUnit \/ DisableUnit \/ Unlink
  <2>1. pc' # "idle"
    BY <1>10, StopStep, DisableStep, UnlinkStep
  <2> QED
    BY <1>2, <2>1
<1>11. CASE CommandFails \/ SystemdFails \/ Kill
  <2>1. pc' # "idle" \/ ~done'
    BY <1>11, FailSteps
  <2> QED
    BY <1>2, <2>1
<1>12. CASE OthersAct
  BY <1>2, <1>12, OthersStep
<1> QED
  BY <1>3, <1>4, <1>5, <1>6, <1>7, <1>8, <1>9, <1>10, <1>11, <1>12 DEF Next

(* The whole invariant.                                                     *)
LEMMA UnitInvariantInit == ASSUME TextsTyped, Init PROVE UnitInvariant
<1>1. Types
  BY UnitTypesInit
<1>2. /\ pc = "idle" /\ op = "none" /\ ~err /\ ~wrote /\ state = Null /\ ~preexisting /\ before = Null
      /\ unit = Absent \/ (unit = Mounted("active") /\ shape = "mount")
  BY DEF Init, LifecycleInit
<1>3. /\ unit.vendor = Null /\ unit.file = Null /\ unit.link = "disabled"
      /\ unit = Absent \/ unit.loaded = Path("kernel", Null)
      /\ shape # "mount" => unit.active = "inactive"
      /\ ~unit.kernel => unit.active = "inactive"
      /\ unit = Absent => unit.loaded = Null /\ unit.active = "inactive"
  BY <1>2 DEF Absent, Mounted
<1>4. unit.loaded # Null => unit.loaded.from = "kernel"
  <2>1. unit.loaded = Null \/ unit.loaded = Path("kernel", Null)
    BY <1>3
  <2> QED
    BY <2>1 DEF Path
<1>8. Null \notin {"inactive", "active"} /\ Null # Symlink
  BY DEF TextsTyped, AllFiles
<1>5. Progress /\ Told /\ Present /\ Settled
  BY <1>2, <1>3 DEF Progress, Told, Present, Settled, Idle, Converging
<1>6. Alone
  BY <1>2, <1>3, <1>4, <1>8 DEF Alone, Converging, Making, Template
<1>7. Remembered
  BY <1>2, <1>3, <1>4, <1>8 DEF Remembered, Making, Ours
<1> QED
  BY <1>1, <1>5, <1>6, <1>7 DEF UnitInvariant

LEMMA UnitInvariantStep == ASSUME TextsTyped, UnitInvariant, [Next]_vars PROVE UnitInvariant'
<1>1. CASE Next
  <2>1. Types /\ Progress /\ Told /\ Alone /\ Remembered /\ Present /\ Settled
    BY DEF UnitInvariant
  <2>2. Types' /\ Progress'
    BY <1>1, <2>1, UnitTypesStep, ProgressStep
  <2>3. Told' /\ Alone'
    BY <1>1, <2>1, ToldStep, AloneStep
  <2>4. Remembered' /\ Present' /\ Settled'
    BY <1>1, <2>1, RememberedStep, SettledStep
  <2> QED
    BY <2>2, <2>3, <2>4 DEF UnitInvariant
<1>2. CASE UNCHANGED vars
  <2>1. UNCHANGED <<config, state, tainted, pc, op, plan, done, raced, lost, foreign, faults,
                    shape, preexisting, unit, changed, semantic, enabled, err, wrote, untold, before, down>>
    BY <1>2 DEF vars, lifecycle, resource, running, bounds, private, progress
  <2>2. Types' = Types
    BY <2>1 DEF Types, Valid, Template
  <2>3. Progress' = Progress /\ Told' = Told /\ Present' = Present
    BY <2>1 DEF Progress, Told, Present, Template, Ours, Idle, IsLoaded, RunsFile, RestartComes
  <2>4. Alone' = Alone /\ Remembered' = Remembered
    BY <2>1 DEF Alone, Remembered, Making, Template, Ours
  <2>5. Settled' = Settled
    BY <2>1 DEF Settled, Idle, Found, Template, Differs
  <2> QED
    BY <2>2, <2>3, <2>4, <2>5 DEF UnitInvariant
<1> QED
  BY <1>1, <1>2

\* What the invariant says to a reader of the model.
LEMMA UnitInvariantMeans == ASSUME TextsTyped, UnitInvariant PROVE TypeOK /\ Settled /\ Applied
<1>1. Types /\ Told /\ Present /\ Settled
  BY DEF UnitInvariant
<1>2. /\ config \in Options \cup {Null} /\ state \in States \cup {Null}
      /\ pc \in {"idle", "write", "reload", "reenable", "restart", "enable", "run", "save",
                "left", "stop", "disable", "unlink", "unloaded"}
  BY <1>1 DEF Types, Steps, Converging
<1>3. /\ unit.file \in AllFiles \cup {Null} /\ unit.vendor \in Files \cup {Null}
      /\ unit.link \in {"enabled", "enabled-runtime", "disabled"} /\ unit.active \in {"active", "inactive", "failed"}
  BY <1>1, UnitFields DEF Types
<1>4. TypeOK
  BY <1>2, <1>3 DEF TypeOK, States
<1>5. Applied
  BY <1>1 DEF Told, Present, Applied, IsLoaded, RunsFile
<1> QED
  BY <1>1, <1>4, <1>5

(* What a step may do.                                                      *)
LEMMA RecordedStep == ASSUME TextsTyped, UnitInvariant, [Next]_vars PROVE CreateRecorded
<1>1. Types /\ Progress
  BY DEF UnitInvariant
<1>2. SUFFICES ASSUME op = "create", wrote, pc' = "idle" PROVE state' # Null \/ unit'.file # plan.file \/ lost' \/ down'
  BY DEF CreateRecorded, Idle
<1>3. pc \in Converging /\ pc # "idle"
  BY <1>1, <1>2 DEF Types, Steps, Progress, Converging
<1>4. pc \notin {"idle", "write", "left", "stop", "disable", "unlink", "unloaded"}
  BY <1>3 DEF Converging
<1>5. CASE Save
  <2>1. unit' = unit /\ (unit.file \notin {Null, Symlink} => state' # Null)
    BY <1>1, <1>5, SaveStep
  <2>2. plan.file \notin {Null, Symlink}
    BY <1>1, <1>2 DEF Types, Texts, TextsTyped, AllFiles
  <2> QED
    BY <2>1, <2>2
<1>6. CASE SystemdFails \/ Kill
  <2>1. down' = TRUE \/ lost' = TRUE
    BY <1>6 DEF SystemdFails, Kill, Killed
  <2> QED
    BY <2>1
<1>7. CASE Reload \/ Reenabled \/ Restart \/ SetUnitEnabled \/ SetUnitRunState
  BY <1>1, <1>2, <1>7, ConvergeSteps DEF Moved, Converging
<1>8. CASE Configure \/ Refresh \/ Import \/ BeginCreate \/ BeginUpdate \/ BeginDelete
  BY <1>1, <1>4, <1>8, QuietSteps, ImportStep, BeginSteps
<1>9. CASE WriteFile \/ LeaveFile \/ StopUnit \/ DisableUnit \/ Unlink \/ Unload
  BY <1>4, <1>9 DEF WriteFile, LeaveFile, StopUnit, DisableUnit, Unlink, Unload
<1>10. CASE CommandFails
  BY <1>2, <1>10 DEF CommandFails
<1>11. CASE OthersAct
  BY <1>1, <1>2, <1>4, <1>11, OthersStep
<1>12. CASE UNCHANGED vars
  BY <1>2, <1>4, <1>12 DEF vars, lifecycle, running
<1> QED
  BY <1>5, <1>6, <1>7, <1>8, <1>9, <1>10, <1>11, <1>12 DEF Next

\* The steps of a destroy, and what others do meanwhile.
LEMMA DeletingSteps ==
    ASSUME TextsTyped, Types, op = "delete", [Next]_vars
    PROVE  \/ LeaveFile \/ StopUnit \/ DisableUnit \/ Unlink \/ Unload
           \/ unit' = unit /\ (pc' = "idle" => state' # Null)
           \/ OthersAct /\ pc' # "idle" /\ foreign' = foreign + 1
<1>1. pc \in {"left", "stop", "disable", "unlink", "unloaded"} /\ state # Null
  BY DEF Types, Steps, Converging
<1>2. CASE SystemdFails \/ Kill \/ CommandFails
  BY <1>1, <1>2, FailSteps
<1>3. CASE OthersAct
  BY <1>1, <1>3, OthersStep
<1>4. CASE UNCHANGED vars
  BY <1>1, <1>4 DEF vars, lifecycle, resource
<1>5. CASE Configure \/ Refresh \/ Import \/ BeginCreate \/ BeginUpdate \/ BeginDelete
  BY <1>1, <1>5, QuietSteps, ImportStep, BeginSteps
<1>6. CASE WriteFile \/ Reload \/ Reenabled \/ Restart \/ SetUnitEnabled \/ SetUnitRunState \/ Save
  BY <1>1, <1>6 DEF WriteFile, Reload, Reenabled, Restart, SetUnitEnabled, SetUnitRunState, Save
<1> QED
  BY <1>2, <1>3, <1>4, <1>5, <1>6 DEF Next

LEMMA RestoresStep == ASSUME TextsTyped, UnitInvariant, [Next]_vars PROVE DestroyRestores
<1>1. Types /\ Progress /\ Alone /\ Remembered /\ foreign \in Nat /\ unit \in UnitTypes
  BY DEF UnitInvariant, Types
<1>2. ASSUME op = "delete", pc' = "idle", state' = Null, foreign = 0, before # Null
      PROVE  /\ unit'.file = Null /\ (unit'.loaded # Null => unit'.loaded.from # "etc")
             /\ unit'.link # "enabled"
             /\ before = "inactive" => unit'.active = "inactive"
  <2>1. Unload
    <3>1. ~LeaveFile
      BY <1>1, <1>2, LeaveStep DEF Alone
    <3>2. ~(StopUnit \/ DisableUnit \/ Unlink)
      BY <1>1, <1>2, StopStep, DisableStep, UnlinkStep
    <3> QED
      BY <1>1, <1>2, <3>1, <3>2, DeletingSteps
  <2>2. /\ pc = "unloaded" /\ unit'.file = unit.file /\ unit'.link = unit.link /\ unit'.active = unit.active
        /\ unit'.loaded = IF changed THEN Fragment(unit) ELSE unit.loaded
    BY <1>1, <2>1, UnloadStep DEF Keeps
  <2>3. unit.file = Null /\ unit.vendor = Null /\ unit.link = "disabled" /\ (changed \/ ~Ours)
        /\ (before = "inactive" => unit.active = "inactive")
    BY <1>1, <1>2, <2>2 DEF Progress, Alone
  <2>4. Fragment(unit) = Null \/ Fragment(unit).from = "kernel"
    BY <1>1, <2>3, UnitFields, FragmentEffect
  <2> QED
    BY <2>2, <2>3, <2>4 DEF Ours
<1>3. ASSUME op = "delete", foreign' = 0, faults' = 0, before = "active" PROVE unit'.active = unit.active
  <2>1. CASE OthersAct /\ foreign' = foreign + 1
    BY <1>1, <1>3, <2>1
  <2>2. CASE unit' = unit
    BY <2>2
  <2>3. CASE StopUnit
    <3>1. pc = "stop" /\ foreign = 0 /\ faults = 0
      BY <1>1, <1>3, <2>3, StopStep
    <3>2. preexisting
      BY <1>1, <1>3, <3>1 DEF Remembered, Making
    <3> QED
      BY <1>1, <3>1, <3>2 DEF Progress
  <2>4. CASE LeaveFile \/ DisableUnit \/ Unlink \/ Unload
    BY <1>1, <2>4, LeaveStep, DisableStep, UnlinkStep, UnloadStep
  <2> QED
    BY <1>1, <1>3, <2>1, <2>2, <2>3, <2>4, DeletingSteps
<1> QED
  BY <1>2, <1>3 DEF DestroyRestores, Idle

LEMMA VendorStep == ASSUME TextsTyped, UnitInvariant, [Next]_vars PROVE VendorKept
<1>1. Types /\ Progress /\ foreign \in Nat
  BY DEF UnitInvariant, Types
<1>2. SUFFICES ASSUME op = "delete", foreign' = foreign, ~raced, unit.file = Null,
                      unit.loaded # Null, unit.loaded.from = "vendor"
               PROVE  unit'.active = unit.active /\ unit'.link = unit.link
  BY DEF VendorKept
<1>3. ~Ours /\ pc # "stop" /\ pc # "disable"
  BY <1>1, <1>2 DEF Progress, Ours
<1>4. CASE OthersAct /\ foreign' = foreign + 1
  BY <1>1, <1>2, <1>4
<1>5. CASE LeaveFile \/ StopUnit \/ DisableUnit \/ Unlink \/ Unload
  BY <1>1, <1>3, <1>5, LeaveStep, StopStep, DisableStep, UnlinkStep, UnloadStep
<1>6. CASE unit' = unit
  BY <1>6
<1> QED
  BY <1>1, <1>2, <1>4, <1>5, <1>6, DeletingSteps

(* The plan after an apply that ended well is empty, systemd has loaded the *)
(* file on disk, and a unit that runs, runs with what it says: for any unit *)
(* files and configurations, however often others act or calls fail.        *)
THEOREM UnitsAreApplied == ASSUME TextsTyped PROVE Spec => [](TypeOK /\ Settled /\ Applied)
<1>1. Init => UnitInvariant
  BY UnitInvariantInit
<1>2. UnitInvariant /\ [Next]_vars => UnitInvariant'
  BY UnitInvariantStep
<1>3. UnitInvariant => TypeOK /\ Settled /\ Applied
  BY UnitInvariantMeans
<1> QED
  BY <1>1, <1>2, <1>3, PTL DEF Spec

(* A create that wrote the file leaves a state, a destroy leaves the unit   *)
(* as it was before the create, and it neither stops nor disables a unit    *)
(* that another file defines.                                               *)
THEOREM UnitsAreRestored ==
    ASSUME TextsTyped PROVE Spec => [][CreateRecorded /\ DestroyRestores /\ VendorKept]_vars
<1>1. Init => UnitInvariant
  BY UnitInvariantInit
<1>2. UnitInvariant /\ [Next]_vars => UnitInvariant'
  BY UnitInvariantStep
<1>3. UnitInvariant /\ [Next]_vars => CreateRecorded /\ DestroyRestores /\ VendorKept
  BY RecordedStep, RestoresStep, VendorStep
<1> QED
  BY <1>1, <1>2, <1>3, PTL DEF Spec
================================================================================
