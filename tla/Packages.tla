------------------------------- MODULE Packages -------------------------------
(***************************************************************************)
(* sysutils_package and its data source (package.go, package_resource.go,  *)
(* package_data_source.go): one package kept present, latest, at a version *)
(* or absent with apt, dnf, yum or apk.  The package manager's lock is     *)
(* held through an apply, but others (unattended upgrades, an              *)
(* administrator) use the package manager without it.                      *)
(*                                                                         *)
(* Names stand for what the tools make of them:                            *)
(*   "pkg"      a package                "virtual"  "other" provides it    *)
(*   "pattern"  apt takes it for a pattern that selects "other"            *)
(*   "removal"  "pkg-", which apt-get takes for the removal of "pkg"       *)
(*   "spec"     "pkg-1", which rpm takes for version 1 of "pkg"            *)
(*   "file"     ends in .rpm or .apk: a local file that installs "other"   *)
(* A version is a number; 0 is none, v + 10 is v with an explicit zero     *)
(* epoch, v + 20 is v without its release.                                 *)
(***************************************************************************)
EXTENDS Lifecycle, Sequences, FiniteSetsExt

CONSTANTS Options,       \* the configurations
          Newest         \* bound on the versions in the repositories

VARIABLES tools,         \* the kinds whose tools are found
          db,            \* the package database: version (0: none), whole
          held,          \* the package manager leaves "pkg" as it is
          index,         \* newest version in the local index, 0 without one
          repo,          \* newest version in the repositories
          cacheUpdated,  \* this provider process refreshed the index
          info,          \* what Query returned to the operation
          failed,        \* the operation has an error to report
          changed,       \* a command that changes the host was run
          touched,       \* the operation changed the database
          expected       \* installed_version in the plan, or Null (unknown)

packages == <<tools, db, held, index, repo>>
apply == <<info, failed, changed, touched, expected>>
vars == <<lifecycle, packages, cacheUpdated, apply>>

Kinds == <<"apt", "dnf", "yum", "apk">>
Names == {"pkg", "virtual", "pattern", "removal", "spec", "file"}
Versions == 0..Newest
Configurations ==
    [name : Names, version : Versions \cup {v + 10 : v \in Versions} \cup {v + 20 : v \in Versions},
     state : {"present", "latest", "absent"}, manager : {"auto", "apt", "dnf", "yum", "apk"},
     cache : BOOLEAN, remove : BOOLEAN]
Entry(v, whole) == [version |-> v, whole |-> whole]

Rpm(k) == k \in {"dnf", "yum"}

\* packageConfig.resolve: with "auto" the first kind whose tools are found.
Resolve(m) ==
    LET found == SelectSeq(Kinds, LAMBDA k : k \in tools)
    IN  IF m = "auto" THEN (IF found = <<>> THEN Null ELSE Head(found))
        ELSE IF m \in tools THEN m ELSE Null

ValidName(k, n) ==
    CASE k = "apt" -> n # "removal"
      [] OTHER     -> n # "file"

\* The release of an RPM version and the revision of an Alpine one are required.
ValidVersion(k, v) == k = "apt" \/ v < 20

Normal(v) == IF v \in 10..19 THEN v - 10 ELSE v
Same(a, b) == Normal(a) = Normal(b)

-------------------------------------------------------------------------------
\* The tools, as far as the code relies on them.

\* The package that the tool acts on when it is given n.
Selects(k, n) ==
    CASE n = "pkg" -> "pkg"
      [] n = "virtual" -> "other"
      [] n = "pattern" /\ k = "apt" -> "other"
      [] n = "spec" /\ Rpm(k) -> "pkg"
      [] n = "file" /\ k # "apt" -> "other"
      [] OTHER -> Null

Available(k) == IF Rpm(k) /\ index = 0 THEN repo ELSE index
Result(d, ok) == [db |-> d, ok |-> ok]
Put(d, p, v) ==
    Result(IF p = "pkg" /\ held /\ d[p].version # 0 THEN d ELSE [d EXCEPT ![p] = Entry(v, TRUE)], TRUE)

\* apt-get install, apk add, dnf install (which never downgrades), dnf
\* upgrade and dnf downgrade, apt-get remove and its counterparts.
ToolInstall(k, d, n, v) ==
    LET p == Selects(k, n)
        want == IF v # 0 THEN v % 10
                ELSE IF Rpm(k) THEN Available(k)
                ELSE Max({Available(k), IF p = Null THEN 0 ELSE d[p].version})
    IN  IF k = "apt" /\ n = "removal" THEN Put(d, "pkg", 0)
        ELSE IF p = Null \/ want = 0 THEN Result(d, FALSE)
        ELSE IF want > Available(k) /\ want # d[p].version THEN Result(d, FALSE)
        ELSE IF Rpm(k) /\ d[p].version >= want THEN Result(d, TRUE)
        ELSE Put(d, p, want)
ToolDowngrade(k, d, n, v) ==
    LET p == Selects(k, n)
    IN  IF p = Null \/ v % 10 > Available(k) THEN Result(d, FALSE)
        ELSE Put(d, p, IF v # 0 THEN v % 10 ELSE Max({1, d[p].version - 1}))
ToolRemove(k, d, n) ==
    IF Selects(k, n) = Null THEN Result(d, FALSE) ELSE Put(d, Selects(k, n), 0)

\* The rows that dpkg-query, rpm -q or apk info print for n.
Rows(k, d, n) ==
    IF (n = "pkg" \/ (n = "spec" /\ Rpm(k))) /\ d["pkg"].version # 0
    THEN <<[name |-> "pkg", version |-> d["pkg"].version, whole |-> d["pkg"].whole]>>
    ELSE <<>>

\* The packages that apt-cache policy prints a block for, given n.
Headers(d, n) ==
    IF n = "pkg" THEN (IF index > 0 \/ d["pkg"].version # 0 THEN {"pkg"} ELSE {})
    ELSE IF n = "virtual" THEN {"virtual"}
    ELSE IF n = "pattern" /\ index > 0 THEN {"other"} ELSE {}

\* What apk policy prints, oldest first: where each version comes from.
PolicyLines(d) ==
    [v \in 1..Newest + 1 |->
        (IF v = d["pkg"].version THEN {"db"} ELSE {})
        \cup (IF v <= index THEN {"repository"} ELSE {})
        \cup (IF v = Newest + 1 THEN {"tagged"} ELSE {})]

-------------------------------------------------------------------------------
\* The backends.

\* The version of the first row of that package, 0 if there is none: for dpkg
\* a half installed one does not count, so that the next apply repairs it.
First(rows) == IF rows = <<>> THEN 0 ELSE Head(rows).version
AptQuery(d, n) == First(SelectSeq(Rows("apt", d, n), LAMBDA r : r.name = n /\ r.whole))
RpmQuery(d, n) == First(SelectSeq(Rows("dnf", d, n), LAMBDA r : r.name = n))
ApkQuery(d, n) == First(SelectSeq(Rows("apk", d, n), LAMBDA r : r.name = n))
Query(k, d, n) ==
    CASE k = "apt" -> AptQuery(d, n) [] Rpm(k) -> RpmQuery(d, n) [] OTHER -> ApkQuery(d, n)

\* apt would act on the package of that name and on no other.
Policy(d, n) == Headers(d, n) # {} /\ Headers(d, n) \subseteq {n}

ParseApkPolicyLast(lines) == Max({0} \cup {v \in DOMAIN lines : lines[v] # {}})
ParseApkPolicy(lines) == Max({0} \cup {v \in DOMAIN lines : "repository" \in lines[v]})

\* The version that the local index offers: apt's candidate, the newest that
\* dnf knows without a refresh, the last that apk lists in a repository.
AptCandidate(d, n) == IF Policy(d, n) /\ n = "pkg" THEN Max({index, d[n].version}) ELSE 0
RpmCandidate(d, n) == IF n = "pkg" THEN index ELSE 0
ApkCandidate(d, n) == IF n = "pkg" THEN ParseApkPolicy(PolicyLines(d)) ELSE 0
Candidate(k, d, n) ==
    CASE k = "apt" -> AptCandidate(d, n) [] Rpm(k) -> RpmCandidate(d, n) [] OTHER -> ApkCandidate(d, n)

AptUpToDate(d, n) == AptCandidate(d, n) \in {0, AptQuery(d, n)}
RpmUpToDate(d, n) == RpmQuery(d, n) >= Available("dnf")
ApkUpToDate(d, n) == ApkQuery(d, n) # 0 /\ ApkQuery(d, n) >= index
UpToDate(k, d, n) ==
    CASE k = "apt" -> AptUpToDate(d, n) [] Rpm(k) -> RpmUpToDate(d, n) [] OTHER -> ApkUpToDate(d, n)

\* What apt would take for a pattern or a removal never reaches apt-get; dnf
\* install does nothing over a newer version: that takes a downgrade.
AptInstall(d, n, v) == IF Policy(d, n) THEN ToolInstall("apt", d, n, v) ELSE Result(d, FALSE)
AptUnchecked(d, n, v) == ToolInstall("apt", d, n, v)
RpmDowngrades(d, n, v) ==
    LET first == ToolInstall("dnf", d, n, v)
    IN  IF ~first.ok \/ Same(RpmQuery(first.db, n), v) THEN first
        ELSE ToolDowngrade("dnf", first.db, n, v)
RpmInstall(d, n, v) ==
    LET first == ToolInstall("dnf", d, n, v)
    IN  IF ~first.ok \/ v = 0 \/ Same(RpmQuery(first.db, n), v) THEN first
        ELSE ToolDowngrade("dnf", first.db, n, v)
ApkInstall(d, n, v) == ToolInstall("apk", d, n, v)
InstallUnchecked(k, d, n, v) ==
    CASE k = "apt" -> AptUnchecked(d, n, v) [] Rpm(k) -> RpmInstall(d, n, v) [] OTHER -> ApkInstall(d, n, v)
InstallDowngrades(k, d, n, v) ==
    CASE k = "apt" -> AptInstall(d, n, v) [] Rpm(k) -> RpmDowngrades(d, n, v) [] OTHER -> ApkInstall(d, n, v)
Install(k, d, n, v) ==
    CASE k = "apt" -> AptInstall(d, n, v) [] Rpm(k) -> RpmInstall(d, n, v) [] OTHER -> ApkInstall(d, n, v)

\* apt-get install takes the candidate, apk add --upgrade the newest; dnf
\* upgrades what is installed and installs what is not.
Upgrade(k, d, n) ==
    IF k = "apt" /\ ~Policy(d, n) THEN Result(d, FALSE) ELSE ToolInstall(k, d, n, 0)

Remove(k, d, n) ==
    IF k = "apt" /\ ~Policy(d, n) THEN Result(d, FALSE) ELSE ToolRemove(k, d, n)

-------------------------------------------------------------------------------
\* The resource.

Valid(c) ==
    /\ c.version # 0 => c.state = "present"
    /\ c.manager # "auto" => ValidName(c.manager, c.name) /\ ValidVersion(c.manager, c.version)

Manager(m) == Resolve(m.manager)
Usable(m) ==
    LET k == Manager(m)
    IN  k # Null /\ ValidName(k, m.name) /\ ValidVersion(k, m.version)

InstalledVersionNull(v, configured) == IF v = 0 THEN Null ELSE IF Same(v, configured) THEN configured ELSE v
InstalledVersion(v, configured) == IF v # 0 /\ Same(v, configured) THEN configured ELSE v

StateOf(c, v) ==
    [name |-> c.name, version |-> c.version, state |-> c.state, manager |-> c.manager,
     cache |-> c.cache, remove |-> c.remove, installed |-> v]
Attrs(s) ==
    [name |-> s.name, version |-> s.version, state |-> s.state, manager |-> s.manager,
     cache |-> s.cache, remove |-> s.remove]

\* refresh: the state of the package becomes what is found on the host.
Found(m) ==
    LET k == Manager(m)
        v == Query(k, db, m.name)
    IN  [m EXCEPT
           !.installed = InstalledVersion(v, m.version),
           !.version = IF v # 0 /\ @ # 0 /\ ~Same(v, @) THEN v ELSE @,
           !.state = IF v = 0 THEN "absent"
                     ELSE IF @ = "latest" /\ UpToDate(k, db, m.name) THEN "latest"
                     ELSE "present"]

Init ==
    /\ LifecycleInit
    /\ tools \in {{"apt"}, {"dnf", "yum"}, {"apk"}}
    /\ db = [p \in {"pkg", "other"} |-> Entry(0, TRUE)]
    /\ held = FALSE /\ index \in {0, 1} /\ repo = 1 /\ cacheUpdated = FALSE
    /\ info = 0 /\ failed = FALSE /\ changed = FALSE /\ touched = FALSE /\ expected = Null

Configure ==
    /\ Configured({c \in Options : Valid(c)})
    /\ UNCHANGED <<packages, cacheUpdated, apply>>

Refresh ==
    /\ Idle /\ state # Null /\ Usable(state) /\ Refreshed(Found(state))
    /\ UNCHANGED <<packages, cacheUpdated, apply>>

\* ImportState and the refresh after it: an installed package, "present".
Import ==
    /\ Idle /\ state = Null /\ config # Null
    /\ LET m == StateOf([config EXCEPT !.version = 0, !.state = "present", !.manager = "auto",
                                       !.cache = FALSE, !.remove = TRUE], 0)
       IN  Usable(m) /\ Found(m).state = "present" /\ Refreshed(Found(m))
    /\ UNCHANGED <<packages, cacheUpdated, apply>>

\* ModifyPlan: the installed_version that the plan promises.
ExpectedAnyState(c, prior) ==
    IF c.state = "absent" THEN 0
    ELSE IF c.version # 0 THEN c.version
    ELSE IF prior # Null /\ prior.name = c.name /\ prior.installed # 0 THEN prior.installed
    ELSE Null
Expected(c, prior) ==
    IF c.state = "absent" THEN 0
    ELSE IF c.version # 0 THEN c.version
    ELSE IF prior # Null /\ prior.state = c.state /\ prior.name = c.name /\ prior.installed # 0
    THEN prior.installed
    ELSE Null

Apply(o, prior) ==
    /\ Idle /\ config # Null /\ Usable(config)
    /\ Begin(o, "index", config, prior # Null /\ prior # Found(prior))
    /\ info' = Query(Manager(config), db, config.name)
    /\ failed' = FALSE /\ changed' = FALSE /\ touched' = FALSE /\ expected' = Expected(config, prior)
    /\ UNCHANGED <<packages, cacheUpdated>>

Replaces == config # Null /\ config.name # state.name
BeginCreate == state = Null /\ Apply("create", Null)
BeginUpdate ==
    /\ state # Null /\ ~tainted /\ config # Null /\ Attrs(state) # config /\ ~Replaces
    /\ Apply("update", state)

\* The configuration is not met yet, as far as the query showed.
Unmet ==
    CASE plan.state = "absent" -> info # 0
      [] plan.state = "present" -> info = 0 \/ (plan.version # 0 /\ ~Same(info, plan.version))
      [] OTHER -> info = 0 \/ ~UpToDate(Manager(plan), db, plan.name)

\* updateCacheOnce: before an install or an upgrade, and for "latest" always.
UpdateIndex ==
    /\ pc = "index"
    /\ IF plan.cache /\ ~cacheUpdated /\ (plan.state = "latest" \/ (plan.state = "present" /\ Unmet))
         THEN index' = repo /\ cacheUpdated' = TRUE
         ELSE UNCHANGED <<index, cacheUpdated>>
    /\ Goto("change")
    /\ UNCHANGED <<tools, db, held, repo, apply>>

Command ==
    LET k == Manager(plan)
    IN  CASE plan.state = "absent"  -> Remove(k, db, plan.name)
          [] plan.state = "present" -> Install(k, db, plan.name, plan.version)
          [] OTHER                  -> Upgrade(k, db, plan.name)

Change ==
    /\ pc = "change" /\ Goto("record")
    /\ IF Unmet
         THEN /\ db' = Command.db /\ failed' = ~Command.ok
              /\ changed' = TRUE /\ touched' = (db' # db)
         ELSE UNCHANGED <<db, failed, changed, touched>>
    /\ UNCHANGED <<tools, held, index, repo, cacheUpdated, info, expected>>

\* The command fails: nothing was done or, with dpkg, half of it was.
ChangeBreaks ==
    /\ pc \in {"change", "remove"} /\ (pc = "change" => Unmet) /\ faults < MaxFaults
    /\ db' \in {db} \cup (IF tools = {"apt"} /\ plan.name = "pkg" /\ ~held
                            THEN {[db EXCEPT !["pkg"] = Entry(Max({@.version, index, 1}), FALSE)]} ELSE {})
    /\ failed' = TRUE /\ changed' = TRUE /\ touched' = (db' # db)
    /\ faults' = faults + 1 /\ pc' = "record"
    /\ UNCHANGED <<tools, held, index, repo, cacheUpdated, info, expected>>
    /\ UNCHANGED <<resource, op, plan, done, raced, lost, configs, foreign>>

\* verifyPackageState: tools report success without doing what was asked.
Verified(k, s, n, v, after) ==
    IF s = "absent" THEN after = 0
    ELSE /\ after # 0 /\ (v # 0 => Same(after, v))
         /\ s = "latest" => UpToDate(k, db, n)

\* Record what the package manager left behind, even after a failure.
RecordOnSuccess ==
    /\ pc = "record" /\ op # "delete"
    /\ LET k == Manager(plan)
           after == Query(k, db, plan.name)
           s == StateOf(plan, InstalledVersion(after, plan.version))
       IN  IF ~failed /\ Verified(k, plan.state, plan.name, plan.version, after)
             THEN Succeeded(s) ELSE Failed(Null)
    /\ UNCHANGED <<packages, cacheUpdated, apply>>
RecordUnverified ==
    /\ pc = "record" /\ op # "delete"
    /\ LET s == StateOf(plan, InstalledVersion(Query(Manager(plan), db, plan.name), plan.version))
       IN  IF ~failed THEN Succeeded(s) ELSE Failed(IF changed THEN s ELSE Null)
    /\ UNCHANGED <<packages, cacheUpdated, apply>>
Record ==
    /\ pc = "record" /\ op # "delete"
    /\ LET k == Manager(plan)
           after == Query(k, db, plan.name)
           s == StateOf(plan, InstalledVersion(after, plan.version))
       IN  IF ~failed /\ Verified(k, plan.state, plan.name, plan.version, after)
             THEN Succeeded(s) ELSE Failed(IF changed THEN s ELSE Null)
    /\ UNCHANGED <<packages, cacheUpdated, apply>>

\* A query, the refresh of the index or the check for upgrades fails.
Fault ==
    /\ pc \in {"index", "change", "record"}
    /\ Faulted(IF changed /\ op # "delete" THEN StateOf(plan, 0) ELSE Null)
    /\ UNCHANGED <<packages, cacheUpdated, apply>>
Kill == Killed /\ cacheUpdated' = FALSE /\ UNCHANGED <<packages, apply>>

\* Delete leaves the package alone if it was to be absent, or if told to.
BeginDelete ==
    /\ Idle /\ state # Null /\ (config = Null \/ tainted \/ Replaces)
    /\ state.state # "absent" /\ state.remove => Usable(state)
    /\ LET v == Query(Manager(state), db, state.name)
           s == IF state.state = "absent" \/ ~state.remove \/ v = 0 THEN "deleted" ELSE "remove"
       IN  Begin("delete", s, state, FALSE)
    /\ failed' = FALSE /\ changed' = FALSE /\ touched' = FALSE /\ info' = 0 /\ expected' = Null
    /\ UNCHANGED <<packages, cacheUpdated>>

DeleteCommand ==
    LET r == Remove(Manager(plan), db, plan.name)
    IN  /\ pc = "remove" /\ Goto("record")
        /\ db' = r.db /\ failed' = ~r.ok /\ changed' = TRUE /\ touched' = (db' # db)
        /\ UNCHANGED <<tools, held, index, repo, cacheUpdated, info, expected>>

DeleteEnds ==
    /\ op = "delete"
    /\ \/ pc = "deleted" /\ Succeeded(Null)
       \/ pc = "record" /\ (IF ~failed /\ Query(Manager(plan), db, plan.name) = 0
                              THEN Succeeded(Null) ELSE Failed(Null))
    /\ UNCHANGED <<packages, cacheUpdated, apply>>

\* Others install, upgrade, downgrade, remove, hold and publish packages,
\* or refresh the index.
OthersChange ==
    /\ Intrusion
    /\ \/ \E v \in 0..index : v # db["pkg"].version /\ db' = [db EXCEPT !["pkg"] = Entry(v, TRUE)]
                              /\ UNCHANGED <<held, index, repo>>
       \/ held' = ~held /\ UNCHANGED <<db, index, repo>>
       \/ index' = repo /\ index # repo /\ UNCHANGED <<db, held, repo>>
       \/ repo < Newest /\ repo' = repo + 1 /\ UNCHANGED <<db, held, index>>
    /\ UNCHANGED <<tools, cacheUpdated, apply>>

\* The next run of Terraform starts a provider process of its own.
NewProcess ==
    /\ Idle /\ cacheUpdated /\ cacheUpdated' = FALSE
    /\ UNCHANGED <<lifecycle, packages, apply>>

Next ==
    \/ Configure \/ Refresh \/ Import \/ BeginCreate \/ BeginUpdate \/ UpdateIndex \/ Change
    \/ ChangeBreaks \/ Record \/ Fault \/ Kill \/ BeginDelete \/ DeleteCommand \/ DeleteEnds
    \/ OthersChange \/ NewProcess

Spec == Init /\ [][Next]_vars
-------------------------------------------------------------------------------
TypeOK ==
    /\ config \in Options \cup {Null}
    /\ state # Null => Attrs(state) \in Configurations /\ state.installed \in 0..29
    /\ db \in [{"pkg", "other"} -> [version : Versions, whole : BOOLEAN]]
    /\ index \in 0..repo /\ repo \in 1..Newest
    /\ pc \in {"idle", "index", "change", "record", "remove", "deleted"}

\* After an apply that ended well, and as long as nothing else happens, the
\* next plan is empty: what refresh finds is what is configured, whatever
\* form the version is written in.
Settled == done /\ Idle /\ state # Null /\ config # Null => Attrs(Found(state)) = config

\* The same, but for the spelling of the version, and when the apply does not
\* refresh the index itself before it looks for upgrades.
Predicted ==
    (op \in {"create", "update"} /\ Idle' /\ done' /\ ~(plan.state = "latest" /\ plan.cache))
          => expected = Null \/ Same(expected, state'.installed)

\* No command acts on another package than the configured one because of how
\* a tool reads its name; a virtual name that "other" provides is reported.
NothingElse ==
    db'["other"] # db["other"] => plan.name = "virtual" /\ plan.state # "absent"

\* A package that is there is downgraded only to the version asked for.
DowngradeAsked ==
    (~Idle /\ foreign' = foreign /\ db'["pkg"].version < db["pkg"].version)
          => \/ plan.version # 0 /\ db'["pkg"].version = plan.version % 10
             \/ plan.state = "absent" \/ op = "delete"

\* A create that changed the package database leaves a state, tainted if it
\* failed, unless the provider was killed.
CreateRecorded ==
    (op = "create" /\ touched /\ Idle') => state' # Null \/ lost'

\* What the data source reports as the available version is what installing
\* the package would leave installed.
CandidateIsSelected ==
    Idle /\ ~held => \A k \in tools : \A n \in Names :
        LET c == Candidate(k, db, n)
            r == IF Query(k, db, n) = 0 THEN Install(k, db, n, 0) ELSE Upgrade(k, db, n)
        IN  c # 0 /\ c >= db["pkg"].version => r.ok /\ Query(k, r.db, n) = c

===============================================================================
