------------------------------ MODULE MCSoftware ------------------------------
\* A package, a repository, a systemd unit, a service and a drop-in: five modules that
\* share the lifecycle of a resource and have no state in common, checked one
\* beside the other in one run.
EXTENDS Lifecycle, TLAPS

CONSTANTS Missing, Unknown,
          PackageOptions, RepositoryOptions, UserLines, \* configurations, and apk lines of users
          UnitOptions, UnitFiles, ServiceOptions,
          DropInOptions, DropInTexts

VARIABLES part,          \* the module that the behaviour is of
          tools, db, held, index, repo, cacheUpdated, info, failed, modified, touched, expected,
          family, file, keyFile, lines, served, fresh, want, sha, fetched, kept, written,
          createdKey, tampered, partial,
          shape, unit, preexisting, changed, semantic, enabled, err, wrote, untold, before, down,
          init, behaves, dropin, svc, st, restarts, started,
          kind, root, fileTools, text, loaded, runs, active, pending, rewrites, restartsFor, fails, quiet

packageVars == <<tools, db, held, index, repo, cacheUpdated, info, failed, modified, touched, expected>>
repositoryVars ==
    <<family, file, keyFile, lines, served, fresh, want, sha, fetched, kept, written,
      createdKey, tampered, partial>>
unitVars == <<shape, unit, preexisting, changed, semantic, enabled, err, wrote, untold, before, down>>
serviceVars == <<init, behaves, dropin, svc, st, restarts, started>>
dropInVars ==
    <<kind, root, fileTools, text, loaded, runs, active, pending, rewrites, restartsFor, fails, quiet>>
vars == <<lifecycle, part, packageVars, repositoryVars, unitVars, serviceVars, dropInVars>>

Packages == INSTANCE Packages WITH Newest <- 2, changed <- modified, Options <- PackageOptions
Repos == INSTANCE Repositories WITH MaxConfigs <- 3, Options <- RepositoryOptions
Units == INSTANCE UnitProofs WITH Files <- UnitFiles, Options <- UnitOptions
Services == INSTANCE Services WITH Options <- ServiceOptions
DropIns == INSTANCE DropIns WITH
    Texts <- DropInTexts, Options <- DropInOptions, tools <- fileTools, file <- text, changed <- rewrites,
    semantic <- restartsFor, err <- fails, untold <- quiet

\* What the proofs need of the configurations.
ASSUME OptionsTyped ==
    /\ Repos!KeysAreNoNull /\ Units!TextsTyped /\ Services!OptionsTyped /\ DropIns!TextsTyped

NoPackages ==
    /\ tools = Null /\ db = Null /\ held = Null /\ index = Null /\ repo = Null
    /\ cacheUpdated = Null /\ info = Null /\ failed = Null /\ modified = Null /\ touched = Null
    /\ expected = Null
NoRepositories ==
    /\ family = Null /\ file = Null /\ keyFile = Null /\ lines = Null /\ served = Null
    /\ fresh = Null /\ want = Null /\ sha = Null /\ fetched = Null /\ kept = Null
    /\ written = Null /\ createdKey = Null /\ tampered = Null /\ partial = Null
NoUnits ==
    /\ shape = Null /\ unit = Null /\ preexisting = Null /\ changed = Null /\ semantic = Null
    /\ enabled = Null /\ err = Null /\ wrote = Null /\ untold = Null /\ before = Null /\ down = Null
NoServices ==
    /\ init = Null /\ behaves = Null /\ dropin = Null /\ svc = Null /\ st = Null
    /\ restarts = Null /\ started = Null

NoDropIns ==
    /\ kind = Null /\ root = Null /\ fileTools = Null /\ text = Null /\ loaded = Null /\ runs = Null
    /\ active = Null /\ pending = Null /\ rewrites = Null /\ restartsFor = Null /\ fails = Null
    /\ quiet = Null

InPackages == part = "packages"
InRepositories == part = "repositories"
InUnits == part = "units"
InServices == part = "services"
InDropIns == part = "dropins"

Init ==
    \/ InPackages /\ Packages!Init /\ NoRepositories /\ NoUnits /\ NoServices /\ NoDropIns
    \/ InRepositories /\ Repos!Init /\ NoPackages /\ NoUnits /\ NoServices /\ NoDropIns
    \/ InUnits /\ Units!Init /\ NoPackages /\ NoRepositories /\ NoServices /\ NoDropIns
    \/ InServices /\ Services!Init /\ NoPackages /\ NoRepositories /\ NoUnits /\ NoDropIns
    \/ InDropIns /\ DropIns!Init /\ NoPackages /\ NoRepositories /\ NoUnits /\ NoServices
Next ==
    /\ part' = part
    /\ \/ /\ InPackages /\ Packages!Next
          /\ UNCHANGED <<repositoryVars, unitVars, serviceVars, dropInVars>>
       \/ /\ InRepositories /\ Repos!Next
          /\ UNCHANGED <<packageVars, unitVars, serviceVars, dropInVars>>
       \/ /\ InUnits /\ Units!Next
          /\ UNCHANGED <<packageVars, repositoryVars, serviceVars, dropInVars>>
       \/ /\ InServices /\ Services!Next
          /\ UNCHANGED <<packageVars, repositoryVars, unitVars, dropInVars>>
       \/ /\ InDropIns /\ DropIns!Next
          /\ UNCHANGED <<packageVars, repositoryVars, unitVars, serviceVars>>
Spec == Init /\ [][Next]_vars
-------------------------------------------------------------------------------
\* Each property is that of the modules it names, while they run.

\* The variables of the module that runs have their types.
TypeOK ==
    /\ InPackages => Packages!TypeOK
    /\ InRepositories => Repos!TypeOK
    /\ InUnits => Units!TypeOK
    /\ InServices => Services!TypeOK
    /\ InDropIns => DropIns!TypeOK

\* The plan after an apply that ended well is empty.
Settled ==
    /\ InPackages => Packages!Settled
    /\ InRepositories => Repos!Settled
    /\ InUnits => Units!Settled
    /\ InServices => Services!Settled
    /\ InDropIns => DropIns!Settled

\* An empty plan means that the repository's files, key and index, what
\* systemd has loaded of the unit and runs of it, and what journald runs with,
\* are as configured.
Applied ==
    /\ InRepositories => Repos!EmptyPlanMeansDone
    /\ InUnits => Units!Applied
    /\ InDropIns => DropIns!Applied

\* A create that did something leaves a state, a repository's files never stay
\* without one, and a service's new triggers are stored only once it has been
\* restarted for them.
Recorded ==
    [][/\ InRepositories => Repos!Recorded'
       /\ InPackages => Packages!CreateRecorded
       /\ InUnits => Units!CreateRecorded
       /\ InServices => Services!RestartNotLost
       /\ InDropIns => DropIns!CreateRecorded]_vars

\* The version that is planned is the one that installing selects, and the
\* one that the apply ends with; a downgrade is only ever asked for.
Predicted ==
    [][InPackages =>
        Packages!CandidateIsSelected' /\ Packages!Predicted /\ Packages!DowngradeAsked]_vars

\* No command acts on another package because of how a tool reads the name,
\* no destroy on a unit that is not defined by our file; files that users put
\* there are not replaced or removed, lines of other repositories stay in
\* /etc/apk/repositories, and no sudoers file is installed that visudo rejects.
OthersKept ==
    [][/\ InPackages => Packages!NothingElse
       /\ InRepositories => Repos!UsersFilesKept /\ Repos!UsersLinesKept
       /\ InUnits => Units!VendorKept
       /\ InDropIns => DropIns!OnlyChecked /\ DropIns!FilesKept]_vars

\* The repository never refers to a stored key that is not there, and secret
\* key material is never stored.
KeyStored ==
    InRepositories => Repos!RefersToKey /\ Repos!NoSecretStored

\* A destroyed unit is as it was before it was created, and journald does not
\* run with a destroyed drop-in.
DestroyRestores ==
    [][(InUnits => Units!DestroyRestores) /\ (InDropIns => DropIns!DestroyRestores)]_vars

\* A unit that nobody else touches has been loaded by systemd when the plan
\* is empty, whatever failed before.
TakesEffect == InUnits /\ foreign = 0 => Units!TakesEffect
-------------------------------------------------------------------------------
(* The values that TLC gives the constants.                                  *)

Package(n, v, s, c, r) ==
    [name |-> n, version |-> v, state |-> s, manager |-> "auto", cache |-> c, remove |-> r]
MCPackages ==
    { Package("pkg", 0, "present", FALSE, TRUE), Package("pkg", 11, "present", TRUE, TRUE),
      Package("pkg", 0, "latest", TRUE, FALSE), Package("pkg", 0, "absent", FALSE, TRUE),
      Package("pkg", 0, "latest", FALSE, TRUE), Package("pkg", 21, "present", FALSE, TRUE) }
    \cup {Package(n, 0, "present", TRUE, TRUE) : n \in {"virtual", "pattern", "removal", "spec", "file"}}

Repository(uri, tag, key, url, refresh) ==
    [uri |-> uri, tag |-> tag, key |-> key, url |-> url, refresh |-> refresh]
MCUserLines == { [uri |-> "u", tag |-> t, by |-> "user"] : t \in {Null, "t"} }
MCRepositories ==
    { Repository("a", Null, Null, FALSE, TRUE), Repository("a", Null, <<"public", "k1">>, FALSE, TRUE),
      Repository("b", Null, <<"public", "k2">>, FALSE, FALSE), Repository("a", Null, Null, TRUE, TRUE),
      Repository("a", "t", Null, FALSE, FALSE), Repository("b", "t", Null, FALSE, TRUE),
      Repository("ftp://", Null, Null, FALSE, FALSE) }

Text(id, means, install, starts) == [id |-> id, means |-> means, install |-> install, starts |-> starts]
A == Text("a", 1, TRUE, "active")
B == Text("b", 2, TRUE, "active")
Unit(f, e, s, r) == [file |-> f, enabled |-> e, state |-> s, restart |-> r]
MCUnitFiles == {A, B}
MCUnits ==
    { Unit(A, TRUE, "running", TRUE), Unit(B, Null, "running", TRUE), Unit(B, FALSE, "stopped", TRUE),
      Unit(Text("a+comment", 1, TRUE, "active"), TRUE, "running", TRUE),
      Unit(B, TRUE, Null, FALSE), Unit(A, TRUE, Null, TRUE),
      Unit(Text("oneshot", 3, FALSE, "inactive"), TRUE, Null, TRUE),
      Unit(Text("fails", 4, TRUE, "failed"), Null, "running", TRUE) }

Service(n, e, s, t, l) == [name |-> n, enabled |-> e, state |-> s, triggers |-> t, runlevel |-> l]
MCServices ==
    { Service("unit", TRUE, "running", 1, "default"), Service("unit", TRUE, "running", 2, "default"),
      Service("unit", FALSE, "stopped", 2, "default"), Service("alias", TRUE, Null, 1, "default"),
      Service("unit", TRUE, Null, Null, "boot") }

Content(id, means, good, parses) == [id |-> id, means |-> means, good |-> good, parses |-> parses]
MCContents == { Content("a", 1, TRUE, TRUE), Content("a+comment", 1, TRUE, FALSE), Content("b", 2, TRUE, TRUE),
                Content("rejected", 3, FALSE, FALSE) }
MCDropIns == {[text |-> t, validate |-> TRUE, restart |-> r] : t \in MCContents, r \in BOOLEAN}
             \cup {[text |-> t, validate |-> FALSE, restart |-> FALSE] : t \in MCContents}
-------------------------------------------------------------------------------
(* Proofs, for any configurations that OptionsTyped allows and any number of *)
(* changes and faults.                                                       *)

LEMMA EditedFile ==
    ASSUME NEW f, Repos!IsFile(f)
    PROVE  /\ Repos!IsFile([f EXCEPT !.content.uri = "u"])
           /\ [f EXCEPT !.content.uri = "u"].content.key = f.content.key
           /\ Repos!IsFile([f EXCEPT !.plain = FALSE]) /\ [f EXCEPT !.plain = FALSE].content.key = f.content.key
           /\ Repos!IsFile([f EXCEPT !.by = "provider"]) /\ [f EXCEPT !.by = "provider"].content.key = f.content.key
<1> DEFINE c == f.content
           d == [c EXCEPT !.uri = "u"]
<1>1. c = [uri |-> c.uri, tag |-> c.tag, key |-> c.key, extra |-> c.extra]
  BY DEF Repos!IsFile
<1>2. d = [uri |-> "u", tag |-> c.tag, key |-> c.key, extra |-> c.extra]
  BY <1>1
<1>3. f = [content |-> c, plain |-> f.plain, by |-> f.by]
  BY DEF Repos!IsFile
<1> HIDE DEF d, c
<1>4. [f EXCEPT !.content = d] = [content |-> d, plain |-> f.plain, by |-> f.by]
  BY <1>3
<1>5. [f EXCEPT !.content.uri = "u"] = [f EXCEPT !.content = d]
  BY <1>3 DEF d, c
<1>6. [f EXCEPT !.plain = FALSE] = [content |-> c, plain |-> FALSE, by |-> f.by]
  <2>1. ASSUME NEW p PROVE [f EXCEPT !.plain = p] = [content |-> c, plain |-> p, by |-> f.by]
    BY <1>3
  <2> QED
    BY <2>1
<1>7. [f EXCEPT !.by = "provider"] = [content |-> c, plain |-> f.plain, by |-> "provider"]
  BY <1>3
<1> QED
  BY <1>1, <1>2, <1>4, <1>5, <1>6, <1>7 DEF Repos!IsFile, c

LEMMA EditedKeyFile ==
    ASSUME NEW k \in Repos!KeyFiles
    PROVE  /\ [k EXCEPT !.content = Repos!K3] \in Repos!KeyFiles /\ [k EXCEPT !.content = Repos!K3].content = Repos!K3
           /\ [k EXCEPT !.plain = FALSE] \in Repos!KeyFiles /\ [k EXCEPT !.plain = FALSE].content = k.content
           /\ [k EXCEPT !.by = "provider"] \in Repos!KeyFiles /\ [k EXCEPT !.by = "provider"].content = k.content
  BY DEF Repos!KeyFiles, Repos!Keys

LEMMA NoSecrets == Repos!NoSecretIn(Repos!K1) /\ Repos!NoSecretIn(Repos!K3)
  BY DEF Repos!NoSecretIn, Repos!K1, Repos!K3

LEMMA KeyInvariantInit == ASSUME Repos!KeysAreNoNull, Repos!Init PROVE Repos!KeyInvariant
<1>1. ASSUME NEW k, NEW e, NEW u
      PROVE  /\ Repos!IsFile(Repos!Stored([uri |-> u, tag |-> Null, key |-> k, extra |-> e], "user"))
             /\ Repos!Stored([uri |-> u, tag |-> Null, key |-> k, extra |-> e], "user").content.key = k
  BY DEF Repos!Stored, Repos!IsFile
<1>2. ASSUME file # Missing PROVE Repos!IsFile(file) /\ family # "apk"
  <2>1. file \in IF family = "apk" THEN {}
                 ELSE {Repos!Stored([uri |-> "u", tag |-> Null, key |-> k, extra |-> TRUE], "user") : k \in {"none", "file"}}
    BY <1>2 DEF Repos!Init
  <2>2. family # "apk"
    BY <2>1
  <2>3. PICK k \in {"none", "file"} :
          file = Repos!Stored([uri |-> "u", tag |-> Null, key |-> k, extra |-> TRUE], "user")
    BY <2>1, <2>2, Zenon
  <2> QED
    BY <2>2, <2>3, <1>1
<1>3. keyFile \in Repos!KeyFiles \cup {Missing} /\ (keyFile # Missing => keyFile.content = Repos!K1)
  <2>1. Repos!Stored(Repos!K1, "user") \in Repos!KeyFiles /\ Repos!Stored(Repos!K1, "user").content = Repos!K1
    BY DEF Repos!Stored, Repos!KeyFiles, Repos!Keys
  <2> QED
    BY <2>1 DEF Repos!Init
<1>4. Repos!RefersTo => keyFile # Missing
  BY DEF Repos!Init, Repos!RefersTo
<1>5. served \in Repos!Keys /\ pc = "idle" /\ config = Null
  BY DEF Repos!Init, Repos!LifecycleInit, Repos!Keys
<1> QED
  BY <1>2, <1>3, <1>4, <1>5, NoSecrets DEF Repos!KeyInvariant, Repos!KeyTypes

LEMMA KeyInvariantStep ==
    ASSUME Repos!KeysAreNoNull, Repos!KeyInvariant, Repos!Next \/ UNCHANGED Repos!vars PROVE Repos!KeyInvariant'
<1> USE DEF Repos!KeyInvariant
<1>1. CASE Repos!Configure
  BY <1>1 DEF Repos!Configure, Repos!Configured, Repos!KeyTypes, Repos!running, Repos!disk, Repos!apply,
       Repos!Idle, Repos!RefersTo, Repos!StoresKey, Repos!IsFile
<1>2. CASE Repos!Refresh
  BY <1>2 DEF Repos!Refresh, Repos!Refreshed, Repos!KeyTypes, Repos!running, Repos!disk, Repos!apply,
       Repos!Idle, Repos!RefersTo, Repos!StoresKey, Repos!IsFile
<1>3. CASE Repos!Import
  <2>1. /\ pc = "idle" /\ pc' = "idle" /\ UNCHANGED <<config, served, family, tampered>>
        /\ file # Missing /\ file' = [file EXCEPT !.by = "provider"]
        /\ keyFile' \in {keyFile, [keyFile EXCEPT !.by = "provider"]}
        /\ keyFile = Missing => keyFile' = keyFile
    BY <1>3 DEF Repos!Import, Repos!Refreshed, Repos!running, Repos!apply, Repos!Idle
  <2>2. Repos!IsFile(file') /\ file'.content.key = file.content.key /\ family' # "apk"
    BY <2>1, EditedFile DEF Repos!KeyTypes
  <2>3. keyFile # Missing => keyFile' \in Repos!KeyFiles /\ keyFile'.content = keyFile.content
    BY <2>1, EditedKeyFile DEF Repos!KeyTypes
  <2> HIDE DEF Repos!KeyInvariant
  <2>4. /\ Repos!KeyTypes /\ (Repos!RefersTo => keyFile # Missing \/ tampered)
        /\ keyFile # Missing => Repos!NoSecretIn(keyFile.content)
    BY DEF Repos!KeyInvariant
  <2>5. keyFile # Missing => keyFile' # Missing
    BY <2>3 DEF Repos!KeysAreNoNull
  <2>6. Repos!KeyTypes'
    BY <2>1, <2>2, <2>3, <2>4 DEF Repos!KeyTypes
  <2>7. (Repos!RefersTo => keyFile # Missing \/ tampered)'
    BY <2>1, <2>2, <2>4, <2>5 DEF Repos!RefersTo
  <2>8. (keyFile # Missing => Repos!NoSecretIn(keyFile.content))'
    BY <2>1, <2>3, <2>4 DEF Repos!NoSecretIn
  <2> QED
    BY <2>1, <2>6, <2>7, <2>8 DEF Repos!KeyInvariant
<1>4. CASE Repos!BeginCreate \/ Repos!BeginUpdate
  BY <1>4 DEF Repos!BeginCreate, Repos!BeginUpdate, Repos!Apply, Repos!Begin, Repos!KeyTypes,
     Repos!resource,
       Repos!disk, Repos!Idle, Repos!RefersTo, Repos!StoresKey, Repos!IsFile
<1>5. CASE Repos!KeepKey
  BY <1>5 DEF Repos!KeepKey, Repos!Goto, Repos!KeepsKey, Repos!KeyRead, Repos!KeyTypes, Repos!resource,
       Repos!disk, Repos!Idle, Repos!RefersTo, Repos!StoresKey, Repos!IsFile
<1>6. CASE Repos!StoreKey
  <2>1. /\ pc = "key" /\ Repos!StoresKey(plan) /\ Repos!WriteKey /\ Repos!NoSecretIn(Repos!Key)
        /\ UNCHANGED <<family, file, served, tampered>>
    BY <1>6 DEF Repos!StoreKey, Repos!Normalizes, Repos!NoSecretIn
  <2>2. CASE Repos!Failed(Null) /\ UNCHANGED <<keyFile, fresh, sha, written, createdKey>>
    BY <2>1, <2>2 DEF Repos!Failed, Repos!KeyTypes, Repos!RefersTo
  <2>3. CASE /\ Repos!Goto("repository") /\ keyFile' = Repos!Stored(Repos!Key, "provider") /\ createdKey' = ~Repos!OwnKey
             /\ ~(keyFile # Missing /\ ~Repos!OwnKey)
    <3>1. Repos!Key \in Repos!Keys
      BY <2>1 DEF Repos!Key, Repos!KeyTypes, Repos!KeysAreNoNull
    <3>2. Repos!Stored(Repos!Key, "provider") \in Repos!KeyFiles /\ Repos!Stored(Repos!Key, "provider").content = Repos!Key
      BY <3>1 DEF Repos!Stored, Repos!KeyFiles
    <3>3. keyFile' # Missing /\ keyFile' \in Repos!KeyFiles /\ keyFile'.content = Repos!Key
      BY <2>3, <3>2 DEF Repos!KeysAreNoNull
    <3>4. Repos!NoSecretIn(keyFile.content)'
      BY <2>1, <3>3 DEF Repos!NoSecretIn
    <3>5. pc' = "repository" /\ UNCHANGED <<config, plan>>
      BY <2>3 DEF Repos!Goto, Repos!resource
    <3>6. Repos!KeyTypes'
      BY <2>1, <3>3, <3>5 DEF Repos!KeyTypes
    <3>7. createdKey' => ~Repos!RefersTo' \/ tampered'
      BY <2>1, <2>3 DEF Repos!RefersTo
    <3> QED
      BY <3>3, <3>4, <3>5, <3>6, <3>7 DEF Repos!KeyInvariant
  <2> QED
    BY <2>1, <2>2, <2>3 DEF Repos!WriteKey
<1>7. CASE Repos!RefuseKey \/ Repos!NoKey
  BY <1>7 DEF Repos!RefuseKey, Repos!NoKey, Repos!Goto, Repos!Failed, Repos!KeyTypes, Repos!resource,
       Repos!disk, Repos!apply, Repos!Idle, Repos!RefersTo, Repos!StoresKey, Repos!IsFile
<1>8. CASE Repos!RefuseRepository
  BY <1>8 DEF Repos!RefuseRepository, Repos!RollBack, Repos!Failed, Repos!KeyTypes, Repos!resource,
     Repos!disk,
       Repos!apply, Repos!Idle, Repos!RefersTo, Repos!StoresKey, Repos!IsFile
<1>9. CASE Repos!WriteRepository
  BY <1>9 DEF Repos!WriteRepository, Repos!Goto, Repos!KeyTypes, Repos!Stored, Repos!Render,
     Repos!resource,
       Repos!disk, Repos!apply, Repos!Idle, Repos!RefersTo, Repos!StoresKey, Repos!IsFile
<1>10. CASE Repos!RemoveOldKey
  BY <1>10 DEF Repos!RemoveOldKey, Repos!UnusedKey, Repos!OwnKey, Repos!Goto, Repos!KeyTypes,
     Repos!resource,
       Repos!disk, Repos!apply, Repos!Idle, Repos!RefersTo, Repos!StoresKey, Repos!IsFile
<1>11. CASE Repos!RefreshIndex \/ Repos!RefreshFails
  BY <1>11 DEF Repos!RefreshIndex, Repos!RefreshFails, Repos!Succeeded, Repos!Faulted, Repos!KeyTypes,
       Repos!resource, Repos!disk, Repos!apply, Repos!Idle, Repos!RefersTo, Repos!StoresKey, Repos!IsFile
<1>12. CASE Repos!BeginDelete \/ Repos!DropRepository \/ Repos!DropKey
  BY <1>12 DEF Repos!BeginDelete, Repos!DropRepository, Repos!DropKey, Repos!Begin, Repos!Goto,
     Repos!Succeeded,
       Repos!KeyTypes, Repos!resource, Repos!disk, Repos!apply, Repos!Idle, Repos!RefersTo, Repos!StoresKey,
       Repos!IsFile
<1>13. CASE Repos!Fault \/ Repos!RollBackFails \/ Repos!Kill
  BY <1>13 DEF Repos!Fault, Repos!RollBackFails, Repos!Kill, Repos!Faulted, Repos!Killed, Repos!KeyTypes,
       Repos!resource, Repos!disk, Repos!apply, Repos!Idle, Repos!RefersTo, Repos!StoresKey, Repos!IsFile
<1>14. CASE Repos!OthersChangeFiles
  <2>1. /\ UNCHANGED <<config, pc, plan, family, createdKey>> /\ raced' = TRUE
    BY <1>14 DEF Repos!OthersChangeFiles, Repos!Intrusion, Repos!resource, Repos!running, Repos!apply
  <2>2. file' \in {file, Missing} \/ (Repos!IsFile(file') /\ file'.content.key = file.content.key /\ file # Missing /\ family # "apk")
    BY <1>14, EditedFile DEF Repos!OthersChangeFiles, Repos!KeyTypes
  <2>3. /\ keyFile' \in Repos!KeyFiles \cup {Missing}
        /\ keyFile' # Missing => keyFile # Missing /\ keyFile'.content \in {keyFile.content, Repos!K3}
        /\ keyFile' = Missing => keyFile = Missing \/ tampered'
        /\ tampered => tampered'
    <3>1. CASE UNCHANGED <<keyFile, tampered>>
      BY <3>1 DEF Repos!KeyTypes
    <3>2. CASE keyFile # Missing /\ keyFile' = Missing /\ tampered'
      BY <3>2
    <3>3. CASE /\ keyFile # Missing /\ (tampered => tampered')
               /\ keyFile' \in {[keyFile EXCEPT !.content = Repos!K3], [keyFile EXCEPT !.plain = FALSE]}
      <4>1. keyFile' \in Repos!KeyFiles /\ keyFile'.content \in {keyFile.content, Repos!K3}
        BY <3>3, EditedKeyFile DEF Repos!KeyTypes
      <4> QED
        BY <4>1, <3>3 DEF Repos!KeysAreNoNull
    <3> QED
      BY <1>14, <3>1, <3>2, <3>3 DEF Repos!OthersChangeFiles
  <2>4. served' \in Repos!Keys
    BY <1>14 DEF Repos!OthersChangeFiles, Repos!KeyTypes, Repos!Keys
  <2>5. Repos!KeyTypes'
    BY <2>1, <2>2, <2>3, <2>4 DEF Repos!KeyTypes
  <2>6. Repos!RefersTo' => Repos!RefersTo
    BY <2>2 DEF Repos!RefersTo
  <2>7. (keyFile # Missing => Repos!NoSecretIn(keyFile.content))'
    BY <2>3, NoSecrets DEF Repos!NoSecretIn
  <2>8. Repos!StoresKey(plan)' = Repos!StoresKey(plan)
    BY <2>1 DEF Repos!StoresKey
  <2>9. pc' = "dropkey" => file' = Missing
    BY <2>1, <2>2
  <2> QED
    BY <2>1, <2>3, <2>5, <2>6, <2>7, <2>8, <2>9 DEF Repos!KeyInvariant
<1>15. CASE Repos!OthersChangeLines
  BY <1>15 DEF Repos!OthersChangeLines, Repos!Intrusion, Repos!KeyTypes, Repos!resource, Repos!running,
       Repos!disk, Repos!apply, Repos!Idle, Repos!RefersTo, Repos!StoresKey, Repos!IsFile
<1>16. CASE UNCHANGED Repos!vars
  BY <1>16 DEF Repos!vars, Repos!lifecycle, Repos!KeyTypes, Repos!resource, Repos!running, Repos!disk,
       Repos!apply, Repos!Idle, Repos!RefersTo, Repos!StoresKey, Repos!IsFile
<1> QED
  BY <1>1, <1>2, <1>3, <1>4, <1>5, <1>6, <1>7, <1>8, <1>9, <1>10, <1>11, <1>12, <1>13, <1>14, <1>15,
       <1>16 DEF Repos!Next

LEMMA KeyIsMeant == Repos!KeyInvariant => Repos!RefersToKey /\ Repos!NoSecretStored
  BY DEF Repos!KeyInvariant, Repos!RefersToKey, Repos!NoSecretStored, Repos!RefersTo, Repos!NoSecretIn

(* The key of a repository is there and is no secret.                        *)
THEOREM KeysAreStored == Spec => []KeyStored
<1> DEFINE Inv == InRepositories => Repos!KeyInvariant
<1>1. Init => Inv
  BY OptionsTyped, KeyInvariantInit DEF Init, InPackages, InRepositories, InUnits, InServices, InDropIns
<1>2. Inv /\ [Next]_vars => Inv'
  <2> SUFFICES ASSUME Inv, [Next]_vars, InRepositories PROVE Inv'
    BY DEF Next, vars, InRepositories
  <2>1. Repos!Next \/ UNCHANGED Repos!vars
    <3>1. CASE Next
      BY <3>1 DEF Next, InRepositories, InPackages, InUnits, InServices, InDropIns
    <3>2. CASE UNCHANGED vars
      BY <3>2 DEF vars, repositoryVars, lifecycle, resource, running, bounds,
                  Repos!vars, Repos!disk, Repos!apply, Repos!lifecycle,
                  Repos!resource, Repos!running, Repos!bounds
    <3> QED
      BY <3>1, <3>2
  <2> QED
    BY <2>1, OptionsTyped, KeyInvariantStep
<1>3. Inv => KeyStored
  BY KeyIsMeant DEF KeyStored
<1> QED
  BY <1>1, <1>2, <1>3, PTL DEF Spec

-------------------------------------------------------------------------------
(* Proofs about Services, by its invariant ServiceInv.                      *)
LEMMA LaunchSame ==
    ASSUME NEW s \in Services!Service, behaves \in {"active", "inactive", "failed"}
    PROVE  /\ Services!Same(Services!Launch(s).svc, s)
           /\ Services!Launch(s).ok => Services!Launch(s).svc.runs = s.loaded
<1> DEFINE t == [s EXCEPT !.active = behaves, !.runs = s.loaded]
<1>1. Services!Same(t, s) /\ t.runs = s.loaded
  BY DEF Services!Same, Services!Service
<1>2. Services!Same(s, s)
  BY DEF Services!Same
<1> HIDE DEF t
<1>3. Services!Launch(s) = Services!Result(s, FALSE) \/ Services!Launch(s) = Services!Result(t, behaves # "failed")
  BY DEF Services!Launch, t
<1> QED
  BY <1>1, <1>2, <1>3 DEF Services!Result

LEMMA ReadAgainSame ==
    ASSUME NEW s \in Services!Service PROVE Services!Same(Services!ReadAgain(s), s) /\ Services!ReadAgain(s).loaded = s.disk
  BY DEF Services!Same, Services!Service, Services!ReadAgain, Services!Versions

LEMMA SetRunningSame ==
    ASSUME NEW on \in BOOLEAN, svc \in Services!Service, behaves \in {"active", "inactive", "failed"}
    PROVE  /\ Services!Same(Services!SetRunning(on).svc, svc)
           /\ on /\ Services!SetRunning(on).ok => Services!SetRunning(on).svc.runs = svc.disk \/ dropin
<1>1. /\ Services!ReloadIfNeeded \in Services!Service /\ Services!Same(Services!ReloadIfNeeded, svc)
      /\ Services!ReloadIfNeeded.loaded = svc.disk \/ dropin
  BY ReadAgainSame DEF Services!ReloadIfNeeded, Services!NeedDaemonReload, Services!Same
<1>2. CASE on
  BY <1>1, <1>2, LaunchSame DEF Services!SetRunning, Services!Same
<1>3. CASE ~on
  <2> DEFINE t == [svc EXCEPT !.active = "inactive"]
  <2>1. Services!Same(t, svc)
    BY DEF Services!Same, Services!Service
  <2> HIDE DEF t
  <2>2. Services!SetRunning(on).svc = t
    BY <1>3 DEF Services!SetRunning, Services!Result, t
  <2> QED
    BY <1>3, <2>1, <2>2
<1> QED
  BY <1>2, <1>3

LEMMA SetEnabledSame ==
    ASSUME svc \in Services!Service, NEW m, NEW on \in BOOLEAN, m.runlevel \in {"default", "boot"}
    PROVE  LET t == Services!SetEnabled(m, on).svc
           IN  /\ t \in Services!Service /\ t.exists = svc.exists /\ t.disk = svc.disk
               /\ t.active = svc.active
<1> DEFINE a == [svc EXCEPT !.link = IF on THEN "enabled" ELSE "disabled", !.loaded = svc.disk]
           b == [svc EXCEPT !.levels = IF on THEN @ \cup {m.runlevel} ELSE @ \ {m.runlevel}]
           Good(t) == /\ t \in Services!Service /\ t.exists = svc.exists /\ t.disk = svc.disk
                      /\ t.active = svc.active
<1>1. Good(a)
  BY DEF Services!Service
<1>2. Good(b)
  BY DEF Services!Service
<1>3. Good(svc)
  OBVIOUS
<1> HIDE DEF a, b, Good
<1>4. Services!SetEnabled(m, on).svc \in {svc, a, b}
  BY DEF Services!SetEnabled, Services!SystemdSetEnabled, Services!OpenrcSetEnabled,
     Services!Result, a, b
<1> QED
  BY <1>1, <1>2, <1>3, <1>4 DEF Good

LEMMA ServiceInit == ASSUME Services!Init PROVE Services!ServiceInv
  BY DEF Services!Init, Services!LifecycleInit, Services!ServiceInv, Services!Idle

LEMMA ServiceStep ==
    ASSUME Services!OptionsTyped, Services!ServiceInv, Services!Next \/ UNCHANGED Services!vars
    PROVE  Services!ServiceInv'
<1> USE DEF Services!ServiceInv, Services!Idle
<1>t. ASSUME NEW c \in ServiceOptions
      PROVE  /\ c.enabled \in BOOLEAN \cup {Null} /\ c.state \in {"running", "stopped", Null}
             /\ c.runlevel \in {"default", "boot"}
  BY DEF Services!OptionsTyped, Services!Configurations
\* What holds of an operation that goes on.
<1>g. ASSUME ~Services!Idle, pc' \in {"enable", "run", "restart", "save", "failed"},
             UNCHANGED <<init, behaves, config, state, op, plan, restarts, done, raced>>,
             svc' \in Services!Service, svc'.disk = svc.disk,
             pc' \in {"enable", "run"} => ~started', raced \/ Services!Reached'
      PROVE  Services!ServiceInv'
  BY <1>g
<1>f. ASSUME ~Services!Idle, pc' = "failed",
             UNCHANGED <<init, behaves, config, state, op, plan, restarts, done, raced>>,
             svc' \in Services!Service, svc'.disk = svc.disk
      PROVE  Services!ServiceInv'
  BY <1>f, <1>g DEF Services!Reached
\* One that ends.
<1>e. ASSUME pc' = "idle", op' = "none", done' = FALSE, UNCHANGED <<init, behaves, config, svc>>
      PROVE  Services!ServiceInv'
  BY <1>e
<1>1. CASE Services!Configure
  BY <1>1 DEF Services!Configure, Services!Configured, Services!host, Services!progress, Services!running
<1>2. CASE Services!Refresh
  <2>1. /\ pc = "idle" /\ pc' = "idle" /\ UNCHANGED <<config, op, init, behaves, svc>>
        /\ state # Null /\ state' = Services!Found(state) /\ done' = (done /\ state # Null)
    BY <1>2 DEF Services!Refresh, Services!Refreshed, Services!host, Services!running
  <2>2. /\ Services!Status(config)' = Services!Status(config) /\ Services!EnabledAs(config)' = Services!EnabledAs(config)
        /\ Services!RunsAs(config)' = Services!RunsAs(config)
    BY <2>1 DEF Services!Status, Services!SystemdStatus, Services!OpenrcStatus, Services!EnabledAs,
       Services!RunsAs, Services!Runs
  <2>3. ASSUME done PROVE state' = state
    <3>1. state = Services!StateOf(config, Services!Status(config)) /\ svc.exists
      BY <2>1, <2>3
    <3>2. state.name = config.name /\ state.triggers = config.triggers /\ state.runlevel = config.runlevel
      BY <3>1 DEF Services!StateOf
    <3>3. Services!Status(state) = Services!Status(config) /\ Services!Status(state).found
      BY <3>1, <3>2 DEF Services!Status, Services!SystemdStatus, Services!OpenrcStatus
    <3> QED
      BY <2>1, <3>1, <3>2, <3>3 DEF Services!Found, Services!StateOf
  <2>4. Services!StateOf(config, Services!Status(config))' = Services!StateOf(config, Services!Status(config))
    BY <2>1, <2>2 DEF Services!StateOf
  <2> QED
    BY <2>1, <2>2, <2>3, <2>4
<1>3. CASE Services!Import
  BY <1>3 DEF Services!Import, Services!Refreshed, Services!host, Services!progress, Services!running
<1>4. CASE Services!BeginCreate \/ Services!BeginUpdate
  <2>1. /\ config # Null /\ UNCHANGED <<config, state, init, behaves>> /\ started' = FALSE /\ done' = FALSE
        /\ op' \in {"create", "update"} /\ pc' = "status" /\ plan' = config
        /\ svc' = IF config.triggers = Null THEN svc ELSE [svc EXCEPT !.disk = config.triggers]
        /\ op' = "update" => restarts' = Services!TriggersChanged(state.triggers, config.triggers)
    BY <1>4 DEF Services!BeginCreate, Services!BeginUpdate, Services!Begins, Services!Begin,
       Services!host, Services!resource
  <2>2. config.triggers \in Services!Versions \cup {Null}
    BY <2>1 DEF Services!OptionsTyped, Services!Configurations
  <2>3. svc' \in Services!Service /\ (config.triggers # Null => svc'.disk = config.triggers)
    BY <2>1, <2>2 DEF Services!Service
  <2>4. Services!Reached'
    BY <2>1 DEF Services!Reached
  <2> QED
    BY <2>1, <2>3, <2>4
<1>5. CASE Services!GetStatus
  BY <1>5, <1>g, <1>f DEF Services!GetStatus, Services!Goto, Services!Reached, Services!Status,
     Services!SystemdStatus, Services!OpenrcStatus, Services!host, Services!resource,
     Services!bounds
<1>6. CASE Services!Enable
  <2>1. /\ pc = "enable" /\ plan \in ServiceOptions /\ started' = started
        /\ UNCHANGED <<init, behaves, config, state, op, plan, restarts, done, raced, st>>
    BY <1>6 DEF Services!Enable, Services!Verify, Services!Goto, Services!host, Services!resource
  <2>2. PICK r, x : /\ svc' = r.svc /\ Services!Goto(IF r.ok /\ x THEN "run" ELSE "failed")
                    /\ \/ /\ plan.enabled # Null /\ r = Services!SetEnabled(plan, plan.enabled)
                          /\ x = (plan.enabled = (IF init = "systemd" THEN r.svc.link = "enabled"
                                                  ELSE plan.runlevel \in r.svc.levels))
                       \/ plan.enabled \in {Null, st.enabled} /\ r = Services!Result(svc, TRUE)
    BY <1>6 DEF Services!Enable, Services!Verify
  <2>3. CASE r = Services!Result(svc, TRUE) /\ plan.enabled \in {Null, st.enabled}
    <3>1. svc' = svc
      BY <2>2, <2>3 DEF Services!Result
    <3>2. raced \/ (Services!EnabledAs(plan)' /\ st'.running = Services!Runs')
      BY <2>1, <2>3, <3>1 DEF Services!Reached, Services!EnabledAs, Services!Runs, Services!Status,
         Services!SystemdStatus, Services!OpenrcStatus
    <3>3. pc' \in {"run", "failed"} /\ (raced \/ Services!Reached')
      BY <2>1, <2>2, <3>1, <3>2 DEF Services!Reached, Services!Goto
    <3> QED
      BY <2>1, <3>1, <3>3, <1>g
  <2>4. CASE plan.enabled # Null /\ r = Services!SetEnabled(plan, plan.enabled)
             /\ x = (plan.enabled = (IF init = "systemd" THEN r.svc.link = "enabled"
                                     ELSE plan.runlevel \in r.svc.levels))
    <3>1. svc' \in Services!Service /\ svc'.exists = svc.exists /\ svc'.disk = svc.disk /\ svc'.active = svc.active
      BY <2>1, <2>2, <2>4, <1>t, SetEnabledSame
    <3>2. CASE pc' = "failed"
      BY <2>1, <3>1, <3>2, <1>f
    <3>3. CASE pc' = "run"
      <4>1. x
        BY <2>2, <3>3 DEF Services!Goto
      <4>2. Services!EnabledAs(plan)'
        BY <4>1, <2>1, <2>2, <2>4 DEF Services!EnabledAs, Services!Status, Services!SystemdStatus,
           Services!OpenrcStatus
      <4>3. raced \/ Services!Reached'
        BY <4>2, <2>1, <3>1, <3>3 DEF Services!Reached, Services!Runs, Services!Status,
           Services!SystemdStatus, Services!OpenrcStatus
      <4> QED
        BY <4>3, <2>1, <3>1, <3>3, <1>g
    <3> QED
      BY <2>2, <3>2, <3>3 DEF Services!Goto
  <2> QED
    BY <2>2, <2>3, <2>4
<1>7. CASE Services!Run
  <2>1. /\ pc = "run" /\ plan \in ServiceOptions
        /\ UNCHANGED <<init, behaves, config, state, op, plan, restarts, done, raced, st>>
    BY <1>7 DEF Services!Run, Services!Verify, Services!Goto, Services!host, Services!resource
  <2> DEFINE on == plan.state = "running"
  <2>2. CASE plan.state # Null /\ on # st.running
    <3>1. /\ svc' = Services!SetRunning(on).svc /\ started' = on
          /\ Services!Goto(IF Services!SetRunning(on).ok /\ on = (Services!SetRunning(on).svc.active = "active") THEN "restart" ELSE "failed")
      BY <1>7, <2>2 DEF Services!Run, Services!Verify
    <3>2. /\ Services!Same(svc', svc) /\ (on /\ Services!SetRunning(on).ok => svc'.runs = svc.disk \/ dropin)
      BY <3>1, SetRunningSame
    <3>3. CASE pc' = "failed"
      BY <2>1, <3>2, <3>3, <1>f DEF Services!Same
    <3>4. CASE pc' = "restart"
      <4>1. Services!SetRunning(on).ok /\ on = (svc'.active = "active")
        BY <3>1, <3>4 DEF Services!Goto
      <4>2. Services!RunsAs(plan)'
        BY <2>1, <4>1 DEF Services!RunsAs, Services!Runs
      <4>3. raced \/ (Services!EnabledAs(plan)' /\ svc'.exists)
        BY <2>1, <3>2 DEF Services!Reached, Services!EnabledAs, Services!Same, Services!Status,
           Services!SystemdStatus, Services!OpenrcStatus
      <4>4. started' => svc'.runs = svc'.disk \/ dropin'
        BY <1>7, <3>1, <3>2, <4>1 DEF Services!Same, Services!Run, Services!Verify, Services!host
      <4>5. ~(~started' /\ Services!Runs')
        BY <3>1, <4>1 DEF Services!Runs
      <4>6. raced \/ Services!Reached'
        BY <3>4, <4>2, <4>3, <4>4, <4>5 DEF Services!Reached
      <4> QED
        BY <4>6, <2>1, <3>2, <3>4, <1>g DEF Services!Same
    <3> QED
      BY <3>1, <3>3, <3>4 DEF Services!Goto
  <2>3. CASE plan.state = Null \/ on = st.running
    <3>1. svc' = svc /\ started' = started /\ pc' = "restart"
      BY <1>7, <2>3 DEF Services!Run, Services!Verify, Services!Result, Services!Goto
    <3>2. raced \/ Services!Reached'
      BY <2>1, <2>3, <3>1 DEF Services!Reached, Services!EnabledAs, Services!RunsAs, Services!Runs,
         Services!Status, Services!SystemdStatus, Services!OpenrcStatus
    <3> QED
      BY <2>1, <3>1, <3>2, <1>g
  <2> QED
    BY <2>2, <2>3
<1>8. CASE Services!Restart
  <2>1. /\ pc = "restart" /\ plan \in ServiceOptions /\ started' = started /\ dropin' = dropin
        /\ UNCHANGED <<init, behaves, config, state, op, plan, restarts, done, raced, st>>
    BY <1>8 DEF Services!Restart, Services!Verify, Services!Goto, Services!host, Services!resource
  <2>2. CASE restarts /\ st.running /\ ~started /\ plan.state # "stopped"
    <3>1. /\ svc' = Services!Restarted.svc
          /\ Services!Goto(IF Services!Restarted.ok /\ Services!Restarted.svc.active = "active" THEN "save" ELSE "failed")
      BY <1>8, <2>2 DEF Services!Restart, Services!Verify
    <3>2. Services!Same(svc', svc) /\ (Services!Restarted.ok => svc'.runs = svc'.disk)
      BY <3>1, ReadAgainSame, LaunchSame DEF Services!Restarted, Services!Same
    <3>3. CASE pc' = "failed"
      BY <2>1, <3>2, <3>3, <1>f DEF Services!Same
    <3>4. CASE pc' = "save"
      <4>1. Services!Restarted.ok /\ svc'.active = "active"
        BY <3>1, <3>4 DEF Services!Goto
      <4>2. Services!RunsAs(plan)'
        BY <2>1, <2>2, <4>1, <1>t DEF Services!RunsAs, Services!Runs
      <4>3. raced \/ (Services!EnabledAs(plan)' /\ svc'.exists)
        BY <2>1, <3>2 DEF Services!Reached, Services!EnabledAs, Services!Same, Services!Status,
           Services!SystemdStatus, Services!OpenrcStatus
      <4>4. raced \/ Services!Reached'
        BY <3>2, <3>4, <4>1, <4>2, <4>3 DEF Services!Reached
      <4> QED
        BY <4>4, <2>1, <3>2, <3>4, <1>g DEF Services!Same
    <3> QED
      BY <3>1, <3>3, <3>4 DEF Services!Goto
  <2>3. CASE ~(restarts /\ st.running /\ ~started /\ plan.state # "stopped")
    <3>1. svc' = svc /\ pc' = "save"
      BY <1>8, <2>3 DEF Services!Restart, Services!Verify, Services!Result, Services!Goto
    <3>2. Services!Reached => Services!EnabledAs(plan)' /\ Services!RunsAs(plan)' /\ svc'.exists
      BY <2>1, <3>1 DEF Services!Reached, Services!EnabledAs, Services!RunsAs, Services!Runs,
         Services!Status, Services!SystemdStatus, Services!OpenrcStatus
    <3>3. ASSUME Services!Reached, Services!Runs, restarts PROVE started /\ (svc.runs = svc.disk \/ dropin)
      <4>1. plan.state # "stopped"
        BY <2>1, <3>3 DEF Services!Reached, Services!RunsAs, Services!OptionsTyped
      <4> QED
        BY <2>1, <2>3, <3>3, <4>1 DEF Services!Reached
    <3>4. raced \/ Services!Reached'
      BY <2>1, <3>1, <3>2, <3>3 DEF Services!Reached, Services!Runs
    <3> QED
      BY <2>1, <3>1, <3>4, <1>g
  <2> QED
    BY <2>2, <2>3
<1>9. CASE Services!Save
  <2>1. pc = "save" /\ pc' = "idle" /\ op' = "none" /\ UNCHANGED <<init, behaves, config, svc, raced>>
    BY <1>9 DEF Services!Save, Services!Succeeded, Services!Failed, Services!host
  <2>2. CASE Services!Failed(Null)
    BY <2>1, <2>2, <1>e DEF Services!Failed
  <2>3. CASE Services!Succeeded(Services!Found(plan)) /\ ~raced
    <3>1. plan = config /\ svc.exists /\ Services!EnabledAs(config) /\ Services!RunsAs(config)
      BY <2>1, <2>3 DEF Services!Reached
    <3>2. state' = Services!StateOf(config, Services!Status(config))
      BY <2>3, <3>1 DEF Services!Succeeded, Services!Found, Services!Status, Services!SystemdStatus,
         Services!OpenrcStatus
    <3>3. /\ state' = Services!StateOf(config, Services!Status(config))' /\ Services!EnabledAs(config)' /\ Services!RunsAs(config)'
      BY <2>1, <3>1, <3>2 DEF Services!StateOf, Services!EnabledAs, Services!RunsAs, Services!Runs,
         Services!Status, Services!SystemdStatus, Services!OpenrcStatus
    <3> QED
      BY <2>1, <3>1, <3>3
  <2>4. CASE Services!Succeeded(Services!Found(plan)) /\ raced
    BY <2>1, <2>4, <1>e DEF Services!Succeeded
  <2> QED
    BY <1>9, <2>2, <2>3, <2>4 DEF Services!Save
<1>10. CASE Services!SaveFailed \/ Services!InitFails \/ Services!Kill
  BY <1>10, <1>e DEF Services!SaveFailed, Services!InitFails, Services!Kill, Services!Failed,
     Services!Faulted, Services!Killed, Services!host, Services!progress, Services!resource
<1>11. CASE Services!Delete
  BY <1>11 DEF Services!Delete, Services!Refreshed, Services!host, Services!progress, Services!running
<1>12. CASE Services!CommandFails
  <2> DEFINE t == [svc EXCEPT !.active = "inactive"]
  <2>1. t \in Services!Service /\ t.disk = svc.disk
    BY DEF Services!Service
  <2> HIDE DEF t
  <2>2. svc' \in {svc, t}
    BY <1>12 DEF Services!CommandFails, t
  <2> QED
    BY <1>12, <1>f, <2>1, <2>2 DEF Services!CommandFails, Services!host, Services!progress,
       Services!resource
<1>13. CASE Services!Invoke \/ Services!OthersAct
  <2>1. /\ UNCHANGED <<init, behaves, config, state, pc, op, plan, restarts, started>>
        /\ raced' = TRUE /\ done' = FALSE
    BY <1>13 DEF Services!Invoke, Services!OthersAct, Services!Intrusion, Services!host,
       Services!progress, Services!resource, Services!running
  <2>2. CASE Services!Invoke
    <3>1. Services!Same(Services!Restarted.svc, svc) /\ Services!Same(Services!ReadAgain(svc), svc) /\ Services!Same(Services!ReloadIfNeeded, svc)
      BY ReadAgainSame, LaunchSame DEF Services!Restarted, Services!Same, Services!ReloadIfNeeded
    <3>2. Services!Same(svc', svc)
      BY <2>2, <3>1, SetRunningSame DEF Services!Invoke
    <3> QED
      BY <2>1, <3>2 DEF Services!Same
  <2>3. CASE Services!OthersAct
    <3>1. ASSUME NEW a \in {"active", "inactive", "failed"},
                 svc' = [svc EXCEPT !.active = a, !.runs = IF a = "active" THEN svc.loaded ELSE @]
          PROVE  svc' \in Services!Service /\ svc'.disk = svc.disk
      BY <3>1 DEF Services!Service
    <3>2. ASSUME NEW l \in {"enabled", "disabled", "masked"}, svc' = [svc EXCEPT !.link = l]
          PROVE  svc' \in Services!Service /\ svc'.disk = svc.disk
      BY <3>2 DEF Services!Service
    <3>3. ASSUME NEW l \in SUBSET {"default", "boot"}, svc' = [svc EXCEPT !.levels = l]
          PROVE  svc' \in Services!Service /\ svc'.disk = svc.disk
      BY <3>3 DEF Services!Service
    <3>4. ASSUME svc' = [svc EXCEPT !.exists = FALSE, !.active = "inactive"]
          PROVE  svc' \in Services!Service /\ svc'.disk = svc.disk
      BY <3>4 DEF Services!Service
    <3>5. svc' \in Services!Service /\ svc'.disk = svc.disk
      BY <2>3, <3>1, <3>2, <3>3, <3>4 DEF Services!OthersAct
    <3> QED
      BY <2>1, <3>5
  <2> QED
    BY <1>13, <2>2, <2>3
<1>14. CASE UNCHANGED Services!vars
  BY <1>14 DEF Services!vars, Services!lifecycle, Services!host, Services!progress,
     Services!resource, Services!running, Services!Reached, Services!EnabledAs, Services!RunsAs,
     Services!Runs,
               Services!Status, Services!SystemdStatus, Services!OpenrcStatus, Services!StateOf
<1> QED
  BY <1>1, <1>2, <1>3, <1>4, <1>5, <1>6, <1>7, <1>8, <1>9, <1>10, <1>11, <1>12, <1>13, <1>14 DEF
     Services!Next

(* Nothing is left to do after an apply that ended well.                     *)
LEMMA ServiceSettled == ASSUME Services!OptionsTyped, Services!ServiceInv PROVE Services!Settled
<1> SUFFICES ASSUME done, Services!Idle, state # Null, config # Null
    PROVE  /\ ~Services!Differs(config, Services!Found(state))
           /\ config.enabled # Null => config.enabled = Services!AtBoot
           /\ config.state # Null => (config.state = "running") = (svc.active = "active")
  BY DEF Services!Settled
<1>1. /\ config \in ServiceOptions /\ state = Services!StateOf(config, Services!Status(config))
      /\ svc.exists /\ Services!EnabledAs(config) /\ Services!RunsAs(config)
  BY DEF Services!ServiceInv
<1>2. config.state \in {"running", "stopped", Null}
  BY <1>1 DEF Services!OptionsTyped, Services!Configurations
<1>3. state.name = config.name /\ state.triggers = config.triggers /\ state.runlevel = config.runlevel
  BY <1>1 DEF Services!StateOf
<1>4. Services!Status(state) = Services!Status(config) /\ Services!Status(state).found /\ Services!Status(config).running = Services!Runs
  BY <1>1, <1>3 DEF Services!Status, Services!SystemdStatus, Services!OpenrcStatus, Services!Runs
<1>5. Services!Found(state) = state
  BY <1>1, <1>3, <1>4 DEF Services!Found, Services!StateOf
<1>6. /\ state.enabled = Services!Status(config).enabled
      /\ state.state = IF Services!Runs THEN "running" ELSE "stopped"
  BY <1>1, <1>4 DEF Services!StateOf
<1>7. ~Services!Differs(config, state)
  BY <1>1, <1>2, <1>3, <1>6 DEF Services!Differs, Services!EnabledAs, Services!RunsAs, Services!Runs
<1> QED
  BY <1>1, <1>5, <1>7 DEF Services!EnabledAs, Services!RunsAs, Services!Runs, Services!AtBoot,
     Services!Status, Services!SystemdStatus, Services!OpenrcStatus

(* A restart that is due is not forgotten.                                   *)
LEMMA ServiceRestarts ==
    ASSUME Services!OptionsTyped, Services!ServiceInv, Services!Next \/ UNCHANGED Services!vars
    PROVE  Services!RestartNotLost
<1> SUFFICES ASSUME op = "update", Services!Idle', ~raced, svc.active = "active",
                    Services!TriggersChanged(state.triggers, state'.triggers)
    PROVE  svc.runs = state'.triggers \/ (dropin /\ started)
  BY DEF Services!RestartNotLost
<1>1. ~Services!Idle /\ plan \in ServiceOptions /\ Services!Reached /\ (plan.triggers # Null => svc.disk = plan.triggers)
      /\ restarts = Services!TriggersChanged(state.triggers, plan.triggers)
  BY DEF Services!ServiceInv
<1>2. state' # state
  BY DEF Services!TriggersChanged
<1>3. ~Services!SaveFailed
  BY <1>2 DEF Services!SaveFailed, Services!Failed, Services!Found, Services!StateOf,
     Services!TriggersChanged
<1>4. Services!Save
  <2>1. ~(Services!Configure \/ Services!Refresh \/ Services!Import \/ Services!BeginCreate \/ Services!BeginUpdate \/ Services!Delete)
    BY <1>1 DEF Services!Configure, Services!Configured, Services!Refresh, Services!Import,
       Services!Refreshed, Services!BeginCreate, Services!BeginUpdate, Services!Begins,
       Services!Begin, Services!Delete
  <2>2. ~(Services!GetStatus \/ Services!Enable \/ Services!Run \/ Services!Restart \/ Services!CommandFails)
    BY DEF Services!GetStatus, Services!Enable, Services!Run, Services!Restart,
       Services!CommandFails, Services!Verify, Services!Goto, Services!Idle
  <2>3. ~(Services!InitFails \/ Services!Kill \/ Services!Invoke \/ Services!OthersAct)
    BY <1>2 DEF Services!InitFails, Services!Kill, Services!Faulted, Services!Killed,
       Services!Invoke, Services!OthersAct, Services!Intrusion, Services!resource
  <2>4. ~UNCHANGED Services!vars
    BY <1>2 DEF Services!vars, Services!lifecycle, Services!resource
  <2> QED
    BY <1>3, <2>1, <2>2, <2>3, <2>4 DEF Services!Next
<1>5. state'.triggers = plan.triggers
  BY <1>2, <1>4 DEF Services!Save, Services!Succeeded, Services!Failed, Services!Found, Services!StateOf
<1> QED
  BY <1>1, <1>4, <1>5 DEF Services!Save, Services!Reached, Services!Runs, Services!TriggersChanged

(* After an apply of a service that ended well the plan is empty, and new    *)
(* triggers are stored only after the restart that they ask for.             *)
THEOREM ServicesSettle ==
    Spec => [](InServices => Services!Settled) /\ [][InServices => Services!RestartNotLost]_vars
<1> DEFINE Inv == InServices => Services!ServiceInv
<1>1. Init => Inv
  BY ServiceInit DEF Init, InPackages, InRepositories, InUnits, InServices, InDropIns
<1>2. ASSUME [Next]_vars, InServices PROVE Services!Next \/ UNCHANGED Services!vars
  <2>1. CASE Next
    BY <1>2, <2>1 DEF Next, InRepositories, InPackages, InUnits, InServices, InDropIns
  <2>2. CASE UNCHANGED vars
    BY <2>2 DEF vars, serviceVars, lifecycle, resource, running, bounds, Services!vars,
       Services!lifecycle,
       Services!host, Services!progress, Services!resource, Services!running, Services!bounds
  <2> QED
    BY <1>2, <2>1, <2>2
<1>3. [Next]_vars => (InServices' <=> InServices)
  BY DEF Next, vars, InServices
<1>4. Inv /\ [Next]_vars => Inv'
  BY <1>2, <1>3, OptionsTyped, ServiceStep
<1>5. Inv => (InServices => Services!Settled)
  BY OptionsTyped, ServiceSettled
<1>6. Inv /\ [Next]_vars => (InServices => Services!RestartNotLost)
  BY <1>2, OptionsTyped, ServiceRestarts
<1> QED
  BY <1>1, <1>4, <1>5, <1>6, PTL DEF Spec

-------------------------------------------------------------------------------
(* What a destroy of a unit or of a drop-in leaves behind.                   *)
THEOREM DestroyIsComplete == Spec => DestroyRestores
<1> DEFINE UnitInv == InUnits => Units!UnitInvariant
           DropInInv == InDropIns => DropIns!DropInInvariant /\ DropIns!Counted
<1>1. Init => UnitInv /\ DropInInv
  <2>1. DropIns!Init => DropIns!Counted
    BY DEF DropIns!Init, DropIns!LifecycleInit, DropIns!Counted
  <2> QED
    BY <2>1, OptionsTyped, Units!UnitInvariantInit, DropIns!InvariantInit
       DEF Init, InPackages, InRepositories, InUnits, InServices, InDropIns
<1>2. ASSUME [Next]_vars, InUnits PROVE Units!Next \/ UNCHANGED Units!vars
  <2>1. CASE Next
    BY <1>2, <2>1 DEF Next, InRepositories, InPackages, InUnits, InServices, InDropIns
  <2>2. CASE UNCHANGED vars
    BY <2>2 DEF vars, unitVars, lifecycle, resource, running, bounds, Units!vars, Units!lifecycle,
       Units!private, Units!progress, Units!resource, Units!running, Units!bounds
  <2> QED
    BY <1>2, <2>1, <2>2
<1>3. ASSUME [Next]_vars, InDropIns PROVE DropIns!Next \/ UNCHANGED DropIns!vars
  <2>1. CASE Next
    BY <1>3, <2>1 DEF Next, InRepositories, InPackages, InUnits, InServices, InDropIns
  <2>2. CASE UNCHANGED vars
    BY <2>2 DEF vars, dropInVars, lifecycle, resource, running, bounds, DropIns!vars, DropIns!lifecycle,
       DropIns!place, DropIns!daemon, DropIns!progress, DropIns!resource, DropIns!running, DropIns!bounds
  <2> QED
    BY <1>3, <2>1, <2>2
<1>4. [Next]_vars => (InUnits' <=> InUnits) /\ (InDropIns' <=> InDropIns)
  BY DEF Next, vars, InUnits, InDropIns
<1>5. UnitInv /\ [Next]_vars => UnitInv'
  BY <1>2, <1>4, OptionsTyped, Units!UnitInvariantStep
<1>6. DropInInv /\ [Next]_vars => DropInInv'
  BY <1>3, <1>4, OptionsTyped, DropIns!InvariantStep, DropIns!CountedStep
<1>7. UnitInv /\ DropInInv /\ [Next]_vars =>
        (InUnits => Units!DestroyRestores) /\ (InDropIns => DropIns!DestroyRestores)
  BY <1>2, <1>3, OptionsTyped, Units!RestoresStep, DropIns!StepsKeep
<1> QED
  BY <1>1, <1>5, <1>6, <1>7, PTL DEF Spec, DestroyRestores
==============================================================================
