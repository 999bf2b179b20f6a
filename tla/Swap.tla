-------------------------------- MODULE Swap --------------------------------
(***************************************************************************)
(* sysutils_swap (swap_resource.go, swap.go): one swap file or device, its *)
(* activation and its fstab entry, brought in line with the configuration  *)
(* step by step.  Any step may fail, the provider may be killed, and       *)
(* others change the host at any time: nothing locks a swap area.          *)
(*                                                                         *)
(* area is what is at the path: Missing, Odd (neither a regular file nor a *)
(* block device) or a record                                               *)
(*   swap     it has a swap header        other   another signature, data  *)
(*   size     of the swap area            exposed other users may open it  *)
(*   by       who made the file: "user", "provider" or, over a file that   *)
(*            the provider did not create, "forced"                        *)
(***************************************************************************)
EXTENDS Naturals, TLAPS

CONSTANTS Configs,       \* what the resource may be configured to be: of a device, of a file
          UserAreas,     \* what users may put there
          Priorities,    \* priorities users give
          MkswapUuid,    \* mkswap has a UUID generator
          Kernel,        \* a negative priority, as the kernel assigns it
          Missing, Odd, Null,
          MaxForeign,    \* bound on changes by others
          MaxConfigs,    \* bound on changes of the configuration
          MaxFaults      \* bound on failed calls and killed providers

VARIABLES device,        \* the path is that of a block device (isSwapDevice)
          area,
          active,        \* its entry in /proc/swaps [pri, by], or Null
          inUse,         \* the device is mounted or part of a volume
          fstab,         \* its fstab entry [pri, by], or Null
          config,        \* the configuration, or Null
          state,         \* Terraform's state: configuration, created and uuid
          tainted,       \* the state is that of a failed Create
          pc, op,        \* the running step and operation
          live,          \* active, as last looked up
          created,       \* plan.Created
          changed,       \* what apply returns: the host may have changed
          touched,       \* the running operation changed the host
          raced,         \* others changed the host during the operation
          lost,          \* a provider was killed and what it did is unrecorded
          done,          \* the last operation ended well, and nothing happened since
          foreign, configs, faults

host == <<area, active, inUse, fstab>>
run == <<op, live, created, changed>>
bounds == <<foreign, configs, faults>>
vars == <<device, host, config, state, tainted, pc, run, touched, raced, lost, done, bounds>>

Areas == [swap : BOOLEAN, other : BOOLEAN, size : Nat, exposed : BOOLEAN,
          by : {"user", "provider", "forced"}]
Configurations == [size : Nat, pri : Priorities \cup {Null}, enabled : BOOLEAN, persist : BOOLEAN,
                   force : BOOLEAN]
States == [size : Nat, pri : Priorities \cup {Kernel, Null}, enabled : BOOLEAN, persist : BOOLEAN,
           force : BOOLEAN, created : BOOLEAN, uuid : BOOLEAN]
Entries == [pri : Priorities \cup {Kernel, Null}, by : {"user", "provider"}]

\* What users put at the path: the mode matters for files only, and a file
\* that has a swap header holds nothing but swap.
ASSUME SwapAssumption ==
    /\ Kernel \notin Priorities /\ Kernel # Null
    /\ Null \notin Areas \cup Configurations \cup States \cup Entries
    /\ Missing \notin Areas /\ Odd \notin Areas /\ Missing # Odd
    /\ MkswapUuid \in BOOLEAN
    /\ \A d \in BOOLEAN :
          /\ Configs[d] \subseteq Configurations
          /\ UserAreas[d] \subseteq Areas
          /\ \A a \in UserAreas[d] : a.by = "user" /\ (d => ~a.exposed) /\ (~d /\ a.swap => ~a.other)

Attrs(c) == [size |-> c.size, pri |-> c.pri, enabled |-> c.enabled,
             persist |-> c.persist, force |-> c.force]

StateOf(c, made, hasUuid) ==
    [size |-> c.size, pri |-> c.pri, enabled |-> c.enabled, persist |-> c.persist,
     force |-> c.force, created |-> made, uuid |-> hasUuid]

Exists == area \notin {Missing, Odd}
Header == Exists /\ area.swap

\* What ModifyPlan finds: an attribute differs, or the area has no UUID and
\* may be formatted again.
Differs == Attrs(state) # config \/ ~state.uuid

Init ==
    /\ device \in BOOLEAN
    /\ area \in UserAreas[device] \cup (IF device THEN {} ELSE {Missing})
    /\ active = Null /\ inUse \in (IF device THEN BOOLEAN ELSE {FALSE})
    /\ fstab = Null /\ config = Null /\ state = Null /\ tainted = FALSE
    /\ pc = "idle" /\ op = "none" /\ live = Null
    /\ created = FALSE /\ changed = FALSE
    /\ touched = FALSE /\ raced = FALSE /\ lost = FALSE /\ done = FALSE
    /\ foreign = 0 /\ configs = 0 /\ faults = 0

Configure ==
    /\ pc = "idle" /\ configs < MaxConfigs
    /\ \E c \in Configs[device] \cup {Null} : c # config /\ config' = c
    /\ configs' = configs + 1 /\ done' = FALSE
    /\ UNCHANGED <<host, state, tainted, pc, run, raced, lost, foreign, faults>>

\* The values that a refresh of m finds on the host.
FoundPriority(m) ==
    IF fstab # Null /\ fstab.pri # m.pri THEN fstab.pri
    ELSE IF active # Null /\ m.pri # Null /\ active.pri # m.pri THEN active.pri
    ELSE m.pri

Found(m) ==
    [size |-> IF device THEN m.size ELSE IF Header THEN area.size ELSE 0,
     pri |-> FoundPriority(m), enabled |-> active # Null, persist |-> fstab # Null,
     force |-> m.force, created |-> m.created, uuid |-> Header /\ MkswapUuid /\ ~area.exposed]

Refresh ==
    /\ pc = "idle" /\ state # Null
    /\ state' = Found(state)
    /\ UNCHANGED <<host, config, tainted, pc, run, raced, lost, done, bounds>>

\* ImportState and the refresh after it: never created by the provider.
Import ==
    /\ pc = "idle" /\ state = Null /\ config # Null
    /\ area # Missing \/ active # Null \/ fstab # Null
    /\ LET m == Found(StateOf([config EXCEPT !.pri = Null, !.force = FALSE], FALSE, FALSE))
       IN  state' = IF fstab = Null /\ active # Null /\ active.pri # Kernel
                      THEN [m EXCEPT !.pri = active.pri] ELSE m
    /\ tainted' = FALSE
    /\ UNCHANGED <<host, config, pc, run, raced, lost, done, bounds>>

Start(o, s, made) ==
    /\ op' = o /\ pc' = s /\ live' = active
    /\ created' = made /\ changed' = FALSE /\ raced' = FALSE /\ done' = FALSE
    /\ UNCHANGED <<host, config, state, tainted, lost, bounds>>

\* Create refuses an area that is active or in fstab already.
BeginCreate ==
    /\ pc = "idle" /\ state = Null /\ config # Null
    /\ fstab = Null /\ active = Null
    /\ Start("create", "prepare", FALSE)

BeginUpdate ==
    /\ pc = "idle" /\ state # Null /\ ~tainted /\ config # Null /\ Differs
    /\ Start("update", "prepare", state.created)

\* Destroy, or the first half of the replacement of a tainted resource.
BeginDelete ==
    /\ pc = "idle" /\ state # Null /\ (config = Null \/ tainted)
    /\ Start("delete", "swapoff", state.created)

\* A bug: a file made in a failed update is not remembered.
FailForgets ==
    /\ state' = IF op = "create" /\ changed THEN StateOf(config, created, FALSE) ELSE state
    /\ tainted' = (tainted \/ (op = "create" /\ changed))
    /\ pc' = "idle"
    /\ UNCHANGED <<config, run, raced, lost, done, foreign, configs>>

\* An error: a create that changed the host is recorded as tainted, a file
\* made in a failed update is remembered, and a failed delete keeps the state.
Fail ==
    /\ state' = CASE op = "create" /\ changed -> StateOf(config, created, FALSE)
                  [] op = "update" /\ changed -> [state EXCEPT !.created = created]
                  [] OTHER -> state
    /\ tainted' = (tainted \/ (op = "create" /\ changed))
    /\ pc' = "idle"
    /\ UNCHANGED <<config, run, raced, lost, done, foreign, configs>>

Refuse == Fail /\ UNCHANGED <<host, faults>>

\* A call may fail at any step, and leaves the host as it was.
Fault ==
    /\ pc # "idle" /\ faults < MaxFaults
    /\ faults' = faults + 1
    /\ Fail /\ UNCHANGED host

\* The provider is killed.
Kill ==
    /\ pc # "idle" /\ faults < MaxFaults
    /\ faults' = faults + 1
    /\ pc' = "idle" /\ lost' = TRUE
    /\ UNCHANGED <<host, config, state, tainted, run, raced, done, foreign, configs>>

Goto(s) == pc' = s /\ UNCHANGED <<config, state, tainted, op, raced, lost, done, bounds>>

\* swapoff, if the area was active when it was looked up; it fails when it
\* no longer is.
Disable(s) ==
    \/ /\ live = Null
       /\ Goto(s) /\ UNCHANGED <<host, live, created, changed>>
    \/ /\ live # Null /\ active # Null
       /\ active' = Null /\ live' = Null /\ changed' = TRUE
       /\ Goto(s) /\ UNCHANGED <<area, inUse, fstab, created>>
    \/ /\ live # Null /\ active = Null
       /\ Refuse

Proceed(s) == Goto(s) /\ UNCHANGED <<host, live, created, changed>>

Owned == op = "update" /\ state.created
Fits == Header /\ area.size = config.size /\ ~area.exposed

\* A bug: whoever made the file, the provider formats it.
PrepareFileUnowned ==
    /\ pc = "prepare" /\ ~device
    /\ \/ area = Missing /\ Disable("allocate")
       \/ area = Odd /\ Refuse
       \/ Exists /\ Fits /\ Proceed("enable")
       \/ Exists /\ ~Fits /\ Disable("replace")

\* A bug: the size alone decides whether a file is used as it is.
PrepareFileBySize ==
    /\ pc = "prepare" /\ ~device
    /\ \/ area = Missing /\ Disable("allocate")
       \/ area = Odd /\ Refuse
       \/ Exists /\ area.size = config.size /\ Proceed("enable")
       \/ Exists /\ area.size # config.size /\ ~Owned /\ ~config.force /\ Refuse
       \/ Exists /\ area.size # config.size /\ (Owned \/ config.force) /\ Disable("replace")

\* prepareFile, up to the allocation of a new file.  A file that others may
\* hold open is only fit to be replaced.
PrepareFile ==
    /\ pc = "prepare" /\ ~device
    /\ \/ area = Missing /\ Disable("allocate")
       \/ area = Odd /\ Refuse
       \/ Exists /\ Fits /\ Proceed("enable")
       \/ Exists /\ ~Fits /\ ~Owned /\ ~config.force /\ Refuse
       \/ Exists /\ ~Fits /\ (Owned \/ config.force) /\ Disable("replace")

NewFile(who) ==
    [swap |-> TRUE, other |-> FALSE, size |-> config.size, exposed |-> FALSE, by |-> who]

\* allocateSwapFile where no file was: it fails if there is one by now.
Allocate ==
    /\ pc = "allocate"
    /\ \/ /\ area = Missing
          /\ area' = NewFile("provider") /\ created' = TRUE /\ changed' = TRUE
          /\ Goto("enable") /\ UNCHANGED <<active, inUse, fstab, live>>
       \/ area # Missing /\ Refuse

\* allocateSwapFile over a regular file.  What the kernel still swaps to is
\* a file without a name.
Replace ==
    /\ pc = "replace"
    /\ \/ /\ area # Odd
          /\ area' = NewFile(IF created THEN "provider" ELSE "forced")
          /\ active' = Null /\ changed' = TRUE
          /\ Goto("enable") /\ UNCHANGED <<inUse, fstab, live, created>>
       \/ area = Odd /\ Refuse

\* prepareDevice, up to mkswap.
PrepareDevice ==
    /\ pc = "prepare" /\ device
    /\ LET unused == ~inUse /\ active = Null   \* opened exclusively
           safe == unused /\ ~area.other
       IN  \/ Header /\ (live # Null \/ config.force \/ safe) /\ Proceed("enable")
           \/ Header /\ live = Null /\ ~config.force /\ ~safe /\ Refuse
           \/ ~Header /\ live = Null /\ unused /\ (safe \/ config.force) /\ Proceed("mkswap")
           \/ ~Header /\ ~(live = Null /\ unused /\ (safe \/ config.force)) /\ Refuse

Mkswap ==
    /\ pc = "mkswap"
    /\ area' = [area EXCEPT !.swap = TRUE, !.other = FALSE, !.by = "forced"]
    /\ Goto("enable") /\ UNCHANGED <<active, inUse, fstab, live, created, changed>>

Swapon ==
    \/ /\ Header /\ active = Null /\ ~inUse
       /\ active' = [pri |-> IF config.pri = Null THEN Kernel ELSE config.pri, by |-> "provider"]
       /\ changed' = TRUE
       /\ Goto("fstab") /\ UNCHANGED <<area, inUse, fstab, live, created>>
    \/ ~(Header /\ active = Null /\ ~inUse) /\ Refuse

\* A bug: the fstab entry comes first.
EnableEnters ==
    /\ pc = "enable"
    /\ LET entry == [pri |-> config.pri, by |-> "provider"]
       IN  \/ config.enabled /\ live # Null /\ Proceed("fstab")
           \/ /\ config.enabled /\ live = Null /\ fstab # entry
              /\ fstab' = entry
              /\ Goto("enable") /\ UNCHANGED <<area, active, inUse, live, created, changed>>
           \/ config.enabled /\ live = Null /\ fstab = entry /\ Swapon
           \/ ~config.enabled /\ Disable("fstab")

\* swapon and swapoff; the priority of an active area cannot be changed.
Enable ==
    /\ pc = "enable"
    /\ LET kept == live # Null /\ config.pri \in {Null, live.pri}
       IN  \/ config.enabled /\ kept /\ Proceed("fstab")
           \/ config.enabled /\ ~kept /\ live # Null /\ Disable("enable")
           \/ config.enabled /\ live = Null /\ Swapon
           \/ ~config.enabled /\ Disable("fstab")

\* The entry of the configured area, or none.
EditFstab ==
    /\ pc = "fstab"
    /\ fstab' = IF ~config.persist THEN Null
                ELSE IF fstab # Null /\ fstab.pri = config.pri THEN fstab
                ELSE [pri |-> config.pri, by |-> "provider"]
    /\ changed' = TRUE
    /\ Goto("verify") /\ UNCHANGED <<area, active, inUse, live, created>>

\* What /proc/swaps shows afterwards must be what was asked for.
Verify ==
    /\ pc = "verify"
    /\ LET ok == /\ config.enabled = (active # Null)
                 /\ (config.enabled /\ config.pri # Null) => active.pri = config.pri
       IN  \/ ~ok /\ Refuse
           \/ /\ ok
              /\ state' = StateOf(config, created, MkswapUuid)
              /\ tainted' = FALSE /\ pc' = "idle" /\ done' = ~raced
              /\ UNCHANGED <<host, config, run, raced, lost, bounds>>

DeleteSwapoff == pc = "swapoff" /\ Disable("entry")

DeleteEntry ==
    /\ pc = "entry"
    /\ fstab' = Null
    /\ Goto("delete") /\ UNCHANGED <<area, active, inUse, live, created, changed>>

\* Only a regular file that the state says the provider created is deleted.
DeleteFile ==
    /\ pc = "delete"
    /\ IF device \/ ~state.created \/ ~Exists THEN UNCHANGED <<area, active>>
       ELSE area' = Missing /\ active' = Null
    /\ state' = Null /\ tainted' = FALSE /\ pc' = "idle"
    /\ UNCHANGED <<inUse, fstab, config, run, raced, lost, done, bounds>>

\* Others: put something else at the path, change its mode, format a device,
\* mount it, enable or disable the area, edit fstab.
OthersChange ==
    \/ /\ ~device /\ area' \in UserAreas[device] \cup {Missing, Odd} /\ active' = Null
       /\ UNCHANGED <<inUse, fstab>>
    \/ /\ ~device /\ Exists /\ area' = [area EXCEPT !.exposed = ~@]
       /\ UNCHANGED <<active, inUse, fstab>>
    \/ /\ device /\ active = Null /\ ~inUse
       /\ area' \in UserAreas[device] \cup {[area EXCEPT !.other = TRUE]}
       /\ UNCHANGED <<active, inUse, fstab>>
    \/ /\ device /\ active = Null /\ area.other /\ inUse' = ~inUse
       /\ UNCHANGED <<area, active, fstab>>
    \/ /\ active = Null /\ Header /\ ~inUse
       /\ active' \in [pri : Priorities, by : {"user"}]
       /\ UNCHANGED <<area, inUse, fstab>>
    \/ active # Null /\ active' = Null /\ UNCHANGED <<area, inUse, fstab>>
    \/ fstab' \in [pri : Priorities \cup {Null}, by : {"user"}] \cup {Null} /\ UNCHANGED <<area, active, inUse>>

Foreign ==
    /\ foreign < MaxForeign /\ foreign' = foreign + 1
    /\ OthersChange
    /\ raced' = TRUE /\ done' = FALSE
    /\ UNCHANGED <<config, state, tainted, pc, run, lost, configs, faults>>

Provider ==
    \/ Refresh \/ Import \/ BeginCreate \/ BeginUpdate \/ BeginDelete
    \/ PrepareFile \/ Allocate \/ Replace \/ PrepareDevice \/ Mkswap
    \/ Enable \/ EditFstab \/ Verify
    \/ DeleteSwapoff \/ DeleteEntry \/ DeleteFile
    \/ Fault \/ Kill

Next ==
    /\ \/ Provider /\ touched' = (pc # "idle" /\ (touched \/ host' # host))
       \/ Configure /\ UNCHANGED touched
       \/ Foreign /\ UNCHANGED touched
    /\ UNCHANGED device

Spec == Init /\ [][Next]_vars
-----------------------------------------------------------------------------
\* Types; a priority of the kernel's own choice never gets into fstab, only a
\* configured resource is applied, and what is tainted is in the state.
TypeOK ==
    /\ device \in BOOLEAN /\ inUse \in BOOLEAN
    /\ area \in Areas \cup {Missing, Odd}
    /\ active \in Entries \cup {Null} /\ live \in Entries \cup {Null}
    /\ fstab \in Entries \cup {Null} /\ (fstab # Null => fstab.pri # Kernel)
    /\ config \in Configs[device] \cup {Null}
    /\ state \in States \cup {Null}
    /\ tainted \in BOOLEAN /\ (tainted => state # Null)
    /\ created \in BOOLEAN /\ changed \in BOOLEAN
    /\ touched \in BOOLEAN /\ raced \in BOOLEAN /\ lost \in BOOLEAN /\ done \in BOOLEAN
    /\ pc \in {"idle", "prepare", "allocate", "replace", "mkswap", "enable", "fstab",
               "verify", "swapoff", "entry", "delete"}
    /\ (op \in {"create", "update"} /\ pc # "idle") => config # Null
    /\ foreign \in Nat /\ configs \in Nat /\ faults \in Nat

\* After an apply that ended well the next plan is empty: the area has the
\* size, nobody else can open it, and it is enabled with its priority and
\* entered in fstab exactly as configured.
Settled == done => Found(state) = state /\ ~Differs

\* Whatever fails, what the provider made on the host is in the state, so
\* that destroy undoes it; only a killed provider leaves something behind.
Recorded ==
    pc = "idle" /\ ~lost =>
        /\ Exists /\ area.by = "provider" => state # Null /\ state.created
        /\ active # Null /\ active.by = "provider" => state # Null
        /\ fstab # Null /\ fstab.by = "provider" => state # Null

UserData == Exists /\ (IF device THEN area.other ELSE area.by = "user")
ByProvider == foreign' = foreign

\* Data of others is overwritten, newly swapped to or deleted only with force,
\* or if the state says that the provider made the file.  A check that is not
\* repeated may be overtaken by others who change the area after it.
DataKept ==
    [][ ByProvider /\ UserData /\ (area' # area \/ (area.other /\ ~touched /\ active = Null /\ active' # Null)) =>
          \/ (config # Null /\ config.force)
          \/ (created /\ op \in {"update", "delete"})
          \/ (raced /\ pc \in {"replace", "mkswap", "enable"}) ]_vars

\* The kernel's swap area is never formatted, replaced or deleted under it,
\* unless others enabled it after it was looked up.
NotWhileActive == [][ ByProvider /\ area' # area => active = Null \/ raced ]_vars

\* An area that the kernel refuses is not written to fstab.
EnabledBeforeEntered ==
    [][ (ByProvider /\ pc # "idle" /\ fstab' # fstab /\ fstab' # Null /\ config.enabled) =>
          active # Null \/ raced ]_vars

\* apply "reports whether the host may have been changed, so that a failed
\* create can still be recorded": none that changed the host ends without a
\* state, except when the provider is killed.  A device is only formatted
\* before it is enabled, which apply does not report.
CreateRecorded ==
    [][ (op = "create" /\ pc # "idle" /\ pc' = "idle" /\ touched /\ ~device /\ ~lost') =>
          state' # Null ]_vars
-----------------------------------------------------------------------------
(* Proofs, for any configurations, areas of users, priorities and numbers  *)
(* of changes and faults.                                                  *)

\* Which steps an operation takes, and of what kind of area.
Steps ==
  /\ pc # "idle" => op \in {"create", "update", "delete"}
  /\ pc # "idle" => (op = "delete" <=> pc \in {"swapoff", "entry", "delete"})
  /\ pc # "idle" => (op = "create" <=> state = Null)
  /\ pc \in {"allocate", "replace"} => ~device
  /\ pc = "mkswap" => device
  /\ device => area \in Areas

Types == TypeOK /\ Steps
-----------------------------------------------------------------------------
LEMMA UserAreaType ==
  ASSUME device \in BOOLEAN
  PROVE  UserAreas[device] \subseteq Areas /\ Configs[device] \subseteq Configurations
  BY SwapAssumption

LEMMA InitTypes == Init => Types
<1> SUFFICES ASSUME Init PROVE Types
  OBVIOUS
<1> USE DEF Init
<1>1. area \in Areas \cup {Missing, Odd}
  <2>1. area \in UserAreas[device] \/ area = Missing
    OBVIOUS
  <2>q. QED
    BY <2>1, UserAreaType
<1>2. TypeOK
  BY <1>1 DEF TypeOK
<1>3. Steps
  BY UserAreaType DEF Steps
<1>q. QED
  BY <1>2, <1>3 DEF Types

\* What Found and StateOf make is a state.
LEMMA StateOfType ==
  ASSUME NEW c \in Configurations, NEW m \in BOOLEAN, NEW u \in BOOLEAN
  PROVE  StateOf(c, m, u) \in States
  BY DEF StateOf, States, Configurations

LEMMA FoundType ==
  ASSUME TypeOK, NEW m \in States
  PROVE  Found(m) \in States
<1>1. FoundPriority(m) \in Priorities \cup {Kernel, Null}
  <2>1. m.pri \in Priorities \cup {Kernel, Null}
    BY DEF States
  <2>2. fstab # Null => fstab.pri \in Priorities \cup {Kernel, Null}
    BY DEF TypeOK, Entries
  <2>3. active # Null => active.pri \in Priorities \cup {Kernel, Null}
    BY DEF TypeOK, Entries
  <2>q. QED
    BY <2>1, <2>2, <2>3 DEF FoundPriority
<1>2. (IF device THEN m.size ELSE IF Header THEN area.size ELSE 0) \in Nat
  BY DEF Header, Exists, TypeOK, Areas, States
<1>3. (Header /\ MkswapUuid /\ ~area.exposed) \in BOOLEAN
  BY DEF Header
<1>q. QED
  BY <1>1, <1>2, <1>3 DEF Found, States

\* The ways in which a step ends.
LEMMA FailTypes ==
  ASSUME Types, Fail, pc # "idle"
  PROVE  /\ state' \in States \cup {Null} /\ tainted' \in BOOLEAN /\ (tainted' => state' # Null)
         /\ pc' = "idle"
<1>1. CASE op = "create" /\ changed
  <2>1. config \in Configurations
    BY <1>1, UserAreaType DEF Types, TypeOK
  <2>2. state' \in States
    BY <1>1, <2>1, StateOfType DEF Fail, Types, TypeOK
  <2>q. QED
    BY <1>1, <2>2, SwapAssumption DEF Fail, Types, TypeOK
<1>2. CASE op = "update" /\ changed
  <2>1. state' \in States
    BY <1>2, SwapAssumption DEF Fail, Types, TypeOK, Steps, States
  <2>q. QED
    BY <1>2, <2>1, SwapAssumption DEF Fail, Types, TypeOK
<1>3. CASE ~(op = "create" /\ changed) /\ ~(op = "update" /\ changed)
  BY <1>3 DEF Fail, Types, TypeOK
<1>q. QED
  BY <1>1, <1>2, <1>3

LEMMA EndTypes ==
  ASSUME Types, pc # "idle", Fail, UNCHANGED host, faults' \in Nat, touched' \in BOOLEAN, device' = device
  PROVE  Types'
<1>1. Steps'
  BY FailTypes DEF Types, Steps, host
<1>2. /\ UNCHANGED <<config, op, live, created, changed, raced, lost, done, foreign, configs>>
      /\ UNCHANGED <<area, active, inUse, fstab>>
  BY DEF Fail, run, host
<1>3. TypeOK'
  BY <1>2, FailTypes DEF Types, TypeOK
<1>q. QED
  BY <1>1, <1>3 DEF Types

LEMMA GotoTypes ==
  ASSUME Types, pc # "idle", NEW s, Goto(s),
         s \in (IF op = "delete" THEN {"entry", "delete"}
               ELSE {"enable", "fstab", "verify"} \cup
                    IF device THEN {"mkswap"} ELSE {"allocate", "replace"}),
         touched' \in BOOLEAN, device' = device,
         area' \in Areas \/ (~device /\ area' \in {Missing, Odd}), inUse' \in BOOLEAN,
         active' \in Entries \cup {Null}, live' \in Entries \cup {Null},
         fstab' \in Entries \cup {Null}, fstab' # Null => fstab'.pri # Kernel,
         created' \in BOOLEAN, changed' \in BOOLEAN
  PROVE  Types'
<1>1. pc' \in {"allocate", "replace", "mkswap", "enable", "fstab", "verify", "entry", "delete"}
  BY DEF Goto
<1>2. /\ config' = config /\ state' = state /\ tainted' = tainted /\ op' = op
      /\ raced' = raced /\ lost' = lost /\ done' = done /\ UNCHANGED bounds
  BY DEF Goto
<1>3. TypeOK'
  BY <1>1, <1>2 DEF Types, TypeOK, bounds
<1>4. Steps'
  BY DEF Types, Steps, Goto
<1>q. QED
  BY <1>3, <1>4 DEF Types

LEMMA RefuseTypes ==
  ASSUME Types, pc # "idle", Refuse, touched' \in BOOLEAN, device' = device
  PROVE  Types'
  BY EndTypes DEF Refuse, Types, TypeOK

LEMMA ProceedTypes ==
  ASSUME Types, pc # "idle", NEW s, Proceed(s), op # "delete",
         s \in {"enable", "fstab", "verify"} \cup
              IF device THEN {"mkswap"} ELSE {"allocate", "replace"},
         touched' \in BOOLEAN, device' = device
  PROVE  Types'
<1>1. Goto(s)
  BY DEF Proceed
<1>q. QED
  BY <1>1, GotoTypes DEF Proceed, host, Types, TypeOK, Steps

LEMMA DisableTypes ==
  ASSUME Types, pc # "idle", NEW s, Disable(s),
         s \in (IF op = "delete" THEN {"entry", "delete"}
               ELSE {"enable", "fstab", "verify"} \cup
                    IF device THEN {"mkswap"} ELSE {"allocate", "replace"}),
         touched' \in BOOLEAN, device' = device
  PROVE  Types'
<1>1. CASE Refuse
  BY <1>1, RefuseTypes
<1>2. CASE ~Refuse
  <2>1. Goto(s)
    BY <1>2 DEF Disable
  <2>2. /\ area' = area /\ inUse' = inUse /\ fstab' = fstab /\ created' = created
        /\ active' \in {active, Null} /\ live' \in {live, Null} /\ changed' \in {changed, TRUE}
    BY <1>2 DEF Disable, host
  <2>3. /\ area' \in Areas \/ (~device /\ area' \in {Missing, Odd})
        /\ inUse' \in BOOLEAN /\ created' \in BOOLEAN /\ changed' \in BOOLEAN
    BY <2>2 DEF Types, TypeOK, Steps
  <2>4. /\ active' \in Entries \cup {Null} /\ live' \in Entries \cup {Null}
        /\ fstab' \in Entries \cup {Null} /\ (fstab' # Null => fstab'.pri # Kernel)
    BY <2>2 DEF Types, TypeOK
  <2>q. QED
    BY <2>1, <2>3, <2>4, GotoTypes
<1>q. QED
  BY <1>1, <1>2

\* Every action of the provider's and of others keeps the types.
LEMMA RunTypes ==
  ASSUME Types, pc # "idle", touched' \in BOOLEAN, device' = device,
         \/ PrepareFile \/ Allocate \/ Replace \/ PrepareDevice \/ Mkswap \/ Enable
         \/ EditFstab \/ DeleteSwapoff \/ DeleteEntry
  PROVE  Types'
<1> USE DEF Types
<1>c. op # "delete" => config \in Configurations
  BY UserAreaType DEF TypeOK, Steps
<1>n. ASSUME NEW who \in {"provider", "forced"}, config \in Configurations PROVE NewFile(who) \in Areas
  BY <1>n DEF NewFile, Areas, Configurations
<1>1. CASE PrepareFile
  BY <1>1, DisableTypes, ProceedTypes, RefuseTypes DEF PrepareFile, Steps
<1>2. CASE Allocate
  BY <1>2, <1>c, <1>n, GotoTypes, RefuseTypes DEF Allocate, Steps, TypeOK
<1>3. CASE Replace
  BY <1>3, <1>c, <1>n, GotoTypes, RefuseTypes DEF Replace, Steps, TypeOK
<1>4. CASE PrepareDevice
  BY <1>4, ProceedTypes, RefuseTypes DEF PrepareDevice, Steps
<1>5. CASE Mkswap
  BY <1>5, GotoTypes DEF Mkswap, Steps, TypeOK, Areas
<1>6. CASE Enable
  <2>1. CASE Refuse
    BY <2>1, <1>6, RefuseTypes
  <2>2. CASE Swapon /\ ~Refuse
    <3>1. active' \in Entries /\ Goto("fstab") /\ changed' = TRUE
      BY <1>6, <2>2, <1>c DEF Enable, Swapon, Steps, Entries, Configurations
    <3>q. QED
      BY <3>1, <2>2, <1>6, GotoTypes DEF Enable, Swapon, Steps, TypeOK
  <2>q. QED
    BY <2>1, <2>2, <1>6, DisableTypes, ProceedTypes DEF Enable, Steps
<1>7. CASE EditFstab
  <2>1. fstab' \in Entries \cup {Null} /\ (fstab' # Null => fstab'.pri # Kernel)
    BY <1>7, <1>c, SwapAssumption DEF EditFstab, Steps, TypeOK, Entries, Configurations
  <2>q. QED
    BY <1>7, <2>1, GotoTypes DEF EditFstab, Steps, TypeOK
<1>8. CASE DeleteSwapoff
  BY <1>8, DisableTypes DEF DeleteSwapoff, Steps
<1>9. CASE DeleteEntry
  BY <1>9, GotoTypes DEF DeleteEntry, Steps, TypeOK
<1>q. QED
  BY <1>1, <1>2, <1>3, <1>4, <1>5, <1>6, <1>7, <1>8, <1>9

LEMMA IdleTypes ==
  ASSUME Types, pc' = "idle", UNCHANGED <<area, active, inUse, fstab>>,
         UNCHANGED <<op, live, created, changed, raced, lost, foreign, faults>>,
         (config \in Configs[device] \cup {Null})', (state \in States \cup {Null})',
         (tainted \in BOOLEAN)', (tainted => state # Null)', configs' \in Nat, done' \in BOOLEAN,
         touched' \in BOOLEAN, device' = device
  PROVE  Types'
<1> USE DEF Types, TypeOK
<1>1. (/\ area \in Areas \cup {Missing, Odd} /\ inUse \in BOOLEAN
       /\ active \in Entries \cup {Null} /\ live \in Entries \cup {Null}
       /\ fstab \in Entries \cup {Null} /\ (fstab # Null => fstab.pri # Kernel))'
  OBVIOUS
<1>2. (/\ created \in BOOLEAN /\ changed \in BOOLEAN
       /\ raced \in BOOLEAN /\ lost \in BOOLEAN
       /\ foreign \in Nat /\ faults \in Nat)'
  OBVIOUS
<1>3. (pc # "idle" => config # Null)' /\ device' \in BOOLEAN
  OBVIOUS
<1>q. QED
  BY <1>1, <1>2, <1>3 DEF Steps

LEMMA NextTypes == Types /\ [Next]_vars => Types'
<1>s. CASE UNCHANGED vars
  BY <1>s DEF vars, host, run, bounds, Types, TypeOK, Steps
<1> SUFFICES ASSUME Types, Next PROVE Types'
  BY <1>s
<1>t. touched' \in BOOLEAN /\ device' = device
  BY DEF Next, Types, TypeOK
<1>c. config # Null => config \in Configurations
  BY UserAreaType DEF Types, TypeOK
<1> USE <1>t DEF Types
<1>1. CASE Configure
  <2>1. config' \in Configs[device] \cup {Null} /\ configs' \in Nat /\ pc' = "idle" /\ done' = FALSE
    BY <1>1 DEF Configure, TypeOK
  <2>2. /\ UNCHANGED <<area, active, inUse, fstab, state, tainted>>
        /\ UNCHANGED <<op, live, created, changed, raced, lost, foreign, faults>>
    BY <1>1 DEF Configure, host, run
  <2>q. QED
    BY <2>1, <2>2, IdleTypes DEF TypeOK
<1>2. CASE Refresh
  <2>1. state' \in States
    BY <1>2, FoundType DEF Refresh, TypeOK
  <2>q. QED
    BY <1>2, <2>1, SwapAssumption DEF Refresh, TypeOK, Steps, host, run, bounds
<1>3. CASE Import
  <2> DEFINE m == Found(StateOf([config EXCEPT !.pri = Null, !.force = FALSE], FALSE, FALSE))
  <2>1. [config EXCEPT !.pri = Null, !.force = FALSE] \in Configurations
    BY <1>3, <1>c DEF Import, Configurations
  <2>2. m \in States
    BY <2>1, StateOfType, FoundType
  <2>3. state' \in States
    BY <1>3, <2>2 DEF Import, TypeOK, States, Entries
  <2>q. QED
    <3>1. /\ pc' = "idle" /\ tainted' = FALSE
          /\ UNCHANGED <<area, active, inUse, fstab, config>>
          /\ UNCHANGED <<op, live, created, changed, raced, lost, done, foreign, configs, faults>>
      BY <1>3 DEF Import, host, run, bounds
    <3>q. QED
      BY <2>3, <3>1, IdleTypes DEF TypeOK
<1>4. CASE BeginCreate
  BY <1>4 DEF BeginCreate, Start, TypeOK, Steps, host, bounds
<1>5. CASE BeginUpdate
  <2>1. state # Null /\ state.created \in BOOLEAN
    BY <1>5 DEF BeginUpdate, TypeOK, States
  <2>2. /\ op' = "update" /\ pc' = "prepare" /\ live' = active /\ created' = state.created
        /\ changed' = FALSE /\ raced' = FALSE /\ done' = FALSE
        /\ UNCHANGED <<area, active, inUse, fstab, config, state, tainted, lost, foreign, configs, faults>>
    BY <1>5 DEF BeginUpdate, Start, host, bounds
  <2>q. QED
    BY <1>5, <2>1, <2>2 DEF BeginUpdate, TypeOK, Steps
<1>6. CASE BeginDelete
  <2>1. state # Null /\ state.created \in BOOLEAN
    BY <1>6 DEF BeginDelete, TypeOK, States
  <2>2. /\ op' = "delete" /\ pc' = "swapoff" /\ live' = active /\ created' = state.created
        /\ changed' = FALSE /\ raced' = FALSE /\ done' = FALSE
        /\ UNCHANGED <<area, active, inUse, fstab, config, state, tainted, lost, foreign, configs, faults>>
    BY <1>6 DEF BeginDelete, Start, host, bounds
  <2>q. QED
    BY <1>6, <2>1, <2>2 DEF BeginDelete, TypeOK, Steps
<1>7. CASE PrepareFile \/ Allocate \/ Replace \/ PrepareDevice \/ Mkswap \/ Enable
           \/ EditFstab \/ DeleteSwapoff \/ DeleteEntry
  BY <1>7, RunTypes DEF PrepareFile, Allocate, Replace, PrepareDevice, Mkswap, Enable,
                        EditFstab, DeleteSwapoff, DeleteEntry
<1>8. CASE Verify
  <2>1. CASE Refuse
    BY <1>8, <2>1, RefuseTypes DEF Verify
  <2>2. CASE ~Refuse
    <3>1. state' \in States
      BY <1>8, <2>2, <1>c, StateOfType, SwapAssumption DEF Verify, TypeOK, Steps
    <3>q. QED
      BY <1>8, <2>2, <3>1, IdleTypes DEF Verify, TypeOK, host, run, bounds
  <2>q. QED
    BY <2>1, <2>2
<1>9. CASE DeleteFile
  <2>1. /\ area' \in Areas \/ (~device /\ area' \in {Missing, Odd})
        /\ active' \in Entries \cup {Null}
    BY <1>9 DEF DeleteFile, Exists, TypeOK, Steps
  <2>2. /\ state' = Null /\ tainted' = FALSE /\ pc' = "idle" /\ UNCHANGED <<inUse, fstab, config>>
        /\ UNCHANGED <<op, live, created, changed, raced, lost, done, foreign, configs, faults>>
    BY <1>9 DEF DeleteFile, run, bounds
  <2>3. (/\ device \in BOOLEAN /\ inUse \in BOOLEAN /\ fstab \in Entries \cup {Null}
         /\ (fstab # Null => fstab.pri # Kernel)
         /\ live \in Entries \cup {Null} /\ config \in Configs[device] \cup {Null})'
    BY <2>2 DEF TypeOK
  <2>4. (/\ created \in BOOLEAN /\ changed \in BOOLEAN /\ raced \in BOOLEAN /\ lost \in BOOLEAN
         /\ done \in BOOLEAN /\ foreign \in Nat /\ configs \in Nat /\ faults \in Nat)'
    BY <2>2 DEF TypeOK
  <2>5. TypeOK'
    BY <2>1, <2>2, <2>3, <2>4 DEF TypeOK
  <2>q. QED
    BY <2>1, <2>2, <2>5 DEF Steps
<1>10. CASE Fault
  BY <1>10, EndTypes DEF Fault, TypeOK
<1>11. CASE Kill
  BY <1>11 DEF Kill, TypeOK, Steps, host, run
<1>12. CASE Foreign
  <2>1. area' \in Areas \/ (~device /\ area' \in {Missing, Odd})
    BY <1>12, UserAreaType DEF Foreign, OthersChange, Exists, TypeOK, Steps, Areas
  <2>2. inUse' \in BOOLEAN /\ active' \in Entries \cup {Null}
    BY <1>12 DEF Foreign, OthersChange, TypeOK, Entries
  <2>3. fstab' \in Entries \cup {Null} /\ (fstab' # Null => fstab'.pri # Kernel)
    BY <1>12, SwapAssumption DEF Foreign, OthersChange, TypeOK, Entries
  <2>4. /\ foreign' \in Nat /\ raced' = TRUE /\ done' = FALSE
        /\ UNCHANGED <<config, state, tainted, pc, op, live, created, changed, lost, configs, faults>>
    BY <1>12 DEF Foreign, run, TypeOK
  <2>5. (/\ device \in BOOLEAN /\ area \in Areas \cup {Missing, Odd} /\ live \in Entries \cup {Null}
         /\ config \in Configs[device] \cup {Null} /\ state \in States \cup {Null}
         /\ tainted \in BOOLEAN /\ (tainted => state # Null))'
    BY <2>1, <2>4 DEF TypeOK
  <2>6. (/\ created \in BOOLEAN /\ changed \in BOOLEAN /\ raced \in BOOLEAN /\ lost \in BOOLEAN
         /\ done \in BOOLEAN /\ configs \in Nat /\ faults \in Nat
         /\ (op \in {"create", "update"} /\ pc # "idle" => config # Null))' /\ pc' = pc
    BY <2>4 DEF TypeOK
  <2>7. TypeOK'
    BY <2>2, <2>3, <2>4, <2>5, <2>6 DEF TypeOK
  <2>q. QED
    BY <2>1, <2>4, <2>7 DEF Steps
<1>q. QED
  BY <1>1, <1>2, <1>3, <1>4, <1>5, <1>6, <1>7, <1>8, <1>9, <1>10, <1>11, <1>12 DEF Next, Provider

(* THEOREM: variables and records stay in their ranges; only a configured  *)
(* resource is applied, and what is tainted is in the state.               *)
THEOREM TypeCorrect == Spec => []TypeOK
<1>1. Types => TypeOK
  BY DEF Types
<1>q. QED
  BY <1>1, InitTypes, NextTypes, PTL DEF Spec

-----------------------------------------------------------------------------
\* What the provider made on the host.
AreaMade == Exists /\ area.by = "provider"
ActiveMade == active # Null /\ active.by = "provider"
EntryMade == fstab # Null /\ fstab.by = "provider"

(* Recorded while an operation runs: a create and an update know of        *)
(* themselves what they made, and a delete that has passed a step has      *)
(* undone what the step undoes.                                            *)
Made ==
  /\ AreaMade => ~device
  /\ pc \in {"entry", "delete"} => live = Null
  /\ ~lost =>
       /\ pc = "idle" => /\ AreaMade => state # Null /\ state.created
                         /\ ActiveMade \/ EntryMade => state # Null
       /\ pc # "idle" /\ op = "create" => /\ AreaMade => created /\ changed
                                          /\ ActiveMade \/ EntryMade => changed
       /\ pc # "idle" /\ op = "update" => /\ AreaMade => created
                                          /\ created => state.created \/ changed
       /\ pc # "idle" /\ op = "delete" => /\ AreaMade => state.created
                                          /\ ActiveMade => pc = "swapoff" /\ live # Null
                                          /\ EntryMade => pc # "delete"

LEMMA FailState ==
  ASSUME Types, Fail, pc # "idle"
  PROVE  /\ op = "create" /\ changed => state' # Null /\ state'.created = created
         /\ op = "create" /\ ~changed => state' = Null
         /\ op = "update" => state' # Null /\ state'.created = IF changed THEN created ELSE state.created
         /\ op = "delete" => state' = state /\ state # Null
<1>1. CASE op = "create" /\ changed
  <2>1. config \in Configurations
    BY <1>1, UserAreaType DEF Types, TypeOK
  <2>2. state' = StateOf(config, created, FALSE)
    BY <1>1 DEF Fail
  <2>3. state' \in States
    BY <2>1, <2>2, StateOfType DEF Types, TypeOK
  <2>q. QED
    BY <1>1, <2>2, <2>3, SwapAssumption DEF StateOf
<1>2. CASE op = "update" /\ changed
  <2>1. state \in States
    BY <1>2 DEF Types, TypeOK, Steps
  <2>2. state' = [state EXCEPT !.created = created]
    BY <1>2 DEF Fail
  <2>3. state' \in States /\ state'.created = created
    BY <2>1, <2>2 DEF Types, TypeOK, States
  <2>q. QED
    BY <1>2, <2>3, SwapAssumption
<1>3. CASE ~(op = "create" /\ changed) /\ ~(op = "update" /\ changed)
  BY <1>3 DEF Fail, Types, Steps
<1>q. QED
  BY <1>1, <1>2, <1>3

LEMMA MadeEnd ==
  ASSUME Types, Made, pc # "idle", Fail, UNCHANGED host, device' = device
  PROVE  Made'
<1>1. UNCHANGED <<area, active, fstab>> /\ pc' = "idle" /\ lost' = lost
  BY DEF host, Fail
<1>2. (AreaMade' <=> AreaMade) /\ (ActiveMade' <=> ActiveMade) /\ (EntryMade' <=> EntryMade)
  BY <1>1 DEF AreaMade, ActiveMade, EntryMade, Exists
<1>3. ~lost => /\ AreaMade => state' # Null /\ state'.created
               /\ ActiveMade \/ EntryMade => state' # Null
  <2>1. CASE op = "create"
    BY <2>1, FailState DEF Made
  <2>2. CASE op = "update"
    BY <2>2, FailState DEF Made
  <2>3. CASE op = "delete"
    BY <2>3, FailState DEF Made
  <2>q. QED
    BY <2>1, <2>2, <2>3 DEF Types, Steps
<1>q. QED
  BY <1>1, <1>2, <1>3 DEF Made

(* A step to the next one, with what it does to the area, the swap and the *)
(* entry.                                                                  *)
LEMMA MadeGoto ==
  ASSUME Types, Made, pc # "idle", NEW s, Goto(s), s # "idle", device' = device,
         AreaMade' => AreaMade \/ (created' /\ changed' /\ ~device /\ op # "delete"),
         ActiveMade' => ActiveMade \/ (changed' /\ op # "delete"),
         EntryMade' => EntryMade \/ (changed' /\ op # "delete"),
         created' = created \/ (created' /\ changed'), changed => changed',
         op = "delete" => /\ s \in {"entry", "delete"} /\ (~lost => ~ActiveMade')
                          /\ (s = "delete" => ~EntryMade') /\ live' = Null,
         op # "delete" => s \notin {"entry", "delete"}
  PROVE  Made'
<1>1. pc' = s /\ op' = op /\ state' = state /\ lost' = lost
  BY DEF Goto
<1>2. (pc \in {"entry", "delete"} => live = Null)'
  BY <1>1 DEF Types, Steps
<1>q. QED
  BY <1>1, <1>2 DEF Made, Types, Steps

LEMMA MadeDisable ==
  ASSUME Types, Made, pc # "idle", NEW s, Disable(s), device' = device,
         s \in IF op = "delete" THEN {"entry"} ELSE {"allocate", "replace", "enable", "fstab"}
  PROVE  Made'
<1>1. CASE Refuse
  BY <1>1, MadeEnd DEF Refuse
<1>2. CASE ~Refuse
  <2>1. Goto(s)
    BY <1>2 DEF Disable
  <2>2. area' = area /\ fstab' = fstab /\ created' = created /\ (changed => changed')
    BY <1>2 DEF Disable, host, Types, TypeOK
  <2>3. /\ active' = active \/ active' = Null
        /\ op = "delete" => active' = Null \/ (active' = active /\ live = Null)
    BY <1>2 DEF Disable, host
  <2>4. (AreaMade' <=> AreaMade) /\ (EntryMade' <=> EntryMade) /\ (ActiveMade' => ActiveMade)
    BY <2>2, <2>3 DEF AreaMade, EntryMade, ActiveMade, Exists
  <2>5. op = "delete" => s = "entry" /\ (~lost => ~ActiveMade') /\ live' = Null
    BY <1>2, <2>3, <2>4 DEF Disable, Made, ActiveMade, Types, Steps
  <2>q. QED
    BY <2>1, <2>2, <2>4, <2>5, MadeGoto
<1>q. QED
  BY <1>1, <1>2

LEMMA MadeProceed ==
  ASSUME Types, Made, pc # "idle", NEW s, Proceed(s), device' = device, op # "delete",
         s \notin {"idle", "entry", "delete"}
  PROVE  Made'
<1>1. UNCHANGED <<area, active, fstab, created, changed>> /\ Goto(s)
  BY DEF Proceed, host
<1>2. (AreaMade' <=> AreaMade) /\ (EntryMade' <=> EntryMade) /\ (ActiveMade' <=> ActiveMade)
  BY <1>1 DEF AreaMade, EntryMade, ActiveMade, Exists
<1>q. QED
  BY <1>1, <1>2, MadeGoto

LEMMA NextMade == Types /\ Made /\ [Next]_vars => Made'
<1>s. CASE UNCHANGED vars
  BY <1>s DEF vars, host, run, Made, AreaMade, ActiveMade, EntryMade, Exists
<1> SUFFICES ASSUME Types, Made, Next PROVE Made'
  BY <1>s
<1>t. device' = device
  BY DEF Next
<1>h. ASSUME UNCHANGED host
      PROVE  (AreaMade' <=> AreaMade) /\ (ActiveMade' <=> ActiveMade) /\ (EntryMade' <=> EntryMade)
  BY <1>h DEF host, AreaMade, ActiveMade, EntryMade, Exists
<1> USE <1>t
<1>1. CASE Configure
  BY <1>1, <1>h DEF Configure, Made, run
<1>2. CASE Refresh
  <2>1. state' \in States /\ state'.created = state.created
    <3>1. state \in States /\ state' = Found(state)
      BY <1>2 DEF Refresh, Types, TypeOK
    <3>2. Found(state).created = state.created
      BY <3>1 DEF Found, States
    <3>q. QED
      BY <3>1, <3>2, FoundType DEF Types
  <2>q. QED
    BY <1>2, <1>h, <2>1, SwapAssumption DEF Refresh, Made, run
<1>3. CASE Import
  BY <1>3, <1>h DEF Import, Made, run
<1>4. CASE BeginCreate
  BY <1>4, <1>h DEF BeginCreate, Start, Made, ActiveMade, EntryMade
<1>5. CASE BeginUpdate
  BY <1>5, <1>h DEF BeginUpdate, Start, Made
<1>6. CASE BeginDelete
  BY <1>6, <1>h DEF BeginDelete, Start, Made, ActiveMade
<1>7. CASE PrepareFile
  BY <1>7, MadeDisable, MadeProceed, MadeEnd DEF PrepareFile, Refuse, Types, Steps
<1>8. CASE Allocate
  <2>1. CASE Refuse
    BY <1>8, <2>1, MadeEnd DEF Allocate, Refuse
  <2>2. CASE ~Refuse
    BY <1>8, <2>2, MadeGoto DEF Allocate, Types, Steps, ActiveMade, EntryMade
  <2>q. QED
    BY <2>1, <2>2
<1>9. CASE Replace
  <2>1. CASE Refuse
    BY <1>9, <2>1, MadeEnd DEF Replace, Refuse
  <2>2. CASE ~Refuse
    <3>1. AreaMade' => created
      BY <1>9, <2>2 DEF Replace, NewFile, AreaMade
    <3>q. QED
      BY <1>9, <2>2, <3>1, MadeGoto DEF Replace, Types, Steps, ActiveMade, EntryMade
  <2>q. QED
    BY <2>1, <2>2
<1>10. CASE PrepareDevice
  BY <1>10, MadeProceed, MadeEnd DEF PrepareDevice, Refuse, Types, Steps
<1>11. CASE Mkswap
  <2>1. ~AreaMade'
    BY <1>11 DEF Mkswap, AreaMade, Types, Steps, Areas
  <2>q. QED
    BY <1>11, <2>1, MadeGoto DEF Mkswap, Types, Steps, ActiveMade, EntryMade
<1>12. CASE Enable
  <2>1. CASE Refuse
    BY <1>12, <2>1, MadeEnd DEF Enable, Refuse
  <2>2. CASE Swapon /\ ~Refuse
    BY <1>12, <2>2, MadeGoto DEF Enable, Swapon, Types, Steps, AreaMade, EntryMade, Exists
  <2>q. QED
    BY <1>12, <2>1, <2>2, MadeDisable, MadeProceed DEF Enable, Types, Steps
<1>13. CASE EditFstab
  BY <1>13, MadeGoto DEF EditFstab, Types, Steps, AreaMade, ActiveMade, Exists
<1>14. CASE Verify
  <2>1. CASE Refuse
    BY <1>14, <2>1, MadeEnd DEF Verify, Refuse
  <2>2. CASE ~Refuse
    <3>1. state' \in States /\ state'.created = created
      BY <1>14, <2>2, StateOfType, UserAreaType, SwapAssumption DEF Verify, StateOf, Types, TypeOK, Steps
    <3>q. QED
      BY <1>14, <2>2, <3>1, <1>h, SwapAssumption DEF Verify, Made, run, Types, Steps
  <2>q. QED
    BY <2>1, <2>2
<1>15. CASE DeleteSwapoff
  BY <1>15, MadeDisable DEF DeleteSwapoff, Types, Steps
<1>16. CASE DeleteEntry
  BY <1>16, MadeGoto DEF DeleteEntry, Types, Steps, Made, AreaMade, ActiveMade, EntryMade, Exists
<1>17. CASE DeleteFile
  BY <1>17 DEF DeleteFile, Types, Steps, Made, AreaMade, ActiveMade, EntryMade, Exists, run
<1>18. CASE Fault
  BY <1>18, MadeEnd DEF Fault
<1>19. CASE Kill
  BY <1>19, <1>h DEF Kill, Made, run
<1>20. CASE Foreign
  BY <1>20, SwapAssumption DEF Foreign, OthersChange, Made, AreaMade, ActiveMade, EntryMade, Exists, run, Types, TypeOK, Steps, Areas
<1>q. QED
  BY <1>1, <1>2, <1>3, <1>4, <1>5, <1>6, <1>7, <1>8, <1>9, <1>10, <1>11, <1>12, <1>13, <1>14,
     <1>15, <1>16, <1>17, <1>18, <1>19, <1>20 DEF Next, Provider

LEMMA InitMade == Init => Made
  BY UserAreaType, SwapAssumption DEF Init, Made, AreaMade, ActiveMade, EntryMade, Exists

(* THEOREM: whatever fails, what the provider made on the host is in the   *)
(* state, so that destroy undoes it.                                       *)
THEOREM MadeIsRecorded == Spec => []Recorded
<1>1. Made => Recorded
  BY DEF Made, Recorded, AreaMade, ActiveMade, EntryMade
<1>q. QED
  BY <1>1, InitTypes, NextTypes, InitMade, NextMade, PTL DEF Spec

-----------------------------------------------------------------------------
\* A create knows that it changed the host.
Reported == pc # "idle" /\ op = "create" /\ touched /\ ~device => changed

LEMMA NextReported == Types /\ Reported /\ [Next]_vars => Reported'
<1>s. CASE UNCHANGED vars
  BY <1>s DEF vars, run, Reported
<1> SUFFICES ASSUME Types, Reported, Next PROVE Reported'
  BY <1>s
<1>t. device' = device
  BY DEF Next
<1>1. CASE Configure /\ UNCHANGED touched
  BY <1>1, <1>t DEF Configure, run, Reported
<1>2. CASE Foreign /\ UNCHANGED touched
  BY <1>2, <1>t DEF Foreign, run, Reported
<1>3. CASE Provider /\ touched' = (pc # "idle" /\ (touched \/ host' # host))
  <2> SUFFICES ASSUME pc # "idle", pc' # "idle", op' = "create", ~device, touched \/ host' # host
               PROVE  changed'
    BY <1>3, <1>t DEF Reported
  <2>g. ASSUME op' = op, changed' = TRUE \/ (host' = host /\ changed' = changed)
        PROVE  changed'
    BY <2>g DEF Reported
  <2>1. CASE Refresh \/ Import \/ BeginCreate \/ BeginUpdate \/ BeginDelete
    BY <2>1 DEF Refresh, Import, BeginCreate, BeginUpdate, BeginDelete
  <2>2. CASE PrepareFile
    BY <2>2, <2>g DEF PrepareFile, Disable, Proceed, Refuse, Fail, Goto, host
  <2>3. CASE Allocate \/ Replace
    BY <2>3, <2>g DEF Allocate, Replace, Refuse, Fail, Goto
  <2>4. CASE PrepareDevice \/ Mkswap
    BY <2>4 DEF PrepareDevice, Mkswap, Types, Steps
  <2>5. CASE Enable
    BY <2>5, <2>g DEF Enable, Swapon, Disable, Proceed, Refuse, Fail, Goto, host
  <2>6. CASE EditFstab
    BY <2>6, <2>g DEF EditFstab, Goto
  <2>7. CASE Verify \/ DeleteFile \/ Fault \/ Kill
    BY <2>7 DEF Verify, DeleteFile, Fault, Kill, Refuse, Fail
  <2>8. CASE DeleteSwapoff
    BY <2>8, <2>g DEF DeleteSwapoff, Disable, Refuse, Fail, Goto, host
  <2>9. CASE DeleteEntry
    BY <2>9 DEF DeleteEntry, Goto, Types, Steps
  <2>q. QED
    BY <1>3, <2>1, <2>2, <2>3, <2>4, <2>5, <2>6, <2>7, <2>8, <2>9 DEF Provider
<1>q. QED
  BY <1>1, <1>2, <1>3 DEF Next

(* THEOREM: a create that changed the host leaves a state behind, so that  *)
(* what it did is destroyed later, unless the provider is killed.          *)
THEOREM CreateIsRecorded == Spec => CreateRecorded
<1> DEFINE Leaves == (op = "create" /\ pc # "idle" /\ pc' = "idle" /\ touched /\ ~device /\ ~lost')
                       => state' # Null
<1>1. Types /\ Reported /\ Next => Leaves
  <2> SUFFICES ASSUME Types, Reported, Next, op = "create", pc # "idle", pc' = "idle", touched, ~device, ~lost'
               PROVE  state' # Null
    OBVIOUS
  <2>1. CASE Fail
    BY <2>1, FailState DEF Reported
  <2>2. CASE Verify /\ ~Fail
    BY <2>2, StateOfType, UserAreaType, SwapAssumption DEF Verify, Refuse, Types, TypeOK, Steps
  <2>3. CASE PrepareFile \/ Allocate \/ Replace \/ PrepareDevice \/ Mkswap \/ Enable
             \/ EditFstab \/ DeleteSwapoff \/ DeleteEntry
    BY <2>1, <2>3 DEF PrepareFile, Allocate, Replace, PrepareDevice, Mkswap, Enable, Swapon,
         EditFstab, DeleteSwapoff, DeleteEntry, Disable, Proceed, Refuse, Goto, Types, Steps
  <2>4. CASE Fault
    BY <2>1, <2>4 DEF Fault
  <2>5. CASE DeleteFile \/ Kill
    BY <2>5 DEF DeleteFile, Kill, Types, Steps
  <2>6. CASE Configure \/ Foreign
    BY <2>6 DEF Configure, Foreign
  <2>7. CASE Refresh \/ Import \/ BeginCreate \/ BeginUpdate \/ BeginDelete
    BY <2>7 DEF Refresh, Import, BeginCreate, BeginUpdate, BeginDelete
  <2>q. QED
    BY <2>1, <2>2, <2>3, <2>4, <2>5, <2>6, <2>7 DEF Next, Provider
<1>2. Types /\ Reported /\ [Next]_vars => [Leaves]_vars
  BY <1>1
<1>3. Init => Reported
  BY DEF Init, Reported
<1>q. QED
  BY <1>2, <1>3, InitTypes, NextTypes, NextReported, PTL DEF Spec, CreateRecorded

-----------------------------------------------------------------------------
(* What the lookup of the active area says is true until others change the *)
(* host, although the code does not look again.                            *)
Looked ==
  /\ pc \in {"allocate", "replace", "mkswap", "entry", "delete"} => live = Null
  /\ pc # "idle" /\ ~raced => /\ pc \notin {"fstab", "verify"} => live = active
                              /\ pc = "fstab" /\ config.enabled => active # Null

LEMMA NextLooked == Types /\ Looked /\ [Next]_vars => Looked'
<1>s. CASE UNCHANGED vars
  BY <1>s DEF vars, run, host, Looked
<1> SUFFICES ASSUME Types, Looked, Next PROVE Looked'
  BY <1>s
<1> USE DEF Looked
<1>i. CASE pc' = "idle"
  BY <1>i
<1>1. CASE Configure \/ Refresh \/ Import \/ Fault \/ Kill \/ Verify \/ DeleteFile
  BY <1>1, <1>i DEF Configure, Refresh, Import, Fault, Kill, Verify, DeleteFile, Refuse, Fail
<1>2. CASE BeginCreate \/ BeginUpdate \/ BeginDelete
  BY <1>2 DEF BeginCreate, BeginUpdate, BeginDelete, Start, host
<1>3. CASE PrepareFile
  <2>1. CASE Refuse
    BY <1>i, <2>1 DEF Refuse, Fail
  <2>2. CASE Proceed("enable")
    BY <1>3, <2>2 DEF Proceed, Goto, host, PrepareFile
  <2>3. ASSUME NEW s \in {"allocate", "replace"}, Disable(s), ~Refuse PROVE Looked'
    BY <1>3, <2>3 DEF Disable, Goto, host, PrepareFile
  <2>q. QED
    BY <1>3, <2>1, <2>2, <2>3 DEF PrepareFile
<1>4. CASE Allocate \/ Replace
  BY <1>4, <1>i DEF Allocate, Replace, Refuse, Fail, Goto
<1>5. CASE PrepareDevice \/ Mkswap
  BY <1>5, <1>i DEF PrepareDevice, Mkswap, Proceed, Refuse, Fail, Goto, host
<1>6. CASE Enable
  <2>1. CASE Swapon /\ ~Refuse
    <3>1. active' \in Entries
      BY <1>6, <2>1, UserAreaType DEF Enable, Swapon, Types, TypeOK, Steps, Entries, Configurations
    <3>q. QED
      BY <2>1, <3>1, <1>6, SwapAssumption DEF Swapon, Goto, Enable
  <2>2. CASE Refuse
    BY <1>i, <2>2 DEF Refuse, Fail
  <2>3. CASE Proceed("fstab") /\ live # Null
    BY <1>6, <2>3 DEF Proceed, Goto, host, Enable
  <2>4. CASE Disable("enable") /\ ~Refuse
    BY <1>6, <2>4 DEF Disable, Goto, host, Enable
  <2>5. CASE Disable("fstab") /\ ~config.enabled /\ ~Refuse
    BY <1>6, <2>5 DEF Disable, Goto, host, Enable
  <2>q. QED
    BY <1>6, <2>1, <2>2, <2>3, <2>4, <2>5 DEF Enable
<1>7. CASE EditFstab \/ DeleteEntry
  BY <1>7, <1>i DEF EditFstab, DeleteEntry, Goto
<1>8. CASE DeleteSwapoff
  BY <1>8, <1>i DEF DeleteSwapoff, Disable, Refuse, Fail, Goto, host
<1>9. CASE Foreign
  BY <1>9 DEF Foreign, run
<1>q. QED
  BY <1>1, <1>2, <1>3, <1>4, <1>5, <1>6, <1>7, <1>8, <1>9 DEF Next, Provider

(* THEOREM: an area is not written, replaced or deleted while the kernel   *)
(* swaps to it, unless others enabled it after it was looked up.           *)
THEOREM ActiveAreaIsKept == Spec => NotWhileActive
<1> DEFINE Keeps == ByProvider /\ area' # area => active = Null \/ raced
<1>1. Types /\ Looked /\ Next => Keeps
  <2> SUFFICES ASSUME Types, Looked, Next, foreign' = foreign, area' # area PROVE active = Null \/ raced
    BY DEF ByProvider
  <2>1. CASE Allocate \/ Replace \/ Mkswap \/ DeleteFile
    <3>1. pc \in {"allocate", "replace", "mkswap", "delete"}
      BY <2>1 DEF Allocate, Replace, Mkswap, DeleteFile
    <3>2. live = Null /\ (~raced => live = active)
      BY <3>1 DEF Looked
    <3>q. QED
      BY <3>2
  <2>2. CASE Configure \/ Refresh \/ Import \/ BeginCreate \/ BeginUpdate \/ BeginDelete \/ Fault \/ Kill
    BY <2>2 DEF Configure, Refresh, Import, BeginCreate, BeginUpdate, BeginDelete, Start, Fault, Kill, host
  <2>3. CASE PrepareFile \/ PrepareDevice \/ Enable
    BY <2>3 DEF PrepareFile, PrepareDevice, Enable, Swapon, Disable, Proceed, Refuse, host
  <2>4. CASE EditFstab \/ Verify \/ DeleteSwapoff \/ DeleteEntry
    BY <2>4 DEF EditFstab, Verify, DeleteSwapoff, DeleteEntry, Disable, Refuse, host
  <2>5. ~Foreign
    BY DEF Foreign, Types, TypeOK
  <2>q. QED
    BY <2>1, <2>2, <2>3, <2>4, <2>5 DEF Next, Provider
<1>2. Types /\ Looked /\ [Next]_vars => [Keeps]_vars
  BY <1>1
<1>3. Init => Looked
  BY DEF Init, Looked
<1>q. QED
  BY <1>2, <1>3, InitTypes, NextTypes, NextLooked, PTL DEF Spec, NotWhileActive

(* THEOREM: an area that the kernel refuses does not get into fstab.       *)
THEOREM EnteredIsEnabled == Spec => EnabledBeforeEntered
<1> DEFINE Enters == (ByProvider /\ pc # "idle" /\ fstab' # fstab /\ fstab' # Null /\ config.enabled)
                       => active # Null \/ raced
<1>1. Types /\ Looked /\ Next => Enters
  <2> SUFFICES ASSUME Types, Looked, Next, foreign' = foreign, pc # "idle", fstab' # fstab, fstab' # Null,
                      config.enabled
               PROVE  active # Null \/ raced
    BY DEF ByProvider
  <2>1. CASE EditFstab
    BY <2>1 DEF EditFstab, Looked
  <2>2. CASE Configure \/ Refresh \/ Import \/ BeginCreate \/ BeginUpdate \/ BeginDelete \/ Fault \/ Kill
    BY <2>2 DEF Configure, Refresh, Import, BeginCreate, BeginUpdate, BeginDelete, Fault, Kill, host
  <2>3. CASE PrepareFile \/ PrepareDevice \/ Enable
    BY <2>3 DEF PrepareFile, PrepareDevice, Enable, Swapon, Disable, Proceed, Refuse, host
  <2>4. CASE Allocate \/ Replace \/ Mkswap \/ Verify
    BY <2>4 DEF Allocate, Replace, Mkswap, Verify, Refuse, host
  <2>5. CASE DeleteSwapoff \/ DeleteEntry \/ DeleteFile
    BY <2>5 DEF DeleteSwapoff, DeleteEntry, DeleteFile, Disable, Refuse, host
  <2>6. ~Foreign
    BY DEF Foreign, Types, TypeOK
  <2>q. QED
    BY <2>1, <2>2, <2>3, <2>4, <2>5, <2>6 DEF Next, Provider
<1>2. Types /\ Looked /\ [Next]_vars => [Enters]_vars
  BY <1>1
<1>3. Init => Looked
  BY DEF Init, Looked
<1>q. QED
  BY <1>2, <1>3, InitTypes, NextTypes, NextLooked, PTL DEF Spec, EnabledBeforeEntered

-----------------------------------------------------------------------------
(* What allows a step that destroys data: that nothing of others is there, *)
(* the configuration, or that the provider made the file.                  *)
Allowed ==
  /\ ~device /\ Header => ~area.other
  /\ device => ~area.exposed
  /\ pc = "prepare" => (created <=> op = "update" /\ state.created)
  /\ pc # "idle" /\ op = "delete" => (created <=> state.created)
  /\ pc = "replace" => config.force \/ (created /\ op = "update")
  /\ pc = "mkswap" /\ ~raced => ~area.other \/ config.force
  /\ pc = "enable" /\ ~raced /\ ~touched /\ live = Null => ~area.other \/ config.force

\* A step that leaves the area alone and does not lead to one of these.
LEMMA AllowedStep ==
  ASSUME Allowed, device' = device, area' = area, pc' \notin {"prepare", "replace", "mkswap", "enable"},
         (pc' # "idle" /\ op' = "delete") => (created' <=> state'.created)
  PROVE  Allowed'
  BY DEF Allowed, Header, Exists

LEMMA NextAllowed == Types /\ Allowed /\ [Next]_vars => Allowed'
<1>s. CASE UNCHANGED vars
  BY <1>s DEF vars, run, host, Allowed, Header, Exists
<1> SUFFICES ASSUME Types, Allowed, Next PROVE Allowed'
  BY <1>s
<1>t. device' = device
  BY DEF Next
<1>p. pc # "idle" /\ foreign' = foreign => touched' = (touched \/ host' # host)
  <2>1. pc # "idle" => ~Configure
    BY DEF Configure
  <2>2. foreign' = foreign => ~Foreign
    BY DEF Foreign, Types, TypeOK
  <2>q. QED
    BY <2>1, <2>2 DEF Next
<1>f. CASE pc # "idle" /\ (Refuse \/ Fault)
  BY <1>f, <1>t, AllowedStep DEF Refuse, Fault, Fail, host
<1>1. CASE Configure \/ Refresh \/ Import \/ Kill
  BY <1>1, <1>t, AllowedStep DEF Configure, Refresh, Import, Kill, host
<1>2. CASE BeginCreate
  BY <1>2, <1>t DEF BeginCreate, Start, host, Allowed, Header, Exists
<1>3. CASE BeginUpdate
  BY <1>3, <1>t DEF BeginUpdate, Start, host, Allowed, Header, Exists
<1>4. CASE BeginDelete
  BY <1>4, <1>t DEF BeginDelete, Start, host, Allowed, Header, Exists
<1>5. CASE PrepareFile /\ ~Refuse
  <2>1. CASE Proceed("enable") /\ Fits
    BY <1>5, <2>1, <1>t DEF PrepareFile, Fits, Proceed, Goto, host, Allowed, Header, Exists
  <2>2. CASE Disable("allocate")
    BY <1>5, <2>2, <1>t, AllowedStep DEF PrepareFile, Disable, Goto, host, Types, Steps
  <2>3. CASE Disable("replace") /\ (Owned \/ config.force)
    BY <1>5, <2>3, <1>t DEF PrepareFile, Disable, Goto, host, Owned, Types, Steps, Allowed, Header, Exists
  <2>q. QED
    BY <1>5, <2>1, <2>2, <2>3 DEF PrepareFile
<1>6. CASE Allocate /\ ~Refuse
  BY <1>6, <1>t DEF Allocate, NewFile, Goto, Types, Steps, Allowed
<1>7. CASE Replace /\ ~Refuse
  BY <1>7, <1>t DEF Replace, NewFile, Goto, Types, Steps, Allowed
<1>8. CASE PrepareDevice /\ ~Refuse
  BY <1>8, <1>t DEF PrepareDevice, Proceed, Goto, host, Types, Steps, Allowed, Header, Exists
<1>9. CASE Mkswap
  <2>1. area' \in Areas /\ ~area'.other /\ area'.exposed = area.exposed
    BY <1>9 DEF Mkswap, Types, Steps, Areas
  <2>q. QED
    BY <1>9, <2>1, <1>t DEF Mkswap, Goto, Types, Steps, Allowed
<1>10. CASE Enable /\ ~Refuse
  <2>1. CASE Disable("enable") /\ live # Null
    BY <1>10, <2>1, <1>t, <1>p DEF Enable, Disable, Goto, host, bounds, Types, Steps, Allowed, Header, Exists
  <2>2. CASE Proceed("fstab") \/ Disable("fstab") \/ Swapon
    BY <1>10, <2>2, <1>t, AllowedStep DEF Enable, Proceed, Disable, Swapon, Goto, host, Types, Steps
  <2>q. QED
    BY <1>10, <2>1, <2>2 DEF Enable
<1>11. CASE EditFstab
  BY <1>11, <1>t, AllowedStep DEF EditFstab, Goto, Types, Steps
<1>12. CASE Verify /\ ~Refuse
  BY <1>12, <1>t, AllowedStep DEF Verify, host
<1>13. CASE DeleteSwapoff /\ ~Refuse
  BY <1>13, <1>t, AllowedStep DEF DeleteSwapoff, Disable, Goto, host, Allowed
<1>14. CASE DeleteEntry
  BY <1>14, <1>t, AllowedStep DEF DeleteEntry, Goto, Allowed
<1>15. CASE DeleteFile
  BY <1>15, <1>t, SwapAssumption DEF DeleteFile, Allowed, Header, Exists
<1>16. CASE Foreign
  <2>1. (~device /\ Header => ~area.other)'
    BY <1>16, <1>t, SwapAssumption DEF Foreign, OthersChange, Allowed, Header, Exists, Types, TypeOK, Areas
  <2>2. (device => ~area.exposed)'
    <3>1. device => area' \in UserAreas[device] \/ area' = [area EXCEPT !.other = TRUE] \/ area' = area
      BY <1>16 DEF Foreign, OthersChange
    <3>2. device => area \in Areas /\ ~area.exposed
      BY DEF Allowed, Types, Steps
    <3>3. device => \A a \in UserAreas[device] : ~a.exposed
      BY SwapAssumption
    <3>q. QED
      BY <1>t, <3>1, <3>2, <3>3 DEF Areas
  <2>q. QED
    BY <1>16, <2>1, <2>2 DEF Foreign, run, Allowed
<1>q. QED
  BY <1>f, <1>1, <1>2, <1>3, <1>4, <1>5, <1>6, <1>7, <1>8, <1>9, <1>10, <1>11, <1>12, <1>13, <1>14,
     <1>15, <1>16 DEF Next, Provider, PrepareFile, Allocate, Replace, PrepareDevice, Enable, Verify,
                      DeleteSwapoff, Fault

(* THEOREM: data of others is overwritten, newly swapped to or deleted     *)
(* only with force, or if the state says that the provider made the file,  *)
(* or if others put it there after the check.                              *)
THEOREM OthersDataIsKept == Spec => DataKept
<1> DEFINE Destroys == area' # area \/ (area.other /\ ~touched /\ active = Null /\ active' # Null)
           May == \/ config # Null /\ config.force
                  \/ created /\ op \in {"update", "delete"}
                  \/ raced /\ pc \in {"replace", "mkswap", "enable"}
           Keeps == ByProvider /\ UserData /\ Destroys => May
<1>1. Types /\ Looked /\ Allowed /\ Next => Keeps
  <2> SUFFICES ASSUME Types, Looked, Allowed, Next, foreign' = foreign, UserData, Destroys PROVE May
    BY DEF ByProvider
  <2>1. CASE UNCHANGED <<area, active>>
    BY <2>1
  <2>2. CASE Refuse
    BY <2>1, <2>2 DEF Refuse, host
  <2>3. CASE Replace /\ ~Refuse
    BY <2>3 DEF Replace, Allowed, Types, TypeOK, Steps
  <2>4. CASE Mkswap
    BY <2>4 DEF Mkswap, Allowed, UserData, Types, TypeOK, Steps
  <2>5. CASE pc = "enable" /\ live = Null /\ Swapon /\ ~Refuse
    <3>1. area' = area /\ config # Null
      BY <2>5 DEF Swapon, Types, TypeOK, Steps
    <3>q. QED
      BY <2>5, <3>1 DEF Allowed, Types, TypeOK
  <2>6. CASE DeleteFile
    BY <2>6 DEF DeleteFile, Allowed, Types, TypeOK, Steps
  <2>7. CASE Allocate /\ ~Refuse
    BY <2>7 DEF Allocate, UserData, Exists
  <2>8. CASE Configure \/ Refresh \/ Import \/ BeginCreate \/ BeginUpdate \/ BeginDelete \/ Fault \/ Kill
    BY <2>1, <2>8 DEF Configure, Refresh, Import, BeginCreate, BeginUpdate, BeginDelete, Start, Fault, Kill, host
  <2>9. ASSUME NEW s, Disable(s), ~Refuse PROVE May
    BY <2>9 DEF Disable, host
  <2>10. ASSUME NEW s, Proceed(s) PROVE May
    BY <2>1, <2>10 DEF Proceed, host
  <2>11. CASE EditFstab \/ DeleteEntry \/ Verify
    BY <2>1, <2>2, <2>11 DEF EditFstab, DeleteEntry, Verify, host
  <2>12. ~Foreign
    BY DEF Foreign, Types, TypeOK
  <2>q. QED
    BY <2>2, <2>3, <2>4, <2>5, <2>6, <2>7, <2>8, <2>9, <2>10, <2>11, <2>12
       DEF Next, Provider, PrepareFile, PrepareDevice, Allocate, Replace, Enable, DeleteSwapoff
<1>2. Types /\ Looked /\ Allowed /\ [Next]_vars => [Keeps]_vars
  BY <1>1
<1>3. Init => Looked
  BY DEF Init, Looked
<1>4. Init => Allowed
  BY SwapAssumption DEF Init, Allowed, Header, Exists
<1>q. QED
  BY <1>2, <1>3, <1>4, InitTypes, NextTypes, NextLooked, NextAllowed, PTL DEF Spec, DataKept

-----------------------------------------------------------------------------
\* The host is as configured.
InPlace == Header /\ ~area.exposed /\ (~device => area.size = config.size)
Enabled == /\ config.enabled <=> active # Null
           /\ config.enabled /\ config.pri # Null => active.pri = config.pri
Entered == /\ config.persist <=> fstab # Null
           /\ config.persist => fstab.pri = config.pri

(* After each step of an operation that nobody disturbs, its part of the   *)
(* host is as configured, and all of it once the operation ended well.     *)
Reached ==
  /\ pc # "idle" => ~done
  /\ pc \in {"enable", "fstab", "verify"} /\ ~raced => InPlace
  /\ pc = "verify" /\ ~raced => Entered
  /\ done => /\ config # Null /\ state # Null /\ state = StateOf(config, state.created, TRUE)
             /\ InPlace /\ Enabled /\ Entered

\* A refresh of such a host finds what is in the state.
LEMMA ReachedSettles ==
  ASSUME MkswapUuid, Types, config # Null, state = StateOf(config, state.created, TRUE),
         InPlace, Enabled, Entered
  PROVE  Found(state) = state /\ ~Differs
<1>1. config \in Configurations
  BY UserAreaType DEF Types, TypeOK
<1>2. /\ state.size = config.size /\ state.pri = config.pri /\ state.enabled = config.enabled
      /\ state.persist = config.persist /\ state.force = config.force /\ state.uuid = TRUE
  BY DEF StateOf
<1>3. FoundPriority(state) = state.pri
  BY <1>2 DEF FoundPriority, Enabled, Entered
<1>4. /\ (active # Null) = state.enabled /\ (fstab # Null) = state.persist
      /\ (Header /\ MkswapUuid /\ ~area.exposed) = state.uuid
      /\ (IF device THEN state.size ELSE IF Header THEN area.size ELSE 0) = state.size
  BY <1>1, <1>2 DEF InPlace, Enabled, Entered, Configurations, Header
<1>5. Found(state) = state
  BY <1>2, <1>3, <1>4 DEF Found, StateOf
<1>6. ~Differs
  BY <1>1, <1>2 DEF Differs, Attrs, Configurations
<1>q. QED
  BY <1>5, <1>6

\* A step of an operation that leaves the area alone.
LEMMA ReachedGoto ==
  ASSUME Reached, pc # "idle", NEW s, Goto(s), s \notin {"idle", "verify"}, device' = device, area' = area,
         s \in {"enable", "fstab"} /\ ~raced => InPlace
  PROVE  Reached'
  BY DEF Reached, Goto, InPlace, Header, Exists

LEMMA NextReached == MkswapUuid /\ Types /\ Allowed /\ Reached /\ [Next]_vars => Reached'
<1>s. CASE UNCHANGED vars
  BY <1>s DEF vars, run, host, Reached, InPlace, Enabled, Entered, Header, Exists
<1> SUFFICES ASSUME MkswapUuid, Types, Allowed, Reached, Next PROVE Reached'
  BY <1>s
<1>t. device' = device
  BY DEF Next
<1>e. ASSUME ~done', pc' \notin {"enable", "fstab", "verify"} PROVE Reached'
  BY <1>e DEF Reached
<1>f. CASE pc # "idle" /\ Fail
  BY <1>e, <1>f DEF Fail, Reached
<1>1. CASE Configure \/ BeginCreate \/ BeginUpdate \/ BeginDelete
  BY <1>1, <1>e DEF Configure, BeginCreate, BeginUpdate, BeginDelete, Start
<1>2. CASE Refresh
  <2>1. CASE done
    <3>1. state' = state
      BY <1>2, <2>1, ReachedSettles DEF Refresh, Reached
    <3>q. QED
      BY <1>2, <2>1, <3>1, <1>t DEF Refresh, Reached, host, InPlace, Enabled, Entered, Header, Exists
  <2>2. CASE ~done
    BY <1>2, <2>2, <1>e DEF Refresh
  <2>q. QED
    BY <2>1, <2>2
<1>3. CASE Import
  <2>1. ~done
    BY <1>3 DEF Import, Reached
  <2>q. QED
    BY <1>3, <2>1, <1>e DEF Import
<1>4. CASE PrepareFile /\ ~Refuse
  <2>1. CASE Proceed("enable") /\ Fits
    BY <1>4, <2>1, <1>t, ReachedGoto DEF PrepareFile, Proceed, host, Fits, InPlace
  <2>2. ASSUME NEW s \in {"allocate", "replace"}, Disable(s) PROVE Reached'
    BY <1>4, <2>2, <1>t, ReachedGoto DEF PrepareFile, Disable, host
  <2>q. QED
    BY <1>4, <2>1, <2>2 DEF PrepareFile
<1>5. CASE (Allocate \/ Replace) /\ ~Refuse
  <2>1. /\ area' \in Areas /\ area'.swap /\ ~area'.exposed /\ area'.size = config.size
        /\ Goto("enable")
    <3>1. config \in Configurations
      BY <1>5, UserAreaType DEF Allocate, Replace, Types, TypeOK, Steps
    <3>2. Goto("enable") /\ \E who \in {"provider", "forced"} : area' = NewFile(who)
      BY <1>5 DEF Allocate, Replace
    <3>q. QED
      BY <3>1, <3>2 DEF NewFile, Areas, Configurations
  <2>2. InPlace'
    BY <2>1, SwapAssumption DEF InPlace, Header, Exists, Goto
  <2>q. QED
    BY <1>5, <2>1, <2>2 DEF Reached, Goto, Allocate, Replace
<1>6. CASE PrepareDevice /\ ~Refuse
  BY <1>6, <1>t, ReachedGoto DEF PrepareDevice, Proceed, host, InPlace, Allowed
<1>7. CASE Mkswap
  <2>1. area' \in Areas /\ area'.swap /\ ~area'.exposed /\ device
    BY <1>7 DEF Mkswap, Allowed, Types, Steps, Areas
  <2>2. InPlace'
    BY <1>t, <2>1, SwapAssumption DEF InPlace, Header, Exists
  <2>q. QED
    BY <1>7, <2>2 DEF Mkswap, Goto, Reached
<1>8. CASE Enable /\ ~Refuse
  <2>1. ASSUME NEW s \in {"enable", "fstab"}, Proceed(s) \/ Disable(s) PROVE Reached'
    BY <1>8, <2>1, <1>t, ReachedGoto DEF Enable, Proceed, Disable, host, Reached
  <2>2. CASE Swapon
    BY <1>8, <2>2, <1>t, ReachedGoto DEF Enable, Swapon, Reached
  <2>q. QED
    BY <1>8, <2>1, <2>2 DEF Enable
<1>9. CASE EditFstab
  <2>1. Entered'
    BY <1>9, UserAreaType, SwapAssumption
       DEF EditFstab, Entered, Goto, Types, TypeOK, Steps, Configurations, Entries
  <2>q. QED
    BY <1>9, <2>1, <1>t DEF EditFstab, Goto, Reached, InPlace, Header, Exists
<1>10. CASE Verify /\ ~Refuse
  <2>1. state' = StateOf(config, created, TRUE) /\ state'.created = created /\ state' # Null
    <3>1. MkswapUuid = TRUE
      BY SwapAssumption
    <3>2. config \in Configurations /\ created \in BOOLEAN /\ state' = StateOf(config, created, TRUE)
      BY <1>10, <3>1, UserAreaType DEF Verify, Types, TypeOK, Steps
    <3>q. QED
      BY <3>2, StateOfType, SwapAssumption DEF StateOf
  <2>2. done' => (InPlace /\ Enabled /\ Entered)'
    BY <1>10, <1>t, UserAreaType DEF Verify, host, run, Reached, InPlace, Enabled, Entered, Header, Exists,
         Types, TypeOK, Steps, Configurations
  <2>q. QED
    BY <1>10, <2>1, <2>2 DEF Verify, Reached, Types, TypeOK, Steps, run
<1>11. CASE DeleteSwapoff /\ ~Refuse
  <2>1. ~done /\ Goto("entry")
    BY <1>11 DEF DeleteSwapoff, Disable, Reached
  <2>q. QED
    BY <2>1, <1>e DEF Goto
<1>12. CASE DeleteEntry \/ DeleteFile \/ Kill
  <2>1. ~done
    BY <1>12 DEF DeleteEntry, DeleteFile, Kill, Reached
  <2>q. QED
    BY <1>12, <2>1, <1>e DEF DeleteEntry, DeleteFile, Kill, Goto
<1>13. CASE Foreign
  BY <1>13 DEF Foreign, run, Reached
<1>q. QED
  BY <1>f, <1>1, <1>2, <1>3, <1>4, <1>5, <1>6, <1>7, <1>8, <1>9, <1>10, <1>11, <1>12, <1>13
     DEF Next, Provider, PrepareFile, Allocate, Replace, PrepareDevice, Enable, Verify, DeleteSwapoff,
         Fault, Refuse

(* THEOREM: if mkswap writes a UUID, the plan after an apply that ended    *)
(* well is empty until others change the host or the user the              *)
(* configuration.                                                          *)
THEOREM AppliedIsSettled == ASSUME MkswapUuid PROVE Spec => []Settled
<1>1. Types /\ Reached => Settled
  BY ReachedSettles DEF Settled, Reached
<1>2. Types /\ Allowed /\ Reached /\ [Next]_vars => Reached'
  BY NextReached
<1>3. Init => Allowed /\ Reached
  BY SwapAssumption DEF Init, Allowed, Header, Exists, Reached
<1>q. QED
  BY <1>1, <1>2, <1>3, InitTypes, NextTypes, NextAllowed, PTL DEF Spec
=============================================================================
