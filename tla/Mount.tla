--------------------------------- MODULE Mount ---------------------------------
(***************************************************************************)
(* sysutils_mount: a file system mounted at a mount point, and the entry   *)
(* of /etc/fstab that mounts it at boot.  host is [fstab, mounts, point]:  *)
(* the lines of fstab, the stack of what is mounted, topmost last, and     *)
(* what the mount point is.  A device is <<"block", number>>, <<"path", p>> *)
(* (an image, a directory) or <<"text", source>>; a line of fstab is       *)
(* [point, device, fstype, options, pass], and one for other mount points  *)
(* has another point.                                                      *)
(***************************************************************************)
EXTENDS Kinds

IsBind(options) == "bind" \in ToSet(options)
FstypeMatches(want, live) == want \in {live, "auto", "none"} \/ {want, live} = {"nfs", "nfs4"}

\* In doubt the device is the same: a block device is compared by number,
\* which btrfs does not report, and other paths are not compared.
DeviceDiffers(want, options, live) ==
    /\ ~IsBind(options)
    /\ \/ want[1] = "block" /\ live.device[1] = "block" /\ live.fstype # "btrfs" /\ live.device # want
       \/ want[1] = "text" /\ live.device # want
Matches(want, live) ==
    /\ IsBind(want.options) \/ FstypeMatches(want.fstype, live.fstype)
    /\ ~DeviceDiffers(want.device, want.options, live)
ReadOnlyDrift(options, live) == "ro" \in ToSet(options) /\ ~live.ro

\* The topmost file system, or Null.
Top(h) == IF h.mounts = <<>> THEN Null ELSE h.mounts[Len(h.mounts)]
Entries(lines) == Where(lines, LAMBDA l : l.point \in {"point", "point/"})
Lookup(h) == LET S == Entries(h.fstab) IN IF S = {} THEN Null ELSE h.fstab[First(S)]

Entry(c) ==
    [point |-> "point", device |-> c.device, fstype |-> c.fstype, options |-> c.options, pass |-> c.pass]
\* The first entry stays where it is, and as it is if it is the same but for
\* a trailing slash; the others go.
\* A bug: the others stay.
SetFirst(lines, e) ==
    LET S == Entries(lines)
    IN  IF S = {} THEN Append(lines, e) ELSE [lines EXCEPT ![First(S)] = e]
Set(lines, e) ==
    LET S == Entries(lines)
        same == [lines[First(S)] EXCEPT !.point = e.point] = e
    IN  IF S = {} THEN Append(lines, e)
        ELSE Without(IF same THEN lines ELSE [lines EXCEPT ![First(S)] = e], S \ {First(S)})
Removed(lines) == Without(lines, Entries(lines))

Valid(h, c) == (c.persist \/ c.mounted) /\ "remount" \notin ToSet(c.options)
Differs(h, c, s) == c # s
Replaces(c, s) == FALSE
Recorded(h, c) == c

\* The entry comes last: one for a file system that cannot be mounted would
\* fail the next boot.
\* A bug: first.
StepsEntryFirst(h, x) ==
    IF x.state = Null /\ (Lookup(h) # Null \/ Top(h) # Null) THEN <<"refuse">>
    ELSE <<"entry">> \o (IF x.plan.mounted THEN <<"mount">> ELSE If(Top(h) # Null, "unmount")) \o <<"check">>
Steps(h, x) ==
    IF x.state = Null /\ (Lookup(h) # Null \/ Top(h) # Null) THEN <<"refuse">>
    ELSE (IF x.plan.mounted THEN <<"mount">> ELSE If(Top(h) # Null, "unmount")) \o <<"entry", "check">>
Undoing(h, x) == If(Top(h) # Null, "unmount") \o <<"remove entry">>

Unmount(h, next) ==
    IF Top(h) = Null THEN Stop(h) ELSE Changed([h EXCEPT !.mounts = SubSeq(@, 1, Len(@) - 1)], next)

\* What the kernel shows once c is mounted: the type that it found, and the
\* device behind an image.
Live(c) ==
    [device |-> IF c.device[1] = "path" THEN <<"block", "loop">> ELSE c.device,
     fstype |-> CASE c.fstype = "nfs" -> "nfs4" [] c.fstype \in {"auto", "none"} -> "ext4" [] OTHER -> c.fstype,
     options |-> c.options, ro |-> "ro" \in ToSet(c.options), by |-> "us"]

\* Of what was mounted before, the options are not known (for the properties
\* only).
Foreign(h) == [h EXCEPT !.mounts = [i \in DOMAIN @ |-> [@[i] EXCEPT !.by = "others"]]]

\* Others are unmounted one by one, until the file system or the mount point
\* is seen; new options are for the one that is there.
Mounting(h, x, next) ==
    IF Top(h) = Null THEN
        IF h.point # "directory" \/ x.plan.device = <<"block", "missing">> THEN Stop(h)
        ELSE Changed([h EXCEPT !.mounts = Append(@, Live(x.plan))], next)
    ELSE IF ~Matches(x.plan, Top(h)) THEN Unmount(h, <<"mount">> \o next)
    ELSE IF (x.state # Null /\ x.state.options # x.plan.options) \/ ReadOnlyDrift(x.plan.options, Top(h)) THEN
        IF "not by remount" \in ToSet(x.plan.options) THEN Stop(h)
        ELSE Changed([h EXCEPT !.mounts[Len(h.mounts)].options = x.plan.options,
                               !.mounts[Len(h.mounts)].ro = "ro" \in ToSet(x.plan.options)], next)
    ELSE Go(h, next)

Checked(h, c) == IF c.mounted THEN Top(h) # Null /\ Matches(c, Top(h)) ELSE Top(h) = Null

Outcomes(step, h, x, r) ==
    CASE step = "refuse" -> {Stop(h)}
      [] step = "mount" -> {Mounting(h, x, r)}
      [] step = "unmount" -> {Unmount(h, r)}
      [] step = "entry" ->
            {Go([h EXCEPT !.fstab = IF x.plan.persist THEN Set(@, Entry(x.plan)) ELSE Removed(@)], r)}
      [] step = "check" -> {IF Checked(h, x.plan) THEN Changed(h, r) ELSE Undo(h, r)}
      [] step = "remove entry" -> {Go([h EXCEPT !.fstab = Removed(@)], r)}
OnFault(step, h, x, r) == Stop(h)

\* Drift of what is mounted shows over what fstab says: another type or
\* device, and writable although it was mounted read-only.
Writable(options) == [i \in DOMAIN options |-> IF options[i] = "ro" THEN "rw" ELSE options[i]]
Refreshed(h, s, prior) ==
    LET e == IF Lookup(h) = Null THEN s ELSE Lookup(h)
        live == Top(h)
        drift == live # Null
    IN  [device |-> IF drift /\ DeviceDiffers(prior.device, prior.options, live) THEN live.device ELSE e.device,
         fstype |-> IF drift /\ ~IsBind(prior.options) /\ ~FstypeMatches(prior.fstype, live.fstype)
                    THEN live.fstype ELSE e.fstype,
         options |-> IF drift /\ ReadOnlyDrift(prior.options, live) THEN Writable(e.options) ELSE e.options,
         pass |-> e.pass, persist |-> Lookup(h) # Null, mounted |-> drift]
Found(h, s, applied) == Refreshed(h, s, s)

\* An import takes what fstab says, or else what is mounted.
Imports == {"point"}
Imported(h, id) ==
    LET live == Top(h)
        seen == [device |-> live.device, fstype |-> live.fstype, pass |-> 0,
                 options |-> IF live.ro THEN <<"ro">> ELSE <<"defaults">>]
    IN  IF Lookup(h) # Null THEN Refreshed(h, Lookup(h), Lookup(h))
        ELSE IF live = Null THEN Null ELSE Refreshed(h, seen, seen)
-------------------------------------------------------------------------------
\* The file system is mounted, with its options if the resource mounted it,
\* and the next boot mounts the same one.
InEffect(h, c) ==
    /\ Checked(h, c)
    /\ c.mounted /\ Top(h).by = "us" => Top(h).options = c.options
    /\ c.mounted /\ "ro" \in ToSet(c.options) => Top(h).ro
    /\ LET own == SelectSeq(h.fstab, LAMBDA l : l.point \in {"point", "point/"})
       IN  IF c.persist THEN Len(own) = 1 /\ [own[1] EXCEPT !.point = "point"] = Entry(c) ELSE own = <<>>

Rest(h) == SelectSeq(h.fstab, LAMBDA l : l.point \notin {"point", "point/"})
Undone(h, was) == Entries(h.fstab) = {} /\ (Len(was.mounts) < 2 => h.mounts = <<>>)
Boot(h) == Lookup(h)
==============================================================================
