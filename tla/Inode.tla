--------------------------------- MODULE Inode ---------------------------------
(***************************************************************************)
(* sysutils_file_acl: the access ACL of a file or directory, and the       *)
(* default ACL of a directory.  host is [node, users]: Null or             *)
(* [is, id, access, default], where id tells a file from another at the    *)
(* same path, and the users and groups that there are.  An ACL is a        *)
(* function from "owner", "group", "other", "mask" and the users and       *)
(* groups that are named in it to sets of permissions.  A configuration is *)
(* [entries, defaults, exclusive]; entries are a function from             *)
(* <<entry, spelling>>, where a user is spelled "name" or "id".            *)
(*                                                                         *)
(* sysutils_file_attributes: the flags of an inode.  host is               *)
(* [node, ignored]: Null or [is, id, flags], and the flags that the file   *)
(* system ignores.  A configuration is [flags, exclusive].  applied is     *)
(* what the flags were before the Create (original_flags).                 *)
(*                                                                         *)
(* Both work on an open file: it may lose its path meanwhile.              *)
(***************************************************************************)
EXTENDS Kinds, TLC

Target(node) == node # Null /\ node.is \in {"file", "directory"}
Opened(h, x) == h.node # Null /\ h.node.id = x.note.id
Noting(outcome, note) ==
    [host |-> outcome.host, next |-> outcome.next, failed |-> outcome.failed, changed |-> outcome.changed, note |-> note]
-------------------------------------------------------------------------------
Base == {"owner", "group", "other"}
IsNamed(k) == k \notin Base \cup {"mask"}
HasNamed(acl) == \E k \in DOMAIN acl : IsNamed(k)
IsMinimal(acl) == DOMAIN acl = Base
GroupClass(acl) == UNION {acl[k] : k \in {e \in DOMAIN acl : IsNamed(e) \/ e = "group"}}
\* A bug: a mask that is there is good enough.
WithMaskKept(acl, keepLone) ==
    IF HasNamed(acl) /\ "mask" \notin DOMAIN acl THEN "mask" :> GroupClass(acl) @@ acl ELSE acl
WithMask(acl, keepLone) ==
    IF HasNamed(acl) \/ (keepLone /\ "mask" \in DOMAIN acl) THEN "mask" :> GroupClass(acl) @@ acl
    ELSE Restrict(acl, DOMAIN acl \ {"mask"})

\* Like setfacl --set, but for the entries that every file has, or -m.
Applied(acl, want, exclusive) ==
    LET next == want @@ (IF exclusive THEN Restrict(acl, Base) ELSE acl)
    IN  IF "mask" \in DOMAIN want THEN next ELSE WithMask(next, ~exclusive)
WithoutNamed(acl, S) == Restrict(acl, {k \in DOMAIN acl : ~IsNamed(k) \/ k \notin S})
Stripped(acl, managed, exclusive) ==
    WithMask(WithoutNamed(acl, IF exclusive THEN DOMAIN acl ELSE managed), FALSE)

\* Users that are gone cannot be looked up by their names.
Resolves(h, e) == e[2] = "name" => e[1] \in h.users
Keys(h, entries) == {e[1] : e \in {d \in DOMAIN entries : Resolves(h, d)}}
AsListed(h, k) == <<k, IF IsNamed(k) THEN IF k \in h.users THEN "name" ELSE "id" ELSE k>>
Refers(h, entries) ==
    /\ \A e \in DOMAIN entries : Resolves(h, e)
    /\ \A e, d \in DOMAIN entries : e[1] = d[1] => e = d
Wanted(entries) ==
    [k \in {e[1] : e \in DOMAIN entries} |-> entries[CHOOSE e \in DOMAIN entries : e[1] = k]]

\* What is listed, as it is, and what an apply would remove or change.
Observed(h, acl, entries, exclusive) ==
    LET keys == Keys(h, entries)
        listed == {e \in DOMAIN entries : Resolves(h, e) /\ e[1] \in DOMAIN acl}
        more == {k \in DOMAIN acl \ keys :
                    \/ IsNamed(k) /\ exclusive
                    \/ k = "mask" /\ acl # WithMask(acl, ~exclusive)}
    IN  [e \in listed \cup {AsListed(h, k) : k \in more} |-> acl[e[1]]]

AclValid(h, c) == TRUE
AclDiffers(h, c, s) == c # s
AclReplaces(c, s) == FALSE
AclRecorded(h, c) == c
AclRead(h, m, imported) ==
    [entries |-> Observed(h, h.node.access, m.entries, m.exclusive), exclusive |-> m.exclusive,
     defaults |-> IF (m.defaults = Null /\ ~imported) \/ h.node.default = Null THEN Null
                  ELSE Observed(h, h.node.default, IF m.defaults = Null THEN <<>> ELSE m.defaults, m.exclusive)]
\* A refresh that finds a link or a device fails.
AclFound(h, s, applied) ==
    IF h.node = Null THEN Null ELSE IF Target(h.node) THEN AclRead(h, s, FALSE) ELSE s
AclImports == {"path"}
AclImported(h, id) ==
    IF ~Target(h.node) THEN Null ELSE AclRead(h, [entries |-> <<>>, defaults |-> Null, exclusive |-> TRUE], TRUE)

AclSteps(h, x) == <<"open", "access", "look", "default">>
AclUndoing(h, x) == <<"find", "strip access", "look", "strip default">>

DefaultsOf(c) == IF c.defaults = Null THEN <<>> ELSE c.defaults
\* What an update no longer lists.
Dropped(h, x) ==
    [entries |-> IF x.state = Null THEN {} ELSE Keys(h, x.state.entries) \ Keys(h, x.plan.entries),
     defaults |-> IF x.state = Null THEN {} ELSE Keys(h, DefaultsOf(x.state)) \ Keys(h, DefaultsOf(x.plan))]
NextAccess(x) ==
    Applied(WithoutNamed(x.note.acl, x.note.dropped.entries), Wanted(x.plan.entries), x.plan.exclusive)
\* A default ACL that is no more than a mode is removed: it would override
\* the umask.
Remaining(h, x) ==
    LET next == Stripped(x.note.acl, Keys(h, x.state.defaults), x.state.exclusive)
    IN  IF IsMinimal(next) THEN Null ELSE next
NextDefault(h, x) ==
    IF x.plan.defaults # Null THEN
        LET start == IF x.note.acl = Null THEN Restrict(x.note.access, Base) ELSE x.note.acl
        IN  Applied(WithoutNamed(start, x.note.dropped.defaults), Wanted(x.plan.defaults), x.plan.exclusive)
    ELSE IF x.state # Null /\ x.state.defaults # Null /\ x.note.acl # Null THEN Remaining(h, x)
    ELSE x.note.acl

AclNote(h, x) ==
    [id |-> h.node.id, directory |-> h.node.is = "directory", acl |-> h.node.access, access |-> h.node.access,
     dropped |-> Dropped(h, x)]
SetAccess(h, x, acl) == IF Opened(h, x) /\ acl # x.note.acl THEN [h EXCEPT !.node.access = acl] ELSE h
SetDefault(h, x, acl) == IF Opened(h, x) /\ acl # x.note.acl THEN [h EXCEPT !.node.default = acl] ELSE h
AclOutcomes(step, h, x, r) ==
    CASE step = "open" ->
            {IF /\ Target(h.node) /\ (x.plan.defaults # Null => h.node.is = "directory")
                /\ Refers(h, x.plan.entries) /\ Refers(h, DefaultsOf(x.plan))
             THEN Noting(Go(h, r), AclNote(h, x)) ELSE Stop(h)}
      [] step = "find" -> {IF Target(h.node) THEN Noting(Go(h, r), AclNote(h, x)) ELSE Go(h, <<>>)}
      [] step = "access" ->
            {LET next == NextAccess(x)
             IN  Noting(Go(SetAccess(h, x, next), IF x.note.directory THEN r ELSE <<>>), [x.note EXCEPT !.access = next])}
      [] step = "strip access" ->
            {Go(SetAccess(h, x, Stripped(x.note.acl, Keys(h, x.state.entries), x.state.exclusive)),
                IF x.note.directory /\ x.state.defaults # Null THEN r ELSE <<>>)}
      [] step = "look" ->
            {IF Opened(h, x) THEN Noting(Go(h, r), [x.note EXCEPT !.acl = h.node.default]) ELSE Go(h, <<>>)}
      [] step = "default" -> {Go(SetDefault(h, x, NextDefault(h, x)), r)}
      [] step = "strip default" -> {Go(IF x.note.acl = Null THEN h ELSE SetDefault(h, x, Remaining(h, x)), r)}
AclOnFault(step, h, x, r) == Stop(h)
-------------------------------------------------------------------------------
All == {"i", "a", "d", "A"}      \* e, for one, is never touched
FlagsManaged(c) == IF c.exclusive THEN All ELSE c.flags
Originally(original, S) == IF original = Null THEN {} ELSE original \cap S
\* A bug: a flag that is no longer configured is cleared.
FlagsNextCleared(flags, x) ==
    (flags \ (FlagsManaged(x.plan) \cup (IF x.state = Null THEN {} ELSE FlagsManaged(x.state)))) \cup x.plan.flags
FlagsNext(flags, x) ==
    LET released == IF x.state = Null THEN {} ELSE FlagsManaged(x.state) \ FlagsManaged(x.plan)
    IN  ((flags \ (released \cup FlagsManaged(x.plan))) \cup Originally(x.applied, released)) \cup x.plan.flags
FlagsBack(flags, x) == (flags \ FlagsManaged(x.state)) \cup Originally(x.applied, FlagsManaged(x.state))

FlagsValid(h, c) == c.flags \subseteq All
FlagsDiffers(h, c, s) == c # s
FlagsReplaces(c, s) == FALSE
FlagsRecorded(h, c) == c
FlagsFound(h, s, applied) ==
    IF h.node = Null THEN Null
    ELSE IF Target(h.node) THEN [flags |-> h.node.flags \cap FlagsManaged(s), exclusive |-> s.exclusive] ELSE s
FlagsImports == {"path"}
FlagsImported(h, id) == IF Target(h.node) THEN [flags |-> h.node.flags \cap All, exclusive |-> FALSE] ELSE Null

FlagsSteps(h, x) == <<"open", "set">>
FlagsUndoing(h, x) == <<"find", "set back">>

\* A file system may say that it set flags that it ignored.
FlagsNote(node) == [id |-> node.id, flags |-> node.flags, next |-> node.flags]
SetFlags(h, x, next, r) ==
    IF next = x.note.flags \/ ~Opened(h, x) THEN Go(h, r)
    ELSE Noting(Go([h EXCEPT !.node.flags = (next \ h.ignored) \cup (@ \cap h.ignored)], <<"verify">> \o r),
                [x.note EXCEPT !.next = next])
FlagsOutcomes(step, h, x, r) ==
    CASE step = "open" ->
            {IF Target(h.node) THEN Noting(Go(h, r), FlagsNote(h.node)) ELSE Stop(h)}
      [] step = "find" ->
            {IF Target(h.node) THEN Noting(Go(h, r), FlagsNote(h.node)) ELSE Go(h, <<>>)}
      [] step = "set" -> {SetFlags(h, x, FlagsNext(x.note.flags, x), r)}
      [] step = "set back" -> {SetFlags(h, x, FlagsBack(x.note.flags, x), r)}
      [] step = "verify" ->
            {LET checked == FlagsManaged(x.plan)
             IN  IF Opened(h, x) /\ (h.node.flags \cap checked) # (x.note.next \cap checked) THEN Stop(h) ELSE Go(h, r)}
FlagsOnFault(step, h, x, r) == Stop(h)
-------------------------------------------------------------------------------
\* Each entry has the rights that it is listed with: no mask takes them away,
\* unless that is listed, too.
Grants(acl, entries, exclusive) ==
    LET want == Wanted(entries)
    IN  /\ acl # Null /\ \A k \in DOMAIN want : k \in DOMAIN acl /\ acl[k] = want[k]
        /\ exclusive => \A k \in DOMAIN acl : IsNamed(k) => k \in DOMAIN want
        /\ "mask" \in DOMAIN acl /\ "mask" \notin DOMAIN want =>
             \A k \in DOMAIN want : (IsNamed(k) \/ k = "group") => acl[k] \subseteq acl["mask"]
        /\ HasNamed(acl) => "mask" \in DOMAIN acl
AclInEffect(h, c) ==
    /\ Target(h.node) /\ Grants(h.node.access, c.entries, c.exclusive)
    /\ c.defaults # Null => Grants(h.node.default, c.defaults, c.exclusive)
FlagsInEffect(h, c) == Target(h.node) /\ (h.node.flags \cap FlagsManaged(c)) = c.flags

\* The entries of others, and of the owner, the group and the rest.
Others(acl, listed, exclusive) ==
    Restrict(acl, {k \in DOMAIN acl \ {"mask"} : k \notin listed /\ (IsNamed(k) => ~exclusive)})
OthersDefault(acl, listed, exclusive) ==
    IF acl = Null \/ exclusive THEN <<>> ELSE Restrict(acl, {k \in DOMAIN acl : IsNamed(k) /\ k \notin listed})
Listed(op, entries, before) ==
    (IF op = "delete" THEN {} ELSE {e[1] : e \in DOMAIN entries})
        \cup {k \in {e[1] : e \in DOMAIN before} : IsNamed(k)}
AclRest(h, op, plan, state) ==
    LET s == IF state = Null THEN [entries |-> <<>>, defaults |-> Null, exclusive |-> FALSE] ELSE state
    IN  IF ~Target(h.node) THEN h.node
        ELSE <<Others(h.node.access, Listed(op, plan.entries, s.entries), plan.exclusive),
               IF plan.defaults = Null /\ s.defaults = Null THEN h.node.default
               ELSE OthersDefault(h.node.default, Listed(op, DefaultsOf(plan), DefaultsOf(s)),
                                  IF plan.defaults = Null THEN s.exclusive ELSE plan.exclusive)>>
FlagsRest(h, plan, state) ==
    IF ~Target(h.node) THEN h.node
    ELSE h.node.flags \ (FlagsManaged(plan) \cup (IF state = Null THEN {} ELSE FlagsManaged(state)))

\* None of the entries S is left, nor a mask or a default ACL without any.
WithoutAny(acl, S) ==
    /\ \A k \in S : IsNamed(k) => k \notin DOMAIN acl
    /\ "mask" \in DOMAIN acl => HasNamed(acl)
DefaultUndone(h, s) ==
    s.defaults # Null /\ h.node.default # Null =>
        ~s.exclusive /\ HasNamed(h.node.default) /\ WithoutAny(h.node.default, Keys(h, s.defaults))
AclUndone(h, s) ==
    Target(h.node) =>
        /\ WithoutAny(h.node.access, Keys(h, s.entries)) /\ (s.exclusive => ~HasNamed(h.node.access))
        /\ DefaultUndone(h, s)
\* What an update does not list any more is gone, or what it was before.
AclReleased(h, s, c) ==
    LET gone(old, new, acl) == \A k \in Keys(h, old) \ Keys(h, new) : IsNamed(k) => k \notin DOMAIN acl
    IN  /\ gone(s.entries, c.entries, h.node.access)
        /\ IF c.defaults = Null THEN DefaultUndone(h, s) ELSE gone(DefaultsOf(s), c.defaults, h.node.default)
FlagsReleased(h, s, c, before) ==
    LET S == FlagsManaged(s) \ FlagsManaged(c) IN (h.node.flags \cap S) = (before.node.flags \cap S)
FlagsUndone(h, before) == h.node.flags = before.node.flags
===============================================================================
