------------------------------- MODULE Accounts -------------------------------
(***************************************************************************)
(* sysutils_user: a user and its supplementary groups, changed by useradd, *)
(* usermod and userdel.  host is [user, groups]: Null or [gid, shell,      *)
(* comment, in], and the groups that there are.  In a configuration, Null  *)
(* leaves an attribute to the host; gid stands for uid and home as well.   *)
(***************************************************************************)
EXTENDS Kinds

\* Groups that are not configured, and the comment, are not read.
UserSeen(h, s) ==
    [s EXCEPT !.gid = h.user.gid, !.shell = h.user.shell,
              !.groups = IF @ = Null THEN Null ELSE h.user.in \ {h.user.gid}]
UserFound(h, s, applied) == IF h.user = Null THEN Null ELSE UserSeen(h, s)
UserRecorded(h, c) == UserSeen(h, c)

UserValid(h, c) == TRUE
UserDiffers(h, c, s) ==
    \/ c.gid # Null /\ c.gid # s.gid
    \/ c.shell # Null /\ c.shell # s.shell
    \/ c.comment # s.comment \/ c.groups # s.groups
UserReplaces(c, s) == FALSE

UserGroups(c) == IF c.groups = Null THEN {} ELSE c.groups
UserComment(c) == IF c.comment = Null THEN "" ELSE c.comment
UserKnown(h, c) == (UserGroups(c) \cup (IF c.gid = Null THEN {} ELSE {c.gid})) \subseteq h.groups
UserAdded(h, c) ==
    [gid |-> IF c.gid = Null THEN "own" ELSE c.gid, shell |-> IF c.shell = Null THEN "sh" ELSE c.shell,
     comment |-> UserComment(c), in |-> UserGroups(c)]

\* Once something is updated, a shell that is not configured is unknown at
\* plan time, and usermod gets an empty one; groups that are no longer
\* configured are left.
\* A bug: what the state holds already is not passed.
UserModifiedTwice(u, c, s) ==
    [gid |-> IF c.gid = Null THEN u.gid ELSE c.gid,
     shell |-> IF c.shell = Null THEN "" ELSE c.shell,
     comment |-> IF c.comment = s.comment THEN u.comment ELSE UserComment(c),
     in |-> UserGroups(c)]
UserModified(u, c, s) ==
    [gid |-> IF c.gid \in {Null, s.gid} THEN u.gid ELSE c.gid,
     shell |-> IF c.shell = Null THEN "" ELSE IF c.shell = s.shell THEN u.shell ELSE c.shell,
     comment |-> IF c.comment = s.comment THEN u.comment ELSE UserComment(c),
     in |-> IF c.groups = s.groups THEN u.in ELSE UserGroups(c)]

UserSteps(h, x) == IF x.state = Null THEN <<"useradd", "read back">> ELSE <<"usermod", "read back">>
UserUndoing(h, x) == <<"userdel">>

UserOutcomes(step, h, x, r) ==
    CASE step = "useradd" ->
            {IF h.user = Null /\ UserKnown(h, x.plan) THEN Go([h EXCEPT !.user = UserAdded(h, x.plan)], r) ELSE Stop(h)}
      [] step = "usermod" ->
            {IF h.user # Null /\ UserKnown(h, x.plan)
             THEN Go([h EXCEPT !.user = UserModified(@, x.plan, x.state)], r) ELSE Stop(h)}
      [] step = "read back" -> {IF h.user = Null THEN Stop(h) ELSE Go(h, r)}
      [] step = "userdel" -> {Go([h EXCEPT !.user = Null], r)}
UserOnFault(step, h, x, r) == Stop(h)

UserImports == {"name"}
UserImported(h, name) == UserFound(h, [gid |-> Null, shell |-> Null, comment |-> Null, groups |-> Null], Null)
-------------------------------------------------------------------------------
\* What is configured is so, but for a comment that others changed.
UserInEffect(h, c) ==
    /\ h.user # Null
    /\ c.gid # Null => h.user.gid = c.gid
    /\ c.shell # Null => h.user.shell = c.shell
    /\ h.user.comment # "theirs" => h.user.comment = UserComment(c)
    /\ c.groups # Null => h.user.in = c.groups

\* Membership that was never configured, and a comment.
UserRest(h, plan, state) ==
    IF h.user = Null \/ state = Null \/ plan.groups # Null \/ state.groups # Null THEN {} ELSE h.user.in
UserUndone(h) == h.user = Null
-------------------------------------------------------------------------------
(***************************************************************************)
(* sysutils_group: a group and its members, changed by groupadd, groupmod, *)
(* gpasswd and groupdel.  host is [group, users, primary]: Null or         *)
(* [gid, members], the users that there are, and whether the group is the  *)
(* primary one of a user.                                                  *)
(***************************************************************************)

\* Members that are not configured are not compared.
GroupSeen(h, s) ==
    [s EXCEPT !.gid = h.group.gid, !.members = IF @ = Null THEN Null ELSE h.group.members]
GroupFound(h, s, applied) == IF h.group = Null THEN Null ELSE GroupSeen(h, s)
GroupRecorded(h, c) == GroupFound(h, c, Null)

GroupValid(h, c) == TRUE
GroupDiffers(h, c, s) ==
    (c.gid # Null /\ c.gid # s.gid) \/ c.system # s.system \/ c.members # s.members
\* Of an imported group it is not known how it was created.
GroupReplaces(c, s) == s.system # Null /\ (s.system = TRUE) # (c.system = TRUE)

\* A bug: members that are no longer configured are taken out.
GroupSetsMembersToNone(x) == IF x.state = Null THEN x.plan.members # Null ELSE x.plan.members # x.state.members
GroupSetsMembers(x) == x.plan.members # Null /\ (x.state # Null => x.plan.members # x.state.members)
GroupSteps(h, x) ==
    If(x.state = Null, "groupadd")
    \o If(x.state # Null /\ x.plan.gid \notin {Null, x.state.gid}, "groupmod")
    \o If(GroupSetsMembers(x), "gpasswd") \o <<"read back">>
GroupUndoing(h, x) == <<"groupdel">>

GroupAdded(c) ==
    [gid |-> IF c.gid = Null THEN IF c.system = TRUE THEN "free system" ELSE "free" ELSE c.gid, members |-> {}]
GroupMembers(c) == IF c.members = Null THEN {} ELSE c.members

\* Once there is a group, a Create that fails records it.
GroupOutcomes(step, h, x, r) ==
    CASE step = "groupadd" ->
            {IF h.group = Null /\ x.plan.gid # "taken" THEN Go([h EXCEPT !.group = GroupAdded(x.plan)], r) ELSE Stop(h)}
      [] step = "groupmod" ->
            {IF h.group # Null /\ x.plan.gid # "taken"
             THEN Go([h EXCEPT !.group.gid = x.plan.gid], r) ELSE Stop(h)}
      [] step = "gpasswd" ->
            {IF h.group # Null /\ GroupMembers(x.plan) \subseteq h.users
             THEN Go([h EXCEPT !.group.members = GroupMembers(x.plan)], r) ELSE Undo(h, <<>>)}
      [] step = "read back" -> {IF h.group = Null THEN Stop(h) ELSE Go(h, r)}
      [] step = "groupdel" -> {IF h.group # Null /\ h.primary THEN Stop(h) ELSE Go([h EXCEPT !.group = Null], r)}
GroupOnFault(step, h, x, r) == IF step = "gpasswd" THEN Undo(h, <<>>) ELSE Stop(h)

GroupImports == {"name"}
GroupImported(h, name) ==
    LET members == IF h.group # Null /\ h.group.members # {} THEN h.group.members ELSE Null
    IN  GroupFound(h, [gid |-> Null, system |-> Null, members |-> members], Null)
-------------------------------------------------------------------------------
GroupInEffect(h, c) ==
    /\ h.group # Null
    /\ c.gid # Null => h.group.gid = c.gid
    /\ c.members # Null => h.group.members = c.members

\* Members that are not configured.
GroupRest(h, plan) == IF h.group = Null \/ plan.members # Null THEN {} ELSE h.group.members
GroupUndone(h) == h.group = Null
==============================================================================
