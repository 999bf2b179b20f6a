-------------------------------- MODULE Hostname --------------------------------
(***************************************************************************)
(* sysutils_hostname: the host's name in /etc/hostname, the kernel,        *)
(* /etc/machine-info and /etc/hosts.  host is                              *)
(*   running   it is the running host, and not a tree below root_dir       *)
(*   systemd   hostnamectl is used                                         *)
(*   static    /etc/hostname: Null or [name, comment], where comment says  *)
(*             that it has more than the name, and name is Null if none    *)
(*   info      /etc/machine-info: Null or [pretty, other]                  *)
(*   hosts     /etc/hosts: Null or lines as in HostsEntry                  *)
(*   kernel    the kernel's name                                           *)
(* A name is "a" or "b", or "c.d", which has the short form "c".           *)
(*                                                                         *)
(* sysutils_timezone: /etc/localtime and, where it is used, /etc/timezone. *)
(* host is [local, named, marker, systemd, zones]: local is [is, zone,     *)
(* form] with is = "symlink", "file" or "absent" and, for a symlink, form  *)
(* its spelling; a zone that is none is "elsewhere"; named is Null or      *)
(* [zone, more]; marker says that the distribution uses /etc/timezone;     *)
(* zones are those whose files are installed.                              *)
(***************************************************************************)
EXTENDS Kinds

H == INSTANCE HostsEntry

Loopback == <<4, 127>>
Spelled(name) == <<name, name>>
Names(name) == IF name = "c.d" THEN <<Spelled(name), Spelled("c")>> ELSE <<Spelled(name)>>
Identities(names) == {[addr |-> Loopback, canonical |-> n] : n \in names \ {Null, "not a name"}}
Static(h) == IF h.static = Null THEN Null ELSE h.static.name
Pretty(h) == IF h.info = Null THEN Null ELSE h.info.pretty
Content(name) == [name |-> name, comment |-> FALSE]

Valid(h, c) == c.hostname # "not a name" /\ (h.running => c.hostname # "longer than 64")
Recorded(h, c) ==
    [hostname |-> c.hostname, pretty |-> c.pretty, manage |-> c.manage, restore |-> c.restore,
     kernel |-> IF h.running THEN c.hostname ELSE Null]
Differs(h, c, s) == s # Recorded(h, c)
Replaces(c, s) == FALSE

\* What a create records before it changes anything.
LineOf(h, name) ==
    LET S == H!Entries(Text(h.hosts), Identities({name})) IN IF S = {} THEN Null ELSE h.hosts[First(S)]
Snapshot(h) ==
    [static |-> h.static, pretty |-> Pretty(h), info |-> h.info # Null,
     kernel |-> IF h.running THEN h.kernel ELSE Null, line |-> LineOf(h, Static(h))]

SetPretty(f, value, removeEmpty) ==
    LET other == f # Null /\ f.other
    IN  IF value = Null /\ (f = Null \/ (removeEmpty /\ ~other)) THEN Null
        ELSE [pretty |-> value, other |-> other]

\* The line of the name that was applied last is taken over; after a failed
\* update there may be one of the name that was found since.
\* A bug: the line of an earlier name stays.
PreviousNone(x) == {}
Previous(x) == IF x.state = Null THEN {Static(x.old)} ELSE {x.applied, x.state.hostname}
WithLine(f, name, previous) ==
    LET S == H!Entries(Text(f), Identities({name} \cup previous))
    IN  H!Ensure(Text(f), S, [addr |-> Loopback, names |-> Names(name), comment |-> Null])
WithoutLine(f, name, line) ==
    LET S == H!Entries(Text(f), Identities({name}))
    IN  IF f = Null \/ S = {} THEN f
        ELSE IF line = Null THEN Without(f, S)
        ELSE Without([f EXCEPT ![First(S)] = line], S \ {First(S)})

Steps(h, x) ==
    If(h.systemd /\ h.static # Content(x.plan.hostname), "hostnamectl static")
    \o If(h.systemd /\ x.plan.pretty \notin {Null, Pretty(h)}, "hostnamectl pretty")
    \o <<"hostname">> \o If(x.plan.pretty # Null, "machine-info")
    \o If(x.plan.manage, "hosts") \o If(h.running, "kernel")

\* The name whose line is given back.
Current(x) == IF x.applied = Null THEN x.state.hostname ELSE x.applied
Undoing(h, x) ==
    LET p == x.previous
    IN  IF ~x.state.restore \/ p = Null THEN <<>>
        ELSE If(h.systemd /\ p.static # Null /\ p.static.name \notin {Null, "not a name"}, "hostnamectl back")
             \o If(x.state.manage /\ Current(x) # Null, "hosts back") \o <<"hostname back">>
             \o If(x.state.pretty # Null, "machine-info back")
             \o If(h.running /\ p.kernel # Null, "kernel back")

Outcomes(step, h, x, r) ==
    CASE step = "hostnamectl static" -> {Go([h EXCEPT !.static = Content(x.plan.hostname)], r)}
      [] step = "hostnamectl pretty" -> {Go([h EXCEPT !.info = SetPretty(@, x.plan.pretty, FALSE)], r)}
      [] step = "hostname" -> {Go([h EXCEPT !.static = Content(x.plan.hostname)], r)}
      [] step = "machine-info" -> {Go([h EXCEPT !.info = SetPretty(@, x.plan.pretty, FALSE)], r)}
      [] step = "hosts" -> {Go([h EXCEPT !.hosts = WithLine(@, x.plan.hostname, Previous(x))], r)}
      [] step = "kernel" -> {Go([h EXCEPT !.kernel = x.plan.hostname], r)}
      [] step = "hostnamectl back" -> {Go([h EXCEPT !.static = Content(x.previous.static.name)], r)}
      [] step = "hosts back" -> {Go([h EXCEPT !.hosts = WithoutLine(@, Current(x), x.previous.line)], r)}
      [] step = "hostname back" -> {Go([h EXCEPT !.static = x.previous.static], r)}
      [] step = "machine-info back" ->
            {Go([h EXCEPT !.info = SetPretty(@, x.previous.pretty, ~x.previous.info)], r)}
      [] step = "kernel back" -> {Go([h EXCEPT !.kernel = x.previous.kernel], r)}

\* hostnamectl may fail: the files are written anyway.
OnFault(step, h, x, r) ==
    IF step \in {"hostnamectl static", "hostnamectl pretty", "hostnamectl back"} THEN Go(h, r) ELSE Stop(h)

\* The line was written for the name that was applied last.
LineCurrent(h, name) ==
    LET S == H!Entries(Text(h.hosts), Identities({name}))
    IN  Cardinality(S) = 1 /\ \A i \in S : h.hosts[i].names = Names(name)
Found(h, s, applied) ==
    [hostname |-> Static(h), pretty |-> IF s.pretty = Null THEN Null ELSE Pretty(h),
     manage |-> s.manage /\ LineCurrent(h, IF applied = Null THEN s.hostname ELSE applied),
     restore |-> s.restore, kernel |-> IF h.running THEN h.kernel ELSE Null]

Imports == {"system"}
Imported(h, id) ==
    IF Static(h) = Null THEN Null
    ELSE Found(h, [hostname |-> Null, pretty |-> Null, manage |-> FALSE, restore |-> FALSE], Null)
-------------------------------------------------------------------------------
\* The lines of the loopback address that give it a name.
Own(h, name) == SelectSeq(Text(h.hosts), LAMBDA l : l.addr = Loopback /\ l.names[1][1] = name)

\* The static and the kernel's name are the configured one, which is mapped
\* by one line.
InEffect(h, c) ==
    /\ Static(h) = c.hostname /\ (h.running => h.kernel = c.hostname)
    /\ c.pretty # Null => h.info.pretty = c.pretty
    /\ c.manage => Len(Own(h, c.hostname)) = 1

\* Other lines of the files.
Rest(h) ==
    <<h.info # Null /\ h.info.other,
      SelectSeq(Text(h.hosts), LAMBDA l :
          l.addr # Loopback \/ l.names[1][1] \notin {"a", "b", "c.d"})>>

\* Of /etc/hosts, what counts is the line of the name that is back.
Undone(h, s, before) ==
    /\ h.static = before.static /\ (h.running => h.kernel = before.kernel)
    /\ s.pretty # Null => h.info = before.info
    /\ s.manage =>
        /\ LineOf(h, Static(before)) = LineOf(before, Static(before))
        /\ Len(Own(h, Static(before))) <= Len(Own(before, Static(before)))
-------------------------------------------------------------------------------

Link(zone, form) == [is |-> "symlink", zone |-> zone, form |-> form]
Linked(h) == IF h.local.is = "symlink" /\ h.local.zone # "elsewhere" THEN h.local.zone ELSE Null
ZoneFile(zone) == [zone |-> zone, more |-> FALSE]

ZoneValid(h, c) == c.zone # "../etc"
ZoneDiffers(h, c, s) == c # s
ZoneReplaces(c, s) == FALSE
ZoneRecorded(h, c) == c
ZoneSnapshot(h) == [local |-> h.local, named |-> h.named]

\* A file counts if it is a copy of the zone that /etc/timezone names.
LiveZone(h) ==
    IF h.local.is = "file" THEN
        IF h.named # Null /\ h.named.zone = h.local.zone /\ h.local.zone \in h.zones THEN h.local.zone ELSE Null
    ELSE Linked(h)
\* The zone, and if it is the one applied, the one that /etc/timezone names.
ZoneOf(h, applied) ==
    IF h.local.is = "symlink" /\ Linked(h) = Null THEN h.local.zone
    ELSE IF LiveZone(h) # Null /\ LiveZone(h) = applied /\ h.named # Null THEN h.named.zone
    ELSE LiveZone(h)

ZoneSteps(h, x) ==
    IF x.plan.zone \notin h.zones THEN <<"refuse">>
    ELSE If(h.systemd /\ Linked(h) # x.plan.zone, "timedatectl") \o <<"localtime", "timezone">>
ZoneUndoing(h, x) ==
    IF ~x.state.restore \/ x.previous = Null THEN <<>>
    ELSE If(h.systemd /\ x.previous.local.is = "symlink" /\ x.previous.local.zone \in h.zones, "timedatectl back")
         \o <<"localtime back", "timezone back">>

Relinked(h, zone) ==
    IF Linked(h) = zone THEN h ELSE [h EXCEPT !.local = Link(zone, "relative")]
\* A bug: a file that names the old zone is left where no marker is.
NamedMarked(h, zone) == IF h.marker THEN [h EXCEPT !.named = ZoneFile(zone)] ELSE h
Named(h, zone) == IF h.named # Null \/ h.marker THEN [h EXCEPT !.named = ZoneFile(zone)] ELSE h

ZoneOutcomes(step, h, x, r) ==
    CASE step = "refuse" -> {Stop(h)}
      [] step = "timedatectl" -> {Go([h EXCEPT !.local = Link(x.plan.zone, "relative")], r)}
      [] step = "localtime" -> {Go(Relinked(h, x.plan.zone), r)}
      [] step = "timezone" -> {Go(Named(h, x.plan.zone), r)}
      [] step = "timedatectl back" -> {Go([h EXCEPT !.local = Link(x.previous.local.zone, "relative")], r)}
      [] step = "localtime back" -> {Go([h EXCEPT !.local = x.previous.local], r)}
      [] step = "timezone back" -> {Go([h EXCEPT !.named = x.previous.named], r)}

\* timedatectl may fail: the files are written anyway.
ZoneOnFault(step, h, x, r) ==
    IF step \in {"timedatectl", "timedatectl back"} THEN Go(h, r) ELSE Stop(h)

ZoneFound(h, s, applied) == [s EXCEPT !.zone = ZoneOf(h, s.zone)]

ZoneImports == {"system"}
ZoneImported(h, id) ==
    IF ZoneOf(h, Null) \in {Null, "elsewhere"} THEN Null
    ELSE [zone |-> ZoneOf(h, Null), restore |-> FALSE]
-------------------------------------------------------------------------------
\* Programs that read either file find the zone.
ZoneInEffect(h, c) ==
    /\ h.local.is = "symlink" /\ h.local.zone = c.zone
    /\ h.named # Null => h.named.zone = c.zone
    /\ h.marker => h.named # Null

ZoneRest(h) == h.zones
ZoneUndone(h, s, before) == h.local = before.local /\ h.named = before.named
==============================================================================
