-------------------------------- MODULE MCHost --------------------------------
(***************************************************************************)
(* Instances of Entries and Settings for TLC.  The initial state chooses a *)
(* kind of resource and a host; the configurations, the hosts and what     *)
(* others make of them are here, kind by kind.  Each set has what the code *)
(* tells apart: spellings of one value, values that a tool refuses, copies *)
(* of an entry, entries of others, missing files and things in the way.    *)
(***************************************************************************)
EXTENDS Lifecycle, Integers, Sequences, TLC

CONSTANT Unknown

VARIABLES kind, file, host, previous, applied, work, before

settings == <<host, previous, applied, work, before>>
vars == <<lifecycle, kind, file, settings>>

LOCAL K == INSTANCE Kinds

\* hosts: two addresses of one family and one of the other.
Lower(n) == <<n, "lower">>
Upper(n) == <<n, "upper">>
Host(addr, names, comment, duplicate) ==
    [addr |-> addr, names |-> names, comment |-> comment, duplicate |-> duplicate]
HostsOptions ==
    { Host(<<4, 1>>, <<Lower("a")>>, Null, FALSE), Host(<<4, 1>>, <<Upper("a"), Lower("b")>>, "c", FALSE),
      Host(<<4, 1>>, <<Lower("b"), Lower("a")>>, Null, TRUE), Host(<<4, 2>>, <<Lower("a")>>, Null, FALSE),
      Host(<<6, 1>>, <<Lower("b")>>, Null, FALSE), Host(<<4, 1>>, <<Lower("a"), Upper("a")>>, Null, FALSE) }
HostsLine(addr, names, comment) == [addr |-> addr, names |-> names, comment |-> comment]
HostsFiles ==
    LET note == HostsLine(Null, <<>>, "note")
        a1 == HostsLine(<<4, 1>>, <<Lower("a")>>, Null)
        b1 == HostsLine(<<4, 1>>, <<Lower("b")>>, Null)
        A1 == HostsLine(<<4, 1>>, <<Upper("a"), Lower("b")>>, "x")
        b2 == HostsLine(<<4, 2>>, <<Lower("c"), Lower("b")>>, Null)
        b6 == HostsLine(<<6, 1>>, <<Lower("b")>>, Null)
    IN  {K!NoDir} \cup {[lines |-> l, mode |-> "drifted"] :
            l \in {<<note, a1, b6>>, <<b2, note>>, <<A1, note, a1, b1>>, <<b6, b1>>}}

\* cron.
Every(step) == [star |-> TRUE, lo |-> 0, hi |-> 0, step |-> step]
Job(schedule, command, env, comment) ==
    [schedule |-> schedule, command |-> command, env |-> env, comment |-> comment]
CronOptions ==
    { Job(Every(0), "x", Null, Null), Job(Every(10), "y", <<<<"V", <<"'", "b">>>>>>, <<"c", "">>),
      Job([star |-> FALSE, lo |-> 5, hi |-> 9, step |-> 3], "x", <<>>, <<"">>),
      Job([star |-> FALSE, lo |-> 5, hi |-> 5, step |-> 3], "x", Null, Null),
      Job(Every(0), "x", <<<<"V", <<>>>>>>, <<"c">>) }
CronLine(is, name, value) == [is |-> is, name |-> name, value |-> value]
CronFiles ==
    LET job(c) == CronLine("job", "job", <<Every(0), c>>)
        note(t) == CronLine("comment", "text", t)
    IN  {[lines |-> l, mode |-> m] : m \in {"ours", "drifted"}, l \in
            { <<note(""), job("x")>>, <<note("c"), CronLine("env", "V", <<"\"", "b", "\"">>), job("x"), job("y")>>,
              <<CronLine("unparsable", "job", "z")>> }}

\* authorized_keys.
Key(data, comment, options, own) ==
    [key |-> [data |-> data, comment |-> comment], options |-> options, comment |-> own]
KeyOptions ==
    { Key("k1", "me", Null, Null), Key("k1", "me", <<"from">>, Null), Key("k2", "", <<>>, "you"),
      Key("k1", "me", Null, ""), Key("certificate", "", Null, Null), Key("k1", "", <<"bad option">>, Null) }
KeyLine(data, options, comment) == [data |-> data, options |-> options, comment |-> comment]
KeyFiles ==
    {K!NoDir, K!NoUser} \cup {[lines |-> l, mode |-> "drifted"] : l \in
        { <<KeyLine("k1", <<>>, "me"), KeyLine(Null, <<>>, "note"), KeyLine("k2", <<>>, "you")>>,
          <<KeyLine("k3", <<"from">>, ""), KeyLine("k1", <<"from">>, ""), KeyLine("k1", <<>>, "me")>>,
          <<KeyLine("k2", <<"from">>, "you"), KeyLine("k3", <<>>, "")>> }}

\* INI files.
Setting(section, value, st, sep, create) ==
    [section |-> section, value |-> value, state |-> st, separator |-> sep, create |-> create]
IniOptions ==
    { Setting("s", <<<<"v">>>>, "present", "=", TRUE), Setting("s", <<<<"w">>>>, "present", " ", FALSE),
      Setting("s", Null, "absent", "=", FALSE), Setting("", <<<<"v">>>>, "present", "=", FALSE),
      Setting("", <<<<"v">>>>, "absent", "=", FALSE), Setting("s", <<<<"v">>>>, "present", " ", TRUE) }
IniLine(is, name, value, sep) == [is |-> is, name |-> name, value |-> value, sep |-> sep]
IniFiles ==
    LET s == IniLine("section", "s", <<>>, "")
        t == IniLine("section", "t", <<>>, "")
        note == IniLine("comment", "text", <<>>, "=")
        off == IniLine("comment", "key", <<"v">>, "=")
        key(v, sep) == IniLine("key", "key", <<v>>, sep)
        other == IniLine("key", "other", <<"v">>, "=")
    IN  {[lines |-> l, mode |-> "drifted"] : l \in
            { <<note, s, key("v", "="), t, key("w", "="), s, key("v", "=")>>,
              <<key("v", "="), s, off, other>>, <<note, t, other>>, <<s, other, t, s>>,
              <<other, s, key("w", " ")>> }}

\* limits.d.
Limit(key, number, spelling) == [key |-> key, value |-> <<number, spelling>>]
LimitsOptions ==
    { Limit("soft nofile", "1", "1"), Limit("soft nofile", "unlimited", "-1"),
      Limit("soft nice", "1", "1"), Limit("soft nice", "unlimited", "-1"), Limit("% maxlogins", "1", "01"),
      Limit("% nofile", "1", "1") }
LimitsFiles ==
    LET header == [key |-> "header", value |-> Null]
        note == [key |-> "comment", value |-> Null]
        blank == [key |-> "blank", value |-> Null]
    IN  {K!NoDir} \cup {[lines |-> l, mode |-> "drifted"] : l \in
            { <<note, Limit("SOFT NOFILE", "unlimited", "infinity")>>, <<header, blank, Limit("soft nice", "2", "2")>>,
              <<Limit("soft nofile", "1", "01"), note, Limit("soft nofile", "2", "2")>> }}

\* sysctl: a value and its spelling.
Value(v) == <<v, v>>
Parameter(value, persist, f) == [value |-> value, persist |-> persist, file |-> f]
SysctlOptions ==
    { Parameter(Value("1"), TRUE, "a"), Parameter(<<"1", "tab">>, TRUE, "b"), Parameter(Value("2"), FALSE, "a"),
      Parameter(Value("rejected"), TRUE, "a"), Parameter(Value("huge"), TRUE, "b"),
      Parameter(<<"1", " padded">>, TRUE, "a") }
SysctlFiles ==
    LET name(v) == [key |-> "name", value |-> Value(v)]
        other == [key |-> "other", value |-> Null]
    IN  {Null, <<other>>, <<name("1"), other, name("2")>>, <<name("2")>>}
SysctlHosts ==
    {[live |-> Value("0"), files |-> [a |-> f, b |-> g]] : f \in SysctlFiles, g \in {Null, <<[key |-> "name", value |-> Value("2")]>>}}
SysctlOthers(h) ==
    {[h EXCEPT !.live = v] : v \in {Value("0"), <<"1", "kernel">>, Null}}
    \cup {[h EXCEPT !.files["a"] = f] : f \in SysctlFiles}

\* Kernel modules.
ModuleOptions ==
    [params : {Null, {"p"}}, persist : BOOLEAN] \cup [params : {{"p", "q"}, {"bad"}, {"white space"}}, persist : {TRUE}]
ModuleFiles == {Null, [header |-> TRUE, params |-> {"p"}], [header |-> FALSE, params |-> {"q"}]}
ModuleHosts ==
    { [loaded |-> Null, load |-> Null, options |-> Null, builtin |-> FALSE],
      [loaded |-> Null, load |-> Null, options |-> Null, builtin |-> TRUE],
      [loaded |-> [params |-> {}, by |-> "others"], load |-> [header |-> TRUE, params |-> {}],
       options |-> [header |-> TRUE, params |-> {"q"}], builtin |-> FALSE],
      [loaded |-> Null, load |-> [header |-> FALSE, params |-> {}], options |-> Null, builtin |-> FALSE] }
ModuleOthers(h) ==
    {[h EXCEPT !.loaded = l] : l \in {Null, [params |-> {"q"}, by |-> "others"]}}
    \cup {[h EXCEPT !.options = f] : f \in ModuleFiles}

\* The host's name.
Called(name, pretty, manage) ==
    [hostname |-> name, pretty |-> pretty, manage |-> manage, restore |-> TRUE]
HostnameOptions ==
    { Called("a", "A", TRUE), Called("c.d", Null, TRUE), [Called("b", "C", FALSE) EXCEPT !.restore = FALSE],
      Called("not a name", Null, FALSE),
      Called("longer than 64", Null, FALSE) }
Spelled(n) == <<n, n>>
LoopbackLine(names) == HostsLine(<<4, 127>>, names, Null)
NameHost(up, systemd, static, info, hosts) ==
    [running |-> up, systemd |-> systemd, static |-> static, info |-> info, hosts |-> hosts, kernel |-> "b"]
HostnameHosts ==
    LET named == [name |-> "b", comment |-> TRUE]
        informed == [pretty |-> "B", other |-> TRUE]
        looped == <<LoopbackLine(<<Spelled("localhost")>>), LoopbackLine(<<Spelled("b"), Spelled("x")>>)>>
    IN  { NameHost(TRUE, TRUE, Null, Null, Null), NameHost(TRUE, TRUE, named, informed, looped),
          NameHost(TRUE, FALSE, named, informed, looped), NameHost(FALSE, FALSE, Null, Null, Null),
          NameHost(FALSE, FALSE, [name |-> "not a name", comment |-> FALSE], [pretty |-> Null, other |-> FALSE],
                   <<HostsLine(<<4, 1>>, <<Spelled("a")>>, Null)>>) }
HostnameOthers(h) ==
    { [h EXCEPT !.static = [name |-> "b", comment |-> FALSE]], [h EXCEPT !.info = Null], [h EXCEPT !.kernel = "b"],
      [h EXCEPT !.hosts = <<LoopbackLine(<<Spelled("a"), Spelled("x")>>), LoopbackLine(<<Spelled("a")>>)>>] }

\* The time zone.
ZoneOptions ==
    [zone : {"UTC", "Rome"}, restore : {TRUE}] \cup
    {[zone |-> "UTC", restore |-> FALSE], [zone |-> "missing", restore |-> TRUE], [zone |-> "../etc", restore |-> TRUE]}
Localtimes ==
    { [is |-> "absent", zone |-> Null, form |-> Null], [is |-> "symlink", zone |-> "UTC", form |-> "absolute"],
      [is |-> "symlink", zone |-> "elsewhere", form |-> "absolute"], [is |-> "file", zone |-> "Rome", form |-> Null] }
ZoneNames == {Null, [zone |-> "Rome", more |-> TRUE], [zone |-> "UTC", more |-> FALSE]}
ZoneHost(local, named, marker, systemd) ==
    [local |-> local, named |-> named, marker |-> marker, systemd |-> systemd, zones |-> {"UTC", "Rome"}]
ZoneHosts ==
    UNION {{ZoneHost(l, Null, TRUE, TRUE), ZoneHost(l, [zone |-> "Rome", more |-> TRUE], TRUE, FALSE),
            ZoneHost(l, [zone |-> "UTC", more |-> FALSE], FALSE, FALSE)} : l \in Localtimes}
ZoneOthers(h) ==
    {[h EXCEPT !.local = l] : l \in {k \in Localtimes : k.zone # "UTC"}} \cup {[h EXCEPT !.named = n] : n \in ZoneNames}

\* The locale.
En == <<"en", "en">>
En8 == <<"en", "en.utf8">>
De == <<"de", "de">>
Speaks(lang, lc, path, generate) ==
    [lang |-> lang, lc |-> lc, path |-> path, generate |-> generate, restore |-> TRUE]
LocaleOptions ==
    { Speaks(En, Null, Null, FALSE), Speaks(De, {<<"LC_TIME", En8>>}, Null, TRUE), Speaks(En8, {}, "conf", FALSE),
      Speaks(En, {<<"LC_ALL", En>>}, Null, FALSE), Speaks(<<"unsupported", "x">>, Null, Null, TRUE),
      [Speaks(De, {<<"LC_PAPER", En>>}, "debian", FALSE) EXCEPT !.restore = FALSE] }
LocaleFiles ==
    LET line(n, v) == [name |-> n, value |-> v]
    IN  { Null, <<line("text", Null), line("LANG", En), line("other", En), line("LANG", De)>>,
          <<line("LC_TIME", De), line("LC_PAPER", <<"not a locale", "x">>)>> }
LocaleHosts ==
    {[files |-> [debian |-> f, conf |-> g], marker |-> m, running |-> t # "none", tools |-> t,
      listed |-> {"en"}, installed |-> {"C"}] :
        f \in LocaleFiles, g \in {Null}, m \in {TRUE}, t \in {"locale-gen", "localedef", "none"}}
    \cup {[files |-> [debian |-> Null, conf |-> g], marker |-> m, running |-> TRUE, tools |-> "localedef",
           listed |-> {"en"}, installed |-> {"C"}] : g \in LocaleFiles, m \in BOOLEAN}
LocaleOthers(h) == {[h EXCEPT !.files["debian"] = f] : f \in LocaleFiles} \cup {[h EXCEPT !.installed = {"C"}]}

\* Mounts.
Disk == <<"block", "1">>
Mounts(device, fstype, options, pass, persist, mounted) ==
    [device |-> device, fstype |-> fstype, options |-> options, pass |-> pass, persist |-> persist,
     mounted |-> mounted]
MountOptions ==
    { Mounts(Disk, "ext4", <<"defaults">>, 0, TRUE, TRUE), Mounts(Disk, "auto", <<"ro">>, 1, TRUE, TRUE),
      Mounts(<<"path", "image">>, "none", <<"bind">>, 0, TRUE, FALSE),
      Mounts(<<"text", "share">>, "nfs", <<"noexec">>, 0, FALSE, TRUE),
      Mounts(Disk, "ext4", <<"not by remount">>, 0, TRUE, TRUE),
      Mounts(<<"block", "missing">>, "ext4", <<"defaults">>, 0, TRUE, TRUE), Mounts(Disk, "ext4", <<"remount">>, 0, FALSE, FALSE) }
FstabLine(point, device, options, pass) ==
    [point |-> point, device |-> device, fstype |-> "ext4", options |-> options, pass |-> pass]
Fstabs ==
    LET root == FstabLine("root", <<"block", "0">>, <<"defaults">>, 0)
        ours == FstabLine("point/", Disk, <<"defaults">>, 0)
        unreadable == FstabLine("point", <<"block", "2">>, <<"ro", "noexec">>, -1)
    IN  {<<root>>, <<ours, root, unreadable>>, <<unreadable>>}
Mounted(device, fstype, ro) ==
    [device |-> device, fstype |-> fstype, options |-> <<"theirs">>, ro |-> ro, by |-> "others"]
Stacks == {<<>>, <<Mounted(<<"block", "2">>, "btrfs", TRUE)>>, <<Mounted(<<"text", "share">>, "nfs4", FALSE)>>,
           <<Mounted(Disk, "ext4", FALSE), Mounted(<<"text", "tmpfs">>, "tmpfs", FALSE)>>}
MountHosts ==
    [fstab : Fstabs, mounts : {<<>>}, point : {"directory"}]
    \cup {[fstab |-> <<>>, mounts |-> m, point |-> "directory"] : m \in Stacks \ {<<>>}}
    \cup {[fstab |-> <<>>, mounts |-> <<>>, point |-> "symlink"]}
MountOthers(h) ==
    {[h EXCEPT !.fstab = f] : f \in {<<>>} \cup {g \in Fstabs : Len(g) > 1}}
    \cup {[h EXCEPT !.mounts = <<>>]}
    \cup {[h EXCEPT !.mounts = [i \in DOMAIN @ |-> [@[i] EXCEPT !.ro = FALSE]]],
          [h EXCEPT !.mounts = Append(@, Mounted(<<"text", "tmpfs">>, "tmpfs", FALSE))]}

\* Alternatives.
Alternative(p, link, priority, remove) == [path |-> p, link |-> link, priority |-> priority, remove |-> remove]
AlternativeOptions ==
    { Alternative("vim", Null, Null, FALSE), Alternative("vim", "link", 10, TRUE),
      Alternative("nano", "link", 30, TRUE), Alternative("nano", "other link", 10, FALSE),
      Alternative("untrusted", "link", 10, FALSE), Alternative("missing", "link", 10, TRUE),
      Alternative("link", "link", 10, FALSE) }
LinkGroup(mode, value, alternatives) ==
    [link |-> "link", mode |-> mode, value |-> value, alternatives |-> alternatives]
Theirs == "theirs" :> 20
LinkGroups ==
    { Null, LinkGroup("auto", "theirs", Theirs), LinkGroup("manual", "vim", Theirs @@ "vim" :> 10),
      LinkGroup("manual", "nano", Theirs @@ "vim" :> 30),
      LinkGroup("auto", "vim", Theirs @@ "vim" :> 30 @@ "untrusted" :> 10) }
AlternativeHosts == {[group |-> g, untrusted |-> {"untrusted"}] : g \in LinkGroups}
AlternativeOthers(h) ==
    {[h EXCEPT !.group = g] : g \in {Null, LinkGroup("auto", "theirs", Theirs)}}
    \cup {[h EXCEPT !.group = LinkGroup("manual", "theirs", Theirs @@ h.group.alternatives)] : x \in {h.group} \ {Null}}

\* Users and groups.
User(gid, shell, comment, groups) == [gid |-> gid, shell |-> shell, comment |-> comment, groups |-> groups]
UserOptions ==
    { User(Null, Null, Null, Null), User("staff", "bash", "c", {"wheel"}), User(Null, "sh", "d", {}),
      User("staff", Null, "c", Null), User("missing", "sh", Null, Null), User(Null, Null, "c", {"wheel", "missing"}) }
Account(gid, shell, comment, in) == [gid |-> gid, shell |-> shell, comment |-> comment, in |-> in]
Accounts ==
    {Null, Account("own", "bash", "theirs", {"wheel"}), Account("staff", "", "theirs", {}),
     Account("own", "sh", "theirs", {"staff"})}
UserHosts == {[user |-> u, groups |-> {"own", "staff", "wheel"}] : u \in Accounts}
UserOthers(h) ==
    {[h EXCEPT !.user = u] : u \in Accounts}
    \cup {[h EXCEPT !.groups = {"own"}, !.user = IF @ = Null THEN Null ELSE [@ EXCEPT !.in = {}]]}
GroupOptions ==
    [gid : {Null}, system : {Null, TRUE}, members : {Null, {"u"}}] \cup [gid : {Null}, system : {FALSE}, members : {{}}] \cup
    [gid : {"a"}, system : {FALSE}, members : {Null, {"u", "v"}, {"u", "missing"}}] \cup
    [gid : {"taken"}, system : {FALSE}, members : {Null}]
UserGroups == {Null} \cup [gid : {"b"}, members : {{}, {"v"}}]
GroupHosts == [group : UserGroups, users : {{"u", "v"}}, primary : BOOLEAN]
GroupOthers(h) == {[h EXCEPT !.group = g] : g \in UserGroups} \cup {[h EXCEPT !.users = {"u"}]}

\* Files, with the attribute the content is from.
Same(v) == <<v, v>>
Written(from, value, version, mode, owner) ==
    [from |-> from, value |-> value, version |-> version, mode |-> mode, owner |-> owner]
You == <<"you", "1000">>
FileOptions ==
    { Written("content", Same("x"), Null, Same("0644"), Null), Written("sensitive", Same("y"), Null, <<"0600", "600">>, You),
      Written("base64", <<"binary", "padded">>, Null, Same("0644"), Null),
      Written("source", Null, Null, Same("0600"), Same("us")), Written("content", Same("y"), Null, Same("0644"), Same("missing")),
      Written("wo", Same("x"), 1, Same("0644"), Null), Written("wo", Same("y"), 2, Same("0600"), You) }
TemplateOptions ==
    { Written("template", Same("x"), Null, Same("0644"), Null), Written("secret template", Same("y"), Null, <<"0600", "600">>, You),
      Written("template", Same("y"), Null, Same("0644"), Same("missing")), Written("template", Same("x"), Null, Same("0600"), Same("us")) }
ThatFile(content, mode) == [is |-> "file", content |-> content, mode |-> mode, owner |-> "them"]
NoFile(is) == [is |-> is, content |-> Null, mode |-> Null, owner |-> "them"]
FileHosts ==
    {[file |-> Null, parent |-> p, source |-> IF p THEN Null ELSE "x", open |-> FALSE, read |-> Null] : p \in BOOLEAN}
    \cup {[file |-> f, parent |-> TRUE, source |-> "x", open |-> FALSE, read |-> Null] :
            f \in {ThatFile("y", "0666"), ThatFile("binary", "0644"), NoFile("symlink"), NoFile("directory")}}
FileOthers(h) ==
    {[h EXCEPT !.file = f, !.open = FALSE] : f \in {ThatFile("y", "0666"), NoFile("symlink")}}
    \cup {[h EXCEPT !.file.content = "binary"] : x \in {h.file} \ {Null, NoFile("symlink"), NoFile("directory")}}
    \cup {[h EXCEPT !.source = "y"]}

\* Directories: the mode, and the names in it.
Holds(mode, owner, parents, force, owners, modes, files) ==
    [mode |-> mode, owner |-> owner, parents |-> parents, force |-> force, owners |-> owners, modes |-> modes,
     files |-> files]
DirectoryOptions ==
    { Holds(Same("0755"), Null, TRUE, FALSE, FALSE, FALSE, Null), Holds(<<"0750", "750">>, You, TRUE, TRUE, TRUE, TRUE, Same("4755")),
      Holds(Same("0755"), Null, FALSE, TRUE, TRUE, FALSE, Null), Holds(Same("0750"), Same("missing"), TRUE, TRUE, FALSE, TRUE, Null),
      Holds(Same("0755"), Same("us"), TRUE, FALSE, FALSE, TRUE, Same("0644")) }
Node(is, mode, mounted) == [is |-> is, mode |-> mode, owner |-> "them", mounted |-> mounted]
Tree(f, d, n) == [x \in {"f", "d", "d/f"} |-> CASE x = "f" -> f [] x = "d" -> d [] x = "d/f" -> n]
Empty == Tree(Null, Null, Null)
Trees ==
    { Empty, Tree(Node("file", "4755", FALSE), Node("directory", "0755", FALSE), Node("symlink", Null, FALSE)),
      Tree(Node("symlink", Null, FALSE), Node("directory", "0700", TRUE), Node("file", "4755", FALSE)),
      Tree(Node("file", "0600", FALSE), Node("directory", "0700", FALSE), Node("file", "4755", FALSE)) }
Directory == [is |-> "directory", mode |-> "0700", owner |-> "them"]
DirectoryHosts ==
    [dir : {Null}, parent : BOOLEAN, tree : {Empty}]
    \cup [dir : {Directory}, parent : {TRUE}, tree : Trees]
    \cup {[dir |-> [is |-> "file", mode |-> "0700", owner |-> "them"], parent |-> TRUE, tree |-> Empty]}
DirectoryOthers(h) ==
    {[h EXCEPT !.dir = d, !.tree = Empty] : d \in {Null, [is |-> "symlink", mode |-> Null, owner |-> "them"]}}
    \cup UNION {{[h EXCEPT !.dir.owner = "them"]} \cup {[h EXCEPT !.tree = t] : t \in {u \in Trees : \E n \in DOMAIN u : u[n] # Null /\ u[n].is = "symlink"}} :
                x \in {d \in {h.dir} : d # Null /\ d.is = "directory"}}

\* Symbolic links.
LinkOptions ==
    { [target |-> "a", owner |-> Null], [target |-> "a", owner |-> You], [target |-> "b", owner |-> Same("us")],
      [target |-> "b", owner |-> Same("missing")], [target |-> "outside", owner |-> Null] }
SomeLink(is, target) == [is |-> is, target |-> target, owner |-> "them"]
SomeLinks == {Null, SomeLink("symlink", "a"), SomeLink("symlink", "c"), SomeLink("file", Null), SomeLink("directory", Null)}
LinkHosts ==
    [link : {Null}, parent : BOOLEAN, litter : {0}] \cup [link : SomeLinks, parent : {TRUE}, litter : {0}]
LinkOthers(h) == {[h EXCEPT !.link = l] : l \in SomeLinks}

\* archive_extract: two archives, and all of up to two entries of a few.
ArchiveOptions ==
    {[source |-> s, strip |-> 0, limit |-> 3, overwrite |-> FALSE, mode |-> Null] : s \in {"p", "q"}} \cup
    {[source |-> "p", strip |-> k, limit |-> 3, overwrite |-> k = 0, mode |-> "private"] : k \in {0, 1}}
Packed(name, is, to) == [name |-> name, is |-> is, to |-> to]
NewArchive == <<Packed(<<"a">>, "file", "new"), Packed(<<"d", "x">>, "file", "new")>>
OldArchive == <<Packed(<<".", "a">>, "file", "old")>>
SmallEntries ==
    { Packed(<<"a">>, "file", "x"), Packed(<<"d">>, "dir", Null), Packed(<<"d", "u">>, "symlink", <<"..">>),
      Packed(<<"l">>, "symlink", <<"d", "u", "..">>), Packed(<<"l">>, "symlink", <<"d", "..", "a">>),
      Packed(<<"l">>, "symlink", <<"l">>), Packed(<<"l", "x">>, "file", "x"), Packed(<<"h">>, "hardlink", <<"a">>),
      Packed(<<"..", "a">>, "file", "x"), Packed(<<"u">>, "symlink", <<"/", "x">>) }
SmallArchives == {<<e>> : e \in SmallEntries} \cup {<<e, f>> : e, f \in SmallEntries}
OnDisk(is, to) == [is |-> is, to |-> to, mode |-> "theirs", by |-> "others"]
ArchiveTrees ==
    { <<>>, <<"a">> :> OnDisk("file", "x"), <<"d">> :> OnDisk("dir", Null), <<"d">> :> OnDisk("file", "x"),
      (<<"d">> :> OnDisk("dir", Null)) @@ (<<"d", "y">> :> OnDisk("file", "x")), <<"a">> :> OnDisk("dir", Null) }
ArchiveHosts ==
    {[source |-> [p |-> NewArchive, q |-> OldArchive], dest |-> t # <<>>, tree |-> t] : t \in ArchiveTrees} \cup
    {[source |-> [p |-> a, q |-> Null], dest |-> FALSE, tree |-> <<>>] : a \in SmallArchives}
ArchiveOthers(h) ==
    LET known == h.source.q # Null
        put(n, e) == IF h.dest /\ (Len(n) = 1 \/ (<<n[1]>> \in DOMAIN h.tree /\ h.tree[<<n[1]>>].is = "dir"))
                       THEN {[h EXCEPT !.tree = (n :> e) @@ @]} ELSE {}
    IN  IF ~known THEN {}
        ELSE {[h EXCEPT !.source.p = a] : a \in {OldArchive, Null}}
               \cup {[h EXCEPT !.dest = TRUE], [h EXCEPT !.dest = FALSE, !.tree = <<>>]}
               \cup put(<<"d", "y">>, OnDisk("file", "x"))
               \cup (IF <<"a">> \in DOMAIN h.tree /\ h.tree[<<"a">>].is = "dir" THEN {} ELSE put(<<"a">>, OnDisk("file", "x")))
               \cup (IF <<"d">> \in DOMAIN h.tree THEN {} ELSE put(<<"d">>, OnDisk("file", "x")) \cup put(<<"d">>, OnDisk("dir", Null)))

\* Downloads: the checksum, and what a server sends.
Fetched(url, checksum, unverified, force, mode, owner) ==
    [url |-> url, checksum |-> checksum, unverified |-> unverified, force |-> force, mode |-> mode, owner |-> owner]
RemoteOptions ==
    { Fetched("here", <<"sha256", "x", "upper">>, FALSE, FALSE, Same("0644"), Null),
      Fetched("there", <<"sha512", "y", "lower">>, FALSE, FALSE, <<"0600", "600">>, You),
      Fetched("here", Null, TRUE, FALSE, Same("0600"), Same("us")), Fetched("here", Null, TRUE, TRUE, Same("0644"), You),
      Fetched("there", <<"sha256", "x", "lower">>, FALSE, TRUE, Same("0644"), Null),
      Fetched("here", <<"sha256", "x", "lower">>, FALSE, FALSE, Same("0644"), Same("missing")),
      Fetched("here", Null, FALSE, FALSE, Same("0644"), Null) }
Labelled(is, content, mode) == [is |-> is, content |-> content, mode |-> mode, owner |-> "them", label |-> "theirs"]
RemotePaths == {Null, Labelled("file", "x", "0666"), Labelled("file", "y", "0600"), Labelled("symlink", Null, Null), Labelled("directory", Null, Null)}
Server == {[here |-> "x", there |-> "y"], [here |-> "y", there |-> Null], [here |-> "endless", there |-> "x"]}
RemoteHosts ==
    LET at(f, p, s) == [file |-> f, parent |-> p, served |-> s, temp |-> Null, seen |-> Null, litter |-> 0]
    IN  {at(f, TRUE, [here |-> "x", there |-> "y"]) : f \in RemotePaths} \cup {at(Null, TRUE, s) : s \in Server}
        \cup {at(Null, FALSE, [here |-> "x", there |-> "y"])}
RemoteOthers(h) == {[h EXCEPT !.file = f, !.parent = TRUE] : f \in {Null, Labelled("file", "y", "0600"), Labelled("symlink", Null, Null)}}
                   \cup {[h EXCEPT !.served = s] : s \in Server}

\* ACLs.
Granted(principal, spelling, rights) == <<principal, spelling>> :> rights
Acl(entries, defaults, exclusive) == [entries |-> entries, defaults |-> defaults, exclusive |-> exclusive]
ReadOnly == {"r"}
ReadWrite == {"r", "w"}
AclOptions ==
    { Acl(Granted("alice", "name", ReadWrite), Null, TRUE),
      Acl(Granted("alice", "id", ReadOnly) @@ Granted("mask", "mask", ReadOnly), <<>>, TRUE),
      Acl(Granted("staff", "name", ReadWrite) @@ Granted("group", "group", ReadOnly),
          Granted("alice", "name", ReadWrite) @@ Granted("mask", "mask", {}), FALSE),
      Acl(Granted("alice", "name", ReadOnly) @@ Granted("alice", "id", ReadWrite), Null, FALSE) }
Mode(owner, group, other) == ("owner" :> owner) @@ ("group" :> group) @@ ("other" :> other)
Lists(acl, principal, mask) == (principal :> ReadWrite) @@ ("mask" :> mask) @@ acl
Plain == Mode(ReadWrite, ReadOnly, {})
AclNode(is, id, access, default) == [is |-> is, id |-> id, access |-> access, default |-> default]
AclHosts ==
    [node : {Null, AclNode("symlink", 1, Null, Null), AclNode("file", 1, Plain, Null),
             AclNode("directory", 1, Lists(Plain, "bob", {}), Null),
             AclNode("directory", 1, "alice" :> {} @@ Lists(Mode(ReadWrite, ReadWrite, ReadOnly), "bob", ReadWrite), Lists(Plain, "bob", ReadWrite)),
             AclNode("directory", 1, "mask" :> {} @@ Plain, Plain)},
     users : {{"alice", "staff"}}]
AclOthers(h) ==
    {[h EXCEPT !.users = {"staff"}]}
    \cup {[h EXCEPT !.node = n] : n \in {Null, AclNode("symlink", 2, Null, Null), AclNode("file", 2, Plain, Null)}}
    \cup UNION {{[h EXCEPT !.node.access = Lists(@, "bob", ReadOnly)], [h EXCEPT !.node.access = Plain],
                 [h EXCEPT !.node.access = [@ EXCEPT !["group"] = ReadWrite]],
                 [h EXCEPT !.node.access = IF "mask" \in DOMAIN @ THEN [@ EXCEPT !["mask"] = {}] ELSE [@ EXCEPT !["group"] = {}]]}
                \cup (IF h.node.is # "directory" THEN {}
                      ELSE {[h EXCEPT !.node.default = d] : d \in {Null, Lists(Plain, "bob", {})}}) :
                x \in {n \in {h.node} : n # Null /\ n.is # "symlink"}}

\* Inode flags.
Flagged(flags, exclusive) == [flags |-> flags, exclusive |-> exclusive]
FlagsOptions ==
    { Flagged({"i"}, FALSE), Flagged({"d", "A"}, FALSE), Flagged({"a", "d"}, TRUE), Flagged({}, TRUE),
      Flagged({"e"}, FALSE) }
FlagsNode(is, id, flags) == [is |-> is, id |-> id, flags |-> flags]
FlagsHosts ==
    [node : {Null, FlagsNode("symlink", 1, {})} \cup [is : {"file"}, id : {1}, flags : {{}, {"e", "i"}, {"a", "d", "e"}}],
     ignored : {{}}]
    \cup [node : {FlagsNode("file", 1, {"a", "d", "e"})}, ignored : {{"A"}}]
FlagsOthers(h) ==
    {[h EXCEPT !.node = n] : n \in {Null, FlagsNode("directory", 2, {"d"})}}
    \cup {[h EXCEPT !.node.flags = f] : f \in IF h.node = Null \/ h.node.is = "symlink" THEN {} ELSE {{"e", "i", "d"}, {"A", "e"}}}

KindOptions(k) ==
    CASE k = "hosts" -> HostsOptions [] k = "cron" -> CronOptions [] k = "key" -> KeyOptions
      [] k = "ini" -> IniOptions [] k = "limits" -> LimitsOptions [] k = "sysctl" -> SysctlOptions
      [] k = "module" -> ModuleOptions [] k = "hostname" -> HostnameOptions
      [] k = "timezone" -> ZoneOptions [] k = "locale" -> LocaleOptions [] k = "mount" -> MountOptions
      [] k = "alternative" -> AlternativeOptions [] k = "user" -> UserOptions [] k = "group" -> GroupOptions
      [] k = "file" -> FileOptions [] k = "template" -> TemplateOptions
      [] k = "directory" -> DirectoryOptions [] k = "symlink" -> LinkOptions [] k = "archive" -> ArchiveOptions
      [] k = "remote" -> RemoteOptions [] k = "acl" -> AclOptions [] k = "flags" -> FlagsOptions
KindFiles(k) ==
    CASE k = "hosts" -> HostsFiles [] k = "cron" -> CronFiles [] k = "key" -> KeyFiles
      [] k = "ini" -> IniFiles [] k = "limits" -> LimitsFiles
KindHosts(k) ==
    CASE k = "sysctl" -> SysctlHosts [] k = "module" -> ModuleHosts [] k = "hostname" -> HostnameHosts
      [] k = "timezone" -> ZoneHosts [] k = "locale" -> LocaleHosts [] k = "mount" -> MountHosts
      [] k = "alternative" -> AlternativeHosts [] k = "user" -> UserHosts [] k = "group" -> GroupHosts
      [] k \in {"file", "template"} -> FileHosts [] k = "directory" -> DirectoryHosts [] k = "symlink" -> LinkHosts
      [] k = "archive" -> ArchiveHosts [] k = "remote" -> RemoteHosts
      [] k = "acl" -> AclHosts [] k = "flags" -> FlagsHosts
KindOthers(k, h) ==
    CASE k = "sysctl" -> SysctlOthers(h) [] k = "module" -> ModuleOthers(h) [] k = "hostname" -> HostnameOthers(h)
      [] k = "timezone" -> ZoneOthers(h) [] k = "locale" -> LocaleOthers(h) [] k = "mount" -> MountOthers(h)
      [] k = "alternative" -> AlternativeOthers(h) [] k = "user" -> UserOthers(h) [] k = "group" -> GroupOthers(h)
      [] k \in {"file", "template"} -> FileOthers(h) [] k = "directory" -> DirectoryOthers(h)
      [] k = "symlink" -> LinkOthers(h) [] k = "archive" -> ArchiveOthers(h) [] k = "remote" -> RemoteOthers(h)
      [] k = "acl" -> AclOthers(h) [] k = "flags" -> FlagsOthers(h)

Entries == INSTANCE Entries WITH Options <- KindOptions, Files <- KindFiles
Settings == INSTANCE Settings WITH Options <- KindOptions, Hosts <- KindHosts, Others <- KindOthers

EntryKind == kind \in {"hosts", "cron", "key", "ini", "limits"}
Init ==
    \/ Entries!Init /\ host = Null /\ previous = Null /\ applied = Null /\ work = Null /\ before = Null
    \/ Settings!Init /\ file = Null
Next ==
    \/ EntryKind /\ Entries!Next /\ UNCHANGED settings
    \/ ~EntryKind /\ Settings!Next /\ UNCHANGED file
Spec == Init /\ [][Next]_vars

-------------------------------------------------------------------------------
\* The properties are those of Entries and of Settings, for each kind.

\* The configuration was accepted by the validation of the kind, a step is
\* pending only while an operation runs, and only a state is tainted.
TypeOK == IF EntryKind THEN Entries!TypeOK ELSE Settings!TypeOK

\* After an apply that ended well, and until something else happens, a refresh
\* changes nothing and the plan is empty: Read reads back what Create and
\* Update write.
Settled == IF EntryKind THEN Entries!Settled ELSE Settings!Settled

\* After such an apply, and whenever a refresh and a plan have nothing to tell,
\* the programs that use the files, the kernel and the databases of the host,
\* each by its own rules, find what is configured.
Effective == IF EntryKind THEN Entries!Effective ELSE Settings!Effective

\* No step of an operation changes, moves or removes what belongs to others.
Kept == [][IF EntryKind THEN Entries!Kept ELSE Settings!Kept]_vars

\* A destroy that ended well, at once or when tried again, leaves nothing of
\* the resource, and brings back what was there before where it promises so.
Gone == [][IF EntryKind THEN Entries!Gone ELSE Settings!Gone]_vars

\* An operation that fails leaves nothing that takes effect later, and no
\* content is ever in a file with a mode or owner that is not its own.
Harmless == [][~EntryKind => Settings!Harmless]_vars
==============================================================================
