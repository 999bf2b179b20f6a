--------------------------------- MODULE Kernel ---------------------------------
(***************************************************************************)
(* sysutils_sysctl: a kernel parameter, in the running kernel and in a     *)
(* sysctl.d file.  A value is <<value, spelling>>: the kernel reports its  *)
(* own white space.  host is [live, files]: the running value (Null if     *)
(* there is no such parameter) and, for each file, Null or its lines       *)
(* [key, value], where key is "name", or "other" for any other line.       *)
(*                                                                         *)
(* sysutils_kernel_module: a module, its parameters, and the files that    *)
(* load it at boot.  host is [loaded, load, options, builtin]: the         *)
(* parameters that the module is loaded with and by whom (Null if it is    *)
(* not), and the two files, each Null or [header, params], where header    *)
(* says that it begins as the resource's files do.                         *)
(***************************************************************************)
EXTENDS Kinds

Same(v, w) == v # Null /\ w # Null /\ v[1] = w[1]
Entries(lines) == Where(lines, LAMBDA l : l.key = "name")
Lookup(f) ==
    LET S == Entries(Text(f)) IN IF S = {} THEN Null ELSE f[Latest(S)].value

Set(lines, value) ==
    LET S == Entries(lines)
        line == [key |-> "name", value |-> value]
    IN  IF S = {} THEN Append(lines, line)
        ELSE Without(IF Same(lines[First(S)].value, value) THEN lines ELSE [lines EXCEPT ![First(S)] = line],
                     S \ {First(S)})
\* A file without a line is removed.
Edited(f, lines) == IF lines = Text(f) THEN f ELSE IF lines = <<>> THEN Null ELSE lines
Removed(f) == Edited(f, Without(Text(f), Entries(Text(f))))

ParameterValid(h, c) == c.value[2] # " padded"
ParameterDiffers(h, c, s) == c # s
ParameterReplaces(c, s) == FALSE
ParameterRecorded(h, c) == c

\* The running value comes first, so that one that the kernel rejects is not
\* set again at every boot.
\* A bug: the other way round.
ParameterStepsFileFirst(h, x) ==
    IF h.live = Null \/ (x.state = Null /\ Entries(Text(h.files[x.plan.file])) # {}) THEN <<"refuse">>
    ELSE If(x.state # Null /\ x.state.file # x.plan.file, "move") \o <<"persist">>
         \o If(~Same(h.live, x.plan.value), "write")
ParameterSteps(h, x) ==
    IF h.live = Null \/ (x.state = Null /\ Entries(Text(h.files[x.plan.file])) # {}) THEN <<"refuse">>
    ELSE If(~Same(h.live, x.plan.value), "write")
         \o If(x.state # Null /\ x.state.file # x.plan.file, "move") \o <<"persist">>
ParameterUndoing(h, x) == <<"remove">>

\* A write that succeeds may have set another value.
Write(h, v, r) ==
    IF v[1] = "rejected" THEN Stop(h)
    ELSE IF v[1] = "huge" THEN Undo([h EXCEPT !.live = <<"limit", "kernel">>], <<>>)
    ELSE Changed([h EXCEPT !.live = <<v[1], "kernel">>], r)
Persisted(f, c) == IF c.persist THEN Edited(f, Set(Text(f), c.value)) ELSE Removed(f)

ParameterOutcomes(step, h, x, r) ==
    CASE step = "refuse" -> {Stop(h)}
      [] step = "write" -> {Write(h, x.plan.value, r)}
      [] step = "move" -> {Changed([h EXCEPT !.files[x.state.file] = Removed(@)], r)}
      [] step = "persist" -> {Changed([h EXCEPT !.files[x.plan.file] = Persisted(@, x.plan)], r)}
      [] step = "remove" -> {Go([h EXCEPT !.files[x.state.file] = Removed(@)], r)}
ParameterOnFault(step, h, x, r) == Stop(h)

\* An entry with another value than the one last applied does not persist it.
Refreshed(h, s, applied) ==
    [s EXCEPT !.value = IF Same(h.live, s.value) THEN @ ELSE h.live,
              !.persist = Same(Lookup(h.files[s.file]), applied)]
ParameterFound(h, s, applied) == IF h.live = Null THEN Null ELSE Refreshed(h, s, s.value)

\* An import names the file.
ParameterImports == {"a", "b"}
ParameterImported(h, f) ==
    IF h.live = Null THEN Null
    ELSE Refreshed(h, [value |-> Null, persist |-> Null, file |-> f], h.live)
-------------------------------------------------------------------------------
Params(c) == IF c.params = Null THEN {} ELSE c.params
File(params) == [header |-> TRUE, params |-> params]
LoadFile == File({})
OptionsFile(params) == IF params = {} THEN Null ELSE File(params)
OptionsOf(h) == IF h.options = Null THEN {} ELSE h.options.params

ModuleValid(h, c) == "white space" \notin Params(c)
ModuleDiffers(h, c, s) == c # s
ModuleReplaces(c, s) == FALSE
ModuleRecorded(h, c) == c

Users(f) == f # Null /\ ~f.header
Reloads(h, x) == h.loaded # Null /\ x.state # Null /\ Params(x.plan) # Params(x.state)

\* A module in use fails the update before anything is changed; the files
\* come before the module, because modprobe reads them too.
ModuleSteps(h, x) ==
    IF x.state = Null /\ (Users(h.load) \/ Users(h.options)) THEN <<"refuse">>
    ELSE If(Reloads(h, x), "unload") \o <<"read", "load file", "options file">>
         \o If(Reloads(h, x), "load again") \o If(h.loaded = Null, "load") \o <<"verify">>
ModuleUndoing(h, x) == <<"remove load file", "remove options file", "unload at last">>

\* modprobe adds the options of the file; what others put there meanwhile
\* stays in the loaded module, where it cannot be read.
Load(h, params) ==
    [h EXCEPT !.loaded =
        IF h.builtin THEN Null
        ELSE [params |-> params \cup OptionsOf(h), by |-> IF OptionsOf(h) \subseteq params THEN "us" ELSE "both"]]
\* A module that was there is not the resource's (for the properties only).
Foreign(h) == IF h.loaded = Null THEN h ELSE [h EXCEPT !.loaded.by = "others"]
\* A bug: the files stay when the module cannot be loaded.
BackNot(again) == If(again, "old module")
Back(again) == <<"old load file", "old options file">> \o If(again, "old module")

ModuleOutcomes(step, h, x, r) ==
    CASE step = "refuse" -> {Stop(h)}
      [] step = "unload" -> {Changed([h EXCEPT !.loaded = Null], r)}
      [] step = "read" -> {Go(IF x.state = Null THEN Foreign(h) ELSE h, r)}
      [] step = "load file" -> {Changed([h EXCEPT !.load = IF x.plan.persist THEN LoadFile ELSE Null], r)}
      [] step = "options file" ->
            {Changed([h EXCEPT !.options = IF x.plan.persist THEN OptionsFile(Params(x.plan)) ELSE Null], r)}
      [] step \in {"load", "load again"} ->
            {IF "bad" \in Params(x.plan) /\ ~h.builtin THEN Undo(h, Back(step = "load again"))
             ELSE Changed(Load(h, Params(x.plan)), r)}
      [] step = "verify" -> {IF h.loaded = Null THEN Undo(h, r) ELSE Go(h, r)}
      [] step = "old load file" -> {Go([h EXCEPT !.load = x.old.load], r)}
      [] step = "old options file" -> {Go([h EXCEPT !.options = x.old.options], r)}
      [] step = "old module" -> {Go(Load(h, Params(x.state)), r)}
      [] step = "remove load file" -> {Go([h EXCEPT !.load = Null], r)}
      [] step = "remove options file" -> {Go([h EXCEPT !.options = Null], r)}
      [] step = "unload at last" -> {Go([h EXCEPT !.loaded = Null], r)}

\* A module that cannot be unloaded stays behind after a destroy.
ModuleOnFault(step, h, x, r) ==
    CASE step \in {"load file", "options file"} -> Undo(h, Back(FALSE))
      [] step \in {"load", "load again"} -> Undo(h, Back(step = "load again"))
      [] step \in {"old load file", "old options file", "old module", "verify"} -> Undo(h, r)
      [] step = "unload at last" -> Go(Foreign(h), r)
      [] OTHER -> Stop(h)

AsWritten(h, params) == h.load = LoadFile /\ h.options = OptionsFile(params)
ModuleFound(h, s, applied) ==
    IF h.loaded = Null THEN Null ELSE [s EXCEPT !.persist = AsWritten(h, Params(s))]

\* The parameters of an imported module are those of its file.
ModuleImports == {"name"}
ModuleImported(h, name) ==
    IF h.loaded = Null THEN Null
    ELSE [params |-> IF OptionsOf(h) = {} THEN Null ELSE OptionsOf(h),
          persist |-> AsWritten(h, OptionsOf(h))]
-------------------------------------------------------------------------------
\* The kernel has the value, and the last line of the file, which counts at
\* boot, sets it too.
ParameterInEffect(h, c) ==
    /\ h.live[1] = c.value[1]
    /\ LET own == SelectSeq(Text(h.files[c.file]), LAMBDA l : l.key = "name")
       IN  IF c.persist THEN Len(own) = 1 /\ own[1].value[1] = c.value[1] ELSE own = <<>>

ParameterRest(h) == [f \in DOMAIN h.files |-> SelectSeq(Text(h.files[f]), LAMBDA l : l.key # "name")]
ParameterUndone(h, s) == SelectSeq(Text(h.files[s.file]), LAMBDA l : l.key = "name") = <<>>
\* What the next boot makes of it.
ParameterBoot(h) == [f \in DOMAIN h.files |-> Lookup(h.files[f])]

\* The module that the resource loaded has the parameters, and so it has when
\* it is loaded at boot.
ModuleInEffect(h, c) ==
    /\ h.loaded # Null /\ (h.loaded.by = "us" => h.loaded.params = Params(c))
    /\ c.persist => h.load = LoadFile /\ OptionsOf(h) = Params(c)

ModuleRest(h) == {f \in {h.load, h.options} : f # Null /\ ~f.header}
ModuleUndone(h) ==
    h.load = Null /\ h.options = Null /\ (h.loaded # Null => h.loaded.by = "others")
ModuleBoot(h) == <<h.load, h.options>>
===============================================================================
