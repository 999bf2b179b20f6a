----------------------------- MODULE Repositories -----------------------------
(***************************************************************************)
(* sysutils_package_repository (package_repository.go,                     *)
(* package_repository_resource.go): a repository of apt or dnf, which has  *)
(* a file of its own and maybe a signing key in another, or of apk, which  *)
(* is a line after a marker in a file that users edit too.  An apply       *)
(* writes the key, the repository, removes a key that is no longer used    *)
(* and refreshes the package index; each of the steps may fail.            *)
(***************************************************************************)
EXTENDS Lifecycle, SequencesExt, FiniteSetsExt

CONSTANTS Options,       \* the configurations, of a family
          UserLines,     \* the apk lines that users add
          Missing,       \* no file
          Unknown        \* a value that the plan leaves open

K1 == <<"public", "k1">>
K2 == <<"public", "k2">>
K3 == <<"public", "k3">>
Mixed == <<"public", "secret">>
Keys == {K1, K2, K3, Mixed}

VARIABLES family,        \* "apt", "rpm" or "apk"
          file,          \* the repository file of apt and dnf, or Missing
          keyFile,       \* the stored signing key, or Missing
          lines,         \* /etc/apk/repositories
          served,        \* the key behind signing_key_url
          fresh,         \* the index was refreshed since the repository changed
          want,          \* the planned signing_key_sha256
          sha, fetched,  \* the key that the apply stored, and that it fetched
          kept,          \* a key fetched earlier was left alone
          written,       \* the apply changed something on disk
          createdKey,    \* the apply created the key file
          tampered,      \* others removed the key file
          partial        \* a part of a change failed, or the key is what is left

disk == <<file, keyFile, lines>>
apply == <<want, sha, fetched, kept, written, createdKey>>
vars == <<lifecycle, family, disk, served, fresh, apply, tampered, partial>>

\* repoSpec and the schema: what a repository may be configured to be.  The
\* URI stands for everything that only ends up in the file.
Configurations(uris, tags, keys) ==
    [uri : uris, tag : tags \cup {Null}, key : keys \cup {Null}, url : BOOLEAN, refresh : BOOLEAN]

Families == {"apt", "rpm", "apk"}

\* The validators of single values refuse other schemes and credentials.
Refused == {"ftp://", "user:password@"}

\* ConfigValidators and repoSpec.validate.
Valid(f, c) ==
    /\ c.uri \notin Refused
    /\ ~(c.key # Null /\ c.url)
    /\ f = "apk" => c.key = Null /\ ~c.url
    /\ f # "apk" => c.tag = Null

\* A key is its OpenPGP packets.  normalizeSigningKey refuses what does not
\* start with a public key, and secret key material in any packet.
NormalizesFirst(k) == Head(k) = "public"
Normalizes(k) == Head(k) = "public" /\ \A i \in DOMAIN k : k[i] # "secret"

\* Inline keys are always stored, keys from a URL only for apt.
StoresKey(c) == c.key # Null \/ (c.url /\ family = "apt")

\* render: the file's contents, with what it refers to for the key.
Render(c) ==
    [uri |-> c.uri, tag |-> c.tag,
     key |-> IF StoresKey(c) THEN "file" ELSE IF c.url THEN "url" ELSE "none",
     extra |-> FALSE]

Stored(content, by) == [content |-> content, plain |-> TRUE, by |-> by]

-------------------------------------------------------------------------------
\* /etc/apk/repositories.

Marker == [uri |-> Null, tag |-> Null, by |-> "marker"]
Line(uri, tag, by) == [uri |-> uri, tag |-> tag, by |-> by]

\* apkOwner: the lines that name one of the URIs or carry one of the tags.
Owner(specs) ==
    [uris |-> {s.uri : s \in specs}, tags |-> {s.tag : s \in specs} \ {Null}]
OwnsAny(o, l) == l # Marker
Owns(o, l) == l # Marker /\ (l.uri \in o.uris \/ l.tag \in o.tags)

Markers(ls) == {i \in DOMAIN ls : ls[i] = Marker}
\* apkBlock: the first marker and the line after it, if that is owned.
BlockEnd(ls, o) ==
    LET i == Min(Markers(ls))
    IN  IF i < Len(ls) /\ Owns(o, ls[i + 1]) THEN i + 1 ELSE i
\* removeApkBlocks: what is left without any of the blocks.
WithoutBlocks(ls, o) ==
    LET left == {i \in DOMAIN ls : ls[i] # Marker /\ ~(i > 1 /\ ls[i - 1] = Marker /\ Owns(o, ls[i]))}
        order == SetToSortSeq(left, <)
    IN  [j \in DOMAIN order |-> ls[order[j]]]
\* setApkBlock: the first block is replaced, further ones are removed.
SetBlock(ls, block, o) ==
    IF Markers(ls) = {} THEN ls \o block
    ELSE SubSeq(ls, 1, Min(Markers(ls)) - 1) \o block
         \o WithoutBlocks(SubSeq(ls, BlockEnd(ls, o) + 1, Len(ls)), o)
\* parseApkRepo and the contents that refresh reports: Null for a block that
\* is incomplete or listed several times.
ReadBlock(ls, o) ==
    LET i == Min(Markers(ls))
    IN  IF Cardinality(Markers(ls)) = 1 /\ BlockEnd(ls, o) = i + 1
        THEN [uri |-> ls[i + 1].uri, tag |-> ls[i + 1].tag, key |-> "none", extra |-> FALSE]
        ELSE Null

-------------------------------------------------------------------------------
Attrs(s) == [uri |-> s.uri, tag |-> s.tag, key |-> s.key, url |-> s.url, refresh |-> s.refresh]

\* The state, with the two keys of the private state: the key fetched last
\* and whether a refresh of the index is still due.
StateOf(c, k, content, f, p) ==
    [uri |-> c.uri, tag |-> c.tag, key |-> c.key, url |-> c.url, refresh |-> c.refresh,
     keyPath |-> StoresKey(c), sha |-> k, content |-> content, fetched |-> f, pending |-> p]

KeyRead == IF keyFile # Missing /\ keyFile.plain THEN keyFile.content ELSE Null

\* refresh: what is read back, or Null when the repository is gone; a file
\* with another mode or owner reads as null.
Found(m) ==
    LET o == Owner({m})
    IN  IF (IF family = "apk" THEN Markers(lines) = {} ELSE file = Missing) THEN Null
        ELSE [m EXCEPT !.content = IF family = "apk" THEN ReadBlock(lines, o)
                                   ELSE IF file.plain THEN file.content ELSE Null,
                       !.sha = IF m.keyPath THEN KeyRead ELSE Null]

\* parseAptSources, parseYumRepo: the first stanza, or the repository's
\* section; what else the file holds is left out.
Parsed(content) ==
    [uri |-> content.uri, tag |-> Null, refresh |-> FALSE, url |-> content.key = "url",
     key |-> IF content.key = "file" THEN KeyRead ELSE Null, keyPath |-> content.key = "file",
     sha |-> Null, content |-> Null, fetched |-> Null, pending |-> FALSE]

\* ModifyPlan: the planned signing_key_sha256.
PlannedKey(c, prior) ==
    IF ~StoresKey(c) THEN Null
    ELSE IF c.key # Null THEN c.key
    ELSE IF prior # Null /\ prior.url /\ prior.keyPath /\ prior.sha # Null /\ prior.fetched = prior.sha
    THEN prior.sha ELSE Unknown

\* The plan shows a change.
DiffersByContent(s, c) ==
    \/ Attrs(s) # c \/ s.content # Render(c) \/ s.keyPath # StoresKey(c) \/ PlannedKey(c, s) # s.sha
Differs(s, c) ==
    \/ Attrs(s) # c \/ s.content # Render(c) \/ s.keyPath # StoresKey(c) \/ PlannedKey(c, s) # s.sha
    \/ c.refresh /\ s.pending

Init ==
    /\ LifecycleInit
    /\ family \in Families
    /\ file \in {Missing} \cup (IF family = "apk" THEN {} ELSE
          {Stored([uri |-> "u", tag |-> Null, key |-> k, extra |-> TRUE], "user") : k \in {"none", "file"}})
    /\ keyFile \in {Missing} \cup (IF family = "apk" THEN {} ELSE {Stored(K1, "user")})
    /\ file # Missing => (file.content.key = "file" => keyFile # Missing)
    /\ lines = IF family = "apk" THEN <<Line("u", Null, "user")>> ELSE <<>>
    /\ served = K1 /\ fresh = TRUE
    /\ want = Null /\ sha = Null /\ fetched = Null /\ kept = FALSE /\ written = FALSE
    /\ createdKey = FALSE /\ tampered = FALSE /\ partial = FALSE

Configure ==
    /\ Configured({c \in Options : Valid(family, c)})
    /\ UNCHANGED <<family, disk, served, fresh, apply, tampered, partial>>

Refresh ==
    /\ Idle /\ state # Null /\ Refreshed(Found(state))
    /\ partial' = (partial \/ (state'= Null /\ state.keyPath /\ keyFile # Missing))
    /\ UNCHANGED <<family, disk, served, fresh, apply, tampered>>

\* ImportState and the refresh after it: attributes, contents and key are
\* those of the files, which are the resource's from then on.
Import ==
    /\ Idle /\ state = Null /\ config # Null /\ family # "apk" /\ file # Missing
    /\ Refreshed(Found(Parsed(file.content)))
    /\ file' = [file EXCEPT !.by = "provider"]
    /\ keyFile' = IF keyFile # Missing /\ file.content.key = "file" THEN [keyFile EXCEPT !.by = "provider"] ELSE keyFile
    /\ UNCHANGED <<family, lines, served, fresh, apply, tampered, partial>>

Apply(o, prior) ==
    /\ Idle /\ config # Null
    /\ Begin(o, "key", config, prior # Null /\ prior # Found(prior))
    /\ want' = PlannedKey(config, prior)
    /\ sha' = Null /\ fetched' = Null /\ kept' = FALSE /\ written' = FALSE /\ createdKey' = FALSE
    /\ UNCHANGED <<family, disk, served, fresh, tampered, partial>>

BeginCreate == state = Null /\ Apply("create", Null)
BeginUpdate == state # Null /\ ~tainted /\ config # Null /\ Differs(state, config) /\ Apply("update", state)

OwnKey == op = "update" /\ state.keyPath
Key == IF plan.key # Null THEN plan.key ELSE served
Result(pending) ==
    StateOf(plan, sha, Render(plan), IF fetched # Null THEN fetched ELSE IF kept THEN state.fetched ELSE Null, pending)
Saved(pending) == IF written THEN Result(pending) ELSE Null

\* A key file of another repository or of the administrator is never taken
\* over; writeRepoFile leaves a file alone that is as it should be.
WriteKey ==
    IF keyFile # Missing /\ ~OwnKey
    THEN Failed(Null) /\ UNCHANGED <<keyFile, fresh, sha, written, createdKey>>
    ELSE /\ Goto("repository") /\ keyFile' = Stored(Key, "provider") /\ sha' = Key
         /\ written' = (~OwnKey \/ keyFile = Missing \/ ~keyFile.plain \/ keyFile.content # Key)
         /\ fresh' = (fresh /\ ~(OwnKey /\ written')) /\ createdKey' = ~OwnKey

\* The plan found the key that was fetched from the URL still in place.
KeepsKey == plan.url /\ OwnKey /\ want \notin {Unknown, Null} /\ KeyRead = want
KeepKey ==
    /\ pc = "key" /\ StoresKey(plan) /\ KeepsKey /\ Goto("repository")
    /\ kept' = TRUE /\ sha' = want
    /\ UNCHANGED <<family, disk, served, fresh, want, fetched, written, createdKey, tampered, partial>>
\* The key comes first, so that the repository never refers to a key that is
\* not there yet.
StoreKeyFirst ==
    /\ pc = "key" /\ StoresKey(plan) /\ ~KeepsKey /\ NormalizesFirst(Key) /\ WriteKey
    /\ fetched' = IF plan.url THEN served ELSE Null
    /\ UNCHANGED <<family, file, lines, served, want, kept, tampered, partial>>
StoreKey ==
    /\ pc = "key" /\ StoresKey(plan) /\ ~KeepsKey /\ Normalizes(Key) /\ WriteKey
    /\ fetched' = IF plan.url THEN served ELSE Null
    /\ UNCHANGED <<family, file, lines, served, want, kept, tampered, partial>>
RefuseKey ==
    /\ pc = "key" /\ StoresKey(plan) /\ ~KeepsKey /\ ~Normalizes(Key) /\ Failed(Null)
    /\ UNCHANGED <<family, disk, served, fresh, apply, tampered, partial>>
NoKey ==
    /\ pc = "key" /\ ~StoresKey(plan) /\ Goto("repository")
    /\ UNCHANGED <<family, disk, served, fresh, apply, tampered, partial>>

RepositoryExists == IF family = "apk" THEN Markers(lines) # {} ELSE file # Missing

\* Without the repository a key that this apply created is removed again, and
\* nothing is recorded: a create that failed because the file exists must not
\* taint a resource whose destroy would remove that file.
RollBackRecording ==
    /\ keyFile' = IF createdKey THEN Missing ELSE keyFile
    /\ Failed(Saved(FALSE))
RollBackNothing ==
    UNCHANGED keyFile /\ Failed(IF createdKey THEN Null ELSE Saved(FALSE))
RollBack ==
    /\ keyFile' = IF createdKey THEN Missing ELSE keyFile
    /\ Failed(IF createdKey THEN Null ELSE Saved(FALSE))
RefuseRepository ==
    /\ pc = "repository" /\ op = "create" /\ RepositoryExists /\ RollBack
    /\ UNCHANGED <<family, file, lines, served, fresh, apply, tampered, partial>>

WriteRepository ==
    /\ pc = "repository" /\ (op = "create" => ~RepositoryExists) /\ Goto("oldkey")
    /\ IF family = "apk"
         THEN /\ lines' = SetBlock(lines, <<Marker, Line(plan.uri, plan.tag, "provider")>>,
                                   Owner({plan} \cup (IF op = "update" THEN {state} ELSE {})))
              /\ written' = (lines' # lines) /\ file' = file
         ELSE /\ written' = (written \/ file = Missing \/ ~file.plain \/ file.content # Render(plan))
              /\ file' = Stored(Render(plan), "provider") /\ lines' = lines
    /\ fresh' = (fresh /\ ~written')
    /\ UNCHANGED <<family, keyFile, served, want, sha, fetched, kept, createdKey, tampered, partial>>

\* A key that is no longer configured is removed after the repository
\* stopped referring to it.
UnusedKey == OwnKey /\ ~StoresKey(plan)
RemoveOldKey ==
    /\ pc = "oldkey" /\ Goto("refresh")
    /\ IF UnusedKey THEN keyFile' = Missing /\ written' = TRUE /\ fresh' = FALSE
                    ELSE UNCHANGED <<keyFile, written, fresh>>
    /\ UNCHANGED <<family, file, lines, served, want, sha, fetched, kept, createdKey, tampered, partial>>

\* The index is refreshed if something changed, or if the last refresh failed.
RefreshDue == plan.refresh /\ (written \/ (op = "update" /\ state.pending))
RefreshIndex ==
    /\ pc = "refresh" /\ Succeeded(Result(FALSE))
    /\ fresh' = (fresh \/ RefreshDue)
    /\ tampered' = (tampered /\ raced)
    /\ UNCHANGED <<family, disk, served, apply, partial>>
RefreshFails ==
    /\ pc = "refresh" /\ RefreshDue /\ Faulted(Result(TRUE))
    /\ UNCHANGED <<family, disk, served, fresh, apply, tampered, partial>>

BeginDelete ==
    /\ Idle /\ state # Null /\ (config = Null \/ tainted)
    /\ Begin("delete", "drop", state, FALSE)
    /\ UNCHANGED <<family, disk, served, fresh, apply, tampered, partial>>
\* The repository first, then the key that it refers to.
DropKeyFirst ==
    /\ pc = "drop" /\ Goto("dropkey")
    /\ keyFile' = IF plan.keyPath THEN Missing ELSE keyFile
    /\ UNCHANGED <<family, file, lines, served, fresh, apply, tampered, partial>>
DropRepository ==
    /\ pc = "drop" /\ Goto("dropkey")
    /\ file' = Missing /\ lines' = IF family = "apk" THEN WithoutBlocks(lines, Owner({plan})) ELSE lines
    /\ fresh' = FALSE
    /\ UNCHANGED <<family, keyFile, served, apply, tampered, partial>>
DropKey ==
    /\ pc = "dropkey" /\ Succeeded(Null)
    /\ keyFile' = IF plan.keyPath THEN Missing ELSE keyFile
    /\ fresh' \in {fresh, fresh \/ plan.refresh}
    /\ UNCHANGED <<family, file, lines, served, apply, tampered, partial>>

\* A write or a removal fails, or fetching the key does.
Fault ==
    /\ pc \in {"key", "repository", "oldkey", "drop", "dropkey"}
    /\ pc = "oldkey" => UnusedKey
    /\ pc = "dropkey" => plan.keyPath
    /\ Faulted(IF op = "delete" \/ (pc = "repository" /\ createdKey) THEN Null ELSE Saved(FALSE))
    /\ keyFile' = IF pc = "repository" /\ createdKey THEN Missing ELSE keyFile
    /\ partial' = (partial \/ pc \in {"oldkey", "dropkey"} \/ (pc = "repository" /\ ~createdKey /\ written))
    /\ UNCHANGED <<family, file, lines, served, fresh, apply, tampered>>
RollBackFails ==
    /\ pc = "repository" /\ op = "create" /\ RepositoryExists /\ createdKey /\ Faulted(Null)
    /\ partial' = TRUE
    /\ UNCHANGED <<family, disk, served, fresh, apply, tampered>>
Kill == Killed /\ UNCHANGED <<family, disk, served, fresh, apply, tampered, partial>>

\* Users edit, chmod, remove and, without the resource, add files; the key
\* behind the URL changes; users edit the lines of apk.
OthersChangeFiles ==
    /\ family # "apk" /\ Intrusion
    /\ \/ /\ file # Missing
          /\ file' \in {Missing, [file EXCEPT !.content.uri = "u"], [file EXCEPT !.plain = FALSE]}
          /\ UNCHANGED <<keyFile, served, tampered>>
       \/ /\ keyFile # Missing
          /\ keyFile' \in {Missing, [keyFile EXCEPT !.content = K3], [keyFile EXCEPT !.plain = FALSE]}
          /\ tampered' = (tampered \/ keyFile' = Missing) /\ UNCHANGED <<file, served>>
       \/ served' \in {K2, Mixed} /\ UNCHANGED <<file, keyFile, tampered>>
    /\ UNCHANGED <<family, lines, fresh, apply, partial>>
OthersChangeLines ==
    /\ family = "apk" /\ Intrusion /\ Len(lines) < 5
    /\ \/ \E i \in DOMAIN lines : lines' = RemoveAt(lines, i)
       \/ \E i \in 1..Len(lines) + 1, l \in UserLines : lines' = InsertAt(lines, i, l)
       \/ Markers(lines) # {} /\ lines' = lines \o SubSeq(lines, Min(Markers(lines)), Len(lines))
    /\ UNCHANGED <<family, file, keyFile, served, fresh, apply, tampered, partial>>

Next ==
    \/ Configure \/ Refresh \/ Import \/ BeginCreate \/ BeginUpdate
    \/ KeepKey \/ StoreKey \/ RefuseKey \/ NoKey
    \/ RefuseRepository \/ WriteRepository \/ RemoveOldKey \/ RefreshIndex \/ RefreshFails
    \/ BeginDelete \/ DropRepository \/ DropKey \/ Fault \/ RollBackFails \/ Kill
    \/ OthersChangeFiles \/ OthersChangeLines

Spec == Init /\ [][Next]_vars
-------------------------------------------------------------------------------
TypeOK ==
    /\ config \in Options \cup {Null}
    /\ file # Missing => file.by \in {"user", "provider"} /\ file.content.key \in {"file", "url", "none"}
    /\ keyFile # Missing => keyFile.content \in Keys
    /\ state # Null => state.keyPath \in BOOLEAN /\ state.sha \in Keys \cup {Null}
    /\ pc \in {"idle", "key", "repository", "oldkey", "refresh", "drop", "dropkey"}

\* The repository never refers to a stored key that is not there, unless
\* others removed the key: the key is written first and removed last.
RefersToKey ==
    file # Missing /\ file.by = "provider" /\ file.content.key = "file" => keyFile # Missing \/ tampered

\* When the plan after a refresh is empty, the host is as configured: the
\* repository, the key, no key left behind, and an index that was refreshed
\* since, unless a step failed that came after a change.
EmptyPlanMeansDone ==
    Idle /\ state # Null /\ config # Null /\ ~tainted /\ ~lost /\ ~partial /\ state = Found(state) /\ ~Differs(state, config)
      => /\ family # "apk" => file.content = Render(config)
         /\ family = "apk" => ReadBlock(lines, Owner({config})) = Render(config)
         /\ config.key # Null => keyFile.content = config.key
         /\ ~StoresKey(config) => keyFile = Missing \/ keyFile.by = "user"
         /\ config.refresh /\ raced = FALSE => fresh

\* The plan after an apply that ended well is empty.
Settled == done /\ Idle /\ state # Null /\ config # Null => Found(state) # Null /\ ~Differs(Found(state), config)

\* A file that a user put there before the resource had one is not replaced
\* or removed, not even by the destroy of a create that failed.
UsersFilesKept ==
    foreign' = foreign =>
          /\ (file # Missing /\ file.by = "user" => file' = file \/ (state = Null /\ state' # Null /\ Idle))
          /\ (keyFile # Missing /\ keyFile.by = "user" => keyFile' = keyFile \/ (state = Null /\ state' # Null /\ Idle))

\* Nothing of the provider stays without a state, unless it was killed or a
\* key could not be removed.
Recorded ==
    Idle /\ state = Null /\ ~lost /\ ~partial /\ foreign = 0
      => /\ file = Missing \/ file.by = "user"
         /\ keyFile = Missing \/ keyFile.by = "user"
         /\ \A i \in DOMAIN lines : lines[i].by = "user"

\* Secret key material is never stored, wherever in the key it is.
NoSecretStored ==
    keyFile # Missing /\ keyFile.by = "provider" => \A i \in DOMAIN keyFile.content : keyFile.content[i] # "secret"

\* Lines of other repositories stay in /etc/apk/repositories, in their order,
\* unless they carry a tag of the resource.
OthersLines(ls) == SelectSeq(ls, LAMBDA l : l.by = "user" /\ l.tag = Null)
UsersLinesKept == foreign' = foreign => OthersLines(lines') = OthersLines(lines)

-------------------------------------------------------------------------------
(* What the proof of KeyStored (MCSoftware) rests on, for any configurations *)
(* and numbers of changes and faults.                                        *)

KeyFiles == [content : Keys, plain : BOOLEAN, by : {"user", "provider"}]
KeysAreNoNull ==
    /\ \A c \in Options : c.key \in Keys \cup {Null}
    /\ Missing \notin KeyFiles

\* A repository file, of which only the fields are known.
IsFile(f) ==
    f = [content |-> [uri |-> f.content.uri, tag |-> f.content.tag, key |-> f.content.key,
                      extra |-> f.content.extra],
         plain |-> f.plain, by |-> f.by]
KeyTypes ==
    /\ file # Missing => IsFile(file) /\ family # "apk"
    /\ keyFile \in KeyFiles \cup {Missing} /\ served \in Keys
    /\ config \in Options \cup {Null}
    /\ pc \in {"key", "repository", "oldkey", "refresh"} => plan \in Options

NoSecretIn(k) == \A i \in DOMAIN k : k[i] # "secret"
RefersTo == file # Missing /\ file.content.key = "file"
KeyInvariant ==
    /\ KeyTypes
    /\ RefersTo => keyFile # Missing \/ tampered
    /\ keyFile # Missing => NoSecretIn(keyFile.content)
    \* The key of the plan is there before the repository refers to it.
    /\ pc = "repository" /\ StoresKey(plan) => keyFile # Missing \/ (tampered /\ raced)
    /\ pc = "key" => createdKey = FALSE
    /\ pc = "repository" /\ createdKey => ~RefersTo \/ tampered
    /\ pc \in {"oldkey", "refresh"} /\ RefersTo => StoresKey(plan) /\ (keyFile # Missing \/ (tampered /\ raced))
    /\ pc = "dropkey" => file = Missing
===============================================================================
