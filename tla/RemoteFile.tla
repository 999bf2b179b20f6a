------------------------------- MODULE RemoteFile -------------------------------
(***************************************************************************)
(* sysutils_remote_file: a file that is downloaded beside its place,       *)
(* verified, and renamed over what is there.  host is [file, parent,       *)
(* served, temp, seen, litter]: Null or [is, content, mode, owner, label]; *)
(* whether the directory is there; what the server sends for each URL,     *)
(* Null for an error and "endless" for more than is accepted; the          *)
(* temporary file and what was at the path when it was about to be         *)
(* renamed; and how many temporary files there are.  A content is its own  *)
(* digest.  The label stands for the extended attributes.  A configuration *)
(* is [url, checksum, unverified, force, mode, owner], where a checksum is *)
(* <<algorithm, digest, spelling>>; a plan and a state have sha256, too.   *)
(* applied is the digest of the last download (downloaded_sha256).         *)
(* Redirects, headers and time limits are part of what a server sends.     *)
(***************************************************************************)
EXTENDS Kinds, TLC

CONSTANTS Unknown        \* a digest that is not known at plan time

Attributes == {"url", "checksum", "unverified", "force", "mode", "owner"}
Regular(h) == h.file # Null /\ h.file.is = "file"
SameChecksum(c, d) == c # Null /\ d # Null /\ c[1] = d[1] /\ c[2] = d[2]

Valid(h, c) == c.checksum # Null \/ c.unverified

\* A refresh looks at the local file only.  One that does not have the
\* checksum shows the one that it has.
Read(h, m) ==
    [url |-> m.url, unverified |-> m.unverified, force |-> m.force, sha256 |-> h.file.content,
     checksum |-> IF m.checksum = Null \/ m.checksum[2] = h.file.content THEN m.checksum
                  ELSE <<m.checksum[1], h.file.content, "lower">>,
     mode |-> Reconciled(m.mode, h.file.mode), owner |-> Reconciled(m.owner, h.file.owner)]
\* A refresh that finds something else than a file fails.
Found(h, s, applied) == IF h.file = Null THEN Null ELSE IF Regular(h) THEN Read(h, s) ELSE s
Recorded(h, c) == IF Regular(h) THEN Read(h, c) ELSE c

DownloadPlanned(c, s, downloaded) ==
    \/ s = Null \/ c.force
    \/ IF c.checksum # Null THEN ~SameChecksum(c.checksum, s.checksum)
       ELSE c.url # s.url \/ downloaded \notin {Null, s.sha256}
Planned(c, s, downloaded) ==
    [k \in Attributes |-> IF k = "owner" /\ c.owner = Null /\ s # Null THEN s.owner ELSE c[k]]
    @@ [sha256 |->
          CASE ~DownloadPlanned(c, s, downloaded) -> s.sha256
            [] DownloadPlanned(c, s, downloaded) /\ c.checksum # Null /\ c.checksum[1] = "sha256" /\ ~c.force -> c.checksum[2]
            [] OTHER -> Unknown]
Differs(h, c, s, downloaded) == Planned(c, s, downloaded) # s
Replaces(c, s) == FALSE

\* A bug: a file that no longer is what was downloaded is good enough.
NeedsDownloadOnce(x, local) ==
    \/ local = Null \/ x.plan.force
    \/ IF x.plan.checksum # Null THEN local # x.plan.checksum[2]
       ELSE x.state = Null \/ x.plan.url # x.state.url
NeedsDownload(x, local) ==
    \/ local = Null \/ x.plan.force
    \/ IF x.plan.checksum # Null THEN local # x.plan.checksum[2]
       ELSE x.state = Null \/ x.plan.url # x.state.url \/ x.applied \notin {Null, local}

Steps(h, x) == <<"look", "read back">>
Undoing(h, x) == <<"unlink">>
Download == <<"parent", "temporary", "fetch", "prepare", "rename">>

\* What is to be stored as the last download, once it ends well.
Noted(outcome, digest) ==
    [host |-> outcome.host, next |-> outcome.next, failed |-> outcome.failed, changed |-> outcome.changed, note |-> digest]
Look(h, x, next) ==
    LET local == IF Regular(h) THEN h.file.content ELSE Null
    IN  CASE h.file # Null /\ ~Regular(h) -> Stop(h)
          [] (h.file = Null \/ Regular(h)) /\ NeedsDownload(x, local) -> Go(h, Download \o next)
          [] OTHER -> Noted(Go(h, <<"attributes">> \o next), IF x.applied = Null THEN local ELSE x.applied)

\* An update leaves the owner that the state has.
SetsOwner(x) == x.plan.owner # Null /\ (x.state # Null => x.plan.owner # x.state.owner)
NoSuchOwner(x) == SetsOwner(x) /\ x.plan.owner[1] = "missing"

Discarded(h) == [h EXCEPT !.temp = Null, !.seen = Null, !.litter = @ - 1]
\* A bug: what was downloaded is verified by the next refresh.
FetchUnverified(h, x, next) ==
    LET sent == h.served[x.plan.url]
    IN  IF sent \in {Null, "endless"} THEN Stop(Discarded(h))
        ELSE Noted(Go([h EXCEPT !.temp.content = sent], next), sent)
Fetch(h, x, next) ==
    LET sent == h.served[x.plan.url]
    IN  IF sent \in {Null, "endless"} \/ (x.plan.checksum # Null /\ sent # x.plan.checksum[2]) THEN Stop(Discarded(h))
        ELSE Noted(Go([h EXCEPT !.temp.content = sent], next), sent)

\* The temporary file gets all that the one in its place is to have.
Prepared(h, x) ==
    [h.temp EXCEPT !.mode = x.plan.mode[1], !.label = IF h.file = Null THEN Null ELSE h.file.label,
                   !.owner = IF SetsOwner(x) THEN x.plan.owner[1] ELSE IF h.file = Null THEN @ ELSE h.file.owner]
Prepare(h, x, next) ==
    IF NoSuchOwner(x) \/ (h.file # Null /\ ~Regular(h)) THEN Stop(Discarded(h))
    ELSE Go([h EXCEPT !.temp = Prepared(h, x), !.seen = h.file], next)
\* (That others change the path between the last look and the rename is in
\* ManagedFile.)
Rename(h, next) == IF h.file # h.seen THEN Stop(Discarded(h)) ELSE Go([Discarded(h) EXCEPT !.file = h.temp], next)

Adjusted(h, x) ==
    [h EXCEPT !.file.mode = x.plan.mode[1], !.file.owner = IF SetsOwner(x) THEN x.plan.owner[1] ELSE @]
Outcomes(step, h, x, r) ==
    CASE step = "look" -> {Look(h, x, r)}
      [] step = "parent" -> {Go([h EXCEPT !.parent = TRUE], r)}
      [] step = "temporary" ->
            {Go([h EXCEPT !.temp = [is |-> "file", content |-> "", mode |-> "0600", owner |-> "us", label |-> Null],
                          !.seen = Null, !.litter = @ + 1], r)}
      [] step = "fetch" -> {Fetch(h, x, r)}
      [] step = "prepare" -> {Prepare(h, x, r)}
      [] step = "rename" -> {Rename(h, r)}
      [] step = "attributes" -> {IF ~Regular(h) \/ NoSuchOwner(x) THEN Stop(h) ELSE Go(Adjusted(h, x), r)}
      [] step = "read back" -> {IF Regular(h) THEN Go(h, r) ELSE Stop(h)}
      [] step = "unlink" ->
            {IF h.file # Null /\ h.file.is = "directory" THEN Stop(h) ELSE Go([h EXCEPT !.file = Null], r)}
\* The owner may be set when the mode cannot be.
OnFault(step, h, x, r) ==
    CASE step \in {"fetch", "prepare", "rename"} -> Stop(Discarded(h))
      [] step = "attributes" /\ Regular(h) /\ ~NoSuchOwner(x) -> Undo([Adjusted(h, x) EXCEPT !.file.mode = h.file.mode], <<>>)
      [] OTHER -> Stop(h)

Imports == {"path"}
Imported(h, id) ==
    IF ~Regular(h) THEN Null
    ELSE Read(h, [url |-> Null, checksum |-> Null, unverified |-> FALSE, force |-> FALSE, mode |-> Null, owner |-> Null])
-------------------------------------------------------------------------------
\* Without a checksum the file is what was downloaded, or adopted, last.  Only
\* a provider that was killed leaves a temporary file.
InEffect(h, c, downloaded, killed) ==
    /\ Regular(h) /\ h.file.mode = c.mode[1]
    /\ c.owner # Null => h.file.owner = c.owner[1]
    /\ h.file.content = IF c.checksum # Null THEN c.checksum[2] ELSE downloaded
    /\ killed \/ h.litter = 0

\* What gets to the path is verified and has its mode and owner.
Covered(h, new, x) ==
    (Regular(new) /\ (Regular(h) => h.file.content # new.file.content)) =>
        /\ new.file.content # "" /\ new.file.mode = x.plan.mode[1]
        /\ x.plan.checksum # Null => new.file.content = x.plan.checksum[2]
        /\ SetsOwner(x) => new.file.owner = x.plan.owner[1]

\* What is no file, and what a file that is replaced has besides its content
\* and mode; a destroy removes a symbolic link.
Rest(h, op, x, old) ==
    CASE op = "delete" -> IF h.file # Null /\ h.file.is = "directory" THEN h.file ELSE Null
      [] op # "delete" /\ h.file # Null /\ ~Regular(h) -> h.file
      [] op # "delete" /\ Regular(h) /\ Regular(old) -> <<h.file.label, IF SetsOwner(x) THEN Null ELSE h.file.owner>>
      [] OTHER -> Null
Undone(h) == h.file = Null
\* What a failure is to leave.
Boot(h) == <<h.file, h.litter>>
==============================================================================
