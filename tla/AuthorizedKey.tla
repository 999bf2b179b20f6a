----------------------------- MODULE AuthorizedKey -----------------------------
(***************************************************************************)
(* sysutils_ssh_authorized_key: the line of a key in a user's              *)
(* authorized_keys.  A line is [data, options, comment], with data = Null  *)
(* if it holds no key; the attribute key is [data, comment].  How the      *)
(* directory is reached safely is left out: Refused stands for any file or *)
(* directory that it refuses, NoUser for a missing user or home.           *)
(***************************************************************************)
EXTENDS Kinds

\* The directory may be missing, but not the user; it is opened without
\* following a link.
KeysOf(f) == LinesOf(f)
Reachable(f) == f \notin {Refused, NoUser}
Written(lines) == WithLines(lines, "ours")

Valid(c) ==
    /\ c.key.data \notin {"certificate", "malformed"}
    /\ c.options # Null => "bad option" \notin ToSet(c.options)
    /\ c.comment # Null => c.comment # " padded"

Comment(c) == IF c.comment = Null THEN c.key.comment ELSE c.comment
OptionsOf(c) == IF c.options = Null THEN <<>> ELSE c.options
LineOf(c) == [data |-> c.key.data, options |-> OptionsOf(c), comment |-> Comment(c)]

StateOf(c, lines) == [key |-> c.key, options |-> c.options, comment |-> c.comment, lines |-> lines]
\* The planned line is compared with all the lines that hold the key.
Differs(c, s) == s # StateOf(c, <<LineOf(c)>>)
Replaces(c, s) == FALSE
Recorded(f, c) == StateOf(c, <<LineOf(c)>>)

Holding(lines, data) == Where(lines, LAMBDA l : l.data = data)

\* A key that is not there goes to where the old one was, or to the end.
\* A bug: only the first of several lines is looked at.
EnsureFirst(lines, c, hint) ==
    LET S == Holding(lines, c.key.data)
    IN  IF S # {} THEN [lines EXCEPT ![First(S)] = LineOf(c)]
        ELSE InsertAt(lines, IF hint = 0 THEN Len(lines) + 1 ELSE hint, LineOf(c))
Ensure(lines, c, hint) ==
    LET S == Holding(lines, c.key.data)
    IN  IF S # {} THEN Collapse(lines, S, LineOf(c))
        ELSE InsertAt(lines, IF hint = 0 THEN Len(lines) + 1 ELSE hint, LineOf(c))

Apply(f, c, prior) ==
    LET old == IF prior = Null \/ prior.key.data = c.key.data THEN {}
               ELSE Holding(KeysOf(f), prior.key.data)
        hint == IF old = {} THEN 0 ELSE First(old)
    IN  IF ~Reachable(f) THEN Error(f)
        ELSE Done(Written(Ensure(Without(KeysOf(f), old), c, hint)))

\* The comment and the options are read back only when they differ.
Found(f, s) ==
    LET S == Holding(KeysOf(f), s.key.data)
    IN  IF S = {} THEN Null
        ELSE LET l == f.lines[First(S)]
             IN  [s EXCEPT !.comment = IF l.comment = Comment(s) THEN @ ELSE l.comment,
                           !.options = IF l.options = OptionsOf(s) THEN @ ELSE l.options,
                           !.lines = SelectSeq(f.lines, LAMBDA m : m.data = l.data)]

\* An import names the fingerprint.
Imports == {"k1", "k2"}
Imported(f, data) ==
    LET S == Holding(KeysOf(f), data)
    IN  IF S = {} THEN Null
        ELSE LET l == f.lines[First(S)]
             IN  [key |-> [data |-> data, comment |-> l.comment], comment |-> Null,
                  options |-> IF l.options = <<>> THEN Null ELSE l.options,
                  lines |-> SelectSeq(f.lines, LAMBDA m : m.data = data)]

\* A bug: a second line with the key stays.
RemovalFirst(f, s) ==
    LET S == Holding(KeysOf(f), s.key.data)
    IN  IF f = Refused THEN Error(f)
        ELSE IF S = {} THEN Done(f) ELSE Done(Written(Without(f.lines, {First(S)})))
\* The key went with the user, the directory or the file.
Removal(f, s) ==
    IF f = Refused THEN Error(f)
    ELSE LET S == Holding(KeysOf(f), s.key.data)
         IN  IF S = {} THEN Done(f) ELSE Done(Written(Without(f.lines, S)))
-------------------------------------------------------------------------------
Rest(f, m) == SelectSeq(LinesOf(f), LAMBDA l : ~\E c \in m : l.data = c.key.data)

\* sshd accepts the key by any line that holds it, if the file is the user's.
InEffect(f, c) ==
    /\ f.mode = "ours"
    /\ SelectSeq(f.lines, LAMBDA l : l.data = c.key.data) = <<LineOf(c)>>
==============================================================================
