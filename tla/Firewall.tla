------------------------------ MODULE Firewall ------------------------------
(***************************************************************************)
(* sysutils_firewall_rule (firewall_rule_resource.go, firewall_backend.go, *)
(* firewall.go): tagged rules in the provider's nftables table, changed by *)
(* one script at a time, or in the built-in chains of iptables and         *)
(* ip6tables, changed by one command per rule.  Operations hold the        *)
(* firewall lock (EditLock), so there is one at most; others take no lock. *)
(* A rule is the resource it is tagged with, or Other, and a body: what it *)
(* matches and does, Null if the attributes cannot express it.             *)
(***************************************************************************)
EXTENDS Integers, FiniteSets, SequencesExt

CONSTANTS Resources,     \* each with a name of its own
          Configs,       \* what each resource may be configured to be
          Bodies, Other, Null,
          MaxForeign,    \* bound on changes by others
          MaxConfigs,    \* bound on changes of the configuration
          MaxFaults      \* bound on failed commands and killed providers

VARIABLES nft,           \* the provider's table, or Null
          ipt,           \* the chains of iptables and ip6tables
          tools,         \* the commands that work
          config, state, tainted,
          run,           \* the operation that holds the lock, or Null
          raced,         \* others changed the host during it
          lost,          \* a provider was killed and what it did is unrecorded
          done,          \* the last apply ended well and the rules are untouched since
          foreign, configs, faults

host == <<nft, ipt, tools>>
bounds == <<foreign, configs, faults>>
vars == <<host, config, state, tainted, run, raced, lost, done, bounds>>

Families == {"ipv4", "ipv6"}
Chains == {"input", "forward"}
Kinds == {"nftables", "iptables"}

Want == config[run.res]
FamiliesOf(c) == IF c.family = "inet" THEN Families ELSE {c.family}

\* backend and usable: the commands of the backend exist and work.
Available(kind) == IF kind = "nftables" THEN "nft" \in tools ELSE tools \cap Families # {}

\* What nft and iptables -S list; at is a handle or a position.
NftChain(c) ==
    [i \in DOMAIN nft.rules[c] |->
        LET r == nft.rules[c][i]
        IN  [name |-> r.name, chain |-> c, family |-> r.family, body |-> r.body, at |-> r.handle]]
IptChain(f, c) ==
    [i \in DOMAIN ipt[f][c] |->
        [name |-> ipt[f][c][i].name, chain |-> c, family |-> f, body |-> ipt[f][c][i].body, at |-> i]]
Table(f) == IptChain(f, "input") \o IptChain(f, "forward")

\* The elements of a list at the indices in I, in their order.
Below(I, i) == {k \in I : k <= i}
Rank(I, i) == Cardinality(Below(I, i))
At(s, I) == [j \in 1..Cardinality(I) |-> s[CHOOSE i \in I : Rank(I, i) = j]]

\* find: the rules tagged with a name.  nft lists its chains in the order in
\* which they were created.
Tagged(rules, n) == At(rules, {i \in DOMAIN rules : rules[i].name = n})
FoundIn(kind, n, first) ==
    LET listed(f) == IF f \in tools THEN Table(f) ELSE <<>>
    IN  IF kind = "iptables" THEN Tagged(listed("ipv4") \o listed("ipv6"), n)
        ELSE IF nft = Null THEN <<>>
        ELSE Tagged(NftChain(first) \o NftChain(CHOOSE c \in Chains : c # first), n)
Found(kind, n) == FoundIn(kind, n, "input")

\* merged: the one rule that the found ones implement, or Null.
Merged(kind, f) ==
    IF Len(f) = 1 /\ f[1].body # Null
      THEN [family |-> f[1].family, chain |-> f[1].chain, body |-> f[1].body]
    ELSE IF /\ Len(f) = 2 /\ kind = "iptables" /\ f[1].family # f[2].family
            /\ f[1].chain = f[2].chain /\ f[1].body = f[2].body /\ f[1].body # Null
      THEN [family |-> "inet", chain |-> f[1].chain, body |-> f[1].body]
    ELSE Null

StateOf(backend, kind, m) ==
    [backend |-> backend, active |-> kind, family |-> m.family, chain |-> m.chain, body |-> m.body]

\* Read: a rule that the attributes cannot express has its action cleared.
Refreshed(s, f) ==
    IF f = <<>> THEN Null
    ELSE IF Merged(s.active, f) = Null THEN [s EXCEPT !.body = Null]
    ELSE StateOf(s.backend, s.active, Merged(s.active, f))

Differs(s, c) == s.backend # c.backend \/ s.family # c.family \/ s.chain # c.chain \/ s.body # c.body

EmptyTable == [objects |-> FALSE, rules |-> [c \in Chains |-> <<>>]]

Init ==
    /\ nft = Null
    /\ ipt = [f \in Families |-> [c \in Chains |->
                 IF c = "input" THEN <<[name |-> Other, body |-> Null]>> ELSE <<>>]]
    /\ tools \in {Families, Families \cup {"nft"}}
    /\ config = [r \in Resources |-> Null]
    /\ state = [r \in Resources |-> Null]
    /\ tainted = [r \in Resources |-> FALSE]
    /\ run = Null /\ raced = FALSE /\ lost = FALSE
    /\ done = [r \in Resources |-> FALSE]
    /\ foreign = 0 /\ configs = 0 /\ faults = 0

Configure(r) ==
    /\ run = Null /\ configs < MaxConfigs
    /\ \E c \in Configs[r] \cup {Null} : c # config[r] /\ config' = [config EXCEPT ![r] = c]
    /\ done' = [done EXCEPT ![r] = FALSE]
    /\ configs' = configs + 1
    /\ UNCHANGED <<host, state, tainted, run, raced, lost, foreign, faults>>

Idle(r) == run # Null => run.res # r

\* Read takes no lock.
Refresh(r) ==
    /\ Idle(r) /\ state[r] # Null /\ Available(state[r].active)
    /\ state' = [state EXCEPT ![r] = Refreshed(@, Found(@.active, r))]
    /\ tainted' = [tainted EXCEPT ![r] = @ /\ state'[r] # Null]
    /\ UNCHANGED <<host, config, run, raced, lost, done, bounds>>

\* ImportState and the Read after it: the rule is in exactly one backend.
Import(r) ==
    /\ Idle(r) /\ state[r] = Null /\ config[r] # Null
    /\ \E backend \in Kinds \cup {"auto"} :
         LET looked == IF backend = "auto" THEN {k \in Kinds : Available(k)} ELSE {backend}
             hits == {k \in looked : Found(k, r) # <<>>}
         IN  /\ \A k \in looked : Available(k)
             /\ \E k \in hits : /\ hits = {k} /\ Merged(k, Found(k, r)) # Null
                                /\ state' = [state EXCEPT ![r] = StateOf(backend, k, Merged(k, Found(k, r)))]
    /\ UNCHANGED <<host, config, tainted, run, raced, lost, done, bounds>>

\* The families for which a rule is in force.
Covered(kind, n) ==
    IF kind = "iptables" THEN {f \in Families : \E i \in DOMAIN Table(f) : Table(f)[i].name = n}
    ELSE UNION {FamiliesOf(Found(kind, n)[i]) : i \in DOMAIN Found(kind, n)}

\* The order of the rules in each chain, by their names.
Names(rules) == [i \in DOMAIN rules |-> rules[i].name]
Order == [nftables |-> [c \in Chains |-> IF nft = Null THEN <<>> ELSE Names(nft.rules[c])],
          iptables |-> [f \in Families |-> [c \in Chains |-> Names(ipt[f][c])]]]

\* An operation that first removes the rules from the backend kind, and then,
\* or if kind is the target at once, applies them to the target.
Start(r, o, from, target) ==
    /\ run = Null
    /\ run' = [res |-> r, op |-> o, kind |-> from, target |-> target, step |-> "find",
               found |-> <<>>, alone |-> FALSE, todo |-> <<>>, stale |-> <<>>,
               place |-> [f \in Families |-> 0], changed |-> FALSE,
               from |-> from, covered |-> Covered(from, r), order |-> Order]
    /\ raced' = FALSE /\ done' = [done EXCEPT ![r] = FALSE]
    /\ UNCHANGED <<host, config, state, tainted, lost, bounds>>

Removing == run.kind # run.target

\* detect: nftables if nft works, else iptables.
BeginCreate(r) ==
    /\ state[r] = Null /\ config[r] # Null
    /\ LET kind == IF config[r].backend # "auto" THEN config[r].backend
                   ELSE IF Available("nftables") THEN "nftables" ELSE "iptables"
       IN  Available(kind) /\ Start(r, "create", kind, kind)

\* "auto" stays with the backend that holds the rule.
BeginUpdate(r) ==
    /\ state[r] # Null /\ ~tainted[r] /\ config[r] # Null /\ Differs(state[r], config[r])
    /\ LET target == IF config[r].backend = "auto" THEN state[r].active ELSE config[r].backend
       IN  /\ Available(target) /\ Available(state[r].active)
           /\ Start(r, "update", state[r].active, target)

BeginDelete(r) ==
    /\ state[r] # Null /\ (config[r] = Null \/ tainted[r])
    /\ Available(state[r].active) /\ Start(r, "delete", state[r].active, Null)

\* An error before anything was applied.
GiveUp == run' = Null /\ UNCHANGED <<config, state, tainted, raced, lost, done, foreign, configs>>

Record(r) ==
    /\ state' = [state EXCEPT ![r] = StateOf(config[r].backend, run.kind, config[r])]
    /\ tainted' = [tainted EXCEPT ![r] = run.op = "create"]

NothingFound == \E k \in {run.kind}, n \in {run.res} : (Found(k, n) = <<>>)'

\* An error while applying.  A create looks again, which may fail too, and
\* is recorded unless that shows that nothing was added.
Fail ==
    /\ run' = Null
    /\ \/ run.op = "create" /\ Record(run.res)
       \/ /\ \/ run.op # "create"
             \/ ~run.changed /\ Available(run.kind) /\ NothingFound
          /\ UNCHANGED <<state, tainted>>
    /\ UNCHANGED <<config, raced, lost, done, foreign, configs>>

Go(r) == run' = r /\ UNCHANGED <<config, state, tainted, raced, lost, done, bounds>>

\* A bug: stale rules are deleted first.
AdvanceDeletes(r) ==
    [r EXCEPT !.step = IF r.stale # <<>> THEN "delete" ELSE IF r.todo # <<>> THEN "check" ELSE "end"]

\* The next command: rules are added before stale ones are deleted.
Advance(r) == [r EXCEPT !.step = IF r.todo # <<>> THEN "check" ELSE IF r.stale # <<>> THEN "delete" ELSE "end"]

\* A bug: copies are left alone.
GoodCopies(f) ==
    {i \in DOMAIN f : f[i].chain = Want.chain /\ f[i].body = Want.body /\ f[i].family \in FamiliesOf(Want)}

\* The rules found that are as wanted, the first of each family.
Good(f) ==
    LET fits(i) == f[i].chain = Want.chain /\ f[i].body = Want.body /\ f[i].family \in FamiliesOf(Want)
    IN  {i \in DOMAIN f : fits(i) /\ \A j \in 1..(i - 1) : ~(fits(j) /\ f[j].family = f[i].family)}

Missing(f) == FamiliesOf(Want) \ {f[i].family : i \in Good(f)}

\* Where the first stale rule of the same chain is, whose place a new one takes.
Place(f) ==
    [family \in Families |->
        LET same == {f[i].at : i \in {j \in DOMAIN f \ Good(f) : f[j].family = family /\ f[j].chain = Want.chain}}
        IN  IF same = {} THEN 0 ELSE CHOOSE p \in same : \A q \in same : p <= q]

NoOtherRules ==
    nft # Null => \A c \in Chains : \A i \in DOMAIN nft.rules[c] : nft.rules[c][i].name = run.res

\* A bug: what else the table holds is not looked at.
PlanRemovalBlind(f) ==
    IF run.kind = "iptables" THEN Advance([run EXCEPT !.found = f, !.stale = f])
    ELSE [run EXCEPT !.found = f, !.step = IF f = <<>> THEN "end" ELSE "script", !.alone = NoOtherRules]

\* remove: the whole table, if nothing else is in it.
PlanRemoval(f) ==
    IF run.kind = "iptables" THEN Advance([run EXCEPT !.found = f, !.stale = f])
    ELSE [run EXCEPT !.found = f, !.step = IF f = <<>> THEN "end" ELSE "script",
                     !.alone = NoOtherRules /\ (nft # Null => ~nft.objects)]

\* apply: what is missing and what is stale.
PlanApply(f) ==
    IF run.kind = "iptables"
      THEN Advance([run EXCEPT !.found = f, !.place = Place(f),
                       !.todo = At(<<"ipv4", "ipv6">>, {i \in 1..2 : <<"ipv4", "ipv6">>[i] \in Missing(f)}),
                       !.stale = At(f, {i \in DOMAIN f : \A j \in Good(f) : f[j] # f[i]})])
      ELSE [run EXCEPT !.found = f,
               !.step = IF /\ Len(f) = 1
                           /\ f[1].chain = Want.chain /\ f[1].family = Want.family /\ f[1].body = Want.body
                          THEN "end" ELSE "script"]

\* The listing, and what is to be done.  Create refuses to take over a rule.
Find ==
    /\ run # Null /\ run.step = "find"
    /\ UNCHANGED host
    /\ \E first \in Chains :
         LET f == FoundIn(run.kind, run.res, first)
             start == Available(run.kind) /\ (run.op = "create" => f = <<>>)
         IN  \/ ~start /\ GiveUp /\ UNCHANGED faults
             \/ /\ start
                /\ IF Removing THEN Go(PlanRemoval(f))
                   ELSE IF run.kind = "nftables" \/ FamiliesOf(Want) \subseteq tools THEN Go(PlanApply(f))
                   ELSE Fail /\ UNCHANGED faults

\* A command that took effect: it says so, or times out.
Answered(r) ==
    \/ Go(r)
    \/ faults < MaxFaults /\ faults' = faults + 1 /\ Fail

Handles(t, c) == {t.rules[c][i].handle : i \in DOMAIN t.rules[c]}
FoundHandles(c) == {run.found[i].at : i \in {j \in DOMAIN run.found : run.found[j].chain = c}}

\* Handles are not used again while the table exists.
Fresh ==
    LET used == UNION {(IF run = Null THEN {} ELSE FoundHandles(c)) \cup
                       (IF nft = Null THEN {} ELSE Handles(nft, c)) : c \in Chains}
    IN  CHOOSE h \in 1..(Cardinality(used) + 1) : h \notin used

Without(rules, handles) == At(rules, {i \in DOMAIN rules : rules[i].handle \notin handles})

\* The first rule found is replaced in place if it is in the wanted chain;
\* the others are deleted.
Replaced(t) ==
    LET rule == [name |-> run.res, family |-> Want.family, body |-> Want.body, handle |-> Fresh]
        keeps == run.found # <<>> /\ run.found[1].chain = Want.chain
        old == IF keeps THEN run.found[1].at ELSE 0
        left(c) == Without(t.rules[c], FoundHandles(c) \ {old})
    IN  [t EXCEPT !.rules = [c \in Chains |->
            IF c # Want.chain THEN left(c)
            ELSE IF keeps THEN [i \in DOMAIN left(c) |-> IF left(c)[i].handle = old THEN rule ELSE left(c)[i]]
            ELSE Append(left(c), rule)]]

\* One nft script, a transaction: it fails if a rule or the table is gone.
Script ==
    /\ run # Null /\ run.step = "script"
    /\ UNCHANGED <<ipt, tools>>
    /\ LET t == IF nft = Null /\ ~Removing THEN EmptyTable ELSE nft
           valid == /\ t # Null
                    /\ \/ Removing /\ run.alone
                       \/ \A c \in Chains : FoundHandles(c) \subseteq Handles(t, c)
       IN  \/ /\ valid
              /\ nft' = IF ~Removing THEN Replaced(t)
                        ELSE IF run.alone THEN Null
                        ELSE [t EXCEPT !.rules = [c \in Chains |-> Without(@[c], FoundHandles(c))]]
              /\ Answered([run EXCEPT !.step = "end", !.changed = TRUE])
           \/ ~valid /\ UNCHANGED <<nft, faults>> /\ Fail

Rule == [name |-> run.res, body |-> Want.body]
Chain == ipt[Head(run.todo)][Want.chain]

\* iptables -C: nothing to add if the rule is there by now.
Check ==
    /\ run # Null /\ run.step = "check"
    /\ Go(IF \E i \in DOMAIN Chain : Chain[i] = Rule
            THEN Advance([run EXCEPT !.todo = Tail(@)]) ELSE [run EXCEPT !.step = "add"])
    /\ UNCHANGED host

\* A bug: the new rule is always appended.
AddAppends ==
    /\ run # Null /\ run.step = "add"
    /\ UNCHANGED <<nft, tools>>
    /\ ipt' = [ipt EXCEPT ![Head(run.todo)][Want.chain] = Append(@, Rule)]
    /\ Answered(Advance([run EXCEPT !.todo = Tail(@), !.changed = TRUE]))

\* iptables -I at the place of the rule it replaces, else -A.
Add ==
    /\ run # Null /\ run.step = "add"
    /\ UNCHANGED <<nft, tools>>
    /\ LET f == Head(run.todo)
           place == run.place[f]
       IN  \/ /\ f \in tools /\ place <= Len(Chain) + 1
              /\ ipt' = [ipt EXCEPT ![f][Want.chain] =
                            IF place = 0 THEN Append(@, Rule) ELSE InsertAt(@, place, Rule)]
              /\ Answered(Advance([run EXCEPT !.todo = Tail(@), !.changed = TRUE]))
           \/ /\ f \notin tools \/ place > Len(Chain) + 1
              /\ UNCHANGED <<ipt, faults>> /\ Fail

\* iptables -D by specification: the first such rule, wherever it is.
Delete ==
    /\ run # Null /\ run.step = "delete"
    /\ UNCHANGED <<nft, tools>>
    /\ LET e == Head(run.stale)
           rules == ipt[e.family][e.chain]
           same == {i \in DOMAIN rules : rules[i] = [name |-> e.name, body |-> e.body]}
       IN  \/ /\ e.family \in tools
              /\ \E i \in same : /\ \A j \in same : i <= j
                                 /\ ipt' = [ipt EXCEPT ![e.family][e.chain] = RemoveAt(@, i)]
              /\ Answered(Advance([run EXCEPT !.stale = Tail(@), !.changed = TRUE]))
           \/ /\ e.family \notin tools \/ same = {}
              /\ UNCHANGED <<ipt, faults>> /\ Fail

\* The rules are as they should be in this backend: on to the next, or saved.
End ==
    /\ run # Null /\ run.step = "end"
    /\ IF run.op = "update" /\ Removing
         THEN Go([run EXCEPT !.kind = run.target, !.step = "find", !.changed = FALSE]) /\ UNCHANGED <<done>>
         ELSE /\ run' = Null
              /\ state' = [state EXCEPT ![run.res] =
                              IF run.op = "delete" THEN Null ELSE StateOf(Want.backend, run.kind, Want)]
              /\ tainted' = [tainted EXCEPT ![run.res] = FALSE]
              /\ done' = [done EXCEPT ![run.res] = run.op # "delete" /\ ~raced]
              /\ UNCHANGED <<config, raced, lost, bounds>>
    /\ UNCHANGED host

\* A command fails and changes nothing.
CommandFails ==
    /\ run # Null /\ faults < MaxFaults /\ faults' = faults + 1
    /\ UNCHANGED host
    /\ \/ run.step = "find" /\ GiveUp
       \/ run.step \in {"script", "check", "add", "delete"} /\ Fail

\* The provider is killed: no state is saved, and the lock is free.
Kill ==
    /\ run # Null /\ faults < MaxFaults /\ faults' = faults + 1
    /\ run' = Null /\ lost' = TRUE
    /\ UNCHANGED <<host, config, state, tainted, raced, done, foreign, configs>>
-----------------------------------------------------------------------------
\* Users and other tools.
OthersChangeNft ==
    /\ UNCHANGED <<ipt, tools>> /\ nft # Null
    /\ \/ nft' = Null
       \/ ~nft.objects /\ nft' = [nft EXCEPT !.objects = TRUE]
       \/ \E c \in Chains :
            \/ \E i \in DOMAIN nft.rules[c], b \in Bodies \cup {Null} :
                 /\ nft.rules[c][i].name # Other /\ b # nft.rules[c][i].body
                 /\ nft' = [nft EXCEPT !.rules[c][i].body = b]
            \/ \E i \in DOMAIN nft.rules[c] : nft' = [nft EXCEPT !.rules[c] = RemoveAt(@, i)]
            \/ \E i \in DOMAIN nft.rules[c], d \in Chains : nft' = [nft EXCEPT !.rules[d] =
                  Append(@, [nft.rules[c][i] EXCEPT !.handle = Fresh])]
            \/ nft' = [nft EXCEPT !.rules[c] =
                  Append(@, [name |-> Other, family |-> "inet", body |-> Null, handle |-> Fresh])]

OthersChangeIpt ==
    /\ UNCHANGED <<nft, tools>>
    /\ \E f \in Families, c \in Chains :
         \/ ipt' = [ipt EXCEPT ![f][c] = <<[name |-> Other, body |-> Null]>> \o @]
         \/ \E i \in DOMAIN ipt[f][c] :
              \/ \E b \in Bodies \cup {Null} :
                   /\ ipt[f][c][i].name # Other /\ b # ipt[f][c][i].body
                   /\ ipt' = [ipt EXCEPT ![f][c][i].body = b]
              \/ ipt' = [ipt EXCEPT ![f][c] = RemoveAt(@, i)]
              \/ ipt' = [ipt EXCEPT ![f][c] = Append(@, ipt[f][c][i])]

OthersChangeTools ==
    /\ \E t \in Families \cup {"nft"} : tools' = (tools \ {t}) \cup ({t} \ tools)
    /\ UNCHANGED <<nft, ipt>>

\* The rules with a name in each backend, with their families and chains.
Rules(n) ==
    LET shown(f) == [i \in DOMAIN f |-> [family |-> f[i].family, chain |-> f[i].chain, body |-> f[i].body]]
    IN  [nftables |-> shown(Found("nftables", n)),
         iptables |-> shown(Tagged(Table("ipv4") \o Table("ipv6"), n))]

Foreign ==
    /\ foreign < MaxForeign /\ foreign' = foreign + 1
    /\ OthersChangeNft \/ OthersChangeIpt \/ OthersChangeTools
    /\ raced' = (run # Null)
    /\ done' = [r \in Resources |-> done[r] /\ tools' = tools /\ Rules(r)' = Rules(r)]
    /\ UNCHANGED <<config, state, tainted, run, lost, configs, faults>>

Steps == Find \/ Script \/ Check \/ Add \/ Delete \/ End \/ CommandFails \/ Kill

Next ==
    \/ \E r \in Resources : \/ Configure(r) \/ Refresh(r) \/ Import(r)
                            \/ BeginCreate(r) \/ BeginUpdate(r) \/ BeginDelete(r)
    \/ Steps
    \/ Foreign

Spec == Init /\ [][Next]_vars
-----------------------------------------------------------------------------
Attributes == [backend : Kinds \cup {"auto"}, active : Kinds, family : Families \cup {"inet"},
               chain : Chains, body : Bodies \cup {Null}]

\* What the configurations may be, as the schema and its validators have it,
\* and the rules of the table.  Null and Other stand for what is not there and
\* for what no resource is named.
Wanted == [backend : Kinds \cup {"auto"}, family : Families \cup {"inet"}, chain : Chains, body : Bodies]
RuleNames == Resources \cup {Other}
NftRules == [name : RuleNames, family : Families \cup {"inet"}, body : Bodies \cup {Null},
             handle : Nat \ {0}]
Tables == [objects : BOOLEAN, rules : [Chains -> Seq(NftRules)]]

ASSUME ConfigsTyped ==
    /\ \A r \in Resources : Configs[r] \subseteq Wanted
    /\ Other \notin Resources
    /\ Null \notin Bodies \cup Kinds \cup Wanted \cup Attributes \cup Tables

\* Types; in particular only a rule that the attributes can express is
\* configured or applied, and what is tainted is in the state.
TypeOK ==
    /\ nft # Null => \A c \in Chains : \A i \in DOMAIN nft.rules[c] :
          /\ nft.rules[c][i].name \in Resources \cup {Other}
          /\ nft.rules[c][i].body \in Bodies \cup {Null} /\ nft.rules[c][i].handle \in Nat \ {0}
          /\ \A j \in DOMAIN nft.rules[c] : nft.rules[c][i].handle = nft.rules[c][j].handle => i = j
    /\ \A f \in Families, c \in Chains : \A i \in DOMAIN ipt[f][c] :
          ipt[f][c][i] \in [name : Resources \cup {Other}, body : Bodies \cup {Null}]
    /\ tools \subseteq Families \cup {"nft"}
    /\ \A r \in Resources : /\ state[r] # Null => state[r] \in Attributes
                            /\ tainted[r] => state[r] # Null
    /\ run # Null => /\ run.op # "delete" => Want # Null
                     /\ run.op = "create" => run.kind = run.target
                     /\ run.step = "delete" => run.stale # <<>>
                     /\ run.step \in {"check", "add"} => run.todo # <<>> /\ ~Removing

\* After an apply that ended well the backend has exactly one copy of the rule
\* in each family, as configured, whatever is done to other rules, and the
\* next plan is empty.
Settled ==
    \A r \in Resources : done[r] =>
        LET c == config[r]
            s == state[r]
            wanted == {[family |-> f, chain |-> c.chain, body |-> c.body] :
                          f \in IF s.active = "nftables" THEN {c.family} ELSE FamiliesOf(c)}
            rules == Rules(r)[s.active]
        IN  /\ s # Null
            /\ Range(rules) = wanted /\ Len(rules) = Cardinality(wanted)
            /\ FamiliesOf(c) \cup {"nft"} \subseteq tools => ~Differs(Refreshed(s, Found(s.active, r)), c)

\* A create that failed after it added a rule is in the state, so that destroy removes the rule.
CreateRecorded ==
    [][ (run # Null /\ run.op = "create" /\ run.step # "find" /\ run' = Null /\ ~lost') =>
          state'[run.res] # Null \/ NothingFound ]_vars

OthersIn(rules) == At(rules, {i \in DOMAIN rules : rules[i].name # run.res})

\* No operation removes, adds or reorders the rules of other resources and
\* tools or deletes what else is in the table; what was added after the
\* listing may go with the table.
KeepsOthers ==
    (run # Null /\ foreign' = foreign) =>
        /\ \A f \in Families, c \in Chains : OthersIn(ipt'[f][c]) = OthersIn(ipt[f][c])
        /\ (nft # Null /\ ~raced) =>
             \/ nft' = Null /\ ~nft.objects /\ \A c \in Chains : OthersIn(nft.rules[c]) = <<>>
             \/ nft' # Null /\ nft'.objects = nft.objects
                /\ \A c \in Chains : OthersIn(nft'.rules[c]) = OthersIn(nft.rules[c])
OthersKept == [][KeepsOthers]_vars

\* The order of the rules, adjacent ones of the resource taken as one.
Places(names) ==
    LET first(i) == names[i] # run.res \/ i = 1 \/ names[i - 1] # run.res
    IN  At(names, {i \in DOMAIN names : first(i)})
Count(names) == Cardinality({i \in DOMAIN names : names[i] = run.res})
SamePlace(before, after) ==
    Count(Places(before)) = 1 /\ Count(after) = 1 => Places(before) = after

\* "An update keeps a rule's position unless it moves to another chain or
\* backend", also the update after an interrupted one, which finds both the
\* old and the new rule.  Copies that others made elsewhere may be kept instead.
PlaceKept ==
    [][ (run # Null /\ run.op = "update" /\ run.step = "end" /\ ~raced /\ run' = Null) =>
          /\ \A c \in Chains : (\A d \in Chains \ {c} : Count(run.order.nftables[d]) = 0) =>
                SamePlace(run.order.nftables[c], Order.nftables[c])
          /\ \A f \in Families, c \in Chains :
                SamePlace(run.order.iptables[f][c], Order.iptables[f][c]) ]_vars

\* An update within a backend never leaves a family without the rule, also
\* when it fails half way.
NoGap ==
    (run # Null /\ run.op = "update" /\ run.from = run.target /\ ~raced) =>
        run.covered \cap FamiliesOf(Want) \subseteq Covered(run.kind, run.res)

\* "an unrecorded one would block every later create": unless a provider was
\* killed or others interfered, a rule that is on the host is in some state.
NeverBlocked ==
    (run = Null /\ ~lost /\ foreign = 0) =>
        \A r \in Resources : state[r] = Null => \A k \in Kinds : Found(k, r) = <<>>

\* A destroy that ends well leaves no rule, and no table that only the
\* provider used.
Gone ==
    [][ (run # Null /\ run.op = "delete" /\ run.step = "end" /\ run' = Null /\ ~raced) =>
          /\ NothingFound
          /\ (run.kind = "nftables" /\ run.found # <<>> /\ nft # Null) =>
                nft.objects \/ \E c \in Chains : nft.rules[c] # <<>> ]_vars
=============================================================================
