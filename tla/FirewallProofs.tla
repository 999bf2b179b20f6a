---------------------------- MODULE FirewallProofs ----------------------------
(***************************************************************************)
(* Proofs about Firewall, for any resources, configurations, bodies and    *)
(* numbers of changes and faults: an update leaves no family without its   *)
(* rule (NoGap), and no operation changes the rules of others              *)
(* (OthersKept).  The sections before the theorems state the invariant,     *)
(* what sequences keep, what listings show, and what each step does.       *)
(***************************************************************************)
EXTENDS Firewall, FiniteSetTheorems, TLAPS

Distinct(s) == \A i, k \in DOMAIN s : s[i] = s[k] => i = k
In(e, s) == \E i \in DOMAIN s : s[i] = e
Same(s, r) == {i \in DOMAIN s : s[i] = r}

-----------------------------------------------------------------------------
(* The invariant that NoGap and OthersKept rest on.                        *)

IptRules == [name : RuleNames, body : Bodies \cup {Null}]
Entries ==
    [name : RuleNames, chain : Chains, family : Families \cup {"inet"}, body : Bodies \cup {Null}, at : Nat]

HostTypes ==
    /\ nft # Null => nft \in [objects : BOOLEAN, rules : [Chains -> Seq(NftRules)]]
    /\ ipt \in [Families -> [Chains -> Seq(IptRules)]]
    \* A handle belongs to one rule of a chain.
    /\ nft # Null => \A c \in Chains : \A i, j \in DOMAIN nft.rules[c] :
          nft.rules[c][i].handle = nft.rules[c][j].handle => i = j

FieldNames == {"res", "op", "kind", "target", "step", "found", "alone", "todo", "stale", "place",
               "changed", "from", "covered", "order"}
HasFields(r) == r = [f \in FieldNames |-> r[f]]
RunTypes(r) ==
    /\ HasFields(r)
    /\ r.res \in Resources /\ r.op \in {"create", "update", "delete"}
    /\ r.kind \in Kinds /\ r.target \in Kinds \cup {Null}
    /\ (r.op = "delete") <=> (r.target = Null)
    /\ r.op # "delete" => config[r.res] # Null
    /\ r.op = "create" => r.kind = r.target
    /\ r.found \in Seq(Entries) /\ r.todo \in Seq(Families) /\ r.stale \in Seq(Entries)
    /\ r.place \in [Families -> Nat]
    /\ \A i \in DOMAIN r.found : r.found[i].name = r.res
    /\ \A i \in DOMAIN r.stale : r.stale[i].name = r.res /\ r.stale[i].family \in Families
    /\ (r.kind # r.target /\ r.kind = "iptables") => r.todo = <<>>
    /\ r.kind # r.target => r.kind = r.from
    /\ r.alone => (r.from = "nftables" /\ r.target # "nftables")
    /\ Distinct(r.todo) /\ Distinct(r.stale)

\* The steps of an operation, and what each has left to do.
RunStep(r) ==
    /\ r.step \in {"find", "script", "check", "add", "delete", "end"}
    /\ r.step = "script" => r.kind # "iptables"
    /\ r.step \in {"check", "add"} => (r.kind = "iptables" /\ r.kind = r.target /\ r.todo # <<>>)
    /\ r.step = "delete" => (r.kind = "iptables" /\ r.todo = <<>> /\ r.stale # <<>>)
    /\ (r.step = "end" /\ r.kind = "iptables") => (r.todo = <<>> /\ r.stale = <<>>)
IsRun(r) == RunTypes(r) /\ RunStep(r)
Types ==
    /\ HostTypes
    /\ config \in [Resources -> Wanted \cup {Null}]
    /\ tools \subseteq Families \cup {"nft"}
    /\ state \in [Resources -> Attributes \cup {Null}]
    \* What is tainted is in the state.
    /\ tainted \in [Resources -> BOOLEAN] /\ \A r \in Resources : tainted[r] => state[r] # Null
    /\ run # Null => IsRun(run)
    /\ foreign \in Nat

\* The copies of the wanted rule that the host has, and those that the
\* operation is still going to delete.
Copies(f) == Same(ipt[f][Want.chain], Rule)
StaleCopies(stale, f) ==
    {e \in Range(stale) : e.family = f /\ e.chain = Want.chain /\ e.body = Want.body}

\* No rule is deleted before the missing ones are there, and then one copy of
\* each family more than are going to be deleted.
Backed ==
    run # Null /\ run.op = "update" /\ run.from = run.target /\ ~raced =>
        /\ run.kind = run.target
        /\ run.kind = "iptables" /\ run.step # "find" =>
             \A f \in FamiliesOf(Want) :
                  IF In(f, run.todo) THEN StaleCopies(run.stale, f) = {}
                  ELSE Cardinality(Copies(f)) > Cardinality(StaleCopies(run.stale, f))
        /\ run.kind # "iptables" \/ run.step = "find" \/ run.todo # <<>> =>
             run.covered \cap FamiliesOf(Want) \subseteq Covered(run.kind, run.res)

\* What a script deletes by its handle is a rule of the resource, and with
\* the table goes nothing that belongs to others.
Looked ==
    run # Null /\ run.step = "script" /\ ~raced /\ nft # Null =>
        /\ \A c \in Chains : \A i \in DOMAIN nft.rules[c] :
              nft.rules[c][i].handle \in FoundHandles(c) => nft.rules[c][i].name = run.res
        /\ run.alone => ~nft.objects /\ NoOtherRules

FirewallInvariant == Types /\ Backed /\ Looked
-----------------------------------------------------------------------------
(* The elements of a sequence at some of its indices, in their order.      *)
LEMMA RankOrder ==
    ASSUME NEW n \in Nat, NEW I \in SUBSET (1..n)
    PROVE  /\ IsFiniteSet(I) /\ Cardinality(I) \in Nat /\ \A i \in I : i \in Int
           /\ \A i \in I : Rank(I, i) \in 1..Cardinality(I)
           /\ \A i, k \in I : i < k <=> Rank(I, i) < Rank(I, k)
<1>1. IsFiniteSet(I) /\ Cardinality(I) \in Nat /\ \A i \in I : i \in Int
  <2>1. IsFiniteSet(1..n)
    BY FS_Interval
  <2>2. IsFiniteSet(I) /\ Cardinality(I) \in Nat
    BY <2>1, FS_Subset, FS_CardinalityType
  <2>3. \A i \in I : i \in Int
    OBVIOUS
  <2> QED
    BY <2>2, <2>3
<1>2. ASSUME NEW i \in I
      PROVE  /\ IsFiniteSet(Below(I, i)) /\ Rank(I, i) \in 1..Cardinality(I)
  <2> DEFINE T == Below(I, i)
  <2>1. T \in SUBSET I /\ i \in T
    BY <1>1 DEF Below
  <2>2. IsFiniteSet(T) /\ Cardinality(T) <= Cardinality(I) /\ Cardinality(T) \in Nat
    BY <1>1, <2>1, FS_Subset, FS_CardinalityType
  <2>3. Cardinality(T) # 0
    BY <2>1, <2>2, FS_EmptySet
  <2> QED
    BY <1>1, <2>2, <2>3 DEF Rank
<1>3. ASSUME NEW i \in I, NEW k \in I, i < k PROVE Rank(I, i) < Rank(I, k)
  <2> DEFINE T == Below(I, i)
             U == Below(I, k)
  <2>1. \A j \in I : j <= i => j <= k
    BY <1>1, <1>3
  <2>4. i \in Int /\ k \in Int
    BY <1>1
  <2>5. k <= k /\ ~(k <= i)
    BY <2>4, <1>3
  <2>0. T \in SUBSET U /\ k \in U /\ k \notin T
    BY <2>1, <2>5, Zenon DEF Below
  <2>2. IsFiniteSet(U) /\ Cardinality(U) \in Nat /\ Cardinality(T) \in Nat
    BY <1>2, FS_CardinalityType
  <2>3. Cardinality(T) <= Cardinality(U) /\ Cardinality(T) # Cardinality(U)
    BY <2>0, <2>2, FS_Subset
  <2> QED
    BY <2>2, <2>3 DEF Rank
<1>4. ASSUME NEW i \in I, NEW k \in I PROVE i < k <=> Rank(I, i) < Rank(I, k)
  <2>1. i \in Int /\ k \in Int
    BY <1>1
  <2>2. Rank(I, i) \in Int /\ Rank(I, k) \in Int
    BY <1>2
  <2>3. (i < k => Rank(I, i) < Rank(I, k)) /\ (k < i => Rank(I, k) < Rank(I, i))
    BY <1>3
  <2> QED
    BY <2>1, <2>2, <2>3
<1> QED
  BY <1>1, <1>2, <1>4

\* Every number up to the size of I is the rank of one index.
LEMMA RankIsOnto ==
    ASSUME NEW n \in Nat, NEW I \in SUBSET (1..n), NEW r \in 1..Cardinality(I)
    PROVE  \E i \in I : Rank(I, i) = r
<1> DEFINE m == Cardinality(I)
           f == [i \in I |-> Rank(I, i)]
<1>1. m \in Nat /\ IsFiniteSet(I) /\ \A i \in I : i \in Int
  BY RankOrder
<1>2. f \in [I -> 1..m]
  BY RankOrder
<1>3. ASSUME NEW i \in I, NEW k \in I, f[i] = f[k] PROVE i = k
  <2>1. i \in Int /\ k \in Int /\ Rank(I, i) = Rank(I, k) /\ Rank(I, i) \in Int
    BY <1>1, <1>3, RankOrder
  <2>2. (i < k <=> Rank(I, i) < Rank(I, k)) /\ (k < i <=> Rank(I, k) < Rank(I, i))
    BY RankOrder
  <2> QED
    BY <2>1, <2>2
<1>4. f \in Injection(I, 1..m)
  BY <1>2, <1>3 DEF Injection, IsInjective
<1>5. IsFiniteSet(1..m) /\ Cardinality(1..m) = m
  BY <1>1, FS_Interval
<1>6. f \in Surjection(I, 1..m)
  BY <1>4, <1>5, FS_Injection
<1> QED
  BY <1>6 DEF Surjection

LEMMA AtRank ==
    ASSUME NEW n \in Nat, NEW I \in SUBSET (1..n), NEW s, NEW i \in I
    PROVE  /\ Cardinality(I) \in Nat /\ DOMAIN At(s, I) = 1..Cardinality(I)
           /\ Rank(I, i) \in DOMAIN At(s, I) /\ At(s, I)[Rank(I, i)] = s[i]
<1>1. Cardinality(I) \in Nat /\ Rank(I, i) \in 1..Cardinality(I) /\ \A k \in I : k \in Int
  BY RankOrder
<1>2. (CHOOSE k \in I : Rank(I, k) = Rank(I, i)) = i
  <2>1. ASSUME NEW k \in I, Rank(I, k) = Rank(I, i) PROVE k = i
    <3>1. i \in Int /\ k \in Int /\ Rank(I, i) \in Int
      BY <1>1
    <3>2. (i < k <=> Rank(I, i) < Rank(I, k)) /\ (k < i <=> Rank(I, k) < Rank(I, i))
      BY RankOrder
    <3> QED
      BY <2>1, <3>1, <3>2
  <2> QED
    BY <2>1
<1> QED
  BY <1>1, <1>2 DEF At

\* Each element of At(s, I) is that of s at the index of its rank.
Sourced(s, I) == \A r \in 1..Cardinality(I) : \E i \in I : Rank(I, i) = r /\ At(s, I)[r] = s[i]

LEMMA AtSource == ASSUME NEW n \in Nat, NEW I \in SUBSET (1..n), NEW s PROVE Sourced(s, I)
<1> SUFFICES ASSUME NEW r \in 1..Cardinality(I) PROVE \E i \in I : Rank(I, i) = r /\ At(s, I)[r] = s[i]
  BY DEF Sourced
<1>1. PICK i \in I : Rank(I, i) = r
  BY RankIsOnto
<1>2. At(s, I)[Rank(I, i)] = s[i]
  BY AtRank
<1> QED
  BY <1>1, <1>2

\* The elements of t are those of s at the indices in I.
Picks(t, s, I) ==
    /\ \A r \in DOMAIN t : \E i \in I : t[r] = s[i]
    /\ \A i \in I : \E r \in DOMAIN t : t[r] = s[i]

LEMMA AtElements == ASSUME NEW n \in Nat, NEW I \in SUBSET (1..n), NEW s PROVE Picks(At(s, I), s, I)
<1>1. \A r \in 1..Cardinality(I) : \E i \in I : Rank(I, i) = r /\ At(s, I)[r] = s[i]
  <2>1. Sourced(s, I)
    BY AtSource
  <2> QED
    BY <2>1 DEF Sourced
<1>2. DOMAIN At(s, I) = 1..Cardinality(I)
  BY DEF At
<1>3. ASSUME NEW i \in I PROVE Rank(I, i) \in DOMAIN At(s, I) /\ At(s, I)[Rank(I, i)] = s[i]
  BY AtRank
<1>4. ASSUME NEW r \in DOMAIN At(s, I) PROVE \E i \in I : At(s, I)[r] = s[i]
  BY <1>1, <1>2
<1>5. ASSUME NEW i \in I PROVE \E r \in DOMAIN At(s, I) : At(s, I)[r] = s[i]
  BY <1>3
<1> QED
  BY <1>4, <1>5 DEF Picks

LEMMA AtIsSeq ==
    ASSUME NEW n \in Nat, NEW I \in SUBSET (1..n), NEW S, NEW s, \A i \in I : s[i] \in S
    PROVE  At(s, I) \in Seq(S) /\ Len(At(s, I)) = Cardinality(I)
<1>1. Cardinality(I) \in Nat
  BY RankOrder
<1>2. ASSUME NEW j \in 1..Cardinality(I) PROVE At(s, I)[j] \in S
  <2>1. PICK i \in I : At(s, I)[j] = s[i]
    <3>1. Sourced(s, I)
      BY AtSource
    <3> QED
      BY <3>1 DEF Sourced
  <2> QED
    BY <2>1
<1>3. At(s, I) \in [1..Cardinality(I) -> S]
  BY <1>2 DEF At
<1> QED
  BY <1>1, <1>3

\* g takes the indices of s in I to those of t in J, in order.
Matches(g, s, I, t, J) ==
    /\ g \in [I -> J]
    /\ \A j \in J : \E i \in I : g[i] = j
    /\ \A i, k \in I : i < k => g[i] < g[k]
    /\ \A i \in I : t[g[i]] = s[i]

\* Two lists of which the same is kept.
LEMMA AtSame ==
    ASSUME NEW n \in Nat, NEW I \in SUBSET (1..n), NEW m \in Nat, NEW J \in SUBSET (1..m),
           NEW s, NEW t, NEW g, Matches(g, s, I, t, J)
    PROVE  At(t, J) = At(s, I)
<1> USE DEF Matches
<1>1. /\ IsFiniteSet(I) /\ IsFiniteSet(J)
      /\ \A i \in I : i \in Int
      /\ \A j \in J : j \in Int
      /\ Cardinality(I) \in Nat /\ Cardinality(J) \in Nat
  BY RankOrder
<1>2. ASSUME NEW i \in I, NEW k \in I PROVE k <= i <=> g[k] <= g[i]
  <2>1. i \in Int /\ k \in Int /\ g[i] \in Int /\ g[k] \in Int
    BY <1>1
  <2>2. (i < k => g[i] < g[k]) /\ (k < i => g[k] < g[i])
    OBVIOUS
  <2> QED
    BY <2>1, <2>2
<1>3. ASSUME NEW A \in SUBSET I PROVE Cardinality({g[i] : i \in A}) = Cardinality(A)
  <2> DEFINE B == {g[i] : i \in A}
             h == [i \in A |-> g[i]]
  <2>1. h \in Bijection(A, B)
    BY <1>1, <1>2 DEF Bijection, Injection, IsInjective, Surjection
  <2>2. ExistsBijection(A, B)
    BY <2>1 DEF ExistsBijection
  <2>3. IsFiniteSet(A)
    BY <1>1, FS_Subset
  <2> QED
    BY <2>2, <2>3, FS_Bijection
<1>4. Cardinality(J) = Cardinality(I)
  <2>1. J = {g[i] : i \in I}
    OBVIOUS
  <2> QED
    BY <2>1, <1>3
<1>5. ASSUME NEW i \in I PROVE Rank(J, g[i]) = Rank(I, i)
  <2> DEFINE A == Below(I, i)
  <2>1. Below(J, g[i]) = {g[k] : k \in A}
    <3>1. \A k \in I : k <= i <=> g[k] <= g[i]
      BY <1>2
    <3> QED
      BY <3>1 DEF Below
  <2>2. A \in SUBSET I
    BY DEF Below
  <2> HIDE DEF A
  <2>3. Cardinality({g[k] : k \in A}) = Cardinality(A)
    BY <2>2, <1>3
  <2> QED
    BY <2>1, <2>3 DEF Rank, A
<1>6. ASSUME NEW r \in 1..Cardinality(I) PROVE At(t, J)[r] = At(s, I)[r]
  <2>1. PICK i \in I : Rank(I, i) = r
    BY RankIsOnto
  <2>2. At(s, I)[Rank(I, i)] = s[i]
    BY AtRank
  <2>5. ASSUME NEW k \in J PROVE At(t, J)[Rank(J, k)] = t[k]
    BY AtRank
  <2>3. At(t, J)[Rank(J, g[i])] = t[g[i]]
    BY <2>5
  <2>4. At(s, I)[r] = At(t, J)[r]
    BY <2>1, <2>2, <2>3, <1>5
  <2> QED
    BY <2>4
<1> QED
  BY <1>4, <1>6 DEF At

LEMMA Least ==
    ASSUME NEW n \in Nat, NEW I \in SUBSET (1..n), I # {}
    PROVE  \E i \in I : \A k \in I : i <= k
<1>1. IsFiniteSet(I) /\ Cardinality(I) \in Nat /\ Cardinality(I) # 0
  BY RankOrder, FS_EmptySet
<1>2. 1 \in 1..Cardinality(I)
  BY <1>1
<1>3. PICK i \in I : Rank(I, i) = 1
  BY <1>2, RankIsOnto
<1>4. ASSUME NEW k \in I PROVE i <= k
  <2>1. i \in Int /\ k \in Int /\ Rank(I, k) \in 1..Cardinality(I)
    BY RankOrder
  <2>2. k < i <=> Rank(I, k) < Rank(I, i)
    BY RankOrder
  <2>3. Rank(I, k) \in Int /\ Rank(I, k) >= 1
    BY <1>1, <2>1
  <2> QED
    BY <1>3, <2>1, <2>2, <2>3
<1> QED
  BY <1>4

LEMMA AtInjective ==
    ASSUME NEW n \in Nat, NEW I \in SUBSET (1..n), NEW s, \A i, k \in I : s[i] = s[k] => i = k,
           NEW p \in 1..Cardinality(I), NEW q \in 1..Cardinality(I), At(s, I)[p] = At(s, I)[q]
    PROVE  p = q
<1>0. \A r \in 1..Cardinality(I) : \E i \in I : Rank(I, i) = r /\ At(s, I)[r] = s[i]
  <2>1. Sourced(s, I)
    BY AtSource
  <2> QED
    BY <2>1 DEF Sourced
<1>1. PICK i \in I : Rank(I, i) = p /\ At(s, I)[p] = s[i]
  BY <1>0
<1>2. PICK k \in I : Rank(I, k) = q /\ At(s, I)[q] = s[k]
  BY <1>0
<1> QED
  BY <1>1, <1>2

\* The indices in At(s, I) of those that s has in J.
Ranks(I, J) == {r \in 1..Cardinality(I) : \E i \in J : r = Rank(I, i)}

\* Of what is kept, a part is kept.
LEMMA AtAt ==
    ASSUME NEW n \in Nat, NEW I \in SUBSET (1..n), NEW J \in SUBSET I, NEW s
    PROVE  At(At(s, I), Ranks(I, J)) = At(s, J)
<1> DEFINE m == Cardinality(I)
           K == Ranks(I, J)
           t == At(s, I)
           g == [i \in J |-> Rank(I, i)]
<1>1. m \in Nat /\ J \in SUBSET (1..n) /\ K \in SUBSET (1..m)
  BY RankOrder DEF Ranks
<1>2. \A i \in I : Rank(I, i) \in 1..m
  BY RankOrder
<1>3. g \in [J -> K] /\ \A k \in K : \E i \in J : g[i] = k
  BY <1>2 DEF Ranks
<1>4. ASSUME NEW i \in J, NEW k \in J, i < k PROVE g[i] < g[k]
  <2>1. i < k <=> Rank(I, i) < Rank(I, k)
    BY RankOrder
  <2> QED
    BY <1>4, <2>1
<1>5. ASSUME NEW i \in J PROVE t[g[i]] = s[i]
  BY AtRank
<1>7. Matches(g, s, J, t, K)
  BY <1>3, <1>4, <1>5 DEF Matches
<1> HIDE DEF g, t, m, K
<1>6. At(t, K) = At(s, J)
  BY <1>1, <1>7, AtSame
<1> QED
  BY <1>6 DEF t, K

-----------------------------------------------------------------------------
(* Lists that lose or gain an element.                                      *)
LEMMA Removed ==
    ASSUME NEW S, NEW s \in Seq(S), NEW i \in DOMAIN s, NEW t, t = RemoveAt(s, i)
    PROVE  /\ t \in Seq(S) /\ Len(t) = Len(s) - 1
           /\ \A j \in DOMAIN s : j < i => t[j] = s[j]
           /\ \A j \in DOMAIN s : j > i => t[j - 1] = s[j]
<1>1. i \in 1..Len(s) /\ Len(s) \in Nat
  OBVIOUS
<1> DEFINE a == SubSeq(s, 1, i - 1)
           b == SubSeq(s, i + 1, Len(s))
<1>2. a \in Seq(S) /\ Len(a) = i - 1 /\ \A j \in 1..(i - 1) : a[j] = s[j]
  BY <1>1
<1>3. b \in Seq(S) /\ Len(b) = Len(s) - i /\ \A j \in 1..(Len(s) - i) : b[j] = s[i + j]
  BY <1>1
<1>4. t = a \o b
  BY DEF RemoveAt
<1> HIDE DEF a, b
<1>5. t \in Seq(S) /\ Len(t) = Len(s) - 1
  BY <1>1, <1>2, <1>3, <1>4
<1>6. ASSUME NEW j \in DOMAIN s, j < i PROVE t[j] = s[j]
  BY <1>1, <1>2, <1>3, <1>4, <1>6
<1>7. ASSUME NEW j \in DOMAIN s, j > i PROVE t[j - 1] = s[j]
  <2>1. t[j - 1] = b[j - i]
    BY <1>1, <1>2, <1>3, <1>4, <1>7
  <2> QED
    BY <2>1, <1>1, <1>3, <1>7
<1> QED
  BY <1>5, <1>6, <1>7

LEMMA Inserted ==
    ASSUME NEW S, NEW s \in Seq(S), NEW i \in 1..(Len(s) + 1), NEW e \in S, NEW t, t = InsertAt(s, i, e)
    PROVE  /\ t \in Seq(S) /\ Len(t) = Len(s) + 1 /\ t[i] = e
           /\ \A j \in DOMAIN s : j < i => t[j] = s[j]
           /\ \A j \in DOMAIN s : j >= i => t[j + 1] = s[j]
<1>1. i \in 1..(Len(s) + 1) /\ Len(s) \in Nat
  OBVIOUS
<1> DEFINE a == SubSeq(s, 1, i - 1)
           b == SubSeq(s, i, Len(s))
           c == a \o <<e>>
<1>2. a \in Seq(S) /\ Len(a) = i - 1 /\ \A j \in 1..(i - 1) : a[j] = s[j]
  BY <1>1
<1>3. b \in Seq(S) /\ Len(b) = Len(s) - i + 1 /\ \A j \in 1..(Len(s) - i + 1) : b[j] = s[i + j - 1]
  BY <1>1
<1>4. t = c \o b
  BY DEF InsertAt
<1> HIDE DEF a, b
<1>5. c \in Seq(S) /\ Len(c) = i /\ c[i] = e /\ \A j \in 1..(i - 1) : c[j] = s[j]
  BY <1>1, <1>2
<1> HIDE DEF c
<1>9. Len(t) = i + Len(b) /\ t \in Seq(S) /\ (\A j \in 1..i : t[j] = c[j]) /\ \A j \in 1..Len(b) : t[i + j] = b[j]
  BY <1>5, <1>3, <1>4
<1>6. t \in Seq(S) /\ Len(t) = Len(s) + 1 /\ t[i] = e
  BY <1>1, <1>5, <1>3, <1>9
<1>7. ASSUME NEW j \in DOMAIN s, j < i PROVE t[j] = s[j]
  <2>1. j \in 1..(i - 1) /\ j \in 1..i
    BY <1>1, <1>7
  <2> QED
    BY <2>1, <1>5, <1>9
<1>8. ASSUME NEW j \in DOMAIN s, j >= i PROVE t[j + 1] = s[j]
  <2> DEFINE k == j + 1 - i
  <2>1. k \in 1..Len(b) /\ k \in 1..(Len(s) - i + 1) /\ i + k = j + 1 /\ i + k - 1 = j
    BY <1>1, <1>3, <1>8
  <2> HIDE DEF k
  <2> QED
    BY <2>1, <1>9, <1>3
<1> QED
  BY <1>6, <1>7, <1>8

\* What is kept of a list does not change if what is not kept does.
LEMMA AtAgree ==
    ASSUME NEW S, NEW s \in Seq(S), NEW T, NEW t \in Seq(T), NEW I \in SUBSET (1..Len(s)), I \subseteq 1..Len(t),
           \A i \in I : t[i] = s[i]
    PROVE  At(t, I) = At(s, I)
<1> DEFINE g == [i \in I |-> i]
<1>1. Matches(g, s, I, t, I)
  BY DEF Matches
<1>2. Len(s) \in Nat /\ Len(t) \in Nat /\ I \in SUBSET (1..Len(t))
  OBVIOUS
<1> HIDE DEF g
<1> QED
  BY <1>1, <1>2, AtSame

-----------------------------------------------------------------------------
(* The rules in a list that are not named n, and the copies of a rule.      *)
OthersAt(s, n) == {i \in DOMAIN s : s[i].name # n}
Rest(s, n) == At(s, OthersAt(s, n))

LEMMA RemovedOthers ==
    ASSUME NEW S, NEW s \in Seq(S), NEW i \in DOMAIN s, NEW n, s[i].name = n, NEW t, t = RemoveAt(s, i)
    PROVE  Rest(t, n) = Rest(s, n)
<1> DEFINE I == OthersAt(s, n)
           J == OthersAt(t, n)
           g == [j \in I |-> IF j < i THEN j ELSE j - 1]
<1>1. /\ t \in Seq(S) /\ Len(t) = Len(s) - 1
      /\ \A j \in DOMAIN s : j < i => t[j] = s[j]
      /\ \A j \in DOMAIN s : j > i => t[j - 1] = s[j]
  BY Removed
<1>2. Len(s) \in Nat /\ Len(t) \in Nat /\ DOMAIN s = 1..Len(s) /\ DOMAIN t = 1..Len(t) /\ i \in 1..Len(s)
  BY <1>1
<1>3. I \in SUBSET (1..Len(s)) /\ J \in SUBSET (1..Len(t))
  BY <1>2 DEF OthersAt
<1>4. ASSUME NEW j \in I PROVE g[j] \in J /\ t[g[j]] = s[j] /\ j \in Int /\ g[j] \in Int /\ j # i
  <2>1. j \in 1..Len(s) /\ s[j].name # n /\ j # i
    BY <1>2 DEF OthersAt
  <2>2. g[j] \in 1..Len(t) /\ t[g[j]] = s[j]
    BY <2>1, <1>1, <1>2
  <2> QED
    BY <2>1, <2>2, <1>2 DEF OthersAt
<1>5. ASSUME NEW j \in J PROVE \E k \in I : g[k] = j
  <2> DEFINE k == IF j < i THEN j ELSE j + 1
  <2>1. j \in 1..Len(t) /\ t[j].name # n
    BY <1>2 DEF OthersAt
  <2>2. k \in 1..Len(s) /\ t[j] = s[k] /\ (IF k < i THEN k ELSE k - 1) = j
    BY <2>1, <1>1, <1>2
  <2>3. k \in I
    BY <2>1, <2>2, <1>2 DEF OthersAt
  <2> QED
    BY <2>2, <2>3
<1>6. ASSUME NEW j \in I, NEW k \in I, j < k PROVE g[j] < g[k]
  BY <1>4, <1>6, <1>2
<1>7. Matches(g, s, I, t, J)
  BY <1>4, <1>5, <1>6 DEF Matches
<1> HIDE DEF I, J, g
<1>8. At(t, J) = At(s, I)
  BY <1>2, <1>3, <1>7, AtSame
<1> QED
  BY <1>8 DEF I, J, Rest

LEMMA InsertedOthers ==
    ASSUME NEW S, NEW s \in Seq(S), NEW i \in 1..(Len(s) + 1), NEW e \in S, NEW n, e.name = n,
           NEW t, t = InsertAt(s, i, e)
    PROVE  Rest(t, n) = Rest(s, n)
<1> DEFINE I == OthersAt(s, n)
           J == OthersAt(t, n)
           g == [j \in I |-> IF j < i THEN j ELSE j + 1]
<1>1. /\ t \in Seq(S) /\ Len(t) = Len(s) + 1 /\ t[i] = e
      /\ \A j \in DOMAIN s : j < i => t[j] = s[j]
      /\ \A j \in DOMAIN s : j >= i => t[j + 1] = s[j]
  BY Inserted
<1>2. Len(s) \in Nat /\ Len(t) \in Nat /\ DOMAIN s = 1..Len(s) /\ DOMAIN t = 1..Len(t) /\ i \in 1..(Len(s) + 1)
  BY <1>1
<1>3. I \in SUBSET (1..Len(s)) /\ J \in SUBSET (1..Len(t))
  BY <1>2 DEF OthersAt
<1>4. ASSUME NEW j \in I PROVE g[j] \in J /\ t[g[j]] = s[j] /\ j \in Int /\ g[j] \in Int
  <2>1. j \in 1..Len(s) /\ s[j].name # n
    BY <1>2 DEF OthersAt
  <2>2. g[j] \in 1..Len(t) /\ t[g[j]] = s[j]
    BY <2>1, <1>1, <1>2
  <2> QED
    BY <2>1, <2>2, <1>2 DEF OthersAt
<1>5. ASSUME NEW j \in J PROVE \E k \in I : g[k] = j
  <2> DEFINE k == IF j < i THEN j ELSE j - 1
  <2>1. j \in 1..Len(t) /\ t[j].name # n /\ j # i
    BY <1>1, <1>2 DEF OthersAt
  <2>2. k \in 1..Len(s) /\ t[j] = s[k] /\ (IF k < i THEN k ELSE k + 1) = j
    BY <2>1, <1>1, <1>2
  <2>3. k \in I
    BY <2>1, <2>2, <1>2 DEF OthersAt
  <2> QED
    BY <2>2, <2>3
<1>6. ASSUME NEW j \in I, NEW k \in I, j < k PROVE g[j] < g[k]
  BY <1>4, <1>6, <1>2
<1>7. Matches(g, s, I, t, J)
  BY <1>4, <1>5, <1>6 DEF Matches
<1> HIDE DEF I, J, g
<1>8. At(t, J) = At(s, I)
  BY <1>2, <1>3, <1>7, AtSame
<1> QED
  BY <1>8 DEF I, J, Rest

\* Append is an insertion at the end.
LEMMA Appended ==
    ASSUME NEW S, NEW s \in Seq(S), NEW e \in S
    PROVE  Append(s, e) = InsertAt(s, Len(s) + 1, e)
<1>1. SubSeq(s, 1, Len(s) + 1 - 1) = s /\ SubSeq(s, Len(s) + 1, Len(s)) = <<>>
  OBVIOUS
<1>2. Append(s, e) = (s \o <<e>>) \o <<>>
  OBVIOUS
<1> QED
  BY <1>1, <1>2 DEF InsertAt

\* A removal loses no other copy.
LEMMA RemovedCopies ==
    ASSUME NEW S, NEW s \in Seq(S), NEW i \in DOMAIN s, NEW r, NEW t, t = RemoveAt(s, i)
    PROVE  /\ IsFiniteSet(Same(s, r)) /\ IsFiniteSet(Same(t, r))
           /\ Cardinality(Same(t, r)) \in Nat /\ Cardinality(Same(s, r)) \in Nat
           /\ IF s[i] = r THEN Cardinality(Same(t, r)) >= Cardinality(Same(s, r)) - 1
              ELSE Cardinality(Same(t, r)) >= Cardinality(Same(s, r))
<1> DEFINE I == Same(s, r) \ {i}
           J == Same(t, r)
           g == [j \in I |-> IF j < i THEN j ELSE j - 1]
<1>1. /\ t \in Seq(S) /\ Len(t) = Len(s) - 1
      /\ \A j \in DOMAIN s : j < i => t[j] = s[j]
      /\ \A j \in DOMAIN s : j > i => t[j - 1] = s[j]
  BY Removed
<1>2. Len(s) \in Nat /\ Len(t) \in Nat /\ DOMAIN s = 1..Len(s) /\ DOMAIN t = 1..Len(t) /\ i \in 1..Len(s)
  BY <1>1
<1>3. Same(s, r) \in SUBSET (1..Len(s)) /\ J \in SUBSET (1..Len(t))
  BY <1>2 DEF Same
<1>4. ASSUME NEW j \in I PROVE g[j] \in J /\ j \in Int /\ g[j] = (IF j < i THEN j ELSE j - 1)
  <2>1. j \in 1..Len(s) /\ s[j] = r /\ j # i
    BY <1>2 DEF Same
  <2>2. g[j] \in 1..Len(t) /\ t[g[j]] = s[j]
    BY <2>1, <1>1, <1>2
  <2> QED
    BY <2>1, <2>2, <1>2 DEF Same
<1>5. ASSUME NEW j \in I, NEW k \in I, g[j] = g[k] PROVE j = k
  <2>1. j # i /\ k # i
    OBVIOUS
  <2> QED
    BY <2>1, <1>4, <1>5, <1>2
<1>6. g \in Injection(I, J)
  BY <1>4, <1>5 DEF Injection, IsInjective
<1>7. /\ IsFiniteSet(Same(s, r)) /\ Cardinality(Same(s, r)) \in Nat
      /\ IsFiniteSet(J) /\ Cardinality(J) \in Nat
  BY <1>2, <1>3, RankOrder
<1>8. IsFiniteSet(I) /\ Cardinality(I) <= Cardinality(J)
  BY <1>6, <1>7, FS_Injection
<1>9. s[i] = r => Cardinality(I) = Cardinality(Same(s, r)) - 1
  <2>1. s[i] = r => i \in Same(s, r)
    BY DEF Same
  <2> QED
    BY <2>1, <1>7, FS_RemoveElement
<1>10. s[i] # r => I = Same(s, r)
  BY DEF Same
<1> QED
  BY <1>7, <1>8, <1>9, <1>10

-----------------------------------------------------------------------------
(* What is listed and what is found in it.                                  *)

LEMMA Joined ==
    ASSUME NEW S, NEW s \in Seq(S), NEW t \in Seq(S)
    PROVE  /\ s \o t \in Seq(S)
           /\ \A e : In(e, s \o t) <=> In(e, s) \/ In(e, t)
           /\ Distinct(s) /\ Distinct(t) /\ (\A e : ~(In(e, s) /\ In(e, t))) => Distinct(s \o t)
<1> DEFINE u == s \o t
<1>1. /\ u \in Seq(S) /\ Len(u) = Len(s) + Len(t) /\ Len(s) \in Nat /\ Len(t) \in Nat
      /\ DOMAIN u = 1..Len(u) /\ DOMAIN s = 1..Len(s) /\ DOMAIN t = 1..Len(t)
      /\ (\A i \in DOMAIN s : u[i] = s[i])
      /\ (\A i \in DOMAIN t : u[Len(s) + i] = t[i])
  OBVIOUS
<1> HIDE DEF u
<1>2. ASSUME NEW k \in DOMAIN u
      PROVE  IF k <= Len(s) THEN k \in DOMAIN s /\ u[k] = s[k]
             ELSE k - Len(s) \in DOMAIN t /\ u[k] = t[k - Len(s)]
  <2>1. CASE k <= Len(s)
    BY <1>1, <2>1
  <2>2. CASE k > Len(s)
    <3> DEFINE i == k - Len(s)
    <3>1. i \in DOMAIN t /\ Len(s) + i = k
      BY <1>1, <2>2
    <3> HIDE DEF i
    <3>2. u[k] = t[i]
      BY <1>1, <3>1
    <3> QED
      BY <1>1, <2>2, <3>1, <3>2 DEF i
  <2> QED
    BY <1>1, <2>1, <2>2
<1>3. ASSUME NEW e PROVE In(e, u) <=> In(e, s) \/ In(e, t)
  <2>1. In(e, u) => In(e, s) \/ In(e, t)
    BY <1>2 DEF In
  <2>2. In(e, s) => In(e, u)
    BY <1>1 DEF In
  <2>3. ASSUME In(e, t) PROVE In(e, u)
    <3>1. PICK i \in DOMAIN t : t[i] = e
      BY <2>3 DEF In
    <3>2. Len(s) + i \in DOMAIN u
      BY <1>1
    <3> QED
      BY <1>1, <3>1, <3>2 DEF In
  <2> QED
    BY <2>1, <2>2, <2>3
<1>4. ASSUME Distinct(s), Distinct(t), \A e : ~(In(e, s) /\ In(e, t)),
             NEW i \in DOMAIN u, NEW k \in DOMAIN u, u[i] = u[k]
      PROVE  i = k
  <2>1. CASE i <= Len(s) /\ k <= Len(s)
    BY <1>2, <1>4, <2>1 DEF Distinct
  <2>2. CASE i > Len(s) /\ k > Len(s)
    <3>1. i - Len(s) \in DOMAIN t /\ k - Len(s) \in DOMAIN t /\ t[i - Len(s)] = t[k - Len(s)]
      BY <1>1, <1>2, <1>4, <2>2
    <3>2. i - Len(s) = k - Len(s)
      BY <3>1, <1>4 DEF Distinct
    <3> QED
      BY <1>1, <3>2
  <2>3. CASE i <= Len(s) /\ k > Len(s)
    <3>1. In(u[i], s) /\ In(u[k], t)
      BY <1>1, <1>2, <2>3 DEF In
    <3> QED
      BY <3>1, <1>4
  <2>4. CASE i > Len(s) /\ k <= Len(s)
    <3>1. In(u[i], t) /\ In(u[k], s)
      BY <1>1, <1>2, <2>4 DEF In
    <3> QED
      BY <3>1, <1>4
  <2> QED
    BY <1>1, <2>1, <2>2, <2>3, <2>4
<1>5. Distinct(s) /\ Distinct(t) /\ (\A e : ~(In(e, s) /\ In(e, t))) => Distinct(u)
  BY <1>4 DEF Distinct
<1> QED
  BY <1>1, <1>3, <1>5 DEF u

LEMMA Kept ==
    ASSUME NEW S, NEW s \in Seq(S), NEW I \in SUBSET (1..Len(s)), NEW t, t = At(s, I)
    PROVE  /\ t \in Seq(S)
           /\ \A e : In(e, t) <=> \E i \in I : s[i] = e
           /\ Distinct(s) => Distinct(t)
<1>1. Len(s) \in Nat /\ DOMAIN s = 1..Len(s) /\ \A i \in I : s[i] \in S
  OBVIOUS
<1>2. t \in Seq(S) /\ Len(t) = Cardinality(I)
  BY <1>1, AtIsSeq
<1>3. DOMAIN t = 1..Cardinality(I)
  BY <1>2
<1>4. Picks(t, s, I)
  BY <1>1, AtElements
<1>5. /\ \A i \in DOMAIN t : \E k \in I : t[i] = s[k]
      /\ \A i \in I : \E k \in DOMAIN t : t[k] = s[i]
  BY <1>4 DEF Picks
<1>6. ASSUME Distinct(s), NEW p \in DOMAIN t, NEW q \in DOMAIN t, t[p] = t[q] PROVE p = q
  <2>1. \A i, k \in I : s[i] = s[k] => i = k
    BY <1>1, <1>6 DEF Distinct
  <2>2. At(s, I)[p] = At(s, I)[q]
    BY <1>6
  <2> QED
    BY <1>1, <1>3, <2>1, <2>2, AtInjective
<1>7. ASSUME NEW e PROVE In(e, t) <=> \E i \in I : s[i] = e
  BY <1>4, <1>5 DEF In
<1>8. Distinct(s) => Distinct(t)
  <2> SUFFICES ASSUME Distinct(s) PROVE Distinct(t)
    OBVIOUS
  <2>1. \A p, q \in DOMAIN t : t[p] = t[q] => p = q
    BY <1>6
  <2> QED
    BY <2>1 DEF Distinct
<1> QED
  BY <1>2, <1>7, <1>8

IptEntry(f, c, i) ==
    [name |-> ipt[f][c][i].name, chain |-> c, family |-> f, body |-> ipt[f][c][i].body, at |-> i]
NftEntry(c, i) ==
    [name |-> nft.rules[c][i].name, chain |-> c, family |-> nft.rules[c][i].family,
     body |-> nft.rules[c][i].body, at |-> nft.rules[c][i].handle]

LEMMA IptChainIs ==
    ASSUME HostTypes, NEW f \in Families, NEW c \in Chains
    PROVE  /\ IptChain(f, c) \in Seq(Entries) /\ Distinct(IptChain(f, c))
           /\ \A e : In(e, IptChain(f, c)) <=> \E i \in DOMAIN ipt[f][c] : e = IptEntry(f, c, i)
<1> DEFINE s == ipt[f][c]
           t == IptChain(f, c)
<1>1. s \in Seq(IptRules)
  BY DEF HostTypes
<1>2. t = [i \in DOMAIN s |-> IptEntry(f, c, i)]
  BY DEF IptChain, IptEntry
<1>3. Len(s) \in Nat /\ DOMAIN s = 1..Len(s)
  BY <1>1
<1>4. ASSUME NEW i \in DOMAIN s PROVE IptEntry(f, c, i) \in Entries
  <2>1. s[i] \in IptRules /\ i \in Nat
    BY <1>1, <1>3
  <2> QED
    BY <2>1 DEF IptEntry, Entries, IptRules
<1>5. t \in [1..Len(s) -> Entries]
  BY <1>2, <1>3, <1>4
<1>6. t \in Seq(Entries)
  BY <1>3, <1>5
<1>7. ASSUME NEW i \in DOMAIN t, NEW k \in DOMAIN t, t[i] = t[k] PROVE i = k
  <2>1. IptEntry(f, c, i) = IptEntry(f, c, k)
    BY <1>2, <1>7
  <2>2. IptEntry(f, c, i).at = i /\ IptEntry(f, c, k).at = k
    BY DEF IptEntry
  <2> QED
    BY <2>1, <2>2
<1> HIDE DEF s, t
<1>8. Distinct(t) /\ \A e : In(e, t) <=> \E i \in DOMAIN s : e = IptEntry(f, c, i)
  BY <1>2, <1>7 DEF Distinct, In
<1> QED
  BY <1>6, <1>8 DEF s, t

LEMMA NftChainIs ==
    ASSUME HostTypes, nft # Null, NEW c \in Chains
    PROVE  /\ NftChain(c) \in Seq(Entries)
           /\ \A e : In(e, NftChain(c)) <=> \E i \in DOMAIN nft.rules[c] : e = NftEntry(c, i)
<1> DEFINE s == nft.rules[c]
           t == NftChain(c)
<1>1. s \in Seq(NftRules)
  BY DEF HostTypes
<1>2. t = [i \in DOMAIN s |-> NftEntry(c, i)]
  BY DEF NftChain, NftEntry
<1>3. Len(s) \in Nat /\ DOMAIN s = 1..Len(s)
  BY <1>1
<1>4. ASSUME NEW i \in DOMAIN s PROVE NftEntry(c, i) \in Entries
  <2>1. s[i] \in NftRules
    BY <1>1, <1>3
  <2> QED
    BY <2>1 DEF NftEntry, Entries, NftRules
<1>5. t \in [1..Len(s) -> Entries]
  BY <1>2, <1>3, <1>4
<1>6. t \in Seq(Entries)
  BY <1>3, <1>5
<1> HIDE DEF s, t
<1>8. \A e : In(e, t) <=> \E i \in DOMAIN s : e = NftEntry(c, i)
  BY <1>2 DEF In
<1> QED
  BY <1>6, <1>8 DEF s, t

LEMMA TaggedIs ==
    ASSUME NEW s \in Seq(Entries), NEW n
    PROVE  /\ Tagged(s, n) \in Seq(Entries)
           /\ \A e : In(e, Tagged(s, n)) <=> In(e, s) /\ e.name = n
           /\ Distinct(s) => Distinct(Tagged(s, n))
<1> DEFINE I == {i \in DOMAIN s : s[i].name = n}
           t == At(s, I)
<1>1. I \in SUBSET (1..Len(s))
  OBVIOUS
<1>2. \A e : In(e, s) /\ e.name = n <=> \E i \in I : s[i] = e
  BY DEF In
<1>3. t = Tagged(s, n)
  BY DEF Tagged
<1> HIDE DEF I
<1>4. /\ t \in Seq(Entries) /\ (\A e : In(e, t) <=> \E i \in I : s[i] = e)
      /\ (Distinct(s) => Distinct(t))
  BY <1>1, Kept
<1> HIDE DEF t
<1> QED
  BY <1>2, <1>3, <1>4

\* The lists of one address family, or of none if its command is missing.
Listed(f) == IF f \in tools THEN Table(f) ELSE <<>>
IptFound(e, n) ==
    \E f \in tools \cap Families, c \in Chains : \E i \in DOMAIN ipt[f][c] :
        ipt[f][c][i].name = n /\ e = IptEntry(f, c, i)

LEMMA TableIs ==
    ASSUME HostTypes, NEW f \in Families
    PROVE  /\ Table(f) \in Seq(Entries) /\ Distinct(Table(f))
           /\ \A e : In(e, Table(f)) <=> \E c \in Chains : \E i \in DOMAIN ipt[f][c] : e = IptEntry(f, c, i)
<1> DEFINE s == IptChain(f, "input")
           t == IptChain(f, "forward")
<1>1. /\ s \in Seq(Entries) /\ Distinct(s)
      /\ \A e : In(e, s) <=> \E i \in DOMAIN ipt[f]["input"] : e = IptEntry(f, "input", i)
  BY IptChainIs DEF Chains
<1>2. /\ t \in Seq(Entries) /\ Distinct(t)
      /\ \A e : In(e, t) <=> \E i \in DOMAIN ipt[f]["forward"] : e = IptEntry(f, "forward", i)
  BY IptChainIs DEF Chains
<1>3. \A i : IptEntry(f, "input", i).chain = "input" /\ IptEntry(f, "forward", i).chain = "forward"
  BY DEF IptEntry
<1>4. \A e : ~(In(e, s) /\ In(e, t))
  BY <1>1, <1>2, <1>3
<1>5. s \o t \in Seq(Entries) /\ Distinct(s \o t) /\ \A e : In(e, s \o t) <=> In(e, s) \/ In(e, t)
  <2> HIDE DEF s, t
  <2> QED
    BY <1>1, <1>2, <1>4, Joined
<1>6. \A e : In(e, s \o t) <=> \E c \in {"input", "forward"} : \E i \in DOMAIN ipt[f][c] : e = IptEntry(f, c, i)
  BY <1>1, <1>2, <1>5
<1> QED
  BY <1>5, <1>6 DEF Table, Chains

LEMMA FoundIpt ==
    ASSUME HostTypes, NEW n, NEW first, NEW s, s = FoundIn("iptables", n, first)
    PROVE  /\ s \in Seq(Entries) /\ Distinct(s)
           /\ \A e : In(e, s) <=> IptFound(e, n)
<1> DEFINE t == Listed("ipv4")
           u == Listed("ipv6")
<1>1. ASSUME NEW f \in Families
      PROVE  /\ Listed(f) \in Seq(Entries) /\ Distinct(Listed(f))
             /\ \A e : In(e, Listed(f)) <=>
                  f \in tools /\ \E c \in Chains : \E i \in DOMAIN ipt[f][c] : e = IptEntry(f, c, i)
  <2>1. CASE f \in tools
    BY <2>1, TableIs DEF Listed
  <2>2. CASE f \notin tools
    <3>1. Listed(f) = <<>> /\ DOMAIN <<>> = {}
      BY <2>2 DEF Listed
    <3> QED
      BY <2>2, <3>1 DEF Distinct, In
  <2> QED
    BY <2>1, <2>2
<1>2. "ipv4" \in Families /\ "ipv6" \in Families
  BY DEF Families
<1>3. /\ t \in Seq(Entries) /\ Distinct(t)
      /\ \A e : In(e, t) <=>
           "ipv4" \in tools /\ \E c \in Chains : \E i \in DOMAIN ipt["ipv4"][c] : e = IptEntry("ipv4", c, i)
  BY <1>1, <1>2
<1>4. /\ u \in Seq(Entries) /\ Distinct(u)
      /\ \A e : In(e, u) <=>
           "ipv6" \in tools /\ \E c \in Chains : \E i \in DOMAIN ipt["ipv6"][c] : e = IptEntry("ipv6", c, i)
  BY <1>1, <1>2
<1>5. \A f, c, i : IptEntry(f, c, i).family = f /\ IptEntry(f, c, i).name = ipt[f][c][i].name
  BY DEF IptEntry
<1> HIDE DEF t, u
<1>6. \A e : ~(In(e, t) /\ In(e, u))
  <2> SUFFICES ASSUME NEW e, In(e, t), In(e, u) PROVE FALSE
    OBVIOUS
  <2>1. e.family = "ipv4"
    BY <1>3, <1>5
  <2>2. e.family = "ipv6"
    BY <1>4, <1>5
  <2> QED
    BY <2>1, <2>2
<1>7. t \o u \in Seq(Entries) /\ Distinct(t \o u) /\ \A e : In(e, t \o u) <=> In(e, t) \/ In(e, u)
  BY <1>3, <1>4, <1>6, Joined
<1>8. s = Tagged(t \o u, n)
  BY DEF FoundIn, Listed, t, u
<1>9. /\ Tagged(t \o u, n) \in Seq(Entries) /\ Distinct(Tagged(t \o u, n))
      /\ \A e : In(e, Tagged(t \o u, n)) <=> In(e, t \o u) /\ e.name = n
  BY <1>7, TaggedIs
<1>10. ASSUME NEW e PROVE In(e, s) <=> IptFound(e, n)
  <2>1. In(e, s) <=> (In(e, t) \/ In(e, u)) /\ e.name = n
    BY <1>7, <1>8, <1>9
  <2>2. ASSUME In(e, t), e.name = n PROVE IptFound(e, n)
    BY <1>2, <1>3, <1>5, <2>2 DEF IptFound
  <2>3. ASSUME In(e, u), e.name = n PROVE IptFound(e, n)
    BY <1>2, <1>4, <1>5, <2>3 DEF IptFound
  <2>4. ASSUME IptFound(e, n) PROVE (In(e, t) \/ In(e, u)) /\ e.name = n
    <3>1. PICK f \in tools \cap Families, c \in Chains : \E i \in DOMAIN ipt[f][c] :
              ipt[f][c][i].name = n /\ e = IptEntry(f, c, i)
      BY <2>4 DEF IptFound
    <3>2. f = "ipv4" \/ f = "ipv6"
      BY DEF Families
    <3> QED
      BY <1>3, <1>4, <1>5, <3>1, <3>2
  <2> QED
    BY <2>1, <2>2, <2>3, <2>4
<1> QED
  BY <1>8, <1>9, <1>10

NftFound(e, n) ==
    \E c \in Chains : \E i \in DOMAIN nft.rules[c] : nft.rules[c][i].name = n /\ e = NftEntry(c, i)

LEMMA FoundNft ==
    ASSUME HostTypes, NEW n, NEW first \in Chains, NEW s, s = FoundIn("nftables", n, first)
    PROVE  /\ s \in Seq(Entries)
           /\ nft # Null => \A e : In(e, s) <=> NftFound(e, n)
           /\ nft = Null => s = <<>>
<1>1. CASE nft = Null
  BY <1>1 DEF FoundIn
<1>2. CASE nft # Null
  <2> DEFINE other == CHOOSE c \in Chains : c # first
             t == NftChain(first)
             u == NftChain(other)
  <2>1. Chains = {first, other} /\ other \in Chains
    <3>1. \E c \in Chains : c # first
      BY DEF Chains
    <3>2. other \in Chains /\ other # first
      BY <3>1
    <3> HIDE DEF other
    <3> QED
      BY <3>2 DEF Chains
  <2> HIDE DEF other
  <2>3. t \in Seq(Entries) /\ \A e : In(e, t) <=> \E i \in DOMAIN nft.rules[first] : e = NftEntry(first, i)
    BY <1>2, NftChainIs
  <2>4. u \in Seq(Entries) /\ \A e : In(e, u) <=> \E i \in DOMAIN nft.rules[other] : e = NftEntry(other, i)
    BY <1>2, <2>1, NftChainIs
  <2>5. \A c, i : NftEntry(c, i).name = nft.rules[c][i].name
    BY DEF NftEntry
  <2>6. s = Tagged(t \o u, n)
    BY <1>2 DEF FoundIn, other
  <2> HIDE DEF t, u
  <2>7. t \o u \in Seq(Entries) /\ \A e : In(e, t \o u) <=> In(e, t) \/ In(e, u)
    BY <2>3, <2>4, Joined
  <2>8. /\ Tagged(t \o u, n) \in Seq(Entries)
        /\ \A e : In(e, Tagged(t \o u, n)) <=> In(e, t \o u) /\ e.name = n
    BY <2>7, TaggedIs
  <2>9. ASSUME NEW e PROVE In(e, s) <=> NftFound(e, n)
    <3>1. In(e, s) <=> (In(e, t) \/ In(e, u)) /\ e.name = n
      BY <2>6, <2>7, <2>8
    <3>2. (In(e, t) \/ In(e, u)) <=> \E c \in {first, other} : \E i \in DOMAIN nft.rules[c] : e = NftEntry(c, i)
      BY <2>3, <2>4
    <3> QED
      BY <3>1, <3>2, <2>1, <2>5 DEF NftFound
  <2> QED
    BY <1>2, <2>6, <2>8, <2>9
<1> QED
  BY <1>1, <1>2

-----------------------------------------------------------------------------
(* An operation is in one of these states.                                  *)
LEMMA Advanced ==
    ASSUME NEW r, HasFields(r), NEW n, n = Advance(r)
    PROVE  /\ HasFields(n) /\ n.res = r.res /\ n.op = r.op /\ n.kind = r.kind /\ n.target = r.target
           /\ n.found = r.found /\ n.alone = r.alone /\ n.todo = r.todo /\ n.stale = r.stale
           /\ n.place = r.place /\ n.changed = r.changed /\ n.from = r.from /\ n.covered = r.covered
           /\ r.todo # <<>> => n.step = "check"
           /\ r.todo = <<>> /\ r.stale # <<>> => n.step = "delete"
           /\ r.todo = <<>> /\ r.stale = <<>> => n.step = "end"
  BY DEF Advance, HasFields, FieldNames

LEMMA Started ==
    ASSUME NEW r \in Resources, NEW o \in {"create", "update", "delete"}, NEW from \in Kinds,
           NEW target \in Kinds \cup {Null}, Start(r, o, from, target),
           o = "delete" <=> target = Null, o # "delete" => config[r] # Null, o = "create" => from = target
    PROVE  /\ IsRun(run)' /\ run'.res = r /\ run'.op = o /\ run'.kind = from /\ run'.target = target
           /\ run'.step = "find" /\ run'.from = from /\ run'.covered = Covered(from, r)
<1> DEFINE n == run'
<1>1. /\ n = [res |-> r, op |-> o, kind |-> from, target |-> target, step |-> "find",
              found |-> <<>>, alone |-> FALSE, todo |-> <<>>, stale |-> <<>>,
              place |-> [f \in Families |-> 0], changed |-> FALSE,
              from |-> from, covered |-> Covered(from, r), order |-> Order]
      /\ config' = config
  BY DEF Start
<1> HIDE DEF n
<1>2. HasFields(n)
  BY <1>1 DEF HasFields, FieldNames
<1>3. /\ n.res = r /\ n.op = o /\ n.kind = from /\ n.target = target /\ n.step = "find" /\ n.found = <<>>
      /\ ~n.alone /\ n.todo = <<>> /\ n.stale = <<>> /\ n.place = [f \in Families |-> 0]
      /\ n.from = from /\ n.covered = Covered(from, r)
  BY <1>1
<1>4. n.place \in [Families -> Nat] /\ DOMAIN <<>> = {} /\ Distinct(<<>>)
  BY <1>3 DEF Distinct
<1>5. /\ n.found \in Seq(Entries) /\ n.todo \in Seq(Families) /\ n.stale \in Seq(Entries)
      /\ Distinct(n.todo) /\ Distinct(n.stale)
      /\ \A i \in DOMAIN n.found : n.found[i].name = n.res
      /\ \A i \in DOMAIN n.stale : n.stale[i].name = n.res /\ n.stale[i].family \in Families
  BY <1>3, <1>4
<1>6. IsRun(run)'
  BY <1>1, <1>2, <1>3, <1>4, <1>5 DEF IsRun, RunTypes, RunStep, n
<1> QED
  BY <1>3, <1>6 DEF n

-----------------------------------------------------------------------------
(* What apply plans for a backend.                                          *)
LEMMA WantIs ==
    ASSUME ConfigsTyped, Types, run # Null, run.op # "delete"
    PROVE  Want \in Wanted /\ FamiliesOf(Want) \subseteq Families /\ FamiliesOf(Want) # {}
<1>1. run.res \in Resources /\ config[run.res] # Null /\ config \in [Resources -> Wanted \cup {Null}]
  BY DEF Types, IsRun, RunTypes
<1>2. Want \in Wanted
  BY <1>1 DEF Want
<1> QED
  BY <1>2 DEF Wanted, FamiliesOf, Families

Fits(e) == e.chain = Want.chain /\ e.body = Want.body /\ e.family \in FamiliesOf(Want)

LEMMA GoodIs ==
    ASSUME NEW f \in Seq(Entries)
    PROVE  /\ \A i \in Good(f) : i \in DOMAIN f /\ Fits(f[i])
           /\ \A i \in DOMAIN f : Fits(f[i]) => \E j \in Good(f) : f[j].family = f[i].family
<1>1. \A i : i \in Good(f) <=>
        /\ i \in DOMAIN f /\ Fits(f[i])
        /\ \A j \in 1..(i - 1) : ~(Fits(f[j]) /\ f[j].family = f[i].family)
  BY DEF Good, Fits
<1>2. ASSUME NEW i \in DOMAIN f, Fits(f[i]) PROVE \E j \in Good(f) : f[j].family = f[i].family
  <2> DEFINE I == {k \in DOMAIN f : Fits(f[k]) /\ f[k].family = f[i].family}
  <2>1. Len(f) \in Nat /\ DOMAIN f = 1..Len(f) /\ I \in SUBSET (1..Len(f)) /\ I # {}
    BY <1>2
  <2>2. PICK j \in I : \A k \in I : j <= k
    <3> HIDE DEF I
    <3> QED
      BY <2>1, Least
  <2>3. j \in DOMAIN f /\ Fits(f[j]) /\ f[j].family = f[i].family
    OBVIOUS
  <2>4. ASSUME NEW k \in 1..(j - 1), Fits(f[k]), f[k].family = f[j].family PROVE FALSE
    <3>1. k \in DOMAIN f /\ k < j
      BY <2>1, <2>3
    <3>2. k \in I
      BY <2>3, <2>4, <3>1
    <3> QED
      BY <2>1, <2>2, <2>3, <3>1, <3>2
  <2> QED
    BY <1>1, <2>3, <2>4
<1> QED
  BY <1>1, <1>2

LEMMA PlaceIs ==
    ASSUME HostTypes, NEW n, NEW first, NEW s, s = FoundIn("iptables", n, first), Want.chain \in Chains
    PROVE  Place(s) \in [Families -> Nat]
<1>1. s \in Seq(Entries) /\ \A e : In(e, s) <=> IptFound(e, n)
  BY FoundIpt
<1>2. ASSUME NEW f \in Families PROVE Place(s)[f] \in Nat
  <2> DEFINE J == {j \in DOMAIN s \ Good(s) : s[j].family = f /\ s[j].chain = Want.chain}
             A == {s[i].at : i \in J}
             m == Len(ipt[f][Want.chain])
  <2>1. Place(s)[f] = IF A = {} THEN 0 ELSE CHOOSE p \in A : \A q \in A : p <= q
    BY DEF Place
  <2>2. m \in Nat /\ DOMAIN ipt[f][Want.chain] = 1..m
    BY DEF HostTypes
  <2>3. ASSUME NEW i \in J PROVE s[i].at \in 1..m
    <3>1. In(s[i], s) /\ s[i].family = f /\ s[i].chain = Want.chain
      BY DEF In
    <3>2. PICK g \in tools \cap Families, c \in Chains : \E p \in DOMAIN ipt[g][c] : s[i] = IptEntry(g, c, p)
      BY <1>1, <3>1 DEF IptFound
    <3>3. PICK p \in DOMAIN ipt[g][c] : s[i] = IptEntry(g, c, p)
      BY <3>2
    <3>4. g = f /\ c = Want.chain /\ s[i].at = p
      BY <3>1, <3>3 DEF IptEntry
    <3> QED
      BY <2>2, <3>3, <3>4
  <2>4. A \in SUBSET (1..m)
    BY <2>3
  <2> HIDE DEF A, m
  <2>5. ASSUME A # {} PROVE (CHOOSE p \in A : \A q \in A : p <= q) \in Nat
    <3>1. \E p \in A : \A q \in A : p <= q
      BY <2>2, <2>4, <2>5, Least
    <3>2. (CHOOSE p \in A : \A q \in A : p <= q) \in A
      BY <3>1
    <3>3. \A x \in A : x \in Nat
      BY <2>2, <2>4
    <3> QED
      BY <3>2, <3>3
  <2> QED
    BY <2>1, <2>5
<1>3. Place(s) = [f \in Families |-> Place(s)[f]]
  BY DEF Place
<1> QED
  BY <1>2, <1>3

LEMMA TodoIs ==
    ASSUME NEW M \in SUBSET Families, NEW t,
           t = At(<<"ipv4", "ipv6">>, {i \in 1..2 : <<"ipv4", "ipv6">>[i] \in M})
    PROVE  t \in Seq(Families) /\ Distinct(t) /\ \A e : In(e, t) <=> e \in M
<1>1. ASSUME NEW s \in Seq(Families), NEW I \in SUBSET (1..Len(s)), Distinct(s), t = At(s, I),
             \A i \in I : s[i] \in M, \A e \in M : \E i \in I : s[i] = e
      PROVE  t \in Seq(Families) /\ Distinct(t) /\ \A e : In(e, t) <=> e \in M
  <2>1. /\ t \in Seq(Families)
        /\ \A e : In(e, t) <=> \E i \in I : s[i] = e
        /\ Distinct(s) => Distinct(t)
    BY <1>1, Kept
  <2> QED
    BY <1>1, <2>1
<1> DEFINE s == <<"ipv4", "ipv6">>
           I == {i \in 1..2 : s[i] \in M}
<1>2. s \in Seq(Families) /\ Len(s) = 2 /\ Distinct(s) /\ I \in SUBSET (1..Len(s))
  BY DEF Families, Distinct
<1>3. \A e \in M : \E i \in I : s[i] = e
  <2>1. s[1] = "ipv4" /\ s[2] = "ipv6" /\ 1 \in 1..2 /\ 2 \in 1..2
    OBVIOUS
  <2> QED
    BY <2>1 DEF Families
<1>4. t = At(s, I) /\ \A i \in I : s[i] \in M
  OBVIOUS
<1> HIDE DEF s, I
<1> QED
  BY <1>1, <1>2, <1>3, <1>4

LEMMA AdvancedRun ==
    ASSUME NEW r, RunTypes(r), r.kind = "iptables", r.kind # r.target => r.todo = <<>>, NEW n, n = Advance(r)
    PROVE  /\ IsRun(n) /\ n.res = r.res /\ n.op = r.op /\ n.kind = r.kind /\ n.target = r.target
           /\ n.found = r.found /\ n.todo = r.todo /\ n.stale = r.stale /\ n.from = r.from
           /\ n.covered = r.covered /\ n.step \notin {"find", "script"}
<1>1. /\ HasFields(n) /\ n.res = r.res /\ n.op = r.op /\ n.kind = r.kind /\ n.target = r.target
      /\ n.found = r.found /\ n.alone = r.alone /\ n.todo = r.todo /\ n.stale = r.stale
      /\ n.place = r.place /\ n.changed = r.changed /\ n.from = r.from /\ n.covered = r.covered
      /\ r.todo # <<>> => n.step = "check"
      /\ r.todo = <<>> /\ r.stale # <<>> => n.step = "delete"
      /\ r.todo = <<>> /\ r.stale = <<>> => n.step = "end"
  BY Advanced DEF RunTypes
<1>2. RunTypes(n)
  BY <1>1 DEF RunTypes
<1>3. RunStep(n) /\ n.step \notin {"find", "script"}
  BY <1>1 DEF RunStep
<1> QED
  BY <1>1, <1>2, <1>3 DEF IsRun

\* A rule found that is as wanted is a copy at its place.
LEMMA CopyAt ==
    ASSUME HostTypes, Want.chain \in Chains, NEW f \in Families,
           NEW e, IptFound(e, run.res), e.family = f, e.chain = Want.chain, e.body = Want.body
    PROVE  e.at \in Copies(f) /\ e = IptEntry(f, Want.chain, e.at)
<1>1. PICK g \in tools \cap Families, c \in Chains : \E i \in DOMAIN ipt[g][c] :
          ipt[g][c][i].name = run.res /\ e = IptEntry(g, c, i)
  BY DEF IptFound
<1>2. PICK i \in DOMAIN ipt[g][c] : ipt[g][c][i].name = run.res /\ e = IptEntry(g, c, i)
  BY <1>1
<1>3. g = f /\ c = Want.chain /\ i = e.at /\ ipt[g][c][i].body = Want.body
  BY <1>2 DEF IptEntry
<1>4. ipt[g][c] \in Seq(IptRules)
  BY DEF HostTypes
<1>5. ipt[g][c][i] \in IptRules
  BY <1>2, <1>4
<1>6. ipt[g][c][i] = Rule
  BY <1>2, <1>3, <1>5 DEF Rule, IptRules
<1> QED
  BY <1>2, <1>3, <1>6 DEF Copies, Same

LEMMA MoreCopies ==
    ASSUME HostTypes, Want.chain \in Chains, NEW f \in Families, NEW S, NEW g, g \notin S,
           \A e \in S \cup {g} : IptFound(e, run.res) /\ e.family = f /\ e.chain = Want.chain /\ e.body = Want.body
    PROVE  IsFiniteSet(S) /\ Cardinality(Copies(f)) > Cardinality(S)
<1> DEFINE T == S \cup {g}
           m == Len(ipt[f][Want.chain])
           h == [e \in T |-> e.at]
<1>1. \A e \in T : e.at \in Copies(f) /\ e = IptEntry(f, Want.chain, e.at)
  BY CopyAt
<1>2. h \in Injection(T, Copies(f))
  BY <1>1 DEF Injection, IsInjective
<1>3. m \in Nat /\ Copies(f) \in SUBSET (1..m)
  <2>1. ipt[f][Want.chain] \in Seq(IptRules)
    BY DEF HostTypes
  <2> QED
    BY <2>1 DEF Copies, Same
<1>4. IsFiniteSet(Copies(f)) /\ Cardinality(Copies(f)) \in Nat
  BY <1>3, RankOrder
<1>5. IsFiniteSet(T) /\ Cardinality(T) <= Cardinality(Copies(f))
  BY <1>2, <1>4, FS_Injection
<1>6. S = T \ {g} /\ g \in T
  OBVIOUS
<1> HIDE DEF T
<1>7. IsFiniteSet(S) /\ Cardinality(S) = Cardinality(T) - 1 /\ Cardinality(T) \in Nat
  BY <1>5, <1>6, FS_RemoveElement, FS_CardinalityType
<1> QED
  BY <1>4, <1>5, <1>7

\* What an apply leaves of what it found.
Leaves(f) == At(f, {i \in DOMAIN f : \A j \in Good(f) : f[j] # f[i]})

LEMMA LeavesIs ==
    ASSUME HostTypes, Want.chain \in Chains, FamiliesOf(Want) \subseteq Families,
           NEW first, NEW f, f = FoundIn("iptables", run.res, first), NEW s, s = Leaves(f)
    PROVE  /\ s \in Seq(Entries) /\ Distinct(s)
           /\ \A i \in DOMAIN s : s[i].name = run.res /\ s[i].family \in Families
           /\ \A g \in FamiliesOf(Want) :
                IF g \in Missing(f) THEN StaleCopies(s, g) = {}
                ELSE IsFiniteSet(StaleCopies(s, g)) /\ Cardinality(Copies(g)) > Cardinality(StaleCopies(s, g))
<1> DEFINE I == {i \in DOMAIN f : \A j \in Good(f) : f[j] # f[i]}
<1>1. f \in Seq(Entries) /\ Distinct(f) /\ \A e : In(e, f) <=> IptFound(e, run.res)
  BY FoundIpt
<1>2. I \in SUBSET (1..Len(f)) /\ s = At(f, I) /\ DOMAIN f = 1..Len(f)
  BY <1>1 DEF Leaves
<1>3. \A i : i \in I <=> i \in DOMAIN f /\ \A j \in Good(f) : f[j] # f[i]
  OBVIOUS
<1> HIDE DEF I
<1>4. s \in Seq(Entries) /\ Distinct(s) /\ \A e : In(e, s) <=> \E i \in I : f[i] = e
  BY <1>1, <1>2, Kept
<1>5. ASSUME NEW e, In(e, s) PROVE IptFound(e, run.res) /\ \A j \in Good(f) : f[j] # e
  <2>1. PICK i \in I : f[i] = e
    BY <1>4, <1>5
  <2>2. In(e, f)
    BY <1>3, <2>1 DEF In
  <2> QED
    BY <1>1, <1>3, <2>1, <2>2
<1>6. ASSUME NEW e, IptFound(e, run.res) PROVE e.name = run.res /\ e.family \in Families
  <2>1. PICK g \in tools \cap Families, c \in Chains : \E i \in DOMAIN ipt[g][c] :
            ipt[g][c][i].name = run.res /\ e = IptEntry(g, c, i)
    BY <1>6 DEF IptFound
  <2> QED
    BY <2>1 DEF IptEntry
<1>7. ASSUME NEW i \in DOMAIN s PROVE s[i].name = run.res /\ s[i].family \in Families
  BY <1>5, <1>6 DEF In
<1>8. ASSUME NEW g \in FamiliesOf(Want), NEW e \in StaleCopies(s, g)
      PROVE  In(e, s) /\ e.family = g /\ e.chain = Want.chain /\ e.body = Want.body
  BY DEF StaleCopies, Range, In
<1>9. /\ \A i \in Good(f) : i \in DOMAIN f /\ Fits(f[i])
      /\ \A i \in DOMAIN f : Fits(f[i]) => \E j \in Good(f) : f[j].family = f[i].family
  BY <1>1, GoodIs
<1>10. ASSUME NEW g \in FamiliesOf(Want), g \in Missing(f) PROVE StaleCopies(s, g) = {}
  <2> SUFFICES ASSUME NEW e \in StaleCopies(s, g) PROVE FALSE
    OBVIOUS
  <2>1. In(e, s) /\ e.family = g /\ e.chain = Want.chain /\ e.body = Want.body
    BY <1>8
  <2>2. PICK i \in DOMAIN f : f[i] = e
    BY <1>1, <1>5, <2>1 DEF In
  <2>3. PICK j \in Good(f) : f[j].family = g
    BY <1>9, <2>1, <2>2 DEF Fits
  <2> QED
    BY <1>10, <2>3 DEF Missing
<1>11. ASSUME NEW g \in FamiliesOf(Want), g \notin Missing(f)
       PROVE  IsFiniteSet(StaleCopies(s, g)) /\ Cardinality(Copies(g)) > Cardinality(StaleCopies(s, g))
  <2>1. PICK j \in Good(f) : f[j].family = g
    BY <1>11 DEF Missing
  <2>2. Fits(f[j]) /\ In(f[j], f)
    BY <1>9 DEF In
  <2>3. f[j] \notin StaleCopies(s, g)
    BY <1>5, <1>8
  <2>4. \A e \in StaleCopies(s, g) \cup {f[j]} :
            IptFound(e, run.res) /\ e.family = g /\ e.chain = Want.chain /\ e.body = Want.body
    BY <1>1, <1>5, <1>8, <2>1, <2>2 DEF Fits
  <2> QED
    BY <2>3, <2>4, MoreCopies
<1> QED
  BY <1>4, <1>7, <1>10, <1>11

LEMMA FoundIs ==
    ASSUME HostTypes, NEW kind \in Kinds, NEW n, NEW first \in Chains, NEW f, f = FoundIn(kind, n, first)
    PROVE  /\ f \in Seq(Entries) /\ \A i \in DOMAIN f : f[i].name = n
           /\ kind = "iptables" => Distinct(f) /\ \A i \in DOMAIN f : f[i].family \in Families
<1>1. CASE kind = "iptables"
  <2>1. f \in Seq(Entries) /\ Distinct(f) /\ \A e : In(e, f) <=> IptFound(e, n)
    BY <1>1, FoundIpt
  <2>2. ASSUME NEW e, IptFound(e, n) PROVE e.name = n /\ e.family \in Families
    <3>1. PICK g \in tools \cap Families, c \in Chains : \E i \in DOMAIN ipt[g][c] :
              ipt[g][c][i].name = n /\ e = IptEntry(g, c, i)
      BY <2>2 DEF IptFound
    <3> QED
      BY <3>1 DEF IptEntry
  <2>3. ASSUME NEW i \in DOMAIN f PROVE f[i].name = n /\ f[i].family \in Families
    BY <2>1, <2>2 DEF In
  <2> QED
    BY <2>1, <2>3
<1>2. CASE kind = "nftables"
  <2>1. /\ f \in Seq(Entries) /\ (nft # Null => \A e : In(e, f) <=> NftFound(e, n))
        /\ nft = Null => f = <<>>
    BY <1>2, FoundNft
  <2>2. ASSUME NEW e, NftFound(e, n) PROVE e.name = n
    <3>1. PICK c \in Chains : \E i \in DOMAIN nft.rules[c] : nft.rules[c][i].name = n /\ e = NftEntry(c, i)
      BY <2>2 DEF NftFound
    <3> QED
      BY <3>1 DEF NftEntry
  <2>3. ASSUME NEW i \in DOMAIN f PROVE f[i].name = n
    <3>1. nft # Null
      BY <2>1
    <3> QED
      BY <2>1, <2>2, <3>1 DEF In
  <2> QED
    BY <1>2, <2>1, <2>3
<1> QED
  BY <1>1, <1>2 DEF Kinds

\* The plan of an apply.
LEMMA ApplyPlan ==
    ASSUME ConfigsTyped, Types, run # Null, run.kind = run.target,
           NEW first \in Chains, NEW f, f = FoundIn(run.kind, run.res, first), NEW n, n = PlanApply(f)
    PROVE  /\ IsRun(n) /\ n.res = run.res /\ n.op = run.op /\ n.kind = run.kind /\ n.target = run.target
           /\ n.from = run.from /\ n.covered = run.covered /\ n.found = f /\ n.alone = run.alone /\ n.step # "find"
           /\ run.kind = "iptables" =>
                \A g \in FamiliesOf(Want) :
                    IF In(g, n.todo) THEN StaleCopies(n.stale, g) = {}
                    ELSE Cardinality(Copies(g)) > Cardinality(StaleCopies(n.stale, g))
<1>1. /\ IsRun(run) /\ HostTypes /\ RunTypes(run) /\ HasFields(run)
      /\ run.kind \in Kinds /\ run.op # "delete" /\ Null \notin Kinds
  BY DEF Types, IsRun, RunTypes, ConfigsTyped
<1>2. Want \in Wanted /\ FamiliesOf(Want) \subseteq Families /\ Want.chain \in Chains
  BY <1>1, WantIs DEF Wanted
<1>3. /\ f \in Seq(Entries) /\ (\A i \in DOMAIN f : f[i].name = run.res)
      /\ run.kind = "iptables" => Distinct(f) /\ \A i \in DOMAIN f : f[i].family \in Families
  BY <1>1, FoundIs
<1>4. CASE run.kind = "iptables"
  <2> DEFINE todo == At(<<"ipv4", "ipv6">>, {i \in 1..2 : <<"ipv4", "ipv6">>[i] \in Missing(f)})
             stale == Leaves(f)
             place == Place(f)
             r == [run EXCEPT !.found = f, !.place = place, !.todo = todo, !.stale = stale]
  <2>1. n = Advance(r)
    BY <1>4 DEF PlanApply, Leaves
  <2>2. todo \in Seq(Families) /\ Distinct(todo) /\ \A e : In(e, todo) <=> e \in Missing(f)
    <3>1. Missing(f) \in SUBSET Families
      BY <1>2 DEF Missing
    <3> QED
      BY <3>1, TodoIs
  <2>3. /\ stale \in Seq(Entries) /\ Distinct(stale)
        /\ \A i \in DOMAIN stale : stale[i].name = run.res /\ stale[i].family \in Families
        /\ \A g \in FamiliesOf(Want) :
             IF g \in Missing(f) THEN StaleCopies(stale, g) = {}
             ELSE Cardinality(Copies(g)) > Cardinality(StaleCopies(stale, g))
    BY <1>1, <1>2, <1>4, LeavesIs
  <2>4. place \in [Families -> Nat]
    BY <1>1, <1>2, <1>4, PlaceIs
  <2> HIDE DEF todo, stale, place
  <2>5. /\ HasFields(r) /\ r.res = run.res /\ r.op = run.op /\ r.kind = run.kind /\ r.target = run.target
        /\ r.found = f /\ r.alone = run.alone /\ r.todo = todo /\ r.stale = stale /\ r.place = place
        /\ r.from = run.from /\ r.covered = run.covered
    BY <1>1 DEF HasFields, FieldNames
  <2> HIDE DEF r
  <2>6. RunTypes(r)
    BY <1>1, <1>3, <1>4, <2>2, <2>3, <2>4, <2>5 DEF RunTypes
  <2>7. /\ IsRun(n) /\ n.res = r.res /\ n.op = r.op /\ n.kind = r.kind /\ n.target = r.target
        /\ n.found = r.found /\ n.alone = r.alone /\ n.todo = r.todo /\ n.stale = r.stale /\ n.from = r.from
        /\ n.covered = r.covered /\ n.step \notin {"find", "script"}
    <3>1. r.kind = "iptables" /\ r.kind = r.target
      BY <1>4, <2>5
    <3>2. n.alone = r.alone
      BY <2>1, <2>5, Advanced
    <3> QED
      BY <2>1, <2>6, <3>1, <3>2, AdvancedRun
  <2> QED
    BY <2>2, <2>3, <2>5, <2>7
<1>5. CASE run.kind # "iptables"
  <2>1. PICK step \in {"end", "script"} : n = [run EXCEPT !.found = f, !.step = step]
    BY <1>5 DEF PlanApply
  <2>2. /\ HasFields(n) /\ n.res = run.res /\ n.op = run.op /\ n.kind = run.kind /\ n.target = run.target
        /\ n.found = f /\ n.alone = run.alone /\ n.todo = run.todo /\ n.stale = run.stale /\ n.place = run.place
        /\ n.from = run.from /\ n.covered = run.covered /\ n.step = step
    BY <1>1, <2>1 DEF HasFields, FieldNames
  <2>3. RunTypes(n)
    BY <1>1, <1>3, <2>2 DEF RunTypes
  <2>4. RunStep(n)
    BY <1>5, <2>2 DEF RunStep
  <2> QED
    BY <1>5, <2>2, <2>3, <2>4 DEF IsRun
<1> QED
  BY <1>4, <1>5

LEMMA RemovalPlan ==
    ASSUME ConfigsTyped, Types, run # Null, Removing,
           NEW first \in Chains, NEW f, f = FoundIn(run.kind, run.res, first), NEW n, n = PlanRemoval(f)
    PROVE  /\ IsRun(n) /\ n.res = run.res /\ n.op = run.op /\ n.kind = run.kind /\ n.target = run.target
           /\ n.from = run.from /\ n.found = f /\ n.step # "find"
           /\ (n.step = "script" /\ n.alone) => NoOtherRules /\ (nft # Null => ~nft.objects)
<1>1. IsRun(run) /\ HostTypes /\ RunTypes(run) /\ HasFields(run) /\ run.kind \in Kinds /\ run.kind # run.target
  BY DEF Types, IsRun, RunTypes, Removing
<1>2. /\ f \in Seq(Entries) /\ (\A i \in DOMAIN f : f[i].name = run.res)
      /\ run.kind = "iptables" => Distinct(f) /\ \A i \in DOMAIN f : f[i].family \in Families
  BY <1>1, FoundIs
<1>3. CASE run.kind = "iptables"
  <2> DEFINE r == [run EXCEPT !.found = f, !.stale = f]
  <2>1. n = Advance(r)
    BY <1>3 DEF PlanRemoval
  <2>2. /\ HasFields(r) /\ r.res = run.res /\ r.op = run.op /\ r.kind = run.kind /\ r.target = run.target
        /\ r.found = f /\ r.alone = run.alone /\ r.todo = run.todo /\ r.stale = f /\ r.place = run.place
        /\ r.from = run.from
    BY <1>1 DEF HasFields, FieldNames
  <2> HIDE DEF r
  <2>3. RunTypes(r)
    BY <1>1, <1>2, <1>3, <2>2 DEF RunTypes
  <2>4. r.kind = "iptables" /\ r.todo = <<>>
    BY <1>1, <1>3, <2>2 DEF RunTypes
  <2>5. /\ IsRun(n) /\ n.res = r.res /\ n.op = r.op /\ n.kind = r.kind /\ n.target = r.target
        /\ n.found = r.found /\ n.from = r.from /\ n.step \notin {"find", "script"}
    BY <2>1, <2>3, <2>4, AdvancedRun
  <2> QED
    BY <2>2, <2>5
<1>4. CASE run.kind # "iptables"
  <2> DEFINE alone == NoOtherRules /\ (nft # Null => ~nft.objects)
  <2>1. PICK step \in {"end", "script"} : n = [run EXCEPT !.found = f, !.step = step, !.alone = alone]
    BY <1>4 DEF PlanRemoval
  <2>5. alone => NoOtherRules /\ (nft # Null => ~nft.objects)
    OBVIOUS
  <2> HIDE DEF alone
  <2>2. /\ HasFields(n) /\ n.res = run.res /\ n.op = run.op /\ n.kind = run.kind /\ n.target = run.target
        /\ n.found = f /\ n.alone = alone /\ n.todo = run.todo /\ n.stale = run.stale /\ n.place = run.place
        /\ n.from = run.from /\ n.step = step
    BY <1>1, <2>1 DEF HasFields, FieldNames
  <2>6. run.kind = "nftables" /\ run.from = "nftables" /\ run.target # "nftables"
    BY <1>1, <1>4 DEF RunTypes, Kinds
  <2>3. RunTypes(n)
    BY <1>1, <1>2, <2>2, <2>6 DEF RunTypes
  <2>4. RunStep(n)
    BY <1>4, <2>2 DEF RunStep
  <2> QED
    BY <2>2, <2>3, <2>4, <2>5 DEF IsRun
<1> QED
  BY <1>3, <1>4

-----------------------------------------------------------------------------
(* The steps.                                                               *)
LEMMA HostSame == ASSUME HostTypes, UNCHANGED <<nft, ipt>> PROVE HostTypes'
  BY DEF HostTypes

LEMMA RunSame == ASSUME run # Null, IsRun(run), UNCHANGED <<run, config>> PROVE IsRun(run)'
  BY DEF IsRun, RunTypes, RunStep

\* A step that leaves the host and the operation alone.
LEMMA QuietStep ==
    ASSUME FirewallInvariant, UNCHANGED <<host, config, run, raced, foreign>>,
           state' \in [Resources -> Attributes \cup {Null}],
           tainted' \in [Resources -> BOOLEAN], \A r \in Resources : tainted'[r] => state'[r] # Null
    PROVE  FirewallInvariant'
<1> USE DEF host
<1>1. Types /\ Backed /\ Looked /\ HostTypes
  BY DEF FirewallInvariant, Types
<1>2. Types'
  <2>1. HostTypes'
    BY <1>1, HostSame
  <2>2. (run # Null => IsRun(run))'
    BY <1>1, RunSame DEF Types
  <2> QED
    BY <1>1, <2>1, <2>2 DEF Types
<1>3. Backed'
  <2>1. Covered(run.kind, run.res)' = Covered(run.kind, run.res)
    BY DEF Covered, Found, FoundIn, Tagged, NftChain, IptChain, Table, FamiliesOf
  <2>2. ASSUME NEW f PROVE Copies(f)' = Copies(f) /\ StaleCopies(run.stale, f)' = StaleCopies(run.stale, f)
    BY DEF Copies, StaleCopies, Same, Want, Rule
  <2> QED
    BY <1>1, <2>1, <2>2 DEF Backed, Want, FamiliesOf
<1>4. Looked'
  BY <1>1 DEF Looked, NoOtherRules, FoundHandles
<1> QED
  BY <1>2, <1>3, <1>4 DEF FirewallInvariant

\* A step with which no operation runs.
LEMMA NoRun ==
    ASSUME run' = Null, HostTypes', config' \in [Resources -> Wanted \cup {Null}],
           tools' \subseteq Families \cup {"nft"}, foreign' \in Nat,
           state' \in [Resources -> Attributes \cup {Null}],
           tainted' \in [Resources -> BOOLEAN], \A r \in Resources : tainted'[r] => state'[r] # Null
    PROVE  FirewallInvariant'
  BY DEF FirewallInvariant, Types, Backed, Looked

LEMMA ConfigureStep ==
    ASSUME ConfigsTyped, FirewallInvariant, NEW r \in Resources, Configure(r) PROVE FirewallInvariant'
<1>1. Types /\ HostTypes
  BY DEF FirewallInvariant, Types
<1>2. HostTypes' /\ run' = Null
  BY <1>1, HostSame DEF Configure, host
<1>3. config' \in [Resources -> Wanted \cup {Null}]
  <2>1. PICK c \in Configs[r] \cup {Null} : config' = [config EXCEPT ![r] = c]
    BY DEF Configure
  <2> QED
    BY <1>1, <2>1 DEF ConfigsTyped, Types
<1> QED
  BY <1>1, <1>2, <1>3, NoRun DEF Configure, host, Types

LEMMA MergedIs ==
    ASSUME NEW k, NEW f \in Seq(Entries)
    PROVE  Merged(k, f) = Null \/ Merged(k, f) \in [family : Families \cup {"inet"}, chain : Chains, body : Bodies \cup {Null}]
<1>1. CASE Len(f) = 1
  <2>1. f[1] \in Entries
    BY <1>1
  <2> QED
    BY <1>1, <2>1 DEF Merged, Entries
<1>2. CASE Len(f) = 2
  <2>1. f[1] \in Entries
    BY <1>2
  <2> QED
    BY <1>2, <2>1 DEF Merged, Entries
<1>3. CASE Len(f) # 1 /\ Len(f) # 2
  BY <1>3 DEF Merged
<1> QED
  BY <1>1, <1>2, <1>3

LEMMA StateOfIs ==
    ASSUME NEW b \in Kinds \cup {"auto"}, NEW k \in Kinds,
           NEW m, m.family \in Families \cup {"inet"}, m.chain \in Chains, m.body \in Bodies \cup {Null}
    PROVE  StateOf(b, k, m) \in Attributes
  BY DEF StateOf, Attributes

LEMMA RefreshedIs ==
    ASSUME NEW s \in Attributes, NEW f \in Seq(Entries)
    PROVE  Refreshed(s, f) \in Attributes \cup {Null}
<1> DEFINE m == Merged(s.active, f)
<1>1. m = Null \/ m \in [family : Families \cup {"inet"}, chain : Chains, body : Bodies \cup {Null}]
  BY MergedIs
<1>2. CASE f = <<>>
  BY <1>2 DEF Refreshed
<1>3. CASE f # <<>> /\ m = Null
  <2>1. Refreshed(s, f) = [s EXCEPT !.body = Null]
    BY <1>3 DEF Refreshed
  <2> QED
    BY <2>1 DEF Attributes
<1>4. CASE f # <<>> /\ m # Null
  <2>1. Refreshed(s, f) = StateOf(s.backend, s.active, m)
    BY <1>4 DEF Refreshed
  <2>2. s.backend \in Kinds \cup {"auto"} /\ s.active \in Kinds
    BY DEF Attributes
  <2> HIDE DEF m
  <2>3. m.family \in Families \cup {"inet"} /\ m.chain \in Chains /\ m.body \in Bodies \cup {Null}
    BY <1>1, <1>4
  <2> QED
    BY <2>1, <2>2, <2>3, StateOfIs
<1> QED
  BY <1>2, <1>3, <1>4

LEMMA FoundTyped == ASSUME HostTypes, NEW k \in Kinds, NEW n PROVE Found(k, n) \in Seq(Entries)
<1>1. "input" \in Chains
  BY DEF Chains
<1>2. FoundIn(k, n, "input") \in Seq(Entries)
  BY <1>1, FoundIs
<1> QED
  BY <1>2 DEF Found

LEMMA RefreshStep ==
    ASSUME FirewallInvariant, NEW r \in Resources, Refresh(r) PROVE FirewallInvariant'
<1>1. Types /\ HostTypes
  BY DEF FirewallInvariant, Types
<1>2. state[r] \in Attributes /\ state[r].active \in Kinds
  BY <1>1 DEF Types, Refresh, Attributes
<1> DEFINE s == Refreshed(state[r], Found(state[r].active, r))
<1>3. s \in Attributes \cup {Null}
  BY <1>1, <1>2, FoundTyped, RefreshedIs
<1>4. state' = [state EXCEPT ![r] = s] /\ tainted' = [tainted EXCEPT ![r] = tainted[r] /\ state'[r] # Null]
  BY DEF Refresh
<1> HIDE DEF s
<1>5. state' \in [Resources -> Attributes \cup {Null}]
  BY <1>1, <1>3, <1>4 DEF Types
<1>6. tainted' \in [Resources -> BOOLEAN] /\ \A q \in Resources : tainted'[q] => state'[q] # Null
  BY <1>1, <1>4 DEF Types
<1>7. UNCHANGED <<host, config, run, raced, foreign>>
  BY DEF Refresh, bounds
<1> QED
  BY <1>5, <1>6, <1>7, QuietStep

LEMMA ImportStep ==
    ASSUME ConfigsTyped, FirewallInvariant, NEW r \in Resources, Import(r) PROVE FirewallInvariant'
<1>1. Types /\ HostTypes
  BY DEF FirewallInvariant, Types
<1>2. PICK b \in Kinds \cup {"auto"}, k \in Kinds :
          Merged(k, Found(k, r)) # Null /\ state' = [state EXCEPT ![r] = StateOf(b, k, Merged(k, Found(k, r)))]
  <2>1. PICK b \in Kinds \cup {"auto"} :
            LET looked == IF b = "auto" THEN {k \in Kinds : Available(k)} ELSE {b}
                hits == {k \in looked : Found(k, r) # <<>>}
            IN  \E k \in hits : /\ hits = {k} /\ Merged(k, Found(k, r)) # Null
                                /\ state' = [state EXCEPT ![r] = StateOf(b, k, Merged(k, Found(k, r)))]
    BY DEF Import
  <2>2. PICK k \in (IF b = "auto" THEN {x \in Kinds : Available(x)} ELSE {b}) :
            Merged(k, Found(k, r)) # Null /\ state' = [state EXCEPT ![r] = StateOf(b, k, Merged(k, Found(k, r)))]
    BY <2>1
  <2>3. k \in Kinds
    OBVIOUS
  <2> QED
    BY <2>2, <2>3
<1> DEFINE m == Merged(k, Found(k, r))
<1>3. m = Null \/ m \in [family : Families \cup {"inet"}, chain : Chains, body : Bodies \cup {Null}]
  BY <1>1, FoundTyped, MergedIs
<1> HIDE DEF m
<1>4. StateOf(b, k, m) \in Attributes
  <2>1. m.family \in Families \cup {"inet"} /\ m.chain \in Chains /\ m.body \in Bodies \cup {Null}
    BY <1>2, <1>3 DEF m
  <2> QED
    BY <2>1, StateOfIs
<1>5. state' = [state EXCEPT ![r] = StateOf(b, k, m)] /\ tainted' = tainted
  BY <1>2 DEF m, Import
<1>8. Null \notin Attributes
  BY DEF ConfigsTyped
<1>6. state' \in [Resources -> Attributes \cup {Null}]
  BY <1>1, <1>4, <1>5 DEF Types
<1>7. tainted' \in [Resources -> BOOLEAN] /\ \A q \in Resources : tainted'[q] => state'[q] # Null
  BY <1>1, <1>4, <1>5, <1>8 DEF Types
<1>9. UNCHANGED <<host, config, run, raced, foreign>>
  BY DEF Import, bounds
<1> QED
  BY <1>6, <1>7, <1>9, QuietStep

LEMMA BeginStep ==
    ASSUME ConfigsTyped, FirewallInvariant, NEW r \in Resources, BeginCreate(r) \/ BeginUpdate(r) \/ BeginDelete(r)
    PROVE  FirewallInvariant'
<1>1. Types /\ HostTypes /\ Null \notin Kinds /\ config \in [Resources -> Wanted \cup {Null}]
  BY DEF FirewallInvariant, Types, ConfigsTyped
<1>2. ASSUME config[r] # Null PROVE config[r].backend \in Kinds \cup {"auto"}
  <2>1. config[r] \in Wanted
    BY <1>1, <1>2
  <2> QED
    BY <2>1 DEF Wanted
<1>3. ASSUME state[r] # Null PROVE state[r].active \in Kinds
  <2>1. state[r] \in Attributes
    BY <1>1, <1>3 DEF Types
  <2> QED
    BY <2>1 DEF Attributes
<1>4. \E o \in {"create", "update", "delete"}, from \in Kinds, target \in Kinds \cup {Null} :
         /\ Start(r, o, from, target) /\ (o = "delete" <=> target = Null)
         /\ (o # "delete" => config[r] # Null) /\ (o = "create" => from = target)
  <2>1. CASE BeginCreate(r)
    <3>1. PICK kind : Start(r, "create", kind, kind) /\ kind \in Kinds /\ config[r] # Null
      BY <2>1, <1>2 DEF BeginCreate, Kinds
    <3> QED
      BY <1>1, <3>1
  <2>2. CASE BeginUpdate(r)
    <3>1. PICK target \in Kinds : Start(r, "update", state[r].active, target) /\ config[r] # Null
      BY <2>2, <1>2, <1>3 DEF BeginUpdate
    <3>2. state[r].active \in Kinds
      BY <2>2, <1>3 DEF BeginUpdate
    <3> QED
      BY <1>1, <3>1, <3>2
  <2>3. CASE BeginDelete(r)
    <3>1. Start(r, "delete", state[r].active, Null) /\ state[r].active \in Kinds
      BY <2>3, <1>3 DEF BeginDelete
    <3> QED
      BY <1>1, <3>1
  <2> QED
    BY <2>1, <2>2, <2>3
<1>5. PICK o \in {"create", "update", "delete"}, from \in Kinds, target \in Kinds \cup {Null} :
         /\ Start(r, o, from, target) /\ (o = "delete" <=> target = Null)
         /\ (o # "delete" => config[r] # Null) /\ (o = "create" => from = target)
  BY <1>4
<1>6. /\ IsRun(run)' /\ run'.res = r /\ run'.op = o /\ run'.kind = from /\ run'.target = target
      /\ run'.step = "find" /\ run'.from = from /\ run'.covered = Covered(from, r)
  BY <1>5, Started
<1>7. UNCHANGED <<host, config, state, tainted, foreign>>
  BY <1>5 DEF Start, bounds
<1>8. HostTypes'
  BY <1>1, <1>7, HostSame DEF host
<1>9. Types'
  BY <1>1, <1>6, <1>7, <1>8 DEF Types, host
<1>10. Looked'
  BY <1>6 DEF Looked
<1>11. Covered(run.kind, run.res)' = Covered(from, r)
  <2>1. Covered(run.kind, run.res)' = Covered(run'.kind, run'.res)
    BY <1>7 DEF host, Covered, Found, FoundIn, Tagged, NftChain, IptChain, Table, FamiliesOf
  <2> QED
    BY <1>6, <2>1
<1>12. Backed'
  BY <1>6, <1>11 DEF Backed
<1> QED
  BY <1>9, <1>10, <1>12 DEF FirewallInvariant

LEMMA RecordedIs ==
    ASSUME ConfigsTyped, Types, run # Null, run.op # "delete"
    PROVE  /\ config[run.res] \in Wanted
           /\ StateOf(config[run.res].backend, run.kind, config[run.res]) \in Attributes
<1>1. config[run.res] \in Wanted /\ run.kind \in Kinds
  BY WantIs DEF Want, Types, IsRun, RunTypes
<1>2. /\ config[run.res].backend \in Kinds \cup {"auto"} /\ config[run.res].family \in Families \cup {"inet"}
      /\ config[run.res].chain \in Chains /\ config[run.res].body \in Bodies \cup {Null}
  BY <1>1 DEF Wanted
<1> QED
  BY <1>1, <1>2, StateOfIs

LEMMA FailStep ==
    ASSUME ConfigsTyped, FirewallInvariant, run # Null, HostTypes', tools' = tools, Fail
    PROVE  FirewallInvariant'
<1>1. Types /\ run.res \in Resources /\ Null \notin Attributes
  BY DEF FirewallInvariant, Types, IsRun, RunTypes, ConfigsTyped
<1>2. run' = Null /\ UNCHANGED <<config, foreign>>
  BY DEF Fail
<1>3. /\ state' \in [Resources -> Attributes \cup {Null}]
      /\ tainted' \in [Resources -> BOOLEAN] /\ \A r \in Resources : tainted'[r] => state'[r] # Null
  <2>1. CASE run.op = "create" /\ Record(run.res)
    <3> DEFINE s == StateOf(config[run.res].backend, run.kind, config[run.res])
    <3>1. s \in Attributes
      BY <1>1, <2>1, RecordedIs
    <3>2. state' = [state EXCEPT ![run.res] = s] /\ tainted' = [tainted EXCEPT ![run.res] = TRUE]
      BY <2>1 DEF Record
    <3> HIDE DEF s
    <3> QED
      BY <1>1, <3>1, <3>2 DEF Types
  <2>2. CASE UNCHANGED <<state, tainted>>
    BY <1>1, <2>2 DEF Types
  <2> QED
    BY <2>1, <2>2 DEF Fail
<1> QED
  BY <1>1, <1>2, <1>3, NoRun DEF Types

LEMMA GiveUpStep ==
    ASSUME FirewallInvariant, UNCHANGED host, run' = Null, UNCHANGED <<config, state, tainted, foreign>>
    PROVE  FirewallInvariant'
<1>1. Types /\ HostTypes
  BY DEF FirewallInvariant, Types
<1>2. HostTypes' /\ tools' = tools
  BY <1>1, HostSame DEF host
<1> QED
  BY <1>1, <1>2, NoRun DEF Types

LEMMA EndedStep ==
    ASSUME ConfigsTyped, FirewallInvariant, CommandFails \/ Kill PROVE FirewallInvariant'
<1>1. HostTypes
  BY DEF FirewallInvariant, Types
<1>2. CASE Kill
  BY <1>2, GiveUpStep DEF Kill
<1>3. CASE CommandFails
  <2>1. run # Null /\ UNCHANGED host
    BY <1>3 DEF CommandFails
  <2>2. CASE GiveUp
    BY <2>1, <2>2, GiveUpStep DEF GiveUp
  <2>3. CASE Fail
    <3>1. HostTypes' /\ tools' = tools
      BY <1>1, <2>1, HostSame DEF host
    <3> QED
      BY <2>1, <2>3, <3>1, FailStep
  <2> QED
    BY <1>3, <2>2, <2>3 DEF CommandFails
<1> QED
  BY <1>2, <1>3

\* What a listing of the table shows of the rules that a script deletes.
LEMMA FoundHandlesOwned ==
    ASSUME HostTypes, nft # Null, NEW n, NEW first \in Chains, NEW f, f = FoundIn("nftables", n, first),
           NEW c \in Chains, NEW i \in DOMAIN nft.rules[c], NEW j \in DOMAIN f,
           f[j].chain = c, f[j].at = nft.rules[c][i].handle
    PROVE  nft.rules[c][i].name = n
<1>1. \A e : In(e, f) <=> NftFound(e, n)
  BY FoundNft
<1>2. PICK d \in Chains : \E k \in DOMAIN nft.rules[d] : nft.rules[d][k].name = n /\ f[j] = NftEntry(d, k)
  BY <1>1 DEF In, NftFound
<1>3. PICK k \in DOMAIN nft.rules[d] : nft.rules[d][k].name = n /\ f[j] = NftEntry(d, k)
  BY <1>2
<1>4. d = c /\ nft.rules[c][k].handle = nft.rules[c][i].handle
  BY <1>3 DEF NftEntry
<1> QED
  BY <1>3, <1>4 DEF HostTypes

LEMMA FindStep == ASSUME ConfigsTyped, FirewallInvariant, Find PROVE FirewallInvariant'
<1>1. /\ Types /\ HostTypes /\ Backed /\ run # Null /\ IsRun(run) /\ RunTypes(run) /\ run.step = "find"
      /\ UNCHANGED host /\ Null \notin Kinds
  BY DEF FirewallInvariant, Types, Find, IsRun, ConfigsTyped
<1>2. HostTypes' /\ tools' = tools
  BY <1>1, HostSame DEF host
<1>3. CASE GiveUp
  BY <1>1, <1>3, GiveUpStep DEF GiveUp
<1>4. CASE Fail
  BY <1>1, <1>2, <1>4, FailStep
<1>5. ASSUME NEW first \in Chains, NEW f, f = FoundIn(run.kind, run.res, first),
             NEW n, Go(n),
             (~Removing /\ n = PlanApply(f)) \/ (Removing /\ n = PlanRemoval(f))
      PROVE  FirewallInvariant'
  <2>1. /\ run' = n /\ UNCHANGED <<config, state, tainted, raced, foreign>>
    BY <1>5 DEF Go, bounds
  <2>2. ~Removing /\ run.kind = "nftables" => ~run.alone
    BY <1>1 DEF Removing, RunTypes
  <2>3. ~Removing =>
           /\ IsRun(n) /\ n.res = run.res /\ n.op = run.op /\ n.kind = run.kind /\ n.target = run.target
           /\ n.from = run.from /\ n.covered = run.covered /\ n.found = f /\ n.alone = run.alone /\ n.step # "find"
           /\ run.kind = "iptables" =>
                \A g \in FamiliesOf(Want) :
                    IF In(g, n.todo) THEN StaleCopies(n.stale, g) = {}
                    ELSE Cardinality(Copies(g)) > Cardinality(StaleCopies(n.stale, g))
    BY <1>1, <1>5, ApplyPlan DEF Removing
  <2>4. Removing =>
           /\ IsRun(n) /\ n.res = run.res /\ n.op = run.op /\ n.kind = run.kind /\ n.target = run.target
           /\ n.from = run.from /\ n.found = f /\ n.step # "find"
           /\ (n.step = "script" /\ n.alone) => NoOtherRules /\ (nft # Null => ~nft.objects)
    BY <1>1, <1>5, RemovalPlan
  <2>5. /\ IsRun(n) /\ n.res = run.res /\ n.op = run.op /\ n.kind = run.kind /\ n.target = run.target
        /\ n.from = run.from /\ n.found = f /\ n.step # "find"
    BY <2>3, <2>4
  <2>6. Types'
    <3>1. IsRun(run)'
      BY <2>1, <2>5 DEF IsRun, RunTypes, RunStep
    <3> QED
      BY <1>1, <1>2, <2>1, <3>1 DEF Types
  <2>7. Looked'
    <3> SUFFICES ASSUME run'.step = "script", ~raced', nft' # Null
                 PROVE  /\ \A c \in Chains : \A i \in DOMAIN nft'.rules[c] :
                             nft'.rules[c][i].handle \in FoundHandles(c)' => nft'.rules[c][i].name = run'.res
                        /\ run'.alone => ~nft'.objects /\ NoOtherRules'
      BY DEF Looked
    <3>1. nft' = nft /\ run' = n
      BY <1>1, <2>1 DEF host
    <3>2. run.kind = "nftables"
      BY <2>1, <2>5 DEF IsRun, RunStep, RunTypes, Kinds
    <3>3. ASSUME NEW c \in Chains, NEW i \in DOMAIN nft.rules[c], nft.rules[c][i].handle \in FoundHandles(c)'
          PROVE  nft.rules[c][i].name = run.res
      <4>1. PICK j \in DOMAIN f : f[j].chain = c /\ f[j].at = nft.rules[c][i].handle
        BY <2>1, <2>5, <3>3 DEF FoundHandles
      <4> QED
        BY <1>1, <1>5, <3>1, <3>2, <4>1, FoundHandlesOwned
    <3>4. ASSUME n.alone PROVE ~nft.objects /\ NoOtherRules'
      <4>1. Removing
        BY <2>2, <2>3, <3>2, <3>4
      <4>2. NoOtherRules /\ ~nft.objects
        BY <2>1, <2>4, <3>1, <3>4, <4>1
      <4> QED
        BY <2>1, <2>5, <3>1, <4>2 DEF NoOtherRules
    <3> QED
      BY <2>5, <3>1, <3>3, <3>4
  <2>8. Backed'
    <3> SUFFICES ASSUME run'.op = "update", run'.from = run'.target, ~raced'
                 PROVE  Backed'
      BY DEF Backed
    <3>1. run.kind = run.target /\ run.covered \cap FamiliesOf(Want) \subseteq Covered(run.kind, run.res)
      BY <1>1, <2>1, <2>5 DEF Backed
    <3>2. ~Removing
      BY <3>1 DEF Removing
    <3>3. Want' = Want
      BY <2>1, <2>5 DEF Want
    <3>4. Covered(run.kind, run.res)' = Covered(run.kind, run.res)
      <4>1. Covered(run.kind, run.res)' = Covered(run'.kind, run'.res)
        BY <1>1 DEF host, Covered, Found, FoundIn, Tagged, NftChain, IptChain, Table, FamiliesOf
      <4> QED
        BY <2>1, <2>5, <4>1
    <3>5. ASSUME NEW g \in FamiliesOf(Want)
          PROVE  Copies(g)' = Copies(g) /\ StaleCopies(run.stale, g)' = StaleCopies(n.stale, g)
      BY <1>1, <2>1, <2>5, <3>3 DEF host, Copies, StaleCopies, Same, Rule
    <3>6. run'.kind = "iptables" =>
            \A g \in FamiliesOf(Want)' :
                IF In(g, run'.todo) THEN StaleCopies(run.stale, g)' = {}
                ELSE Cardinality(Copies(g)') > Cardinality(StaleCopies(run.stale, g)')
      BY <2>1, <2>3, <2>5, <3>2, <3>3, <3>5 DEF FamiliesOf
    <3> QED
      BY <2>1, <2>3, <2>5, <3>1, <3>2, <3>3, <3>4, <3>6 DEF Backed, FamiliesOf
  <2> QED
    BY <2>6, <2>7, <2>8 DEF FirewallInvariant
<1>6. PICK first \in Chains :
         \/ GiveUp
         \/ IF Removing THEN Go(PlanRemoval(FoundIn(run.kind, run.res, first)))
            ELSE Go(PlanApply(FoundIn(run.kind, run.res, first))) \/ Fail
  BY DEF Find
<1>7. CASE Removing /\ Go(PlanRemoval(FoundIn(run.kind, run.res, first)))
  BY <1>5, <1>7
<1>8. CASE ~Removing /\ Go(PlanApply(FoundIn(run.kind, run.res, first)))
  BY <1>5, <1>8
<1> QED
  BY <1>3, <1>4, <1>6, <1>7, <1>8

LEMMA FieldFinite ==
    ASSUME NEW n \in Nat, NEW I \in SUBSET (1..n), NEW g
    PROVE  IsFiniteSet({g[i] : i \in I})
<1> DEFINE T == {g[i] : i \in I}
           h == [i \in I |-> g[i]]
<1>2. IsFiniteSet(I)
  BY RankOrder
<1>3. h \in Surjection(I, T)
  BY DEF Surjection
<1> HIDE DEF T, h
<1>4. IsFiniteSet(T)
  BY <1>2, <1>3, FS_Surjection
<1> QED
  BY <1>4 DEF T

LEMMA FreshIs ==
    ASSUME HostTypes, run # Null => IsRun(run)
    PROVE  /\ Fresh \in Nat \ {0}
           /\ nft # Null => \A c \in Chains : Fresh \notin Handles(nft, c)
           /\ run # Null => \A c \in Chains : Fresh \notin FoundHandles(c)
<1> DEFINE shown(c) == IF run = Null THEN {} ELSE FoundHandles(c)
           held(c) == IF nft = Null THEN {} ELSE Handles(nft, c)
           used == UNION {shown(c) \cup held(c) : c \in Chains}
<1>1. ASSUME NEW c \in Chains PROVE IsFiniteSet(shown(c))
  <2>1. CASE run = Null
    BY <2>1, FS_EmptySet
  <2>2. CASE run # Null
    <3> DEFINE f == run.found
               I == {j \in DOMAIN f : f[j].chain = c}
               g == [i \in DOMAIN f |-> f[i].at]
    <3>1. f \in Seq(Entries)
      BY <2>2 DEF IsRun, RunTypes
    <3>2. Len(f) \in Nat /\ I \in SUBSET (1..Len(f))
      BY <3>1
    <3>3. FoundHandles(c) = {g[i] : i \in I}
      BY DEF FoundHandles
    <3> HIDE DEF f, I, g
    <3>4. IsFiniteSet({g[i] : i \in I})
      BY <3>1, <3>2, FieldFinite
    <3> QED
      BY <2>2, <3>3, <3>4
  <2> QED
    BY <2>1, <2>2
<1>2. ASSUME NEW c \in Chains PROVE IsFiniteSet(held(c))
  <2>1. CASE nft = Null
    BY <2>1, FS_EmptySet
  <2>2. CASE nft # Null
    <3> DEFINE s == nft.rules[c]
               g == [i \in DOMAIN s |-> s[i].handle]
    <3>1. s \in Seq(NftRules)
      BY <2>2 DEF HostTypes
    <3>2. Handles(nft, c) = {g[i] : i \in DOMAIN s}
      BY DEF Handles
    <3>4. Len(s) \in Nat /\ DOMAIN s \in SUBSET (1..Len(s))
      <4> HIDE DEF s, g
      <4> QED
        BY <3>1
    <3> HIDE DEF s, g
    <3> QED
      BY <2>2, <3>2, <3>4, FieldFinite
  <2> QED
    BY <2>1, <2>2
<1>3. Fresh = CHOOSE h \in 1..(Cardinality(used) + 1) : h \notin used
  BY DEF Fresh
<1> HIDE DEF shown, held
<1>4. IsFiniteSet(used)
  <2> DEFINE A == shown("input") \cup held("input")
             B == shown("forward") \cup held("forward")
  <2>1. "input" \in Chains /\ "forward" \in Chains /\ Chains = {"input", "forward"}
    BY DEF Chains
  <2>2. IsFiniteSet(A) /\ IsFiniteSet(B)
    BY <1>1, <1>2, <2>1, FS_Union
  <2>3. used = A \cup B
    BY <2>1
  <2> HIDE DEF A, B, used
  <2> QED
    BY <2>2, <2>3, FS_Union
<1>5. \A c \in Chains : shown(c) \subseteq used /\ held(c) \subseteq used
  OBVIOUS
<1> HIDE DEF used
<1>6. Cardinality(used) \in Nat
  BY <1>4, FS_CardinalityType
<1>7. \E h \in 1..(Cardinality(used) + 1) : h \notin used
  <2> SUFFICES ASSUME 1..(Cardinality(used) + 1) \subseteq used PROVE FALSE
    OBVIOUS
  <2>1. Cardinality(1..(Cardinality(used) + 1)) = Cardinality(used) + 1
    BY <1>6, FS_Interval
  <2>2. Cardinality(1..(Cardinality(used) + 1)) <= Cardinality(used)
    BY <1>4, FS_Subset
  <2> QED
    BY <1>6, <2>1, <2>2
<1>8. Fresh \in 1..(Cardinality(used) + 1) /\ Fresh \notin used
  BY <1>3, <1>7
<1>9. Fresh \in Nat \ {0}
  BY <1>6, <1>8
<1>10. ASSUME NEW c \in Chains PROVE Fresh \notin shown(c) /\ Fresh \notin held(c)
  BY <1>5, <1>8
<1> QED
  BY <1>9, <1>10 DEF shown, held

\* A list of rules of which each has a handle of its own.
Owned(s) == s \in Seq(NftRules) /\ \A i, j \in DOMAIN s : s[i].handle = s[j].handle => i = j

LEMMA WithoutIs ==
    ASSUME NEW s, Owned(s), NEW H, NEW t, t = Without(s, H)
    PROVE  Owned(t) /\ \A e : In(e, t) <=> In(e, s) /\ e.handle \notin H
<1> DEFINE I == {i \in DOMAIN s : s[i].handle \notin H}
<1>1. s \in Seq(NftRules) /\ I \in SUBSET (1..Len(s)) /\ t = At(s, I) /\ DOMAIN s = 1..Len(s) /\ Len(s) \in Nat
  BY DEF Owned, Without
<1>2. \A e : In(e, s) /\ e.handle \notin H <=> \E i \in I : s[i] = e
  BY DEF In
<1> HIDE DEF I
<1>3. t \in Seq(NftRules) /\ (\A e : In(e, t) <=> \E i \in I : s[i] = e)
  BY <1>1, Kept
<1>4. ASSUME NEW i \in DOMAIN t, NEW j \in DOMAIN t, t[i].handle = t[j].handle PROVE i = j
  <2>1. Distinct(s)
    BY DEF Distinct, Owned
  <2>2. Distinct(t)
    BY <1>1, <2>1, Kept
  <2>3. PICK p \in I : s[p] = t[i]
    BY <1>3 DEF In
  <2>4. PICK q \in I : s[q] = t[j]
    BY <1>3 DEF In
  <2>5. p = q
    BY <1>1, <1>4, <2>3, <2>4 DEF Owned
  <2> QED
    BY <2>2, <2>3, <2>4, <2>5 DEF Distinct
<1> QED
  BY <1>2, <1>3, <1>4 DEF Owned

LEMMA AppendedIs ==
    ASSUME NEW s, Owned(s), NEW e \in NftRules, \A i \in DOMAIN s : s[i].handle # e.handle, NEW t, t = Append(s, e)
    PROVE  Owned(t) /\ In(e, t) /\ \A d : In(d, s) => In(d, t)
<1>1. /\ s \in Seq(NftRules) /\ Len(s) \in Nat /\ DOMAIN s = 1..Len(s)
      /\ t \in Seq(NftRules) /\ Len(t) = Len(s) + 1 /\ DOMAIN t = 1..Len(t)
      /\ \A i \in DOMAIN s : t[i] = s[i] /\ i \in DOMAIN t
      /\ t[Len(s) + 1] = e
  BY DEF Owned
<1>2. ASSUME NEW i \in DOMAIN t PROVE IF i \in DOMAIN s THEN t[i] = s[i] ELSE i = Len(s) + 1 /\ t[i] = e
  BY <1>1
<1>3. Owned(t)
  BY <1>1, <1>2 DEF Owned
<1>4. Len(s) + 1 \in DOMAIN t
  BY <1>1
<1> QED
  BY <1>1, <1>3, <1>4 DEF In

\* A rule in the place of the one with a handle.
LEMMA ReplacedIs ==
    ASSUME NEW s, Owned(s), NEW e \in NftRules, \A i \in DOMAIN s : s[i].handle # e.handle, NEW h,
           NEW t, t = [i \in DOMAIN s |-> IF s[i].handle = h THEN e ELSE s[i]]
    PROVE  Owned(t) /\ ((\E i \in DOMAIN s : s[i].handle = h) => In(e, t))
<1>1. s \in Seq(NftRules) /\ Len(s) \in Nat /\ DOMAIN s = 1..Len(s) /\ DOMAIN t = DOMAIN s
  BY DEF Owned
<1>2. t \in Seq(NftRules)
  <2>1. t \in [1..Len(s) -> NftRules]
    BY <1>1
  <2> QED
    BY <1>1, <2>1
<1>3. ASSUME NEW i \in DOMAIN t, NEW j \in DOMAIN t, t[i].handle = t[j].handle PROVE i = j
  BY <1>1, <1>3 DEF Owned
<1> QED
  BY <1>1, <1>2, <1>3 DEF Owned, In

\* A rule covers the families it is for.
NftCoverage ==
    nft # Null => \A n : \A c \in Chains : \A i \in DOMAIN nft.rules[c] :
        nft.rules[c][i].name = n => FamiliesOf(nft.rules[c][i]) \subseteq Covered("nftables", n)
IptCoverage ==
    \A n : \A f \in Families :
        f \in Covered("iptables", n) <=> \E c \in Chains : \E i \in DOMAIN ipt[f][c] : ipt[f][c][i].name = n

LEMMA NftCovers == HostTypes => NftCoverage
<1> SUFFICES ASSUME HostTypes, nft # Null, NEW n, NEW c \in Chains, NEW i \in DOMAIN nft.rules[c],
                    nft.rules[c][i].name = n
             PROVE  FamiliesOf(nft.rules[c][i]) \subseteq Covered("nftables", n)
  BY DEF NftCoverage
<1> DEFINE f == Found("nftables", n)
<1>1. f = FoundIn("nftables", n, "input") /\ "input" \in Chains
  BY DEF Found, Chains
<1> HIDE DEF f
<1>2. \A e : In(e, f) <=> NftFound(e, n)
  BY <1>1, FoundNft
<1>3. NftFound(NftEntry(c, i), n)
  BY DEF NftFound
<1>4. PICK j \in DOMAIN f : f[j] = NftEntry(c, i)
  BY <1>2, <1>3 DEF In
<1>5. FamiliesOf(f[j]) = FamiliesOf(nft.rules[c][i])
  BY <1>4 DEF FamiliesOf, NftEntry
<1> QED
  BY <1>4, <1>5 DEF Covered, f

LEMMA IptCovers == HostTypes => IptCoverage
<1> SUFFICES ASSUME HostTypes, NEW n, NEW f \in Families
             PROVE  f \in Covered("iptables", n) <=> \E c \in Chains : \E i \in DOMAIN ipt[f][c] : ipt[f][c][i].name = n
  BY DEF IptCoverage
<1>1. \A e : In(e, Table(f)) <=> \E c \in Chains : \E i \in DOMAIN ipt[f][c] : e = IptEntry(f, c, i)
  BY TableIs
<1>2. \A c, i : IptEntry(f, c, i).name = ipt[f][c][i].name
  BY DEF IptEntry
<1>3. (\E j \in DOMAIN Table(f) : Table(f)[j].name = n) <=> \E e : In(e, Table(f)) /\ e.name = n
  BY DEF In
<1>4. (\E e : In(e, Table(f)) /\ e.name = n) <=> \E c \in Chains : \E i \in DOMAIN ipt[f][c] : ipt[f][c][i].name = n
  BY <1>1, <1>2
<1> QED
  BY <1>3, <1>4 DEF Covered

IsTable(t) == t \in Tables /\ \A c \in Chains : Owned(t.rules[c])

LEMMA TableTyped == ASSUME HostTypes, nft # Null PROVE IsTable(nft)
  BY DEF HostTypes, IsTable, Tables, Owned

LEMMA EmptyTyped == IsTable(EmptyTable) /\ \A c \in Chains : EmptyTable.rules[c] = <<>>
<1>1. EmptyTable.rules = [c \in Chains |-> <<>>] /\ EmptyTable.objects = FALSE
  BY DEF EmptyTable
<1>2. <<>> \in Seq(NftRules) /\ DOMAIN <<>> = {} /\ Owned(<<>>)
  BY DEF Owned
<1>3. EmptyTable \in Tables
  BY <1>2 DEF EmptyTable, Tables
<1> QED
  BY <1>1, <1>2, <1>3 DEF IsTable

\* What a script makes of the table.
NewRule == [name |-> run.res, family |-> Want.family, body |-> Want.body, handle |-> Fresh]
Keeps == run.found # <<>> /\ run.found[1].chain = Want.chain
Old == IF Keeps THEN run.found[1].at ELSE 0
Left(t, c) == Without(t.rules[c], FoundHandles(c) \ {Old})

LEMMA ReplacedTable ==
    ASSUME NEW t, IsTable(t), NEW u, u = Replaced(t), Want.chain \in Chains
    PROVE  /\ u = [t EXCEPT !.rules = u.rules] /\ u.objects = t.objects
           /\ u.rules = [c \in Chains |->
                IF c # Want.chain THEN Left(t, c)
                ELSE IF Keeps THEN [i \in DOMAIN Left(t, c) |->
                                       IF Left(t, c)[i].handle = Old THEN NewRule ELSE Left(t, c)[i]]
                ELSE Append(Left(t, c), NewRule)]
<1> DEFINE rules == [c \in Chains |->
                IF c # Want.chain THEN Left(t, c)
                ELSE IF Keeps THEN [i \in DOMAIN Left(t, c) |->
                                       IF Left(t, c)[i].handle = Old THEN NewRule ELSE Left(t, c)[i]]
                ELSE Append(Left(t, c), NewRule)]
<1>1. u = [t EXCEPT !.rules = rules]
  BY DEF Replaced, Left, Keeps, Old, NewRule
<1> HIDE DEF rules
<1>2. u.rules = rules /\ u.objects = t.objects
  BY <1>1 DEF IsTable, Tables
<1> QED
  BY <1>1, <1>2 DEF rules

LEMMA ReplacedTyped ==
    ASSUME ConfigsTyped, Types, run # Null, run.op # "delete", NEW t, IsTable(t),
           \A c \in Chains : FoundHandles(c) \subseteq Handles(t, c),
           nft # Null => t = nft, nft = Null => t = EmptyTable,
           NEW u, u = Replaced(t)
    PROVE  /\ IsTable(u)
           /\ \E e : In(e, u.rules[Want.chain]) /\ e.name = run.res /\ e.family = Want.family
<1>1. /\ HostTypes /\ IsRun(run) /\ Want \in Wanted /\ run.res \in Resources /\ Want.chain \in Chains
      /\ run.found \in Seq(Entries)
  BY WantIs DEF Types, IsRun, RunTypes, Wanted
<1>2. /\ u = [t EXCEPT !.rules = u.rules] /\ u.objects = t.objects
      /\ u.rules = [c \in Chains |->
           IF c # Want.chain THEN Left(t, c)
           ELSE IF Keeps THEN [i \in DOMAIN Left(t, c) |->
                                  IF Left(t, c)[i].handle = Old THEN NewRule ELSE Left(t, c)[i]]
           ELSE Append(Left(t, c), NewRule)]
  BY <1>1, ReplacedTable
<1>3. ASSUME NEW c \in Chains
      PROVE  Owned(Left(t, c)) /\ \A e : In(e, Left(t, c)) <=> In(e, t.rules[c]) /\ e.handle \notin FoundHandles(c) \ {Old}
  BY WithoutIs DEF Left, IsTable
<1>4. Fresh \in Nat \ {0} /\ nft # Null => \A c \in Chains : Fresh \notin Handles(nft, c)
  BY <1>1, FreshIs
<1>5. NewRule \in NftRules /\ NewRule.handle = Fresh /\ NewRule.name = run.res /\ NewRule.family = Want.family
  <2>1. Fresh \in Nat \ {0}
    BY <1>1, FreshIs
  <2> QED
    BY <1>1, <2>1 DEF NewRule, NftRules, RuleNames, Wanted
<1>6. ASSUME NEW c \in Chains, NEW e, In(e, t.rules[c]) PROVE e.handle # Fresh
  <2>1. CASE nft = Null
    <3>1. t.rules[c] = <<>>
      BY <2>1, EmptyTyped
    <3> QED
      BY <1>6, <3>1 DEF In
  <2>2. CASE nft # Null
    <3>1. e.handle \in Handles(nft, c)
      BY <1>6, <2>2 DEF In, Handles
    <3>2. \A d \in Chains : Fresh \notin Handles(nft, d)
      BY <1>1, <2>2, FreshIs
    <3> QED
      BY <3>1, <3>2
  <2> QED
    BY <2>1, <2>2
<1> DEFINE s == Left(t, Want.chain)
           new == u.rules[Want.chain]
<1>7. Owned(s) /\ \A i \in DOMAIN s : s[i].handle # NewRule.handle
  BY <1>1, <1>3, <1>5, <1>6 DEF In
<1>8. Owned(new) /\ In(NewRule, new)
  <2>1. CASE Keeps
    <3>1. new = [i \in DOMAIN s |-> IF s[i].handle = Old THEN NewRule ELSE s[i]]
      BY <1>1, <1>2, <2>1
    <3>2. \E i \in DOMAIN s : s[i].handle = Old
      <4>1. 1 \in DOMAIN run.found /\ run.found[1].chain = Want.chain /\ Old = run.found[1].at
        BY <1>1, <2>1 DEF Keeps, Old
      <4>2. Old \in FoundHandles(Want.chain)
        BY <4>1 DEF FoundHandles
      <4>3. Old \in Handles(t, Want.chain)
        BY <1>1, <4>2
      <4>4. PICK i \in DOMAIN t.rules[Want.chain] : t.rules[Want.chain][i].handle = Old
        BY <4>3 DEF Handles
      <4>5. In(t.rules[Want.chain][i], s)
        BY <1>1, <1>3, <4>4 DEF In
      <4> QED
        BY <4>4, <4>5 DEF In
    <3> HIDE DEF s, new
    <3> QED
      BY <1>5, <1>7, <3>1, <3>2, ReplacedIs
  <2>2. CASE ~Keeps
    <3>1. new = Append(s, NewRule)
      BY <1>1, <1>2, <2>2
    <3> HIDE DEF s, new
    <3> QED
      BY <1>5, <1>7, <3>1, AppendedIs
  <2> QED
    BY <2>1, <2>2
<1>9. ASSUME NEW c \in Chains PROVE Owned(u.rules[c])
  <2>1. CASE c = Want.chain
    BY <1>8, <2>1
  <2>2. CASE c # Want.chain
    <3>1. u.rules[c] = Left(t, c)
      BY <1>2, <2>2
    <3> QED
      BY <1>3, <3>1
  <2> QED
    BY <2>1, <2>2
<1>10. IsTable(u)
  <2>1. u.rules \in [Chains -> Seq(NftRules)]
    <3>1. \A c \in Chains : u.rules[c] \in Seq(NftRules)
      BY <1>9 DEF Owned
    <3>2. u.rules = [c \in Chains |-> u.rules[c]]
      BY <1>2
    <3> QED
      BY <3>1, <3>2
  <2>2. u \in Tables
    BY <1>2, <2>1 DEF Tables, IsTable
  <2> QED
    BY <1>9, <2>2 DEF IsTable
<1> QED
  BY <1>5, <1>8, <1>10

LEMMA TrimmedTyped ==
    ASSUME NEW t, IsTable(t), NEW u, u = [t EXCEPT !.rules = [c \in Chains |-> Without(@[c], FoundHandles(c))]]
    PROVE  /\ IsTable(u) /\ u.objects = t.objects
           /\ \A c \in Chains : u.rules[c] = Without(t.rules[c], FoundHandles(c))
<1>1. u.objects = t.objects /\ u.rules = [c \in Chains |-> Without(t.rules[c], FoundHandles(c))]
  BY DEF IsTable, Tables
<1>2. ASSUME NEW c \in Chains PROVE Owned(u.rules[c])
  <2>1. Owned(t.rules[c]) /\ u.rules[c] = Without(t.rules[c], FoundHandles(c))
    BY <1>1 DEF IsTable
  <2> QED
    BY <2>1, WithoutIs
<1>3. u.rules \in [Chains -> Seq(NftRules)]
  <2>1. \A c \in Chains : u.rules[c] \in Seq(NftRules)
    BY <1>2 DEF Owned
  <2> QED
    BY <1>1, <2>1
<1>4. u \in Tables
  BY <1>1, <1>3 DEF Tables, IsTable
<1> QED
  BY <1>1, <1>2, <1>4 DEF IsTable

\* The steps of an operation once it is past the listing.
LEMMA GoOn ==
    ASSUME Types, run # Null, HostTypes', tools' = tools, NEW n, Go(n), IsRun(n), n.res = run.res,
           n.step # "script", Backed'
    PROVE  FirewallInvariant'
<1>1. run' = n /\ UNCHANGED <<config, state, tainted, raced, foreign>>
  BY DEF Go, bounds
<1>2. IsRun(run)'
  BY <1>1 DEF IsRun, RunTypes, RunStep
<1>3. Types'
  BY <1>1, <1>2 DEF Types
<1>4. Looked'
  BY <1>1 DEF Looked
<1> QED
  BY <1>3, <1>4 DEF FirewallInvariant

LEMMA ScriptStep == ASSUME ConfigsTyped, FirewallInvariant, Script PROVE FirewallInvariant'
<1> DEFINE t == IF nft = Null /\ ~Removing THEN EmptyTable ELSE nft
           n == [run EXCEPT !.step = "end", !.changed = TRUE]
<1>1. /\ Types /\ HostTypes /\ Backed /\ run # Null /\ IsRun(run) /\ RunTypes(run) /\ RunStep(run) /\ HasFields(run)
      /\ run.step = "script" /\ run.kind # "iptables"
      /\ UNCHANGED <<ipt, tools>>
  BY DEF FirewallInvariant, Types, Script, IsRun, RunTypes, RunStep
<1>2. CASE UNCHANGED nft /\ Fail
  <2>1. HostTypes'
    BY <1>1, <1>2, HostSame
  <2> QED
    BY <1>1, <1>2, <2>1, FailStep
<1>3. ASSUME t # Null, (Removing /\ run.alone) \/ \A c \in Chains : FoundHandles(c) \subseteq Handles(t, c),
             nft' = IF ~Removing THEN Replaced(t)
                    ELSE IF run.alone THEN Null
                    ELSE [t EXCEPT !.rules = [c \in Chains |-> Without(@[c], FoundHandles(c))]],
             Answered(n)
      PROVE  FirewallInvariant'
  <2>1. IsTable(t) /\ (nft # Null => t = nft) /\ (Removing => t = nft) /\ (nft = Null => t = EmptyTable)
    <3>1. nft # Null => IsTable(nft)
      BY <1>1, TableTyped
    <3> QED
      BY <1>3, <3>1, EmptyTyped
  <2>2. ~Removing => /\ run.op # "delete" /\ IsTable(nft')
                     /\ \E e : In(e, nft'.rules[Want.chain]) /\ e.name = run.res /\ e.family = Want.family
    <3> SUFFICES ASSUME ~Removing
                 PROVE  /\ run.op # "delete" /\ IsTable(nft')
                        /\ \E e : In(e, nft'.rules[Want.chain]) /\ e.name = run.res /\ e.family = Want.family
      OBVIOUS
    <3>1. run.op # "delete"
      BY <1>1 DEF Removing, RunTypes, ConfigsTyped
    <3>2. nft' = Replaced(t) /\ \A c \in Chains : FoundHandles(c) \subseteq Handles(t, c)
      BY <1>3
    <3> HIDE DEF t
    <3> QED
      BY <1>1, <2>1, <3>1, <3>2, ReplacedTyped
  <2>3. nft' # Null => IsTable(nft')
    <3>1. CASE Removing /\ run.alone
      BY <1>3, <3>1
    <3>2. CASE Removing /\ ~run.alone
      <4>1. nft' = [t EXCEPT !.rules = [c \in Chains |-> Without(@[c], FoundHandles(c))]]
        BY <1>3, <3>2
      <4> HIDE DEF t
      <4> QED
        BY <2>1, <4>1, TrimmedTyped
    <3> QED
      BY <2>2, <3>1, <3>2
  <2>4. HostTypes'
    BY <1>1, <2>3 DEF HostTypes, IsTable, Tables, Owned
  <2>5. CASE Fail
    BY <1>1, <2>4, <2>5, FailStep
  <2>6. CASE Go(n)
    <3>1. /\ HasFields(n) /\ n.res = run.res /\ n.op = run.op /\ n.kind = run.kind /\ n.target = run.target
          /\ n.found = run.found /\ n.alone = run.alone /\ n.todo = run.todo /\ n.stale = run.stale
          /\ n.place = run.place /\ n.from = run.from /\ n.covered = run.covered /\ n.step = "end"
      BY <1>1 DEF HasFields, FieldNames
    <3> HIDE DEF n
    <3>2. IsRun(n)
      BY <1>1, <3>1 DEF IsRun, RunTypes, RunStep
    <3>3. run' = n /\ config' = config /\ raced' = raced
      BY <2>6 DEF Go
    <3>4. Backed'
      <4> SUFFICES ASSUME run'.op = "update", run'.from = run'.target, ~raced' PROVE Backed'
        BY DEF Backed
      <4>1. run.kind = run.target /\ run.kind = "nftables" /\ ~Removing
        BY <1>1, <3>1, <3>3 DEF Backed, Removing, RunTypes, Kinds
      <4>2. PICK i \in DOMAIN nft'.rules[Want.chain] :
                nft'.rules[Want.chain][i].name = run.res /\ nft'.rules[Want.chain][i].family = Want.family
        BY <2>2, <4>1 DEF In
      <4>3. nft' # Null
        BY <2>2, <4>1 DEF ConfigsTyped, IsTable
      <4>4. NftCoverage'
        <5>1. HostTypes' => NftCoverage'
          BY NftCovers, PTL
        <5> QED
          BY <2>4, <5>1
      <4>5. Want.chain \in Chains
        BY <1>1, <2>2, <4>1, WantIs DEF Wanted
      <4>6. FamiliesOf(nft'.rules[Want.chain][i]) \subseteq Covered("nftables", run.res)'
        BY <3>1, <3>3, <4>2, <4>3, <4>4, <4>5 DEF NftCoverage, FamiliesOf
      <4>7. FamiliesOf(nft'.rules[Want.chain][i]) = FamiliesOf(Want) /\ Want' = Want
        BY <3>1, <3>3, <4>2 DEF FamiliesOf, Want
      <4>8. Covered(run.kind, run.res)' = Covered("nftables", run.res)'
        BY <3>1, <3>3, <4>1
      <4>9. FamiliesOf(Want)' = FamiliesOf(Want)
        BY <4>7 DEF FamiliesOf
      <4> QED
        BY <3>1, <3>3, <4>1, <4>6, <4>7, <4>8, <4>9 DEF Backed
    <3> QED
      BY <1>1, <2>4, <2>6, <3>1, <3>2, <3>4, GoOn
  <2> QED
    BY <1>3, <2>5, <2>6 DEF Answered
<1> QED
  BY <1>2, <1>3 DEF Script

LEMMA TailIs ==
    ASSUME NEW S, NEW s \in Seq(S), s # <<>>, Distinct(s), NEW t, t = Tail(s)
    PROVE  /\ t \in Seq(S) /\ Distinct(t) /\ Head(s) \in S /\ ~In(Head(s), t)
           /\ \A e : In(e, s) <=> e = Head(s) \/ In(e, t)
<1>1. /\ Len(s) \in Nat /\ Len(s) > 0 /\ DOMAIN s = 1..Len(s) /\ t \in Seq(S) /\ DOMAIN t = 1..(Len(s) - 1)
      /\ (\A i \in DOMAIN t : t[i] = s[i + 1] /\ i + 1 \in DOMAIN s) /\ Head(s) = s[1] /\ Head(s) \in S
  OBVIOUS
<1>2. ASSUME NEW i \in DOMAIN s, i # 1 PROVE \E j \in DOMAIN t : t[j] = s[i]
  <2>1. i - 1 \in DOMAIN t /\ (i - 1) + 1 = i
    BY <1>1, <1>2
  <2>2. PICK j \in DOMAIN t : j + 1 = i
    BY <2>1
  <2> QED
    BY <1>1, <2>2
<1>3. ASSUME NEW i \in DOMAIN t, NEW j \in DOMAIN t, t[i] = t[j] PROVE i = j
  <2>1. i + 1 = j + 1
    BY <1>1, <1>3 DEF Distinct
  <2> QED
    BY <1>1, <2>1
<1>4. ASSUME NEW i \in DOMAIN t, t[i] = s[1] PROVE FALSE
  <2>1. 1 \in DOMAIN s /\ i + 1 = 1
    BY <1>1, <1>4 DEF Distinct
  <2> QED
    BY <1>1, <2>1
<1>5. ASSUME NEW e PROVE In(e, s) <=> e = s[1] \/ In(e, t)
  <2>1. In(e, s) => e = s[1] \/ In(e, t)
    BY <1>2 DEF In
  <2>2. 1 \in DOMAIN s
    BY <1>1
  <2> QED
    BY <1>1, <2>1, <2>2 DEF In
<1>6. Distinct(t)
  BY <1>3 DEF Distinct
<1> QED
  BY <1>1, <1>4, <1>5, <1>6 DEF In

LEMMA SameCount ==
    ASSUME NEW S, NEW s \in Seq(S), NEW r
    PROVE  IsFiniteSet(Same(s, r)) /\ Cardinality(Same(s, r)) \in Nat /\ (In(r, s) <=> Cardinality(Same(s, r)) > 0)
<1>1. Len(s) \in Nat /\ Same(s, r) \in SUBSET (1..Len(s))
  BY DEF Same
<1>2. IsFiniteSet(Same(s, r)) /\ Cardinality(Same(s, r)) \in Nat
  BY <1>1, RankOrder
<1>3. In(r, s) <=> Same(s, r) # {}
  BY DEF In, Same
<1> QED
  BY <1>2, <1>3, FS_EmptySet

\* A rule that was to be added is there.
LEMMA TodoDone ==
    ASSUME ConfigsTyped, Types, Backed, run # Null, run.step \in {"check", "add"}, HostTypes',
           NEW n, run' = n, UNCHANGED <<config, raced>>,
           n.res = run.res, n.op = run.op, n.kind = run.kind, n.target = run.target, n.from = run.from,
           n.covered = run.covered, n.stale = run.stale, n.todo = Tail(run.todo), n.step # "find",
           \A g \in Families, c \in Chains : \A i \in DOMAIN ipt[g][c] : In(ipt[g][c][i], ipt'[g][c]),
           \A g \in Families : g # Head(run.todo) => ipt'[g] = ipt[g],
           In(Rule, ipt'[Head(run.todo)][Want.chain])
    PROVE  Backed'
<1> SUFFICES ASSUME run'.op = "update", run'.from = run'.target, ~raced' PROVE Backed'
  BY DEF Backed
<1>0. PICK h : h = Head(run.todo)
  OBVIOUS
<1>1. /\ HostTypes /\ run.kind = "iptables" /\ run.kind = run.target /\ run.todo # <<>>
      /\ run.todo \in Seq(Families) /\ Distinct(run.todo) /\ run.op # "delete"
  BY DEF Types, IsRun, RunTypes, RunStep
<1>2. Want \in Wanted /\ FamiliesOf(Want) \subseteq Families /\ Want.chain \in Chains
  BY <1>1, WantIs DEF Wanted
<1>3. Want' = Want /\ Rule' = Rule /\ FamiliesOf(Want)' = FamiliesOf(Want)
  BY DEF Want, Rule, FamiliesOf
<1>4. h \in Families /\ ~In(h, n.todo) /\ \A e : In(e, run.todo) <=> e = h \/ In(e, n.todo)
  <2>1. PICK s, t : s = run.todo /\ t = n.todo
    OBVIOUS
  <2>2. s \in Seq(Families) /\ s # <<>> /\ Distinct(s) /\ t = Tail(s)
    BY <1>1, <2>1
  <2>3. /\ Head(s) \in Families /\ ~In(Head(s), t)
        /\ \A e : In(e, s) <=> e = Head(s) \/ In(e, t)
    BY <2>2, TailIs
  <2> QED
    BY <1>0, <2>1, <2>3
<1>5. /\ run.covered \cap FamiliesOf(Want) \subseteq Covered(run.kind, run.res)
      /\ \A f \in FamiliesOf(Want) :
            IF In(f, run.todo) THEN StaleCopies(run.stale, f) = {}
            ELSE Cardinality(Copies(f)) > Cardinality(StaleCopies(run.stale, f))
  BY <1>1 DEF Backed
<1>6. ASSUME NEW f PROVE StaleCopies(run.stale, f)' = StaleCopies(run.stale, f)
  BY <1>3 DEF StaleCopies
<1>7. ASSUME NEW f \in FamiliesOf(Want), f # h PROVE Copies(f)' = Copies(f)
  <2>1. ipt'[f] = ipt[f]
    BY <1>0, <1>2, <1>7
  <2> QED
    BY <1>3, <2>1 DEF Copies, Same
<1>8. Cardinality(Copies(h)') > 0
  <2>1. ipt'[h][Want.chain] \in Seq(IptRules)
    BY <1>2, <1>4 DEF HostTypes
  <2>2. Copies(h)' = Same(ipt'[h][Want.chain], Rule)
    BY <1>3 DEF Copies
  <2>3. In(Rule, ipt'[h][Want.chain])
    BY <1>0
  <2> QED
    BY <2>1, <2>2, <2>3, SameCount
<1>9. ASSUME NEW f \in FamiliesOf(Want)
      PROVE  IF In(f, run'.todo) THEN StaleCopies(run.stale, f)' = {}
             ELSE Cardinality(Copies(f)') > Cardinality(StaleCopies(run.stale, f)')
  <2>1. CASE f = h
    BY <1>4, <1>5, <1>6, <1>8, <2>1, FS_EmptySet
  <2>2. CASE f # h
    BY <1>4, <1>5, <1>6, <1>7, <2>2
  <2> QED
    BY <2>1, <2>2
<1>10. Covered(run.kind, run.res) \cap Families \subseteq Covered(run.kind, run.res)'
  <2> SUFFICES ASSUME NEW f \in Families, f \in Covered(run.kind, run.res) PROVE f \in Covered(run.kind, run.res)'
    OBVIOUS
  <2>1. IptCoverage
    BY <1>1, IptCovers
  <2>2. IptCoverage'
    <3>1. HostTypes' => IptCoverage'
      BY IptCovers, PTL
    <3> QED
      BY <3>1
  <2>3. PICK c \in Chains : \E i \in DOMAIN ipt[f][c] : ipt[f][c][i].name = run.res
    BY <1>1, <2>1 DEF IptCoverage
  <2>4. \E i \in DOMAIN ipt'[f][c] : ipt'[f][c][i].name = run.res
    BY <2>3 DEF In
  <2>5. f \in Covered("iptables", run.res)'
    BY <2>2, <2>4 DEF IptCoverage
  <2> QED
    BY <1>1, <2>5
<1>11. run'.covered \cap FamiliesOf(Want)' \subseteq Covered(run.kind, run.res)'
  BY <1>2, <1>3, <1>5, <1>10
<1> QED
  BY <1>1, <1>3, <1>9, <1>11 DEF Backed

\* The operation once the first missing rule is there.
LEMMA TodoRun ==
    ASSUME Types, run # Null, run.step \in {"check", "add"},
           NEW b \in {TRUE, run.changed}, NEW n, n = Advance([run EXCEPT !.todo = Tail(run.todo), !.changed = b])
    PROVE  /\ IsRun(n) /\ n.res = run.res /\ n.op = run.op /\ n.kind = run.kind /\ n.target = run.target
           /\ n.from = run.from /\ n.covered = run.covered /\ n.stale = run.stale /\ n.todo = Tail(run.todo)
           /\ n.step \notin {"find", "script"}
<1> DEFINE r == [run EXCEPT !.todo = Tail(run.todo), !.changed = b]
<1>1. RunTypes(run) /\ HasFields(run) /\ run.kind = "iptables" /\ run.kind = run.target /\ run.todo # <<>>
  BY DEF Types, IsRun, RunTypes, RunStep
<1>2. Tail(run.todo) \in Seq(Families) /\ Distinct(Tail(run.todo))
  BY <1>1, TailIs DEF RunTypes
<1>3. /\ HasFields(r) /\ r.res = run.res /\ r.op = run.op /\ r.kind = run.kind /\ r.target = run.target
      /\ r.found = run.found /\ r.alone = run.alone /\ r.todo = Tail(run.todo) /\ r.stale = run.stale
      /\ r.place = run.place /\ r.from = run.from /\ r.covered = run.covered
  BY <1>1 DEF HasFields, FieldNames
<1>6. n = Advance(r)
  OBVIOUS
<1> HIDE DEF r
<1>4. RunTypes(r)
  BY <1>1, <1>2, <1>3 DEF RunTypes
<1>5. /\ IsRun(n) /\ n.res = r.res /\ n.op = r.op /\ n.kind = r.kind /\ n.target = r.target
      /\ n.todo = r.todo /\ n.stale = r.stale /\ n.from = r.from
      /\ n.covered = r.covered /\ n.step \notin {"find", "script"}
  BY <1>1, <1>3, <1>4, <1>6, AdvancedRun
<1> QED
  BY <1>3, <1>5

LEMMA CheckStep == ASSUME ConfigsTyped, FirewallInvariant, Check PROVE FirewallInvariant'
<1>1. /\ Types /\ HostTypes /\ Backed /\ run # Null /\ IsRun(run) /\ RunTypes(run) /\ RunStep(run) /\ HasFields(run)
      /\ run.step = "check" /\ run.kind = "iptables" /\ run.kind = run.target /\ run.todo # <<>>
      /\ UNCHANGED host
  BY DEF FirewallInvariant, Types, Check, IsRun, RunTypes, RunStep
<1>2. HostTypes' /\ tools' = tools
  BY <1>1, HostSame DEF host
<1>3. CASE In(Rule, Chain)
  <2> DEFINE n == Advance([run EXCEPT !.todo = Tail(run.todo), !.changed = run.changed])
  <2>1. /\ IsRun(n) /\ n.res = run.res /\ n.op = run.op /\ n.kind = run.kind /\ n.target = run.target
        /\ n.from = run.from /\ n.covered = run.covered /\ n.stale = run.stale /\ n.todo = Tail(run.todo)
        /\ n.step \notin {"find", "script"}
    BY <1>1, TodoRun
  <2>2. [run EXCEPT !.todo = Tail(run.todo), !.changed = run.changed] = [run EXCEPT !.todo = Tail(run.todo)]
    BY <1>1 DEF HasFields, FieldNames
  <2>3. Go(n)
    BY <1>3, <2>2 DEF Check, In
  <2>4. run' = n /\ UNCHANGED <<config, raced>>
    BY <2>3 DEF Go
  <2> HIDE DEF n
  <2>5. \A g \in Families, c \in Chains : \A i \in DOMAIN ipt[g][c] : In(ipt[g][c][i], ipt'[g][c])
    BY <1>1 DEF host, In
  <2>6. ipt' = ipt /\ In(Rule, ipt'[Head(run.todo)][Want.chain])
    BY <1>1, <1>3 DEF host, Chain
  <2>7. Backed'
    BY <1>1, <1>2, <2>1, <2>4, <2>5, <2>6, TodoDone
  <2> QED
    BY <1>1, <1>2, <2>1, <2>3, <2>7, GoOn
<1>4. CASE ~In(Rule, Chain)
  <2> DEFINE n == [run EXCEPT !.step = "add"]
  <2>1. Go(n)
    BY <1>4 DEF Check, In
  <2>2. /\ HasFields(n) /\ n.res = run.res /\ n.op = run.op /\ n.kind = run.kind /\ n.target = run.target
        /\ n.found = run.found /\ n.alone = run.alone /\ n.todo = run.todo /\ n.stale = run.stale
        /\ n.place = run.place /\ n.from = run.from /\ n.covered = run.covered /\ n.step = "add"
    BY <1>1 DEF HasFields, FieldNames
  <2> HIDE DEF n
  <2>3. IsRun(n)
    BY <1>1, <2>2 DEF IsRun, RunTypes, RunStep
  <2>4. run' = n /\ UNCHANGED <<config, raced>>
    BY <2>1 DEF Go
  <2>5. Backed'
    <3>1. Want' = Want /\ FamiliesOf(Want)' = FamiliesOf(Want)
      BY <2>2, <2>4 DEF Want, FamiliesOf
    <3>2. Covered(run.kind, run.res)' = Covered(run.kind, run.res)
      <4>1. Covered(run.kind, run.res)' = Covered(run'.kind, run'.res)
        BY <1>1 DEF host, Covered, Found, FoundIn, Tagged, NftChain, IptChain, Table, FamiliesOf
      <4> QED
        BY <2>2, <2>4, <4>1
    <3>3. ASSUME NEW f PROVE Copies(f)' = Copies(f) /\ StaleCopies(run.stale, f)' = StaleCopies(run.stale, f)
      BY <1>1, <2>2, <2>4, <3>1 DEF host, Copies, StaleCopies, Same, Rule
    <3> QED
      BY <1>1, <2>2, <2>4, <3>1, <3>2, <3>3 DEF Backed
  <2> QED
    BY <1>1, <1>2, <2>1, <2>2, <2>3, <2>5, GoOn
<1> QED
  BY <1>3, <1>4

LEMMA AddStep == ASSUME ConfigsTyped, FirewallInvariant, Add PROVE FirewallInvariant'
<1> DEFINE n == Advance([run EXCEPT !.todo = Tail(run.todo), !.changed = TRUE])
<1>0. PICK h, p : h = Head(run.todo) /\ p = run.place[h]
  OBVIOUS
<1>1. /\ Types /\ HostTypes /\ Backed /\ run # Null /\ IsRun(run) /\ RunTypes(run) /\ RunStep(run)
      /\ run.step = "add" /\ run.kind = "iptables" /\ run.kind = run.target /\ run.todo # <<>> /\ run.op # "delete"
      /\ run.todo \in Seq(Families) /\ UNCHANGED <<nft, tools>>
  BY DEF FirewallInvariant, Types, Add, IsRun, RunTypes, RunStep, ConfigsTyped
<1>2. CASE UNCHANGED ipt /\ Fail
  <2>1. HostTypes'
    BY <1>1, <1>2, HostSame
  <2> QED
    BY <1>1, <1>2, <2>1, FailStep
<1>3. ASSUME p <= Len(Chain) + 1, Answered(n),
             ipt' = [ipt EXCEPT ![h][Want.chain] = IF p = 0 THEN Append(@, Rule) ELSE InsertAt(@, p, Rule)]
      PROVE  FirewallInvariant'
  <2>1. h \in Families /\ p \in Nat /\ Want \in Wanted /\ Want.chain \in Chains /\ run.res \in Resources
    <3>1. h \in Families
      BY <1>0, <1>1
    <3> QED
      BY <1>0, <1>1, <3>1, WantIs DEF Wanted, RunTypes
  <2> DEFINE s == ipt[h][Want.chain]
             t == ipt'[h][Want.chain]
             k == IF p = 0 THEN Len(s) + 1 ELSE p
  <2>2. s \in Seq(IptRules) /\ Rule \in IptRules /\ s = Chain
    <3>1. s \in Seq(IptRules)
      BY <1>1, <2>1 DEF HostTypes
    <3>2. Rule \in IptRules
      BY <2>1 DEF Rule, IptRules, RuleNames, Wanted
    <3>3. s = Chain
      BY <1>0 DEF Chain
    <3> QED
      BY <3>1, <3>2, <3>3
  <2>3. t = IF p = 0 THEN Append(s, Rule) ELSE InsertAt(s, p, Rule)
    BY <1>1, <1>3, <2>1 DEF HostTypes
  <2>4. \A g \in Families, c \in Chains : g # h \/ c # Want.chain => ipt'[g][c] = ipt[g][c]
    BY <1>1, <1>3, <2>1 DEF HostTypes
  <2>5. \A g \in Families : g # h => ipt'[g] = ipt[g]
    BY <1>1, <1>3, <2>1 DEF HostTypes
  <2> HIDE DEF s, t
  <2>6. t = InsertAt(s, k, Rule) /\ k \in 1..(Len(s) + 1)
    <3>1. Len(s) \in Nat
      BY <2>2
    <3>2. k \in 1..(Len(s) + 1)
      BY <1>3, <2>1, <2>2, <3>1
    <3>3. Append(s, Rule) = InsertAt(s, Len(s) + 1, Rule)
      BY <2>2, Appended
    <3> QED
      BY <2>3, <3>2, <3>3
  <2> HIDE DEF k
  <2>7. /\ t \in Seq(IptRules) /\ Len(t) = Len(s) + 1 /\ t[k] = Rule
        /\ \A j \in DOMAIN s : j < k => t[j] = s[j]
        /\ \A j \in DOMAIN s : j >= k => t[j + 1] = s[j]
    BY <2>2, <2>6, Inserted
  <2>8. In(Rule, t)
    <3>1. k \in DOMAIN t
      BY <2>2, <2>6, <2>7
    <3> QED
      BY <2>7, <3>1 DEF In
  <2>9. ASSUME NEW i \in DOMAIN s PROVE In(s[i], t)
    <3>1. CASE i < k
      <4>1. i \in DOMAIN t
        BY <2>2, <2>7
      <4> QED
        BY <2>7, <3>1, <4>1 DEF In
    <3>2. CASE i >= k
      <4>1. i + 1 \in DOMAIN t
        BY <2>2, <2>7
      <4> QED
        BY <2>7, <3>2, <4>1 DEF In
    <3>3. i \in Nat /\ k \in Nat
      BY <2>2, <2>6
    <3> QED
      BY <3>1, <3>2, <3>3
  <2>10. HostTypes'
    <3>1. ipt' \in [Families -> [Chains -> Seq(IptRules)]]
      <4>1. \A g \in Families, c \in Chains : ipt'[g][c] \in Seq(IptRules)
        <5>1. ASSUME NEW g \in Families, NEW c \in Chains, g # h \/ c # Want.chain
              PROVE  ipt'[g][c] \in Seq(IptRules)
          BY <1>1, <2>4, <5>1 DEF HostTypes
        <5>2. ipt'[h][Want.chain] \in Seq(IptRules)
          BY <2>7 DEF t
        <5> QED
          BY <5>1, <5>2
      <4>2. ipt' = [g \in Families |-> [c \in Chains |-> ipt'[g][c]]]
        BY <1>1, <1>3, <2>1 DEF HostTypes
      <4> QED
        BY <4>1, <4>2
    <3> QED
      BY <1>1, <3>1 DEF HostTypes
  <2>11. CASE Fail
    BY <1>1, <2>10, <2>11, FailStep
  <2>12. CASE Go(n)
    <3>1. /\ IsRun(n) /\ n.res = run.res /\ n.op = run.op /\ n.kind = run.kind /\ n.target = run.target
          /\ n.from = run.from /\ n.covered = run.covered /\ n.stale = run.stale /\ n.todo = Tail(run.todo)
          /\ n.step \notin {"find", "script"}
      BY <1>1, TodoRun
    <3>2. run' = n /\ UNCHANGED <<config, raced>>
      BY <2>12 DEF Go
    <3> HIDE DEF n
    <3>3. \A g \in Families, c \in Chains : \A i \in DOMAIN ipt[g][c] : In(ipt[g][c][i], ipt'[g][c])
      <4> SUFFICES ASSUME NEW g \in Families, NEW c \in Chains, NEW i \in DOMAIN ipt[g][c]
                   PROVE  In(ipt[g][c][i], ipt'[g][c])
        OBVIOUS
      <4>1. CASE g = h /\ c = Want.chain
        BY <2>9, <4>1 DEF s, t
      <4>2. CASE g # h \/ c # Want.chain
        BY <2>4, <4>2 DEF In
      <4> QED
        BY <4>1, <4>2
    <3>4. In(Rule, ipt'[Head(run.todo)][Want.chain]) /\ \A g \in Families : g # Head(run.todo) => ipt'[g] = ipt[g]
      BY <1>0, <2>5, <2>8 DEF t
    <3>5. Backed'
      BY <1>1, <2>10, <3>1, <3>2, <3>3, <3>4, TodoDone
    <3> QED
      BY <1>1, <2>10, <2>12, <3>1, <3>5, GoOn
  <2> QED
    BY <1>3, <2>11, <2>12 DEF Answered
<1> QED
  BY <1>0, <1>2, <1>3 DEF Add

LEMMA StaleFinite ==
    ASSUME NEW s \in Seq(Entries), NEW f
    PROVE  IsFiniteSet(StaleCopies(s, f)) /\ Cardinality(StaleCopies(s, f)) \in Nat
<1>1. Len(s) \in Nat /\ DOMAIN s \in SUBSET (1..Len(s))
  OBVIOUS
<1>2. IsFiniteSet({s[i] : i \in DOMAIN s})
  BY <1>1, FieldFinite
<1>3. StaleCopies(s, f) \subseteq {s[i] : i \in DOMAIN s}
  BY DEF StaleCopies, Range
<1>4. IsFiniteSet(StaleCopies(s, f))
  BY <1>2, <1>3, FS_Subset
<1> QED
  BY <1>4, FS_CardinalityType

\* The operation once the first stale rule is gone.
LEMMA StaleRun ==
    ASSUME Types, run # Null, run.step = "delete",
           NEW n, n = Advance([run EXCEPT !.stale = Tail(run.stale), !.changed = TRUE])
    PROVE  /\ IsRun(n) /\ n.res = run.res /\ n.op = run.op /\ n.kind = run.kind /\ n.target = run.target
           /\ n.from = run.from /\ n.stale = Tail(run.stale) /\ n.todo = <<>>
           /\ n.step \notin {"find", "script"}
<1> DEFINE r == [run EXCEPT !.stale = Tail(run.stale), !.changed = TRUE]
<1>1. /\ RunTypes(run) /\ HasFields(run) /\ run.kind = "iptables" /\ run.todo = <<>> /\ run.stale # <<>>
      /\ run.stale \in Seq(Entries) /\ Distinct(run.stale)
      /\ \A i \in DOMAIN run.stale : run.stale[i].name = run.res /\ run.stale[i].family \in Families
  BY DEF Types, IsRun, RunTypes, RunStep
<1>2. /\ Tail(run.stale) \in Seq(Entries) /\ Distinct(Tail(run.stale))
      /\ \A e : In(e, Tail(run.stale)) => In(e, run.stale)
  BY <1>1, TailIs
<1>3. /\ HasFields(r) /\ r.res = run.res /\ r.op = run.op /\ r.kind = run.kind /\ r.target = run.target
      /\ r.found = run.found /\ r.alone = run.alone /\ r.todo = <<>> /\ r.stale = Tail(run.stale)
      /\ r.place = run.place /\ r.from = run.from
  BY <1>1 DEF HasFields, FieldNames
<1>4. \A i \in DOMAIN Tail(run.stale) : Tail(run.stale)[i].name = run.res /\ Tail(run.stale)[i].family \in Families
  BY <1>1, <1>2 DEF In
<1>5. n = Advance(r)
  OBVIOUS
<1> HIDE DEF r
<1>6. RunTypes(r)
  BY <1>1, <1>2, <1>3, <1>4 DEF RunTypes
<1>7. /\ IsRun(n) /\ n.res = r.res /\ n.op = r.op /\ n.kind = r.kind /\ n.target = r.target
      /\ n.todo = r.todo /\ n.stale = r.stale /\ n.from = r.from /\ n.step \notin {"find", "script"}
  BY <1>1, <1>3, <1>5, <1>6, AdvancedRun
<1> QED
  BY <1>3, <1>7

LEMMA DeleteStep == ASSUME ConfigsTyped, FirewallInvariant, Delete PROVE FirewallInvariant'
<1> DEFINE n == Advance([run EXCEPT !.stale = Tail(run.stale), !.changed = TRUE])
<1>0. PICK e, f, c : e = Head(run.stale) /\ f = e.family /\ c = e.chain
  OBVIOUS
<1>1. /\ Types /\ HostTypes /\ Backed /\ run # Null /\ IsRun(run) /\ RunTypes(run) /\ RunStep(run)
      /\ run.step = "delete" /\ run.kind = "iptables" /\ run.stale # <<>> /\ run.todo = <<>>
      /\ run.stale \in Seq(Entries) /\ Distinct(run.stale) /\ UNCHANGED <<nft, tools>>
      /\ \A i \in DOMAIN run.stale : run.stale[i].name = run.res /\ run.stale[i].family \in Families
  BY DEF FirewallInvariant, Types, Delete, IsRun, RunTypes, RunStep
<1>2. CASE UNCHANGED ipt /\ Fail
  <2>1. HostTypes'
    BY <1>1, <1>2, HostSame
  <2> QED
    BY <1>1, <1>2, <2>1, FailStep
<1>3. ASSUME NEW i \in DOMAIN ipt[f][c], ipt[f][c][i] = [name |-> e.name, body |-> e.body],
             ipt' = [ipt EXCEPT ![f][c] = RemoveAt(@, i)], Answered(n)
      PROVE  FirewallInvariant'
  <2>1. e.name = run.res /\ f \in Families /\ c \in Chains
    <3>1. e = run.stale[1] /\ 1 \in DOMAIN run.stale /\ e \in Entries
      BY <1>0, <1>1
    <3> QED
      BY <1>0, <1>1, <3>1 DEF Entries
  <2> DEFINE s == ipt[f][c]
             t == ipt'[f][c]
  <2>2. s \in Seq(IptRules)
    BY <1>1, <2>1 DEF HostTypes
  <2>3. t = RemoveAt(s, i) /\ i \in DOMAIN s
    BY <1>1, <1>3, <2>1 DEF HostTypes
  <2>4. \A g \in Families, d \in Chains : g # f \/ d # c => ipt'[g][d] = ipt[g][d]
    BY <1>1, <1>3, <2>1 DEF HostTypes
  <2> HIDE DEF s, t
  <2>5. t \in Seq(IptRules)
    BY <2>2, <2>3, Removed
  <2>6. HostTypes'
    <3>1. ipt' \in [Families -> [Chains -> Seq(IptRules)]]
      <4>1. \A g \in Families, d \in Chains : ipt'[g][d] \in Seq(IptRules)
        BY <1>1, <2>4, <2>5 DEF HostTypes, t
      <4>2. ipt' = [g \in Families |-> [d \in Chains |-> ipt'[g][d]]]
        BY <1>1, <1>3, <2>1 DEF HostTypes
      <4> QED
        BY <4>1, <4>2
    <3> QED
      BY <1>1, <3>1 DEF HostTypes
  <2>7. CASE Fail
    BY <1>1, <2>6, <2>7, FailStep
  <2>8. CASE Go(n)
    <3>1. /\ IsRun(n) /\ n.res = run.res /\ n.op = run.op /\ n.kind = run.kind /\ n.target = run.target
          /\ n.from = run.from /\ n.stale = Tail(run.stale) /\ n.todo = <<>>
          /\ n.step \notin {"find", "script"}
      BY <1>1, StaleRun
    <3>2. run' = n /\ UNCHANGED <<config, raced>>
      BY <2>8 DEF Go
    <3> HIDE DEF n
    <3>3. Backed'
      <4> SUFFICES ASSUME run'.op = "update", run'.from = run'.target, ~raced' PROVE Backed'
        BY DEF Backed
      <4>1. /\ run.kind = run.target /\ run.op # "delete"
            /\ \A g \in FamiliesOf(Want) : ~In(g, run.todo) =>
                  Cardinality(Copies(g)) > Cardinality(StaleCopies(run.stale, g))
        BY <1>1, <3>1, <3>2 DEF Backed
      <4>2. Want \in Wanted /\ FamiliesOf(Want) \subseteq Families /\ Want.chain \in Chains
        BY <1>1, <4>1, WantIs DEF Wanted
      <4>3. Want' = Want /\ Rule' = Rule /\ FamiliesOf(Want)' = FamiliesOf(Want)
        BY <3>1, <3>2 DEF Want, Rule, FamiliesOf
      <4>4. \A g : ~In(g, <<>>)
        BY DEF In
      <4>5. /\ n.stale \in Seq(Entries) /\ ~In(e, n.stale)
            /\ \A d : In(d, run.stale) <=> d = e \/ In(d, n.stale)
        BY <1>0, <1>1, <3>1, TailIs
      <4>6. ASSUME NEW g \in FamiliesOf(Want)
            PROVE  Cardinality(Copies(g)') > Cardinality(StaleCopies(run.stale, g)')
        <5> DEFINE a == Copies(g)
                   b == StaleCopies(run.stale, g)
                   x == Same(ipt'[g][Want.chain], Rule)
                   y == StaleCopies(n.stale, g)
        <5>1. Copies(g)' = x /\ StaleCopies(run.stale, g)' = y
          BY <3>1, <3>2, <4>3 DEF Copies, StaleCopies
        <5>2. Cardinality(a) > Cardinality(b)
          BY <1>1, <4>1, <4>4
        <5>3. IsFiniteSet(b) /\ Cardinality(b) \in Nat /\ Cardinality(y) \in Nat
          BY <1>1, <4>5, StaleFinite
        <5>4. y = b \ {e}
          <6>1. ASSUME NEW s1, NEW d
                PROVE  d \in StaleCopies(s1, g) <=>
                          In(d, s1) /\ d.family = g /\ d.chain = Want.chain /\ d.body = Want.body
            BY DEF StaleCopies, Range, In
          <6>2. \A d : d \in y <=> d \in b /\ d # e
            BY <4>5, <6>1
          <6> HIDE DEF b, y
          <6> QED
            BY <6>2
        <5>5. Cardinality(y) <= Cardinality(b) /\ (e \in b => Cardinality(y) = Cardinality(b) - 1)
          <6> HIDE DEF b, y
          <6> QED
            BY <5>3, <5>4, FS_Subset, FS_RemoveElement
        <5>6. CASE g = f /\ c = Want.chain
          <6>1. a = Same(s, Rule) /\ x = Same(t, Rule)
            BY <5>6 DEF Copies, s, t
          <6>2. /\ Cardinality(Same(t, Rule)) \in Nat /\ Cardinality(Same(s, Rule)) \in Nat
                /\ IF s[i] = Rule THEN Cardinality(Same(t, Rule)) >= Cardinality(Same(s, Rule)) - 1
                   ELSE Cardinality(Same(t, Rule)) >= Cardinality(Same(s, Rule))
            BY <2>2, <2>3, RemovedCopies
          <6>3. s[i] = Rule <=> e.body = Want.body
            BY <1>3, <2>1 DEF Rule, s
          <6>4. e.body = Want.body => e \in b
            BY <1>0, <4>5, <5>6 DEF StaleCopies, Range, In
          <6> HIDE DEF a, b, x, y
          <6> QED
            BY <5>1, <5>2, <5>3, <5>5, <6>1, <6>2, <6>3, <6>4
        <5>7. CASE ~(g = f /\ c = Want.chain)
          <6>1. ipt'[g][Want.chain] = ipt[g][Want.chain] /\ ipt[g][Want.chain] \in Seq(IptRules)
            BY <1>1, <2>4, <4>2, <5>7 DEF HostTypes
          <6>2. x = a
            BY <6>1 DEF Copies
          <6>3. Cardinality(a) \in Nat
            BY <6>1, SameCount DEF Copies
          <6> HIDE DEF a, b, x, y
          <6> QED
            BY <5>1, <5>2, <5>3, <5>5, <6>2, <6>3
        <5> QED
          BY <5>6, <5>7
      <4> QED
        BY <1>1, <3>1, <3>2, <4>1, <4>3, <4>4, <4>6 DEF Backed
    <3> QED
      BY <1>1, <2>6, <2>8, <3>1, <3>3, GoOn
  <2> QED
    BY <1>3, <2>7, <2>8 DEF Answered
<1> QED
  BY <1>0, <1>2, <1>3 DEF Delete

LEMMA EndStep == ASSUME ConfigsTyped, FirewallInvariant, End PROVE FirewallInvariant'
<1>1. /\ Types /\ HostTypes /\ Backed /\ run # Null /\ IsRun(run) /\ RunTypes(run) /\ HasFields(run)
      /\ run.step = "end" /\ UNCHANGED host /\ Null \notin Attributes
  BY DEF FirewallInvariant, Types, End, IsRun, RunTypes, ConfigsTyped
<1>2. HostTypes' /\ tools' = tools
  BY <1>1, HostSame DEF host
<1>3. CASE run.op = "update" /\ Removing
  <2> DEFINE n == [run EXCEPT !.kind = run.target, !.step = "find", !.changed = FALSE]
  <2>1. Go(n)
    BY <1>3 DEF End
  <2>2. /\ HasFields(n) /\ n.res = run.res /\ n.op = run.op /\ n.kind = run.target /\ n.target = run.target
        /\ n.found = run.found /\ n.alone = run.alone /\ n.todo = run.todo /\ n.stale = run.stale
        /\ n.place = run.place /\ n.from = run.from /\ n.step = "find"
    BY <1>1 DEF HasFields, FieldNames
  <2> HIDE DEF n
  <2>3. IsRun(n)
    BY <1>1, <1>3, <2>2 DEF IsRun, RunTypes, RunStep
  <2>4. Backed'
    BY <1>1, <1>3, <2>1, <2>2 DEF Backed, Go, Removing
  <2> QED
    BY <1>1, <1>2, <2>1, <2>2, <2>3, <2>4, GoOn
<1>4. CASE ~(run.op = "update" /\ Removing)
  <2>1. /\ run' = Null /\ UNCHANGED <<config, foreign>> /\ run.res \in Resources
        /\ state' = [state EXCEPT ![run.res] =
                        IF run.op = "delete" THEN Null ELSE StateOf(Want.backend, run.kind, Want)]
        /\ tainted' = [tainted EXCEPT ![run.res] = FALSE]
    BY <1>1, <1>4 DEF End, bounds, RunTypes
  <2>2. run.op # "delete" => StateOf(Want.backend, run.kind, Want) \in Attributes
    BY <1>1, RecordedIs DEF Want
  <2>3. /\ state' \in [Resources -> Attributes \cup {Null}]
        /\ tainted' \in [Resources -> BOOLEAN] /\ \A r \in Resources : tainted'[r] => state'[r] # Null
    BY <1>1, <2>1, <2>2 DEF Types
  <2> QED
    BY <1>1, <1>2, <2>1, <2>3, NoRun DEF Types
<1> QED
  BY <1>3, <1>4

\* What others do leaves a table and chains.
LEMMA OthersNft == ASSUME Types, OthersChangeNft PROVE nft' # Null => IsTable(nft')
<1>1. HostTypes /\ nft # Null /\ IsTable(nft) /\ (run # Null => IsRun(run))
  BY TableTyped DEF Types, OthersChangeNft
<1>2. Fresh \in Nat \ {0} /\ \A c \in Chains : Fresh \notin Handles(nft, c)
  BY <1>1, FreshIs
<1>3. ASSUME NEW c \in Chains, NEW s, Owned(s), nft' = [nft EXCEPT !.rules[c] = s] PROVE IsTable(nft')
  <2>1. /\ nft'.objects = nft.objects /\ nft'.rules = [nft.rules EXCEPT ![c] = s]
        /\ nft' = [objects |-> nft'.objects, rules |-> nft'.rules]
    BY <1>1, <1>3 DEF IsTable, Tables
  <2>2. \A d \in Chains : Owned(nft'.rules[d])
    BY <1>1, <1>3, <2>1 DEF IsTable, Tables
  <2>3. nft' \in Tables
    <3>1. nft'.rules \in [Chains -> Seq(NftRules)]
      BY <1>1, <1>3, <2>1 DEF IsTable, Tables, Owned
    <3> QED
      BY <1>1, <2>1, <3>1 DEF IsTable, Tables
  <2> QED
    BY <2>2, <2>3 DEF IsTable
<1>4. ASSUME NEW c \in Chains, NEW e \in NftRules, e.handle = Fresh, nft' = [nft EXCEPT !.rules[c] = Append(@, e)]
      PROVE  IsTable(nft')
  <2>1. Owned(nft.rules[c]) /\ nft' = [nft EXCEPT !.rules[c] = Append(nft.rules[c], e)]
    BY <1>1, <1>4 DEF IsTable
  <2>2. \A i \in DOMAIN nft.rules[c] : nft.rules[c][i].handle # e.handle
    BY <1>2, <1>4 DEF Handles
  <2>3. Owned(Append(nft.rules[c], e))
    <3>1. PICK s, t : s = nft.rules[c] /\ t = Append(s, e)
      OBVIOUS
    <3>2. Owned(t)
      BY <2>1, <2>2, <3>1, AppendedIs
    <3> QED
      BY <3>1, <3>2
  <2> QED
    BY <1>3, <2>1, <2>3
<1>5. CASE ~nft.objects /\ nft' = [nft EXCEPT !.objects = TRUE]
  BY <1>1, <1>5 DEF IsTable, Tables
<1>6. ASSUME NEW c \in Chains, NEW i \in DOMAIN nft.rules[c], NEW b \in Bodies \cup {Null},
             nft' = [nft EXCEPT !.rules[c][i].body = b]
      PROVE  IsTable(nft')
  <2> DEFINE s == nft.rules[c]
             t == [s EXCEPT ![i].body = b]
  <2>1. Owned(s) /\ nft' = [nft EXCEPT !.rules[c] = t]
    BY <1>1, <1>6 DEF IsTable, Tables
  <2>2. Owned(t)
    <3>1. s \in Seq(NftRules) /\ Len(s) \in Nat /\ DOMAIN s = 1..Len(s) /\ DOMAIN t = DOMAIN s
      BY <2>1 DEF Owned
    <3>2. [s[i] EXCEPT !.body = b] \in NftRules /\ [s[i] EXCEPT !.body = b].handle = s[i].handle
      <4>1. s[i] \in NftRules
        BY <3>1
      <4> QED
        BY <4>1 DEF NftRules
    <3>3. \A j \in DOMAIN s : t[j] \in NftRules /\ t[j].handle = s[j].handle
      BY <3>1, <3>2
    <3> HIDE DEF t
    <3>4. t \in Seq(NftRules)
      <4>1. t = [j \in 1..Len(s) |-> t[j]]
        BY <3>1 DEF t
      <4> QED
        BY <3>1, <3>3, <4>1
    <3> QED
      BY <2>1, <3>1, <3>3, <3>4 DEF Owned
  <2> HIDE DEF s, t
  <2> QED
    BY <1>3, <2>1, <2>2
<1>7. ASSUME NEW c \in Chains, NEW i \in DOMAIN nft.rules[c], nft' = [nft EXCEPT !.rules[c] = RemoveAt(@, i)]
      PROVE  IsTable(nft')
  <2> DEFINE s == nft.rules[c]
             t == RemoveAt(s, i)
  <2>1. Owned(s) /\ nft' = [nft EXCEPT !.rules[c] = t]
    BY <1>1, <1>7 DEF IsTable
  <2>2. Owned(t)
    <3>1. s \in Seq(NftRules) /\ i \in DOMAIN s /\ DOMAIN s = 1..Len(s) /\ Len(s) \in Nat
      BY <2>1 DEF Owned
    <3>2. PICK u : u = t
      OBVIOUS
    <3>3. /\ u \in Seq(NftRules) /\ Len(u) = Len(s) - 1
          /\ \A j \in DOMAIN s : j < i => u[j] = s[j]
          /\ \A j \in DOMAIN s : j > i => u[j - 1] = s[j]
      <4> HIDE DEF s
      <4> QED
        BY <3>1, <3>2, Removed
    <3> HIDE DEF s, t
    <3>4. ASSUME NEW j \in DOMAIN u
          PROVE  \E k \in DOMAIN s : u[j] = s[k] /\ k = (IF j < i THEN j ELSE j + 1)
      <4>1. j \in 1..(Len(s) - 1)
        BY <3>1, <3>3
      <4>2. PICK k : k = IF j < i THEN j ELSE j + 1
        OBVIOUS
      <4>3. k \in DOMAIN s /\ u[j] = s[k]
        BY <3>1, <3>3, <4>1, <4>2
      <4> QED
        BY <4>2, <4>3
    <3>5. ASSUME NEW j \in DOMAIN u, NEW m \in DOMAIN u, u[j].handle = u[m].handle PROVE j = m
      <4>1. PICK k \in DOMAIN s : u[j] = s[k] /\ k = (IF j < i THEN j ELSE j + 1)
        BY <3>4
      <4>2. PICK l \in DOMAIN s : u[m] = s[l] /\ l = (IF m < i THEN m ELSE m + 1)
        BY <3>4
      <4>3. k = l
        BY <2>1, <3>5, <4>1, <4>2 DEF Owned
      <4>4. j \in Int /\ m \in Int /\ i \in Int
        BY <3>1, <3>3
      <4> QED
        BY <4>1, <4>2, <4>3, <4>4
    <3> QED
      BY <3>2, <3>3, <3>5 DEF Owned
  <2> HIDE DEF s, t
  <2> QED
    BY <1>3, <2>1, <2>2
<1>8. ASSUME NEW c \in Chains, NEW i \in DOMAIN nft.rules[c], NEW d \in Chains,
             nft' = [nft EXCEPT !.rules[d] = Append(@, [nft.rules[c][i] EXCEPT !.handle = Fresh])]
      PROVE  IsTable(nft')
  <2> DEFINE e == [nft.rules[c][i] EXCEPT !.handle = Fresh]
  <2>1. e \in NftRules /\ e.handle = Fresh
    <3>1. nft.rules[c][i] \in NftRules
      BY <1>1 DEF IsTable, Tables
    <3> QED
      BY <1>2, <3>1 DEF NftRules
  <2> HIDE DEF e
  <2> QED
    BY <1>4, <1>8, <2>1 DEF e
<1>9. ASSUME NEW c \in Chains,
             nft' = [nft EXCEPT !.rules[c] =
                Append(@, [name |-> Other, family |-> "inet", body |-> Null, handle |-> Fresh])]
      PROVE  IsTable(nft')
  <2> DEFINE e == [name |-> Other, family |-> "inet", body |-> Null, handle |-> Fresh]
  <2>1. e \in NftRules /\ e.handle = Fresh
    BY <1>2 DEF NftRules, RuleNames
  <2> HIDE DEF e
  <2> QED
    BY <1>4, <1>9, <2>1 DEF e
<1> QED
  BY <1>5, <1>6, <1>7, <1>8, <1>9 DEF OthersChangeNft

LEMMA OthersIpt ==
    ASSUME Types, OthersChangeIpt PROVE ipt' \in [Families -> [Chains -> Seq(IptRules)]]
<1>1. ipt \in [Families -> [Chains -> Seq(IptRules)]] /\ [name |-> Other, body |-> Null] \in IptRules
  BY DEF Types, HostTypes, IptRules, RuleNames
<1>2. PICK f \in Families, c \in Chains :
         \/ ipt' = [ipt EXCEPT ![f][c] = <<[name |-> Other, body |-> Null]>> \o @]
         \/ \E i \in DOMAIN ipt[f][c] :
              \/ \E b \in Bodies \cup {Null} : ipt' = [ipt EXCEPT ![f][c][i].body = b]
              \/ ipt' = [ipt EXCEPT ![f][c] = RemoveAt(@, i)]
              \/ ipt' = [ipt EXCEPT ![f][c] = Append(@, ipt[f][c][i])]
  BY DEF OthersChangeIpt
<1> DEFINE s == ipt[f][c]
<1>3. s \in Seq(IptRules)
  BY <1>1
<1>4. ASSUME NEW t \in Seq(IptRules), ipt' = [ipt EXCEPT ![f][c] = t]
      PROVE  ipt' \in [Families -> [Chains -> Seq(IptRules)]]
  BY <1>1, <1>4
<1>5. CASE ipt' = [ipt EXCEPT ![f][c] = <<[name |-> Other, body |-> Null]>> \o @]
  <2>1. <<[name |-> Other, body |-> Null]>> \in Seq(IptRules)
    BY <1>1
  <2>2. <<[name |-> Other, body |-> Null]>> \o s \in Seq(IptRules)
    <3> HIDE DEF s
    <3> QED
      BY <1>3, <2>1
  <2> QED
    BY <1>4, <1>5, <2>2
<1>6. ASSUME NEW i \in DOMAIN s, NEW b \in Bodies \cup {Null}, ipt' = [ipt EXCEPT ![f][c][i].body = b]
      PROVE  ipt' \in [Families -> [Chains -> Seq(IptRules)]]
  <2>1. [s[i] EXCEPT !.body = b] \in IptRules
    <3>1. s[i] \in IptRules
      BY <1>3
    <3> QED
      BY <3>1 DEF IptRules
  <2>2. [s EXCEPT ![i].body = b] \in Seq(IptRules)
    <3> HIDE DEF s
    <3>1. [s EXCEPT ![i].body = b] \in [1..Len(s) -> IptRules]
      BY <1>3, <2>1
    <3> QED
      BY <1>3, <3>1
  <2> QED
    BY <1>4, <1>6, <2>2
<1>7. ASSUME NEW i \in DOMAIN s, ipt' = [ipt EXCEPT ![f][c] = RemoveAt(@, i)]
      PROVE  ipt' \in [Families -> [Chains -> Seq(IptRules)]]
  <2>1. PICK u : u = RemoveAt(s, i)
    OBVIOUS
  <2>2. u \in Seq(IptRules)
    <3> HIDE DEF s
    <3> QED
      BY <1>3, <2>1, Removed
  <2> QED
    BY <1>4, <1>7, <2>1, <2>2
<1>8. ASSUME NEW i \in DOMAIN s, ipt' = [ipt EXCEPT ![f][c] = Append(@, ipt[f][c][i])]
      PROVE  ipt' \in [Families -> [Chains -> Seq(IptRules)]]
  <2>1. Append(s, s[i]) \in Seq(IptRules)
    <3> HIDE DEF s
    <3> QED
      BY <1>3
  <2> QED
    BY <1>4, <1>8, <2>1
<1> QED
  BY <1>2, <1>5, <1>6, <1>7, <1>8

LEMMA ForeignStep == ASSUME FirewallInvariant, Foreign PROVE FirewallInvariant'
<1>1. /\ Types /\ HostTypes /\ raced' = (run # Null)
      /\ UNCHANGED <<config, state, tainted, run>> /\ foreign' = foreign + 1
  BY DEF FirewallInvariant, Types, Foreign
<1>2. HostTypes' /\ tools' \subseteq Families \cup {"nft"}
  <2>1. CASE OthersChangeNft
    <3>1. (nft' # Null => IsTable(nft')) /\ UNCHANGED <<ipt, tools>>
      BY <1>1, <2>1, OthersNft DEF OthersChangeNft
    <3> QED
      BY <1>1, <3>1 DEF HostTypes, IsTable, Tables, Owned, Types
  <2>2. CASE OthersChangeIpt
    <3>1. ipt' \in [Families -> [Chains -> Seq(IptRules)]] /\ UNCHANGED <<nft, tools>>
      BY <1>1, <2>2, OthersIpt DEF OthersChangeIpt
    <3> QED
      BY <1>1, <3>1 DEF HostTypes, Types
  <2>3. CASE OthersChangeTools
    <3>1. UNCHANGED <<nft, ipt>>
      BY <2>3 DEF OthersChangeTools
    <3>2. PICK t \in Families \cup {"nft"} : tools' = (tools \ {t}) \cup ({t} \ tools)
      BY <2>3 DEF OthersChangeTools
    <3> QED
      BY <1>1, <3>1, <3>2, HostSame DEF Types
  <2> QED
    BY <2>1, <2>2, <2>3 DEF Foreign
<1>3. (run # Null => IsRun(run))'
  BY <1>1, RunSame DEF Types
<1>4. Types'
  BY <1>1, <1>2, <1>3 DEF Types
<1>5. Backed' /\ Looked'
  BY <1>1 DEF Backed, Looked
<1> QED
  BY <1>4, <1>5 DEF FirewallInvariant

LEMMA FirewallStep == ASSUME ConfigsTyped, FirewallInvariant, [Next]_vars PROVE FirewallInvariant'
<1>1. ASSUME NEW r \in Resources, Configure(r) \/ Refresh(r) \/ Import(r)
      PROVE  FirewallInvariant'
  BY <1>1, ConfigureStep, RefreshStep, ImportStep
<1>2. ASSUME NEW r \in Resources, BeginCreate(r) \/ BeginUpdate(r) \/ BeginDelete(r)
      PROVE  FirewallInvariant'
  BY <1>2, BeginStep
<1>3. CASE Steps
  BY <1>3, FindStep, ScriptStep, CheckStep, AddStep, DeleteStep, EndStep, EndedStep DEF Steps
<1>4. CASE Foreign
  BY <1>4, ForeignStep
<1>5. CASE UNCHANGED vars
  <2>1. UNCHANGED <<host, config, run, raced, foreign, state, tainted>>
    BY <1>5 DEF vars, bounds
  <2>2. Types
    BY DEF FirewallInvariant
  <2> QED
    BY <2>1, <2>2, QuietStep DEF Types
<1> QED
  BY <1>1, <1>2, <1>3, <1>4, <1>5 DEF Next

LEMMA FirewallInit == Init => FirewallInvariant
<1> SUFFICES ASSUME Init PROVE FirewallInvariant
  OBVIOUS
<1>1. ipt \in [Families -> [Chains -> Seq(IptRules)]]
  <2>1. [name |-> Other, body |-> Null] \in IptRules
    BY DEF IptRules, RuleNames
  <2>2. <<[name |-> Other, body |-> Null]>> \in Seq(IptRules) /\ <<>> \in Seq(IptRules)
    BY <2>1
  <2> QED
    BY <2>2 DEF Init
<1>2. Types
  BY <1>1 DEF Init, Types, HostTypes
<1> QED
  BY <1>2 DEF Init, FirewallInvariant, Backed, Looked

-----------------------------------------------------------------------------
(* What the rules of others are, of what is kept of a list.                 *)
LEMMA KeptOthers ==
    ASSUME NEW S, NEW s \in Seq(S), NEW I \in SUBSET (1..Len(s)), NEW n, OthersAt(s, n) \subseteq I,
           NEW t, t = At(s, I)
    PROVE  Rest(t, n) = Rest(s, n)
<1> DEFINE J == OthersAt(s, n)
<1>1. Len(s) \in Nat /\ J \in SUBSET I /\ DOMAIN s = 1..Len(s)
  OBVIOUS
<1>2. DOMAIN t = 1..Cardinality(I)
  BY DEF At
<1>3. ASSUME NEW r \in 1..Cardinality(I) PROVE r \in OthersAt(t, n) <=> r \in Ranks(I, J)
  <2>1. PICK i \in I : Rank(I, i) = r /\ At(s, I)[r] = s[i]
    <3>1. Sourced(s, I)
      BY <1>1, AtSource
    <3> QED
      BY <3>1 DEF Sourced
  <2>2. t[r] = s[i] /\ i \in DOMAIN s
    BY <1>1, <2>1
  <2>3. r \in OthersAt(t, n) <=> s[i].name # n
    BY <1>2, <2>2 DEF OthersAt
  <2>4. i \in J <=> s[i].name # n
    BY <2>2 DEF OthersAt
  <2>5. ASSUME r \in Ranks(I, J) PROVE i \in J
    <3>1. PICK k \in J : r = Rank(I, k)
      BY <2>5 DEF Ranks
    <3>2. k \in I
      BY <1>1
    <3>3. (i < k <=> Rank(I, i) < Rank(I, k)) /\ (k < i <=> Rank(I, k) < Rank(I, i))
      BY <1>1, <3>2, RankOrder
    <3>4. i \in Int /\ k \in Int /\ r \in Int
      BY <1>1, <3>2
    <3>5. i = k
      BY <2>1, <3>1, <3>3, <3>4
    <3> QED
      BY <3>1, <3>5
  <2>6. i \in J => r \in Ranks(I, J)
    BY <2>1 DEF Ranks
  <2> QED
    BY <2>3, <2>4, <2>5, <2>6
<1>4. OthersAt(t, n) \subseteq 1..Cardinality(I) /\ Ranks(I, J) \subseteq 1..Cardinality(I)
  BY <1>2 DEF OthersAt, Ranks
<1>5. OthersAt(t, n) = Ranks(I, J)
  BY <1>3, <1>4
<1> HIDE DEF J
<1>6. At(At(s, I), Ranks(I, J)) = At(s, J)
  BY <1>1, AtAt
<1> QED
  BY <1>5, <1>6 DEF J, Rest

LEMMA NoneKept == ASSUME NEW s, NEW I, I = {} PROVE At(s, I) = <<>>
<1>1. Cardinality(I) = 0
  BY FS_EmptySet
<1> QED
  BY <1>1 DEF At

\* The rules that a script leaves, of those that are not the resource's.
LEMMA WithoutOthers ==
    ASSUME NEW s, Owned(s), NEW H, NEW n, \A i \in DOMAIN s : s[i].handle \in H => s[i].name = n,
           NEW t, t = Without(s, H)
    PROVE  Rest(t, n) = Rest(s, n)
<1> DEFINE I == {i \in DOMAIN s : s[i].handle \notin H}
<1>1. s \in Seq(NftRules) /\ I \in SUBSET (1..Len(s)) /\ t = At(s, I)
  BY DEF Owned, Without
<1>2. OthersAt(s, n) \subseteq I
  BY DEF OthersAt
<1> HIDE DEF I
<1> QED
  BY <1>1, <1>2, KeptOthers

WithRule(s, h, e) == [i \in DOMAIN s |-> IF s[i].handle = h THEN e ELSE s[i]]

LEMMA ReplacedOthers ==
    ASSUME NEW s, Owned(s), NEW e \in NftRules, NEW h,
           \A i \in DOMAIN s : s[i].handle = h => s[i].name = e.name
    PROVE  Rest(WithRule(s, h, e), e.name) = Rest(s, e.name)
<1> DEFINE t == WithRule(s, h, e)
           n == e.name
<1>0. t = [i \in DOMAIN s |-> IF s[i].handle = h THEN e ELSE s[i]]
  BY DEF WithRule
<1> HIDE DEF t
<1>1. s \in Seq(NftRules) /\ Len(s) \in Nat /\ DOMAIN s = 1..Len(s) /\ DOMAIN t = DOMAIN s
  BY <1>0 DEF Owned
<1>2. t \in Seq(NftRules) /\ Len(t) = Len(s)
  <2>1. t \in [1..Len(s) -> NftRules]
    BY <1>0, <1>1
  <2> QED
    BY <1>1, <2>1
<1>3. OthersAt(t, n) = OthersAt(s, n)
  BY <1>0, <1>1 DEF OthersAt
<1>4. \A i \in OthersAt(s, n) : t[i] = s[i]
  BY <1>0, <1>1 DEF OthersAt
<1>5. OthersAt(s, n) \in SUBSET (1..Len(s)) /\ OthersAt(s, n) \subseteq 1..Len(t)
  BY <1>1, <1>2 DEF OthersAt
<1>6. At(t, OthersAt(s, n)) = At(s, OthersAt(s, n))
  BY <1>1, <1>2, <1>4, <1>5, AtAgree
<1> QED
  BY <1>3, <1>6 DEF Rest, t

LEMMA AppendedOthers ==
    ASSUME NEW S, NEW s \in Seq(S), NEW e \in S, NEW n, e.name = n, NEW t, t = Append(s, e)
    PROVE  Rest(t, n) = Rest(s, n)
<1>1. t = InsertAt(s, Len(s) + 1, e) /\ Len(s) + 1 \in 1..(Len(s) + 1)
  BY Appended
<1> QED
  BY <1>1, InsertedOthers

LEMMA OthersAreRest == \A s : OthersIn(s) = Rest(s, run.res)
  BY DEF OthersIn, Rest, OthersAt

LEMMA ScriptOthers == ASSUME ConfigsTyped, FirewallInvariant, Script PROVE KeepsOthers
<1> DEFINE t == IF nft = Null /\ ~Removing THEN EmptyTable ELSE nft
<1>1. /\ Types /\ HostTypes /\ Looked /\ run # Null /\ IsRun(run) /\ RunTypes(run) /\ run.step = "script"
      /\ UNCHANGED <<ipt, tools>>
  BY DEF FirewallInvariant, Types, Script, IsRun
<1>2. CASE UNCHANGED nft
  BY <1>1, <1>2 DEF KeepsOthers
<1>3. ASSUME nft # Null, ~raced, (Removing /\ run.alone) \/ \A c \in Chains : FoundHandles(c) \subseteq Handles(t, c),
             nft' = IF ~Removing THEN Replaced(t)
                    ELSE IF run.alone THEN Null
                    ELSE [t EXCEPT !.rules = [c \in Chains |-> Without(@[c], FoundHandles(c))]]
      PROVE  \/ nft' = Null /\ ~nft.objects /\ \A c \in Chains : OthersIn(nft.rules[c]) = <<>>
             \/ nft' # Null /\ nft'.objects = nft.objects
                /\ \A c \in Chains : OthersIn(nft'.rules[c]) = OthersIn(nft.rules[c])
  <2>1. t = nft /\ IsTable(nft) /\ \A c \in Chains : Owned(nft.rules[c])
    BY <1>1, <1>3, TableTyped DEF IsTable
  <2> HIDE DEF t
  <2>2. \A c \in Chains : \A i \in DOMAIN nft.rules[c] :
            nft.rules[c][i].handle \in FoundHandles(c) => nft.rules[c][i].name = run.res
    BY <1>1, <1>3 DEF Looked
  <2>3. \A u : IsTable(u) => u # Null
    BY DEF ConfigsTyped, IsTable
  <2>4. CASE Removing /\ run.alone
    <3>1. nft' = Null /\ ~nft.objects /\ NoOtherRules
      BY <1>1, <1>3, <2>4 DEF Looked
    <3>2. ASSUME NEW c \in Chains PROVE OthersIn(nft.rules[c]) = <<>>
      <4>1. {i \in DOMAIN nft.rules[c] : nft.rules[c][i].name # run.res} = {}
        BY <1>3, <3>1 DEF NoOtherRules
      <4> QED
        BY <4>1, NoneKept DEF OthersIn
    <3> QED
      BY <3>1, <3>2
  <2>5. CASE Removing /\ ~run.alone
    <3>1. nft' = [nft EXCEPT !.rules = [c \in Chains |-> Without(@[c], FoundHandles(c))]]
      BY <1>3, <2>1, <2>5
    <3>2. /\ IsTable(nft') /\ nft'.objects = nft.objects
          /\ \A c \in Chains : nft'.rules[c] = Without(nft.rules[c], FoundHandles(c))
      BY <2>1, <3>1, TrimmedTyped
    <3>3. ASSUME NEW c \in Chains PROVE OthersIn(nft'.rules[c]) = OthersIn(nft.rules[c])
      <4>1. PICK s, H, w, n : s = nft.rules[c] /\ H = FoundHandles(c) /\ w = nft'.rules[c] /\ n = run.res
        OBVIOUS
      <4>2. Rest(w, n) = Rest(s, n)
        BY <2>1, <2>2, <3>2, <4>1, WithoutOthers
      <4> QED
        BY <4>1, <4>2, OthersAreRest
    <3> QED
      BY <2>3, <3>2, <3>3
  <2>6. CASE ~Removing
    <3>1. nft' = Replaced(nft) /\ run.op # "delete" /\ \A c \in Chains : FoundHandles(c) \subseteq Handles(nft, c)
      BY <1>1, <1>3, <2>1, <2>6 DEF Removing, RunTypes, ConfigsTyped
    <3>2. Want \in Wanted /\ Want.chain \in Chains /\ run.res \in Resources
      BY <1>1, <3>1, WantIs DEF Wanted, RunTypes
    <3>3. IsTable(nft')
      BY <1>1, <1>3, <2>1, <3>1, ReplacedTyped
    <3>4. /\ nft'.objects = nft.objects
          /\ nft'.rules = [c \in Chains |->
                IF c # Want.chain THEN Left(nft, c)
                ELSE IF Keeps THEN [i \in DOMAIN Left(nft, c) |->
                                       IF Left(nft, c)[i].handle = Old THEN NewRule ELSE Left(nft, c)[i]]
                ELSE Append(Left(nft, c), NewRule)]
      BY <2>1, <3>1, <3>2, ReplacedTable
    <3>5. ASSUME NEW c \in Chains
          PROVE  /\ OthersIn(Left(nft, c)) = OthersIn(nft.rules[c])
                 /\ Owned(Left(nft, c)) /\ \A e : In(e, Left(nft, c)) => In(e, nft.rules[c])
      <4>1. Left(nft, c) = Without(nft.rules[c], FoundHandles(c) \ {Old})
        BY DEF Left
      <4>2. Owned(Left(nft, c)) /\ \A e : In(e, Left(nft, c)) => In(e, nft.rules[c])
        BY <2>1, <4>1, WithoutIs
      <4>3. \A i \in DOMAIN nft.rules[c] :
                nft.rules[c][i].handle \in FoundHandles(c) \ {Old} => nft.rules[c][i].name = run.res
        BY <2>2
      <4>4. OthersIn(Left(nft, c)) = OthersIn(nft.rules[c])
        <5>1. PICK s, H, w, n : /\ s = nft.rules[c] /\ H = FoundHandles(c) \ {Old}
                                /\ w = Left(nft, c) /\ n = run.res
          OBVIOUS
        <5>2. Rest(w, n) = Rest(s, n)
          BY <2>1, <4>1, <4>3, <5>1, WithoutOthers
        <5> QED
          BY <5>1, <5>2, OthersAreRest
      <4> QED
        BY <4>2, <4>4
    <3>6. NewRule \in NftRules /\ NewRule.name = run.res
      <4>1. Fresh \in Nat \ {0}
        BY <1>1, FreshIs
      <4> QED
        BY <3>2, <4>1 DEF NewRule, NftRules, RuleNames, Wanted
    <3>7. PICK s, u, e, h : s = Left(nft, Want.chain) /\ u = nft'.rules[Want.chain] /\ e = NewRule /\ h = Old
      OBVIOUS
    <3>8. OthersIn(u) = OthersIn(s)
      <4>1. CASE Keeps
        <5>1. u = [i \in DOMAIN s |-> IF s[i].handle = h THEN e ELSE s[i]]
          BY <3>2, <3>4, <3>7, <4>1
        <5>2. h \in FoundHandles(Want.chain)
          <6>1. 1 \in DOMAIN run.found /\ run.found[1].chain = Want.chain /\ h = run.found[1].at
            BY <1>1, <3>7, <4>1 DEF Keeps, Old, RunTypes
          <6> QED
            BY <6>1 DEF FoundHandles
        <5>3. ASSUME NEW i \in DOMAIN s, s[i].handle = h PROVE s[i].name = run.res
          <6>1. PICK j \in DOMAIN nft.rules[Want.chain] : nft.rules[Want.chain][j] = s[i]
            BY <3>2, <3>5, <3>7 DEF In
          <6> QED
            BY <2>2, <3>2, <5>2, <5>3, <6>1
        <5>4. PICK n : n = run.res
          OBVIOUS
        <5>5. Rest(u, n) = Rest(s, n)
          <6>1. Owned(s) /\ e \in NftRules /\ e.name = n
            BY <3>2, <3>5, <3>6, <3>7, <5>4
          <6>2. \A i \in DOMAIN s : s[i].handle = h => s[i].name = e.name
            BY <5>3, <5>4, <6>1
          <6>3. Rest(WithRule(s, h, e), e.name) = Rest(s, e.name)
            BY <6>1, <6>2, ReplacedOthers
          <6>4. u = WithRule(s, h, e)
            BY <5>1 DEF WithRule
          <6> QED
            BY <6>1, <6>3, <6>4
        <5> QED
          BY <5>4, <5>5, OthersAreRest
      <4>2. CASE ~Keeps
        <5>1. u = Append(s, e) /\ s \in Seq(NftRules)
          BY <3>2, <3>4, <3>5, <3>7, <4>2 DEF Owned
        <5>2. PICK n : n = run.res
          OBVIOUS
        <5>4. e \in NftRules /\ e.name = n
          BY <3>6, <3>7, <5>2
        <5>3. Rest(u, n) = Rest(s, n)
          BY <5>1, <5>4, AppendedOthers, Zenon
        <5> QED
          BY <5>2, <5>3, OthersAreRest
      <4> QED
        BY <4>1, <4>2
    <3>9. ASSUME NEW c \in Chains PROVE OthersIn(nft'.rules[c]) = OthersIn(nft.rules[c])
      <4>1. CASE c = Want.chain
        BY <3>5, <3>7, <3>8, <4>1
      <4>2. CASE c # Want.chain
        <5>1. nft'.rules[c] = Left(nft, c)
          BY <3>4, <4>2
        <5> QED
          BY <3>5, <5>1
      <4> QED
        BY <4>1, <4>2
    <3> QED
      BY <2>3, <3>3, <3>4, <3>9
  <2> QED
    BY <2>4, <2>5, <2>6
<1> QED
  BY <1>1, <1>2, <1>3 DEF Script, KeepsOthers

LEMMA AddOthers == ASSUME ConfigsTyped, FirewallInvariant, Add PROVE KeepsOthers
<1>0. PICK h, p : h = Head(run.todo) /\ p = run.place[h]
  OBVIOUS
<1>1. /\ Types /\ HostTypes /\ IsRun(run) /\ RunTypes(run) /\ RunStep(run) /\ run.op # "delete"
      /\ run.todo # <<>> /\ run.todo \in Seq(Families) /\ UNCHANGED <<nft, tools>> /\ run # Null
  BY DEF FirewallInvariant, Types, Add, IsRun, RunTypes, RunStep, ConfigsTyped
<1>2. CASE UNCHANGED ipt
  BY <1>1, <1>2 DEF KeepsOthers
<1>3. ASSUME p <= Len(Chain) + 1,
             ipt' = [ipt EXCEPT ![h][Want.chain] = IF p = 0 THEN Append(@, Rule) ELSE InsertAt(@, p, Rule)]
      PROVE  \A f \in Families, c \in Chains : OthersIn(ipt'[f][c]) = OthersIn(ipt[f][c])
  <2>1. h \in Families /\ p \in Nat /\ Want \in Wanted /\ Want.chain \in Chains /\ run.res \in Resources
    <3>1. h \in Families
      BY <1>0, <1>1
    <3> QED
      BY <1>0, <1>1, <3>1, WantIs DEF Wanted, RunTypes
  <2>2. PICK s, t, r : s = ipt[h][Want.chain] /\ t = ipt'[h][Want.chain] /\ r = Rule
    OBVIOUS
  <2>3. s \in Seq(IptRules) /\ r \in IptRules /\ r.name = run.res /\ s = Chain
    <3>1. ipt[h][Want.chain] \in Seq(IptRules)
      BY <1>1, <2>1 DEF HostTypes
    <3>2. r = [name |-> run.res, body |-> Want.body] /\ Want.body \in Bodies
      BY <2>1, <2>2 DEF Rule, Wanted
    <3>3. r \in IptRules /\ r.name = run.res
      BY <2>1, <3>2 DEF IptRules, RuleNames
    <3> QED
      BY <1>0, <2>2, <3>1, <3>3 DEF Chain
  <2>4. t = IF p = 0 THEN Append(s, r) ELSE InsertAt(s, p, r)
    BY <1>1, <1>3, <2>1, <2>2 DEF HostTypes
  <2>5. \A g \in Families, c \in Chains : g # h \/ c # Want.chain => ipt'[g][c] = ipt[g][c]
    BY <1>1, <1>3, <2>1 DEF HostTypes
  <2>6. OthersIn(t) = OthersIn(s)
    <3>1. CASE p = 0
      <4>1. PICK n : n = run.res
        OBVIOUS
      <4>3. t = Append(s, r) /\ s \in Seq(IptRules) /\ r \in IptRules /\ r.name = n
        BY <2>3, <2>4, <3>1, <4>1
      <4>2. Rest(t, n) = Rest(s, n)
        BY <4>3, AppendedOthers, Zenon
      <4> QED
        BY <4>1, <4>2, OthersAreRest
    <3>2. CASE p # 0
      <4>1. p \in 1..(Len(s) + 1)
        BY <1>3, <2>1, <2>3, <3>2
      <4> QED
        BY <2>3, <2>4, <3>2, <4>1, InsertedOthers, OthersAreRest
    <3> QED
      BY <3>1, <3>2
  <2> SUFFICES ASSUME NEW f \in Families, NEW c \in Chains PROVE OthersIn(ipt'[f][c]) = OthersIn(ipt[f][c])
    OBVIOUS
  <2>7. CASE f = h /\ c = Want.chain
    BY <2>2, <2>6, <2>7
  <2>8. CASE f # h \/ c # Want.chain
    BY <2>5, <2>8
  <2> QED
    BY <2>7, <2>8
<1> QED
  BY <1>0, <1>1, <1>2, <1>3 DEF Add, KeepsOthers

LEMMA DeleteOthers == ASSUME FirewallInvariant, Delete PROVE KeepsOthers
<1>0. PICK e, f, c : e = Head(run.stale) /\ f = e.family /\ c = e.chain
  OBVIOUS
<1>1. /\ Types /\ HostTypes /\ run # Null /\ IsRun(run) /\ RunTypes(run) /\ RunStep(run) /\ run.stale # <<>>
      /\ run.stale \in Seq(Entries) /\ UNCHANGED <<nft, tools>>
      /\ \A i \in DOMAIN run.stale : run.stale[i].name = run.res /\ run.stale[i].family \in Families
  BY DEF FirewallInvariant, Types, Delete, IsRun, RunTypes, RunStep
<1>2. CASE UNCHANGED ipt
  BY <1>1, <1>2 DEF KeepsOthers
<1>3. ASSUME NEW i \in DOMAIN ipt[f][c], ipt[f][c][i] = [name |-> e.name, body |-> e.body],
             ipt' = [ipt EXCEPT ![f][c] = RemoveAt(@, i)]
      PROVE  \A g \in Families, d \in Chains : OthersIn(ipt'[g][d]) = OthersIn(ipt[g][d])
  <2>1. e.name = run.res /\ f \in Families /\ c \in Chains
    <3>1. e = run.stale[1] /\ 1 \in DOMAIN run.stale /\ e \in Entries
      BY <1>0, <1>1
    <3> QED
      BY <1>0, <1>1, <3>1 DEF Entries
  <2>2. PICK s, t : s = ipt[f][c] /\ t = ipt'[f][c]
    OBVIOUS
  <2>3. s \in Seq(IptRules) /\ i \in DOMAIN s /\ s[i].name = run.res
    BY <1>1, <1>3, <2>1, <2>2 DEF HostTypes
  <2>4. t = RemoveAt(s, i)
    BY <1>1, <1>3, <2>1, <2>2 DEF HostTypes
  <2>5. OthersIn(t) = OthersIn(s)
    BY <2>3, <2>4, RemovedOthers, OthersAreRest
  <2>6. \A g \in Families, d \in Chains : g # f \/ d # c => ipt'[g][d] = ipt[g][d]
    BY <1>1, <1>3, <2>1 DEF HostTypes
  <2> SUFFICES ASSUME NEW g \in Families, NEW d \in Chains PROVE OthersIn(ipt'[g][d]) = OthersIn(ipt[g][d])
    OBVIOUS
  <2>7. CASE g = f /\ d = c
    BY <2>2, <2>5, <2>7
  <2>8. CASE g # f \/ d # c
    BY <2>6, <2>8
  <2> QED
    BY <2>7, <2>8
<1> QED
  BY <1>0, <1>1, <1>2, <1>3 DEF Delete, KeepsOthers

LEMMA OthersStep == ASSUME ConfigsTyped, FirewallInvariant, [Next]_vars PROVE KeepsOthers
<1>1. CASE UNCHANGED host
  BY <1>1 DEF host, KeepsOthers
<1>2. CASE Foreign
  BY <1>2 DEF Foreign, KeepsOthers, FirewallInvariant, Types
<1>3. CASE Script \/ Add \/ Delete
  BY <1>3, ScriptOthers, AddOthers, DeleteOthers
<1>4. [Next]_vars => UNCHANGED host \/ Foreign \/ Script \/ Add \/ Delete
  <2>1. ASSUME NEW r \in Resources,
               Configure(r) \/ Refresh(r) \/ Import(r) \/ BeginCreate(r) \/ BeginUpdate(r) \/ BeginDelete(r)
        PROVE  UNCHANGED host
    BY <2>1 DEF Configure, Refresh, Import, BeginCreate, BeginUpdate, BeginDelete, Start
  <2>2. ASSUME Find \/ Check \/ End \/ CommandFails \/ Kill PROVE UNCHANGED host
    BY <2>2 DEF Find, Check, End, CommandFails, Kill
  <2>3. UNCHANGED vars => UNCHANGED host
    BY DEF vars
  <2> QED
    BY <2>1, <2>2, <2>3 DEF Next, Steps
<1> QED
  BY <1>1, <1>2, <1>3, <1>4

LEMMA TypesGiveTypeOK == ASSUME ConfigsTyped, Types PROVE TypeOK
<1>1. ASSUME nft # Null, NEW c \in Chains, NEW i \in DOMAIN nft.rules[c]
      PROVE  /\ nft.rules[c][i].name \in Resources \cup {Other}
             /\ nft.rules[c][i].body \in Bodies \cup {Null} /\ nft.rules[c][i].handle \in Nat \ {0}
             /\ \A j \in DOMAIN nft.rules[c] : nft.rules[c][i].handle = nft.rules[c][j].handle => i = j
  <2>1. nft.rules[c] \in Seq(NftRules)
    BY <1>1 DEF Types, HostTypes
  <2>2. nft.rules[c][i] \in NftRules
    BY <1>1, <2>1
  <2> QED
    BY <1>1, <2>2 DEF Types, HostTypes, NftRules, RuleNames
<1>2. ASSUME NEW f \in Families, NEW c \in Chains, NEW i \in DOMAIN ipt[f][c]
      PROVE  ipt[f][c][i] \in [name : Resources \cup {Other}, body : Bodies \cup {Null}]
  <2>1. ipt[f][c] \in Seq(IptRules)
    BY DEF Types, HostTypes
  <2>2. ipt[f][c][i] \in IptRules
    BY <2>1
  <2> QED
    BY <2>2 DEF IptRules, RuleNames
<1>3. ASSUME run # Null
      PROVE  /\ run.op # "delete" => Want # Null
             /\ run.op = "create" => run.kind = run.target
             /\ run.step = "delete" => run.stale # <<>>
             /\ run.step \in {"check", "add"} => run.todo # <<>> /\ ~Removing
  BY <1>3 DEF Types, IsRun, RunTypes, RunStep, Want, Removing
<1> QED
  BY <1>1, <1>2, <1>3 DEF TypeOK, Types

LEMMA BackedGivesNoGap == ASSUME ConfigsTyped, Types, Backed PROVE NoGap
<1> SUFFICES ASSUME run # Null, run.op = "update", run.from = run.target, ~raced
             PROVE  run.covered \cap FamiliesOf(Want) \subseteq Covered(run.kind, run.res)
  BY DEF NoGap
<1>1. CASE run.kind # "iptables" \/ run.step = "find" \/ run.todo # <<>>
  BY <1>1 DEF Backed
<1>2. CASE run.kind = "iptables" /\ run.step # "find" /\ run.todo = <<>>
  <2> SUFFICES ASSUME NEW f \in FamiliesOf(Want) PROVE f \in Covered(run.kind, run.res)
    OBVIOUS
  <2>1. f \in Families /\ Want.chain \in Chains
    BY WantIs DEF Wanted
  <2>2. ~In(f, run.todo)
    BY <1>2 DEF In
  <2>3. Cardinality(Copies(f)) > Cardinality(StaleCopies(run.stale, f))
    BY <1>2, <2>2 DEF Backed
  <2>4. ipt[f][Want.chain] \in Seq(IptRules) /\ run.stale \in Seq(Entries) /\ HostTypes
    BY <2>1 DEF Types, HostTypes, IsRun, RunTypes
  <2>5. Cardinality(StaleCopies(run.stale, f)) \in Nat
    BY <2>4, StaleFinite
  <2>6. Cardinality(Copies(f)) > 0 /\ Cardinality(Copies(f)) \in Nat
    BY <2>3, <2>4, <2>5, SameCount DEF Copies
  <2>7. In(Rule, ipt[f][Want.chain])
    BY <2>4, <2>6, SameCount DEF Copies
  <2>8. \E i \in DOMAIN ipt[f][Want.chain] : ipt[f][Want.chain][i].name = run.res
    BY <2>7 DEF In, Rule
  <2> QED
    BY <1>2, <2>1, <2>4, <2>8, IptCovers DEF IptCoverage
<1> QED
  BY <1>1, <1>2

-----------------------------------------------------------------------------
(* The theorems.                                                           *)

(* The invariant holds in every reachable state: where an operation stands, *)
(* what it has listed and planned, and that the rules it is going to delete *)
(* are its own and are not the last ones (Types, Looked and Backed).        *)
THEOREM FirewallInvariantHolds == Spec => []FirewallInvariant
<1>1. Init => FirewallInvariant
  BY ConfigsTyped, FirewallInit
<1>2. FirewallInvariant /\ [Next]_vars => FirewallInvariant'
  BY ConfigsTyped, FirewallStep
<1> QED
  BY <1>1, <1>2, PTL DEF Spec

(* The host's rules, the state and the operation have their types, and only *)
(* a rule that the attributes can express is configured or applied.         *)
THEOREM TypeCorrect == Spec => []TypeOK
<1>1. FirewallInvariant => TypeOK
  BY ConfigsTyped, TypesGiveTypeOK DEF FirewallInvariant
<1> QED
  BY <1>1, FirewallInvariantHolds, PTL

(* apply adds the rules that are missing before it deletes stale ones, and  *)
(* replaces in one script: an update within a backend never leaves a family *)
(* without the rule, wherever it fails or is killed.                        *)
THEOREM UpdateLeavesNoGap == Spec => []NoGap
<1>1. FirewallInvariant => NoGap
  BY ConfigsTyped, BackedGivesNoGap DEF FirewallInvariant
<1> QED
  BY <1>1, FirewallInvariantHolds, PTL

(* Insertions, deletions by handle or specification, and the removal of a   *)
(* table that nobody else uses, keep the rules of other resources and tools *)
(* and their order.                                                         *)
THEOREM OthersAreKept == Spec => OthersKept
<1>1. FirewallInvariant /\ [Next]_vars => KeepsOthers
  BY ConfigsTyped, OthersStep
<1>2. Spec => [][Next]_vars
  BY PTL DEF Spec
<1> QED
  BY <1>1, <1>2, FirewallInvariantHolds, PTL DEF OthersKept
===============================================================================
