------------------------- MODULE PackageRefreshProofs -------------------------
(***************************************************************************)
(* What overlapping refreshes cannot break: the counters of calls under    *)
(* way, the status each row shows, the repository list and, in the end,    *)
(* what the rows say of disk and catalog.                                  *)
(***************************************************************************)
EXTENDS PackageRefresh, FiniteSetTheorems, TLAPS

-----------------------------------------------------------------------------
(* Channels *)

Count(q, type) == Cardinality({i \in DOMAIN q : q[i].type = type})

LEMMA AppendAt ==
    ASSUME NEW S, NEW q \in Seq(S), NEW x \in S
    PROVE  /\ DOMAIN q = 1..Len(q) /\ Len(q) \in Nat
           /\ DOMAIN Append(q, x) = 1..Len(q) + 1
           /\ \A n \in 1..Len(q) : Append(q, x)[n] = q[n]
           /\ Append(q, x)[Len(q) + 1] = x
  OBVIOUS

LEMMA TailAt ==
    ASSUME NEW S, NEW q \in Seq(S), q # <<>>
    PROVE  /\ DOMAIN q = 1..Len(q) /\ Len(q) \in Nat \ {0}
           /\ DOMAIN Tail(q) = 1..Len(q) - 1
           /\ \A n \in 1..Len(q) - 1 : Tail(q)[n] = q[n + 1]
           /\ Head(q) = q[1]
  OBVIOUS

LEMMA ConcatAt ==
    ASSUME NEW S, NEW q \in Seq(S), NEW r \in Seq(S)
    PROVE  /\ DOMAIN q = 1..Len(q) /\ DOMAIN r = 1..Len(r)
           /\ Len(q) \in Nat /\ Len(r) \in Nat
           /\ DOMAIN (q \o r) = 1..Len(q) + Len(r)
           /\ \A n \in 1..Len(q) : (q \o r)[n] = q[n]
           /\ \A n \in 1..Len(r) : (q \o r)[Len(q) + n] = r[n]
  OBVIOUS

LEMMA CountIsNat ==
    ASSUME NEW S, NEW q \in Seq(S), NEW type
    PROVE  /\ IsFiniteSet({i \in DOMAIN q : q[i].type = type})
           /\ Count(q, type) \in Nat
           /\ Count(q, type) = 0 <=> \A i \in DOMAIN q : q[i].type # type
<1> DEFINE A == {i \in DOMAIN q : q[i].type = type}
<1>1. DOMAIN q = 1..Len(q) /\ Len(q) \in Nat
  OBVIOUS
<1>2. IsFiniteSet(DOMAIN q)
  BY <1>1, FS_Interval
<1>3. IsFiniteSet(A)
  BY <1>2, FS_Subset
<1>4. Cardinality(A) \in Nat /\ (Cardinality(A) = 0 <=> A = {})
  BY <1>3, FS_CardinalityType, FS_EmptySet
<1> QED
  BY <1>3, <1>4 DEF Count

LEMMA CountOfNone ==
    ASSUME NEW type
    PROVE  Count(<<>>, type) = 0
<1>1. {i \in DOMAIN <<>> : <<>>[i].type = type} = {}
  OBVIOUS
<1> QED
  BY <1>1, FS_EmptySet DEF Count

LEMMA CountAppend ==
    ASSUME NEW S, NEW q \in Seq(S), NEW x \in S, NEW type
    PROVE  Count(Append(q, x), type) = Count(q, type) + (IF x.type = type THEN 1 ELSE 0)
<1> DEFINE t == Append(q, x)
           A == {i \in DOMAIN q : q[i].type = type}
           B == {i \in DOMAIN t : t[i].type = type}
<1>1. /\ DOMAIN q = 1..Len(q) /\ Len(q) \in Nat /\ DOMAIN t = 1..Len(q) + 1
      /\ \A n \in 1..Len(q) : t[n] = q[n]
      /\ t[Len(q) + 1] = x
  BY AppendAt
<1>2. IsFiniteSet(A) /\ Cardinality(A) \in Nat
  BY CountIsNat DEF Count
<1> HIDE DEF t
<1>3. CASE x.type = type
  <2>1. B = A \cup {Len(q) + 1} /\ Len(q) + 1 \notin A
    BY <1>1, <1>3
  <2>2. Cardinality(A \cup {Len(q) + 1}) = Cardinality(A) + 1
    <3> HIDE DEF A
    <3> QED
      BY <1>2, <2>1, FS_AddElement
  <2>3. Cardinality(B) = Cardinality(A) + 1
    BY <2>1, <2>2
  <2>4. Count(q, type) = Cardinality(A) /\ Count(t, type) = Cardinality(B)
    BY DEF Count
  <2> HIDE DEF A, B
  <2> QED
    BY <1>3, <2>3, <2>4 DEF t
<1>4. CASE x.type # type
  <2>1. B = A
    BY <1>1, <1>4
  <2>2. Count(q, type) = Cardinality(A) /\ Count(t, type) = Cardinality(B)
    BY DEF Count
  <2> HIDE DEF A, B
  <2> QED
    BY <1>2, <1>4, <2>1, <2>2 DEF t
<1> QED
  BY <1>3, <1>4

LEMMA Shifted ==
    ASSUME NEW A, A \subseteq Int, IsFiniteSet(A), NEW n \in Int
    PROVE  IsFiniteSet({a + n : a \in A}) /\ Cardinality({a + n : a \in A}) = Cardinality(A)
<1> DEFINE B == {a + n : a \in A}
           f == [a \in A |-> a + n]
<1>1. f \in [A -> B] /\ IsInjective(f) /\ \A b \in B : \E a \in A : f[a] = b
  BY DEF IsInjective
<1>2. f \in Bijection(A, B)
  BY <1>1 DEF Bijection, Injection, Surjection
<1>3. ExistsBijection(A, B)
  BY <1>2 DEF ExistsBijection
<1> QED
  BY <1>3, FS_Bijection

LEMMA CountTail ==
    ASSUME NEW S, NEW q \in Seq(S), q # <<>>, NEW type
    PROVE  Count(q, type) = Count(Tail(q), type) + (IF Head(q).type = type THEN 1 ELSE 0)
<1> DEFINE t == Tail(q)
           A == {i \in DOMAIN t : t[i].type = type}
           B == {a + 1 : a \in A}
           C == {i \in DOMAIN q : q[i].type = type}
<1>1. /\ DOMAIN q = 1..Len(q) /\ Len(q) \in Nat \ {0} /\ DOMAIN t = 1..Len(q) - 1
      /\ \A n \in 1..Len(q) - 1 : t[n] = q[n + 1]
      /\ Head(q) = q[1]
  BY TailAt
<1>2. t \in Seq(S)
  OBVIOUS
<1>3. IsFiniteSet(A) /\ Cardinality(A) \in Nat
  BY <1>2, CountIsNat DEF Count
<1> HIDE DEF t
<1>4. A \subseteq Int
  BY <1>1
<1>5. IsFiniteSet(B) /\ Cardinality(B) = Cardinality(A)
  BY <1>3, <1>4, Shifted
<1>6. 1 \notin B
  BY <1>1
<1>7. ASSUME NEW i \in C PROVE i = 1 \/ i \in B
  <2>1. i \in 1..Len(q) /\ q[i].type = type
    BY <1>1, <1>7
  <2>2. ASSUME i # 1 PROVE i \in B
    <3>1. PICK a : a = i - 1
      OBVIOUS
    <3>2. a \in 1..Len(q) - 1 /\ i = a + 1
      BY <1>1, <2>1, <2>2, <3>1
    <3>3. a \in A
      BY <1>1, <2>1, <3>2
    <3> QED
      BY <3>2, <3>3
  <2> QED
    BY <2>2
<1>8. B \subseteq C
  BY <1>1
<1>9. CASE Head(q).type = type
  <2>1. C = B \cup {1}
    <3>1. 1 \in C
      BY <1>1, <1>9
    <3> QED
      BY <1>7, <1>8, <3>1
  <2>2. Cardinality(B \cup {1}) = Cardinality(B) + 1
    <3> HIDE DEF B
    <3> QED
      BY <1>5, <1>6, FS_AddElement
  <2>3. Cardinality(C) = Cardinality(A) + 1
    BY <1>5, <2>1, <2>2
  <2>4. Count(t, type) = Cardinality(A) /\ Count(q, type) = Cardinality(C)
    BY DEF Count
  <2> HIDE DEF A, C
  <2> QED
    BY <1>9, <2>3, <2>4 DEF t
<1>10. CASE Head(q).type # type
  <2>1. C = B
    BY <1>1, <1>7, <1>8, <1>10
  <2>2. Count(t, type) = Cardinality(A) /\ Count(q, type) = Cardinality(C)
    BY DEF Count
  <2>3. Cardinality(C) = Cardinality(A)
    BY <1>5, <2>1
  <2> HIDE DEF A, C
  <2> QED
    BY <1>3, <1>10, <2>2, <2>3 DEF t
<1> QED
  BY <1>9, <1>10

LEMMA CountConcat ==
    ASSUME NEW S, NEW q \in Seq(S), NEW r \in Seq(S), NEW type
    PROVE  Count(q \o r, type) = Count(q, type) + Count(r, type)
<1> DEFINE t == q \o r
           A == {i \in DOMAIN q : q[i].type = type}
           D == {i \in DOMAIN r : r[i].type = type}
           B == {d + Len(q) : d \in D}
           C == {i \in DOMAIN t : t[i].type = type}
<1>1. /\ DOMAIN q = 1..Len(q) /\ DOMAIN r = 1..Len(r) /\ Len(q) \in Nat /\ Len(r) \in Nat
      /\ DOMAIN t = 1..Len(q) + Len(r)
      /\ \A n \in 1..Len(q) : t[n] = q[n]
      /\ \A n \in 1..Len(r) : t[Len(q) + n] = r[n]
  BY ConcatAt
<1>2. /\ IsFiniteSet(A) /\ Cardinality(A) \in Nat
      /\ IsFiniteSet(D) /\ Cardinality(D) \in Nat
  BY CountIsNat DEF Count
<1> HIDE DEF t
<1>3. IsFiniteSet(B) /\ Cardinality(B) = Cardinality(D)
  <2>1. D \subseteq Int /\ Len(q) \in Int
    BY <1>1
  <2> HIDE DEF D
  <2> QED
    BY <1>2, <2>1, Shifted
<1>4. A \cap B = {}
  BY <1>1
<1>5. ASSUME NEW i \in C PROVE i \in A \/ i \in B
  <2>1. i \in 1..Len(q) + Len(r) /\ t[i].type = type
    BY <1>1, <1>5
  <2>2. i <= Len(q) => i \in A
    BY <1>1, <2>1
  <2>3. i > Len(q) => i - Len(q) \in 1..Len(r) /\ i = Len(q) + (i - Len(q))
    BY <1>1, <2>1
  <2>4. i > Len(q) => i - Len(q) \in D /\ i = (i - Len(q)) + Len(q)
    BY <1>1, <2>1, <2>3
  <2> QED
    BY <1>1, <2>1, <2>2, <2>4
<1>6. A \subseteq C
  BY <1>1
<1>7. B \subseteq C
  <2>1. ASSUME NEW d \in D PROVE d + Len(q) \in C
    <3>1. d \in 1..Len(r) /\ t[Len(q) + d] = r[d] /\ d + Len(q) = Len(q) + d
      BY <1>1
    <3> QED
      BY <1>1, <3>1
  <2> QED
    BY <2>1
<1>8. C = A \cup B
  BY <1>5, <1>6, <1>7
<1>9. Cardinality({}) = 0
  BY FS_EmptySet
<1>10. Cardinality(C) = Cardinality(A) + Cardinality(B) - Cardinality(A \cap B)
  <2> HIDE DEF A, B
  <2> QED
    BY <1>2, <1>3, <1>8, FS_Union
<1>11. Cardinality(A \cap B) = 0
  BY <1>4, <1>9
<1>12. /\ Count(q, type) = Cardinality(A) /\ Count(r, type) = Cardinality(D)
       /\ Count(t, type) = Cardinality(C)
  BY DEF Count
<1> HIDE DEF A, B, C, D
<1>13. Cardinality(C) = Cardinality(A) + Cardinality(D)
  BY <1>2, <1>3, <1>10, <1>11
<1> QED
  BY <1>12, <1>13 DEF t

\* What is on a channel, by position forgotten.
LEMMA Posted ==
    ASSUME NEW S, NEW q \in Seq(S), NEW x \in S
    PROVE  Append(q, x) \in Seq(S) /\ Range(Append(q, x)) = Range(q) \cup {x}
<1> DEFINE t == Append(q, x)
<1>1. /\ DOMAIN q = 1..Len(q) /\ Len(q) \in Nat /\ DOMAIN t = 1..Len(q) + 1
      /\ \A n \in 1..Len(q) : t[n] = q[n]
      /\ t[Len(q) + 1] = x
  BY AppendAt
<1>2. t \in Seq(S)
  OBVIOUS
<1> HIDE DEF t
<1>3. Range(t) \subseteq Range(q) \cup {x}
  BY <1>1 DEF Range
<1>4. x \in Range(t) /\ Range(q) \subseteq Range(t)
  BY <1>1 DEF Range
<1> QED
  BY <1>2, <1>3, <1>4 DEF t

LEMMA Taken ==
    ASSUME NEW S, NEW q \in Seq(S), q # <<>>
    PROVE  /\ Tail(q) \in Seq(S) /\ Head(q) \in S
           /\ Range(q) = Range(Tail(q)) \cup {Head(q)}
<1> DEFINE t == Tail(q)
<1>1. /\ DOMAIN q = 1..Len(q) /\ Len(q) \in Nat \ {0} /\ DOMAIN t = 1..Len(q) - 1
      /\ \A n \in 1..Len(q) - 1 : t[n] = q[n + 1]
      /\ Head(q) = q[1]
  BY TailAt
<1>2. t \in Seq(S) /\ Head(q) \in S
  OBVIOUS
<1> HIDE DEF t
<1>3. \A n \in DOMAIN q : n = 1 \/ (n - 1 \in DOMAIN t /\ q[n] = t[n - 1])
  BY <1>1
<1>4. Range(q) \subseteq Range(t) \cup {Head(q)}
  BY <1>1, <1>3 DEF Range
<1>5. Range(t) \cup {Head(q)} \subseteq Range(q)
  <2>1. \A n \in DOMAIN t : n + 1 \in DOMAIN q /\ t[n] = q[n + 1]
    BY <1>1
  <2>2. 1 \in DOMAIN q
    BY <1>1
  <2> QED
    BY <1>1, <2>1, <2>2 DEF Range
<1> QED
  BY <1>2, <1>4, <1>5 DEF t

LEMMA Joined ==
    ASSUME NEW S, NEW q \in Seq(S), NEW r \in Seq(S)
    PROVE  q \o r \in Seq(S) /\ Range(q \o r) = Range(q) \cup Range(r)
<1> DEFINE t == q \o r
<1>1. /\ DOMAIN q = 1..Len(q) /\ DOMAIN r = 1..Len(r) /\ Len(q) \in Nat /\ Len(r) \in Nat
      /\ DOMAIN t = 1..Len(q) + Len(r)
      /\ \A n \in 1..Len(q) : t[n] = q[n]
      /\ \A n \in 1..Len(r) : t[Len(q) + n] = r[n]
  BY ConcatAt
<1>2. t \in Seq(S)
  OBVIOUS
<1> HIDE DEF t
<1>3. ASSUME NEW i \in DOMAIN t PROVE t[i] \in Range(q) \cup Range(r)
  <2>1. i > Len(q) => i - Len(q) \in 1..Len(r) /\ i = Len(q) + (i - Len(q))
    BY <1>1
  <2> QED
    BY <1>1, <2>1 DEF Range
<1>4. Range(t) \subseteq Range(q) \cup Range(r)
  BY <1>3 DEF Range
<1>5. Range(q) \subseteq Range(t)
  BY <1>1 DEF Range
<1>6. Range(r) \subseteq Range(t)
  <2>1. \A n \in DOMAIN r : Len(q) + n \in DOMAIN t /\ t[Len(q) + n] = r[n]
    BY <1>1
  <2> QED
    BY <2>1 DEF Range
<1> QED
  BY <1>2, <1>4, <1>5, <1>6 DEF t
-----------------------------------------------------------------------------
(* AppsModel: what each operation makes of well-formed rows *)

Hash == {NoHash} \cup {x.hash : x \in UNION {Builds[p] : p \in Package}}

Build == [version : Nat, hash : Hash]

Row == [build : Build, needs : SUBSET Package, installed : Build,
        missing : SUBSET Package, status : Statuses]

Release == [repo : Repo, name : Package, build : Build, needs : SUBSET Package]

\* A renamed package's row is told of no missing dependency.
RowsOk(r) ==
    /\ DOMAIN r \subseteq Key /\ \A k \in DOMAIN r : r[k] \in Row
    /\ \A k \in DOMAIN r : NameOf(k) \in Renamed => r[k].missing = {}

\* No row would change if its status was computed again.
Fresh(r) == \A k \in DOMAIN r : r[k].status = InstallStatus(r, k)

LEMMA BuildsAreBuilds == \A p \in Package : Builds[p] \subseteq Build
<1>1. ASSUME NEW p \in Package, NEW x \in Builds[p] PROVE x \in Build
  <2>1. x \in [version : Nat \ {0}, hash : STRING \ {NoHash}]
    BY <1>1, PackageRefreshAssumption
  <2>2. x.hash \in Hash
    BY <1>1 DEF Hash
  <2> QED
    BY <2>1, <2>2 DEF Build
<1> QED
  BY <1>1

LEMMA KeyNames == \A k \in Key : NameOf(k) \in Package /\ k = <<RepoOf(k), NameOf(k)>>
  BY DEF Key, NameOf, RepoOf

LEMMA StatusIsOne ==
    ASSUME NEW r, RowsOk(r), NEW k \in DOMAIN r
    PROVE  InstallStatus(r, k) \in Statuses
<1>1. r[k].installed \in Build /\ r[k].build \in Build
  BY DEF RowsOk, Row
<1>2. AgainstRelease(r, k) \in Statuses
  <2>1. r[k].installed.version \in Nat /\ r[k].build.version \in Nat
    BY <1>1 DEF Build
  <2> QED
    BY <2>1 DEF AgainstRelease, Statuses
<1> QED
  BY <1>2 DEF InstallStatus, Statuses

\* A status is a function of the row and of what is built and installed
\* around it, not of other statuses.
SameBuilds(r, t) == /\ DOMAIN t = DOMAIN r
                    /\ \A k \in DOMAIN r : /\ t[k].build = r[k].build
                                           /\ t[k].installed = r[k].installed

LEMMA StatusReads ==
    ASSUME NEW r, NEW t, SameBuilds(r, t), NEW k \in DOMAIN r,
           t[k].needs = r[k].needs, t[k].missing = r[k].missing
    PROVE  InstallStatus(t, k) = InstallStatus(r, k)
<1>1. DependencyDiffers(t, k) = DependencyDiffers(r, k)
  <2>1. ASSUME NEW d
        PROVE  <<RepoOf(k), d>> \in DOMAIN r =>
                 /\ t[<<RepoOf(k), d>>].build.hash = r[<<RepoOf(k), d>>].build.hash
                 /\ t[<<RepoOf(k), d>>].installed.hash = r[<<RepoOf(k), d>>].installed.hash
    BY DEF SameBuilds
  <2> QED
    BY <2>1 DEF DependencyDiffers, SameBuilds
<1>2. t[k].build = r[k].build /\ t[k].installed = r[k].installed
  BY DEF SameBuilds
<1>3. AgainstRelease(t, k) = AgainstRelease(r, k)
  BY <1>1, <1>2 DEF AgainstRelease
<1>4. Healthy(t[k]) = Healthy(r[k])
  BY <1>2 DEF Healthy
<1> QED
  BY <1>2, <1>3, <1>4 DEF InstallStatus

LEMMA RecomputedRows ==
    ASSUME NEW r, RowsOk(r), NEW keys
    PROVE  /\ RowsOk(Recomputed(r, keys))
           /\ DOMAIN Recomputed(r, keys) = DOMAIN r
           /\ \A k \in DOMAIN r :
                Recomputed(r, keys)[k].status =
                   IF k \in keys THEN InstallStatus(Recomputed(r, keys), k) ELSE r[k].status
           /\ \A k \in DOMAIN r : InstallStatus(Recomputed(r, keys), k) = InstallStatus(r, k)
<1> DEFINE t == Recomputed(r, keys)
<1>1. /\ DOMAIN t = DOMAIN r
      /\ \A k \in DOMAIN r : t[k] = IF k \in keys THEN [r[k] EXCEPT !.status = InstallStatus(r, k)]
                                                  ELSE r[k]
  BY DEF Recomputed
<1> HIDE DEF t
<1>2. ASSUME NEW k \in DOMAIN r
      PROVE  /\ t[k] \in Row
             /\ t[k].build = r[k].build /\ t[k].installed = r[k].installed
             /\ t[k].needs = r[k].needs /\ t[k].missing = r[k].missing
             /\ t[k].status = IF k \in keys THEN InstallStatus(r, k) ELSE r[k].status
  <2>1. PICK s \in Statuses : s = InstallStatus(r, k)
    BY StatusIsOne
  <2>2. r[k] \in Row
    BY DEF RowsOk
  <2> QED
    BY <1>1, <2>1, <2>2 DEF Row
<1>3. SameBuilds(r, t)
  BY <1>1, <1>2 DEF SameBuilds
<1>4. \A k \in DOMAIN r : InstallStatus(t, k) = InstallStatus(r, k)
  BY <1>2, <1>3, StatusReads
<1>5. RowsOk(t)
  BY <1>1, <1>2 DEF RowsOk
<1> QED
  BY <1>1, <1>2, <1>4, <1>5 DEF t

\* endBulkInstalledUpdate leaves no row behind.
LEMMA EndBulkFresh ==
    ASSUME NEW r, RowsOk(r)
    PROVE  /\ RowsOk(EndBulkInstalledUpdate(r)) /\ Fresh(EndBulkInstalledUpdate(r))
           /\ DOMAIN EndBulkInstalledUpdate(r) = DOMAIN r
<1>1. PICK keys : keys = DOMAIN r
  OBVIOUS
<1>2. PICK t : t = Recomputed(r, keys)
  OBVIOUS
<1>3. /\ RowsOk(t) /\ DOMAIN t = DOMAIN r
      /\ \A k \in DOMAIN r : t[k].status = IF k \in keys THEN InstallStatus(t, k) ELSE r[k].status
  BY <1>2, RecomputedRows
<1>4. Fresh(t)
  BY <1>1, <1>3 DEF Fresh
<1> QED
  BY <1>1, <1>2, <1>3, <1>4 DEF EndBulkInstalledUpdate

LEMMA NoRowIsARow == NoRow \in Row /\ None \in Build
<1>1. None \in Build
  BY DEF None, Build, Hash
<1>2. "notInstalled" \in Statuses
  BY DEF Statuses
<1> QED
  BY <1>1, <1>2 DEF NoRow, Row

LEMMA ReplaceCatalogOk ==
    ASSUME NEW r, RowsOk(r), NEW catalog \in SUBSET Release
    PROVE  RowsOk(ReplaceCatalog(r, catalog))
<1> DEFINE keys == {KeyOf(x) : x \in catalog}
           Old(k) == IF k \in DOMAIN r THEN r[k] ELSE NoRow
           Pick(k) == CHOOSE x \in catalog : KeyOf(x) = k
           New(k) == [Old(k) EXCEPT !.build = Pick(k).build, !.needs = Pick(k).needs]
           t == ReplaceCatalog(r, catalog)
<1>1. /\ DOMAIN t = Kept(r, catalog) \cup keys
      /\ \A k \in DOMAIN t : t[k] = IF k \in keys THEN New(k) ELSE r[k]
  BY DEF ReplaceCatalog
<1>2. ASSUME NEW k \in keys
      PROVE  k \in Key /\ New(k) \in Row /\ (NameOf(k) \in Renamed => New(k).missing = {})
  <2>1. \E x \in catalog : KeyOf(x) = k
    OBVIOUS
  <2>2. PICK x \in catalog : x = Pick(k) /\ KeyOf(x) = k
    BY <2>1
  <2>3. PICK o \in Row : o = Old(k)
    BY NoRowIsARow DEF RowsOk
  <2>4. x \in Release
    OBVIOUS
  <2>5. New(k) = [o EXCEPT !.build = x.build, !.needs = x.needs]
    BY <2>2, <2>3
  <2>6. [o EXCEPT !.build = x.build, !.needs = x.needs] \in Row
    BY <2>4 DEF Row, Release
  <2>7. k \in Key
    BY <2>2, <2>4 DEF KeyOf, Key, Release
  <2>8. New(k).missing = o.missing
    BY <2>5 DEF Row
  <2>9. NameOf(k) \in Renamed => o.missing = {}
    BY <2>3 DEF RowsOk, NoRow
  <2> QED
    BY <2>5, <2>6, <2>7, <2>8, <2>9
<1>3. Kept(r, catalog) \subseteq DOMAIN r
  BY DEF Kept
<1> HIDE DEF t, keys, New
<1>4. \A k \in DOMAIN t :
        k \in Key /\ t[k] \in Row /\ (NameOf(k) \in Renamed => t[k].missing = {})
  BY <1>1, <1>2, <1>3 DEF RowsOk
<1> QED
  BY <1>4 DEF RowsOk, t

LEMMA MergeOk ==
    ASSUME NEW r, RowsOk(r), NEW found \in [Package -> Build], NEW user \in SUBSET Package
    PROVE  RowsOk(MergeLocalOnlyInstalled(r, found, user))
<1> DEFINE here == {p \in user : found[p] # None}
           kept == {k \in DOMAIN r : RepoOf(k) = Local => NameOf(k) \in here}
           new == {p \in here : \A k \in kept : NameOf(k) # p}
           t == MergeLocalOnlyInstalled(r, found, user)
<1>1. /\ DOMAIN t = kept \cup {<<Local, p>> : p \in new}
      /\ \A k \in DOMAIN t :
           t[k] = IF k \in kept THEN r[k] ELSE [NoRow EXCEPT !.installed = found[NameOf(k)],
                                                             !.status = "installed"]
  BY DEF MergeLocalOnlyInstalled
<1>2. kept \subseteq DOMAIN r /\ new \subseteq Package
  OBVIOUS
<1> HIDE DEF t, kept, new
<1>3. ASSUME NEW k \in DOMAIN t
      PROVE  k \in Key /\ t[k] \in Row /\ (NameOf(k) \in Renamed => t[k].missing = {})
  <2>1. CASE k \in kept
    BY <1>1, <1>2, <2>1 DEF RowsOk
  <2>2. CASE k \notin kept
    <3>1. PICK p \in Package : k = <<Local, p>>
      BY <1>1, <1>2, <2>2
    <3>2. k \in Key /\ NameOf(k) = p
      BY <3>1 DEF Key, NameOf
    <3>3. PICK o \in Row : o = NoRow
      BY NoRowIsARow
    <3>4. PICK x \in Row : x = [o EXCEPT !.installed = found[p], !.status = "installed"]
      BY DEF Row, Statuses
    <3>5. x.missing = {}
      BY <3>3, <3>4 DEF NoRow
    <3> QED
      BY <1>1, <2>2, <3>2, <3>3, <3>4, <3>5
  <2> QED
    BY <2>1, <2>2
<1> QED
  BY <1>3 DEF RowsOk, t

LEMMA WithInstalledOk ==
    ASSUME NEW r, RowsOk(r), NEW keys, NEW v \in [Package -> Nat], NEW h \in [Package -> Hash]
    PROVE  RowsOk(WithInstalled(r, keys, v, h))
<1> DEFINE t == WithInstalled(r, keys, v, h)
<1>1. /\ DOMAIN t = DOMAIN r
      /\ \A k \in DOMAIN r :
           t[k] = IF k \in keys THEN [r[k] EXCEPT !.installed = CachedBuild(v, h, NameOf(k))]
                                ELSE r[k]
  BY DEF WithInstalled
<1> HIDE DEF t
<1>2. ASSUME NEW k \in DOMAIN r PROVE t[k] \in Row /\ t[k].missing = r[k].missing
  <2>1. r[k] \in Row /\ NameOf(k) \in Package
    BY KeyNames DEF RowsOk
  <2>2. PICK b \in Build : b = CachedBuild(v, h, NameOf(k))
    BY <2>1, NoRowIsARow DEF CachedBuild, Build
  <2> QED
    BY <1>1, <2>1, <2>2 DEF Row
<1> QED
  BY <1>1, <1>2 DEF RowsOk, t

\* setMissingDeps recomputes the rows it touches; no other one reads it.
LEMMA SetMissingDepsFresh ==
    ASSUME NEW r, RowsOk(r), NEW m, \A p \in DOMAIN m : p \notin Renamed /\ m[p] \in SUBSET Package
    PROVE  /\ RowsOk(SetMissingDeps(r, m))
           /\ Fresh(r) => Fresh(SetMissingDeps(r, m))
<1> DEFINE named == {k \in DOMAIN r : NameOf(k) \in DOMAIN m}
           t == [k \in DOMAIN r |-> IF k \in named THEN [r[k] EXCEPT !.missing = m[NameOf(k)]]
                                                   ELSE r[k]]
<1>1. SetMissingDeps(r, m) = Recomputed(t, named)
  BY DEF SetMissingDeps
<1>2. DOMAIN t = DOMAIN r
  OBVIOUS
<1>3. ASSUME NEW k \in DOMAIN r
      PROVE  /\ t[k] \in Row
             /\ t[k].build = r[k].build /\ t[k].installed = r[k].installed
             /\ k \notin named => t[k] = r[k]
  BY DEF RowsOk, Row
<1> HIDE DEF t
<1>4. RowsOk(t) /\ SameBuilds(r, t)
  BY <1>2, <1>3 DEF RowsOk, SameBuilds
<1>5. PICK u : u = Recomputed(t, named)
  OBVIOUS
<1>6. /\ RowsOk(u) /\ DOMAIN u = DOMAIN r
      /\ \A k \in DOMAIN r :
           u[k].status = IF k \in named THEN InstallStatus(u, k) ELSE t[k].status
      /\ \A k \in DOMAIN r : InstallStatus(u, k) = InstallStatus(t, k)
  <2> HIDE DEF named
  <2> QED
    BY <1>2, <1>4, <1>5, RecomputedRows
<1>7. ASSUME Fresh(r), NEW k \in DOMAIN r PROVE u[k].status = InstallStatus(u, k)
  <2>1. CASE k \in named
    BY <1>6, <2>1
  <2>2. CASE k \notin named
    <3>1. t[k] = r[k] /\ u[k].status = t[k].status
      BY <1>3, <1>6, <2>2
    <3>2. InstallStatus(t, k) = InstallStatus(r, k)
      BY <1>4, <3>1, StatusReads
    <3> QED
      BY <1>6, <1>7, <3>1, <3>2 DEF Fresh
  <2> QED
    BY <2>1, <2>2
<1>8. Fresh(r) => Fresh(u)
  BY <1>6, <1>7 DEF Fresh
<1> QED
  BY <1>1, <1>5, <1>6, <1>8

\* markInstalled recomputes every row, or finds nothing changed.
LEMMA MarkInstalledFresh ==
    ASSUME NEW r, RowsOk(r), NEW p, NEW b \in Build
    PROVE  /\ RowsOk(MarkInstalled(r, p, b))
           /\ Fresh(r) => Fresh(MarkInstalled(r, p, b))
<1> DEFINE own == RowsNamed(r, p)
           t == [k \in DOMAIN r |-> IF k \in own THEN [r[k] EXCEPT !.installed = b] ELSE r[k]]
<1>1. \/ MarkInstalled(r, p, b) = r
      \/ MarkInstalled(r, p, b) = Recomputed(t, DOMAIN r)
  BY DEF MarkInstalled
<1>2. DOMAIN t = DOMAIN r
  OBVIOUS
<1>3. RowsOk(t)
  <2> HIDE DEF own
  <2> QED
    BY DEF RowsOk, Row
<1> HIDE DEF t
<1>4. Recomputed(t, DOMAIN r) = EndBulkInstalledUpdate(t)
  BY <1>2 DEF EndBulkInstalledUpdate
<1> QED
  BY <1>1, <1>3, <1>4, EndBulkFresh
-----------------------------------------------------------------------------
(* The invariant *)

Wire(types, bodies) == [type : types, body : bodies]

Order == {o \in [name : User, build : Build] : o.build \in Builds[o.name]}

PmCall == Wire({"uiScan", "scan"}, {{}}) \cup Wire({"deps"}, Package) \cup Wire({"install"}, Order)

PmReply == Wire({"uiScan", "scan"}, Disk) \cup Wire({"install"}, Order)
             \cup Wire({"deps"}, [name : Package, missing : SUBSET Package])

DlCall == Wire({"list", "seedList", "refreshCatalog"}, {{}}) \cup Wire({"getCatalog"}, Disk)
            \cup Wire({"add", "seedAdd", "remove"}, Repo)

DlReply == Wire({"list", "seedList"}, SUBSET Repo)
             \cup Wire({"refreshCatalog", "catalogChanged"}, {{}})
             \cup Wire({"add", "seedAdd", "remove"}, BOOLEAN)
             \cup Wire({"getCatalog"}, [catalog : SUBSET Release, found : Disk])

MissingMap == UNION {[D -> SUBSET Package] : D \in SUBSET Package}

Batch == [left : Nat \ {0}, missing : MissingMap]

WorldOk ==
    /\ disk \in Disk /\ rescans \in Nat
    /\ setup \in {"none", "waiting", "subscribed", "abandoned"}
    /\ retries \in Seq([found : Disk, left : Nat \ {0}])
    /\ served \in [Repo -> SUBSET Release]
    /\ \A r \in Repo : served[r] \in Offers[r]

RowsInv ==
    /\ packages \in Disk /\ missing \in MissingMap
    /\ version \in [Package -> Nat] /\ hash \in [Package -> Hash]
    /\ RowsOk(rows) /\ Fresh(rows)

\* The batches b expect n answers in all, at least one each.
Expect(b, n) ==
    \E sum \in [0..Len(b) -> Int] :
       /\ sum[0] = 0 /\ sum[Len(b)] = n
       /\ \A i \in 1..Len(b) : sum[i] = sum[i - 1] + b[i].left
       /\ \A i, j \in 0..Len(b) : i < j => sum[i] < sum[j]

\* Each dependency query under way, or its answer, is expected by a batch.
PmOk ==
    /\ toPm \in Seq(PmCall) /\ fromPm \in Seq(PmReply) /\ batches \in Seq(Batch)
    /\ Expect(batches, Count(toPm, "deps") + Count(fromPm, "deps"))

Lists == {"list", "seedList"}
Seeds == {"seedList", "seedAdd"}

Has(q, types) == \E m \in Range(q) : m.type \in types

\* The last list among the answers is the downloader's.
LastList(q, list) ==
    \E i \in DOMAIN q :
       /\ q[i].type \in Lists /\ q[i].body = list
       /\ \A j \in DOMAIN q : j > i => q[j].type \notin Lists

\* The repository list is right, or what will correct it is under way.
Known(calls, answers, shown, list) ==
    \/ Has(calls, Lists) \/ Has(answers, {"catalogChanged"})
    \/ LastList(answers, list)
    \/ ~Has(answers, Lists) /\ shown = list

DlOk ==
    /\ toDl \in Seq(DlCall) /\ fromDl \in Seq(DlReply)
    /\ repos \in SUBSET Repo /\ repositories \in SUBSET Repo
    /\ seeding \in BOOLEAN /\ (seeding => Has(toDl, Seeds) \/ Has(fromDl, Seeds))
    /\ listing = Count(toDl, "list") + Count(fromDl, "list")
    /\ dlReady \/ (toDl = <<>> /\ fromDl = <<>>)
    /\ "repositories" \notin blind => dlReady /\ Known(toDl, fromDl, repositories, repos)

IInv == WorldOk /\ RowsInv /\ PmOk /\ DlOk

LEMMA DiskMaps == Disk \subseteq [Package -> Build] /\ Nothing \in Disk
<1>1. \A d \in Disk : d \in [Package -> Build]
  <2>1. ASSUME NEW d \in Disk, NEW p \in Package PROVE d[p] \in Build
    BY BuildsAreBuilds, NoRowIsARow DEF Disk
  <2>2. \A d \in Disk : d = [p \in Package |-> d[p]]
    BY DEF Disk
  <2> QED
    BY <2>1, <2>2
<1>2. Nothing \in Disk
  <2>1. \A p \in Package : Nothing[p] = None
    BY DEF Nothing
  <2>2. Nothing \in [Package -> (UNION {Builds[p] : p \in Package}) \cup {None}]
    <3> DEFINE S == (UNION {Builds[p] : p \in Package}) \cup {None}
    <3>1. None \in S
      OBVIOUS
    <3> HIDE DEF S
    <3>2. Nothing \in [Package -> S]
      BY <3>1 DEF Nothing
    <3> QED
      BY <3>2 DEF S
  <2> QED
    BY <2>1, <2>2 DEF Disk
<1> QED
  BY <1>1, <1>2

LEMMA OffersAreReleases == \A r \in Repo : Offers[r] \subseteq SUBSET Release
<1>1. ASSUME NEW r \in Repo, NEW c \in Offers[r], NEW x \in c PROVE x \in Release
  <2>1. x \in [repo : {r}, name : Package, build : Builds[x.name], needs : SUBSET Package]
    BY PackageRefreshAssumption
  <2>2. x.name \in Package /\ x.build \in Builds[x.name]
    BY <2>1
  <2>3. x.build \in Build
    BY <2>2, BuildsAreBuilds
  <2> QED
    BY <2>1, <2>3 DEF Release
<1> QED
  BY <1>1

LEMMA EmptyMap == <<>> \in MissingMap
<1>1. <<>> \in [{} -> SUBSET Package]
  OBVIOUS
<1>2. {} \in SUBSET Package
  OBVIOUS
<1> QED
  BY <1>1, <1>2 DEF MissingMap

LEMMA MapValues ==
    ASSUME NEW m \in MissingMap
    PROVE  DOMAIN m \subseteq Package /\ \A p \in DOMAIN m : m[p] \in SUBSET Package
  BY DEF MissingMap

\* The rows find nothing of a renamed package, all of the others.
LEMMA RowsFind ==
    ASSUME NEW m \in MissingMap
    PROVE  LET f == FoundByRows(m)
           IN /\ DOMAIN f = DOMAIN m \ Renamed
              /\ \A p \in DOMAIN f : f[p] = m[p] /\ f[p] \in SUBSET Package
  BY MapValues DEF FoundByRows

LEMMA MapExtended ==
    ASSUME NEW m \in MissingMap, NEW p \in Package, NEW absent \in SUBSET Package
    PROVE  [x \in DOMAIN m \cup {p} |-> IF x = p THEN absent ELSE m[x]] \in MissingMap
<1>1. DOMAIN m \subseteq Package /\ \A x \in DOMAIN m : m[x] \in SUBSET Package
  BY MapValues
<1>2. [x \in DOMAIN m \cup {p} |-> IF x = p THEN absent ELSE m[x]]
        \in [DOMAIN m \cup {p} -> SUBSET Package]
  BY <1>1
<1>3. DOMAIN m \cup {p} \in SUBSET Package
  BY <1>1
<1> QED
  BY <1>2, <1>3 DEF MissingMap

-----------------------------------------------------------------------------
(* Batches of dependency queries *)

LEMMA ExpectNone == Expect(<<>>, 0)
<1> DEFINE sum == [i \in 0..0 |-> 0]
<1>1. Len(<<>>) = 0
  OBVIOUS
<1>2. sum \in [0..Len(<<>>) -> Int] /\ sum[0] = 0
  BY <1>1
<1>3. 1..Len(<<>>) = {} /\ \A i, j \in 0..Len(<<>>) : ~(i < j)
  BY <1>1
<1> QED
  BY <1>1, <1>2, <1>3 DEF Expect

LEMMA ExpectSome ==
    ASSUME NEW b \in Seq(Batch), NEW n \in Nat \ {0}, Expect(b, n)
    PROVE  b # <<>>
<1> SUFFICES ASSUME b = <<>> PROVE FALSE
  OBVIOUS
<1>1. Len(b) = 0
  OBVIOUS
<1> QED
  BY <1>1 DEF Expect

LEMMA ExpectMore ==
    ASSUME NEW b \in Seq(Batch), NEW n \in Nat, Expect(b, n), NEW x \in Batch
    PROVE  Expect(Append(b, x), n + x.left)
<1>1. PICK sum \in [0..Len(b) -> Int] :
        /\ sum[0] = 0 /\ sum[Len(b)] = n
        /\ \A i \in 1..Len(b) : sum[i] = sum[i - 1] + b[i].left
        /\ \A i, j \in 0..Len(b) : i < j => sum[i] < sum[j]
  BY DEF Expect
<1> DEFINE t == Append(b, x)
           more == [i \in 0..Len(b) + 1 |-> IF i <= Len(b) THEN sum[i] ELSE n + x.left]
<1>2. /\ Len(b) \in Nat /\ Len(t) = Len(b) + 1
      /\ \A i \in 1..Len(b) : t[i] = b[i]
      /\ t[Len(b) + 1] = x
  OBVIOUS
<1>3. x.left \in Nat \ {0}
  BY DEF Batch
<1> HIDE DEF t
<1>4. more \in [0..Len(t) -> Int] /\ more[0] = 0 /\ more[Len(t)] = n + x.left
  BY <1>1, <1>2, <1>3
<1>5. ASSUME NEW i \in 1..Len(t) PROVE more[i] = more[i - 1] + t[i].left
  <2>1. CASE i <= Len(b)
    <3>1. i \in 1..Len(b) /\ i - 1 \in 0..Len(b)
      BY <1>2, <2>1
    <3> QED
      BY <1>1, <1>2, <3>1
  <2>2. CASE i > Len(b)
    <3>1. i = Len(b) + 1 /\ i - 1 = Len(b)
      BY <1>2, <2>2
    <3> QED
      BY <1>1, <1>2, <1>3, <3>1
  <2> QED
    BY <1>2, <2>1, <2>2
<1>6. ASSUME NEW i \in 0..Len(t), NEW j \in 0..Len(t), i < j PROVE more[i] < more[j]
  <2>1. i \in 0..Len(b) /\ more[i] = sum[i] /\ sum[i] \in Int
    BY <1>1, <1>2, <1>6
  <2>2. CASE j <= Len(b)
    BY <1>1, <1>2, <1>6, <2>1, <2>2
  <2>3. CASE j > Len(b)
    <3>1. more[j] = n + x.left
      BY <1>2, <2>3
    <3>2. sum[i] <= sum[Len(b)]
      <4>1. i = Len(b) \/ i < Len(b)
        BY <1>2, <2>1
      <4> QED
        BY <1>1, <1>2, <2>1, <4>1
    <3> HIDE DEF more
    <3> QED
      BY <1>1, <1>3, <2>1, <3>1, <3>2
  <2> QED
    BY <1>2, <2>2, <2>3
<1> HIDE DEF more
<1>7. Expect(t, n + x.left)
  BY <1>4, <1>5, <1>6 DEF Expect
<1> QED
  BY <1>7 DEF t

LEMMA ExpectLess ==
    ASSUME NEW b \in Seq(Batch), NEW n \in Int, Expect(b, n), b # <<>>, NEW x \in Batch,
           x.left = b[1].left - 1
    PROVE  Expect([b EXCEPT ![1] = x], n - 1)
<1>1. PICK sum \in [0..Len(b) -> Int] :
        /\ sum[0] = 0 /\ sum[Len(b)] = n
        /\ \A i \in 1..Len(b) : sum[i] = sum[i - 1] + b[i].left
        /\ \A i, j \in 0..Len(b) : i < j => sum[i] < sum[j]
  BY DEF Expect
<1> DEFINE t == [b EXCEPT ![1] = x]
           less == [i \in 0..Len(b) |-> IF i = 0 THEN 0 ELSE sum[i] - 1]
<1>2. /\ Len(b) \in Nat \ {0} /\ Len(t) = Len(b)
      /\ \A i \in 1..Len(b) : t[i] = IF i = 1 THEN x ELSE b[i]
      /\ \A i \in 1..Len(b) : b[i] \in Batch
  OBVIOUS
<1>3. (\A i \in 1..Len(b) : b[i].left \in Nat) /\ x.left \in Nat \ {0}
  BY <1>2 DEF Batch
<1> HIDE DEF t
<1>4. less \in [0..Len(t) -> Int] /\ less[0] = 0 /\ less[Len(t)] = n - 1
  BY <1>1, <1>2
<1>5. ASSUME NEW i \in 1..Len(t) PROVE less[i] = less[i - 1] + t[i].left
  <2>1. i \in 0..Len(b) /\ i - 1 \in 0..Len(b) /\ i # 0
    BY <1>2
  <2>2. CASE i = 1
    BY <1>1, <1>2, <1>3, <2>1, <2>2
  <2>3. CASE i # 1
    <3>1. sum[i] = sum[i - 1] + b[i].left /\ sum[i] \in Int /\ sum[i - 1] \in Int
      BY <1>1, <1>2, <2>1
    <3>2. b[i].left \in Nat /\ t[i] = b[i] /\ i - 1 # 0
      BY <1>2, <1>3, <2>1, <2>3
    <3>3. less[i] = sum[i] - 1 /\ less[i - 1] = sum[i - 1] - 1
      BY <2>1, <3>2
    <3> HIDE DEF less
    <3> QED
      BY <1>2, <3>1, <3>2, <3>3
  <2> QED
    BY <2>2, <2>3
<1>6. ASSUME NEW i \in 0..Len(t), NEW j \in 0..Len(t), i < j PROVE less[i] < less[j]
  <2>1. i \in 0..Len(b) /\ j \in 1..Len(b) /\ sum[i] \in Int /\ sum[j] \in Int
    <3>1. i \in 0..Len(b) /\ j \in 1..Len(b)
      BY <1>2, <1>6
    <3>2. j \in 0..Len(b)
      BY <3>1
    <3> QED
      BY <1>1, <3>1, <3>2
  <2>2. less[j] = sum[j] - 1 /\ sum[i] < sum[j]
    <3>1. j \in 0..Len(b) /\ j # 0
      BY <1>2, <2>1
    <3>2. less[j] = sum[j] - 1
      BY <3>1
    <3>3. sum[i] < sum[j]
      <4> HIDE DEF less
      <4> QED
        BY <1>1, <1>6, <2>1, <3>1
    <3> QED
      BY <3>2, <3>3
  <2>3. CASE i = 0
    <3>1. 1 \in 0..Len(b) /\ sum[1] = sum[0] + b[1].left /\ sum[1] \in Int
      BY <1>1, <1>2
    <3>2. sum[1] <= sum[j]
      <4>1. j = 1 \/ 1 < j
        BY <2>1
      <4> QED
        BY <1>1, <2>1, <3>1, <4>1
    <3>3. b[1].left = x.left + 1
      <4>1. b[1].left \in Nat
        BY <1>2, <1>3
      <4> QED
        BY <1>3, <4>1
    <3>4. less[i] = 0
      BY <2>1, <2>3
    <3> HIDE DEF less
    <3> QED
      BY <1>1, <1>3, <2>1, <2>2, <3>1, <3>2, <3>3, <3>4
  <2>4. CASE i # 0
    <3>1. less[i] = sum[i] - 1
      BY <2>1, <2>4
    <3> HIDE DEF less
    <3> QED
      BY <2>1, <2>2, <3>1
  <2> QED
    BY <2>3, <2>4
<1> HIDE DEF less
<1>7. Expect(t, n - 1)
  BY <1>4, <1>5, <1>6 DEF Expect
<1> QED
  BY <1>7 DEF t

LEMMA ExpectDone ==
    ASSUME NEW b \in Seq(Batch), NEW n \in Int, Expect(b, n), b # <<>>, b[1].left = 1
    PROVE  Expect(Tail(b), n - 1)
<1>1. PICK sum \in [0..Len(b) -> Int] :
        /\ sum[0] = 0 /\ sum[Len(b)] = n
        /\ \A i \in 1..Len(b) : sum[i] = sum[i - 1] + b[i].left
        /\ \A i, j \in 0..Len(b) : i < j => sum[i] < sum[j]
  BY DEF Expect
<1> DEFINE t == Tail(b)
           less == [i \in 0..Len(b) - 1 |-> sum[i + 1] - 1]
<1>2. /\ Len(b) \in Nat \ {0} /\ Len(t) = Len(b) - 1
      /\ \A i \in 1..Len(b) - 1 : t[i] = b[i + 1]
      /\ \A i \in 1..Len(b) : b[i] \in Batch
  OBVIOUS
<1>3. \A i \in 1..Len(b) : b[i].left \in Nat
  BY <1>2 DEF Batch
<1> HIDE DEF t
<1>4. less \in [0..Len(t) -> Int] /\ less[0] = 0 /\ less[Len(t)] = n - 1
  <2>1. 1 \in 1..Len(b) /\ sum[1] = sum[0] + b[1].left
    BY <1>1, <1>2
  <2> QED
    BY <1>1, <1>2, <2>1
<1>5. ASSUME NEW i \in 1..Len(t) PROVE less[i] = less[i - 1] + t[i].left
  <2>1. i \in 0..Len(b) - 1 /\ i - 1 \in 0..Len(b) - 1 /\ i + 1 \in 1..Len(b)
    BY <1>2
  <2>2. sum[i + 1] = sum[i] + b[i + 1].left /\ sum[i] \in Int /\ sum[i + 1] \in Int
    BY <1>1, <1>2, <2>1
  <2> QED
    BY <1>2, <1>3, <2>1, <2>2
<1>6. ASSUME NEW i \in 0..Len(t), NEW j \in 0..Len(t), i < j PROVE less[i] < less[j]
  <2>1. /\ i \in 0..Len(b) - 1 /\ j \in 0..Len(b) - 1
        /\ i + 1 \in 0..Len(b) /\ j + 1 \in 0..Len(b) /\ i + 1 < j + 1
    BY <1>2, <1>6
  <2>2. sum[i + 1] < sum[j + 1] /\ sum[i + 1] \in Int /\ sum[j + 1] \in Int
    BY <1>1, <2>1
  <2> QED
    BY <2>1, <2>2
<1> HIDE DEF less
<1>7. Expect(t, n - 1)
  BY <1>4, <1>5, <1>6 DEF Expect
<1> QED
  BY <1>7 DEF t

\* The last batch is what is left of all the answers, or more are to come
\* before its own.
LEMMA ExpectLast ==
    ASSUME NEW b \in Seq(Batch), NEW n \in Int, Expect(b, n)
    PROVE  /\ n = 0 => b = <<>>
           /\ Len(b) = 1 => n = b[Len(b)].left
           /\ Len(b) > 1 => n > b[Len(b)].left
<1>1. PICK sum \in [0..Len(b) -> Int] :
        /\ sum[0] = 0 /\ sum[Len(b)] = n
        /\ \A i \in 1..Len(b) : sum[i] = sum[i - 1] + b[i].left
        /\ \A i, j \in 0..Len(b) : i < j => sum[i] < sum[j]
  BY DEF Expect
<1>2. PICK last \in Nat : last = Len(b)
  OBVIOUS
<1>3. CASE b # <<>>
  <2>1. last \in Nat \ {0} /\ b[last] \in Batch /\ last - 1 \in 0..last
    BY <1>2, <1>3
  <2>2. b[last].left \in Nat
    BY <2>1 DEF Batch
  <2>3. n = sum[last - 1] + b[last].left /\ sum[last - 1] \in Int /\ sum[0] < sum[last]
    BY <1>1, <1>2, <2>1
  <2>4. last > 1 => sum[0] < sum[last - 1]
    BY <1>1, <1>2, <2>1
  <2>5. last = 1 => sum[last - 1] = 0
    BY <1>1
  <2> QED
    BY <1>1, <1>2, <2>1, <2>2, <2>3, <2>4, <2>5
<1>4. CASE b = <<>>
  BY <1>4
<1> QED
  BY <1>3, <1>4
-----------------------------------------------------------------------------
(* Calls to package_manager *)

LEMMA PmPosts ==
    ASSUME NEW q \in Seq(PmCall), NEW x \in PmCall, x.type # "deps"
    PROVE  Append(q, x) \in Seq(PmCall) /\ Count(Append(q, x), "deps") = Count(q, "deps")
<1>1. Count(Append(q, x), "deps") = Count(q, "deps") + 0
  BY CountAppend
<1>2. Count(q, "deps") \in Nat
  BY CountIsNat
<1> QED
  BY <1>1, <1>2, Posted

LEMMA ScanIsACall == Msg("uiScan", {}) \in PmCall /\ Msg("scan", {}) \in PmCall
  BY DEF Msg, PmCall, Wire

LEMMA FetchPosts ==
    ASSUME toPm \in Seq(PmCall), Fetch
    PROVE  toPm' \in Seq(PmCall) /\ Count(toPm', "deps") = Count(toPm, "deps")
<1>1. PICK x : x = Msg("uiScan", {})
  OBVIOUS
<1>2. x \in PmCall /\ x.type # "deps"
  BY <1>1, ScanIsACall DEF Msg
<1>3. toPm' = toPm \/ toPm' = Append(toPm, x)
  BY <1>1 DEF Fetch
<1> QED
  BY <1>2, <1>3, PmPosts

LEMMA PmAsks ==
    ASSUME PmOk, toPm' \in Seq(PmCall), Count(toPm', "deps") = Count(toPm, "deps"),
           UNCHANGED <<fromPm, batches>>
    PROVE  PmOk'
  BY DEF PmOk

LEMMA PmSame == ASSUME PmOk, UNCHANGED <<toPm, fromPm, batches>> PROVE PmOk'
  BY DEF PmOk

\* One question for each package found.
LEMMA QueriesAsk ==
    ASSUME NEW found
    PROVE  /\ Queries(found) \in Seq(PmCall)
           /\ Count(Queries(found), "deps") = Len(Queries(found))
           /\ Queries(found) # <<>> => Len(Queries(found)) \in Nat \ {0}
<1> DEFINE S == {p \in Package : found[p] # None}
           n == Cardinality(S)
           f == SetToSeq(S)
           q == Queries(found)
<1>1. IsFiniteSet(S)
  BY PackageRefreshAssumption, FS_Subset
<1>2. n \in Nat /\ \E g : ExistsBijection(1..n, S)
  BY <1>1, FS_CardinalityType
<1>3. \E g \in [1..n -> S] : IsInjective(g)
  BY <1>2 DEF ExistsBijection, Bijection, Injection, IsInjective
<1>4. f \in [1..n -> S]
  BY <1>3 DEF SetToSeq
<1>5. q = [i \in DOMAIN f |-> Msg("deps", f[i])]
  BY DEF Queries
<1>6. S \subseteq Package
  OBVIOUS
<1> HIDE DEF f, n, S, q
<1>7. q = [i \in 1..n |-> Msg("deps", f[i])]
  BY <1>4, <1>5
<1>8. ASSUME NEW i \in 1..n PROVE Msg("deps", f[i]) \in PmCall
  BY <1>4, <1>6 DEF Msg, PmCall, Wire
<1>9. q \in Seq(PmCall) /\ Len(q) = n /\ DOMAIN q = 1..n
  BY <1>2, <1>7, <1>8
<1>10. {i \in DOMAIN q : q[i].type = "deps"} = 1..n
  BY <1>7, <1>9 DEF Msg
<1>11. Cardinality(1..n) = n
  <2>1. Cardinality(1..n) = IF 1 > n THEN 0 ELSE n - 1 + 1
    BY <1>2, FS_Interval
  <2> QED
    BY <1>2, <2>1
<1>12. Count(q, "deps") = n
  BY <1>10, <1>11 DEF Count
<1>13. q # <<>> => n # 0
  BY <1>9
<1> QED
  BY <1>2, <1>9, <1>12, <1>13 DEF q

-----------------------------------------------------------------------------
(* Calls to package_downloader *)

\* n more questions for the list, and whatever else.
Asks(n) == /\ toDl' \in Seq(DlCall) /\ Range(toDl) \subseteq Range(toDl')
           /\ Count(toDl', "list") = Count(toDl, "list") + n
           /\ dlReady \/ UNCHANGED toDl

LEMMA HasMore == ASSUME NEW q, NEW t, NEW types, Range(q) \subseteq Range(t), Has(q, types)
                 PROVE  Has(t, types)
  BY DEF Has

LEMMA DlPosts ==
    ASSUME toDl \in Seq(DlCall), dlReady, NEW x \in DlCall, toDl' = Append(toDl, x)
    PROVE  /\ Asks(IF x.type = "list" THEN 1 ELSE 0)
           /\ x \in Range(toDl')
<1>1. Count(toDl', "list") = Count(toDl, "list") + (IF x.type = "list" THEN 1 ELSE 0)
  BY CountAppend
<1>2. toDl' \in Seq(DlCall) /\ Range(toDl') = Range(toDl) \cup {x}
  BY Posted
<1> QED
  BY <1>1, <1>2 DEF Asks

LEMMA DlQuiet == ASSUME toDl \in Seq(DlCall), UNCHANGED toDl PROVE Asks(0)
<1>1. Count(toDl, "list") \in Nat
  BY CountIsNat
<1> QED
  BY <1>1 DEF Asks

\* A short sequence of calls and the questions for the list in it.
Calls(q, n) == q \in Seq(DlCall) /\ Count(q, "list") = n

LEMMA NoCalls == Calls(<<>>, 0)
  BY CountOfNone DEF Calls

LEMMA OneCall ==
    ASSUME NEW x \in DlCall
    PROVE  /\ Calls(<<x>>, IF x.type = "list" THEN 1 ELSE 0)
           /\ Range(<<x>>) = {x}
<1>1. <<x>> \in Seq(DlCall) /\ DOMAIN <<x>> = {1} /\ <<x>>[1] = x
  OBVIOUS
<1>2. Calls(<<x>>, IF x.type = "list" THEN 1 ELSE 0)
  <2>1. CASE x.type = "list"
    <3>1. {i \in DOMAIN <<x>> : <<x>>[i].type = "list"} = {1}
      BY <1>1, <2>1
    <3>2. Count(<<x>>, "list") = 1
      BY <3>1, FS_Singleton DEF Count
    <3> QED
      BY <1>1, <2>1, <3>2 DEF Calls
  <2>2. CASE x.type # "list"
    <3>1. {i \in DOMAIN <<x>> : <<x>>[i].type = "list"} = {}
      BY <1>1, <2>2
    <3>2. Count(<<x>>, "list") = 0
      BY <3>1, FS_EmptySet DEF Count
    <3> QED
      BY <1>1, <2>2, <3>2 DEF Calls
  <2> QED
    BY <2>1, <2>2
<1>3. Range(<<x>>) = {x}
  BY <1>1 DEF Range
<1> QED
  BY <1>2, <1>3

LEMMA DlJoins ==
    ASSUME toDl \in Seq(DlCall), NEW q, NEW n \in Nat, Calls(q, n), toDl' = toDl \o q,
           dlReady \/ q = <<>>
    PROVE  Asks(n) /\ Range(toDl') = Range(toDl) \cup Range(q)
<1>1. q \in Seq(DlCall) /\ Count(q, "list") = n
  BY DEF Calls
<1>2. Count(toDl', "list") = Count(toDl, "list") + n
  BY <1>1, CountConcat
<1>3. toDl' \in Seq(DlCall) /\ Range(toDl') = Range(toDl) \cup Range(q)
  BY <1>1, Joined
<1> QED
  BY <1>2, <1>3 DEF Asks

LEMMA CallsJoin ==
    ASSUME NEW q, NEW m \in Nat, NEW r, NEW n \in Nat, Calls(q, m), Calls(r, n)
    PROVE  Calls(q \o r, m + n) /\ Range(q \o r) = Range(q) \cup Range(r)
  BY CountConcat, Joined DEF Calls

LEMMA Regrouped ==
    ASSUME NEW S, NEW q \in Seq(S), NEW r \in Seq(S), NEW t \in Seq(S)
    PROVE  (q \o r) \o t = q \o (r \o t)
  OBVIOUS

LEMMA ListIsACall == /\ Msg("list", {}) \in DlCall /\ Msg("seedList", {}) \in DlCall
                     /\ Msg("refreshCatalog", {}) \in DlCall
  BY DEF Msg, DlCall, Wire

LEMMA RefreshAsks ==
    ASSUME toDl \in Seq(DlCall), seeding \in BOOLEAN, listing \in Int,
           NEW lists, lists = <<>> \/ lists = ListCalls, RefreshAfter(lists)
    PROVE  /\ \E n \in Nat : Asks(n) /\ listing' = listing + n
           /\ seeding' \in BOOLEAN /\ (seeding' => seeding \/ Has(toDl', Seeds))
           /\ dlReady => Has(toDl', Lists)
<1>1. PICK x : x = Msg("list", {})
  OBVIOUS
<1>2. PICK y : y = Msg("seedList", {})
  OBVIOUS
<1>3. x \in DlCall /\ x.type = "list" /\ y \in DlCall /\ y.type = "seedList"
  BY <1>1, <1>2, ListIsACall DEF Msg
<1>4. Calls(<<x>>, 1) /\ Range(<<x>>) = {x} /\ Calls(<<y>>, 0) /\ Range(<<y>>) = {y}
  BY <1>3, OneCall
<1>5. PICK l : l = ListCalls
  OBVIOUS
<1>6. PICK s : s = SeedCalls
  OBVIOUS
<1>7. /\ l = <<>> \/ (l = <<x>> /\ x \in Range(l))
      /\ dlReady => l = <<x>>
      /\ s = <<>> \/ (s = <<y>> /\ y \in Range(s))
  BY <1>1, <1>2, <1>4, <1>5, <1>6 DEF ListCalls, SeedCalls
<1>8. /\ toDl' = toDl \o lists \o l \o s
      /\ listing' = listing + Len(lists) + Len(l)
      /\ seeding' = (seeding \/ s # <<>>)
  BY <1>5, <1>6 DEF RefreshAfter
<1>9. Len(<<>>) = 0 /\ Len(<<x>>) = 1
  OBVIOUS
<1>10. PICK k \in Nat : Len(lists) = k /\ Calls(lists, k)
  BY <1>4, <1>5, <1>7, <1>9, NoCalls
<1>11. PICK m \in Nat : Len(l) = m /\ Calls(l, m)
  BY <1>4, <1>7, <1>9, NoCalls
<1>12. Calls(s, 0)
  BY <1>4, <1>7, NoCalls
<1>13. PICK q : q = lists \o l
  OBVIOUS
<1>14. Calls(q, k + m) /\ Range(q) = Range(lists) \cup Range(l)
  BY <1>10, <1>11, <1>13, CallsJoin
<1>15. PICK t : t = q \o s
  OBVIOUS
<1>16. Calls(t, k + m) /\ Range(t) = Range(q) \cup Range(s)
  <2>1. k + m \in Nat /\ (k + m) + 0 = k + m
    BY <1>10, <1>11
  <2> QED
    BY <1>12, <1>14, <1>15, <2>1, CallsJoin
<1>17. toDl' = toDl \o t
  <2>1. lists \in Seq(DlCall) /\ l \in Seq(DlCall) /\ s \in Seq(DlCall)
    BY <1>10, <1>11, <1>12 DEF Calls
  <2> QED
    <3>1. (toDl \o lists) \o l = toDl \o q
      BY <1>13, <2>1, Regrouped
    <3>2. q \in Seq(DlCall)
      BY <1>14 DEF Calls
    <3>3. (toDl \o q) \o s = toDl \o (q \o s)
      <4>1. \A a, b, c \in Seq(DlCall) : (a \o b) \o c = a \o (b \o c)
        BY Regrouped
      <4> QED
        BY <2>1, <3>2, <4>1, Zenon
    <3> QED
      BY <1>8, <1>15, <3>1, <3>3
<1>18. Asks(k + m) /\ Range(toDl') = Range(toDl) \cup Range(t)
  <2>1. ~dlReady => lists = <<>> /\ l = <<>> /\ s = <<>>
    BY <1>5, <1>6 DEF ListCalls, SeedCalls
  <2>2. ~dlReady => t = <<>>
    BY <1>13, <1>15, <2>1
  <2>3. k + m \in Nat
    BY <1>10, <1>11
  <2>4. dlReady \/ t = <<>>
    BY <2>2
  <2> QED
    BY <1>16, <1>17, <2>3, <2>4, DlJoins
<1>19. listing' = listing + (k + m) /\ k + m \in Nat
  BY <1>8, <1>10, <1>11
<1>20. s # <<>> => Has(toDl', Seeds)
  BY <1>3, <1>7, <1>16, <1>18 DEF Has, Seeds
<1>21. dlReady => Has(toDl', Lists)
  BY <1>3, <1>7, <1>14, <1>16, <1>18 DEF Has, Lists
<1> QED
  BY <1>8, <1>18, <1>19, <1>20, <1>21
LEMMA DlAsks ==
    ASSUME DlOk, NEW n \in Nat, Asks(n), listing' = listing + n,
           seeding' \in BOOLEAN, seeding' => seeding \/ Has(toDl', Seeds),
           UNCHANGED <<fromDl, repos, repositories>>,
           "repositories" \in blind => "repositories" \in blind',
           dlReady => dlReady'
    PROVE  DlOk'
<1>1. toDl' \in Seq(DlCall) /\ Range(toDl) \subseteq Range(toDl')
  BY DEF Asks
<1>2. listing' = Count(toDl', "list") + Count(fromDl', "list")
  <2>1. Count(toDl, "list") \in Nat /\ Count(fromDl, "list") \in Nat
    BY CountIsNat DEF DlOk
  <2> QED
    BY <2>1 DEF DlOk, Asks
<1>3. seeding' => Has(toDl', Seeds) \/ Has(fromDl', Seeds)
  BY <1>1, HasMore DEF DlOk
<1>4. "repositories" \notin blind' => dlReady' /\ Known(toDl', fromDl', repositories', repos')
  <2>1. Known(toDl, fromDl, repositories, repos)
          => Known(toDl', fromDl', repositories', repos')
    BY <1>1, HasMore DEF Known
  <2> QED
    BY <2>1 DEF DlOk
<1>5. dlReady' \/ (toDl' = <<>> /\ fromDl' = <<>>)
  BY DEF DlOk, Asks
<1> QED
  BY <1>1, <1>2, <1>3, <1>4, <1>5 DEF DlOk

LEMMA DlSame ==
    ASSUME DlOk, UNCHANGED <<toDl, fromDl, store, repos>>,
           "repositories" \in blind => "repositories" \in blind', dlReady => dlReady'
    PROVE  DlOk'
<1>1. Asks(0)
  BY DlQuiet DEF DlOk
<1>2. listing \in Nat
  <2>1. Count(toDl, "list") \in Nat /\ Count(fromDl, "list") \in Nat
    BY CountIsNat DEF DlOk
  <2> QED
    BY <2>1 DEF DlOk
<1>3. listing' = listing + 0
  BY <1>2 DEF store
<1> QED
  BY <1>1, <1>3, DlAsks DEF DlOk, store

-----------------------------------------------------------------------------
(* Answers of package_downloader *)

LEMMA HasTail ==
    ASSUME NEW S, NEW q \in Seq(S), q # <<>>, NEW types
    PROVE  Has(q, types) <=> Has(Tail(q), types) \/ Head(q).type \in types
  BY Taken DEF Has

LEMMA LastListTail ==
    ASSUME NEW S, NEW q \in Seq(S), q # <<>>, NEW list, LastList(q, list)
    PROVE  \/ LastList(Tail(q), list)
           \/ Head(q).type \in Lists /\ Head(q).body = list /\ ~Has(Tail(q), Lists)
<1> DEFINE t == Tail(q)
<1>1. /\ DOMAIN q = 1..Len(q) /\ Len(q) \in Nat \ {0} /\ DOMAIN t = 1..Len(q) - 1
      /\ \A n \in 1..Len(q) - 1 : t[n] = q[n + 1]
      /\ Head(q) = q[1]
  BY TailAt
<1> HIDE DEF t
<1>2. PICK i \in DOMAIN q :
        /\ q[i].type \in Lists /\ q[i].body = list
        /\ \A j \in DOMAIN q : j > i => q[j].type \notin Lists
  BY DEF LastList
<1>3. CASE i = 1
  <2>1. \A n \in DOMAIN t : n + 1 \in DOMAIN q /\ n + 1 > i /\ t[n] = q[n + 1]
    BY <1>1, <1>3
  <2>2. ~Has(t, Lists)
    BY <1>2, <2>1 DEF Has, Range
  <2> QED
    BY <1>1, <1>2, <1>3, <2>2 DEF t
<1>4. CASE i # 1
  <2>1. PICK k : k = i - 1
    OBVIOUS
  <2>2. k \in DOMAIN t /\ t[k] = q[i]
    BY <1>1, <1>2, <1>4, <2>1
  <2>3. \A j \in DOMAIN t : j > k => j + 1 \in DOMAIN q /\ j + 1 > i /\ t[j] = q[j + 1]
    BY <1>1, <1>2, <2>1
  <2>4. \A j \in DOMAIN t : j > k => t[j].type \notin Lists
    BY <1>2, <2>3
  <2>5. LastList(t, list)
    BY <1>2, <2>2, <2>4 DEF LastList
  <2> QED
    BY <2>5 DEF t
<1> QED
  BY <1>3, <1>4

LEMMA LastListAppend ==
    ASSUME NEW S, NEW q \in Seq(S), NEW x \in S, NEW list
    PROVE  /\ x.type \in Lists /\ x.body = list => LastList(Append(q, x), list)
           /\ x.type \notin Lists /\ LastList(q, list) => LastList(Append(q, x), list)
<1> DEFINE t == Append(q, x)
<1>1. /\ DOMAIN q = 1..Len(q) /\ Len(q) \in Nat /\ DOMAIN t = 1..Len(q) + 1
      /\ \A n \in 1..Len(q) : t[n] = q[n]
      /\ t[Len(q) + 1] = x
  BY AppendAt
<1> HIDE DEF t
<1>2. ASSUME x.type \in Lists, x.body = list PROVE LastList(t, list)
  <2>1. PICK i : i = Len(q) + 1
    OBVIOUS
  <2>2. i \in DOMAIN t /\ t[i] = x /\ \A j \in DOMAIN t : ~(j > i)
    BY <1>1, <2>1
  <2> QED
    BY <1>2, <2>2 DEF LastList
<1>3. ASSUME x.type \notin Lists, LastList(q, list) PROVE LastList(t, list)
  <2>1. PICK i \in DOMAIN q :
          /\ q[i].type \in Lists /\ q[i].body = list
          /\ \A j \in DOMAIN q : j > i => q[j].type \notin Lists
    BY <1>3 DEF LastList
  <2>2. i \in DOMAIN t /\ t[i] = q[i]
    BY <1>1, <2>1
  <2>3. ASSUME NEW j \in DOMAIN t, j > i PROVE t[j].type \notin Lists
    <3>1. j \in DOMAIN q \/ j = Len(q) + 1
      BY <1>1
    <3> QED
      BY <1>1, <1>3, <2>1, <2>3, <3>1
  <2> QED
    BY <2>1, <2>2, <2>3 DEF LastList
<1> QED
  BY <1>2, <1>3 DEF t

\* An answer is taken, with what the coordinator does about it.
LEMMA DlTakes ==
    ASSUME DlOk, fromDl # <<>>, fromDl' = Tail(fromDl), NEW m, m = Head(fromDl),
           NEW n \in Nat, Asks(n),
           listing' = listing + n - (IF m.type = "list" THEN 1 ELSE 0),
           seeding' \in BOOLEAN,
           seeding' => Has(toDl', Seeds) \/ (seeding /\ m.type \notin Seeds),
           repositories' = IF m.type \in Lists THEN m.body ELSE repositories,
           m.type = "catalogChanged" /\ dlReady => Has(toDl', Lists),
           UNCHANGED <<repos, dlReady, blind>>
    PROVE  DlOk'
<1>1. toDl' \in Seq(DlCall) /\ Range(toDl) \subseteq Range(toDl')
  BY DEF Asks
<1>2. fromDl \in Seq(DlReply) /\ fromDl' \in Seq(DlReply) /\ m \in DlReply
  BY Taken DEF DlOk
<1>3. listing' = Count(toDl', "list") + Count(fromDl', "list")
  <2>1. Count(fromDl, "list") = Count(fromDl', "list") + (IF m.type = "list" THEN 1 ELSE 0)
    BY <1>2, CountTail
  <2>2. /\ Count(toDl, "list") \in Nat /\ Count(fromDl, "list") \in Nat
        /\ Count(fromDl', "list") \in Nat
    BY <1>2, CountIsNat DEF DlOk
  <2>3. /\ listing = Count(toDl, "list") + Count(fromDl, "list")
        /\ Count(toDl', "list") = Count(toDl, "list") + n
    BY DEF DlOk, Asks
  <2>4. PICK k \in Nat : k = IF m.type = "list" THEN 1 ELSE 0
    OBVIOUS
  <2>5. Count(fromDl, "list") = Count(fromDl', "list") + k /\ listing' = listing + n - k
    BY <2>1, <2>4
  <2> QED
    BY <2>2, <2>3, <2>5
<1>4. repositories' \in SUBSET Repo
  BY <1>2 DEF DlOk, DlReply, Wire, Lists
<1>5. \A types : Has(fromDl, types) <=> Has(fromDl', types) \/ m.type \in types
  BY <1>2, HasTail
<1>6. seeding' => Has(toDl', Seeds) \/ Has(fromDl', Seeds)
  BY <1>1, <1>5, HasMore DEF DlOk
<1>7. ASSUME "repositories" \notin blind'
      PROVE  dlReady' /\ Known(toDl', fromDl', repositories', repos')
  <2>1. dlReady /\ Known(toDl, fromDl, repositories, repos)
    BY <1>7 DEF DlOk
  <2>2. CASE Has(toDl, Lists)
    BY <1>1, <2>1, <2>2, HasMore DEF Known
  <2>3. CASE Has(fromDl, {"catalogChanged"})
    BY <1>5, <2>1, <2>3 DEF Known
  <2>4. CASE LastList(fromDl, repos)
    <3>1. \/ LastList(fromDl', repos)
          \/ m.type \in Lists /\ m.body = repos /\ ~Has(fromDl', Lists)
      BY <1>2, <2>4, LastListTail
    <3> QED
      BY <2>1, <3>1 DEF Known
  <2>5. CASE ~Has(fromDl, Lists) /\ repositories = repos
    BY <1>5, <2>1, <2>5 DEF Known
  <2> QED
    BY <2>1, <2>2, <2>3, <2>4, <2>5 DEF Known
<1> QED
  BY <1>1, <1>2, <1>3, <1>4, <1>6, <1>7 DEF DlOk

LEMMA JoinOne ==
    ASSUME NEW S, NEW q \in Seq(S), NEW x \in S
    PROVE  q \o <<x>> = Append(q, x) /\ q \o <<>> = q
  OBVIOUS

\* The downloader answers; a change is announced before.
LEMMA DlReplies ==
    ASSUME DlOk, toDl # <<>>, toDl' = Tail(toDl), NEW m, m = Head(toDl),
           NEW body, NEW changed \in BOOLEAN, Reply(m, body, changed),
           Msg(m.type, body) \in DlReply, m.type # "catalogChanged",
           m.type \in Lists => body = repos /\ ~changed,
           changed \/ UNCHANGED repos, repos' \in SUBSET Repo,
           UNCHANGED <<store, dlReady, blind>>
    PROVE  DlOk'
<1>1. PICK x \in DlReply : x = Msg(m.type, body)
  OBVIOUS
<1>2. PICK c \in DlReply : c = Msg("catalogChanged", {})
  BY DEF Msg, DlReply, Wire
<1>3. x.type = m.type /\ x.body = body /\ c.type = "catalogChanged"
  BY <1>1, <1>2 DEF Msg
<1>4. PICK q \in Seq(DlReply) : q = IF changed THEN Append(fromDl, c) ELSE fromDl
  <2>1. fromDl \in Seq(DlReply)
    BY DEF DlOk
  <2> QED
    BY <2>1, Posted
<1>5. fromDl' = Append(q, x)
  <2>1. fromDl \in Seq(DlReply)
    BY DEF DlOk
  <2>2. fromDl' = (fromDl \o (IF changed THEN <<c>> ELSE <<>>)) \o <<x>>
    BY <1>1, <1>2 DEF Reply
  <2>3. fromDl \o (IF changed THEN <<c>> ELSE <<>>) = q
    <3>1. fromDl \o <<c>> = Append(fromDl, c) /\ fromDl \o <<>> = fromDl
      BY <2>1, JoinOne
    <3> QED
      BY <1>4, <3>1
  <2>4. q \o <<x>> = Append(q, x)
    BY JoinOne
  <2> QED
    BY <2>2, <2>3, <2>4
<1>6. /\ fromDl' \in Seq(DlReply) /\ toDl' \in Seq(DlCall)
      /\ Range(fromDl') = Range(q) \cup {x} /\ Range(fromDl) \subseteq Range(q)
      /\ changed => c \in Range(q)
      /\ \A types : Has(toDl, types) <=> Has(toDl', types) \/ m.type \in types
  <2>1. fromDl \in Seq(DlReply) /\ toDl \in Seq(DlCall)
    BY DEF DlOk
  <2>2. fromDl' \in Seq(DlReply) /\ Range(fromDl') = Range(q) \cup {x}
    BY <1>5, Posted
  <2>3. Range(fromDl) \subseteq Range(q) /\ (changed => c \in Range(q))
    BY <1>4, <2>1, Posted
  <2>4. toDl' \in Seq(DlCall) /\ \A types : Has(toDl, types) <=> Has(toDl', types) \/ m.type \in types
    BY <2>1, Taken, HasTail
  <2> QED
    BY <2>2, <2>3, <2>4
<1>7. /\ Count(toDl, "list") = Count(toDl', "list") + (IF m.type = "list" THEN 1 ELSE 0)
      /\ Count(fromDl', "list") = Count(fromDl, "list") + (IF m.type = "list" THEN 1 ELSE 0)
      /\ Count(toDl, "list") \in Nat /\ Count(toDl', "list") \in Nat
      /\ Count(fromDl, "list") \in Nat
  <2>1. fromDl \in Seq(DlReply) /\ toDl \in Seq(DlCall)
    BY DEF DlOk
  <2>2. Count(toDl, "list") = Count(toDl', "list") + (IF m.type = "list" THEN 1 ELSE 0)
    BY <2>1, CountTail
  <2>3. /\ Count(toDl, "list") \in Nat /\ Count(toDl', "list") \in Nat
        /\ Count(fromDl, "list") \in Nat
    BY <1>6, <2>1, CountIsNat
  <2>4. Count(q, "list") = Count(fromDl, "list")
    <3>1. Count(Append(fromDl, c), "list") = Count(fromDl, "list") + 0
      BY <1>3, <2>1, CountAppend
    <3> QED
      BY <1>4, <2>3, <3>1
  <2>5. Count(fromDl', "list") = Count(q, "list") + (IF m.type = "list" THEN 1 ELSE 0)
    BY <1>3, <1>5, CountAppend
  <2> QED
    BY <2>2, <2>3, <2>4, <2>5
<1>8. listing' = Count(toDl', "list") + Count(fromDl', "list")
  <2>1. listing' = Count(toDl, "list") + Count(fromDl, "list")
    BY DEF DlOk, store
  <2>2. PICK k \in Nat : k = IF m.type = "list" THEN 1 ELSE 0
    OBVIOUS
  <2>3. /\ Count(toDl, "list") = Count(toDl', "list") + k
        /\ Count(fromDl', "list") = Count(fromDl, "list") + k
    BY <1>7, <2>2
  <2> QED
    BY <1>7, <2>1, <2>3
<1>9. seeding' => Has(toDl', Seeds) \/ Has(fromDl', Seeds)
  BY <1>3, <1>6 DEF DlOk, Has, store
<1>10. ASSUME "repositories" \notin blind'
       PROVE  dlReady' /\ Known(toDl', fromDl', repositories', repos')
  <2>1. dlReady /\ Known(toDl, fromDl, repositories, repos)
    BY <1>10 DEF DlOk
  <2>2. CASE changed
    BY <1>3, <1>6, <2>1, <2>2 DEF Known, Has
  <2>3. CASE ~changed /\ m.type \in Lists
    <3>1. LastList(fromDl', repos)
      BY <1>3, <1>5, <2>3, LastListAppend
    <3> QED
      BY <2>1, <2>3, <3>1 DEF Known
  <2>4. CASE ~changed /\ m.type \notin Lists
    <3>1. q = fromDl
      BY <1>4, <2>4
    <3>2. LastList(fromDl, repos) => LastList(fromDl', repos)
      BY <1>3, <1>5, <2>4, <3>1, LastListAppend
    <3>3. ~Has(fromDl, Lists) => ~Has(fromDl', Lists)
      BY <1>3, <1>6, <2>4, <3>1 DEF Has
    <3>4. Has(fromDl, {"catalogChanged"}) => Has(fromDl', {"catalogChanged"})
      BY <1>6, <3>1 DEF Has
    <3> QED
      BY <1>6, <2>1, <2>4, <3>2, <3>3, <3>4 DEF Known, store
  <2> QED
    BY <2>2, <2>3, <2>4
<1> QED
  BY <1>6, <1>8, <1>9, <1>10 DEF DlOk, store
-----------------------------------------------------------------------------
(* The steps that only ask *)

LEMMA WorldSame ==
    ASSUME WorldOk, UNCHANGED <<disk, rescans, setup, retries, served>> PROVE WorldOk'
  BY DEF WorldOk

LEMMA RowsSame ==
    ASSUME RowsInv, UNCHANGED <<packages, version, hash, missing, rows>> PROVE RowsInv'
  BY DEF RowsInv

\* Typing that several steps need.
LEMMA Typed ==
    ASSUME IInv
    PROVE  /\ toPm \in Seq(PmCall) /\ fromPm \in Seq(PmReply)
           /\ toDl \in Seq(DlCall) /\ fromDl \in Seq(DlReply)
           /\ listing \in Int /\ seeding \in BOOLEAN
           /\ Count(toPm, "deps") \in Nat /\ Count(fromPm, "deps") \in Nat
<1>1. /\ toPm \in Seq(PmCall) /\ fromPm \in Seq(PmReply)
      /\ toDl \in Seq(DlCall) /\ fromDl \in Seq(DlReply)
      /\ listing = Count(toDl, "list") + Count(fromDl, "list") /\ seeding \in BOOLEAN
  BY DEF IInv, PmOk, DlOk
<1>2. Count(toPm, "deps") \in Nat /\ Count(fromPm, "deps") \in Nat
  BY <1>1, CountIsNat
<1>3. Count(toDl, "list") \in Nat /\ Count(fromDl, "list") \in Nat
  BY <1>1, CountIsNat
<1>4. listing \in Int
  BY <1>1, <1>3
<1> QED
  BY <1>1, <1>2, <1>4

LEMMA RemoteRefreshOk == IInv /\ RemoteRefresh => IInv'
<1> SUFFICES ASSUME IInv, RemoteRefresh PROVE IInv'
  OBVIOUS
<1> USE Typed
<1>1. WorldOk' /\ RowsInv'
  BY WorldSame, RowsSame DEF IInv, RemoteRefresh, world, arming, caches
<1>2. UNCHANGED <<fromPm, batches, fromDl, repositories, repos, dlReady, blind>>
  BY DEF RemoteRefresh, world, arming, caches
<1>3. CASE /\ dlReady
           /\ toDl' = Append(toDl, Msg("refreshCatalog", {}))
           /\ UNCHANGED <<toPm, listing, seeding>>
  <2>1. PICK x \in DlCall : x = Msg("refreshCatalog", {}) /\ x.type = "refreshCatalog"
    BY ListIsACall DEF Msg
  <2>2. Asks(0)
    BY <1>3, <2>1, DlPosts
  <2>3. listing' = listing + 0 /\ seeding' = seeding
    BY <1>3
  <2>4. DlOk'
    BY <1>2, <2>2, <2>3, DlAsks DEF IInv
  <2> QED
    BY <1>1, <1>2, <1>3, <2>4, PmSame DEF IInv
<1>4. CASE RefreshAfter(<<>>)
  <2>1. PICK none : none = <<>>
    OBVIOUS
  <2>2. /\ \E n \in Nat : Asks(n) /\ listing' = listing + n
        /\ seeding' \in BOOLEAN /\ (seeding' => seeding \/ Has(toDl', Seeds))
    BY <1>4, <2>1, RefreshAsks
  <2>3. DlOk'
    <3>1. PICK n \in Nat : Asks(n) /\ listing' = listing + n
      BY <2>2
    <3> QED
      BY <1>2, <2>2, <3>1, DlAsks DEF IInv
  <2>4. PmOk'
    BY <1>2, <1>4, FetchPosts, PmAsks DEF IInv, RefreshAfter
  <2> QED
    BY <1>1, <2>3, <2>4 DEF IInv
<1> QED
  BY <1>3, <1>4 DEF RemoteRefresh

LEMMA ChangeRepositoryOk ==
    ASSUME IInv, NEW op \in {"add", "remove"}, NEW r \in Repo, ChangeRepository(op, r)
    PROVE  IInv'
<1>1. WorldOk' /\ RowsInv' /\ PmOk'
  BY WorldSame, RowsSame, PmSame DEF IInv, ChangeRepository, world, arming, caches
<1>2. PICK x \in DlCall : x = Msg(op, r) /\ x.type # "list"
  <2>1. Msg(op, r) \in DlCall /\ Msg(op, r).type # "list"
    BY DEF Msg, DlCall, Wire
  <2> QED
    BY <2>1
<1>3. Asks(0)
  BY <1>2, DlPosts, Typed DEF ChangeRepository
<1>4. listing' = listing + 0 /\ seeding' = seeding
  BY Typed DEF ChangeRepository, store
<1>5. DlOk'
  BY <1>3, <1>4, DlAsks, Typed DEF IInv, ChangeRepository, world, arming, store
<1> QED
  BY <1>1, <1>5 DEF IInv

LEMMA InstallPackageOk ==
    ASSUME IInv, NEW p \in User, NEW build \in Builds[p], InstallPackage(p, build)
    PROVE  IInv'
<1>1. WorldOk' /\ RowsInv' /\ DlOk'
  BY WorldSame, RowsSame, DlSame DEF IInv, InstallPackage, world, arming, caches, store
<1>2. build \in Build
  BY BuildsAreBuilds, PackageRefreshAssumption
<1>3. PICK x \in PmCall : x = Msg("install", [name |-> p, build |-> build]) /\ x.type # "deps"
  <2>1. [name |-> p, build |-> build] \in Order
    BY <1>2 DEF Order
  <2>2. Msg("install", [name |-> p, build |-> build]) \in PmCall
    BY <2>1 DEF Msg, PmCall, Wire
  <2> QED
    BY <2>2 DEF Msg
<1>4. toPm' \in Seq(PmCall) /\ Count(toPm', "deps") = Count(toPm, "deps")
  BY <1>3, PmPosts, Typed DEF InstallPackage
<1>5. PmOk'
  BY <1>4, PmAsks DEF IInv, InstallPackage, caches
<1> QED
  BY <1>1, <1>5 DEF IInv

LEMMA RescanOk == IInv /\ Rescan => IInv'
<1> SUFFICES ASSUME IInv, Rescan PROVE IInv'
  OBVIOUS
<1>1. RowsInv' /\ DlOk'
  BY RowsSame, DlSame DEF IInv, Rescan, world, caches, store
<1>2. rescans' \in Nat
  BY DEF Rescan, IInv, WorldOk
<1>3. WorldOk'
  BY <1>2 DEF IInv, WorldOk, Rescan, world
<1>4. PmOk'
  BY FetchPosts, PmAsks, Typed DEF IInv, Rescan, caches
<1> QED
  BY <1>1, <1>3, <1>4 DEF IInv

Retry == [found : Disk, left : Nat \ {0}]

LEMMA TryFetchAsks ==
    ASSUME toDl \in Seq(DlCall), NEW found \in Disk, NEW left \in Int, NEW timers \in Seq(Retry),
           TryFetchCatalog(found, left, timers)
    PROVE  /\ Asks(0) /\ retries' \in Seq(Retry)
           /\ "repositories" \in blind' <=> "repositories" \in blind
<1>1. CASE dlReady /\ toDl' = Append(toDl, Msg("getCatalog", found))
             /\ retries' = timers /\ UNCHANGED <<appsLoading, blind>>
  <2>1. PICK x \in DlCall : x = Msg("getCatalog", found) /\ x.type # "list"
    <3>1. Msg("getCatalog", found) \in DlCall
      BY DEF Msg, DlCall, Wire
    <3> QED
      BY <3>1 DEF Msg
  <2>2. Asks(0)
    BY <1>1, <2>1, DlPosts
  <2> QED
    BY <1>1, <2>2
<1>2. CASE ~dlReady /\ left > 0 /\ retries' = Append(timers, [found |-> found, left |-> left])
             /\ UNCHANGED <<toDl, appsLoading, blind>>
  <2>1. [found |-> found, left |-> left] \in Retry
    BY <1>2 DEF Retry
  <2>2. retries' \in Seq(Retry)
    BY <1>2, <2>1, Posted
  <2> QED
    BY <1>2, <2>2, DlQuiet
<1>3. CASE retries' = timers /\ blind' = blind \cup {"catalog"} /\ UNCHANGED toDl
  BY <1>3, DlQuiet
<1> QED
  BY <1>1, <1>2, <1>3 DEF TryFetchCatalog

LEMMA RetryCatalogOk == IInv /\ RetryCatalog => IInv'
<1> SUFFICES ASSUME IInv, RetryCatalog PROVE IInv'
  OBVIOUS
<1>1. RowsInv' /\ PmOk'
  BY RowsSame, PmSame DEF IInv, RetryCatalog, caches
<1>2. retries \in Seq(Retry) /\ retries # <<>>
  BY DEF IInv, WorldOk, Retry, RetryCatalog
<1>3. PICK t \in Seq(Retry), h \in Retry : t = Tail(retries) /\ h = Head(retries)
  BY <1>2, Taken
<1>4. PICK left \in Int : left = h.left - 1
  BY DEF Retry
<1>5. PICK found \in Disk : found = h.found
  BY DEF Retry
<1>6. TryFetchCatalog(found, left, t)
  BY <1>3, <1>4, <1>5 DEF RetryCatalog
<1>7. /\ Asks(0) /\ retries' \in Seq(Retry)
      /\ "repositories" \in blind' <=> "repositories" \in blind
  BY <1>6, TryFetchAsks, Typed
<1>8. WorldOk'
  BY <1>7 DEF IInv, WorldOk, RetryCatalog, Retry
<1>9. listing' = listing + 0 /\ seeding' = seeding
  BY Typed DEF RetryCatalog, store
<1>10. DlOk'
  BY <1>7, <1>9, DlAsks, Typed DEF IInv, RetryCatalog, store
<1> QED
  BY <1>1, <1>8, <1>10 DEF IInv

LEMMA StartSetupOk == IInv /\ StartSetup => IInv'
<1> SUFFICES ASSUME IInv, StartSetup PROVE IInv'
  OBVIOUS
<1>1. RowsInv' /\ PmOk' /\ DlOk'
  BY RowsSame, PmSame, DlSame DEF IInv, StartSetup, world, wires, caches, store
<1>2. WorldOk'
  BY DEF IInv, WorldOk, StartSetup, world
<1> QED
  BY <1>1, <1>2 DEF IInv

LEMMA SubscribeOk == IInv /\ Subscribe => IInv'
<1> SUFFICES ASSUME IInv, Subscribe PROVE IInv'
  OBVIOUS
<1>1. RowsInv' /\ PmOk' /\ DlOk'
  BY RowsSame, PmSame, DlSame DEF IInv, Subscribe, world, wires, caches, store
<1>2. WorldOk'
  BY DEF IInv, WorldOk, Subscribe, world
<1> QED
  BY <1>1, <1>2 DEF IInv
-----------------------------------------------------------------------------
(* package_manager's answers *)

\* What the dependency queries and their answers come to without a message.
LEMMA PmTaken ==
    ASSUME fromPm \in Seq(PmReply), fromPm # <<>>, fromPm' = Tail(fromPm),
           NEW m, m = Head(fromPm)
    PROVE  /\ fromPm' \in Seq(PmReply) /\ m \in PmReply
           /\ Count(fromPm', "deps") \in Nat
           /\ m.type = "deps" => Count(fromPm, "deps") = Count(fromPm', "deps") + 1
           /\ m.type # "deps" => Count(fromPm, "deps") = Count(fromPm', "deps")
<1>1. fromPm' \in Seq(PmReply) /\ m \in PmReply
  BY Taken
<1>2. Count(fromPm', "deps") \in Nat
  BY <1>1, CountIsNat
<1>3. Count(fromPm, "deps") = Count(fromPm', "deps") + (IF m.type = "deps" THEN 1 ELSE 0)
  BY CountTail
<1> QED
  BY <1>1, <1>2, <1>3

LEMMA PmReplies ==
    ASSUME NEW m \in PmReply
    PROVE  /\ m.type \in {"uiScan", "scan"} => m.body \in Disk
           /\ m.type = "deps" => m.body.name \in Package /\ m.body.missing \in SUBSET Package
           /\ m.type = "install" => m.body.name \in User /\ m.body.build \in Build
  BY DEF PmReply, Wire, Order

LEMMA ScanPosts ==
    ASSUME toPm \in Seq(PmCall), toPm' = toPm \/ toPm' = Append(toPm, Msg("scan", {}))
    PROVE  toPm' \in Seq(PmCall) /\ Count(toPm', "deps") = Count(toPm, "deps")
<1>1. PICK x : x = Msg("scan", {})
  OBVIOUS
<1>2. x \in PmCall /\ x.type # "deps"
  BY <1>1, ScanIsACall DEF Msg
<1> QED
  BY <1>1, <1>2, PmPosts

\* A hash learnt for some packages.
LEMMA HashesLearnt ==
    ASSUME NEW h \in [Package -> Hash], NEW found \in Disk
    PROVE  [p \in Package |-> IF found[p] # None /\ p \notin Renamed THEN found[p].hash ELSE h[p]]
              \in [Package -> Hash]
<1>1. found \in [Package -> Build]
  BY DiskMaps
<1>2. ASSUME NEW p \in Package PROVE found[p].hash \in Hash /\ h[p] \in Hash
  BY <1>1 DEF Build
<1> QED
  BY <1>2

LEMMA UiScannedOk ==
    ASSUME IInv, NEW m \in PmReply, m = Head(fromPm), fromPm # <<>>, fromPm' = Tail(fromPm),
           m.type = "uiScan", NEW found \in Disk, UiScanned(found),
           UNCHANGED <<disk, repos, served, fromDl, setup, dlReady, rescans, store>>
    PROVE  IInv'
<1> USE Typed
<1>1. RowsInv'
  <2>1. hash' \in [Package -> Hash]
    BY HashesLearnt DEF UiScanned, IInv, RowsInv
  <2> QED
    BY <2>1 DEF IInv, RowsInv, UiScanned
<1>2. PmOk'
  <2>1. toPm' \in Seq(PmCall) /\ Count(toPm', "deps") = Count(toPm, "deps")
    BY ScanPosts DEF UiScanned
  <2>2. fromPm' \in Seq(PmReply) /\ Count(fromPm, "deps") = Count(fromPm', "deps")
    BY PmTaken
  <2> QED
    BY <2>1, <2>2 DEF IInv, PmOk, UiScanned
<1>3. /\ Asks(0) /\ retries' \in Seq(Retry)
      /\ "repositories" \in blind' <=> "repositories" \in blind
  <2>1. retries \in Seq(Retry) /\ Retries \in Int
    BY PackageRefreshAssumption DEF IInv, WorldOk, Retry
  <2>2. TryFetchCatalog(found, Retries, retries)
    BY DEF UiScanned
  <2> QED
    BY <2>1, <2>2, TryFetchAsks
<1>4. WorldOk'
  BY <1>3 DEF IInv, WorldOk, Retry
<1>5. listing' = listing + 0 /\ seeding' = seeding
  BY DEF store
<1>6. DlOk'
  BY <1>3, <1>5, DlAsks DEF IInv, store
<1> QED
  BY <1>1, <1>2, <1>4, <1>6 DEF IInv

LEMMA ReplaceInstalledFresh ==
    ASSUME NEW r, RowsOk(r), NEW v \in [Package -> Nat], NEW h \in [Package -> Hash]
    PROVE  RowsOk(ReplaceInstalledSet(r, v, h)) /\ Fresh(ReplaceInstalledSet(r, v, h))
<1>1. PICK t : t = WithInstalled(r, DOMAIN r, v, h)
  OBVIOUS
<1>2. PICK keys : keys = DOMAIN r
  OBVIOUS
<1>3. RowsOk(t)
  BY <1>1, <1>2, WithInstalledOk
<1> QED
  BY <1>1, <1>3, EndBulkFresh DEF ReplaceInstalledSet

LEMMA ScannedOk ==
    ASSUME IInv, NEW m \in PmReply, m = Head(fromPm), fromPm # <<>>, fromPm' = Tail(fromPm),
           m.type = "scan", NEW found \in Disk, Scanned(found),
           UNCHANGED <<disk, repos, served, fromDl, setup, dlReady, rescans, store>>
    PROVE  IInv'
<1> USE Typed
<1>1. found \in [Package -> Build]
  BY DiskMaps
<1>2. RowsInv'
  <2>1. version' \in [Package -> Nat] /\ hash' \in [Package -> Hash]
    <3>1. \A p \in Package : found[p].version \in Nat /\ found[p].hash \in Hash
      BY <1>1 DEF Build
    <3> QED
      BY <3>1 DEF Scanned
  <2>2. PICK t : t = MergeLocalOnlyInstalled(rows, found, User)
    OBVIOUS
  <2>3. RowsOk(t)
    BY <1>1, <2>2, MergeOk, PackageRefreshAssumption DEF IInv, RowsInv
  <2>4. rows' = ReplaceInstalledSet(t, version', hash')
    BY <2>2 DEF Scanned
  <2>5. RowsOk(rows') /\ Fresh(rows')
    BY <2>1, <2>3, <2>4, ReplaceInstalledFresh
  <2>6. missing' \in MissingMap
    BY EmptyMap DEF Scanned, IInv, RowsInv
  <2>7. packages' \in Disk
    BY DEF Scanned
  <2> QED
    BY <2>1, <2>5, <2>6, <2>7 DEF RowsInv
<1>3. PICK left \in Nat : left = Count(fromPm', "deps") /\ Count(fromPm, "deps") = left
                            /\ fromPm' \in Seq(PmReply)
  BY PmTaken
<1>4. PmOk'
  <2>1. CASE UNCHANGED <<toPm, batches>>
    BY <1>3, <2>1 DEF IInv, PmOk
  <2>2. CASE /\ Queries(found) # <<>>
             /\ toPm' = toPm \o Queries(found)
             /\ batches' = Append(batches, [left |-> Len(Queries(found)), missing |-> <<>>])
    <3>1. PICK q \in Seq(PmCall), n \in Nat \ {0} :
            q = Queries(found) /\ n = Len(q) /\ Count(q, "deps") = n
      BY <2>2, QueriesAsk
    <3>2. PICK x \in Batch : x = [left |-> n, missing |-> <<>>]
      BY EmptyMap DEF Batch
    <3>3. toPm' \in Seq(PmCall) /\ Count(toPm', "deps") = Count(toPm, "deps") + n
      BY <2>2, <3>1, CountConcat, Joined
    <3>4. batches' = Append(batches, x) /\ batches \in Seq(Batch)
      BY <2>2, <3>1, <3>2 DEF IInv, PmOk
    <3>5. batches' \in Seq(Batch)
      BY <3>4, Posted
    <3>6. PICK k \in Nat : k = Count(toPm, "deps") + Count(fromPm, "deps")
      OBVIOUS
    <3>7. Expect(batches, k)
      BY <3>6 DEF IInv, PmOk
    <3>8. Expect(batches', k + n)
      BY <3>2, <3>4, <3>7, ExpectMore
    <3>9. k + n = Count(toPm', "deps") + Count(fromPm', "deps")
      BY <1>3, <3>3, <3>6
    <3> QED
      BY <1>3, <3>3, <3>5, <3>8, <3>9 DEF PmOk
  <2> QED
    BY <2>1, <2>2 DEF Scanned
<1>5. WorldOk' /\ DlOk'
  BY WorldSame, DlSame DEF IInv, Scanned
<1> QED
  BY <1>2, <1>4, <1>5 DEF IInv

LEMMA DependenciesAnsweredOk ==
    ASSUME IInv, NEW m \in PmReply, m = Head(fromPm), fromPm # <<>>, fromPm' = Tail(fromPm),
           m.type = "deps", NEW p \in Package, NEW absent \in SUBSET Package,
           DependenciesAnswered(p, absent),
           UNCHANGED <<disk, repos, served, fromDl, setup, dlReady, rescans, store>>
    PROVE  IInv'
<1> USE Typed
<1>1. PICK left \in Nat : left = Count(fromPm', "deps") /\ Count(fromPm, "deps") = left + 1
                            /\ fromPm' \in Seq(PmReply)
  BY PmTaken
<1>2. PICK n \in Nat \ {0} : n = Count(toPm, "deps") + Count(fromPm, "deps")
                               /\ n - 1 = Count(toPm, "deps") + left
  <2>1. PICK k \in Nat : k = Count(toPm, "deps")
    OBVIOUS
  <2>2. PICK n \in Nat \ {0} : n = k + left + 1
    OBVIOUS
  <2>3. n = Count(toPm, "deps") + Count(fromPm, "deps")
    BY <1>1, <2>1, <2>2
  <2>4. n - 1 = Count(toPm, "deps") + left
    BY <2>1, <2>2
  <2> QED
    BY <2>3, <2>4
<1>3. batches \in Seq(Batch) /\ Expect(batches, n)
  BY <1>2 DEF IInv, PmOk
<1>4. batches # <<>>
  BY <1>3, ExpectSome
<1>5. PICK b \in Batch : b = batches[1]
  BY <1>3, <1>4
<1>6. PICK all \in MissingMap : all = [x \in DOMAIN b.missing \cup {p} |->
                                         IF x = p THEN absent ELSE b.missing[x]]
  <2>1. PICK map \in MissingMap : map = b.missing
    BY DEF Batch
  <2> QED
    BY <2>1, MapExtended
<1>7. toPm' = toPm /\ toPm' \in Seq(PmCall)
  BY DEF DependenciesAnswered
<1>8. CASE /\ b.left > 1
           /\ batches' = [batches EXCEPT ![1] = [left |-> b.left - 1, missing |-> all]]
           /\ UNCHANGED <<missing, rows>>
  <2>1. PICK x \in Batch : x = [left |-> b.left - 1, missing |-> all]
    <3>1. b.left \in Nat /\ b.left - 1 \in Nat \ {0}
      BY <1>8 DEF Batch
    <3>2. [left |-> b.left - 1, missing |-> all] \in Batch
      BY <3>1 DEF Batch
    <3> QED
      BY <3>2
  <2>2. batches' = [batches EXCEPT ![1] = x] /\ x.left = b.left - 1
    BY <1>8, <2>1
  <2>3. Expect([batches EXCEPT ![1] = x], n - 1)
    <3>1. n \in Int /\ x.left = batches[1].left - 1
      BY <1>5, <2>2
    <3> QED
      BY <1>3, <1>4, <3>1, ExpectLess
  <2>4. batches' \in Seq(Batch)
    <3>1. 1 \in DOMAIN batches
      BY <1>3, <1>4
    <3> QED
      BY <1>3, <2>2, <3>1
  <2>5. PmOk'
    BY <1>1, <1>2, <1>7, <2>2, <2>3, <2>4 DEF PmOk
  <2>6. RowsInv'
    BY <1>8, RowsSame DEF IInv, DependenciesAnswered
  <2> QED
    BY <2>5, <2>6, WorldSame, DlSame DEF IInv, DependenciesAnswered
<1>9. CASE /\ b.left = 1 /\ batches' = Tail(batches) /\ missing' = all
           /\ rows' = SetMissingDeps(rows, FoundByRows(all))
  <2>1. Expect(batches', n - 1) /\ batches' \in Seq(Batch)
    BY <1>3, <1>4, <1>5, <1>9, ExpectDone, Taken
  <2>2. PmOk'
    BY <1>1, <1>2, <1>7, <2>1 DEF PmOk
  <2>3. RowsOk(rows') /\ Fresh(rows')
    <3>1. PICK f : f = FoundByRows(all)
      OBVIOUS
    <3>2. \A q \in DOMAIN f : q \notin Renamed /\ f[q] \in SUBSET Package
      BY <3>1, RowsFind
    <3> QED
      BY <1>9, <3>1, <3>2, SetMissingDepsFresh DEF IInv, RowsInv
  <2>4. RowsInv'
    BY <1>9, <2>3 DEF IInv, RowsInv, DependenciesAnswered
  <2> QED
    BY <2>2, <2>4, WorldSame, DlSame DEF IInv, DependenciesAnswered
<1> QED
  BY <1>5, <1>6, <1>8, <1>9 DEF DependenciesAnswered

LEMMA RowInstalledOk ==
    ASSUME IInv, NEW m \in PmReply, m = Head(fromPm), fromPm # <<>>, fromPm' = Tail(fromPm),
           m.type = "install", NEW p \in User, NEW build \in Build, RowInstalled(p, build),
           UNCHANGED <<disk, repos, served, fromDl, setup, dlReady, rescans, store>>
    PROVE  IInv'
<1> USE Typed
<1>1. PmOk'
  <2>1. fromPm' \in Seq(PmReply) /\ Count(fromPm, "deps") = Count(fromPm', "deps")
    BY PmTaken
  <2> QED
    BY <2>1 DEF IInv, PmOk, RowInstalled
<1>2. RowsInv'
  <2>1. build.version \in Nat /\ build.hash \in Hash
    BY DEF Build
  <2>2. RowsOk(rows') /\ Fresh(rows')
    BY MarkInstalledFresh DEF IInv, RowsInv, RowInstalled
  <2> QED
    BY <2>1, <2>2 DEF IInv, RowsInv, RowInstalled
<1>3. WorldOk' /\ DlOk'
  BY WorldSame, DlSame DEF IInv, RowInstalled
<1> QED
  BY <1>1, <1>2, <1>3 DEF IInv

LEMMA TakePmAnswerOk == IInv /\ TakePmAnswer => IInv'
<1> SUFFICES ASSUME IInv, TakePmAnswer PROVE IInv'
  OBVIOUS
<1>1. /\ fromPm # <<>> /\ fromPm' = Tail(fromPm)
      /\ UNCHANGED <<disk, repos, served, fromDl, setup, dlReady, rescans, store>>
  BY DEF TakePmAnswer
<1>2. PICK m : m = Head(fromPm)
  OBVIOUS
<1>3. m \in PmReply
  BY <1>1, <1>2, PmTaken, Typed
<1>4. CASE m.type = "uiScan" /\ UiScanned(m.body)
  <2>1. PICK found \in Disk : found = m.body
    BY <1>3, <1>4, PmReplies
  <2> QED
    BY <1>1, <1>2, <1>3, <1>4, <2>1, UiScannedOk
<1>5. CASE m.type = "scan" /\ Scanned(m.body)
  <2>1. PICK found \in Disk : found = m.body
    BY <1>3, <1>5, PmReplies
  <2> QED
    BY <1>1, <1>2, <1>3, <1>5, <2>1, ScannedOk
<1>6. CASE m.type = "deps" /\ DependenciesAnswered(m.body.name, m.body.missing)
  <2>1. PICK p \in Package, absent \in SUBSET Package : p = m.body.name /\ absent = m.body.missing
    BY <1>3, <1>6, PmReplies
  <2> QED
    BY <1>1, <1>2, <1>3, <1>6, <2>1, DependenciesAnsweredOk
<1>7. CASE m.type = "install" /\ RowInstalled(m.body.name, m.body.build)
  <2>1. PICK p \in User, build \in Build : p = m.body.name /\ build = m.body.build
    BY <1>3, <1>7, PmReplies
  <2> QED
    BY <1>1, <1>2, <1>3, <1>7, <2>1, RowInstalledOk
<1> QED
  BY <1>2, <1>4, <1>5, <1>6, <1>7 DEF TakePmAnswer
-----------------------------------------------------------------------------
(* package_downloader's answers *)

LEMMA DlAnswers ==
    ASSUME NEW m \in DlReply
    PROVE  /\ m.type \in Lists => m.body \in SUBSET Repo
           /\ m.type \in {"add", "seedAdd", "remove"} => m.body \in BOOLEAN
           /\ m.type = "getCatalog" => m.body.catalog \in SUBSET Release /\ m.body.found \in Disk
  BY DEF DlReply, Wire, Lists

\* What every case of TakeDlAnswer leaves alone, and the answer it takes.
Taking(m) ==
    /\ IInv /\ m = Head(fromDl) /\ m \in DlReply /\ fromDl # <<>> /\ fromDl' = Tail(fromDl)
    /\ UNCHANGED <<world, fromPm, arming, caches, moves>>

LEMMA TakingKeeps ==
    ASSUME NEW m, Taking(m)
    PROVE  /\ WorldOk' /\ DlOk /\ dlReady
           /\ UNCHANGED rows => RowsInv'
           /\ UNCHANGED toPm => PmOk'
           /\ UNCHANGED <<repos, dlReady, blind>>
<1>1. WorldOk'
  BY WorldSame DEF Taking, IInv, world, arming
<1>2. UNCHANGED rows => RowsInv'
  BY RowsSame DEF Taking, IInv, caches
<1>3. UNCHANGED toPm => PmOk'
  BY PmSame DEF Taking, IInv, caches
<1> QED
  BY <1>1, <1>2, <1>3 DEF Taking, IInv, DlOk, world, arming

LEMMA PopulateOk ==
    ASSUME NEW m, Taking(m), m.type = "getCatalog",
           NEW catalog \in SUBSET Release, NEW found \in Disk, PopulateAppsModel(catalog, found)
    PROVE  IInv'
<1> USE TakingKeeps
<1>1. RowsInv'
  <2>1. found \in [Package -> Build] /\ packages \in [Package -> Build]
    BY DiskMaps DEF Taking, IInv, RowsInv
  <2>2. \A p \in Package : found[p].version \in Nat
    BY <2>1 DEF Build
  <2>3. PICK known \in [Package -> Nat] :
          known = IF \A p \in Package : version[p] = 0
                    THEN [p \in Package |-> IF p \in Renamed THEN 0 ELSE found[p].version]
                    ELSE version
    BY <2>2 DEF Taking, IInv, RowsInv
  <2>4. PICK offered : offered = ReplaceCatalog(rows, catalog)
    OBVIOUS
  <2>5. RowsOk(offered)
    BY <2>4, ReplaceCatalogOk DEF Taking, IInv, RowsInv
  <2>6. PICK merged : merged = MergeLocalOnlyInstalled(offered, packages, User)
    OBVIOUS
  <2>7. RowsOk(merged)
    BY <2>1, <2>5, <2>6, MergeOk, PackageRefreshAssumption
  <2>8. PICK keys : keys = {k \in DOMAIN merged : known[NameOf(k)] # 0}
    OBVIOUS
  <2>9. PICK marked : marked = WithInstalled(merged, keys, known, hash)
    OBVIOUS
  <2>10. RowsOk(marked)
    BY <2>3, <2>7, <2>9, WithInstalledOk DEF Taking, IInv, RowsInv
  <2>11. PICK f, last : f = FoundByRows(missing) /\ last = SetMissingDeps(marked, f)
    OBVIOUS
  <2>12. RowsOk(last)
    <3>1. \A q \in DOMAIN f : q \notin Renamed /\ f[q] \in SUBSET Package
      BY <2>11, RowsFind DEF Taking, IInv, RowsInv
    <3> QED
      BY <2>10, <2>11, <3>1, SetMissingDepsFresh
  <2>13. rows' = EndBulkInstalledUpdate(last)
    BY <2>3, <2>4, <2>6, <2>8, <2>9, <2>11 DEF PopulateAppsModel, MarkAllInstalled
  <2>14. RowsOk(rows') /\ Fresh(rows')
    BY <2>12, <2>13, EndBulkFresh
  <2> QED
    BY <2>14 DEF Taking, IInv, RowsInv, caches
<1>2. Asks(0)
  BY DlQuiet DEF PopulateAppsModel, DlOk
<1>3. listing' = listing + 0 - (IF m.type = "list" THEN 1 ELSE 0)
  BY Typed DEF Taking, PopulateAppsModel, store
<1>4. DlOk'
  BY <1>2, <1>3, DlTakes DEF Taking, PopulateAppsModel, store, DlOk, Lists, Seeds
<1> QED
  BY <1>1, <1>4 DEF IInv, PopulateAppsModel

LEMMA ListedOk ==
    ASSUME NEW m, Taking(m), m.type = "list", Listed(m.body)
    PROVE  IInv'
<1> USE TakingKeeps
<1>1. Asks(0)
  BY DlQuiet DEF Listed, DlOk
<1>2. listing' = listing + 0 - (IF m.type = "list" THEN 1 ELSE 0)
  BY Typed DEF Taking, Listed
<1>3. DlOk'
  BY <1>1, <1>2, DlTakes DEF Taking, Listed, DlOk, Lists, Seeds
<1> QED
  BY <1>3 DEF IInv, Listed

LEMMA SeedListedOk ==
    ASSUME NEW m, Taking(m), m.type = "seedList", SeedListed(m.body)
    PROVE  IInv'
<1> USE TakingKeeps
<1>1. PICK x \in DlCall : x = Msg("seedAdd", Maintained) /\ x.type = "seedAdd"
  <2>1. Msg("seedAdd", Maintained) \in DlCall
    BY PackageRefreshAssumption DEF Msg, DlCall, Wire
  <2> QED
    BY <2>1 DEF Msg
<1>2. Asks(0) /\ (seeding' => x \in Range(toDl'))
  <2>1. toDl \in Seq(DlCall)
    BY DEF DlOk
  <2>2. CASE seeding'
    BY <1>1, <2>1, <2>2, DlPosts DEF SeedListed
  <2>3. CASE ~seeding'
    BY <2>1, <2>3, DlQuiet DEF SeedListed
  <2> QED
    BY <2>2, <2>3
<1>3. seeding' \in BOOLEAN /\ (seeding' => Has(toDl', Seeds))
  BY <1>1, <1>2 DEF SeedListed, Has, Seeds
<1>4. listing' = listing + 0 - (IF m.type = "list" THEN 1 ELSE 0)
  BY Typed DEF Taking, SeedListed
<1>5. DlOk'
  BY <1>2, <1>3, <1>4, DlTakes DEF Taking, SeedListed, DlOk, Lists
<1> QED
  BY <1>5 DEF IInv, SeedListed

LEMMA TwoCalls ==
    ASSUME NEW x \in DlCall, NEW y \in DlCall, x.type = "list", y.type # "list"
    PROVE  Calls(<<x, y>>, 1)
<1>1. <<x, y>> \in Seq(DlCall) /\ DOMAIN <<x, y>> = 1..2 /\ <<x, y>>[1] = x /\ <<x, y>>[2] = y
  OBVIOUS
<1>2. {i \in DOMAIN <<x, y>> : <<x, y>>[i].type = "list"} = {1}
  BY <1>1
<1>3. Count(<<x, y>>, "list") = 1
  BY <1>2, FS_Singleton DEF Count
<1> QED
  BY <1>1, <1>3 DEF Calls

LEMMA SeedAddedOk ==
    ASSUME NEW m, Taking(m), m.type = "seedAdd", SeedAdded(m.body)
    PROVE  IInv'
<1> USE TakingKeeps
<1>1. PICK x \in DlCall, y \in DlCall :
        /\ x = Msg("list", {}) /\ y = Msg("refreshCatalog", {})
        /\ x.type = "list" /\ y.type # "list"
  BY ListIsACall DEF Msg
<1>2. PICK n \in Nat : n = IF m.body THEN 1 ELSE 0
  OBVIOUS
<1>3. Asks(n)
  <2>1. toDl \in Seq(DlCall)
    BY DEF DlOk
  <2>2. CASE m.body
    <3>1. PICK q : q = <<x, y>>
      OBVIOUS
    <3>2. Calls(q, n) /\ toDl' = toDl \o q
      BY <1>1, <1>2, <2>2, <3>1, TwoCalls DEF SeedAdded
    <3> QED
      BY <2>1, <3>2, DlJoins
  <2>3. CASE ~m.body
    BY <1>2, <2>1, <2>3, DlQuiet DEF SeedAdded
  <2> QED
    BY <2>2, <2>3
<1>4. listing' = listing + n - (IF m.type = "list" THEN 1 ELSE 0)
  BY <1>2, Typed DEF Taking, SeedAdded
<1>5. DlOk'
  BY <1>3, <1>4, DlTakes DEF Taking, SeedAdded, DlOk, Lists
<1> QED
  BY <1>5 DEF IInv, SeedAdded

LEMMA RepositoryChangedOk ==
    ASSUME NEW m, Taking(m), m.type \in {"add", "remove"}, RepositoryChanged(m.body)
    PROVE  IInv'
<1> USE TakingKeeps
<1>1. PICK x \in DlCall : x = Msg("list", {}) /\ x.type = "list"
  BY ListIsACall DEF Msg
<1>2. PICK n \in Nat : n = IF m.body THEN 1 ELSE 0
  OBVIOUS
<1>3. Asks(n)
  <2>1. toDl \in Seq(DlCall)
    BY DEF DlOk
  <2>2. CASE m.body
    <3>1. PICK q : q = <<x>>
      OBVIOUS
    <3>2. Calls(q, n) /\ toDl' = toDl \o q
      BY <1>1, <1>2, <2>2, <3>1, OneCall DEF RepositoryChanged, ListCalls
    <3> QED
      BY <2>1, <3>2, DlJoins
  <2>3. CASE ~m.body
    BY <1>2, <2>1, <2>3, DlQuiet DEF RepositoryChanged
  <2> QED
    BY <2>2, <2>3
<1>4. listing' = listing + n - (IF m.type = "list" THEN 1 ELSE 0)
  BY <1>2, Typed DEF Taking, RepositoryChanged
<1>5. DlOk'
  BY <1>3, <1>4, DlTakes DEF Taking, RepositoryChanged, DlOk, Lists, Seeds
<1> QED
  BY <1>5 DEF IInv, RepositoryChanged

LEMMA RefreshedOk ==
    ASSUME NEW m, Taking(m), m.type \in {"refreshCatalog", "catalogChanged"},
           NEW lists, lists = <<>> \/ lists = ListCalls, RefreshAfter(lists),
           UNCHANGED <<rows, repositories>>
    PROVE  IInv'
<1> USE TakingKeeps
<1>1. toPm \in Seq(PmCall) /\ toDl \in Seq(DlCall) /\ listing \in Int /\ seeding \in BOOLEAN
  BY Typed DEF Taking
<1>2. /\ \E n \in Nat : Asks(n) /\ listing' = listing + n
      /\ seeding' \in BOOLEAN /\ (seeding' => seeding \/ Has(toDl', Seeds))
      /\ dlReady => Has(toDl', Lists)
  BY <1>1, RefreshAsks
<1>3. PICK n \in Nat : Asks(n) /\ listing' = listing + n
  BY <1>2
<1>4. listing' = listing + n - (IF m.type = "list" THEN 1 ELSE 0)
  BY <1>1, <1>3
<1>5. DlOk'
  BY <1>2, <1>3, <1>4, DlTakes DEF Taking, Lists, Seeds
<1>6. PmOk'
  BY <1>1, FetchPosts, PmAsks DEF Taking, IInv, RefreshAfter, caches
<1> QED
  BY <1>5, <1>6 DEF IInv

LEMMA TakeDlAnswerOk == IInv /\ TakeDlAnswer => IInv'
<1> SUFFICES ASSUME IInv, TakeDlAnswer PROVE IInv'
  OBVIOUS
<1>1. PICK m : m = Head(fromDl)
  OBVIOUS
<1>2. Taking(m)
  <2>1. fromDl # <<>> /\ m \in DlReply
    BY <1>1, Taken, Typed DEF TakeDlAnswer
  <2> QED
    BY <1>1, <2>1 DEF Taking, TakeDlAnswer
<1>3. CASE m.type = "getCatalog" /\ PopulateAppsModel(m.body.catalog, m.body.found)
  <2>1. PICK catalog \in SUBSET Release, found \in Disk :
          catalog = m.body.catalog /\ found = m.body.found
    BY <1>2, <1>3, DlAnswers DEF Taking
  <2> QED
    BY <1>2, <1>3, <2>1, PopulateOk
<1>4. CASE m.type = "list" /\ Listed(m.body)
  BY <1>2, <1>4, ListedOk
<1>5. CASE m.type = "seedList" /\ SeedListed(m.body)
  BY <1>2, <1>5, SeedListedOk
<1>6. CASE m.type = "seedAdd" /\ SeedAdded(m.body)
  BY <1>2, <1>6, SeedAddedOk
<1>7. CASE m.type \in {"add", "remove"} /\ RepositoryChanged(m.body)
  BY <1>2, <1>7, RepositoryChangedOk
<1>8. CASE m.type = "refreshCatalog" /\ RefreshAfter(<<>>) /\ UNCHANGED <<rows, repositories>>
  <2>1. PICK none : none = <<>>
    OBVIOUS
  <2> QED
    BY <1>2, <1>8, <2>1, RefreshedOk
<1>9. CASE m.type = "catalogChanged" /\ RefreshAfter(ListCalls) /\ UNCHANGED <<rows, repositories>>
  <2>1. PICK lists : lists = ListCalls
    OBVIOUS
  <2>2. RefreshAfter(lists)
    BY <1>9, <2>1 DEF RefreshAfter
  <2> QED
    BY <1>2, <1>9, <2>1, <2>2, RefreshedOk
<1> QED
  BY <1>1, <1>3, <1>4, <1>5, <1>6, <1>7, <1>8, <1>9 DEF TakeDlAnswer
-----------------------------------------------------------------------------
(* The services' steps *)

LEMMA PmCalls ==
    ASSUME NEW m \in PmCall
    PROVE  /\ m.type \in {"uiScan", "scan", "deps", "install"}
           /\ m.type = "deps" => m.body \in Package
           /\ m.type = "install" => m.body \in Order
  BY DEF PmCall, Wire

LEMMA DlCalls ==
    ASSUME NEW m \in DlCall
    PROVE  /\ m.type # "catalogChanged"
           /\ m.type = "getCatalog" => m.body \in Disk
           /\ m.type \in {"add", "seedAdd", "remove"} => m.body \in Repo
  BY DEF DlCall, Wire

LEMMA DiskChanged ==
    ASSUME NEW d \in Disk, NEW p \in Package, NEW b \in Builds[p] \cup {None}
    PROVE  [d EXCEPT ![p] = b] \in Disk
<1> DEFINE S == (UNION {Builds[q] : q \in Package}) \cup {None}
<1>1. b \in S
  OBVIOUS
<1>2. d \in [Package -> S] /\ \A q \in Package : d[q] \in Builds[q] \cup {None}
  BY DEF Disk
<1>3. [d EXCEPT ![p] = b] \in [Package -> S]
  <2> HIDE DEF S
  <2> QED
    BY <1>1, <1>2
<1>4. \A q \in Package : [d EXCEPT ![p] = b][q] \in Builds[q] \cup {None}
  BY <1>2
<1> QED
  BY <1>3, <1>4 DEF Disk

LEMMA UiOnDisk ==
    ASSUME NEW d \in Disk
    PROVE  [p \in Package |-> IF p \in Ui THEN d[p] ELSE None] \in Disk
<1> DEFINE S == (UNION {Builds[q] : q \in Package}) \cup {None}
           u == [p \in Package |-> IF p \in Ui THEN d[p] ELSE None]
<1>1. None \in S
  OBVIOUS
<1>2. d \in [Package -> S] /\ \A q \in Package : d[q] \in Builds[q] \cup {None}
  BY DEF Disk
<1>3. u \in [Package -> S]
  <2> HIDE DEF S
  <2> QED
    BY <1>1, <1>2
<1>4. \A q \in Package : u[q] \in Builds[q] \cup {None}
  BY <1>2
<1> QED
  BY <1>3, <1>4 DEF Disk

\* One call becomes its answer.
LEMMA PmReplied ==
    ASSUME PmOk, toPm # <<>>, toPm' = Tail(toPm), NEW m, m = Head(toPm),
           NEW x \in PmReply, x.type = m.type, fromPm' = Append(fromPm, x), UNCHANGED batches
    PROVE  PmOk'
<1>1. toPm \in Seq(PmCall) /\ fromPm \in Seq(PmReply)
  BY DEF PmOk
<1>2. PICK k \in Nat : k = IF m.type = "deps" THEN 1 ELSE 0
  OBVIOUS
<1>3. toPm' \in Seq(PmCall) /\ Count(toPm, "deps") = Count(toPm', "deps") + k
  BY <1>1, <1>2, Taken, CountTail
<1>4. fromPm' \in Seq(PmReply) /\ Count(fromPm', "deps") = Count(fromPm, "deps") + k
  BY <1>1, <1>2, Posted, CountAppend
<1>5. Count(toPm', "deps") \in Nat /\ Count(fromPm, "deps") \in Nat
  BY <1>1, <1>3, CountIsNat
<1>6. Count(toPm', "deps") + Count(fromPm', "deps") = Count(toPm, "deps") + Count(fromPm, "deps")
  BY <1>3, <1>4, <1>5
<1> QED
  BY <1>3, <1>4, <1>6 DEF PmOk

LEMMA AnnounceOk ==
    ASSUME rescans \in Nat, Announce
    PROVE  rescans' \in Nat /\ ("repositories" \in blind => "repositories" \in blind')
  BY DEF Announce

LEMMA PmAnswerOk == IInv /\ PmAnswer => IInv'
<1> SUFFICES ASSUME IInv, PmAnswer PROVE IInv'
  OBVIOUS
<1>1. PICK m : m = Head(toPm)
  OBVIOUS
<1>2. m \in PmCall /\ toPm # <<>> /\ toPm' = Tail(toPm)
  BY <1>1, Taken, Typed DEF PmAnswer
<1>3. /\ UNCHANGED <<pmLoaded, repos, served, toDl, fromDl, setup, dlReady,
                     retries, caches, rows, store, appsLoading, moves>>
  BY DEF PmAnswer
<1>4. RowsInv'
  BY <1>3, RowsSame DEF IInv, caches
<1>5. ASSUME NEW x \in PmReply, x.type = m.type, fromPm' = Append(fromPm, x) PROVE PmOk'
  BY <1>1, <1>2, <1>3, <1>5, PmReplied DEF IInv, caches
<1>6. CASE m.type # "install" /\ UNCHANGED <<disk, rescans, blind>>
  <2>1. WorldOk' /\ DlOk'
    BY <1>3, <1>6, WorldSame, DlSame DEF IInv
  <2>2. CASE /\ m.type = "uiScan"
             /\ fromPm' = Append(fromPm, Msg(m.type, [p \in Package |-> IF p \in Ui THEN disk[p]
                                                                                    ELSE None]))
    <3>1. PICK u \in Disk : u = [p \in Package |-> IF p \in Ui THEN disk[p] ELSE None]
      BY UiOnDisk DEF IInv, WorldOk
    <3>2. Msg(m.type, u) \in PmReply /\ Msg(m.type, u).type = m.type
      BY <2>2 DEF Msg, PmReply, Wire
    <3>3. fromPm' = Append(fromPm, Msg(m.type, u))
      BY <2>2, <3>1
    <3>4. PmOk'
      BY <1>5, <3>2, <3>3
    <3> QED
      BY <1>4, <2>1, <3>4 DEF IInv
  <2>3. CASE m.type = "scan" /\ fromPm' = Append(fromPm, Msg(m.type, disk))
    <3>1. Msg(m.type, disk) \in PmReply /\ Msg(m.type, disk).type = m.type
      BY <2>3 DEF Msg, PmReply, Wire, IInv, WorldOk
    <3>2. PmOk'
      BY <1>5, <2>3, <3>1
    <3> QED
      BY <1>4, <2>1, <3>2 DEF IInv
  <2>4. CASE /\ m.type = "deps"
             /\ fromPm' = Append(fromPm, Msg(m.type, [name |-> m.body,
                                                      missing |-> MissingOf(m.body)]))
    <3>1. m.body \in Package /\ MissingOf(m.body) \in SUBSET Package
      BY <1>2, <2>4, PmCalls, PackageRefreshAssumption DEF MissingOf
    <3>2. PICK absent \in SUBSET Package : absent = MissingOf(m.body)
      BY <3>1
    <3>3. /\ Msg(m.type, [name |-> m.body, missing |-> absent]) \in PmReply
          /\ Msg(m.type, [name |-> m.body, missing |-> absent]).type = m.type
      BY <2>4, <3>1 DEF Msg, PmReply, Wire
    <3>4. PmOk'
      BY <1>5, <2>4, <3>2, <3>3
    <3> QED
      BY <1>4, <2>1, <3>4 DEF IInv
  <2> QED
    BY <1>1, <1>6, <2>2, <2>3, <2>4 DEF PmAnswer
<1>7. CASE /\ m.type = "install"
           /\ disk' = [disk EXCEPT ![m.body.name] = m.body.build]
           /\ fromPm' = Append(fromPm, Msg(m.type, m.body)) /\ Announce
  <2>1. PICK o \in Order : o = m.body
    BY <1>2, <1>7, PmCalls
  <2>2. o.name \in Package /\ o.build \in Builds[o.name] \cup {None}
    BY PackageRefreshAssumption DEF Order
  <2>3. disk' \in Disk
    BY <1>7, <2>1, <2>2, DiskChanged DEF IInv, WorldOk
  <2>4. rescans' \in Nat /\ ("repositories" \in blind => "repositories" \in blind')
    BY <1>7, AnnounceOk DEF IInv, WorldOk
  <2>5. WorldOk'
    BY <1>3, <2>3, <2>4 DEF IInv, WorldOk
  <2>6. DlOk'
    BY <1>3, <2>4, DlSame DEF IInv
  <2>7. Msg(m.type, o) \in PmReply /\ Msg(m.type, o).type = m.type
    BY <1>7 DEF Msg, PmReply, Wire
  <2> QED
    BY <1>4, <1>5, <1>7, <2>1, <2>5, <2>6, <2>7 DEF IInv
<1> QED
  BY <1>1, <1>6, <1>7 DEF PmAnswer

LEMMA PmSilentOk == IInv /\ PmSilent => IInv'
<1> SUFFICES ASSUME IInv, PmSilent PROVE IInv'
  OBVIOUS
<1>1. PICK m : m = Head(toPm)
  OBVIOUS
<1>2. m \in PmCall /\ toPm # <<>> /\ toPm' = Tail(toPm)
  BY <1>1, Taken, Typed DEF PmSilent
<1>3. RowsInv' /\ WorldOk' /\ DlOk' /\ UNCHANGED batches
  BY RowsSame, WorldSame, DlSame DEF IInv, PmSilent, world, arming, caches, store
<1>4. ASSUME NEW x \in PmReply, x.type = m.type, fromPm' = Append(fromPm, x) PROVE PmOk'
  BY <1>1, <1>2, <1>3, <1>4, PmReplied DEF IInv
<1>5. CASE m.type \in {"uiScan", "scan"} /\ fromPm' = Append(fromPm, Msg(m.type, Nothing))
  <2>1. Msg(m.type, Nothing) \in PmReply /\ Msg(m.type, Nothing).type = m.type
    BY <1>5, DiskMaps DEF Msg, PmReply, Wire
  <2> QED
    BY <1>3, <1>4, <1>5, <2>1 DEF IInv
<1>6. CASE /\ m.type = "deps"
           /\ fromPm' = Append(fromPm, Msg(m.type, [name |-> m.body, missing |-> {}]))
  <2>1. /\ Msg(m.type, [name |-> m.body, missing |-> {}]) \in PmReply
        /\ Msg(m.type, [name |-> m.body, missing |-> {}]).type = m.type
    BY <1>2, <1>6, PmCalls DEF Msg, PmReply, Wire
  <2> QED
    BY <1>3, <1>4, <1>6, <2>1 DEF IInv
<1>7. CASE m.type = "install" /\ UNCHANGED fromPm
  <2>1. toPm' \in Seq(PmCall) /\ Count(toPm, "deps") = Count(toPm', "deps") + 0
    BY <1>1, <1>2, <1>7, Typed, Taken, CountTail
  <2>2. Count(toPm', "deps") \in Nat
    BY <2>1, CountIsNat
  <2>3. Count(toPm', "deps") = Count(toPm, "deps")
    BY <2>1, <2>2
  <2> QED
    BY <1>3, <1>7, <2>1, <2>3, PmAsks DEF IInv
<1> QED
  BY <1>1, <1>5, <1>6, <1>7 DEF PmSilent

LEMMA PmChangesOk ==
    ASSUME IInv, NEW p \in User, NEW build \in Builds[p] \cup {None}, PmChanges(p, build)
    PROVE  IInv'
<1>1. RowsInv' /\ PmOk'
  BY RowsSame, PmSame DEF IInv, PmChanges, wires, caches
<1>2. rescans' \in Nat /\ ("repositories" \in blind => "repositories" \in blind')
  BY AnnounceOk DEF IInv, WorldOk, PmChanges
<1>3. disk' \in Disk
  <2>1. p \in Package
    BY PackageRefreshAssumption
  <2> QED
    BY <2>1, DiskChanged DEF IInv, WorldOk, PmChanges
<1>4. WorldOk'
  BY <1>2, <1>3 DEF IInv, WorldOk, PmChanges
<1>5. DlOk'
  BY <1>2, DlSame DEF IInv, PmChanges, wires
<1> QED
  BY <1>1, <1>4, <1>5 DEF IInv

LEMMA PmUnloadsOk == IInv /\ PmUnloads => IInv'
<1> SUFFICES ASSUME IInv, PmUnloads PROVE IInv'
  OBVIOUS
<1>1. RowsInv' /\ PmOk' /\ WorldOk' /\ DlOk'
  BY RowsSame, PmSame, WorldSame, DlSame DEF IInv, PmUnloads, wires, arming, caches
<1> QED
  BY <1>1 DEF IInv

LEMMA PmLoadsOk == IInv /\ PmLoads => IInv'
<1> SUFFICES ASSUME IInv, PmLoads PROVE IInv'
  OBVIOUS
<1>1. RowsInv' /\ PmOk' /\ WorldOk' /\ DlOk'
  BY RowsSame, PmSame, WorldSame, DlSame DEF IInv, PmLoads, wires, arming, caches
<1> QED
  BY <1>1 DEF IInv

LEMMA DlLoadsOk == IInv /\ DlLoads => IInv'
<1> SUFFICES ASSUME IInv, DlLoads PROVE IInv'
  OBVIOUS
<1>1. RowsInv' /\ PmOk' /\ WorldOk' /\ DlOk'
  BY RowsSame, PmSame, WorldSame, DlSame DEF IInv, DlLoads, world, wires, caches
<1> QED
  BY <1>1 DEF IInv

LEMMA CatalogIsReleases == WorldOk /\ repos \in SUBSET Repo => Catalog \in SUBSET Release
  BY DEF WorldOk, Catalog

LEMMA DlAnswerOk == IInv /\ DlAnswer => IInv'
<1> SUFFICES ASSUME IInv, DlAnswer PROVE IInv'
  OBVIOUS
<1>1. PICK m : m = Head(toDl)
  OBVIOUS
<1>2. /\ m \in DlCall /\ toDl # <<>> /\ toDl' = Tail(toDl)
      /\ UNCHANGED <<disk, pmLoaded, blind, toPm, fromPm, arming, caches, rows,
                     store, appsLoading, moves>>
  BY <1>1, Taken, Typed DEF DlAnswer
<1>3. RowsInv' /\ PmOk' /\ repos \in SUBSET Repo
  BY <1>2, RowsSame, PmSame DEF IInv, caches, DlOk
<1>4. UNCHANGED served => WorldOk'
  BY <1>2, WorldSame DEF IInv, arming
<1>5. ASSUME NEW body, NEW changed \in BOOLEAN, Reply(m, body, changed),
             Msg(m.type, body) \in DlReply, m.type \in Lists => body = repos /\ ~changed,
             changed \/ UNCHANGED repos, repos' \in SUBSET Repo
      PROVE  DlOk'
  <2>1. m.type # "catalogChanged"
    BY <1>2, DlCalls
  <2> QED
    BY <1>1, <1>2, <1>5, <2>1, DlReplies DEF IInv, arming
<1>6. CASE m.type \in {"list", "seedList"} /\ Reply(m, repos, FALSE) /\ UNCHANGED <<repos, served>>
  <2>1. PICK body : body = repos
    OBVIOUS
  <2>2. Msg(m.type, body) \in DlReply
    BY <1>3, <1>6, <2>1 DEF Msg, DlReply, Wire
  <2>3. DlOk'
    BY <1>3, <1>5, <1>6, <2>1, <2>2 DEF Reply
  <2> QED
    BY <1>3, <1>4, <1>6, <2>3 DEF IInv
<1>7. CASE /\ m.type = "getCatalog" /\ UNCHANGED <<repos, served>>
           /\ Reply(m, [catalog |-> Catalog, found |-> m.body], FALSE)
  <2>1. PICK body : body = [catalog |-> Catalog, found |-> m.body]
    OBVIOUS
  <2>2. Catalog \in SUBSET Release /\ m.body \in Disk
    BY <1>2, <1>3, <1>7, CatalogIsReleases, DlCalls DEF IInv
  <2>3. Msg(m.type, body) \in DlReply
    BY <1>7, <2>1, <2>2 DEF Msg, DlReply, Wire
  <2>4. DlOk'
    BY <1>3, <1>5, <1>7, <2>1, <2>3 DEF Reply, Lists
  <2> QED
    BY <1>3, <1>4, <1>7, <2>4 DEF IInv
<1>8. CASE /\ m.type = "refreshCatalog" /\ UNCHANGED repos
           /\ served' \in {s \in [Repo -> UNION {Offers[r] : r \in Repo}] :
                             \A r \in Repo : IF r \in repos THEN s[r] \in Offers[r]
                                                            ELSE s[r] = served[r]}
           /\ Reply(m, {}, served' # served)
  <2>1. PICK changed \in BOOLEAN : changed = (served' # served)
    OBVIOUS
  <2>2. Msg(m.type, {}) \in DlReply
    BY <1>8 DEF Msg, DlReply, Wire
  <2>3. Reply(m, {}, changed)
    BY <1>8, <2>1 DEF Reply
  <2>4. DlOk'
    BY <1>3, <1>5, <1>8, <2>2, <2>3 DEF Lists
  <2>5. \A r \in Repo : served'[r] \in Offers[r]
    BY <1>8 DEF IInv, WorldOk
  <2>6. served' \in [Repo -> SUBSET Release]
    <3>1. PICK s : s = served'
      OBVIOUS
    <3>2. s \in [Repo -> UNION {Offers[r] : r \in Repo}]
      BY <1>8, <3>1
    <3>3. \A r \in Repo : s[r] \in SUBSET Release
      BY <2>5, <3>1, OffersAreReleases
    <3> QED
      BY <3>1, <3>2, <3>3
  <2>7. WorldOk'
    BY <1>2, <2>5, <2>6 DEF IInv, WorldOk, arming
  <2> QED
    BY <1>3, <2>4, <2>7 DEF IInv
<1>9. CASE /\ m.type \in {"add", "seedAdd", "remove"} /\ UNCHANGED served
           /\ \/ /\ repos' = IF m.type = "remove" THEN repos \ {m.body} ELSE repos \cup {m.body}
                 /\ Reply(m, TRUE, TRUE)
              \/ Reply(m, FALSE, FALSE) /\ UNCHANGED repos
  <2>1. Msg(m.type, TRUE) \in DlReply /\ Msg(m.type, FALSE) \in DlReply /\ m.type \notin Lists
    BY <1>9 DEF Msg, DlReply, Wire, Lists
  <2>2. repos' \in SUBSET Repo
    <3>1. PICK r \in Repo : r = m.body
      BY <1>2, <1>9, DlCalls
    <3>2. repos \ {r} \in SUBSET Repo /\ repos \cup {r} \in SUBSET Repo
      BY <1>3
    <3> QED
      BY <1>3, <1>9, <3>1, <3>2
  <2>3. DlOk'
    BY <1>5, <1>9, <2>1, <2>2
  <2> QED
    BY <1>3, <1>4, <1>9, <2>3 DEF IInv
<1> QED
  BY <1>1, <1>6, <1>7, <1>8, <1>9 DEF DlAnswer
-----------------------------------------------------------------------------
(* The theorems *)

LEMMA InitOk == Init => IInv
<1> SUFFICES ASSUME Init PROVE IInv
  OBVIOUS
<1>1. WorldOk
  <2>1. served \in [Repo -> SUBSET Release]
    <3>1. PICK s : s = served
      OBVIOUS
    <3>2. s \in [Repo -> UNION {Offers[r] : r \in Repo}] /\ \A r \in Repo : s[r] \in Offers[r]
      BY <3>1 DEF Init
    <3>3. \A r \in Repo : s[r] \in SUBSET Release
      BY <3>2, OffersAreReleases
    <3> QED
      BY <3>1, <3>2, <3>3
  <2>2. retries \in Seq([found : Disk, left : Nat \ {0}])
    BY DEF Init
  <2> QED
    BY <2>1, <2>2 DEF Init, WorldOk
<1>2. RowsInv
  <2>1. packages \in Disk /\ missing \in MissingMap
    BY DiskMaps, EmptyMap DEF Init
  <2>2. version \in [Package -> Nat] /\ hash \in [Package -> Hash]
    BY DEF Init, Hash
  <2>3. DOMAIN rows = {}
    BY DEF Init
  <2> QED
    BY <2>1, <2>2, <2>3 DEF RowsInv, RowsOk, Fresh
<1>3. PmOk
  <2>1. fromPm = <<>> /\ fromPm \in Seq(PmReply) /\ batches = <<>> /\ batches \in Seq(Batch)
    BY DEF Init
  <2>2. PICK x \in PmCall : x = Msg("uiScan", {}) /\ x.type # "deps"
    BY ScanIsACall DEF Msg
  <2>3. toPm = <<>> \/ toPm = <<x>>
    BY <2>2 DEF Init
  <2>4. toPm \in Seq(PmCall)
    <3>1. <<x>> \in Seq(PmCall) /\ <<>> \in Seq(PmCall)
      OBVIOUS
    <3> QED
      BY <2>3, <3>1
  <2>5. {i \in DOMAIN toPm : toPm[i].type = "deps"} = {}
    BY <2>2, <2>3
  <2>6. Count(toPm, "deps") = 0
    BY <2>5, FS_EmptySet DEF Count
  <2>7. Count(fromPm, "deps") = 0
    BY <2>1, CountOfNone
  <2> QED
    BY <2>1, <2>4, <2>6, <2>7, ExpectNone DEF PmOk
<1>4. DlOk
  <2>1. /\ fromDl = <<>> /\ fromDl \in Seq(DlReply) /\ Count(fromDl, "list") = 0
        /\ repos \in SUBSET Repo /\ repositories \in SUBSET Repo /\ seeding \in BOOLEAN
    BY CountOfNone DEF Init
  <2>2. CASE dlReady
    <3>1. PICK x \in DlCall, y \in DlCall :
            /\ x = Msg("list", {}) /\ y = Msg("seedList", {})
            /\ x.type = "list" /\ y.type = "seedList"
      BY ListIsACall DEF Msg
    <3>2. toDl = <<x, y>> /\ listing = 1 /\ seeding = TRUE
      BY <2>2, <3>1 DEF Init
    <3>3. Calls(toDl, 1)
      BY <3>1, <3>2, TwoCalls
    <3>4. toDl[1] = x /\ toDl[2] = y /\ 1 \in DOMAIN toDl /\ 2 \in DOMAIN toDl
      BY <3>2
    <3>5. Has(toDl, Lists) /\ Has(toDl, Seeds)
      BY <3>1, <3>4 DEF Has, Range, Lists, Seeds
    <3> QED
      BY <2>1, <2>2, <3>2, <3>3, <3>5 DEF DlOk, Calls, Known
  <2>3. CASE ~dlReady
    <3>1. toDl = <<>> /\ listing = 0 /\ seeding = FALSE /\ "repositories" \in blind
      BY <2>3 DEF Init
    <3>2. toDl \in Seq(DlCall) /\ Count(toDl, "list") = 0
      BY <3>1, CountOfNone
    <3> QED
      BY <2>1, <3>1, <3>2 DEF DlOk
  <2> QED
    BY <2>2, <2>3 DEF Init
<1> QED
  BY <1>1, <1>2, <1>3, <1>4 DEF IInv

LEMMA StepOk == IInv /\ [Next]_vars => IInv'
<1> SUFFICES ASSUME IInv, [Next]_vars PROVE IInv'
  OBVIOUS
<1>1. CASE RemoteRefresh
  BY <1>1, RemoteRefreshOk
<1>2. CASE Rescan
  BY <1>2, RescanOk
<1>3. CASE RetryCatalog
  BY <1>3, RetryCatalogOk
<1>4. CASE TakePmAnswer
  BY <1>4, TakePmAnswerOk
<1>5. CASE TakeDlAnswer
  BY <1>5, TakeDlAnswerOk
<1>6. CASE \E op \in {"add", "remove"}, r \in Repo : ChangeRepository(op, r)
  BY <1>6, ChangeRepositoryOk
<1>7. CASE \E p \in User : \E build \in Builds[p] : InstallPackage(p, build)
  BY <1>7, InstallPackageOk
<1>8. CASE StartSetup
  BY <1>8, StartSetupOk
<1>9. CASE Subscribe
  BY <1>9, SubscribeOk
<1>10. CASE PmAnswer
  BY <1>10, PmAnswerOk
<1>11. CASE PmUnloads
  BY <1>11, PmUnloadsOk
<1>12. CASE PmLoads
  BY <1>12, PmLoadsOk
<1>13. CASE PmSilent
  BY <1>13, PmSilentOk
<1>14. CASE \E p \in User : \E build \in Builds[p] \cup {None} : PmChanges(p, build)
  BY <1>14, PmChangesOk
<1>15. CASE DlAnswer
  BY <1>15, DlAnswerOk
<1>16. CASE DlLoads
  BY <1>16, DlLoadsOk
<1>17. CASE UNCHANGED vars
  <2>1. RowsInv' /\ PmOk' /\ WorldOk' /\ DlOk'
    BY <1>17, RowsSame, PmSame, WorldSame, DlSame
    DEF IInv, vars, world, wires, arming, caches
  <2> QED
    BY <2>1 DEF IInv
<1> QED
  BY <1>1, <1>2, <1>3, <1>4, <1>5, <1>6, <1>7, <1>8, <1>9, <1>10, <1>11, <1>12, <1>13, <1>14,
     <1>15, <1>16, <1>17 DEF Next

LEMMA Invariance == Spec => []IInv
  BY InitOk, StepOk, PTL DEF Spec

\* Shapes, and the spinner's counter is the number of lists that are asked for
\* and not answered: no refresh that overlaps another one makes it drift.
THEOREM TypeCorrect == Spec => []TypeOK
<1>1. IInv => TypeOK
  <2> SUFFICES ASSUME IInv PROVE TypeOK
    OBVIOUS
  <2>1. DOMAIN rows \subseteq Key /\ \A k \in DOMAIN rows : rows[k].status \in Statuses
    BY DEF IInv, RowsInv, RowsOk, Row
  <2>2. DOMAIN missing \subseteq Package
    BY MapValues DEF IInv, RowsInv
  <2>3. listing = Cardinality({i \in DOMAIN toDl : toDl[i].type = "list"})
                    + Cardinality({i \in DOMAIN fromDl : fromDl[i].type = "list"})
    BY DEF IInv, DlOk, Count
  <2> QED
    BY <2>1, <2>2, <2>3 DEF IInv, WorldOk, RowsInv, DlOk, TypeOK
<1> QED
  BY <1>1, Invariance, PTL

\* Whichever of the model's operations ran last, catalog, scan, dependencies or
\* install, no row shows a status that recomputing it would change.
THEOREM FreshStatuses == Spec => []StatusIsFresh
<1>1. IInv => StatusIsFresh
  BY DEF IInv, RowsInv, Fresh, StatusIsFresh
<1> QED
  BY <1>1, Invariance, PTL

\* Once nothing is under way the list shown is the downloader's, whatever the
\* order in which changes, their announcements and older answers came in; the
\* seeding of the maintained repository is over and the spinner gone.
THEOREM RepositoriesFollow == Spec => []RepositoriesCatchUp
<1>1. IInv => RepositoriesCatchUp
  <2> SUFFICES ASSUME IInv, Idle, "repositories" \notin blind
               PROVE  repositories = repos /\ ~seeding /\ listing = 0
    BY DEF RepositoriesCatchUp
  <2>1. toDl = <<>> /\ fromDl = <<>>
    BY DEF Idle
  <2>2. DOMAIN toDl = {} /\ DOMAIN fromDl = {}
    BY <2>1
  <2>3. ~LastList(fromDl, repos) /\ \A types : ~Has(toDl, types) /\ ~Has(fromDl, types)
    BY <2>2 DEF LastList, Has, Range
  <2>4. listing = 0
    BY <2>1, CountOfNone DEF IInv, DlOk
  <2>5. Known(toDl, fromDl, repositories, repos) /\ ~seeding
    BY <2>3 DEF IInv, DlOk
  <2> QED
    BY <2>3, <2>4, <2>5 DEF Known
<1> QED
  BY <1>1, Invariance, PTL
-----------------------------------------------------------------------------
(* Catching up: what each operation of AppsModel says of a row *)

\* The same rows, their statuses apart.
SameFacts(r, t) ==
    /\ DOMAIN t = DOMAIN r
    /\ \A k \in DOMAIN r : /\ t[k].build = r[k].build /\ t[k].needs = r[k].needs
                           /\ t[k].installed = r[k].installed /\ t[k].missing = r[k].missing

LEMMA RecomputedSays ==
    ASSUME NEW r, RowsOk(r), NEW keys
    PROVE  SameFacts(r, Recomputed(r, keys))
<1> DEFINE t == Recomputed(r, keys)
<1>1. /\ DOMAIN t = DOMAIN r
      /\ \A k \in DOMAIN r : t[k] = IF k \in keys THEN [r[k] EXCEPT !.status = InstallStatus(r, k)]
                                                  ELSE r[k]
  BY DEF Recomputed
<1> HIDE DEF t
<1>2. ASSUME NEW k \in DOMAIN r
      PROVE  /\ t[k].build = r[k].build /\ t[k].needs = r[k].needs
             /\ t[k].installed = r[k].installed /\ t[k].missing = r[k].missing
  <2>1. r[k] \in Row
    BY DEF RowsOk
  <2> QED
    BY <1>1, <2>1 DEF Row
<1> QED
  BY <1>1, <1>2 DEF SameFacts, t

LEMMA EndBulkSays ==
    ASSUME NEW r, RowsOk(r)
    PROVE  SameFacts(r, EndBulkInstalledUpdate(r))
<1>1. PICK keys : keys = DOMAIN r
  OBVIOUS
<1> QED
  BY <1>1, RecomputedSays DEF EndBulkInstalledUpdate

LEMMA WithInstalledSays ==
    ASSUME NEW r, RowsOk(r), NEW keys, NEW v, NEW h
    PROVE  LET t == WithInstalled(r, keys, v, h)
           IN /\ DOMAIN t = DOMAIN r
              /\ \A k \in DOMAIN r :
                    /\ t[k].build = r[k].build /\ t[k].needs = r[k].needs
                    /\ t[k].missing = r[k].missing
                    /\ t[k].installed = IF k \in keys THEN CachedBuild(v, h, NameOf(k))
                                                      ELSE r[k].installed
<1> DEFINE t == WithInstalled(r, keys, v, h)
<1>1. /\ DOMAIN t = DOMAIN r
      /\ \A k \in DOMAIN r :
           t[k] = IF k \in keys THEN [r[k] EXCEPT !.installed = CachedBuild(v, h, NameOf(k))]
                                ELSE r[k]
  BY DEF WithInstalled
<1> HIDE DEF t
<1>2. ASSUME NEW k \in DOMAIN r
      PROVE  /\ t[k].build = r[k].build /\ t[k].needs = r[k].needs
             /\ t[k].missing = r[k].missing
             /\ t[k].installed = IF k \in keys THEN CachedBuild(v, h, NameOf(k))
                                               ELSE r[k].installed
  <2>1. r[k] \in Row
    BY DEF RowsOk
  <2> QED
    BY <1>1, <2>1 DEF Row
<1> QED
  BY <1>1, <1>2 DEF t

LEMMA SetMissingDepsSays ==
    ASSUME NEW r, RowsOk(r), NEW m, \A p \in DOMAIN m : p \notin Renamed /\ m[p] \in SUBSET Package
    PROVE  LET t == SetMissingDeps(r, m)
           IN /\ DOMAIN t = DOMAIN r
              /\ \A k \in DOMAIN r :
                    /\ t[k].build = r[k].build /\ t[k].needs = r[k].needs
                    /\ t[k].installed = r[k].installed
                    /\ t[k].missing = IF NameOf(k) \in DOMAIN m THEN m[NameOf(k)]
                                                                ELSE r[k].missing
<1> DEFINE named == {k \in DOMAIN r : NameOf(k) \in DOMAIN m}
           t == [k \in DOMAIN r |-> IF k \in named THEN [r[k] EXCEPT !.missing = m[NameOf(k)]]
                                                   ELSE r[k]]
<1>1. PICK u : u = SetMissingDeps(r, m)
  OBVIOUS
<1>2. u = Recomputed(t, named)
  BY <1>1 DEF SetMissingDeps
<1>3. DOMAIN t = DOMAIN r
  OBVIOUS
<1>4. ASSUME NEW k \in DOMAIN r
      PROVE  /\ t[k] \in Row
             /\ t[k].build = r[k].build /\ t[k].needs = r[k].needs
             /\ t[k].installed = r[k].installed
             /\ t[k].missing = IF NameOf(k) \in DOMAIN m THEN m[NameOf(k)] ELSE r[k].missing
  BY DEF RowsOk, Row
<1> HIDE DEF t
<1>5. RowsOk(t)
  BY <1>3, <1>4 DEF RowsOk
<1>6. SameFacts(t, u)
  <2> HIDE DEF named
  <2> QED
    BY <1>2, <1>5, RecomputedSays
<1> QED
  BY <1>1, <1>3, <1>4, <1>6 DEF SameFacts

LEMMA MarkInstalledSays ==
    ASSUME NEW r, RowsOk(r), NEW p, NEW b \in Build
    PROVE  LET t == MarkInstalled(r, p, b)
           IN /\ DOMAIN t = DOMAIN r
              /\ \A k \in DOMAIN r : t[k].build = r[k].build /\ t[k].needs = r[k].needs
<1> DEFINE own == RowsNamed(r, p)
           t == [k \in DOMAIN r |-> IF k \in own THEN [r[k] EXCEPT !.installed = b] ELSE r[k]]
<1>1. \/ MarkInstalled(r, p, b) = r
      \/ MarkInstalled(r, p, b) = Recomputed(t, DOMAIN r)
  BY DEF MarkInstalled
<1>2. DOMAIN t = DOMAIN r
  OBVIOUS
<1>3. ASSUME NEW k \in DOMAIN r
      PROVE  /\ t[k] \in Row /\ t[k].build = r[k].build /\ t[k].needs = r[k].needs
             /\ t[k].missing = r[k].missing
  <2> HIDE DEF own
  <2> QED
    BY DEF RowsOk, Row
<1> HIDE DEF t
<1>4. RowsOk(t)
  BY <1>2, <1>3 DEF RowsOk
<1>5. PICK keys : keys = DOMAIN r
  OBVIOUS
<1>6. SameFacts(t, Recomputed(t, keys))
  BY <1>4, RecomputedSays
<1> QED
  BY <1>1, <1>2, <1>3, <1>5, <1>6 DEF SameFacts

\* A package has a row of its own or rows of repositories.
Apart(r) == \A p \in Package, x \in Repo : ~(<<Local, p>> \in DOMAIN r /\ <<x, p>> \in DOMAIN r)

\* The local rows are those of the found packages no repository has a row of.
LocalRows(r, found) ==
    \A p \in Package :
       <<Local, p>> \in DOMAIN r <=> /\ p \in User /\ found[p] # None
                                     /\ \A x \in Repo : <<x, p>> \notin DOMAIN r

\* The repositories' rows show the catalog.
CatalogShown(r, catalog) ==
    /\ {k \in DOMAIN r : RepoOf(k) # Local} = {KeyOf(x) : x \in catalog}
    /\ \A x \in catalog : r[KeyOf(x)].build = x.build /\ r[KeyOf(x)].needs = x.needs

OneForAKey(catalog) == \A x, y \in catalog : KeyOf(x) = KeyOf(y) => x = y

LEMMA ReplaceCatalogSays ==
    ASSUME NEW r, RowsOk(r), NEW catalog \in SUBSET Release
    PROVE  LET t == ReplaceCatalog(r, catalog)
           IN /\ Apart(t) /\ (OneForAKey(catalog) => CatalogShown(t, catalog))
              /\ \A k \in DOMAIN t : t[k].installed = IF k \in DOMAIN r THEN r[k].installed
                                                                        ELSE None
<1> DEFINE keys == {KeyOf(x) : x \in catalog}
           Old(k) == IF k \in DOMAIN r THEN r[k] ELSE NoRow
           Pick(k) == CHOOSE x \in catalog : KeyOf(x) = k
           New(k) == [Old(k) EXCEPT !.build = Pick(k).build, !.needs = Pick(k).needs]
           kept == Kept(r, catalog)
           t == ReplaceCatalog(r, catalog)
<1>1. /\ DOMAIN t = kept \cup keys
      /\ \A k \in DOMAIN t : t[k] = IF k \in keys THEN New(k) ELSE r[k]
  BY DEF ReplaceCatalog
<1>2. ASSUME NEW x \in catalog
      PROVE  /\ x.repo \in Repo /\ x.name \in Package /\ KeyOf(x) = <<x.repo, x.name>>
             /\ RepoOf(KeyOf(x)) = x.repo /\ RepoOf(KeyOf(x)) # Local
             /\ NameOf(KeyOf(x)) = x.name
  <2>1. x \in Release
    OBVIOUS
  <2>2. x.repo \in Repo /\ x.name \in Package
    BY <2>1 DEF Release
  <2> QED
    BY <2>2, PackageRefreshAssumption DEF KeyOf, RepoOf, NameOf
<1>3. /\ kept \subseteq DOMAIN r
      /\ \A k \in kept : RepoOf(k) # Local => k \in keys
      /\ \A k \in kept : RepoOf(k) = Local => \A x \in catalog : x.name # NameOf(k)
  BY DEF Kept
<1>4. ASSUME OneForAKey(catalog), NEW x \in catalog
      PROVE  New(KeyOf(x)).build = x.build /\ New(KeyOf(x)).needs = x.needs
  <2>1. Pick(KeyOf(x)) \in catalog /\ KeyOf(Pick(KeyOf(x))) = KeyOf(x)
    OBVIOUS
  <2>2. Pick(KeyOf(x)) = x
    BY <1>4, <2>1 DEF OneForAKey
  <2>3. PICK o \in Row : o = Old(KeyOf(x))
    BY NoRowIsARow DEF RowsOk
  <2>4. New(KeyOf(x)) = [o EXCEPT !.build = x.build, !.needs = x.needs]
    BY <2>2, <2>3
  <2> QED
    BY <2>4 DEF Row
<1>5. ASSUME NEW k
      PROVE  New(k).installed = IF k \in DOMAIN r THEN r[k].installed ELSE None
  <2>1. PICK o \in Row : o = Old(k)
    BY NoRowIsARow DEF RowsOk
  <2>2. New(k).installed = o.installed
    BY <2>1 DEF Row
  <2>3. NoRow.installed = None
    BY DEF NoRow
  <2> QED
    BY <2>1, <2>2, <2>3
<1> HIDE DEF t, kept, New, Old, Pick
<1>6. Apart(t)
  <2> SUFFICES ASSUME NEW p \in Package, NEW x \in Repo,
                      <<Local, p>> \in DOMAIN t, <<x, p>> \in DOMAIN t
               PROVE  FALSE
    BY DEF Apart
  <2>1. /\ RepoOf(<<Local, p>>) = Local /\ NameOf(<<Local, p>>) = p
        /\ RepoOf(<<x, p>>) = x /\ NameOf(<<x, p>>) = p /\ x # Local
    BY PackageRefreshAssumption DEF RepoOf, NameOf
  <2>2. <<x, p>> \in keys
    BY <1>1, <1>3, <2>1
  <2>3. <<Local, p>> \in kept
    BY <1>1, <1>2, <2>1
  <2> QED
    BY <1>2, <1>3, <2>1, <2>2, <2>3
<1>7. {k \in DOMAIN t : RepoOf(k) # Local} = keys
  BY <1>1, <1>2, <1>3
<1>8. OneForAKey(catalog)
         => \A x \in catalog : t[KeyOf(x)].build = x.build /\ t[KeyOf(x)].needs = x.needs
  BY <1>1, <1>4
<1>9. \A k \in DOMAIN t : t[k].installed = IF k \in DOMAIN r THEN r[k].installed ELSE None
  BY <1>1, <1>3, <1>5
<1> QED
  BY <1>6, <1>7, <1>8, <1>9 DEF CatalogShown, t

LEMMA MergeSays ==
    ASSUME NEW r, RowsOk(r), Apart(r), NEW found \in [Package -> Build]
    PROVE  LET t == MergeLocalOnlyInstalled(r, found, User)
           IN /\ LocalRows(t, found)
              /\ \A k : RepoOf(k) # Local => (k \in DOMAIN t <=> k \in DOMAIN r)
              /\ \A k \in DOMAIN t : RepoOf(k) # Local => t[k] = r[k]
              /\ \A k \in DOMAIN t : \/ k \in DOMAIN r /\ t[k] = r[k]
                                     \/ t[k].installed = found[NameOf(k)]
<1> DEFINE here == {p \in User : found[p] # None}
           kept == {k \in DOMAIN r : RepoOf(k) = Local => NameOf(k) \in here}
           new == {p \in here : \A k \in kept : NameOf(k) # p}
           t == MergeLocalOnlyInstalled(r, found, User)
<1>1. DOMAIN t = kept \cup {<<Local, p>> : p \in new}
  BY DEF MergeLocalOnlyInstalled
<1>2. \A k \in DOMAIN t :
         t[k] = IF k \in kept THEN r[k] ELSE [NoRow EXCEPT !.installed = found[NameOf(k)],
                                                           !.status = "installed"]
  BY DEF MergeLocalOnlyInstalled
<1> HIDE DEF t
<1>9. \A p : RepoOf(<<Local, p>>) = Local /\ NameOf(<<Local, p>>) = p
  BY DEF RepoOf, NameOf
<1>3. \A k : RepoOf(k) # Local => (k \in DOMAIN t <=> k \in DOMAIN r)
  BY <1>1, <1>9
<1>4. ASSUME NEW k \in DOMAIN t
      PROVE  (k \in DOMAIN r /\ t[k] = r[k]) \/ t[k].installed = found[NameOf(k)]
  <2>1. CASE k \in kept
    BY <1>2, <2>1
  <2>2. CASE k \notin kept
    <3>1. PICK o \in Row : o = NoRow
      BY NoRowIsARow
    <3>2. [o EXCEPT !.installed = found[NameOf(k)], !.status = "installed"].installed
            = found[NameOf(k)]
      BY DEF Row
    <3> QED
      BY <1>2, <2>2, <3>1, <3>2
  <2> QED
    BY <2>1, <2>2
<1>5. \A x \in Repo : \A p : RepoOf(<<x, p>>) = x /\ NameOf(<<x, p>>) = p /\ x # Local
  BY PackageRefreshAssumption DEF RepoOf, NameOf
<1>6. ASSUME NEW p \in Package, <<Local, p>> \in DOMAIN t
      PROVE  p \in here /\ \A x \in Repo : <<x, p>> \notin DOMAIN t
  <2>1. PICK k : k = <<Local, p>>
    OBVIOUS
  <2>2. RepoOf(k) = Local /\ NameOf(k) = p /\ k \in DOMAIN t
    BY <1>9, <1>6, <2>1
  <2>3. k \in kept \/ p \in new
    <3>1. k \in kept \/ \E q \in new : k = <<Local, q>>
      <4> HIDE DEF kept, new
      <4> QED
        BY <1>1, <2>2
    <3> QED
      BY <1>9, <2>2, <3>1
  <2>4. p \in here
    BY <2>2, <2>3
  <2>5. ASSUME NEW x \in Repo, <<x, p>> \in DOMAIN t PROVE FALSE
    <3>1. <<x, p>> \in DOMAIN r /\ <<x, p>> \in kept
      BY <1>3, <1>5, <2>5
    <3>2. <<Local, p>> \notin DOMAIN r
      BY <3>1 DEF Apart
    <3>3. p \in new
      BY <2>1, <2>3, <3>2
    <3> QED
      BY <1>5, <3>1, <3>3
  <2> QED
    BY <2>4, <2>5
<1>7. ASSUME NEW p \in here, p \in Package, \A x \in Repo : <<x, p>> \notin DOMAIN t
      PROVE  <<Local, p>> \in DOMAIN t
  <2>1. CASE <<Local, p>> \in DOMAIN r
    BY <1>1, <1>9, <2>1
  <2>2. CASE <<Local, p>> \notin DOMAIN r
    <3>1. ASSUME NEW k \in kept, NameOf(k) = p PROVE FALSE
      <4>1. k \in Key /\ k = <<RepoOf(k), p>>
        BY <3>1, KeyNames DEF RowsOk
      <4>2. RepoOf(k) \in Repo
        BY <2>2, <3>1, <4>1 DEF Key, RepoOf
      <4> QED
        BY <1>1, <1>7, <3>1, <4>1, <4>2
    <3>2. p \in new
      BY <1>7, <3>1
    <3> QED
      BY <1>1, <3>2
  <2> QED
    BY <2>1, <2>2
<1>8. LocalRows(t, found)
  BY <1>6, <1>7 DEF LocalRows
<1>10. \A k \in DOMAIN t : RepoOf(k) # Local => t[k] = r[k]
  BY <1>2, <1>3
<1> QED
  BY <1>3, <1>4, <1>8, <1>10 DEF t
-----------------------------------------------------------------------------
(* Catching up: places in a channel, how many of a type are from i on *)

From(q, i, type) == Cardinality({j \in DOMAIN q : j >= i /\ q[j].type = type})

LEMMA FromIsNat ==
    ASSUME NEW S, NEW q \in Seq(S), NEW i \in DOMAIN q, NEW type
    PROVE  /\ From(q, i, type) \in Nat /\ From(q, i, type) <= Count(q, type)
           /\ q[i].type = type => From(q, i, type) > 0
           /\ i = 1 => From(q, i, type) = Count(q, type)
<1> DEFINE A == {j \in DOMAIN q : j >= i /\ q[j].type = type}
           B == {j \in DOMAIN q : q[j].type = type}
<1>1. IsFiniteSet(B)
  BY CountIsNat
<1>2. A \subseteq B /\ i \in Nat
  OBVIOUS
<1>3. q[i].type = type => i \in A
  BY <1>2
<1>4. i = 1 => A = B
  OBVIOUS
<1>5. From(q, i, type) = Cardinality(A) /\ Count(q, type) = Cardinality(B)
  BY DEF From, Count
<1> HIDE DEF A, B
<1>6. IsFiniteSet(A) /\ Cardinality(A) <= Cardinality(B)
  BY <1>1, <1>2, FS_Subset
<1>7. Cardinality(A) \in Nat /\ (Cardinality(A) = 0 <=> A = {})
  BY <1>6, FS_CardinalityType, FS_EmptySet
<1>8. q[i].type = type => Cardinality(A) > 0
  <2>1. PICK n \in Nat : n = Cardinality(A)
    BY <1>7
  <2> QED
    BY <1>3, <1>7, <2>1
<1>9. i = 1 => Cardinality(A) = Cardinality(B)
  BY <1>4
<1> QED
  BY <1>5, <1>6, <1>7, <1>8, <1>9

LEMMA FromAppend ==
    ASSUME NEW S, NEW q \in Seq(S), NEW x \in S, NEW i \in DOMAIN q, NEW type
    PROVE  From(Append(q, x), i, type) = From(q, i, type) + (IF x.type = type THEN 1 ELSE 0)
<1> DEFINE t == Append(q, x)
           A == {j \in DOMAIN q : j >= i /\ q[j].type = type}
           B == {j \in DOMAIN t : j >= i /\ t[j].type = type}
<1>1. /\ DOMAIN q = 1..Len(q) /\ Len(q) \in Nat /\ DOMAIN t = 1..Len(q) + 1
      /\ \A n \in 1..Len(q) : t[n] = q[n]
      /\ t[Len(q) + 1] = x
  BY AppendAt
<1>2. IsFiniteSet(A) /\ Cardinality(A) \in Nat
  <2>1. A \subseteq {j \in DOMAIN q : q[j].type = type}
    OBVIOUS
  <2>2. IsFiniteSet({j \in DOMAIN q : q[j].type = type})
    BY CountIsNat
  <2>3. IsFiniteSet(A)
    BY <2>1, <2>2, FS_Subset
  <2> QED
    BY <2>3, FS_CardinalityType
<1>3. From(q, i, type) = Cardinality(A) /\ From(t, i, type) = Cardinality(B)
  BY DEF From
<1> HIDE DEF t
<1>4. CASE x.type = type
  <2>1. B = A \cup {Len(q) + 1} /\ Len(q) + 1 \notin A
    BY <1>1, <1>4
  <2>2. Cardinality(B) = Cardinality(A) + 1
    <3> HIDE DEF A, B
    <3> QED
      BY <1>2, <2>1, FS_AddElement
  <2> HIDE DEF A, B
  <2> QED
    BY <1>3, <1>4, <2>2 DEF t
<1>5. CASE x.type # type
  <2>1. B = A
    BY <1>1, <1>5
  <2> HIDE DEF A, B
  <2> QED
    BY <1>2, <1>3, <1>5, <2>1 DEF t
<1> QED
  BY <1>4, <1>5

LEMMA FromTail ==
    ASSUME NEW S, NEW q \in Seq(S), q # <<>>, NEW i \in DOMAIN q, i # 1, NEW type
    PROVE  /\ i - 1 \in DOMAIN Tail(q) /\ Tail(q)[i - 1] = q[i]
           /\ From(Tail(q), i - 1, type) = From(q, i, type)
<1> DEFINE t == Tail(q)
           A == {j \in DOMAIN t : j >= i - 1 /\ t[j].type = type}
           B == {a + 1 : a \in A}
           C == {j \in DOMAIN q : j >= i /\ q[j].type = type}
<1>1. /\ DOMAIN q = 1..Len(q) /\ Len(q) \in Nat \ {0} /\ DOMAIN t = 1..Len(q) - 1
      /\ \A n \in 1..Len(q) - 1 : t[n] = q[n + 1]
  BY TailAt
<1>2. t \in Seq(S)
  OBVIOUS
<1>3. From(t, i - 1, type) = Cardinality(A) /\ From(q, i, type) = Cardinality(C)
  BY DEF From
<1>4. IsFiniteSet(A)
  <2>1. A \subseteq {j \in DOMAIN t : t[j].type = type}
    OBVIOUS
  <2>2. IsFiniteSet({j \in DOMAIN t : t[j].type = type})
    <3> HIDE DEF t
    <3> QED
      BY <1>2, CountIsNat
  <2> HIDE DEF A
  <2> QED
    BY <2>1, <2>2, FS_Subset
<1> HIDE DEF t
<1>5. i - 1 \in DOMAIN t /\ t[i - 1] = q[i]
  <2>1. PICK k : k = i - 1
    OBVIOUS
  <2>2. k \in 1..Len(q) - 1 /\ i = k + 1
    BY <1>1, <2>1
  <2> QED
    BY <1>1, <2>1, <2>2
<1>6. A \subseteq Int
  BY <1>1
<1>7. IsFiniteSet(B) /\ Cardinality(B) = Cardinality(A)
  <2>1. PICK one \in Int : one = 1
    OBVIOUS
  <2>2. IsFiniteSet({a + one : a \in A}) /\ Cardinality({a + one : a \in A}) = Cardinality(A)
    <3> HIDE DEF A
    <3> QED
      BY <1>4, <1>6, Shifted
  <2> HIDE DEF A
  <2> QED
    BY <2>1, <2>2
<1>8. ASSUME NEW j \in C PROVE j \in B
  <2>1. j \in 1..Len(q) /\ q[j].type = type /\ j >= i /\ i \in 1..Len(q)
    BY <1>1, <1>8
  <2>2. PICK a : a = j - 1
    OBVIOUS
  <2>3. a \in 1..Len(q) - 1 /\ j = a + 1 /\ a >= i - 1
    BY <1>1, <2>1, <2>2
  <2>4. a \in A
    BY <1>1, <2>1, <2>3
  <2> QED
    BY <2>3, <2>4
<1>9. B \subseteq C
  BY <1>1
<1>10. B = C
  BY <1>8, <1>9
<1> HIDE DEF A, B, C
<1> QED
  BY <1>3, <1>5, <1>7, <1>10 DEF t

\* What is posted last is the last of its type.
LEMMA FromEnd ==
    ASSUME NEW S, NEW q \in Seq(S), NEW r \in Seq(S), NEW i \in DOMAIN r, NEW type
    PROVE  /\ Len(q) + i \in DOMAIN (q \o r) /\ (q \o r)[Len(q) + i] = r[i]
           /\ From(q \o r, Len(q) + i, type) <= Len(r)
<1> DEFINE t == q \o r
           A == {j \in DOMAIN t : j >= Len(q) + i /\ t[j].type = type}
<1>1. /\ DOMAIN q = 1..Len(q) /\ DOMAIN r = 1..Len(r)
      /\ Len(q) \in Nat /\ Len(r) \in Nat
      /\ DOMAIN t = 1..Len(q) + Len(r)
      /\ \A n \in 1..Len(r) : t[Len(q) + n] = r[n]
  BY ConcatAt
<1>2. From(t, Len(q) + i, type) = Cardinality(A)
  BY DEF From
<1> HIDE DEF t
<1>3. PICK l \in Nat, k \in Nat : l = Len(q) /\ k = Len(r)
  BY <1>1
<1>4. A \subseteq (l + 1)..(l + k)
  BY <1>1, <1>3
<1>5. IsFiniteSet((l + 1)..(l + k)) /\ Cardinality((l + 1)..(l + k)) = k
  <2>1. PICK a \in Int, b \in Int : a = l + 1 /\ b = l + k
    BY <1>3
  <2>2. IsFiniteSet(a..b) /\ Cardinality(a..b) = IF a > b THEN 0 ELSE b - a + 1
    BY FS_Interval
  <2>3. (IF a > b THEN 0 ELSE b - a + 1) = k
    BY <1>3, <2>1
  <2> QED
    BY <2>1, <2>2, <2>3
<1>6. Cardinality(A) <= k
  <2> HIDE DEF A
  <2> QED
    BY <1>4, <1>5, FS_Subset
<1>7. Len(q) + i \in DOMAIN t /\ t[Len(q) + i] = r[i]
  BY <1>1
<1> QED
  BY <1>2, <1>3, <1>6, <1>7 DEF t

LEMMA FromLast ==
    ASSUME NEW S, NEW q \in Seq(S), NEW x \in S, NEW type
    PROVE  /\ Len(q) + 1 \in DOMAIN Append(q, x) /\ Append(q, x)[Len(q) + 1] = x
           /\ From(Append(q, x), Len(q) + 1, type) <= 1
<1>1. /\ <<x>> \in Seq(S) /\ 1 \in DOMAIN <<x>> /\ <<x>>[1] = x /\ Len(<<x>>) = 1
      /\ q \o <<x>> = Append(q, x)
  OBVIOUS
<1>2. PICK r \in Seq(S) : r = <<x>>
  BY <1>1
<1>3. 1 \in DOMAIN r /\ r[1] = x /\ Len(r) = 1 /\ q \o r = Append(q, x)
  BY <1>1, <1>2
<1>4. /\ Len(q) + 1 \in DOMAIN (q \o r) /\ (q \o r)[Len(q) + 1] = r[1]
      /\ From(q \o r, Len(q) + 1, type) <= Len(r)
  BY <1>3, FromEnd
<1> QED
  BY <1>3, <1>4
-----------------------------------------------------------------------------
(* Catching up: its invariant *)

\* Nobody misses the disk or the catalog for good.
Up == blind \subseteq {"repositories"}

\* A scan of the disk as it is now is still to be made.
DiskAsked == rescans > 0 \/ Has(toPm, {"uiScan", "scan"}) \/ Has(fromPm, {"uiScan"})

Right(m) == m.type = "deps" => m.body.missing = MissingOf(m.body.name)

\* It was made, its answer is on the way and nothing older after it.
ScanComing ==
    \E i \in DOMAIN fromPm :
       /\ fromPm[i].type = "scan" /\ fromPm[i].body = disk
       /\ \A j \in DOMAIN fromPm :
             j > i => fromPm[j].type \notin {"scan", "install"} /\ Right(fromPm[j])

\* What the last batch will say of p is right: it has the answer, or the query
\* or its answer is among those that are left to it, the last ones.
LastBatch == batches[Len(batches)]

DepComing(p) ==
    \/ p \in DOMAIN LastBatch.missing /\ LastBatch.missing[p] = MissingOf(p)
    \/ \E i \in DOMAIN toPm : /\ toPm[i].type = "deps" /\ toPm[i].body = p
                              /\ From(toPm, i, "deps") <= LastBatch.left
    \/ \E i \in DOMAIN fromPm :
          /\ fromPm[i].type = "deps" /\ fromPm[i].body.name = p
          /\ From(fromPm, i, "deps") + Count(toPm, "deps") <= LastBatch.left

RowsShow(r) ==
    /\ \A k \in DOMAIN r : r[k].installed = disk[NameOf(k)]
    /\ batches = <<>> => \A k \in DOMAIN r : NameOf(k) \in OnDisk \ Renamed =>
                                                r[k].missing = MissingOf(NameOf(k))

\* It came in, and the batch it started or what that published is right.
DiskShown ==
    /\ \A m \in Range(fromPm) : m.type \notin {"scan", "install"} /\ Right(m)
    /\ packages = disk
    /\ version = [p \in Package |-> disk[p].version] /\ hash = [p \in Package |-> disk[p].hash]
    /\ RowsShow(rows)
    /\ \A p \in OnDisk : IF batches = <<>> THEN p \in DOMAIN missing /\ missing[p] = MissingOf(p)
                                           ELSE DepComing(p)

DiskOk == DiskAsked \/ ScanComing \/ DiskShown

CatalogAsked ==
    \/ Has(toPm, {"uiScan"}) \/ Has(fromPm, {"uiScan"}) \/ retries # <<>>
    \/ Has(toDl, {"getCatalog"}) \/ Has(fromDl, {"catalogChanged"})

CatalogComing ==
    \E i \in DOMAIN fromDl :
       /\ fromDl[i].type = "getCatalog" /\ fromDl[i].body.catalog = Catalog
       /\ \A j \in DOMAIN fromDl : j > i => fromDl[j].type # "getCatalog"

CatalogOk ==
    \/ CatalogAsked \/ CatalogComing
    \/ ~Has(fromDl, {"getCatalog"}) /\ CatalogShown(rows, Catalog)

CInv ==
    /\ \A p \in Package \ User : disk[p] # None
    /\ LocalRows(rows, packages)
    /\ Up => pmLoaded /\ DiskOk /\ CatalogOk

-----------------------------------------------------------------------------
(* Catching up: the steps that only ask *)

LEMMA MissingSame ==
    ASSUME UNCHANGED disk
    PROVE  OnDisk' = OnDisk /\ \A p : MissingOf(p)' = MissingOf(p)
  BY DEF MissingOf, OnDisk

\* A call that is no dependency query is added, or none.
Posts == toPm' = toPm \/ \E x \in PmCall : x.type # "deps" /\ toPm' = Append(toPm, x)

LEMMA PostsKeeps ==
    ASSUME toPm \in Seq(PmCall), Posts
    PROVE  /\ Range(toPm) \subseteq Range(toPm') /\ Count(toPm', "deps") = Count(toPm, "deps")
           /\ \A i \in DOMAIN toPm : /\ i \in DOMAIN toPm' /\ toPm'[i] = toPm[i]
                                     /\ From(toPm', i, "deps") = From(toPm, i, "deps")
<1>1. CASE toPm' = toPm
  BY <1>1
<1>2. ASSUME NEW x \in PmCall, x.type # "deps", toPm' = Append(toPm, x)
      PROVE  /\ Range(toPm) \subseteq Range(toPm') /\ Count(toPm', "deps") = Count(toPm, "deps")
             /\ \A i \in DOMAIN toPm : /\ i \in DOMAIN toPm' /\ toPm'[i] = toPm[i]
                                       /\ From(toPm', i, "deps") = From(toPm, i, "deps")
  <2>1. Range(toPm) \subseteq Range(toPm') /\ Count(toPm', "deps") = Count(toPm, "deps")
    BY <1>2, Posted, PmPosts
  <2>2. ASSUME NEW i \in DOMAIN toPm PROVE i \in DOMAIN toPm' /\ toPm'[i] = toPm[i]
    BY <1>2
  <2>3. ASSUME NEW i \in DOMAIN toPm PROVE From(toPm', i, "deps") = From(toPm, i, "deps")
    <3>1. From(toPm', i, "deps") = From(toPm, i, "deps") + 0
      BY <1>2, FromAppend
    <3>2. From(toPm, i, "deps") \in Nat
      BY FromIsNat
    <3> QED
      BY <3>1, <3>2
  <2> QED
    BY <2>1, <2>2, <2>3
<1> QED
  BY <1>1, <1>2 DEF Posts

LEMMA FetchIsPost ==
    ASSUME toPm \in Seq(PmCall), Fetch
    PROVE  Posts /\ (pmLoaded => Has(toPm', {"uiScan"}))
<1>1. PICK x \in PmCall : x = Msg("uiScan", {}) /\ x.type = "uiScan"
  BY ScanIsACall DEF Msg
<1>2. toPm' = IF pmLoaded THEN Append(toPm, x) ELSE toPm
  BY <1>1 DEF Fetch
<1>3. pmLoaded => x \in Range(toPm')
  BY <1>2, Posted
<1> QED
  BY <1>1, <1>2, <1>3 DEF Posts, Has

\* Nothing that matters to the disk but a call to package_manager and rows
\* that show what the old ones did.
LEMMA DiskFrame ==
    ASSUME toPm \in Seq(PmCall), DiskOk, Posts,
           UNCHANGED <<disk, rescans, fromPm, packages, version, hash, missing, batches>>,
           DiskShown => RowsShow(rows)'
    PROVE  DiskOk'
<1>1. /\ Range(toPm) \subseteq Range(toPm') /\ Count(toPm', "deps") = Count(toPm, "deps")
      /\ \A i \in DOMAIN toPm : /\ i \in DOMAIN toPm' /\ toPm'[i] = toPm[i]
                                /\ From(toPm', i, "deps") = From(toPm, i, "deps")
  BY PostsKeeps
<1>2. OnDisk' = OnDisk /\ \A p : MissingOf(p)' = MissingOf(p)
  BY MissingSame
<1>3. \A m : Right(m)' <=> Right(m)
  BY <1>2 DEF Right
<1>4. CASE DiskAsked
  <2>1. DiskAsked'
    BY <1>1, <1>4, HasMore DEF DiskAsked
  <2> QED
    BY <2>1 DEF DiskOk
<1>5. CASE ScanComing
  <2>1. ScanComing'
    BY <1>3, <1>5 DEF ScanComing
  <2> QED
    BY <2>1 DEF DiskOk
<1>6. CASE DiskShown
  <2>1. ASSUME NEW p, DepComing(p) PROVE DepComing(p)'
    <3>1. LastBatch' = LastBatch
      BY DEF LastBatch
    <3> QED
      BY <1>1, <1>2, <2>1, <3>1 DEF DepComing
  <2>2. \A m \in Range(fromPm') : m.type \notin {"scan", "install"} /\ Right(m)'
    BY <1>3, <1>6 DEF DiskShown
  <2>3. \A p \in OnDisk' : IF batches' = <<>> THEN p \in DOMAIN missing' /\ missing'[p] = MissingOf(p)'
                                              ELSE DepComing(p)'
    BY <1>2, <1>6, <2>1 DEF DiskShown
  <2>4. DiskShown'
    BY <1>6, <2>2, <2>3 DEF DiskShown
  <2> QED
    BY <2>4 DEF DiskOk
<1> QED
  BY <1>4, <1>5, <1>6 DEF DiskOk

LEMMA DiskKept ==
    ASSUME toPm \in Seq(PmCall), DiskOk, Posts,
           UNCHANGED <<disk, rescans, fromPm, packages, version, hash, missing, batches, rows>>
    PROVE  DiskOk'
<1>1. DiskShown => RowsShow(rows)'
  BY MissingSame DEF DiskShown, RowsShow
<1> QED
  BY <1>1, DiskFrame

LEMMA CatalogFrame ==
    ASSUME CatalogOk, CatalogAsked => CatalogAsked', UNCHANGED <<fromDl, repos, served>>,
           CatalogShown(rows, Catalog) => CatalogShown(rows', Catalog)
    PROVE  CatalogOk'
<1>1. Catalog' = Catalog
  BY DEF Catalog
<1>2. CatalogComing => CatalogComing'
  BY <1>1 DEF CatalogComing
<1> QED
  BY <1>1, <1>2 DEF CatalogOk

\* More is asked for, nothing is answered.
LEMMA OnlyAsks ==
    ASSUME IInv, CInv, Posts, Range(toDl) \subseteq Range(toDl'), Up' => Up,
           UNCHANGED <<disk, pmLoaded, rescans, fromPm, packages, version, hash, missing, batches,
                       rows, retries, fromDl, repos, served>>
    PROVE  CInv'
<1>1. toPm \in Seq(PmCall)
  BY Typed
<1>2. LocalRows(rows, packages)' /\ \A p \in Package \ User : disk'[p] # None
  BY DEF CInv, LocalRows
<1>3. ASSUME Up' PROVE pmLoaded' /\ DiskOk' /\ CatalogOk'
  <2>1. pmLoaded /\ DiskOk /\ CatalogOk
    BY <1>3 DEF CInv
  <2>2. DiskOk'
    BY <1>1, <2>1, DiskKept
  <2>3. CatalogAsked => CatalogAsked'
    BY <1>1, PostsKeeps, HasMore DEF CatalogAsked
  <2>4. CatalogOk'
    BY <2>1, <2>3, CatalogFrame
  <2> QED
    BY <2>1, <2>2, <2>4
<1> QED
  BY <1>2, <1>3 DEF CInv

LEMMA NoPost == ASSUME UNCHANGED toPm PROVE Posts
  BY DEF Posts

LEMMA RemoteRefreshCatchesUp == ASSUME IInv, CInv, RemoteRefresh PROVE CInv'
<1> USE Typed
<1>1. UNCHANGED <<disk, pmLoaded, blind, rescans, fromPm, packages, version, hash, missing, batches,
                  rows, retries, fromDl, repos, served>>
  BY DEF RemoteRefresh, world, arming, caches
<1>2. Up' => Up
  BY <1>1 DEF Up
<1>3. CASE dlReady /\ toDl' = Append(toDl, Msg("refreshCatalog", {})) /\ UNCHANGED toPm
  <2>1. PICK x \in DlCall : x = Msg("refreshCatalog", {})
    BY ListIsACall
  <2>2. Range(toDl) \subseteq Range(toDl')
    BY <1>3, <2>1, Posted
  <2> QED
    BY <1>1, <1>2, <1>3, <2>2, NoPost, OnlyAsks
<1>4. CASE RefreshAfter(<<>>)
  <2>1. PICK none : none = <<>>
    OBVIOUS
  <2>2. Range(toDl) \subseteq Range(toDl')
    BY <1>4, <2>1, RefreshAsks DEF Asks
  <2>3. Posts
    BY <1>4, FetchIsPost DEF RefreshAfter
  <2> QED
    BY <1>1, <1>2, <2>2, <2>3, OnlyAsks
<1> QED
  BY <1>3, <1>4 DEF RemoteRefresh

LEMMA ChangeRepositoryCatchesUp ==
    ASSUME IInv, CInv, NEW op \in {"add", "remove"}, NEW r \in Repo, ChangeRepository(op, r)
    PROVE  CInv'
<1>1. UNCHANGED <<disk, pmLoaded, blind, rescans, toPm, fromPm, packages, version, hash, missing,
                  batches, rows, retries, fromDl, repos, served>>
  BY DEF ChangeRepository, world, arming, caches
<1>2. PICK x \in DlCall : x = Msg(op, r)
  BY DEF Msg, DlCall, Wire
<1>3. Range(toDl) \subseteq Range(toDl')
  BY <1>2, Posted, Typed DEF ChangeRepository
<1> QED
  BY <1>1, <1>3, NoPost, OnlyAsks DEF Up

LEMMA InstallPackageCatchesUp ==
    ASSUME IInv, CInv, NEW p \in User, NEW build \in Builds[p], InstallPackage(p, build)
    PROVE  CInv'
<1>1. UNCHANGED <<disk, pmLoaded, blind, rescans, fromPm, packages, version, hash, missing,
                  batches, rows, retries, toDl, fromDl, repos, served>>
  BY DEF InstallPackage, world, arming, caches
<1>2. PICK x \in PmCall : x = Msg("install", [name |-> p, build |-> build]) /\ x.type # "deps"
  <2>1. build \in Build
    BY BuildsAreBuilds, PackageRefreshAssumption
  <2>2. [name |-> p, build |-> build] \in Order
    BY <2>1 DEF Order
  <2>3. Msg("install", [name |-> p, build |-> build]) \in PmCall
    BY <2>2 DEF Msg, PmCall, Wire
  <2> QED
    BY <2>3 DEF Msg
<1>3. Posts
  BY <1>2 DEF InstallPackage, Posts
<1> QED
  BY <1>1, <1>3, OnlyAsks DEF Up

\* A step that changes nothing these parts speak of.
LEMMA IdleCatchesUp ==
    ASSUME IInv, CInv, Up' => Up,
           UNCHANGED <<disk, pmLoaded, rescans, toPm, fromPm, packages, version, hash, missing,
                       batches, rows, retries, toDl, fromDl, repos, served>>
    PROVE  CInv'
  BY NoPost, OnlyAsks

LEMMA RescanCatchesUp == ASSUME IInv, CInv, Rescan PROVE CInv'
<1>1. UNCHANGED <<disk, pmLoaded, blind, packages, rows>>
  BY DEF Rescan, world, caches
<1>2. LocalRows(rows, packages)' /\ \A p \in Package \ User : disk'[p] # None
  BY <1>1 DEF CInv, LocalRows
<1>3. ASSUME Up' PROVE pmLoaded' /\ DiskOk' /\ CatalogOk'
  <2>1. pmLoaded
    BY <1>1, <1>3 DEF CInv, Up
  <2>2. Has(toPm', {"uiScan"})
    BY <2>1, FetchIsPost, Typed DEF Rescan
  <2>3. DiskAsked' /\ CatalogAsked'
    BY <2>2 DEF DiskAsked, CatalogAsked, Has
  <2> QED
    BY <1>1, <2>1, <2>3 DEF DiskOk, CatalogOk
<1> QED
  BY <1>2, <1>3 DEF CInv

\* tryFetchCatalog asks, comes back to it, or gives up.
LEMMA TryFetchGoesOn ==
    ASSUME toDl \in Seq(DlCall), NEW found \in Disk, NEW left \in Int, NEW timers,
           TryFetchCatalog(found, left, timers)
    PROVE  /\ Range(toDl) \subseteq Range(toDl') /\ blind \subseteq blind'
           /\ Up' => Has(toDl', {"getCatalog"}) \/ retries' # <<>>
<1>1. CASE dlReady /\ toDl' = Append(toDl, Msg("getCatalog", found)) /\ UNCHANGED blind
  <2>1. PICK x \in DlCall : x = Msg("getCatalog", found) /\ x.type = "getCatalog"
    <3>1. Msg("getCatalog", found) \in DlCall
      BY DEF Msg, DlCall, Wire
    <3> QED
      BY <3>1 DEF Msg
  <2>2. Range(toDl') = Range(toDl) \cup {x}
    BY <1>1, <2>1, Posted
  <2> QED
    BY <1>1, <2>1, <2>2 DEF Has
<1>2. CASE /\ retries' = Append(timers, [found |-> found, left |-> left])
           /\ UNCHANGED <<toDl, blind>>
  BY <1>2
<1>3. CASE blind' = blind \cup {"catalog"} /\ UNCHANGED toDl
  BY <1>3 DEF Up
<1> QED
  BY <1>1, <1>2, <1>3 DEF TryFetchCatalog

LEMMA RetryCatalogCatchesUp == ASSUME IInv, CInv, RetryCatalog PROVE CInv'
<1>1. UNCHANGED <<disk, pmLoaded, rescans, toPm, fromPm, packages, version, hash, missing,
                  batches, rows>>
  BY DEF RetryCatalog, caches
<1>2. LocalRows(rows, packages)' /\ \A p \in Package \ User : disk'[p] # None
  BY <1>1 DEF CInv, LocalRows
<1>3. PICK h \in Retry : h = Head(retries)
  BY Taken DEF IInv, WorldOk, Retry, RetryCatalog
<1>4. PICK found \in Disk, left \in Int : found = h.found /\ left = h.left - 1
  BY DEF Retry
<1>5. TryFetchCatalog(found, left, Tail(retries))
  BY <1>3, <1>4 DEF RetryCatalog
<1>6. blind \subseteq blind' /\ (Up' => Has(toDl', {"getCatalog"}) \/ retries' # <<>>)
  BY <1>4, <1>5, TryFetchGoesOn, Typed
<1>7. ASSUME Up' PROVE pmLoaded' /\ DiskOk' /\ CatalogOk'
  <2>1. pmLoaded /\ DiskOk
    BY <1>6, <1>7 DEF CInv, Up
  <2>2. DiskOk'
    BY <1>1, <2>1, NoPost, DiskKept, Typed
  <2>3. CatalogOk'
    BY <1>6, <1>7 DEF CatalogOk, CatalogAsked
  <2> QED
    BY <1>1, <2>1, <2>2, <2>3
<1> QED
  BY <1>2, <1>7 DEF CInv
-----------------------------------------------------------------------------
(* Catching up: package_manager's steps *)

LEMMA Moved ==
    ASSUME toPm \in Seq(PmCall), fromPm \in Seq(PmReply), toPm # <<>>, toPm' = Tail(toPm),
           NEW m, m = Head(toPm), NEW x \in PmReply, x.type = m.type, fromPm' = Append(fromPm, x)
    PROVE  /\ \A types : /\ Has(toPm, types) => Has(toPm', types) \/ m.type \in types
                         /\ Has(fromPm', types) <=> Has(fromPm, types) \/ m.type \in types
           /\ Range(fromPm') = Range(fromPm) \cup {x}
<1>1. \A types : Has(toPm, types) <=> Has(toPm', types) \/ m.type \in types
  BY HasTail
<1>2. Range(fromPm') = Range(fromPm) \cup {x}
  BY Posted
<1> QED
  BY <1>1, <1>2 DEF Has

\* A dependency query at the head becomes the last answer.
LEMMA QueryMoved ==
    ASSUME PmOk, toPm # <<>>, toPm' = Tail(toPm), NEW m, m = Head(toPm), m.type = "deps",
           NEW x \in PmReply, x.type = "deps", x.body.name = m.body, fromPm' = Append(fromPm, x),
           UNCHANGED <<disk, batches>>, batches # <<>>, NEW p, DepComing(p)
    PROVE  DepComing(p)'
<1>1. /\ toPm \in Seq(PmCall) /\ fromPm \in Seq(PmReply)
      /\ LastBatch' = LastBatch /\ MissingOf(p)' = MissingOf(p)
  BY MissingSame DEF PmOk, LastBatch
<1>2. PICK left \in Nat : left = LastBatch.left
  <2>1. batches \in Seq(Batch) /\ LastBatch \in Batch
    BY DEF PmOk, LastBatch
  <2> QED
    BY <2>1 DEF Batch
<1>3. PICK n \in Nat : n = Count(toPm', "deps") /\ Count(toPm, "deps") = n + 1
  <2>1. Count(toPm, "deps") = Count(toPm', "deps") + 1
    BY <1>1, CountTail
  <2>2. toPm' \in Seq(PmCall)
    BY <1>1, Taken
  <2>3. Count(toPm', "deps") \in Nat
    BY <2>2, CountIsNat
  <2> QED
    BY <2>1, <2>3
<1>4. CASE p \in DOMAIN LastBatch.missing /\ LastBatch.missing[p] = MissingOf(p)
  BY <1>1, <1>4 DEF DepComing
<1>5. ASSUME NEW i \in DOMAIN toPm, toPm[i].type = "deps", toPm[i].body = p,
             From(toPm, i, "deps") <= LastBatch.left
      PROVE  DepComing(p)'
  <2>1. CASE i = 1
    <3>1. toPm[1] = m /\ From(toPm, i, "deps") = n + 1
      BY <1>1, <1>3, <2>1, TailAt, FromIsNat
    <3>2. PICK k : k = Len(fromPm) + 1
      OBVIOUS
    <3>3. k \in DOMAIN fromPm' /\ fromPm'[k] = x /\ From(fromPm', k, "deps") <= 1
      BY <1>1, <3>2, FromLast
    <3>4. fromPm' \in Seq(PmReply)
      BY <1>1, Posted
    <3>5. From(fromPm', k, "deps") \in Nat
      BY <3>3, <3>4, FromIsNat
    <3>6. n + 1 <= left
      BY <1>2, <1>5, <3>1
    <3>7. From(fromPm', k, "deps") + Count(toPm', "deps") <= LastBatch'.left
      BY <1>1, <1>2, <1>3, <3>3, <3>5, <3>6
    <3>8. fromPm'[k].type = "deps" /\ fromPm'[k].body.name = p
      BY <1>5, <2>1, <3>1, <3>3
    <3> QED
      BY <3>3, <3>7, <3>8 DEF DepComing
  <2>2. CASE i # 1
    <3>1. PICK k : k = i - 1
      OBVIOUS
    <3>2. /\ k \in DOMAIN toPm' /\ toPm'[k] = toPm[i]
          /\ From(toPm', k, "deps") = From(toPm, i, "deps")
      BY <1>1, <2>2, <3>1, FromTail
    <3> QED
      BY <1>1, <1>5, <3>2 DEF DepComing
  <2> QED
    BY <2>1, <2>2
<1>6. ASSUME NEW i \in DOMAIN fromPm, fromPm[i].type = "deps", fromPm[i].body.name = p,
             From(fromPm, i, "deps") + Count(toPm, "deps") <= LastBatch.left
      PROVE  DepComing(p)'
  <2>1. PICK k \in Nat : k = From(fromPm, i, "deps")
    BY <1>1, FromIsNat
  <2>2. From(fromPm', i, "deps") = k + 1
    BY <1>1, <2>1, FromAppend
  <2>3. i \in DOMAIN fromPm' /\ fromPm'[i] = fromPm[i]
    BY <1>1, AppendAt
  <2>4. k + (n + 1) <= left
    BY <1>2, <1>3, <1>6, <2>1
  <2>5. From(fromPm', i, "deps") + Count(toPm', "deps") <= LastBatch'.left
    BY <1>1, <1>2, <1>3, <2>2, <2>4
  <2> QED
    BY <1>6, <2>3, <2>5 DEF DepComing
<1> QED
  BY <1>4, <1>5, <1>6 DEF DepComing

LEMMA QueryAnswered ==
    ASSUME IInv, DiskOk, toPm # <<>>, toPm' = Tail(toPm), NEW m, m = Head(toPm), m.type = "deps",
           NEW x \in PmReply, x.type = "deps", x.body.name = m.body,
           x.body.missing = MissingOf(m.body), fromPm' = Append(fromPm, x),
           UNCHANGED <<disk, rescans, caches, rows>>
    PROVE  DiskOk'
<1> USE Typed
<1>1. /\ \A types : /\ Has(toPm, types) => Has(toPm', types) \/ "deps" \in types
                    /\ Has(fromPm', types) <=> Has(fromPm, types) \/ "deps" \in types
      /\ Range(fromPm') = Range(fromPm) \cup {x}
  BY Moved
<1>2. OnDisk' = OnDisk /\ \A p : MissingOf(p)' = MissingOf(p)
  BY MissingSame
<1>3. (\A r : Right(r)' <=> Right(r)) /\ Right(x)
  BY <1>2 DEF Right
<1>4. CASE DiskAsked
  BY <1>1, <1>4 DEF DiskAsked, DiskOk
<1>5. CASE ScanComing
  <2>1. PICK i \in DOMAIN fromPm :
          /\ fromPm[i].type = "scan" /\ fromPm[i].body = disk
          /\ \A j \in DOMAIN fromPm :
                j > i => fromPm[j].type \notin {"scan", "install"} /\ Right(fromPm[j])
    BY <1>5 DEF ScanComing
  <2>2. /\ DOMAIN fromPm = 1..Len(fromPm) /\ Len(fromPm) \in Nat
        /\ DOMAIN fromPm' = 1..Len(fromPm) + 1
        /\ \A n \in 1..Len(fromPm) : fromPm'[n] = fromPm[n]
        /\ fromPm'[Len(fromPm) + 1] = x
    BY AppendAt
  <2>3. ASSUME NEW j \in DOMAIN fromPm', j > i
        PROVE  fromPm'[j].type \notin {"scan", "install"} /\ Right(fromPm'[j])
    <3>1. CASE j \in DOMAIN fromPm
      BY <2>1, <2>2, <2>3, <3>1
    <3>2. CASE j \notin DOMAIN fromPm
      <4>1. fromPm'[j] = x
        BY <2>2, <3>2
      <4> QED
        BY <1>3, <4>1
    <3> QED
      BY <3>1, <3>2
  <2>4. i \in DOMAIN fromPm' /\ fromPm'[i].type = "scan" /\ fromPm'[i].body = disk'
    BY <2>1, <2>2
  <2>5. \A j \in DOMAIN fromPm' :
           j > i => fromPm'[j].type \notin {"scan", "install"} /\ Right(fromPm[j])'
    BY <2>3 DEF Right, MissingOf, OnDisk
  <2>6. ScanComing'
    BY <2>4, <2>5 DEF ScanComing
  <2> QED
    BY <2>6 DEF DiskOk
<1>6. CASE DiskShown
  <2>1. ASSUME NEW p \in OnDisk, batches # <<>> PROVE DepComing(p)'
    <3>1. DepComing(p)
      BY <1>6, <2>1 DEF DiskShown
    <3> QED
      BY <2>1, <3>1, QueryMoved DEF IInv, caches
  <2>2. \A r \in Range(fromPm') : r.type \notin {"scan", "install"} /\ Right(r)'
    BY <1>1, <1>3, <1>6 DEF DiskShown
  <2>3. UNCHANGED <<packages, version, hash, missing, batches>>
    BY DEF caches
  <2>4. RowsShow(rows)'
    BY <1>2, <1>6, <2>3 DEF DiskShown, RowsShow
  <2>5. \A p \in OnDisk' : IF batches' = <<>> THEN p \in DOMAIN missing' /\ missing'[p] = MissingOf(p)'
                                              ELSE DepComing(p)'
    BY <1>2, <1>6, <2>1, <2>3 DEF DiskShown
  <2>6. DiskShown'
    BY <1>6, <2>2, <2>3, <2>4, <2>5 DEF DiskShown
  <2> QED
    BY <2>6 DEF DiskOk
<1> QED
  BY <1>4, <1>5, <1>6 DEF DiskOk

\* A change on disk is announced to who subscribed, or somebody is blind.
LEMMA Announced ==
    ASSUME rescans \in Nat, Announce
    PROVE  blind \subseteq blind' /\ (Up' => rescans' > 0)
  BY DEF Announce, Up

LEMMA AskedMoved ==
    ASSUME toPm \in Seq(PmCall), fromPm \in Seq(PmReply), toPm # <<>>, toPm' = Tail(toPm),
           NEW m, m = Head(toPm), NEW x \in PmReply, x.type = m.type, fromPm' = Append(fromPm, x),
           UNCHANGED <<retries, toDl, fromDl>>, CatalogAsked
    PROVE  CatalogAsked'
  BY Moved DEF CatalogAsked

LEMMA PmAnswerCatchesUp == ASSUME IInv, CInv, PmAnswer PROVE CInv'
<1> USE Typed
<1>1. PICK m : m = Head(toPm)
  OBVIOUS
<1>2. /\ m \in PmCall /\ toPm # <<>> /\ toPm' = Tail(toPm)
      /\ UNCHANGED <<pmLoaded, repos, served, toDl, fromDl, setup, retries, caches, rows>>
  BY <1>1, Taken DEF PmAnswer
<1>3. rescans \in Nat /\ disk \in Disk
  BY DEF IInv, WorldOk
<1>4. blind \subseteq blind' /\ \A p \in Package \ User : disk'[p] # None
  <2>1. CASE UNCHANGED <<disk, rescans, blind>>
    BY <2>1 DEF CInv
  <2>2. CASE /\ m.type = "install" /\ Announce
             /\ disk' = [disk EXCEPT ![m.body.name] = m.body.build]
    <3>1. m.body.name \in User
      BY <1>2, <2>2, PmCalls DEF Order
    <3>2. \A p \in Package \ User : disk'[p] = disk[p]
      BY <1>3, <2>2, <3>1 DEF Disk
    <3> QED
      BY <1>3, <2>2, <3>2, Announced DEF CInv
  <2> QED
    BY <1>1, <2>1, <2>2 DEF PmAnswer
<1>5. LocalRows(rows, packages)'
  BY <1>2 DEF CInv, LocalRows, caches
<1>6. ASSUME Up, NEW x \in PmReply, x.type = m.type, fromPm' = Append(fromPm, x)
      PROVE  CatalogOk'
  <2>1. CatalogAsked => CatalogAsked'
    BY <1>1, <1>2, <1>6, AskedMoved
  <2> QED
    BY <1>2, <1>6, <2>1, CatalogFrame DEF CInv
<1>7. ASSUME Up' PROVE pmLoaded' /\ DiskOk' /\ CatalogOk'
  <2>1. Up /\ pmLoaded' /\ DiskOk
    BY <1>2, <1>4, <1>7 DEF Up, CInv
  <2>2. CASE /\ m.type = "uiScan"
             /\ fromPm' = Append(fromPm, Msg(m.type, [p \in Package |-> IF p \in Ui THEN disk[p]
                                                                                    ELSE None]))
    <3>1. PICK u \in Disk : u = [p \in Package |-> IF p \in Ui THEN disk[p] ELSE None]
      BY <1>3, UiOnDisk
    <3>2. PICK x \in PmReply : x = Msg(m.type, u) /\ x.type = m.type
      <4>1. Msg(m.type, u) \in PmReply /\ Msg(m.type, u).type = m.type
        BY <2>2 DEF Msg, PmReply, Wire
      <4> QED
        BY <4>1
    <3>3. fromPm' = Append(fromPm, x)
      BY <2>2, <3>1, <3>2
    <3>4. DiskAsked'
      BY <1>1, <1>2, <2>2, <3>2, <3>3, Moved DEF DiskAsked
    <3> QED
      BY <1>6, <2>1, <3>2, <3>3, <3>4 DEF DiskOk
  <2>3. CASE m.type = "scan" /\ fromPm' = Append(fromPm, Msg(m.type, disk)) /\ UNCHANGED disk
    <3>1. PICK x \in PmReply : x = Msg(m.type, disk) /\ x.type = m.type /\ x.body = disk
      <4>1. /\ Msg(m.type, disk) \in PmReply
            /\ Msg(m.type, disk).type = m.type /\ Msg(m.type, disk).body = disk
        BY <1>3, <2>3 DEF Msg, PmReply, Wire
      <4> QED
        BY <4>1
    <3>2. PICK i : i = Len(fromPm) + 1
      OBVIOUS
    <3>3. i \in DOMAIN fromPm' /\ fromPm'[i] = x /\ \A j \in DOMAIN fromPm' : ~(j > i)
      BY <2>3, <3>1, <3>2, AppendAt
    <3>4. ScanComing'
      BY <2>3, <3>1, <3>3 DEF ScanComing
    <3> QED
      BY <1>6, <2>1, <2>3, <3>1, <3>4 DEF DiskOk
  <2>4. CASE /\ m.type = "deps" /\ UNCHANGED <<disk, rescans>>
             /\ fromPm' = Append(fromPm, Msg(m.type, [name |-> m.body,
                                                      missing |-> MissingOf(m.body)]))
    <3>1. m.body \in Package /\ MissingOf(m.body) \in SUBSET Package
      BY <1>2, <2>4, PmCalls, PackageRefreshAssumption DEF MissingOf
    <3>2. PICK absent \in SUBSET Package : absent = MissingOf(m.body)
      BY <3>1
    <3>3. PICK x \in PmReply : x = Msg(m.type, [name |-> m.body, missing |-> absent])
      BY <2>4, <3>1 DEF Msg, PmReply, Wire
    <3>4. x.type = m.type /\ x.body.name = m.body /\ x.body.missing = MissingOf(m.body)
      BY <3>2, <3>3 DEF Msg
    <3>5. fromPm' = Append(fromPm, x)
      BY <2>4, <3>2, <3>3
    <3>6. DiskOk'
      BY <1>1, <1>2, <2>1, <2>4, <3>4, <3>5, QueryAnswered
    <3> QED
      BY <1>6, <2>1, <3>4, <3>5, <3>6
  <2>5. CASE m.type = "install" /\ Announce /\ fromPm' = Append(fromPm, Msg(m.type, m.body))
    <3>1. PICK x \in PmReply : x = Msg(m.type, m.body) /\ x.type = m.type
      BY <1>2, <2>5, PmCalls DEF Msg, PmReply, Wire
    <3>2. DiskAsked'
      BY <1>3, <1>7, <2>5, Announced DEF DiskAsked
    <3> QED
      BY <1>6, <2>1, <2>5, <3>1, <3>2 DEF DiskOk
  <2> QED
    BY <1>1, <2>2, <2>3, <2>4, <2>5 DEF PmAnswer
<1> QED
  BY <1>4, <1>5, <1>7 DEF CInv

LEMMA PmChangesCatchesUp ==
    ASSUME IInv, CInv, NEW p \in User, NEW build \in Builds[p] \cup {None}, PmChanges(p, build)
    PROVE  CInv'
<1>1. UNCHANGED <<pmLoaded, toPm, fromPm, toDl, fromDl, retries, repos, served, packages, rows>>
  BY DEF PmChanges, wires, caches
<1>2. blind \subseteq blind' /\ (Up' => rescans' > 0)
  BY Announced DEF IInv, WorldOk, PmChanges
<1>3. \A q \in Package \ User : disk'[q] # None
  <2>1. \A q \in Package \ User : disk'[q] = disk[q]
    BY DEF IInv, WorldOk, Disk, PmChanges
  <2> QED
    BY <2>1 DEF CInv
<1>4. LocalRows(rows, packages)'
  BY <1>1 DEF CInv, LocalRows
<1>5. ASSUME Up' PROVE pmLoaded' /\ DiskOk' /\ CatalogOk'
  <2>1. pmLoaded /\ CatalogOk
    BY <1>2, <1>5 DEF CInv, Up
  <2>2. CatalogAsked => CatalogAsked'
    BY <1>1 DEF CatalogAsked
  <2>3. CatalogOk'
    BY <1>1, <2>1, <2>2, CatalogFrame
  <2> QED
    BY <1>1, <1>2, <1>5, <2>1, <2>3 DEF DiskOk, DiskAsked
<1> QED
  BY <1>3, <1>4, <1>5 DEF CInv

\* package_manager is away: nothing catches up.
LEMMA AwayCatchesUp ==
    ASSUME CInv, UNCHANGED <<disk, packages, rows>>, ~Up'
    PROVE  CInv'
  BY DEF CInv, LocalRows

LEMMA PmUnloadsCatchesUp == ASSUME CInv, PmUnloads PROVE CInv'
<1>1. UNCHANGED <<disk, packages, rows>> /\ "disk" \in blind'
  BY DEF PmUnloads, caches
<1> QED
  BY <1>1, AwayCatchesUp DEF Up

LEMMA PmLoadsCatchesUp == ASSUME CInv, PmLoads PROVE CInv'
<1>1. UNCHANGED <<disk, packages, rows, blind>> /\ ~Up
  BY DEF PmLoads, caches, CInv
<1> QED
  BY <1>1, AwayCatchesUp DEF Up

LEMMA PmSilentCatchesUp == ASSUME CInv, PmSilent PROVE CInv'
<1>1. UNCHANGED <<disk, packages, rows, blind>> /\ ~Up
  BY DEF PmSilent, world, caches, CInv
<1> QED
  BY <1>1, AwayCatchesUp DEF Up
-----------------------------------------------------------------------------
(* Catching up: package_downloader's step *)

\* A change of the catalog is announced before the answer.
LEMMA Replied ==
    ASSUME toDl \in Seq(DlCall), fromDl \in Seq(DlReply), toDl # <<>>, toDl' = Tail(toDl),
           NEW m, m = Head(toDl), NEW body, NEW changed \in BOOLEAN, Reply(m, body, changed),
           Msg(m.type, body) \in DlReply
    PROVE  /\ \A types : Has(toDl, types) <=> Has(toDl', types) \/ m.type \in types
           /\ \A types : Has(fromDl', types) <=> \/ Has(fromDl, types) \/ m.type \in types
                                                 \/ changed /\ "catalogChanged" \in types
           /\ \E q \in Seq(DlReply) :
                 (~changed => q = fromDl) /\ fromDl' = Append(q, Msg(m.type, body))
<1>1. PICK x \in DlReply : x = Msg(m.type, body) /\ x.type = m.type
  BY DEF Msg
<1>2. PICK c \in DlReply : c = Msg("catalogChanged", {}) /\ c.type = "catalogChanged"
  <2>1. Msg("catalogChanged", {}) \in DlReply
    BY DEF Msg, DlReply, Wire
  <2> QED
    BY <2>1 DEF Msg
<1>3. PICK q \in Seq(DlReply) : q = IF changed THEN Append(fromDl, c) ELSE fromDl
  BY Posted
<1>4. fromDl' = Append(q, x)
  <2>1. fromDl' = (fromDl \o (IF changed THEN <<c>> ELSE <<>>)) \o <<x>>
    BY <1>1, <1>2 DEF Reply
  <2>2. fromDl \o (IF changed THEN <<c>> ELSE <<>>) = q
    <3>1. fromDl \o <<c>> = Append(fromDl, c) /\ fromDl \o <<>> = fromDl
      BY JoinOne
    <3> QED
      BY <1>3, <3>1
  <2>3. q \o <<x>> = Append(q, x)
    BY JoinOne
  <2> QED
    BY <2>1, <2>2, <2>3
<1>5. \A types : Has(toDl, types) <=> Has(toDl', types) \/ m.type \in types
  BY HasTail
<1>6. Range(fromDl') = Range(q) \cup {x}
  BY <1>4, Posted
<1>7. Range(q) = IF changed THEN Range(fromDl) \cup {c} ELSE Range(fromDl)
  <2>1. Range(Append(fromDl, c)) = Range(fromDl) \cup {c}
    BY Posted
  <2> QED
    BY <1>3, <2>1
<1>8. \A types : Has(fromDl', types) <=> \/ Has(fromDl, types) \/ m.type \in types
                                         \/ changed /\ "catalogChanged" \in types
  BY <1>1, <1>2, <1>6, <1>7 DEF Has
<1>9. \E r \in Seq(DlReply) : (~changed => r = fromDl) /\ fromDl' = Append(r, Msg(m.type, body))
  BY <1>1, <1>3, <1>4
<1> QED
  BY <1>5, <1>8, <1>9

\* The catalog stays, and an answer that is none of it comes.
LEMMA OtherReply ==
    ASSUME toDl \in Seq(DlCall), fromDl \in Seq(DlReply), toDl # <<>>, toDl' = Tail(toDl),
           NEW m, m = Head(toDl), NEW body, Reply(m, body, FALSE), m.type # "getCatalog",
           Msg(m.type, body) \in DlReply, CatalogOk,
           UNCHANGED <<repos, served, toPm, fromPm, retries, rows>>
    PROVE  CatalogOk'
<1>1. /\ \A types : Has(toDl, types) <=> Has(toDl', types) \/ m.type \in types
      /\ \A types : Has(fromDl', types) <=> Has(fromDl, types) \/ m.type \in types
      /\ \E q \in Seq(DlReply) :
            q = fromDl /\ fromDl' = Append(q, Msg(m.type, body))
  <2>1. PICK no \in BOOLEAN : no = FALSE
    OBVIOUS
  <2>2. Reply(m, body, no)
    BY <2>1 DEF Reply
  <2> QED
    BY <2>1, <2>2, Replied
<1>2. Catalog' = Catalog
  BY DEF Catalog
<1>3. CatalogAsked => CatalogAsked'
  BY <1>1 DEF CatalogAsked
<1>4. ASSUME CatalogComing PROVE CatalogComing'
  <2>1. PICK i \in DOMAIN fromDl :
          /\ fromDl[i].type = "getCatalog" /\ fromDl[i].body.catalog = Catalog
          /\ \A j \in DOMAIN fromDl : j > i => fromDl[j].type # "getCatalog"
    BY <1>4 DEF CatalogComing
  <2>2. PICK x \in DlReply : x = Msg(m.type, body) /\ x.type # "getCatalog"
    BY DEF Msg
  <2>3. fromDl' = Append(fromDl, x)
    BY <1>1, <2>2
  <2>4. /\ DOMAIN fromDl = 1..Len(fromDl) /\ Len(fromDl) \in Nat
        /\ DOMAIN fromDl' = 1..Len(fromDl) + 1
        /\ \A n \in 1..Len(fromDl) : fromDl'[n] = fromDl[n]
        /\ fromDl'[Len(fromDl) + 1] = x
    BY <2>3, AppendAt
  <2>5. ASSUME NEW j \in DOMAIN fromDl', j > i PROVE fromDl'[j].type # "getCatalog"
    <3>1. j \in DOMAIN fromDl \/ j = Len(fromDl) + 1
      BY <2>4
    <3> QED
      BY <2>1, <2>2, <2>4, <2>5, <3>1
  <2>6. /\ i \in DOMAIN fromDl' /\ fromDl'[i].type = "getCatalog"
        /\ fromDl'[i].body.catalog = Catalog'
    BY <1>2, <2>1, <2>4
  <2> QED
    BY <2>5, <2>6 DEF CatalogComing
<1>5. ~Has(fromDl, {"getCatalog"}) /\ CatalogShown(rows, Catalog)
         => ~Has(fromDl', {"getCatalog"}) /\ CatalogShown(rows', Catalog')
  BY <1>1, <1>2
<1> QED
  BY <1>3, <1>4, <1>5 DEF CatalogOk

LEMMA DlAnswerCatchesUp == ASSUME IInv, CInv, DlAnswer PROVE CInv'
<1> USE Typed
<1>1. PICK m : m = Head(toDl)
  OBVIOUS
<1>2. /\ m \in DlCall /\ toDl # <<>> /\ toDl' = Tail(toDl)
      /\ UNCHANGED <<disk, pmLoaded, blind, toPm, fromPm, rescans, retries, packages, version, hash,
                     missing, batches, rows>>
  BY <1>1, Taken DEF DlAnswer, arming, caches
<1>3. LocalRows(rows, packages)' /\ \A p \in Package \ User : disk'[p] # None
  BY <1>2 DEF CInv, LocalRows
<1>4. ASSUME Up' PROVE pmLoaded' /\ DiskOk' /\ CatalogOk'
  <2>1. pmLoaded /\ DiskOk /\ CatalogOk
    BY <1>2, <1>4 DEF CInv, Up
  <2>2. DiskOk'
    BY <1>2, <2>1, NoPost, DiskKept
  <2>3. repos \in SUBSET Repo
    BY DEF IInv, DlOk
  <2>4. ASSUME NEW body, Reply(m, body, FALSE), m.type # "getCatalog", Msg(m.type, body) \in DlReply,
               UNCHANGED <<repos, served>>
        PROVE  CatalogOk'
    BY <1>1, <1>2, <2>1, <2>4, OtherReply
  <2>5. ASSUME NEW body, Reply(m, body, TRUE), Msg(m.type, body) \in DlReply
        PROVE  CatalogOk'
    <3>1. PICK yes \in BOOLEAN : yes = TRUE
      OBVIOUS
    <3>2. Reply(m, body, yes)
      BY <2>5, <3>1 DEF Reply
    <3>3. Has(fromDl', {"catalogChanged"})
      BY <1>1, <1>2, <2>5, <3>1, <3>2, Replied
    <3> QED
      BY <3>3 DEF CatalogOk, CatalogAsked
  <2>6. CASE m.type \in {"list", "seedList"} /\ Reply(m, repos, FALSE) /\ UNCHANGED <<repos, served>>
    <3>1. Msg(m.type, repos) \in DlReply
      BY <2>3, <2>6 DEF Msg, DlReply, Wire
    <3> QED
      BY <2>1, <2>2, <2>4, <2>6, <1>2, <3>1
  <2>7. CASE /\ m.type = "getCatalog" /\ UNCHANGED <<repos, served>>
             /\ Reply(m, [catalog |-> Catalog, found |-> m.body], FALSE)
    <3>1. PICK body : body = [catalog |-> Catalog, found |-> m.body]
      OBVIOUS
    <3>2. Catalog \in SUBSET Release /\ m.body \in Disk
      BY <1>2, <2>3, <2>7, CatalogIsReleases, DlCalls DEF IInv
    <3>3. PICK x \in DlReply : x = Msg(m.type, body)
      BY <2>7, <3>1, <3>2 DEF Msg, DlReply, Wire
    <3>4. PICK no \in BOOLEAN : no = FALSE
      OBVIOUS
    <3>5. Reply(m, body, no)
      BY <2>7, <3>1, <3>4 DEF Reply
    <3>6. fromDl' = Append(fromDl, x)
      BY <1>1, <1>2, <3>3, <3>4, <3>5, Replied
    <3>7. PICK i : i = Len(fromDl) + 1
      OBVIOUS
    <3>8. i \in DOMAIN fromDl' /\ fromDl'[i] = x /\ \A j \in DOMAIN fromDl' : ~(j > i)
      BY <3>6, <3>7, AppendAt
    <3>9. x.type = "getCatalog" /\ x.body.catalog = Catalog /\ Catalog' = Catalog
      BY <2>7, <3>1, <3>3 DEF Msg, Catalog
    <3>10. CatalogComing'
      BY <3>8, <3>9 DEF CatalogComing
    <3> QED
      BY <1>2, <2>1, <2>2, <3>10 DEF CatalogOk
  <2>8. CASE /\ m.type = "refreshCatalog" /\ Reply(m, {}, served' # served) /\ UNCHANGED repos
    <3>1. PICK body : body = {}
      OBVIOUS
    <3>2. Msg(m.type, body) \in DlReply
      BY <2>8, <3>1 DEF Msg, DlReply, Wire
    <3>3. CASE served' = served
      <4>1. Reply(m, body, FALSE)
        BY <2>8, <3>1, <3>3 DEF Reply
      <4> QED
        BY <1>2, <2>1, <2>2, <2>4, <2>8, <3>2, <3>3, <4>1
    <3>4. CASE served' # served
      <4>1. Reply(m, body, TRUE)
        BY <2>8, <3>1, <3>4 DEF Reply
      <4> QED
        BY <1>2, <2>1, <2>2, <2>5, <3>2, <4>1
    <3> QED
      BY <3>3, <3>4
  <2>9. CASE /\ m.type \in {"add", "seedAdd", "remove"} /\ UNCHANGED served
             /\ \/ Reply(m, TRUE, TRUE)
                \/ Reply(m, FALSE, FALSE) /\ UNCHANGED repos
    <3>1. Msg(m.type, TRUE) \in DlReply /\ Msg(m.type, FALSE) \in DlReply
      BY <2>9 DEF Msg, DlReply, Wire
    <3>2. CASE Reply(m, TRUE, TRUE)
      BY <1>2, <2>1, <2>2, <2>5, <3>1, <3>2
    <3>3. CASE Reply(m, FALSE, FALSE) /\ UNCHANGED repos
      <4>1. m.type # "getCatalog"
        BY <2>9
      <4> QED
        BY <1>2, <2>1, <2>2, <2>4, <2>9, <3>1, <3>3, <4>1
    <3> QED
      BY <2>9, <3>2, <3>3
  <2> QED
    BY <1>1, <2>6, <2>7, <2>8, <2>9 DEF DlAnswer
<1> QED
  BY <1>3, <1>4 DEF CInv
-----------------------------------------------------------------------------
(* Catching up: package_manager's answers *)

LEMMA QueriesCover ==
    ASSUME NEW found, NEW p \in Package, found[p] # None
    PROVE  \E j \in DOMAIN Queries(found) :
              Queries(found)[j].type = "deps" /\ Queries(found)[j].body = p
<1> DEFINE S == {x \in Package : found[x] # None}
           n == Cardinality(S)
           f == SetToSeq(S)
<1>1. IsFiniteSet(S)
  BY PackageRefreshAssumption, FS_Subset
<1>2. n \in Nat /\ \E g : ExistsBijection(1..n, S)
  BY <1>1, FS_CardinalityType
<1>3. \E g \in [1..n -> S] : IsInjective(g)
  BY <1>2 DEF ExistsBijection, Bijection, Injection, IsInjective
<1>4. f \in [1..n -> S] /\ IsInjective(f)
  BY <1>3 DEF SetToSeq
<1>5. p \in S
  OBVIOUS
<1>6. Queries(found) = [i \in DOMAIN f |-> Msg("deps", f[i])]
  BY DEF Queries
<1> HIDE DEF f
<1>7. Cardinality(1..n) = n
  <2>1. Cardinality(1..n) = IF 1 > n THEN 0 ELSE n - 1 + 1
    BY <1>2, FS_Interval
  <2> HIDE DEF n
  <2> QED
    BY <1>2, <2>1
<1>8. f \in Injection(1..n, S)
  BY <1>4 DEF Injection, IsInjective
<1>9. f \in Surjection(1..n, S)
  <2> HIDE DEF S
  <2> QED
    BY <1>1, <1>7, <1>8, FS_Injection
<1>10. PICK j \in 1..n : f[j] = p
  BY <1>5, <1>9 DEF Surjection
<1> HIDE DEF n, S
<1> QED
  BY <1>4, <1>6, <1>10 DEF Msg

LEMMA Versions == \A d \in Disk : \A p \in Package : d[p].version = 0 <=> d[p] = None
<1>1. ASSUME NEW d \in Disk, NEW p \in Package, d[p] # None PROVE d[p].version # 0
  <2>1. d[p] \in Builds[p]
    BY <1>1 DEF Disk
  <2>2. d[p] \in [version : Nat \ {0}, hash : STRING \ {NoHash}]
    BY <2>1, PackageRefreshAssumption
  <2> QED
    BY <2>2
<1> QED
  BY <1>1 DEF None

\* The cached maps of a disk say what is on it.
LEMMA CachedIsFound ==
    ASSUME NEW d \in Disk, NEW v, NEW h, v = [p \in Package |-> d[p].version],
           h = [p \in Package |-> d[p].hash], NEW p \in Package
    PROVE  CachedBuild(v, h, p) = d[p]
<1>1. d[p] \in Build /\ (d[p].version = 0 <=> d[p] = None)
  BY DiskMaps, Versions
<1>2. PICK b \in Build : b = d[p]
  BY <1>1
<1>3. b = [version |-> b.version, hash |-> b.hash]
  BY DEF Build
<1> QED
  BY <1>1, <1>2, <1>3 DEF CachedBuild

\* Rows with the same releases.
SameReleases(r, t) ==
    DOMAIN t = DOMAIN r /\ \A k \in DOMAIN r : t[k].build = r[k].build /\ t[k].needs = r[k].needs

LEMMA ReleasesStay ==
    ASSUME NEW r, NEW t, SameReleases(r, t)
    PROVE  /\ \A f : LocalRows(r, f) <=> LocalRows(t, f)
           /\ \A c : CatalogShown(r, c) => CatalogShown(t, c)
<1>1. \A f : LocalRows(r, f) <=> LocalRows(t, f)
  BY DEF SameReleases, LocalRows
<1>2. ASSUME NEW c, CatalogShown(r, c), NEW x \in c
      PROVE  t[KeyOf(x)].build = x.build /\ t[KeyOf(x)].needs = x.needs
  <2>1. KeyOf(x) \in DOMAIN r
    BY <1>2 DEF CatalogShown
  <2> QED
    BY <1>2, <2>1 DEF CatalogShown, SameReleases
<1>3. \A c : CatalogShown(r, c) => CatalogShown(t, c)
  BY <1>2 DEF CatalogShown, SameReleases
<1> QED
  BY <1>1, <1>3

LEMMA ShownElsewhere ==
    ASSUME NEW r, NEW t, \A k : RepoOf(k) # Local => (k \in DOMAIN t <=> k \in DOMAIN r),
           \A k \in DOMAIN t : RepoOf(k) # Local => t[k] = r[k], NEW c, CatalogShown(r, c)
    PROVE  CatalogShown(t, c)
<1>1. {k \in DOMAIN t : RepoOf(k) # Local} = {k \in DOMAIN r : RepoOf(k) # Local}
  OBVIOUS
<1>2. \A x \in c : t[KeyOf(x)] = r[KeyOf(x)]
  BY <1>1 DEF CatalogShown
<1> QED
  BY <1>1, <1>2 DEF CatalogShown

LEMMA ScannedSays ==
    ASSUME IInv, LocalRows(rows, packages), NEW found \in Disk, Scanned(found)
    PROVE  /\ LocalRows(rows', found)
           /\ \A c : CatalogShown(rows, c) => CatalogShown(rows', c)
           /\ \A k \in DOMAIN rows' : rows'[k].installed = found[NameOf(k)]
<1>1. RowsOk(rows) /\ found \in [Package -> Build]
  BY DiskMaps DEF IInv, RowsInv
<1>2. Apart(rows)
  BY DEF LocalRows, Apart
<1>3. PICK v \in [Package -> Nat], h \in [Package -> Hash] :
        /\ v = [p \in Package |-> found[p].version] /\ h = [p \in Package |-> found[p].hash]
        /\ v = version' /\ h = hash'
  <2>1. \A p \in Package : found[p].version \in Nat /\ found[p].hash \in Hash
    BY <1>1 DEF Build
  <2> QED
    BY <2>1 DEF Scanned
<1>4. PICK t : t = MergeLocalOnlyInstalled(rows, found, User)
  OBVIOUS
<1>5. RowsOk(t)
  BY <1>1, <1>4, MergeOk, PackageRefreshAssumption
<1>6. /\ LocalRows(t, found)
      /\ \A k : RepoOf(k) # Local => (k \in DOMAIN t <=> k \in DOMAIN rows)
      /\ \A k \in DOMAIN t : RepoOf(k) # Local => t[k] = rows[k]
  BY <1>1, <1>2, <1>4, MergeSays
<1>7. PICK keys : keys = DOMAIN t
  OBVIOUS
<1>8. PICK u : u = WithInstalled(t, keys, v, h)
  OBVIOUS
<1>9. RowsOk(u)
  BY <1>5, <1>8, WithInstalledOk
<1>10. /\ DOMAIN u = DOMAIN t
       /\ \A k \in DOMAIN t :
            /\ u[k].build = t[k].build /\ u[k].needs = t[k].needs
            /\ u[k].installed = IF k \in keys THEN CachedBuild(v, h, NameOf(k)) ELSE t[k].installed
  BY <1>5, <1>8, WithInstalledSays
<1>11. rows' = EndBulkInstalledUpdate(u)
  BY <1>3, <1>4, <1>7, <1>8 DEF Scanned, ReplaceInstalledSet
<1>12. SameFacts(u, rows')
  BY <1>9, <1>11, EndBulkSays
<1>13. SameReleases(t, rows')
  BY <1>10, <1>12 DEF SameFacts, SameReleases
<1>14. \A c : CatalogShown(rows, c) => CatalogShown(t, c)
  BY <1>6, ShownElsewhere
<1>15. ASSUME NEW k \in DOMAIN rows' PROVE rows'[k].installed = found[NameOf(k)]
  <2>1. k \in DOMAIN t /\ rows'[k].installed = u[k].installed
    BY <1>10, <1>12, <1>15 DEF SameFacts
  <2>2. PICK p \in Package : p = NameOf(k)
    BY <1>5, <2>1, KeyNames DEF RowsOk
  <2>3. CachedBuild(v, h, p) = found[p]
    BY <1>3, CachedIsFound
  <2> QED
    BY <1>7, <1>10, <2>1, <2>2, <2>3
<1> QED
  BY <1>6, <1>13, <1>14, <1>15, ReleasesStay
-----------------------------------------------------------------------------
(* Catching up: the steps that take package_manager's answers *)

\* What every case of TakePmAnswer leaves alone, and the answer it takes.
Answering(m) ==
    /\ IInv /\ CInv /\ m = Head(fromPm) /\ m \in PmReply
    /\ fromPm # <<>> /\ fromPm' = Tail(fromPm)
    /\ UNCHANGED <<disk, pmLoaded, repos, served, fromDl, rescans>>

\* The answer to the scan is taken, or it is still on the way.
LEMMA ScanTaken ==
    ASSUME fromPm \in Seq(PmReply), fromPm # <<>>, fromPm' = Tail(fromPm), UNCHANGED disk,
           ScanComing, NEW m, m = Head(fromPm)
    PROVE  \/ ScanComing'
           \/ /\ m.type = "scan" /\ m.body = disk
              /\ \A x \in Range(fromPm') : x.type \notin {"scan", "install"} /\ Right(x)
<1>1. PICK i \in DOMAIN fromPm :
        /\ fromPm[i].type = "scan" /\ fromPm[i].body = disk
        /\ \A j \in DOMAIN fromPm :
              j > i => fromPm[j].type \notin {"scan", "install"} /\ Right(fromPm[j])
  BY DEF ScanComing
<1>2. /\ DOMAIN fromPm = 1..Len(fromPm) /\ Len(fromPm) \in Nat \ {0}
      /\ DOMAIN fromPm' = 1..Len(fromPm) - 1
      /\ \A n \in 1..Len(fromPm) - 1 : fromPm'[n] = fromPm[n + 1]
      /\ m = fromPm[1]
  BY TailAt
<1>3. CASE i = 1
  <2>1. \A n \in DOMAIN fromPm' : fromPm'[n].type \notin {"scan", "install"} /\ Right(fromPm'[n])
    BY <1>1, <1>2, <1>3
  <2> QED
    BY <1>1, <1>2, <1>3, <2>1 DEF Range
<1>4. CASE i # 1
  <2>1. PICK k \in DOMAIN fromPm' : i = k + 1 /\ fromPm'[k] = fromPm[i]
    <3>1. PICK k : k = i - 1
      OBVIOUS
    <3>2. k \in 1..Len(fromPm) - 1 /\ i = k + 1
      BY <1>2, <1>4, <3>1
    <3>3. k \in DOMAIN fromPm' /\ fromPm'[k] = fromPm[k + 1]
      BY <1>2, <3>2
    <3> QED
      BY <3>2, <3>3
  <2>2. ASSUME NEW j \in DOMAIN fromPm', j > k
        PROVE  fromPm'[j].type \notin {"scan", "install"} /\ Right(fromPm'[j])
    BY <1>1, <1>2, <2>1, <2>2
  <2>3. \A j \in DOMAIN fromPm' :
           j > k => fromPm'[j].type \notin {"scan", "install"} /\ Right(fromPm[j])'
    BY <2>2 DEF Right, MissingOf, OnDisk
  <2>4. ScanComing'
    BY <1>1, <2>1, <2>3 DEF ScanComing
  <2> QED
    BY <2>4
<1> QED
  BY <1>3, <1>4

\* An answer that is not the UI scan's leaves what is asked for of the catalog.
LEMMA CatalogWaits ==
    ASSUME NEW m, Answering(m), Up, m.type # "uiScan",
           Range(toPm) \subseteq Range(toPm'), UNCHANGED <<toDl, retries>>,
           CatalogShown(rows, Catalog) => CatalogShown(rows', Catalog)
    PROVE  CatalogOk'
<1>1. CatalogOk
  BY DEF Answering, CInv
<1>2. fromPm \in Seq(PmReply)
  BY Typed DEF Answering
<1>3. \A types : Has(fromPm, types) <=> Has(fromPm', types) \/ m.type \in types
  BY <1>2, HasTail DEF Answering
<1>4. CatalogAsked => CatalogAsked'
  BY <1>3, HasMore DEF CatalogAsked, Answering
<1> QED
  BY <1>1, <1>4, CatalogFrame DEF Answering

LEMMA UiScannedCatchesUp ==
    ASSUME NEW m, Answering(m), m.type = "uiScan", NEW found \in Disk, UiScanned(found)
    PROVE  CInv'
<1>1. LocalRows(rows, packages)' /\ \A p \in Package \ User : disk'[p] # None
  BY DEF Answering, CInv, LocalRows, UiScanned
<1>2. toDl \in Seq(DlCall) /\ toPm \in Seq(PmCall) /\ Retries \in Int
  BY Typed, PackageRefreshAssumption DEF Answering
<1>3. blind \subseteq blind' /\ (Up' => Has(toDl', {"getCatalog"}) \/ retries' # <<>>)
  BY <1>2, TryFetchGoesOn DEF UiScanned
<1>4. ASSUME Up' PROVE pmLoaded' /\ DiskOk' /\ CatalogOk'
  <2>1. pmLoaded
    BY <1>3, <1>4 DEF Up, Answering, CInv
  <2>2. PICK x \in PmCall : x = Msg("scan", {}) /\ x.type = "scan"
    BY ScanIsACall DEF Msg
  <2>3. x \in Range(toPm')
    BY <1>2, <2>1, <2>2, Posted DEF UiScanned
  <2>4. DiskAsked'
    BY <2>2, <2>3 DEF DiskAsked, Has
  <2>5. CatalogAsked'
    BY <1>3, <1>4 DEF CatalogAsked
  <2> QED
    BY <2>1, <2>4, <2>5 DEF Answering, DiskOk, CatalogOk
<1> QED
  BY <1>1, <1>4 DEF CInv

LEMMA RowInstalledCatchesUp ==
    ASSUME NEW m, Answering(m), m.type = "install", NEW p \in User, NEW build \in Build,
           RowInstalled(p, build)
    PROVE  CInv'
<1>1. fromPm \in Seq(PmReply) /\ RowsOk(rows)
  BY Typed DEF Answering, IInv, RowsInv
<1>2. SameReleases(rows, rows')
  BY <1>1, MarkInstalledSays DEF RowInstalled, SameReleases
<1>3. LocalRows(rows, packages)' /\ \A q \in Package \ User : disk'[q] # None
  <2>1. LocalRows(rows, packages)
    BY DEF Answering, CInv
  <2>2. LocalRows(rows', packages)
    BY <1>2, <2>1, ReleasesStay
  <2> QED
    BY <2>2 DEF Answering, CInv, RowInstalled, LocalRows
<1>4. ASSUME Up' PROVE pmLoaded' /\ DiskOk' /\ CatalogOk'
  <2>1. Up /\ pmLoaded /\ DiskOk
    BY <1>4 DEF Up, RowInstalled, Answering, CInv
  <2>2. CatalogOk'
    BY <1>2, <2>1, ReleasesStay, CatalogWaits DEF RowInstalled
  <2>3. CASE DiskAsked
    <3>1. \A types : Has(fromPm, types) <=> Has(fromPm', types) \/ m.type \in types
      BY <1>1, HasTail DEF Answering
    <3>2. DiskAsked'
      BY <2>3, <3>1 DEF DiskAsked, Answering, RowInstalled
    <3> QED
      BY <2>1, <2>2, <3>2 DEF DiskOk, Answering
  <2>4. CASE ScanComing
    <3>1. ScanComing'
      BY <1>1, <2>4, ScanTaken DEF Answering
    <3> QED
      BY <2>1, <2>2, <3>1 DEF DiskOk, Answering
  <2>5. ~DiskShown
    BY <1>1, Taken DEF DiskShown, Answering
  <2> QED
    BY <2>1, <2>2, <2>3, <2>4, <2>5 DEF DiskOk, Answering
<1> QED
  BY <1>3, <1>4 DEF CInv

\* The scan of the disk as it is comes in after everything older.
LEMMA ScanShown ==
    ASSUME NEW m, Answering(m), NEW found \in Disk, Scanned(found), found = disk,
           \A x \in Range(fromPm') : x.type \notin {"scan", "install"} /\ Right(x)
    PROVE  DiskShown'
<1>1. toPm \in Seq(PmCall) /\ batches \in Seq(Batch)
  BY Typed DEF Answering, IInv, PmOk
<1>2. OnDisk' = OnDisk /\ \A p : MissingOf(p)' = MissingOf(p)
  BY MissingSame DEF Answering
<1>3. \A x \in Range(fromPm') : x.type \notin {"scan", "install"} /\ Right(x)'
  BY <1>2 DEF Right
<1>4. disk' = found /\ packages' = found /\ version' = [p \in Package |-> found[p].version]
                    /\ hash' = [p \in Package |-> found[p].hash]
  BY DEF Answering, Scanned
<1>5. \A k \in DOMAIN rows' : rows'[k].installed = found[NameOf(k)]
  BY ScannedSays DEF Answering, CInv
<1>6. ASSUME NEW p \in OnDisk PROVE batches' # <<>> /\ DepComing(p)'
  <2>1. PICK q \in Seq(PmCall), n \in Nat :
          q = Queries(found) /\ n = Len(q) /\ (q # <<>> => n \in Nat \ {0})
    BY QueriesAsk
  <2>2. PICK j \in DOMAIN q : q[j].type = "deps" /\ q[j].body = p
    <3>1. p \in Package /\ found[p] # None
      BY DEF OnDisk
    <3>2. \E j \in DOMAIN Queries(found) :
             Queries(found)[j].type = "deps" /\ Queries(found)[j].body = p
      BY <3>1, QueriesCover
    <3> QED
      BY <2>1, <3>2
  <2>3. q # <<>>
    BY <2>2
  <2>4. PICK b \in Batch : b = [left |-> n, missing |-> <<>>] /\ b.left = n
    <3>1. [left |-> n, missing |-> <<>>] \in Batch
      BY <2>1, <2>3, EmptyMap DEF Batch
    <3> QED
      BY <3>1
  <2>5. toPm' = toPm \o q /\ batches' = Append(batches, b)
    BY <2>1, <2>3, <2>4 DEF Scanned
  <2>6. batches' # <<>> /\ batches'[Len(batches')] = b /\ b.left = n
    <3>1. /\ Len(batches) \in Nat /\ DOMAIN batches' = 1..Len(batches) + 1
          /\ batches'[Len(batches) + 1] = b
      BY <1>1, <2>5, AppendAt
    <3>2. Len(batches') = Len(batches) + 1
      BY <1>1, <2>5
    <3> QED
      BY <1>1, <2>4, <2>5, <3>1, <3>2
  <2>7. PICK i : i = Len(toPm) + j
    OBVIOUS
  <2>8. i \in DOMAIN toPm' /\ toPm'[i] = q[j] /\ From(toPm', i, "deps") <= n
    <3>1. /\ Len(toPm) + j \in DOMAIN (toPm \o q) /\ (toPm \o q)[Len(toPm) + j] = q[j]
          /\ From(toPm \o q, Len(toPm) + j, "deps") <= Len(q)
      BY <1>1, FromEnd
    <3>2. i \in DOMAIN (toPm \o q) /\ (toPm \o q)[i] = q[j] /\ From(toPm \o q, i, "deps") <= n
      BY <2>1, <2>7, <3>1
    <3> QED
      BY <2>5, <3>2 DEF From
  <2>9. DepComing(p)'
    BY <2>2, <2>6, <2>8 DEF DepComing, LastBatch
  <2> QED
    BY <2>6, <2>9
<1>7. RowsShow(rows)'
  BY <1>2, <1>4, <1>5, <1>6 DEF RowsShow
<1>8. \A p \in OnDisk' : IF batches' = <<>> THEN p \in DOMAIN missing' /\ missing'[p] = MissingOf(p)'
                                            ELSE DepComing(p)'
  BY <1>2, <1>6
<1> QED
  BY <1>3, <1>4, <1>7, <1>8 DEF DiskShown

LEMMA ScannedCatchesUp ==
    ASSUME NEW m, Answering(m), m.type = "scan", NEW found \in Disk, found = m.body, Scanned(found)
    PROVE  CInv'
<1>1. fromPm \in Seq(PmReply) /\ toPm \in Seq(PmCall)
  BY Typed DEF Answering
<1>2. LocalRows(rows, packages)' /\ \A p \in Package \ User : disk'[p] # None
  <2>1. LocalRows(rows', found)
    BY ScannedSays DEF Answering, CInv
  <2> QED
    BY <2>1 DEF Answering, CInv, Scanned, LocalRows
<1>3. Range(toPm) \subseteq Range(toPm')
  <2>1. PICK q \in Seq(PmCall) : q = Queries(found)
    BY QueriesAsk
  <2>2. toPm' = toPm \/ toPm' = toPm \o q
    BY <2>1 DEF Scanned
  <2>3. Range(toPm \o q) = Range(toPm) \cup Range(q)
    BY <1>1, Joined
  <2> QED
    BY <2>2, <2>3
<1>4. ASSUME Up' PROVE pmLoaded' /\ DiskOk' /\ CatalogOk'
  <2>1. Up /\ pmLoaded /\ DiskOk
    BY <1>4 DEF Up, Scanned, Answering, CInv
  <2>2. CatalogOk'
    BY <1>3, <2>1, ScannedSays, CatalogWaits DEF Scanned, Answering, CInv
  <2>3. CASE DiskAsked
    <3>1. \A types : Has(fromPm, types) <=> Has(fromPm', types) \/ m.type \in types
      BY <1>1, HasTail DEF Answering
    <3>2. DiskAsked'
      BY <1>3, <2>3, <3>1, HasMore DEF DiskAsked, Answering
    <3> QED
      BY <2>1, <2>2, <3>2 DEF DiskOk, Answering
  <2>4. CASE ScanComing
    <3>1. \/ ScanComing'
          \/ /\ m.body = disk
             /\ \A x \in Range(fromPm') : x.type \notin {"scan", "install"} /\ Right(x)
      BY <1>1, <2>4, ScanTaken DEF Answering
    <3>2. DiskOk'
      BY <3>1, ScanShown DEF DiskOk
    <3> QED
      BY <2>1, <2>2, <3>2 DEF Answering
  <2>5. ~DiskShown
    BY <1>1, Taken DEF DiskShown, Answering
  <2> QED
    BY <2>1, <2>2, <2>3, <2>4, <2>5 DEF DiskOk, Answering
<1> QED
  BY <1>2, <1>4 DEF CInv
-----------------------------------------------------------------------------
(* Catching up: a dependency query is answered *)

\* What it makes of the batches: the oldest gets the answer, and may be done.
LEMMA AnswerTaken ==
    ASSUME NEW m, Answering(m), m.type = "deps", NEW p \in Package, NEW absent \in SUBSET Package,
           DependenciesAnswered(p, absent)
    PROVE  \E b \in Batch, all \in MissingMap :
              /\ batches # <<>> /\ b = batches[1]
              /\ p \in DOMAIN all /\ all[p] = absent
              /\ \A q \in DOMAIN b.missing : q \in DOMAIN all /\ (q # p => all[q] = b.missing[q])
              /\ \/ /\ b.left > 1
                    /\ batches' = [batches EXCEPT ![1] = [left |-> b.left - 1, missing |-> all]]
                    /\ UNCHANGED <<missing, rows>>
                 \/ /\ b.left = 1 /\ batches' = Tail(batches) /\ missing' = all
                    /\ rows' = SetMissingDeps(rows, FoundByRows(all))
<1>1. Count(toPm, "deps") \in Nat /\ Count(fromPm', "deps") \in Nat
      /\ Count(fromPm, "deps") = Count(fromPm', "deps") + 1
  BY Typed, PmTaken DEF Answering
<1>2. PICK n \in Nat \ {0} : n = Count(toPm, "deps") + Count(fromPm, "deps")
  BY <1>1
<1>3. batches \in Seq(Batch) /\ Expect(batches, n)
  BY <1>2 DEF Answering, IInv, PmOk
<1>4. batches # <<>>
  BY <1>3, ExpectSome
<1>5. PICK b \in Batch : b = batches[1]
  BY <1>3, <1>4
<1>6. PICK all \in MissingMap : all = [x \in DOMAIN b.missing \cup {p} |->
                                         IF x = p THEN absent ELSE b.missing[x]]
  <2>1. PICK map \in MissingMap : map = b.missing
    BY DEF Batch
  <2> QED
    BY <2>1, MapExtended
<1>7. /\ p \in DOMAIN all /\ all[p] = absent
      /\ \A q \in DOMAIN b.missing : q \in DOMAIN all /\ (q # p => all[q] = b.missing[q])
  BY <1>6
<1>8. \/ /\ b.left > 1
         /\ batches' = [batches EXCEPT ![1] = [left |-> b.left - 1, missing |-> all]]
         /\ UNCHANGED <<missing, rows>>
      \/ /\ b.left = 1 /\ batches' = Tail(batches) /\ missing' = all
         /\ rows' = SetMissingDeps(rows, FoundByRows(all))
  BY <1>5, <1>6 DEF DependenciesAnswered
<1> QED
  BY <1>4, <1>5, <1>7, <1>8

LEMMA AnswerKeepsReleases ==
    ASSUME NEW m, Answering(m), m.type = "deps", NEW p \in Package, NEW absent \in SUBSET Package,
           DependenciesAnswered(p, absent)
    PROVE  /\ SameReleases(rows, rows')
           /\ \A k \in DOMAIN rows : rows'[k].installed = rows[k].installed
<1> DEFINE Result(f) == UNCHANGED rows \/ rows' = SetMissingDeps(rows, f)
<1>0. PICK all \in MissingMap : Result(FoundByRows(all))
  BY AnswerTaken
<1>1. PICK f : f = FoundByRows(all) /\ Result(f)
  BY <1>0
<1>2. RowsOk(rows) /\ \A q \in DOMAIN f : q \notin Renamed /\ f[q] \in SUBSET Package
  BY <1>1, RowsFind DEF Answering, IInv, RowsInv
<1>3. CASE UNCHANGED rows
  BY <1>3 DEF SameReleases
<1>4. CASE rows' = SetMissingDeps(rows, f)
  BY <1>2, <1>4, SetMissingDepsSays DEF SameReleases
<1> QED
  BY <1>1, <1>3, <1>4

LEMMA LastBatchIsOne ==
    ASSUME batches \in Seq(Batch), batches # <<>>
    PROVE  Len(batches) \in Nat \ {0} /\ LastBatch.left \in Nat
<1>1. PICK n \in Nat \ {0} : n = Len(batches) /\ n \in DOMAIN batches
  OBVIOUS
<1>2. batches[n] \in Batch
  BY <1>1
<1> QED
  BY <1>1, <1>2 DEF LastBatch, Batch

\* The answers that are left to a batch are those under way if it is the only
\* one; the one that comes in is not its own if there are more.
LEMMA AnswersLeft ==
    ASSUME NEW m, Answering(m), m.type = "deps"
    PROVE  \E calls, answers \in Nat :
              /\ calls = Count(toPm, "deps") /\ answers = Count(fromPm', "deps")
              /\ Count(fromPm, "deps") = answers + 1
              /\ Len(batches) = 1 => LastBatch.left = calls + answers + 1
              /\ Len(batches) > 1 => LastBatch.left < calls + answers + 1
<1>1. PICK calls \in Nat, answers \in Nat :
        /\ calls = Count(toPm, "deps") /\ answers = Count(fromPm', "deps")
        /\ Count(fromPm, "deps") = answers + 1
  BY Typed, PmTaken DEF Answering
<1>2. PICK n \in Nat : n = calls + answers + 1 /\ n = Count(toPm, "deps") + Count(fromPm, "deps")
  BY <1>1
<1>3. batches \in Seq(Batch) /\ Expect(batches, n)
  BY <1>2 DEF Answering, IInv, PmOk
<1>4. /\ Len(batches) = 1 => n = LastBatch.left
      /\ Len(batches) > 1 => n > LastBatch.left
  BY <1>3, ExpectLast DEF LastBatch
<1>5. Len(batches) > 1 => LastBatch.left < n
  <2>1. ASSUME Len(batches) > 1 PROVE LastBatch.left \in Nat
    BY <1>3, <2>1, LastBatchIsOne
  <2> QED
    BY <1>2, <1>4, <2>1
<1> QED
  BY <1>1, <1>2, <1>4, <1>5

\* With more batches the last one is not touched.
LEMMA LastBatchStays ==
    ASSUME NEW m, Answering(m), m.type = "deps", NEW p \in Package, NEW absent \in SUBSET Package,
           DependenciesAnswered(p, absent), DiskShown, Len(batches) > 1
    PROVE  batches' # <<>> /\ \A q \in OnDisk : DepComing(q)'
<1>1. PICK calls \in Nat, answers \in Nat :
        /\ calls = Count(toPm, "deps") /\ answers = Count(fromPm', "deps")
        /\ Count(fromPm, "deps") = answers + 1
        /\ LastBatch.left < calls + answers + 1
  BY AnswersLeft
<1>2. batches \in Seq(Batch) /\ fromPm \in Seq(PmReply) /\ UNCHANGED toPm
  BY DEF Answering, IInv, PmOk, DependenciesAnswered
<1>3. PICK n \in Nat : n = Len(batches) /\ n > 1
  BY <1>2
<1>4. LastBatch' = LastBatch /\ batches' # <<>>
  <2>1. ASSUME NEW x, batches' = [batches EXCEPT ![1] = x]
        PROVE  LastBatch' = LastBatch /\ batches' # <<>>
    BY <1>2, <1>3, <2>1 DEF LastBatch
  <2>2. ASSUME batches' = Tail(batches) PROVE LastBatch' = LastBatch /\ batches' # <<>>
    <3>1. batches # <<>> /\ Len(batches') = n - 1
      BY <1>2, <1>3, <2>2
    <3>2. \A i \in 1..n - 1 : batches'[i] = batches[i + 1]
      BY <1>2, <1>3, <2>2, <3>1, TailAt
    <3>3. batches'[n - 1] = batches[n]
      <4>1. PICK i : i = n - 1
        OBVIOUS
      <4>2. i \in 1..n - 1 /\ n = i + 1
        BY <1>3, <4>1
      <4> QED
        BY <3>2, <4>1, <4>2
    <3>4. Len(batches') # 0
      BY <1>3, <3>1
    <3> QED
      BY <1>3, <3>1, <3>3, <3>4 DEF LastBatch
  <2> QED
    BY <2>1, <2>2, AnswerTaken
<1>5. ASSUME NEW q \in OnDisk PROVE DepComing(q)'
  <2>1. DepComing(q) /\ MissingOf(q)' = MissingOf(q)
    BY <1>3, <1>5, MissingSame DEF DiskShown, Answering
  <2>2. ASSUME NEW i \in DOMAIN fromPm, fromPm[i].type = "deps", fromPm[i].body.name = q,
               From(fromPm, i, "deps") + Count(toPm, "deps") <= LastBatch.left
        PROVE  DepComing(q)'
    <3>1. LastBatch.left \in Nat
      BY <1>2, <1>3, LastBatchIsOne
    <3>2. i # 1
      <4>1. i = 1 => From(fromPm, i, "deps") = answers + 1
        BY <1>1, <1>2, FromIsNat
      <4> QED
        BY <1>1, <2>2, <3>1, <4>1
    <3>3. PICK k : k = i - 1
      OBVIOUS
    <3>4. /\ k \in DOMAIN fromPm' /\ fromPm'[k] = fromPm[i]
          /\ From(fromPm', k, "deps") = From(fromPm, i, "deps")
      BY <1>2, <3>2, <3>3, FromTail DEF Answering
    <3> QED
      BY <1>2, <1>4, <2>2, <3>4 DEF DepComing
  <2> QED
    BY <1>2, <1>4, <2>1, <2>2 DEF DepComing
<1> QED
  BY <1>4, <1>5

\* What the only batch has been told or still will be.
LEMMA OnlyBatch ==
    ASSUME NEW m, Answering(m), m.type = "deps", NEW p \in Package, m.body.name = p,
           DiskShown, Len(batches) = 1, NEW q \in OnDisk
    PROVE  \/ q \in DOMAIN batches[1].missing /\ batches[1].missing[q] = MissingOf(q)
           \/ q = p
           \/ \E i \in DOMAIN toPm : toPm[i].type = "deps" /\ toPm[i].body = q
           \/ \E i \in DOMAIN fromPm' : fromPm'[i].type = "deps" /\ fromPm'[i].body.name = q
<1>1. DepComing(q) /\ LastBatch = batches[1]
  BY DEF DiskShown, LastBatch
<1>2. fromPm \in Seq(PmReply)
  BY Typed DEF Answering
<1>3. ASSUME NEW i \in DOMAIN fromPm, fromPm[i].type = "deps", fromPm[i].body.name = q, i # 1
      PROVE  \E k \in DOMAIN fromPm' : fromPm'[k].type = "deps" /\ fromPm'[k].body.name = q
  <2>1. i - 1 \in DOMAIN fromPm' /\ fromPm'[i - 1] = fromPm[i]
    BY <1>2, <1>3, FromTail DEF Answering
  <2> QED
    BY <1>3, <2>1
<1>4. fromPm[1] = m
  BY <1>2, TailAt DEF Answering
<1> QED
  BY <1>1, <1>3, <1>4 DEF DepComing

LEMMA OnlyBatchGoesOn ==
    ASSUME NEW m, Answering(m), m.type = "deps", NEW p \in Package, NEW absent \in SUBSET Package,
           m.body.name = p, absent = MissingOf(p), DependenciesAnswered(p, absent),
           DiskShown, Len(batches) = 1, batches[1].left > 1
    PROVE  batches' # <<>> /\ \A q \in OnDisk : DepComing(q)'
<1>1. PICK calls \in Nat, answers \in Nat :
        /\ calls = Count(toPm, "deps") /\ answers = Count(fromPm', "deps")
        /\ batches[1].left = calls + answers + 1
  BY AnswersLeft DEF LastBatch
<1>2. /\ batches \in Seq(Batch) /\ fromPm' \in Seq(PmReply) /\ toPm \in Seq(PmCall) /\ UNCHANGED toPm
  BY PmTaken DEF Answering, IInv, PmOk, DependenciesAnswered
<1>3. PICK all \in MissingMap :
        /\ p \in DOMAIN all /\ all[p] = absent
        /\ \A q \in DOMAIN batches[1].missing :
              q \in DOMAIN all /\ (q # p => all[q] = batches[1].missing[q])
        /\ batches' = [batches EXCEPT ![1] = [left |-> batches[1].left - 1, missing |-> all]]
  BY AnswerTaken
<1>4. PICK x : x = [left |-> calls + answers, missing |-> all]
  OBVIOUS
<1>5. batches' = [batches EXCEPT ![1] = x]
  <2>1. batches[1].left - 1 = calls + answers
    BY <1>1
  <2> QED
    BY <1>3, <1>4, <2>1
<1>6. batches' # <<>> /\ LastBatch' = x
  <2>1. Len(batches') = 1 /\ batches'[1] = x
    BY <1>2, <1>5
  <2>2. batches' # <<>>
    <3>1. 1 \in DOMAIN batches'
      BY <1>2, <1>5
    <3> QED
      BY <3>1
  <2>3. LastBatch' = x
    BY <2>1 DEF LastBatch
  <2> QED
    BY <2>2, <2>3
<1>7. ASSUME NEW q \in OnDisk PROVE DepComing(q)'
  <2>1. MissingOf(q)' = MissingOf(q)
    BY MissingSame DEF Answering
  <2>2. CASE \/ q \in DOMAIN batches[1].missing /\ batches[1].missing[q] = MissingOf(q)
             \/ q = p
    <3>1. q \in DOMAIN all /\ all[q] = MissingOf(q)
      BY <1>3, <2>2
    <3> QED
      BY <1>4, <1>6, <2>1, <3>1 DEF DepComing
  <2>3. ASSUME NEW i \in DOMAIN toPm, toPm[i].type = "deps", toPm[i].body = q
        PROVE  DepComing(q)'
    <3>1. From(toPm, i, "deps") \in Nat /\ From(toPm, i, "deps") <= calls
      BY <1>1, <1>2, FromIsNat
    <3>2. From(toPm, i, "deps") <= x.left
      BY <1>4, <3>1
    <3> QED
      BY <1>2, <1>6, <2>3, <3>2 DEF DepComing
  <2>4. ASSUME NEW i \in DOMAIN fromPm', fromPm'[i].type = "deps", fromPm'[i].body.name = q
        PROVE  DepComing(q)'
    <3>1. From(fromPm', i, "deps") \in Nat /\ From(fromPm', i, "deps") <= answers
      BY <1>1, <1>2, FromIsNat
    <3>2. From(fromPm', i, "deps") + Count(toPm', "deps") <= x.left
      BY <1>1, <1>2, <1>4, <3>1
    <3> QED
      BY <1>6, <2>4, <3>2 DEF DepComing
  <2> QED
    BY <2>2, <2>3, <2>4, OnlyBatch
<1> QED
  BY <1>6, <1>7

LEMMA OnlyBatchIsDone ==
    ASSUME NEW m, Answering(m), m.type = "deps", NEW p \in Package, NEW absent \in SUBSET Package,
           m.body.name = p, absent = MissingOf(p), DependenciesAnswered(p, absent),
           DiskShown, Len(batches) = 1, batches[1].left = 1
    PROVE  /\ batches' = <<>>
           /\ \A q \in OnDisk : q \in DOMAIN missing' /\ missing'[q] = MissingOf(q)
           /\ \A k \in DOMAIN rows' :
                 NameOf(k) \in OnDisk \ Renamed => rows'[k].missing = MissingOf(NameOf(k))
<1>1. Count(toPm, "deps") = 0 /\ Count(fromPm', "deps") = 0
  BY AnswersLeft DEF LastBatch
<1>2. batches \in Seq(Batch) /\ fromPm' \in Seq(PmReply) /\ toPm \in Seq(PmCall) /\ RowsOk(rows)
  BY PmTaken DEF Answering, IInv, PmOk, RowsInv
<1>3. PICK all \in MissingMap :
        /\ p \in DOMAIN all /\ all[p] = absent
        /\ \A q \in DOMAIN batches[1].missing :
              q \in DOMAIN all /\ (q # p => all[q] = batches[1].missing[q])
        /\ batches' = Tail(batches) /\ missing' = all
        /\ rows' = SetMissingDeps(rows, FoundByRows(all))
  <2>1. PICK b \in Batch, all \in MissingMap :
          /\ batches # <<>> /\ b = batches[1]
          /\ p \in DOMAIN all /\ all[p] = absent
          /\ \A q \in DOMAIN b.missing : q \in DOMAIN all /\ (q # p => all[q] = b.missing[q])
          /\ \/ /\ b.left > 1
                /\ batches' = [batches EXCEPT ![1] = [left |-> b.left - 1, missing |-> all]]
                /\ UNCHANGED <<missing, rows>>
             \/ /\ b.left = 1 /\ batches' = Tail(batches) /\ missing' = all
                /\ rows' = SetMissingDeps(rows, FoundByRows(all))
    BY AnswerTaken
  <2>2. ~(b.left > 1)
    BY <2>1
  <2> QED
    BY <2>1, <2>2
<1>4. batches' = <<>>
  BY <1>2, <1>3
<1>5. /\ \A i \in DOMAIN toPm : toPm[i].type # "deps"
      /\ \A i \in DOMAIN fromPm' : fromPm'[i].type # "deps"
  BY <1>1, <1>2, CountIsNat
<1>6. ASSUME NEW q \in OnDisk PROVE q \in DOMAIN all /\ all[q] = MissingOf(q)
  <2>1. \/ q \in DOMAIN batches[1].missing /\ batches[1].missing[q] = MissingOf(q)
        \/ q = p
    BY <1>5, OnlyBatch
  <2> QED
    BY <1>3, <2>1
<1>7. PICK f : f = FoundByRows(all)
  OBVIOUS
<1>8. /\ DOMAIN rows' = DOMAIN rows
      /\ \A k \in DOMAIN rows : rows'[k].missing = IF NameOf(k) \in DOMAIN f
                                                     THEN f[NameOf(k)] ELSE rows[k].missing
  <2>1. \A q \in DOMAIN f : q \notin Renamed /\ f[q] \in SUBSET Package
    BY <1>7, RowsFind
  <2> QED
    BY <1>2, <1>3, <1>7, <2>1, SetMissingDepsSays
<1>9. \A q \in OnDisk \ Renamed : q \in DOMAIN f /\ f[q] = MissingOf(q)
  BY <1>6, <1>7, RowsFind
<1> QED
  BY <1>3, <1>4, <1>6, <1>8, <1>9

LEMMA AnswerShown ==
    ASSUME NEW m, Answering(m), m.type = "deps", NEW p \in Package, NEW absent \in SUBSET Package,
           m.body.name = p, m.body.missing = absent, DependenciesAnswered(p, absent), DiskShown
    PROVE  DiskShown'
<1>1. fromPm \in Seq(PmReply) /\ batches \in Seq(Batch) /\ batches # <<>>
  BY Typed, AnswerTaken DEF Answering, IInv, PmOk
<1>2. Range(fromPm) = Range(fromPm') \cup {m}
  BY <1>1, Taken DEF Answering
<1>3. absent = MissingOf(p)
  BY <1>2 DEF DiskShown, Right
<1>4. OnDisk' = OnDisk /\ \A q : MissingOf(q)' = MissingOf(q)
  BY MissingSame DEF Answering
<1>5. \A x \in Range(fromPm') : x.type \notin {"scan", "install"} /\ Right(x)'
  BY <1>2, <1>4 DEF DiskShown, Right
<1>6. \A k \in DOMAIN rows' : rows'[k].installed = disk[NameOf(k)]
  BY AnswerKeepsReleases DEF SameReleases, DiskShown, RowsShow
<1>7. /\ \A q \in OnDisk : IF batches' = <<>> THEN q \in DOMAIN missing' /\ missing'[q] = MissingOf(q)
                                              ELSE DepComing(q)'
      /\ batches' = <<>> => \A k \in DOMAIN rows' :
            NameOf(k) \in OnDisk \ Renamed => rows'[k].missing = MissingOf(NameOf(k))
  <2>1. CASE Len(batches) > 1
    BY <2>1, LastBatchStays
  <2>2. CASE Len(batches) = 1
    <3>1. batches[1].left > 1 \/ batches[1].left = 1
      BY AnswerTaken
    <3>2. CASE batches[1].left > 1
      BY <1>3, <2>2, <3>2, OnlyBatchGoesOn
    <3>3. CASE batches[1].left = 1
      BY <1>3, <2>2, <3>3, OnlyBatchIsDone
    <3> QED
      BY <3>1, <3>2, <3>3
  <2>3. Len(batches) > 1 \/ Len(batches) = 1
    <3>1. PICK n \in Nat \ {0} : n = Len(batches)
      BY <1>1, LastBatchIsOne
    <3>2. n > 1 \/ n = 1
      OBVIOUS
    <3> QED
      BY <3>1, <3>2
  <2> QED
    BY <2>1, <2>2, <2>3
<1>8. RowsShow(rows)'
  BY <1>4, <1>6, <1>7 DEF RowsShow, Answering
<1>9. UNCHANGED <<disk, packages, version, hash>>
  BY DEF Answering, DependenciesAnswered
<1> QED
  BY <1>4, <1>5, <1>7, <1>8, <1>9 DEF DiskShown

LEMMA DependenciesAnsweredCatchesUp ==
    ASSUME NEW m, Answering(m), m.type = "deps", NEW p \in Package, NEW absent \in SUBSET Package,
           m.body.name = p, m.body.missing = absent, DependenciesAnswered(p, absent)
    PROVE  CInv'
<1>1. fromPm \in Seq(PmReply)
  BY Typed DEF Answering
<1>2. SameReleases(rows, rows')
  BY AnswerKeepsReleases
<1>3. LocalRows(rows, packages)' /\ \A q \in Package \ User : disk'[q] # None
  <2>1. LocalRows(rows', packages)
    BY <1>2, ReleasesStay DEF Answering, CInv
  <2> QED
    BY <2>1 DEF Answering, CInv, DependenciesAnswered, LocalRows
<1>4. ASSUME Up' PROVE pmLoaded' /\ DiskOk' /\ CatalogOk'
  <2>1. Up /\ pmLoaded /\ DiskOk
    BY <1>4 DEF Up, DependenciesAnswered, Answering, CInv
  <2>2. CatalogOk'
    BY <1>2, <2>1, ReleasesStay, CatalogWaits DEF DependenciesAnswered
  <2>3. DiskAsked => DiskAsked'
    <3>1. \A types : Has(fromPm, types) <=> Has(fromPm', types) \/ m.type \in types
      BY <1>1, HasTail DEF Answering
    <3> QED
      BY <3>1 DEF DiskAsked, Answering, DependenciesAnswered
  <2>4. ScanComing => ScanComing'
    BY <1>1, ScanTaken DEF Answering
  <2>5. DiskShown => DiskShown'
    BY AnswerShown
  <2> QED
    BY <2>1, <2>2, <2>3, <2>4, <2>5 DEF DiskOk, Answering
<1> QED
  BY <1>3, <1>4 DEF CInv

LEMMA TakePmAnswerCatchesUp == ASSUME IInv, CInv, TakePmAnswer PROVE CInv'
<1>1. PICK m : m = Head(fromPm)
  OBVIOUS
<1>2. Answering(m)
  <2>1. fromPm # <<>> /\ m \in PmReply
    BY <1>1, Taken, Typed DEF TakePmAnswer
  <2> QED
    BY <1>1, <2>1 DEF Answering, TakePmAnswer
<1>3. m \in PmReply
  BY <1>2 DEF Answering
<1>4. CASE m.type = "uiScan" /\ UiScanned(m.body)
  BY <1>2, <1>3, <1>4, PmReplies, UiScannedCatchesUp
<1>5. CASE m.type = "scan" /\ Scanned(m.body)
  BY <1>2, <1>3, <1>5, PmReplies, ScannedCatchesUp
<1>6. CASE m.type = "deps" /\ DependenciesAnswered(m.body.name, m.body.missing)
  BY <1>2, <1>3, <1>6, PmReplies, DependenciesAnsweredCatchesUp
<1>7. CASE m.type = "install" /\ RowInstalled(m.body.name, m.body.build)
  BY <1>2, <1>3, <1>7, PmReplies, RowInstalledCatchesUp
<1> QED
  BY <1>1, <1>4, <1>5, <1>6, <1>7 DEF TakePmAnswer
-----------------------------------------------------------------------------
(* Catching up: package_downloader's answers *)

LEMMA OfferedOnce == WorldOk /\ repos \in SUBSET Repo => OneForAKey(Catalog)
<1> SUFFICES ASSUME WorldOk, repos \in SUBSET Repo, NEW x \in Catalog, NEW y \in Catalog,
                    KeyOf(x) = KeyOf(y)
             PROVE  x = y
  BY DEF OneForAKey
<1>1. PICK r \in repos : x \in served[r]
  BY DEF Catalog
<1>2. PICK t \in repos : y \in served[t]
  BY DEF Catalog
<1>3. r \in Repo /\ t \in Repo /\ served[r] \in Offers[r] /\ served[t] \in Offers[t]
  BY DEF WorldOk
<1>4. /\ x \in [repo : {r}, name : Package, build : Builds[x.name], needs : SUBSET Package]
      /\ y \in [repo : {t}, name : Package, build : Builds[y.name], needs : SUBSET Package]
  BY <1>1, <1>2, <1>3, PackageRefreshAssumption
<1>5. x.repo = r /\ y.repo = t
  BY <1>4
<1>6. r = t /\ x.name = y.name
  BY <1>5 DEF KeyOf
<1> QED
  BY <1>1, <1>2, <1>3, <1>6, PackageRefreshAssumption

\* With something embedded the version cache of a disk that was shown is not
\* empty.
LEMMA CacheIsKnown ==
    ASSUME SomethingEmbedded, CInv, DiskShown, disk \in Disk
    PROVE  \E p \in Package : version[p] # 0
<1>1. PICK p \in Package : p \notin User
  BY PackageRefreshAssumption DEF SomethingEmbedded
<1>2. disk[p] # None
  BY <1>1 DEF CInv
<1> QED
  BY <1>2, Versions DEF DiskShown

LEMMA PopulatedSays ==
    ASSUME SomethingEmbedded, IInv, CInv, NEW catalog \in SUBSET Release, NEW found \in Disk,
           PopulateAppsModel(catalog, found)
    PROVE  /\ LocalRows(rows', packages)
           /\ OneForAKey(catalog) => CatalogShown(rows', catalog)
           /\ DiskShown => RowsShow(rows')
<1>1. /\ RowsOk(rows) /\ packages \in [Package -> Build] /\ disk \in Disk
      /\ \A p \in Package : found[p].version \in Nat
      /\ version \in [Package -> Nat] /\ hash \in [Package -> Hash]
      /\ missing \in MissingMap
  <2>1. found \in [Package -> Build]
    BY DiskMaps
  <2>2. \A p \in Package : found[p].version \in Nat
    BY <2>1 DEF Build
  <2> QED
    BY <2>2, DiskMaps DEF IInv, RowsInv, WorldOk
<1>2. PICK known \in [Package -> Nat] :
        known = IF \A p \in Package : version[p] = 0
                  THEN [p \in Package |-> IF p \in Renamed THEN 0 ELSE found[p].version]
                  ELSE version
  BY <1>1
<1>3. PICK offered : offered = ReplaceCatalog(rows, catalog)
  OBVIOUS
<1>4. /\ RowsOk(offered) /\ Apart(offered)
      /\ OneForAKey(catalog) => CatalogShown(offered, catalog)
      /\ \A k \in DOMAIN offered :
            offered[k].installed = IF k \in DOMAIN rows THEN rows[k].installed ELSE None
  BY <1>1, <1>3, ReplaceCatalogOk, ReplaceCatalogSays
<1>5. PICK merged : merged = MergeLocalOnlyInstalled(offered, packages, User)
  OBVIOUS
<1>6. /\ RowsOk(merged) /\ LocalRows(merged, packages)
      /\ \A k : RepoOf(k) # Local => (k \in DOMAIN merged <=> k \in DOMAIN offered)
      /\ \A k \in DOMAIN merged : RepoOf(k) # Local => merged[k] = offered[k]
      /\ \A k \in DOMAIN merged : \/ k \in DOMAIN offered /\ merged[k] = offered[k]
                                  \/ merged[k].installed = packages[NameOf(k)]
  BY <1>1, <1>4, <1>5, MergeOk, MergeSays, PackageRefreshAssumption
<1>7. OneForAKey(catalog) => CatalogShown(merged, catalog)
  BY <1>4, <1>6, ShownElsewhere
<1>8. PICK keys : keys = {k \in DOMAIN merged : known[NameOf(k)] # 0}
  OBVIOUS
<1>9. PICK marked : marked = WithInstalled(merged, keys, known, hash)
  OBVIOUS
<1>10. /\ RowsOk(marked) /\ DOMAIN marked = DOMAIN merged
       /\ \A k \in DOMAIN merged :
             /\ marked[k].build = merged[k].build /\ marked[k].needs = merged[k].needs
             /\ marked[k].installed = IF k \in keys THEN CachedBuild(known, hash, NameOf(k))
                                                    ELSE merged[k].installed
  BY <1>1, <1>6, <1>9, WithInstalledOk, WithInstalledSays
<1>11. PICK f, last : f = FoundByRows(missing) /\ last = SetMissingDeps(marked, f)
  OBVIOUS
<1>12. /\ RowsOk(last) /\ DOMAIN last = DOMAIN marked
       /\ \A k \in DOMAIN marked :
             /\ last[k].build = marked[k].build /\ last[k].needs = marked[k].needs
             /\ last[k].installed = marked[k].installed
             /\ last[k].missing = IF NameOf(k) \in DOMAIN f THEN f[NameOf(k)]
                                                            ELSE marked[k].missing
  <2>1. \A q \in DOMAIN f : q \notin Renamed /\ f[q] \in SUBSET Package
    BY <1>1, <1>11, RowsFind
  <2> QED
    BY <1>10, <1>11, <2>1, SetMissingDepsFresh, SetMissingDepsSays
<1>13. SameFacts(last, rows')
  <2>1. rows' = EndBulkInstalledUpdate(last)
    BY <1>2, <1>3, <1>5, <1>8, <1>9, <1>11 DEF PopulateAppsModel, MarkAllInstalled
  <2> QED
    BY <1>12, <2>1, EndBulkSays
<1>14. SameReleases(merged, rows')
  BY <1>10, <1>12, <1>13 DEF SameFacts, SameReleases
<1>15. ASSUME DiskShown, NEW k \in DOMAIN rows' PROVE rows'[k].installed = disk[NameOf(k)]
  <2>1. PICK p \in Package : p = NameOf(k)
    BY <1>6, <1>14, <1>15, KeyNames DEF SameReleases, RowsOk
  <2>2. known = version
    BY <1>1, <1>2, <1>15, CacheIsKnown
  <2>3. k \in DOMAIN merged /\ rows'[k].installed = marked[k].installed
    BY <1>10, <1>12, <1>13, <1>15 DEF SameFacts
  <2>4. CASE version[p] # 0
    <3>1. CachedBuild(version, hash, p) = disk[p]
      BY <1>1, <1>15, CachedIsFound DEF DiskShown
    <3> QED
      BY <1>8, <1>10, <2>1, <2>2, <2>3, <2>4, <3>1
  <2>5. CASE version[p] = 0
    <3>1. disk[p] = None
      BY <1>1, <1>15, <2>5, Versions DEF DiskShown
    <3>2. rows'[k].installed = merged[k].installed
      BY <1>8, <1>10, <2>1, <2>2, <2>3, <2>5
    <3>3. merged[k].installed \in {packages[p], None} \/ merged[k].installed = rows[k].installed
      BY <1>4, <1>6, <2>1, <2>3
    <3>4. k \in DOMAIN rows => rows[k].installed = disk[p]
      BY <1>15, <2>1 DEF DiskShown, RowsShow
    <3>5. merged[k].installed = None
      BY <1>4, <1>6, <1>15, <2>1, <2>3, <3>1, <3>4 DEF DiskShown
    <3> QED
      BY <2>1, <3>1, <3>2, <3>5
  <2> QED
    BY <2>4, <2>5
<1>16. ASSUME DiskShown, batches = <<>>, NEW k \in DOMAIN rows', NameOf(k) \in OnDisk \ Renamed
       PROVE  rows'[k].missing = MissingOf(NameOf(k))
  <2>1. NameOf(k) \in DOMAIN f /\ f[NameOf(k)] = MissingOf(NameOf(k))
    BY <1>1, <1>11, <1>16, RowsFind DEF DiskShown
  <2> QED
    BY <1>12, <1>13, <1>16, <2>1 DEF SameFacts
<1> QED
  BY <1>6, <1>7, <1>14, <1>15, <1>16, ReleasesStay DEF RowsShow

\* The latest catalog is taken, or it is still on the way.
LEMMA CatalogTaken ==
    ASSUME fromDl \in Seq(DlReply), fromDl # <<>>, fromDl' = Tail(fromDl),
           UNCHANGED <<repos, served>>, CatalogComing, NEW m, m = Head(fromDl)
    PROVE  \/ CatalogComing'
           \/ /\ m.type = "getCatalog" /\ m.body.catalog = Catalog
              /\ ~Has(fromDl', {"getCatalog"})
<1>1. PICK i \in DOMAIN fromDl :
        /\ fromDl[i].type = "getCatalog" /\ fromDl[i].body.catalog = Catalog
        /\ \A j \in DOMAIN fromDl : j > i => fromDl[j].type # "getCatalog"
  BY DEF CatalogComing
<1>2. /\ DOMAIN fromDl = 1..Len(fromDl) /\ Len(fromDl) \in Nat \ {0}
      /\ DOMAIN fromDl' = 1..Len(fromDl) - 1
      /\ \A n \in 1..Len(fromDl) - 1 : fromDl'[n] = fromDl[n + 1]
      /\ m = fromDl[1]
  BY TailAt
<1>3. CASE i = 1
  <2>1. \A n \in DOMAIN fromDl' : fromDl'[n].type # "getCatalog"
    BY <1>1, <1>2, <1>3
  <2> QED
    BY <1>1, <1>2, <1>3, <2>1 DEF Range, Has
<1>4. CASE i # 1
  <2>1. PICK k \in DOMAIN fromDl' : i = k + 1 /\ fromDl'[k] = fromDl[i]
    <3>1. PICK k : k = i - 1
      OBVIOUS
    <3>2. k \in 1..Len(fromDl) - 1 /\ i = k + 1
      BY <1>2, <1>4, <3>1
    <3>3. k \in DOMAIN fromDl' /\ fromDl'[k] = fromDl[k + 1]
      BY <1>2, <3>2
    <3> QED
      BY <3>2, <3>3
  <2>2. ASSUME NEW j \in DOMAIN fromDl', j > k PROVE fromDl'[j].type # "getCatalog"
    BY <1>1, <1>2, <2>1, <2>2
  <2>3. Catalog' = Catalog
    BY DEF Catalog
  <2>4. CatalogComing'
    BY <1>1, <2>1, <2>2, <2>3 DEF CatalogComing
  <2> QED
    BY <2>4
<1> QED
  BY <1>3, <1>4

LEMMA PopulateCatchesUp ==
    ASSUME SomethingEmbedded, CInv, NEW m, Taking(m), m.type = "getCatalog",
           NEW catalog \in SUBSET Release, catalog = m.body.catalog, NEW found \in Disk,
           PopulateAppsModel(catalog, found)
    PROVE  CInv'
<1>1. IInv /\ fromDl \in Seq(DlReply) /\ fromDl # <<>> /\ fromDl' = Tail(fromDl) /\ m = Head(fromDl)
      /\ toPm \in Seq(PmCall)
  BY Typed DEF Taking
<1>2. UNCHANGED <<disk, pmLoaded, blind, repos, served, fromPm, toPm, toDl, rescans, retries,
                  packages, version, hash, missing, batches>>
  BY DEF Taking, PopulateAppsModel, world, arming, caches
<1>3. /\ LocalRows(rows', packages)
      /\ OneForAKey(catalog) => CatalogShown(rows', catalog)
      /\ DiskShown => RowsShow(rows')
  BY <1>1, PopulatedSays
<1>4. LocalRows(rows, packages)' /\ \A p \in Package \ User : disk'[p] # None
  BY <1>2, <1>3 DEF CInv, LocalRows
<1>5. ASSUME Up' PROVE pmLoaded' /\ DiskOk' /\ CatalogOk'
  <2>1. pmLoaded /\ DiskOk /\ CatalogOk
    BY <1>2, <1>5 DEF CInv, Up
  <2>2. DiskShown => RowsShow(rows)'
    BY <1>2, <1>3, MissingSame DEF RowsShow
  <2>3. DiskOk'
    BY <1>1, <1>2, <2>1, <2>2, NoPost, DiskFrame
  <2>4. ASSUME CatalogAsked PROVE CatalogOk'
    <3>1. \A types : Has(fromDl, types) <=> Has(fromDl', types) \/ m.type \in types
      BY <1>1, HasTail
    <3>2. CatalogAsked'
      BY <1>2, <2>4, <3>1 DEF CatalogAsked
    <3> QED
      BY <3>2 DEF CatalogOk
  <2>5. ASSUME CatalogComing PROVE CatalogOk'
    <3>1. CatalogComing' \/ (catalog = Catalog /\ ~Has(fromDl', {"getCatalog"}))
      BY <1>1, <1>2, <2>5, CatalogTaken
    <3>2. OneForAKey(Catalog) /\ Catalog' = Catalog
      BY <1>1, <1>2, OfferedOnce DEF IInv, DlOk, Catalog
    <3> QED
      BY <1>3, <3>1, <3>2 DEF CatalogOk
  <2>6. Has(fromDl, {"getCatalog"})
    BY <1>1, Taken DEF Has
  <2>7. CatalogOk'
    BY <2>1, <2>4, <2>5, <2>6 DEF CatalogOk
  <2> QED
    BY <1>2, <2>1, <2>3, <2>7
<1> QED
  BY <1>4, <1>5 DEF CInv

\* An answer about the repositories: at most more is asked.
LEMMA RepositoriesCatchUpToo ==
    ASSUME CInv, NEW m, Taking(m), m.type \notin {"getCatalog", "catalogChanged"},
           UNCHANGED <<toPm, rows>>, Range(toDl) \subseteq Range(toDl')
    PROVE  CInv'
<1>1. IInv /\ fromDl \in Seq(DlReply) /\ fromDl # <<>> /\ fromDl' = Tail(fromDl) /\ m = Head(fromDl)
      /\ toPm \in Seq(PmCall)
  BY Typed DEF Taking
<1>2. UNCHANGED <<disk, pmLoaded, blind, repos, served, fromPm, rescans, retries,
                  packages, version, hash, missing, batches>>
  BY DEF Taking, world, arming, caches
<1>3. LocalRows(rows, packages)' /\ \A p \in Package \ User : disk'[p] # None
  BY <1>2 DEF CInv, LocalRows
<1>4. ASSUME Up' PROVE pmLoaded' /\ DiskOk' /\ CatalogOk'
  <2>1. pmLoaded /\ DiskOk /\ CatalogOk
    BY <1>2, <1>4 DEF CInv, Up
  <2>2. DiskOk'
    BY <1>1, <1>2, <2>1, NoPost, DiskKept
  <2>3. \A types : Has(fromDl, types) <=> Has(fromDl', types) \/ m.type \in types
    BY <1>1, HasTail
  <2>4. CatalogAsked => CatalogAsked'
    BY <1>2, <2>3, HasMore DEF CatalogAsked
  <2>5. CatalogComing => CatalogComing'
    BY <1>1, <1>2, CatalogTaken
  <2>6. Catalog' = Catalog
    BY <1>2 DEF Catalog
  <2>7. CatalogOk'
    BY <2>1, <2>3, <2>4, <2>5, <2>6 DEF CatalogOk
  <2> QED
    BY <1>2, <2>1, <2>2, <2>7
<1> QED
  BY <1>3, <1>4 DEF CInv

LEMMA MoreAsked ==
    ASSUME NEW m, Taking(m),
           \/ m.type = "list" /\ Listed(m.body)
           \/ m.type = "seedList" /\ SeedListed(m.body)
           \/ m.type = "seedAdd" /\ SeedAdded(m.body)
           \/ m.type \in {"add", "remove"} /\ RepositoryChanged(m.body)
    PROVE  UNCHANGED <<toPm, rows>> /\ Range(toDl) \subseteq Range(toDl')
<1>1. toDl \in Seq(DlCall)
  BY Typed DEF Taking
<1>2. PICK s \in DlCall : s = Msg("seedAdd", Maintained)
  BY PackageRefreshAssumption DEF Msg, DlCall, Wire
<1>3. PICK x \in DlCall, y \in DlCall : x = Msg("list", {}) /\ y = Msg("refreshCatalog", {})
  BY ListIsACall
<1>4. \/ toDl' = toDl \/ toDl' = Append(toDl, s)
      \/ toDl' = toDl \o <<x, y>> \/ toDl' = toDl \o <<x>> \/ toDl' = toDl \o <<>>
  BY <1>2, <1>3 DEF Listed, SeedListed, SeedAdded, RepositoryChanged, ListCalls
<1>5. <<x, y>> \in Seq(DlCall) /\ <<x>> \in Seq(DlCall) /\ <<>> \in Seq(DlCall)
  OBVIOUS
<1>6. \A q \in Seq(DlCall) : Range(toDl) \subseteq Range(toDl \o q)
  BY <1>1, Joined
<1>7. Range(toDl) \subseteq Range(Append(toDl, s))
  BY <1>1, Posted
<1>8. Range(toDl) \subseteq Range(toDl')
  BY <1>4, <1>5, <1>6, <1>7
<1> QED
  BY <1>8 DEF Listed, SeedListed, SeedAdded, RepositoryChanged

LEMMA RefreshedCatchesUp ==
    ASSUME CInv, NEW m, Taking(m), Fetch, UNCHANGED rows
    PROVE  CInv'
<1>1. /\ toPm \in Seq(PmCall)
      /\ UNCHANGED <<disk, pmLoaded, blind, packages>>
  BY Typed DEF Taking, world, caches
<1>2. LocalRows(rows, packages)' /\ \A p \in Package \ User : disk'[p] # None
  BY <1>1 DEF CInv, LocalRows
<1>3. ASSUME Up' PROVE pmLoaded' /\ DiskOk' /\ CatalogOk'
  <2>1. pmLoaded
    BY <1>1, <1>3 DEF CInv, Up
  <2>2. Has(toPm', {"uiScan"})
    BY <1>1, <2>1, FetchIsPost
  <2>3. DiskAsked' /\ CatalogAsked'
    BY <2>2 DEF DiskAsked, CatalogAsked, Has
  <2> QED
    BY <1>1, <2>1, <2>3 DEF DiskOk, CatalogOk
<1> QED
  BY <1>2, <1>3 DEF CInv

LEMMA TakeDlAnswerCatchesUp == ASSUME SomethingEmbedded, IInv, CInv, TakeDlAnswer PROVE CInv'
<1>1. PICK m : m = Head(fromDl)
  OBVIOUS
<1>2. Taking(m)
  <2>1. fromDl # <<>> /\ m \in DlReply
    BY <1>1, Taken, Typed DEF TakeDlAnswer
  <2> QED
    BY <1>1, <2>1 DEF Taking, TakeDlAnswer
<1>3. CASE m.type = "getCatalog" /\ PopulateAppsModel(m.body.catalog, m.body.found)
  <2>1. PICK catalog \in SUBSET Release, found \in Disk :
          catalog = m.body.catalog /\ found = m.body.found
    BY <1>2, <1>3, DlAnswers DEF Taking
  <2> QED
    BY <1>2, <1>3, <2>1, PopulateCatchesUp
<1>4. CASE \/ m.type = "list" /\ Listed(m.body)
           \/ m.type = "seedList" /\ SeedListed(m.body)
           \/ m.type = "seedAdd" /\ SeedAdded(m.body)
           \/ m.type \in {"add", "remove"} /\ RepositoryChanged(m.body)
  <2>1. m.type \notin {"getCatalog", "catalogChanged"}
    BY <1>4
  <2> QED
    BY <1>2, <1>4, <2>1, MoreAsked, RepositoriesCatchUpToo
<1>5. CASE (RefreshAfter(<<>>) \/ RefreshAfter(ListCalls)) /\ UNCHANGED rows
  <2>1. Fetch
    BY <1>5 DEF RefreshAfter
  <2> QED
    BY <1>2, <1>5, <2>1, RefreshedCatchesUp
<1> QED
  BY <1>1, <1>3, <1>4, <1>5 DEF TakeDlAnswer
-----------------------------------------------------------------------------
(* Catching up: the invariant is one *)

LEMMA InitCatchesUp == ASSUME Init PROVE CInv
<1>1. \A p \in Package \ User : disk[p] # None
  BY DEF Init
<1>2. LocalRows(rows, packages)
  <2>1. DOMAIN rows = {} /\ \A p \in Package : packages[p] = None
    BY DEF Init, Nothing
  <2> QED
    BY <2>1 DEF LocalRows
<1>3. ASSUME Up PROVE pmLoaded /\ DiskOk /\ CatalogOk
  <2>1. pmLoaded
    BY <1>3 DEF Init, Up
  <2>2. PICK x \in PmCall : x = Msg("uiScan", {}) /\ x.type = "uiScan"
    BY ScanIsACall DEF Msg
  <2>3. toPm = <<x>>
    BY <2>1, <2>2 DEF Init
  <2>4. 1 \in DOMAIN toPm /\ toPm[1] = x
    BY <2>3
  <2>5. Has(toPm, {"uiScan"}) /\ Has(toPm, {"uiScan", "scan"})
    BY <2>2, <2>4 DEF Has, Range
  <2> QED
    BY <2>1, <2>5 DEF DiskOk, DiskAsked, CatalogOk, CatalogAsked
<1> QED
  BY <1>1, <1>2, <1>3 DEF CInv

LEMMA StepCatchesUp ==
    ASSUME SomethingEmbedded, IInv, CInv, [Next]_vars PROVE CInv'
<1>1. CASE RemoteRefresh
  BY <1>1, RemoteRefreshCatchesUp
<1>2. CASE Rescan
  BY <1>2, RescanCatchesUp
<1>3. CASE RetryCatalog
  BY <1>3, RetryCatalogCatchesUp
<1>4. CASE TakePmAnswer
  BY <1>4, TakePmAnswerCatchesUp
<1>5. CASE TakeDlAnswer
  BY <1>5, TakeDlAnswerCatchesUp
<1>6. CASE \E op \in {"add", "remove"}, r \in Repo : ChangeRepository(op, r)
  BY <1>6, ChangeRepositoryCatchesUp
<1>7. CASE \E p \in User : \E build \in Builds[p] : InstallPackage(p, build)
  BY <1>7, InstallPackageCatchesUp
<1>8. CASE StartSetup \/ Subscribe \/ DlLoads \/ UNCHANGED vars
  BY <1>8, IdleCatchesUp DEF StartSetup, Subscribe, DlLoads, vars, world, wires, arming, caches, Up
<1>9. CASE PmAnswer
  BY <1>9, PmAnswerCatchesUp
<1>10. CASE PmUnloads
  BY <1>10, PmUnloadsCatchesUp
<1>11. CASE PmLoads
  BY <1>11, PmLoadsCatchesUp
<1>12. CASE PmSilent
  BY <1>12, PmSilentCatchesUp
<1>13. CASE \E p \in User : \E build \in Builds[p] \cup {None} : PmChanges(p, build)
  BY <1>13, PmChangesCatchesUp
<1>14. CASE DlAnswer
  BY <1>14, DlAnswerCatchesUp
<1> QED
  BY <1>1, <1>2, <1>3, <1>4, <1>5, <1>6, <1>7, <1>8, <1>9, <1>10, <1>11, <1>12, <1>13, <1>14
  DEF Next

LEMMA Catching == SomethingEmbedded => (Spec => [](IInv /\ CInv))
<1> HAVE SomethingEmbedded
<1>1. Init => IInv /\ CInv
  BY InitOk, InitCatchesUp
<1>2. IInv /\ CInv /\ [Next]_vars => (IInv /\ CInv)'
  BY StepOk, StepCatchesUp
<1> QED
  BY <1>1, <1>2, PTL DEF Spec

\* With nothing under way both were shown, by the right rows.
LEMMA CaughtUp == ASSUME IInv, CInv, Idle, Up PROVE RowsAgree
<1>1. /\ DOMAIN toPm = {} /\ DOMAIN fromPm = {} /\ DOMAIN toDl = {} /\ DOMAIN fromDl = {}
      /\ toPm = <<>> /\ fromPm = <<>> /\ rescans = 0 /\ retries = <<>>
  BY DEF Idle
<1>2. \A types : ~Has(toPm, types) /\ ~Has(fromPm, types) /\ ~Has(toDl, types) /\ ~Has(fromDl, types)
  BY <1>1 DEF Has, Range
<1>3. DiskShown
  BY <1>1, <1>2 DEF CInv, DiskOk, DiskAsked, ScanComing
<1>4. CatalogShown(rows, Catalog)
  BY <1>1, <1>2 DEF CInv, CatalogOk, CatalogAsked, CatalogComing
<1>5. batches = <<>>
  <2>1. Count(toPm, "deps") = 0 /\ Count(fromPm, "deps") = 0
    BY <1>1, CountOfNone
  <2>2. PICK n \in Int : n = 0
    OBVIOUS
  <2>3. batches \in Seq(Batch) /\ Expect(batches, n)
    BY <2>1, <2>2 DEF IInv, PmOk
  <2> QED
    BY <2>2, <2>3, ExpectLast
<1>6. LocalRows(rows, disk) /\ RowsShow(rows)
  BY <1>3 DEF CInv, DiskShown
<1>7. RowsOk(rows) /\ Catalog \in SUBSET Release
  BY CatalogIsReleases DEF IInv, RowsInv, DlOk
<1>8. DEFINE offered == {KeyOf(x) : x \in Catalog}
             locals == {<<Local, p>> : p \in (OnDisk \cap User) \ {x.name : x \in Catalog}}
<1>9. \A p : RepoOf(<<Local, p>>) = Local
  BY DEF RepoOf
<1>10. \A x \in Catalog : x.repo \in Repo /\ x.name \in Package /\ KeyOf(x) = <<x.repo, x.name>>
  BY <1>7 DEF KeyOf, Release
<1>11. \A p \in Package : (\E x \in Repo : <<x, p>> \in DOMAIN rows)
                             <=> p \in {x.name : x \in Catalog}
  <2>1. ASSUME NEW p \in Package, NEW x \in Repo, <<x, p>> \in DOMAIN rows
        PROVE  p \in {y.name : y \in Catalog}
    <3>1. PICK k : k = <<x, p>>
      OBVIOUS
    <3>2. RepoOf(k) # Local /\ k \in DOMAIN rows
      BY <2>1, <3>1, PackageRefreshAssumption DEF RepoOf
    <3>3. PICK y \in Catalog : KeyOf(y) = k
      BY <1>4, <3>2 DEF CatalogShown
    <3> QED
      BY <3>1, <3>3 DEF KeyOf
  <2>2. ASSUME NEW p \in Package, NEW y \in Catalog, y.name = p
        PROVE  \E x \in Repo : <<x, p>> \in DOMAIN rows
    BY <1>4, <1>10, <2>2 DEF CatalogShown
  <2> QED
    BY <2>1, <2>2
<1>12. ASSUME NEW k \in DOMAIN rows PROVE k \in offered \/ k \in locals
  <2>1. CASE RepoOf(k) # Local
    BY <1>4, <2>1 DEF CatalogShown
  <2>2. CASE RepoOf(k) = Local
    <3>1. PICK p \in Package : k = <<Local, p>>
      BY <1>7, <2>2, KeyNames DEF RowsOk
    <3>2. p \in User /\ disk[p] # None /\ \A x \in Repo : <<x, p>> \notin DOMAIN rows
      BY <1>6, <3>1 DEF LocalRows
    <3>3. p \in (OnDisk \cap User) \ {x.name : x \in Catalog}
      BY <1>11, <3>2 DEF OnDisk
    <3> QED
      BY <3>1, <3>3
  <2> QED
    BY <2>1, <2>2
<1>13. offered \subseteq DOMAIN rows
  BY <1>4 DEF CatalogShown
<1>14. ASSUME NEW p \in (OnDisk \cap User) \ {x.name : x \in Catalog}
       PROVE  <<Local, p>> \in DOMAIN rows
  BY <1>6, <1>11 DEF LocalRows, OnDisk
<1>15. DOMAIN rows = offered \cup locals
  BY <1>12, <1>13, <1>14
<1>16. \A k \in DOMAIN rows : NameOf(k) \in Renamed => rows[k].missing = {}
  BY <1>7 DEF RowsOk
<1> QED
  BY <1>4, <1>5, <1>6, <1>15, <1>16 DEF RowsAgree, CatalogShown, RowsShow

\* Where something is embedded: however refreshes, installs, removals and
\* catalog changes overlapped, once nothing is under way the rows are those of
\* the served catalog and of the packages on disk no repository offers, and
\* each says the build that is there and, unless its artifact has another name
\* than its module, the dependencies that are missing.
THEOREM RowsFollow == SomethingEmbedded => (Spec => []RowsCatchUp)
<1>1. IInv /\ CInv => RowsCatchUp
  BY CaughtUp DEF RowsCatchUp, Up
<1> QED
  BY <1>1, Catching, PTL
=============================================================================
