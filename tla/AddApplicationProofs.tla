------------------------- MODULE AddApplicationProofs -------------------------
(***************************************************************************)
(* The Add Application dialog for any catalogs, packages and bounds: the   *)
(* plan is the closure, the dialog shows what was asked for last, it hears *)
(* of the end of an install, and a success leaves the closure on disk.     *)
(***************************************************************************)
EXTENDS AddApplication, Integers, FiniteSetTheorems, SequenceTheorems,
        WellFoundedInduction, TLAPS

-----------------------------------------------------------------------------
(* Induction, by the least counterexample *)

\* A set of natural numbers has a least element: the subset order on the
\* intervals 1..n is well founded.
LEMMA Least ==
    ASSUME NEW T \in SUBSET Nat, T # {}
    PROVE  \E x \in T : \A y \in T : x <= y
<1> DEFINE F == {1..n : n \in T}
           R == StrictSubsetOrdering(Nat)
           S == FiniteSubsetsOf(Nat)
<1>1. IsWellFoundedOn(R, S)
  BY FS_StrictSubsetOrderingWellFounded
<1>2. F \subseteq S /\ F # {}
  <2>1. ASSUME NEW n \in T PROVE 1..n \in S
    <3>1. n \in Nat /\ IsFiniteSet(1..n)
      BY FS_Interval
    <3> QED
      BY <3>1 DEF FiniteSubsetsOf
  <2> QED
    BY <2>1
<1> HIDE DEF R, S
<1>3. PICK U \in F : \A V \in F : ~ (<<V, U>> \in R)
  BY <1>1, <1>2, WFMin
<1>4. PICK n \in T : U = 1..n
  OBVIOUS
<1>5. ASSUME NEW m \in T, ~(n <= m) PROVE FALSE
  <2>1. m \in Nat /\ n \in Nat /\ m < n
    BY <1>5
  <2>2. 1..m \subseteq 1..n /\ n \in 1..n /\ n \notin 1..m /\ 1..m \subseteq Nat /\ 1..n \subseteq Nat
    BY <2>1
  <2>3. 1..m # 1..n
    BY <2>2
  <2>4. 1..m \in SUBSET Nat /\ 1..n \in SUBSET Nat
    BY <2>2
  <2>5. <<1..m, 1..n>> \in R
    BY <2>2, <2>3, <2>4 DEF R, StrictSubsetOrdering
  <2> QED
    BY <2>5, <1>3, <1>4
<1> QED
  BY <1>5

-----------------------------------------------------------------------------
(* The closure of an app *)

\* A round of buildPlan's loop, for all packages found so far at once.
Step(c, repo, pins, S) == S \cup UNION {NeedsOf(c, repo, p, pins) : p \in S}

\* f holds what the first m rounds have found.
Runs(f, m, name, repo, pins, c) ==
    f = [n \in 0..m |-> IF n = 0 THEN {name} ELSE Step(c, repo, pins, f[n-1])]

LEMMA RunsFacts ==
    ASSUME NEW m \in Nat, NEW name, NEW repo, NEW pins, NEW c, NEW f,
           Runs(f, m, name, repo, pins, c)
    PROVE  /\ DOMAIN f = 0..m /\ f[0] = {name}
           /\ \A n \in 1..m : f[n] = Step(c, repo, pins, f[n-1])
<1>1. f = [n \in 0..m |-> IF n = 0 THEN {name} ELSE Step(c, repo, pins, f[n-1])]
  BY DEF Runs
<1>2. 0 \in 0..m /\ \A n \in 1..m : n \in 0..m /\ n # 0
  OBVIOUS
<1> QED
  BY <1>1, <1>2

LEMMA RunsExist ==
    ASSUME NEW name, NEW repo, NEW pins, NEW c, NEW k \in Nat
    PROVE  \E f : Runs(f, k, name, repo, pins, c)
<1> DEFINE Bad == {m \in Nat : ~ \E f : Runs(f, m, name, repo, pins, c)}
<1> SUFFICES ASSUME Bad # {} PROVE FALSE
  OBVIOUS
<1>1. PICK m \in Bad : \A y \in Bad : m <= y
  <2>1. Bad \in SUBSET Nat
    OBVIOUS
  <2> HIDE DEF Bad
  <2> QED
    BY <2>1, Least
<1>2. CASE m = 0
  <2> DEFINE f == [n \in 0..m |-> {name}]
  <2>1. Runs(f, m, name, repo, pins, c)
    BY <1>2 DEF Runs
  <2> QED
    BY <2>1
<1>3. CASE m # 0
  <2>1. m - 1 \in Nat /\ m - 1 \notin Bad
    BY <1>1, <1>3
  <2>2. PICK g : Runs(g, m - 1, name, repo, pins, c)
    BY <2>1
  <2>3. /\ DOMAIN g = 0..m-1 /\ g[0] = {name}
        /\ \A n \in 1..m-1 : g[n] = Step(c, repo, pins, g[n-1])
    BY <2>1, <2>2, RunsFacts
  <2> DEFINE f == [n \in 0..m |-> IF n = m THEN Step(c, repo, pins, g[m-1]) ELSE g[n]]
  <2>4. DOMAIN f = 0..m /\ f[m] = Step(c, repo, pins, f[m-1])
    BY <2>1, <1>3
  <2>5. ASSUME NEW n \in 0..m
        PROVE  f[n] = IF n = 0 THEN {name} ELSE Step(c, repo, pins, f[n-1])
    <3>1. CASE n = m
      BY <2>4, <3>1, <1>3
    <3>2. CASE n = 0
      BY <2>3, <3>2, <1>3
    <3>3. CASE n # m /\ n # 0
      <4>1. n \in 1..m-1 /\ n - 1 \in 0..m /\ n - 1 # m
        BY <3>3
      <4> QED
        BY <4>1, <2>3, <3>3
    <3> QED
      BY <3>1, <3>2, <3>3
  <2>6. f = [n \in 0..m |-> IF n = 0 THEN {name} ELSE Step(c, repo, pins, f[n-1])]
    BY <2>5
  <2>7. Runs(f, m, name, repo, pins, c)
    BY <2>6 DEF Runs
  <2> QED
    BY <2>7
<1> QED
  BY <1>2, <1>3

LEMMA VisitedRuns ==
    ASSUME NEW name, NEW repo, NEW pins, NEW c, Cardinality(Package) \in Nat
    PROVE  \E f : /\ Runs(f, Cardinality(Package), name, repo, pins, c)
                  /\ Visited(name, repo, pins, c) = f[Cardinality(Package)]
<1> DEFINE k == Cardinality(Package)
           f == CHOOSE f : f = [n \in 0..k |-> IF n = 0 THEN {name}
                   ELSE f[n-1] \cup UNION {NeedsOf(c, repo, p, pins) : p \in f[n-1]}]
<1>1. Visited(name, repo, pins, c) = f[k]
  BY DEF Visited
<1>2. PICK g : Runs(g, k, name, repo, pins, c)
  BY RunsExist
<1>3. f = [n \in 0..k |-> IF n = 0 THEN {name}
                 ELSE f[n-1] \cup UNION {NeedsOf(c, repo, p, pins) : p \in f[n-1]}]
  BY <1>2 DEF Runs, Step
<1> HIDE DEF f
<1> QED
  BY <1>1, <1>3 DEF Runs, Step

\* A set that has name and all its packages need.
ClosedSet(T, name, repo, pins, c) ==
    name \in T /\ \A p \in T : NeedsOf(c, repo, p, pins) \subseteq T

LEMMA RoundsStayInside ==
    ASSUME NEW k \in Nat, NEW name, NEW repo, NEW pins, NEW c, NEW f,
           Runs(f, k, name, repo, pins, c), NEW T, ClosedSet(T, name, repo, pins, c),
           NEW n \in 0..k
    PROVE  name \in f[n] /\ f[n] \subseteq T
<1> DEFINE Bad == {m \in 0..k : ~(name \in f[m] /\ f[m] \subseteq T)}
<1> SUFFICES ASSUME Bad # {} PROVE FALSE
  OBVIOUS
<1>1. PICK m \in Bad : \A y \in Bad : m <= y
  <2>1. Bad \in SUBSET Nat
    OBVIOUS
  <2> HIDE DEF Bad
  <2> QED
    BY <2>1, Least
<1>2. f[0] = {name} /\ \A i \in 1..k : f[i] = Step(c, repo, pins, f[i-1])
  BY RunsFacts
<1>3. m # 0
  BY <1>2 DEF ClosedSet
<1>4. m \in 1..k /\ m - 1 \in 0..k /\ m - 1 \notin Bad
  BY <1>1, <1>3
<1>5. name \in f[m-1] /\ f[m-1] \subseteq T
  BY <1>4
<1>6. name \in f[m] /\ f[m] \subseteq T
  BY <1>2, <1>4, <1>5 DEF Step, ClosedSet
<1> QED
  BY <1>6

\* A round that finds nothing new was the last; one that does finds a package.
LEMMA RoundsFindOrEnd ==
    ASSUME NEW k \in Nat, NEW name, NEW repo, NEW pins, NEW c, NEW f,
           Runs(f, k, name, repo, pins, c), ClosedSet(Package, name, repo, pins, c),
           NEW n \in 0..k
    PROVE  Step(c, repo, pins, f[n]) = f[n] \/ Cardinality(f[n]) >= n + 1
<1> DEFINE Bad == {m \in 0..k : ~(Step(c, repo, pins, f[m]) = f[m] \/ Cardinality(f[m]) >= m + 1)}
<1> SUFFICES ASSUME Bad # {} PROVE FALSE
  OBVIOUS
<1>1. PICK m \in Bad : \A y \in Bad : m <= y
  <2>1. Bad \in SUBSET Nat
    OBVIOUS
  <2> HIDE DEF Bad
  <2> QED
    BY <2>1, Least
<1>2. f[0] = {name} /\ \A i \in 1..k : f[i] = Step(c, repo, pins, f[i-1])
  BY RunsFacts
<1>3. m # 0
  <2>1. Cardinality(f[0]) = 1
    BY <1>2, FS_Singleton
  <2>2. Cardinality(f[0]) >= 0 + 1
    BY <2>1
  <2> QED
    BY <2>2
<1>4. m \in 1..k /\ m - 1 \in 0..k /\ m - 1 \notin Bad /\ (m - 1) + 1 = m
  BY <1>1, <1>3
<1>5. f[m] = Step(c, repo, pins, f[m-1]) /\ f[m-1] \subseteq f[m]
  BY <1>2, <1>4 DEF Step
<1>6. CASE Step(c, repo, pins, f[m-1]) = f[m-1]
  BY <1>5, <1>6
<1>7. CASE Step(c, repo, pins, f[m-1]) # f[m-1]
  <2>1. Cardinality(f[m-1]) >= m
    BY <1>4, <1>7
  <2>2. f[m] \subseteq Package
    BY <1>4, RoundsStayInside
  <2>3. IsFiniteSet(f[m])
    BY <2>2, FS_Subset, CatalogPlanAssumption
  <2>4. /\ Cardinality(f[m-1]) <= Cardinality(f[m])
        /\ Cardinality(f[m-1]) # Cardinality(f[m])
    BY <2>3, <1>5, <1>7, FS_Subset
  <2>5. Cardinality(f[m]) \in Nat /\ Cardinality(f[m-1]) \in Nat
    BY <2>3, <1>5, FS_Subset, FS_CardinalityType
  <2>6. Cardinality(f[m]) >= m + 1
    BY <2>1, <2>4, <2>5
  <2> QED
    BY <2>6
<1> QED
  BY <1>6, <1>7

\* The search finds a closed set, and no larger one than it must.
LEMMA VisitedIsLeast ==
    ASSUME NEW name, NEW repo, NEW pins, NEW c, ClosedSet(Package, name, repo, pins, c)
    PROVE  LET V == Visited(name, repo, pins, c)
           IN /\ V \subseteq Package
              /\ ClosedSet(V, name, repo, pins, c)
              /\ \A T : ClosedSet(T, name, repo, pins, c) => V \subseteq T
<1> DEFINE k == Cardinality(Package)
           V == Visited(name, repo, pins, c)
<1>1. k \in Nat
  BY FS_CardinalityType, CatalogPlanAssumption
<1>2. PICK f : Runs(f, k, name, repo, pins, c) /\ V = f[k]
  BY <1>1, VisitedRuns
<1> HIDE DEF V
<1>3. k \in 0..k
  BY <1>1
<1>4. \A T : ClosedSet(T, name, repo, pins, c) => name \in V /\ V \subseteq T
  BY <1>1, <1>2, <1>3, RoundsStayInside
<1>5. Cardinality(V) <= k /\ Cardinality(V) \in Nat
  BY <1>4, FS_Subset, FS_CardinalityType, CatalogPlanAssumption
<1>6. Step(c, repo, pins, V) = V \/ Cardinality(V) >= k + 1
  BY <1>1, <1>2, <1>3, RoundsFindOrEnd
<1>7. Step(c, repo, pins, V) = V
  BY <1>1, <1>5, <1>6
<1>8. ClosedSet(V, name, repo, pins, c)
  BY <1>4, <1>7 DEF ClosedSet, Step
<1> QED
  BY <1>4, <1>8 DEF V

\* The specification of the closure has one solution, and the search finds it.
LEMMA VisitedIsClosure ==
    ASSUME NEW name, NEW repo, NEW pins, NEW c, ClosedSet(Package, name, repo, pins, c)
    PROVE  /\ Visited(name, repo, pins, c) = Closure(name, repo, pins, c)
           /\ name \in Visited(name, repo, pins, c)
           /\ Visited(name, repo, pins, c) \subseteq Package
<1> DEFINE V == Visited(name, repo, pins, c)
           Least1(S) == /\ ClosedSet(S, name, repo, pins, c)
                        /\ \A T \in SUBSET S : ClosedSet(T, name, repo, pins, c) => T = S
<1>1. /\ V \in SUBSET Package
      /\ ClosedSet(V, name, repo, pins, c)
      /\ \A T : ClosedSet(T, name, repo, pins, c) => V \subseteq T
  BY VisitedIsLeast
<1> HIDE DEF V
<1>2. Closure(name, repo, pins, c) = CHOOSE S \in SUBSET Package : Least1(S)
  BY DEF Closure, ClosedSet
<1>3. Least1(V)
  BY <1>1
<1>4. \A S \in SUBSET Package : Least1(S) => S = V
  BY <1>1
<1> HIDE DEF Least1
<1>5. V = CHOOSE S \in SUBSET Package : Least1(S)
  BY <1>1, <1>3, <1>4
<1> QED
  BY <1>1, <1>2, <1>5 DEF V, ClosedSet

LEMMA SeqElement ==
    ASSUME NEW S, NEW s \in Seq(S), NEW i \in DOMAIN s
    PROVE  s[i] \in S
  OBVIOUS

\* What a catalog holds of a version that may be asked for.
LEMMA ManifestsTyped ==
    ASSUME NEW c \in Catalogs, NEW repo, NEW p, NEW pins, Available(c, repo, p, pins)
    PROVE  /\ repo \in Repo /\ p \in Package
           /\ ManifestFor(c[<<repo, p>>], pins[p]) \in DOMAIN c[<<repo, p>>]
           /\ c[<<repo, p>>] \in Seq([version : Nat \ {Any}, needs : SUBSET Package])
<1>1. <<repo, p>> \in DOMAIN c /\ ManifestFor(c[<<repo, p>>], pins[p]) # 0
  BY DEF Available
<1>2. /\ repo \in Repo /\ p \in Package
      /\ c[<<repo, p>>] \in Seq([version : Nat \ {Any}, needs : SUBSET Package])
  BY <1>1, AddApplicationAssumption
<1> DEFINE m == c[<<repo, p>>]
           fits == {i \in DOMAIN m : pins[p] \in {Any, m[i].version}}
<1>3. ManifestFor(m, pins[p]) =
        IF fits = {} THEN 0 ELSE CHOOSE i \in fits : \A j \in fits : i <= j
  BY DEF ManifestFor
<1>4. fits # {}
  BY <1>1, <1>3
<1>5. fits \in SUBSET Nat
  BY <1>2
<1>6. \E i \in fits : \A j \in fits : i <= j
  <2> HIDE DEF fits
  <2> QED
    BY <1>4, <1>5, Least
<1>7. ManifestFor(m, pins[p]) \in fits
  <2> HIDE DEF fits
  <2> QED
    BY <1>3, <1>4, <1>6
<1> QED
  BY <1>2, <1>7

LEMMA NeedsTyped ==
    ASSUME NEW c \in Catalogs, NEW repo, NEW p, NEW pins
    PROVE  NeedsOf(c, repo, p, pins) \subseteq Package
<1>1. CASE Available(c, repo, p, pins)
  <2> DEFINE m == c[<<repo, p>>]
             i == ManifestFor(m, pins[p])
  <2>1. m \in Seq([version : Nat \ {Any}, needs : SUBSET Package]) /\ i \in DOMAIN m
    BY <1>1, ManifestsTyped
  <2>2. NeedsOf(c, repo, p, pins) = m[i].needs
    BY <1>1 DEF NeedsOf
  <2> HIDE DEF m, i
  <2>3. m[i] \in [version : Nat \ {Any}, needs : SUBSET Package]
    BY <2>1, SeqElement
  <2>4. m[i].needs \subseteq Package
    BY <2>3
  <2> QED
    BY <2>2, <2>4
<1>2. CASE ~Available(c, repo, p, pins)
  BY <1>2 DEF NeedsOf
<1> QED
  BY <1>1, <1>2

\* A valid plan is the closure of the app, within one repository.
LEMMA PlanIsClosure ==
    ASSUME NEW c \in Catalogs, NEW name \in Package, NEW repo, NEW pins,
           BuildPlan(name, repo, pins, c).valid
    PROVE  /\ BuildPlan(name, repo, pins, c).names = Closure(name, repo, pins, c)
           /\ BuildPlan(name, repo, pins, c).names \in (SUBSET Package) \ {{}}
           /\ repo \in Repo
<1>1. ClosedSet(Package, name, repo, pins, c)
  BY NeedsTyped DEF ClosedSet
<1> DEFINE V == Visited(name, repo, pins, c)
<1>2. V = Closure(name, repo, pins, c) /\ name \in V /\ V \subseteq Package
  BY <1>1, VisitedIsClosure
<1>3. /\ BuildPlan(name, repo, pins, c).names = V
      /\ \A p \in V : Available(c, repo, p, pins)
  BY DEF BuildPlan, NoPlan
<1>4. repo \in Repo
  BY <1>2, <1>3, ManifestsTyped
<1> HIDE DEF V
<1> QED
  BY <1>2, <1>3, <1>4

-----------------------------------------------------------------------------
(* The invariant *)

Url == Repo \cup {Local}
Row == [name : Package, repo : Repo, ok : BOOLEAN, version : Nat \ {Any}]
Pinned == [Package -> Nat]
PlanNames == (SUBSET Package) \ {{}}
Session == [repo : Repo, pins : Pinned, needs : PlanNames, rows : Seq(Row)]
ResolveCalls == [op : {"resolve"}, name : App, repo : Repo, pins : Pinned,
                 names : PlanNames, epoch : Nat]
DownloadCalls == [op : {"download"}, name : App, repo : Repo, pins : Pinned,
                  names : PlanNames]
DlCall == ResolveCalls \cup DownloadCalls
Op == [stage : {None, "busy", "installed", "failed"}, owner : Package \cup {None}]
Dialogs == [visible : BOOLEAN, name : App \cup {None}, repo : Url \cup {None}, version : Nat,
            picks : Pinned, launch : BOOLEAN,
            stage : {None, "busy", "installed", "failed"}]

\* A dialog that is open is about an app and a tile of it.
Proper(d) ==
    /\ d \in Dialogs
    /\ d.visible <=> d.name # None
    /\ d.visible => d.repo \in Url

ShapeOfShown ==
    /\ catalog \in Catalogs /\ installed \in Pinned
    /\ active \in App \cup {None} /\ active = dialog.name
    /\ Proper(dialog)
    /\ DOMAIN overlay \subseteq Rows

ShapeOfResolved ==
    /\ epochs \in [Package -> Nat]
    /\ selected \in [Package -> Url \cup {None}]
    /\ required \in [Package -> SUBSET (Url \X Package)]
    /\ raw \in [Package -> Seq(Row)]
    /\ DOMAIN changes = Package
    /\ \A p \in Package : DOMAIN changes[p] \subseteq Repo \X Package

ShapeOfInstalls ==
    /\ ops \in [Package -> Op]
    /\ sessions \in [Package -> Session \cup {NoSession}]
    /\ clearing \subseteq Package
    /\ toDl \in Seq(DlCall)

\* An install has its entry in the registry until it has ended and its timer
\* has fired.
EntryKept(p) ==
    /\ ops[p].owner = None <=> ops[p].stage = None
    /\ sessions[p] # NoSession => ops[p].owner = p /\ p \notin clearing
    /\ p \in clearing => ops[p].owner = p
    /\ ops[p].owner = p => sessions[p] # NoSession \/ p \in clearing

\* What the install has to leave behind is there or is among its rows, and what
\* the dialog will show of it is the install's or the last resolution's.
RowsSuffice(p) ==
    sessions[p].rows # <<>> =>
      /\ \A q \in sessions[p].needs : installed[q] # Any \/ q \in NamesIn(sessions[p].rows)
      /\ \A i \in DOMAIN raw[p] :
            raw[p][i].repo = sessions[p].repo \/ \E k \in DOMAIN changes[p] : raw[p][i].repo = k[1]

Installs == \A p \in Package : EntryKept(p) /\ RowsSuffice(p)

\* A download is its install's, and the only one of it.
DownloadsFit ==
    \A n \in DOMAIN toDl : toDl[n].op = "download" =>
       LET s == sessions[toDl[n].name]
       IN /\ s # NoSession /\ s.rows = <<>> /\ s.repo = toDl[n].repo /\ s.pins = toDl[n].pins
          /\ s.needs = toDl[n].names
          /\ \A m \in DOMAIN toDl :
                toDl[m].op = "download" /\ toDl[m].name = toDl[n].name => m = n

\* The epoch of a resolution that still counts is that of the last request.
ResolvesFit ==
    \A n \in DOMAIN toDl : toDl[n].op = "resolve" =>
       /\ toDl[n].epoch <= epochs[toDl[n].name]
       /\ toDl[n].epoch = epochs[toDl[n].name] /\ toDl[n].name = active =>
            toDl[n].repo = asked.repo /\ toDl[n].pins[active] = asked.version

\* A row, or an entry of the list, that the request accounts for.
Wanted(k) == k[1] = asked.repo \/ (asked.repo = Local /\ k[2] = asked.name)

DialogAgrees ==
    /\ dialog.repo = asked.repo /\ dialog.version \in {asked.version, Any}
    /\ \A k \in listed \cup DOMAIN overlay : Wanted(k)

ResolvedAgrees ==
    /\ selected[active] = asked.repo
    /\ \A x \in required[active] : x[1] = asked.repo

\* The dialog's app is not being installed otherwise than was asked for.
SessionAgrees ==
    sessions[active] # NoSession =>
      /\ sessions[active].repo = asked.repo
      /\ sessions[active].pins[active] \in {asked.version, Any}
      /\ sessions[active].rows # <<>> =>
           \A i \in DOMAIN raw[active] : raw[active][i].repo = asked.repo

AskedFits ==
    active # None =>
      /\ asked.name = active /\ dialog.picks[active] \in {Any, asked.version}
      /\ ~crossed => DialogAgrees /\ ResolvedAgrees /\ SessionAgrees

\* The app of the dialog has a repository.
Chosen == active # None => selected[active] # None

Shapes == ShapeOfShown /\ ShapeOfResolved /\ ShapeOfInstalls
IInv == Shapes /\ Installs /\ DownloadsFit /\ ResolvesFit /\ AskedFits

-----------------------------------------------------------------------------
(* The calls and their answers *)

\* The channel without its i-th call.
Drop(s, i) == [j \in 1..(Len(s) - 1) |-> IF j < i THEN s[j] ELSE s[j+1]]

LEMMA DropFacts ==
    ASSUME NEW S, NEW s \in Seq(S), NEW i \in DOMAIN s
    PROVE  /\ Drop(s, i) \in Seq(S)
           /\ \A m \in DOMAIN Drop(s, i) :
                \E n \in DOMAIN s :
                   /\ n # i /\ n = (IF m < i THEN m ELSE m + 1)
                   /\ Drop(s, i)[m] = s[n]
<1>1. Len(s) \in Nat /\ DOMAIN s = 1..Len(s) /\ i \in 1..Len(s)
  OBVIOUS
<1>2. ASSUME NEW m \in 1..(Len(s) - 1)
      PROVE  /\ m < i => Drop(s, i)[m] = s[m] /\ m \in DOMAIN s /\ m # i
             /\ ~(m < i) => Drop(s, i)[m] = s[m+1] /\ m + 1 \in DOMAIN s /\ m + 1 # i
  BY <1>1 DEF Drop
<1>3. DOMAIN Drop(s, i) = 1..(Len(s) - 1)
  BY DEF Drop
<1>4. ASSUME NEW m \in 1..(Len(s) - 1) PROVE Drop(s, i)[m] \in S
  BY <1>2, SeqElement
<1>5. Drop(s, i) \in [1..(Len(s) - 1) -> S]
  BY <1>4 DEF Drop
<1>6. Drop(s, i) \in Seq(S)
  <2>1. Len(s) - 1 \in Nat
    BY <1>1
  <2> QED
    BY <1>5, <2>1
<1> QED
  BY <1>2, <1>3, <1>6

LEMMA TailIsDrop ==
    ASSUME NEW S, NEW s \in Seq(S), s # <<>>
    PROVE  1 \in DOMAIN s /\ Head(s) = s[1] /\ Tail(s) = Drop(s, 1)
<1>1. 1 \in DOMAIN s /\ Head(s) = s[1]
  OBVIOUS
<1>2. /\ Tail(s) \in Seq(S) /\ DOMAIN Tail(s) = 1..(Len(s) - 1)
      /\ \A j \in 1..(Len(s) - 1) : Tail(s)[j] = s[j+1] /\ ~(j < 1)
  OBVIOUS
<1>3. /\ Drop(s, 1) \in Seq(S) /\ DOMAIN Drop(s, 1) = 1..(Len(s) - 1)
      /\ \A j \in 1..(Len(s) - 1) : Drop(s, 1)[j] = Tail(s)[j]
  BY <1>1, <1>2, DropFacts DEF Drop
<1>4. Len(Tail(s)) = Len(Drop(s, 1))
  BY <1>2, <1>3
<1> QED
  BY <1>1, <1>2, <1>3, <1>4, SeqEqual

LEMMA AppendAt ==
    ASSUME NEW S, NEW s \in Seq(S), NEW x \in S
    PROVE  /\ Append(s, x) \in Seq(S)
           /\ DOMAIN Append(s, x) = DOMAIN s \cup {Len(s) + 1} /\ Len(s) + 1 \notin DOMAIN s
           /\ \A n \in DOMAIN s : Append(s, x)[n] = s[n]
           /\ Append(s, x)[Len(s) + 1] = x
<1>1. /\ Append(s, x) \in Seq(S) /\ Len(s) \in Nat /\ DOMAIN s = 1..Len(s)
      /\ DOMAIN Append(s, x) = 1..Len(s) + 1
  OBVIOUS
<1>2. \A n \in 1..Len(s) : Append(s, x)[n] = s[n]
  OBVIOUS
<1>3. Append(s, x)[Len(s) + 1] = x
  OBVIOUS
<1>4. 1..Len(s) + 1 = (1..Len(s)) \cup {Len(s) + 1} /\ Len(s) + 1 \notin 1..Len(s)
  BY <1>1
<1> QED
  BY <1>1, <1>2, <1>3, <1>4

\* The closure in some order.
LEMMA ResolveTyped ==
    ASSUME NEW c \in Catalogs, NEW call \in DlCall
    PROVE  Resolve(call, c) \in Seq(Row) /\ 1 \in DOMAIN Resolve(call, c)
<1> DEFINE k == Cardinality(call.names)
           order == CHOOSE s \in [1..k -> call.names] : IsInjective(s)
           version(p) == IF call.pins[p] = Any
                           THEN IF <<call.repo, p>> \in DOMAIN c THEN c[<<call.repo, p>>][1].version ELSE 1
                           ELSE call.pins[p]
<1>1. call.repo \in Repo /\ call.pins \in [Package -> Nat] /\ call.names \in (SUBSET Package) \ {{}}
  BY DEF DlCall, ResolveCalls, DownloadCalls, Pinned, PlanNames
<1>2. IsFiniteSet(call.names)
  BY <1>1, FS_Subset, CatalogPlanAssumption
<1>3. k \in Nat /\ ExistsBijection(1..k, call.names)
  BY <1>2, FS_CardinalityType
<1>4. k # 0
  BY <1>1, <1>2, FS_EmptySet
<1>5. \E s \in [1..k -> call.names] : IsInjective(s)
  BY <1>3 DEF ExistsBijection, Bijection, Injection, Surjection, IsInjective
<1>6. order \in [1..k -> call.names]
  BY <1>5
<1> HIDE DEF order
<1>7. ASSUME NEW p \in call.names PROVE version(p) \in Nat \ {Any}
  <2>1. p \in Package /\ call.pins[p] \in Nat
    BY <1>1
  <2>2. CASE <<call.repo, p>> \in DOMAIN c
    <3> DEFINE m == c[<<call.repo, p>>]
    <3>1. m \in Seq([version : Nat \ {Any}, needs : SUBSET Package]) \ {<<>>}
      BY <2>2, AddApplicationAssumption
    <3>2. 1 \in DOMAIN m
      BY <3>1
    <3>3. m[1] \in [version : Nat \ {Any}, needs : SUBSET Package]
      BY <3>1, <3>2, SeqElement
    <3>4. m[1].version \in Nat \ {Any}
      BY <3>3
    <3> QED
      BY <2>1, <2>2, <3>4
  <2>3. CASE <<call.repo, p>> \notin DOMAIN c
    BY <2>1, <2>3 DEF Any
  <2> QED
    BY <2>2, <2>3
<1>8. Resolve(call, c) = [i \in DOMAIN order |->
        [name |-> order[i], repo |-> call.repo, ok |-> TRUE,
         version |-> IF call.pins[order[i]] = Any
                       THEN IF <<call.repo, order[i]>> \in DOMAIN c
                              THEN c[<<call.repo, order[i]>>][1].version ELSE 1
                       ELSE call.pins[order[i]]]]
  BY DEF Resolve, order
<1>9. Resolve(call, c) = [i \in 1..k |-> [name |-> order[i], repo |-> call.repo, ok |-> TRUE,
                                          version |-> version(order[i])]]
  BY <1>6, <1>8
<1> HIDE DEF version
<1>10. ASSUME NEW i \in 1..k
       PROVE  [name |-> order[i], repo |-> call.repo, ok |-> TRUE, version |-> version(order[i])]
                \in Row
  <2>1. order[i] \in call.names /\ order[i] \in Package
    BY <1>1, <1>6
  <2> QED
    BY <1>1, <1>7, <2>1 DEF Row
<1>11. Resolve(call, c) \in [1..k -> Row]
  BY <1>9, <1>10
<1> QED
  BY <1>3, <1>4, <1>11

LEMMA AnswersTyped ==
    ASSUME catalog \in Catalogs, NEW call \in DlCall, NEW answer \in Answers(call)
    PROVE  answer \in Seq(Row)
<1> DEFINE good == Resolve(call, catalog)
<1>1. good \in Seq(Row) /\ 1 \in DOMAIN good
  BY ResolveTyped
<1>2. good # <<>>
  BY <1>1
<1> HIDE DEF good
<1>3. good[1] \in Row
  BY <1>1, SeqElement
<1>4. Tail(good) \in Seq(Row)
  BY <1>1, <1>2
<1>5. [good EXCEPT ![1].ok = FALSE] \in Seq(Row)
  <2>1. [good[1] EXCEPT !.ok = FALSE] \in Row
    BY <1>3 DEF Row
  <2> QED
    BY <1>1, <2>1
<1>6. ASSUME NEW r \in Repo PROVE [good EXCEPT ![1].repo = r] \in Seq(Row)
  <2>1. [good[1] EXCEPT !.repo = r] \in Row
    BY <1>3 DEF Row
  <2> QED
    BY <1>1, <2>1
<1>7. ASSUME NEW p \in Package PROVE Append(good, [good[1] EXCEPT !.name = p]) \in Seq(Row)
  <2>1. [good[1] EXCEPT !.name = p] \in Row
    BY <1>3 DEF Row
  <2> QED
    BY <1>1, <2>1
<1>8. \/ answer \in {good, Tail(good), [good EXCEPT ![1].ok = FALSE]}
      \/ \E r \in Repo : answer = [good EXCEPT ![1].repo = r]
      \/ \E p \in Package : answer = Append(good, [good[1] EXCEPT !.name = p])
  BY DEF Answers, good
<1> QED
  BY <1>1, <1>4, <1>5, <1>6, <1>7, <1>8

\* What is taken over from an answer.
LEMMA ValidatedFacts ==
    ASSUME NEW answer \in Seq(Row), NEW repo, NEW names \in PlanNames,
           Validated(answer, repo, names)
    PROVE  /\ NamesIn(answer) = names /\ answer # <<>> /\ 1 \in DOMAIN answer
           /\ \A i \in DOMAIN answer : answer[i] \in Row /\ answer[i].repo = repo
<1>1. NamesIn(answer) = names /\ \A i \in DOMAIN answer : answer[i].repo = repo
  BY DEF Validated
<1>2. DOMAIN answer # {}
  BY <1>1 DEF NamesIn, PlanNames
<1>3. answer # <<>> /\ 1 \in DOMAIN answer
  BY <1>2
<1> QED
  BY <1>1, <1>3, SeqElement

-----------------------------------------------------------------------------
(* What the dialog is told *)

Stages == {None, "busy", "installed", "failed"}

\* t is d but for its button and its stage.
SameDialog(t, d) ==
    /\ t.visible = d.visible /\ t.name = d.name /\ t.repo = d.repo /\ t.version = d.version
    /\ t.picks = d.picks

LEMMA NamesDiffer == None \notin Package /\ None \notin Repo /\ None \notin App /\ Local \notin Repo
  BY AddApplicationAssumption DEF None

LEMMA NoPinsTyped == NoPins \in Pinned
  BY DEF NoPins, Pinned, Any

LEMMA WithStageFacts ==
    ASSUME NEW d, Proper(d), NEW name, NEW stage \in Stages
    PROVE  /\ Proper(WithStage(d, name, stage)) /\ SameDialog(WithStage(d, name, stage), d)
           /\ d.name = name /\ name # None => WithStage(d, name, stage).stage = stage
<1> DEFINE t == [d EXCEPT !.stage = stage]
<1>1. /\ t \in Dialogs /\ t.visible = d.visible /\ t.name = d.name /\ t.repo = d.repo
      /\ t.version = d.version /\ t.picks = d.picks /\ t.stage = stage
  BY DEF Proper, Dialogs, Stages
<1> HIDE DEF t
<1>2. WithStage(d, name, stage) = IF d.visible /\ d.name = name THEN t ELSE d
  BY DEF WithStage, t
<1> QED
  BY <1>1, <1>2 DEF Proper, SameDialog

LEMMA CompletedFacts ==
    ASSUME NEW d, Proper(d), NEW name
    PROVE  Proper(Completed(d, name)) /\ SameDialog(Completed(d, name), d)
<1> DEFINE t == [d EXCEPT !.launch = TRUE]
<1>1. /\ t \in Dialogs /\ t.visible = d.visible /\ t.name = d.name /\ t.repo = d.repo
      /\ t.version = d.version /\ t.picks = d.picks
  BY DEF Proper, Dialogs
<1> HIDE DEF t
<1>2. Completed(d, name) = IF d.visible /\ d.name = name THEN t ELSE d
  BY DEF Completed, t
<1> QED
  BY <1>1, <1>2 DEF Proper, SameDialog

LEMMA AndThenFacts ==
    ASSUME NEW d, Proper(d), NEW name, NEW how
    PROVE  /\ Proper(AndThen(how, d, name)) /\ SameDialog(AndThen(how, d, name), d)
           /\ how # "failed" => AndThen(how, d, name) = d
<1>1. "failed" \in Stages
  BY DEF Stages
<1>2. SameDialog(d, d)
  BY DEF SameDialog
<1> QED
  BY <1>1, <1>2, WithStageFacts DEF AndThen

LEMMA StagedDialogFacts ==
    ASSUME NEW d, Proper(d), NEW o, NEW name, NEW stage \in Stages
    PROVE  Proper(StagedDialog(d, o, name, stage)) /\ SameDialog(StagedDialog(d, o, name, stage), d)
  BY WithStageFacts DEF StagedDialog, SameDialog

LEMMA SameIsTransitive ==
    ASSUME NEW d, NEW t, NEW u, SameDialog(t, d), SameDialog(u, t)
    PROVE  SameDialog(u, d)
  BY DEF SameDialog

\* The dialog that is told of its own app shows what it is told.
LEMMA MetadataFacts ==
    ASSUME NEW d, Proper(d), NEW name \in App, NEW repo \in Url, NEW version \in Nat,
           NEW how, ops'[name].stage \in Stages, d.name = name \/ (~d.visible /\ how = "open")
    PROVE  LET t == WithMetadata(d, name, repo, version, how)
           IN /\ Proper(t) /\ t.visible /\ t.name = name /\ t.repo = repo /\ t.version = version
              /\ t.picks = (IF d.visible THEN d.picks ELSE NoPins)
              /\ t.stage = ops'[name].stage
<1> DEFINE launch == TileInstalled(catalog, installed', name, repo)
           told == [visible |-> TRUE, name |-> name, repo |-> repo, version |-> version,
                    picks |-> d.picks, launch |-> launch, stage |-> ops'[name].stage]
           fresh == [told EXCEPT !.picks = NoPins]
<1>1. launch \in BOOLEAN
  BY DEF TileInstalled
<1> HIDE DEF launch
<1>2. d.picks \in Pinned /\ d.visible \in BOOLEAN /\ name # None
  BY NamesDiffer DEF Proper, Dialogs
<1>3. /\ Proper(told) /\ told.visible /\ told.name = name /\ told.repo = repo
      /\ told.version = version /\ told.picks = d.picks /\ told.stage = ops'[name].stage
  BY <1>1, <1>2 DEF Proper, Dialogs, Stages
<1>4. /\ Proper(fresh) /\ fresh.visible /\ fresh.name = name /\ fresh.repo = repo
      /\ fresh.version = version /\ fresh.picks = NoPins /\ fresh.stage = ops'[name].stage
  BY <1>1, <1>2, NoPinsTyped DEF Proper, Dialogs, Stages
<1>5. WithMetadata(d, name, repo, version, how) =
        IF ~d.visible THEN IF how = "open" THEN fresh ELSE d
        ELSE IF d.name = name THEN told ELSE d
  BY DEF WithMetadata, launch
<1> HIDE DEF told, fresh
<1>6. d.visible <=> d.name # None
  BY DEF Proper
<1> QED
  BY <1>2, <1>3, <1>4, <1>5, <1>6

LEMMA RowOfFacts ==
    ASSUME NEW rows, NEW name, NEW repo, NEW k \in RowOf(rows, name, repo)
    PROVE  k \in rows /\ k[2] = name /\ (repo # Local => k = <<repo, name>>)
<1> DEFINE named == {x \in rows : x[2] = name}
<1>1. CASE repo # Local
  BY <1>1 DEF RowOf
<1>2. CASE repo = Local
  <2>1. named # {} /\ k = CHOOSE x \in named : TRUE
    BY <1>2 DEF RowOf
  <2>2. k \in named
    BY <2>1
  <2> QED
    BY <1>2, <2>2
<1> QED
  BY <1>1, <1>2

\* What is shown of changes and of a plan that are all of one repository.
LEMMA ShownFits ==
    ASSUME NEW rows, NEW repo, NEW name, NEW ch, NEW plan,
           \A x \in DOMAIN ch : x[1] = repo /\ (repo = Local => x[2] = name),
           \A x \in plan : x[1] = repo
    PROVE  /\ DOMAIN OverlayOf(rows, ch) \subseteq rows
           /\ \A k \in RequiredEntries(name, repo, ch, plan) \cup DOMAIN OverlayOf(rows, ch) :
                k[1] = repo \/ (repo = Local /\ k[2] = name)
<1> DEFINE Hit(k) == {x \in DOMAIN ch : k \in RowOf(rows, x[2], x[1])}
<1>1. DOMAIN OverlayOf(rows, ch) = {k \in rows : Hit(k) # {}}
  BY DEF OverlayOf
<1>2. ASSUME NEW k \in DOMAIN OverlayOf(rows, ch) PROVE k[1] = repo \/ (repo = Local /\ k[2] = name)
  <2>1. PICK x \in DOMAIN ch : k \in RowOf(rows, x[2], x[1])
    BY <1>1
  <2>2. x[1] = repo /\ (repo = Local => x[2] = name)
    BY <2>1
  <2>3. k[2] = x[2] /\ (repo # Local => k = <<repo, x[2]>>)
    BY <2>1, <2>2, RowOfFacts
  <2> QED
    BY <2>2, <2>3
<1>3. ASSUME NEW k \in RequiredEntries(name, repo, ch, plan) PROVE k[1] = repo
  BY DEF RequiredEntries
<1> QED
  BY <1>1, <1>2, <1>3

\* emitDialogMetadata about the dialog's own app,
LEMMA EmitToDialog ==
    ASSUME NEW name \in App, NEW repo \in Url, NEW version \in Nat, NEW ch, NEW how,
           NEW d, Proper(d), d.name = name \/ (~d.visible /\ how = "open"),
           ops'[name].stage \in Stages, active' = name,
           EmitDialogMetadata(name, repo, version, ch, how, d)
    PROVE  /\ Proper(dialog') /\ dialog'.name = name /\ dialog'.repo = repo
           /\ dialog'.version = version
           /\ dialog'.picks = (IF d.visible THEN d.picks ELSE NoPins)
           /\ how # "failed" => dialog'.stage = ops'[name].stage
           /\ overlay' = OverlayOf(RowsOf(catalog, installed'), ch)
           /\ listed' = RequiredEntries(name, repo, ch, required'[name])
<1> DEFINE t == WithMetadata(d, name, repo, version, how)
<1>1. /\ Proper(t) /\ t.visible /\ t.name = name /\ t.repo = repo /\ t.version = version
      /\ t.picks = (IF d.visible THEN d.picks ELSE NoPins)
      /\ t.stage = ops'[name].stage
  BY MetadataFacts
<1>2. /\ overlay' = OverlayOf(RowsOf(catalog, installed'), ch)
      /\ listed' = RequiredEntries(name, repo, ch, required'[name])
      /\ dialog' = AndThen(how, t, name)
  BY DEF EmitDialogMetadata
<1> HIDE DEF t
<1> DEFINE u == AndThen(how, t, name)
<1>3. Proper(u) /\ SameDialog(u, t) /\ (how # "failed" => u = t)
  BY <1>1, AndThenFacts
<1> HIDE DEF u
<1>4. dialog' = u
  BY <1>2 DEF u
<1> QED
  BY <1>1, <1>2, <1>3, <1>4 DEF SameDialog

\* and about another one.
LEMMA EmitToNobody ==
    ASSUME NEW name, NEW repo, NEW version, NEW ch, NEW how, NEW d, Proper(d), active' # name,
           EmitDialogMetadata(name, repo, version, ch, how, d)
    PROVE  Proper(dialog') /\ SameDialog(dialog', d) /\ UNCHANGED <<overlay, listed>>
<1>1. dialog' = AndThen(how, d, name) /\ UNCHANGED <<overlay, listed>>
  BY DEF EmitDialogMetadata
<1> DEFINE u == AndThen(how, d, name)
<1>2. Proper(u) /\ SameDialog(u, d)
  BY AndThenFacts
<1> HIDE DEF u
<1> QED
  BY <1>1, <1>2 DEF u

LEMMA OverlayRows ==
    ASSUME NEW rows, NEW ch
    PROVE  DOMAIN OverlayOf(rows, ch) \subseteq rows
  BY DEF OverlayOf

-----------------------------------------------------------------------------
(* A request *)

\* An app's resolution and its plan are forgotten, or its plan is replaced.
ResolvedChanges(name, repo, R) ==
    /\ selected' = [selected EXCEPT ![name] = repo]
    /\ required' = [required EXCEPT ![name] = R]
    /\ \/ UNCHANGED <<raw, changes>>
       \/ /\ raw' = [raw EXCEPT ![name] = <<>>]
          /\ changes' = [changes EXCEPT ![name] = <<>>]

LEMMA ForgottenChanges ==
    ASSUME NEW name, NEW repo, Forgotten(name, repo)
    PROVE  ResolvedChanges(name, repo, {})
  BY DEF Forgotten, ResolvedChanges

LEMMA ResolvedChangesFacts ==
    ASSUME ShapeOfResolved, NEW name \in Package, NEW repo \in Url,
           NEW R \in SUBSET (Url \X Package), ResolvedChanges(name, repo, R),
           epochs' \in [Package -> Nat]
    PROVE  /\ ShapeOfResolved' /\ selected'[name] = repo /\ required'[name] = R
           /\ \A p \in Package : p # name => raw'[p] = raw[p] /\ changes'[p] = changes[p]
           /\ \/ raw'[name] = raw[name] /\ changes'[name] = changes[name]
              \/ DOMAIN raw'[name] = {}
<1>1. <<>> \in Seq(Row)
  OBVIOUS
<1>2. selected' \in [Package -> Url \cup {None}] /\ selected'[name] = repo
  BY DEF ShapeOfResolved, ResolvedChanges
<1>3. required' \in [Package -> SUBSET (Url \X Package)] /\ required'[name] = R
  BY DEF ShapeOfResolved, ResolvedChanges
<1>4. CASE UNCHANGED <<raw, changes>>
  BY <1>2, <1>3, <1>4 DEF ShapeOfResolved
<1>5. CASE /\ raw' = [raw EXCEPT ![name] = <<>>]
           /\ changes' = [changes EXCEPT ![name] = <<>>]
  <2>1. raw' \in [Package -> Seq(Row)] /\ raw'[name] = <<>>
    BY <1>1, <1>5 DEF ShapeOfResolved
  <2>2. DOMAIN changes' = Package /\ changes'[name] = <<>>
    BY <1>5 DEF ShapeOfResolved
  <2>3. \A p \in Package : p # name => raw'[p] = raw[p] /\ changes'[p] = changes[p]
    BY <1>5 DEF ShapeOfResolved
  <2>4. ASSUME NEW p \in Package PROVE DOMAIN changes'[p] \subseteq Repo \X Package
    <3>1. CASE p = name
      <4>1. DOMAIN changes'[p] = {}
        BY <2>2, <3>1
      <4> QED
        BY <4>1
    <3>2. CASE p # name
      BY <2>3, <3>2 DEF ShapeOfResolved
    <3> QED
      BY <3>1, <3>2
  <2>5. DOMAIN raw'[name] = {}
    BY <2>1
  <2> QED
    BY <1>2, <1>3, <2>1, <2>2, <2>3, <2>4, <2>5 DEF ShapeOfResolved
<1> QED
  BY <1>4, <1>5 DEF ResolvedChanges

\* Rows that are waited for stay accounted for.
LEMMA RowsSufficeKept ==
    ASSUME ShapeOfResolved, Installs, NEW name \in Package, NEW repo, NEW R,
           ResolvedChanges(name, repo, R), UNCHANGED <<installed, sessions>>
    PROVE  \A p \in Package : RowsSuffice(p)'
<1> SUFFICES ASSUME NEW p \in Package, sessions[p].rows # <<>>
             PROVE  /\ \A q \in sessions[p].needs : installed[q] # Any \/ q \in NamesIn(sessions[p].rows)
                    /\ \A i \in DOMAIN raw'[p] :
                         raw'[p][i].repo = sessions[p].repo
                           \/ \E k \in DOMAIN changes'[p] : raw'[p][i].repo = k[1]
  BY DEF RowsSuffice
<1>1. RowsSuffice(p)
  BY DEF Installs
<1>2. CASE UNCHANGED <<raw, changes>>
  BY <1>1, <1>2 DEF RowsSuffice
<1>3. CASE /\ raw' = [raw EXCEPT ![name] = <<>>]
           /\ changes' = [changes EXCEPT ![name] = <<>>]
  <2>1. p # name => raw'[p] = raw[p] /\ changes'[p] = changes[p]
    BY <1>3 DEF ShapeOfResolved
  <2>2. p = name => DOMAIN raw'[p] = {}
    BY <1>3 DEF ShapeOfResolved
  <2> QED
    BY <1>1, <2>1, <2>2 DEF RowsSuffice
<1> QED
  BY <1>2, <1>3 DEF ResolvedChanges

\* One repository's, or the one change an app without a repository has.
OfRepo(ch, repo, name) == \A x \in DOMAIN ch : x[1] = repo /\ (repo = Local => x[2] = name)

LEMMA ErrorIsOfRepo ==
    ASSUME NEW name, NEW repo
    PROVE  OfRepo(ErrorChange(<<repo, name>>), repo, name)
<1>1. DOMAIN ErrorChange(<<repo, name>>) = {<<repo, name>>}
  BY DEF ErrorChange
<1> QED
  BY <1>1 DEF OfRepo

\* What a request does, whether there is a plan for it or not.
RequestEffect(name, repo, pins, d, ch, R) ==
    /\ EmitDialogMetadata(name, repo, pins[name], ch, "open", d)
    /\ ResolvedChanges(name, repo, R)
    /\ \A x \in R : x[1] = repo
    /\ ~crossed' => OfRepo(ch, repo, name)
    /\ \/ toDl' = toDl
       \/ \E call \in ResolveCalls :
             /\ toDl' = Append(toDl, call)
             /\ call.name = name /\ call.repo = repo /\ call.pins = pins
             /\ call.epoch = epochs[name] + 1

LEMMA RequestHas ==
    ASSUME Shapes, NEW name \in App, NEW repo \in Url, NEW pins \in Pinned, NEW d,
           RunResolverAndOpenDialog(name, repo, pins, d)
    PROVE  \E ch : \E R \in SUBSET (Url \X Package) : RequestEffect(name, repo, pins, d, ch, R)
<1> DEFINE plan == BuildPlan(name, repo, pins, catalog)
<1>1. name \in Package /\ catalog \in Catalogs /\ epochs \in [Package -> Nat]
  BY AddApplicationAssumption DEF Shapes, ShapeOfShown, ShapeOfResolved
<1>2. CASE ~plan.valid
  <2> DEFINE ch == ErrorChange(<<repo, name>>)
  <2>1. /\ Forgotten(name, repo) /\ toDl' = toDl
        /\ EmitDialogMetadata(name, repo, pins[name], ch, "open", d)
    BY <1>2 DEF RunResolverAndOpenDialog, PresentCatalogResolutionError
  <2>2. RequestEffect(name, repo, pins, d, ch, {})
    BY <2>1, ForgottenChanges, ErrorIsOfRepo DEF RequestEffect
  <2> QED
    BY <2>2
<1>3. CASE plan.valid
  <2> DEFINE ch == InitialChanges(name)
             R == {repo} \X plan.names
             call == ResolveCall(name, repo, pins, plan, epochs[name] + 1)
  <2>1. /\ repo \in Repo /\ plan.names \in PlanNames
    BY <1>1, <1>3, PlanIsClosure DEF PlanNames
  <2>2. /\ selected' = [selected EXCEPT ![name] = repo]
        /\ required' = [required EXCEPT ![name] = R]
        /\ EmitDialogMetadata(name, repo, pins[name], ch, "open", d)
        /\ toDl' = Append(toDl, call)
        /\ UNCHANGED <<raw, changes>>
        /\ Request(name, repo, pins)
    BY <1>3 DEF RunResolverAndOpenDialog
  <2> HIDE DEF plan
  <2>3. R \in SUBSET (Url \X Package) /\ \A x \in R : x[1] = repo
    BY <2>1 DEF PlanNames
  <2>4. ResolvedChanges(name, repo, R)
    BY <2>2 DEF ResolvedChanges
  <2>5. call \in ResolveCalls /\ call.name = name /\ call.repo = repo /\ call.pins = pins
        /\ call.epoch = epochs[name] + 1
    BY <1>1, <2>1 DEF ResolveCall, ResolveCalls
  <2>6. ~crossed' => OfRepo(ch, repo, name)
    <3> SUFFICES ASSUME ~crossed' PROVE OfRepo(ch, repo, name)
      OBVIOUS
    <3>1. CASE InFlight(name)
      <4>1. \A k \in DOMAIN changes[name] : k[1] = repo
        BY <2>2, <3>1 DEF Request
      <4>2. ch = changes[name]
        BY <3>1 DEF InitialChanges
      <4> QED
        BY <2>1, <4>1, <4>2, NamesDiffer DEF OfRepo
    <3>2. CASE ~InFlight(name)
      <4>1. DOMAIN ch = {}
        BY <3>2 DEF InitialChanges
      <4> QED
        BY <4>1 DEF OfRepo
    <3> QED
      BY <3>1, <3>2
  <2> HIDE DEF R, ch, call
  <2>7. RequestEffect(name, repo, pins, d, ch, R)
    BY <2>2, <2>3, <2>4, <2>5, <2>6 DEF RequestEffect
  <2> QED
    BY <2>3, <2>7
<1> QED
  BY <1>2, <1>3

LEMMA RequestKeeps ==
    ASSUME IInv, NEW name \in App, NEW repo \in Url, NEW pins \in Pinned,
           NEW d, Proper(d), (d.name = name /\ d.picks[name] \in {Any, pins[name]}) \/ ~d.visible,
           RunResolverAndOpenDialog(name, repo, pins, d)
    PROVE  IInv'
<1>1. /\ name \in Package /\ name # None /\ catalog \in Catalogs /\ installed \in Pinned
      /\ epochs \in [Package -> Nat] /\ toDl \in Seq(DlCall)
      /\ ShapeOfResolved /\ Shapes /\ Installs
  BY AddApplicationAssumption, NamesDiffer
     DEF IInv, Shapes, ShapeOfShown, ShapeOfResolved, ShapeOfInstalls
<1>2. /\ epochs' = [epochs EXCEPT ![name] = epochs[name] + 1] /\ active' = name
      /\ UNCHANGED <<catalog, installed, ops, sessions, clearing>>
      /\ asked' = [name |-> name, repo |-> repo, version |-> pins[name]]
  BY DEF RunResolverAndOpenDialog, Request, installs
<1>3. ~crossed' =>
        /\ sessions[name] # NoSession => sessions[name].repo = repo /\ sessions[name].pins = pins
        /\ sessions[name] # NoSession => \A k \in DOMAIN changes[name] : k[1] = repo
  BY DEF RunResolverAndOpenDialog, Request
<1>4a. PICK ch : \E R \in SUBSET (Url \X Package) : RequestEffect(name, repo, pins, d, ch, R)
  BY <1>1, RequestHas
<1>4. PICK R \in SUBSET (Url \X Package) : RequestEffect(name, repo, pins, d, ch, R)
  BY <1>4a
<1>5. /\ epochs' \in [Package -> Nat] /\ epochs'[name] = epochs[name] + 1
      /\ \A p \in Package : p # name => epochs'[p] = epochs[p]
  BY <1>1, <1>2
<1>6. /\ ShapeOfResolved' /\ selected'[name] = repo /\ required'[name] = R
      /\ \/ raw'[name] = raw[name] /\ changes'[name] = changes[name]
         \/ DOMAIN raw'[name] = {}
  BY <1>1, <1>4, <1>5, ResolvedChangesFacts DEF RequestEffect
<1>7. /\ Proper(dialog') /\ dialog'.name = name /\ dialog'.repo = repo
      /\ dialog'.version = pins[name]
      /\ dialog'.picks = (IF d.visible THEN d.picks ELSE NoPins)
      /\ overlay' = OverlayOf(RowsOf(catalog, installed'), ch)
      /\ listed' = RequiredEntries(name, repo, ch, R)
  <2>1. ops'[name].stage \in Stages
    BY <1>1, <1>2 DEF IInv, Shapes, ShapeOfInstalls, Op, Stages
  <2>2. pins[name] \in Nat
    BY <1>1 DEF Pinned
  <2>3. EmitDialogMetadata(name, repo, pins[name], ch, "open", d)
    BY <1>4 DEF RequestEffect
  <2> QED
    BY <1>2, <1>6, <2>1, <2>2, <2>3, EmitToDialog
<1>8. ShapeOfShown'
  <2>1. DOMAIN overlay' \subseteq RowsOf(catalog, installed')
    BY <1>7, OverlayRows
  <2> QED
    BY <1>1, <1>2, <1>7, <2>1 DEF ShapeOfShown, Rows
<1>9. ShapeOfInstalls'
  <2>1. toDl' \in Seq(DlCall)
    <3>1. ResolveCalls \subseteq DlCall
      BY DEF DlCall
    <3>2. toDl' = toDl \/ \E call \in ResolveCalls : toDl' = Append(toDl, call)
      BY <1>4 DEF RequestEffect
    <3> QED
      BY <1>1, <3>1, <3>2, AppendAt
  <2> QED
    BY <1>1, <1>2, <2>1 DEF Shapes, ShapeOfInstalls
<1>10. Installs'
  <2>1. \A p \in Package : RowsSuffice(p)'
    BY <1>1, <1>2, <1>4, RowsSufficeKept DEF RequestEffect
  <2>2. \A p \in Package : EntryKept(p)'
    BY <1>1, <1>2 DEF Installs, EntryKept
  <2> QED
    BY <2>1, <2>2 DEF Installs
<1>11. ASSUME NEW n \in DOMAIN toDl'
       PROVE  \/ /\ n \in DOMAIN toDl /\ toDl'[n] = toDl[n]
              \/ /\ toDl'[n].op = "resolve" /\ toDl'[n].name = name /\ toDl'[n].repo = repo
                 /\ toDl'[n].pins = pins /\ toDl'[n].epoch = epochs[name] + 1
  <2>1. CASE toDl' = toDl
    BY <2>1
  <2>2. CASE toDl' # toDl
    <3>1. PICK call \in ResolveCalls :
             /\ toDl' = Append(toDl, call)
             /\ call.name = name /\ call.repo = repo /\ call.pins = pins
             /\ call.epoch = epochs[name] + 1
      BY <1>4, <2>2 DEF RequestEffect
    <3>2. call \in DlCall /\ call.op = "resolve"
      BY DEF DlCall, ResolveCalls
    <3> QED
      BY <1>1, <3>1, <3>2, AppendAt
  <2> QED
    BY <2>1, <2>2
<1>12. DownloadsFit'
  <2> SUFFICES ASSUME NEW n \in DOMAIN toDl', toDl'[n].op = "download"
               PROVE  LET s == sessions[toDl'[n].name]
                      IN /\ s # NoSession /\ s.rows = <<>> /\ s.repo = toDl'[n].repo
                         /\ s.pins = toDl'[n].pins /\ s.needs = toDl'[n].names
                         /\ \A m \in DOMAIN toDl' :
                               toDl'[m].op = "download" /\ toDl'[m].name = toDl'[n].name => m = n
    BY <1>2 DEF DownloadsFit
  <2>1. n \in DOMAIN toDl /\ toDl'[n] = toDl[n]
    BY <1>11
  <2>2. ASSUME NEW m \in DOMAIN toDl', toDl'[m].op = "download"
        PROVE  m \in DOMAIN toDl /\ toDl'[m] = toDl[m]
    BY <1>11, <2>2
  <2> QED
    BY <2>1, <2>2 DEF IInv, DownloadsFit
<1>13. ResolvesFit'
  <2> SUFFICES ASSUME NEW n \in DOMAIN toDl', toDl'[n].op = "resolve"
               PROVE  /\ toDl'[n].epoch <= epochs'[toDl'[n].name]
                      /\ toDl'[n].epoch = epochs'[toDl'[n].name] /\ toDl'[n].name = active' =>
                           toDl'[n].repo = asked'.repo /\ toDl'[n].pins[active'] = asked'.version
    BY DEF ResolvesFit
  <2>1. CASE n \in DOMAIN toDl /\ toDl'[n] = toDl[n]
    <3>1. toDl[n].epoch <= epochs[toDl[n].name]
      BY <2>1 DEF IInv, ResolvesFit
    <3>2. toDl[n].name \in Package /\ toDl[n].epoch \in Nat
      <4>1. toDl[n] \in ResolveCalls
        BY <1>1, <2>1, SeqElement DEF DlCall, DownloadCalls
      <4> QED
        BY <4>1, AddApplicationAssumption DEF ResolveCalls
    <3> QED
      BY <1>1, <1>2, <1>5, <2>1, <3>1, <3>2
  <2>2. CASE /\ toDl'[n].name = name /\ toDl'[n].repo = repo
             /\ toDl'[n].pins = pins /\ toDl'[n].epoch = epochs[name] + 1
    BY <1>1, <1>2, <1>5, <2>2
  <2> QED
    BY <1>11, <2>1, <2>2
<1>14. AskedFits'
  <2>1. asked'.name = active' /\ dialog'.picks[active'] \in {Any, asked'.version}
    <3>1. NoPins[name] = Any
      BY <1>1 DEF NoPins
    <3> QED
      BY <1>1, <1>2, <1>7, <3>1 DEF Proper
  <2>2. ASSUME ~crossed' PROVE DialogAgrees' /\ ResolvedAgrees' /\ SessionAgrees'
    <3>1. OfRepo(ch, repo, name) /\ \A x \in R : x[1] = repo
      BY <1>4, <2>2 DEF RequestEffect
    <3>2. \A k \in listed' \cup DOMAIN overlay' : k[1] = repo \/ (repo = Local /\ k[2] = name)
      BY <1>7, <3>1, ShownFits DEF OfRepo
    <3>3. DialogAgrees'
      BY <1>2, <1>7, <3>2 DEF DialogAgrees, Wanted
    <3>4. ResolvedAgrees'
      BY <1>2, <1>6, <3>1 DEF ResolvedAgrees
    <3>5. SessionAgrees'
      <4> SUFFICES ASSUME sessions[name] # NoSession
                   PROVE  /\ sessions[name].repo = repo /\ sessions[name].pins = pins
                          /\ sessions[name].rows # <<>> =>
                               \A i \in DOMAIN raw'[name] : raw'[name][i].repo = repo
        BY <1>2 DEF SessionAgrees
      <4>1. /\ sessions[name].repo = repo /\ sessions[name].pins = pins
            /\ \A k \in DOMAIN changes[name] : k[1] = repo
        BY <1>3, <2>2
      <4>2. ASSUME sessions[name].rows # <<>>
            PROVE  \A i \in DOMAIN raw[name] : raw[name][i].repo = repo
        BY <1>1, <4>1, <4>2 DEF Installs, RowsSuffice
      <4> QED
        BY <1>6, <4>1, <4>2
    <3> QED
      BY <3>3, <3>4, <3>5
  <2> QED
    BY <2>1, <2>2 DEF AskedFits
<1> QED
  BY <1>6, <1>8, <1>9, <1>10, <1>12, <1>13, <1>14 DEF IInv, Shapes

-----------------------------------------------------------------------------
(* The user's steps *)

LEMMA RowsTyped ==
    ASSUME NEW c \in Catalogs, NEW known \in Pinned, NEW k \in RowsOf(c, known)
    PROVE  k \in Url \X Package
<1>1. DOMAIN c \subseteq Repo \X Package
  BY AddApplicationAssumption
<1> QED
  BY <1>1 DEF RowsOf, Url

LEMMA OpenAppKeeps ==
    ASSUME IInv, NEW k \in Rows, OpenApp(k)
    PROVE  IInv'
<1>1. catalog \in Catalogs /\ installed \in Pinned /\ Proper(dialog)
  BY DEF IInv, Shapes, ShapeOfShown
<1>2. k[1] \in Url
  BY <1>1, RowsTyped DEF Rows
<1>3. k[2] \in App /\ ~dialog.visible /\ RunResolverAndOpenDialog(k[2], k[1], NoPins, dialog)
  BY DEF OpenApp
<1> QED
  BY <1>1, <1>2, <1>3, NoPinsTyped, RequestKeeps

\* The pins of a dialog, and that the app's is the version picked for it.
LEMMA PinsFacts ==
    ASSUME NEW d, Proper(d)
    PROVE  /\ Pins(d) \in Pinned
           /\ d.name \in Package => Pins(d)[d.name] =
                (IF d.picks[d.name] = Any THEN d.version ELSE d.picks[d.name])
<1>1. d.picks \in [Package -> Nat] /\ d.version \in Nat
  BY DEF Proper, Dialogs, Pinned
<1> QED
  BY <1>1 DEF Pins, Pinned

LEMMA PickVersionKeeps ==
    ASSUME IInv, NEW k \in DOMAIN catalog, NEW i \in DOMAIN catalog[k],
           PickVersion(k, catalog[k][i].version)
    PROVE  IInv'
<1> DEFINE version == catalog[k][i].version
           d == [dialog EXCEPT !.picks = [@ EXCEPT ![k[2]] = version]]
<1>1. catalog \in Catalogs /\ Proper(dialog) /\ dialog.visible
  BY DEF IInv, Shapes, ShapeOfShown, PickVersion
<1>2. /\ k[2] \in Package
      /\ catalog[k] \in Seq([version : Nat \ {Any}, needs : SUBSET Package])
  BY <1>1, AddApplicationAssumption
<1>3. catalog[k][i] \in [version : Nat \ {Any}, needs : SUBSET Package]
  BY <1>2, SeqElement
<1>4. version \in Nat
  BY <1>3
<1> HIDE DEF version
<1>5. /\ Proper(d) /\ d.visible /\ d.name = dialog.name /\ d.repo = dialog.repo
  BY <1>1, <1>2, <1>4 DEF Proper, Dialogs, Pinned
<1>6. RunResolverAndOpenDialog(d.name, d.repo, Pins(d), d)
  BY DEF PickVersion, version
<1> HIDE DEF d
<1>7. d.name \in App /\ d.repo \in Url
  BY <1>5, NamesDiffer DEF Proper, Dialogs
<1>8. Pins(d) \in Pinned /\ d.picks[d.name] \in {Any, Pins(d)[d.name]}
  BY <1>5, <1>7, PinsFacts, AddApplicationAssumption
<1> QED
  BY <1>5, <1>6, <1>7, <1>8, RequestKeeps

LEMMA CloseDialogKeeps ==
    ASSUME IInv, CloseDialog
    PROVE  IInv'
<1>1. /\ dialog' = Closed /\ active' = None
      /\ epochs' = IF active = None THEN epochs ELSE [epochs EXCEPT ![active] = @ + 1]
      /\ UNCHANGED <<catalog, installed, resolved, overlay, listed, installs, toDl, asked>>
  BY DEF CloseDialog, history
<1>2. /\ epochs \in [Package -> Nat] /\ active \in App \cup {None} /\ App \subseteq Package
      /\ toDl \in Seq(DlCall)
  BY AddApplicationAssumption
     DEF IInv, Shapes, ShapeOfShown, ShapeOfResolved, ShapeOfInstalls
<1>3. epochs' \in [Package -> Nat] /\ \A p \in Package : epochs'[p] >= epochs[p]
  BY <1>1, <1>2
<1>4. Proper(Closed) /\ Closed.name = None
  BY NoPinsTyped DEF Closed, Proper, Dialogs, Any
<1>5. ShapeOfShown'
  BY <1>1, <1>4 DEF IInv, Shapes, ShapeOfShown, Rows
<1>6. ShapeOfResolved' /\ ShapeOfInstalls'
  BY <1>1, <1>3 DEF IInv, Shapes, ShapeOfResolved, ShapeOfInstalls, resolved, installs
<1>7. Installs'
  BY <1>1 DEF IInv, Installs, EntryKept, RowsSuffice, resolved, installs
<1>8. DownloadsFit'
  BY <1>1 DEF IInv, DownloadsFit, installs
<1>9. ResolvesFit'
  <2> SUFFICES ASSUME NEW n \in DOMAIN toDl, toDl[n].op = "resolve"
               PROVE  toDl[n].epoch <= epochs'[toDl[n].name] /\ toDl[n].name # None
    BY <1>1 DEF ResolvesFit
  <2>1. toDl[n] \in ResolveCalls
    BY <1>2, SeqElement DEF DlCall, DownloadCalls
  <2>2. toDl[n].name \in App /\ toDl[n].epoch \in Nat
    BY <2>1 DEF ResolveCalls
  <2>3. toDl[n].epoch <= epochs[toDl[n].name]
    BY DEF IInv, ResolvesFit
  <2> QED
    BY <1>2, <1>3, <2>2, <2>3, NamesDiffer
<1>10. AskedFits'
  BY <1>1 DEF AskedFits
<1> QED
  BY <1>5, <1>6, <1>7, <1>8, <1>9, <1>10 DEF IInv, Shapes

LEMMA SessionsUnchanged ==
    ASSUME IInv, UNCHANGED <<catalog, installed, resolving, installs, toDl, asked>>,
           ShapeOfResolved', NEW name \in Package, NEW repo, NEW R,
           ResolvedChanges(name, repo, R)
    PROVE  ShapeOfInstalls' /\ Installs' /\ DownloadsFit' /\ ResolvesFit'
<1>1. ShapeOfResolved /\ Installs
  BY DEF IInv, Shapes
<1>2. UNCHANGED <<installed, sessions>>
  BY DEF installs
<1>3. \A p \in Package : RowsSuffice(p)'
  BY <1>1, <1>2, RowsSufficeKept
<1>4. \A p \in Package : EntryKept(p)'
  BY <1>1 DEF Installs, EntryKept, installs
<1>5. ShapeOfInstalls'
  BY DEF IInv, Shapes, ShapeOfInstalls, installs
<1>6. DownloadsFit' /\ ResolvesFit'
  BY DEF IInv, DownloadsFit, ResolvesFit, resolving, installs
<1> QED
  BY <1>3, <1>4, <1>5, <1>6 DEF Installs

\* Confirming when the app is still registered, or has no plan.
LEMMA RefusedInstallKeeps ==
    ASSUME IInv, UNCHANGED <<catalog, installed, resolving, installs, toDl, asked, crossed>>,
           NEW name \in App, NEW pins \in Pinned, NEW d,
           Proper(d), SameDialog(d, dialog), name = dialog.name,
           pins[name] = (IF dialog.picks[name] = Any THEN dialog.version ELSE dialog.picks[name]),
           \/ dialog' = d /\ UNCHANGED <<resolved, overlay, listed>>
           \/ /\ sessions[name] = NoSession
              /\ PresentCatalogResolutionError(name, dialog.repo, pins[name], "failed", d)
    PROVE  IInv'
<1>1. /\ name \in Package /\ name # None /\ active = name
      /\ catalog \in Catalogs /\ installed \in Pinned /\ epochs \in [Package -> Nat]
      /\ ShapeOfResolved /\ Installs /\ Proper(dialog)
      /\ AskedFits
  BY AddApplicationAssumption, NamesDiffer
     DEF IInv, Shapes, ShapeOfShown, ShapeOfResolved, ShapeOfInstalls
<1>2. active' = active /\ epochs' = epochs /\ UNCHANGED <<ops, sessions, clearing>>
  BY DEF resolving, installs
<1>3. asked.name = name /\ dialog.picks[name] \in {Any, asked.version}
  BY <1>1 DEF AskedFits
<1>4. dialog.repo \in Url /\ pins[name] \in Nat
  BY <1>1 DEF Proper, Pinned
<1>5. CASE dialog' = d /\ UNCHANGED <<resolved, overlay, listed>>
  <2>1. UNCHANGED <<selected, required, raw, changes>>
    BY <1>5 DEF resolved
  <2>2. ShapeOfShown'
    BY <1>1, <1>2, <1>5 DEF IInv, Shapes, ShapeOfShown, SameDialog, Rows
  <2>3. ShapeOfResolved' /\ ShapeOfInstalls'
    BY <1>2, <2>1 DEF IInv, Shapes, ShapeOfResolved, ShapeOfInstalls
  <2>4. Installs' /\ DownloadsFit' /\ ResolvesFit'
    BY <1>2, <2>1 DEF IInv, Installs, EntryKept, RowsSuffice, DownloadsFit, ResolvesFit
  <2>5. AskedFits'
    BY <1>2, <1>5, <2>1
       DEF IInv, AskedFits, DialogAgrees, Wanted, ResolvedAgrees, SessionAgrees, SameDialog
  <2> QED
    BY <2>2, <2>3, <2>4, <2>5 DEF IInv, Shapes
<1>6. CASE /\ sessions[name] = NoSession
           /\ PresentCatalogResolutionError(name, dialog.repo, pins[name], "failed", d)
  <2> DEFINE repo == dialog.repo
             ch == ErrorChange(<<repo, name>>)
  <2>1. ResolvedChanges(name, repo, {}) /\ EmitDialogMetadata(name, repo, pins[name], ch, "failed", d)
    BY <1>6, ForgottenChanges DEF PresentCatalogResolutionError
  <2> HIDE DEF ch
  <2>2. ShapeOfResolved' /\ selected'[name] = repo /\ required'[name] = {}
    <3>1. {} \in SUBSET (Url \X Package)
      OBVIOUS
    <3> QED
      BY <1>1, <1>2, <1>4, <2>1, <3>1, ResolvedChangesFacts
  <2>3. ShapeOfInstalls' /\ Installs' /\ DownloadsFit' /\ ResolvesFit'
    BY <1>1, <2>1, <2>2, SessionsUnchanged
  <2>4. d.name = name
    BY DEF SameDialog
  <2>5. ops'[name].stage \in Stages
    BY <1>1, <1>2 DEF IInv, Shapes, ShapeOfInstalls, Op, Stages
  <2>6. /\ Proper(dialog') /\ dialog'.name = name /\ dialog'.repo = repo
        /\ dialog'.version = pins[name] /\ dialog'.picks = (IF d.visible THEN d.picks ELSE NoPins)
        /\ overlay' = OverlayOf(RowsOf(catalog, installed'), ch)
        /\ listed' = RequiredEntries(name, repo, ch, {})
    <3>1. active' = name /\ Proper(d) /\ d.name = name /\ repo \in Url /\ pins[name] \in Nat
      BY <1>1, <1>2, <1>4, <2>4
    <3>2. EmitDialogMetadata(name, repo, pins[name], ch, "failed", d)
      BY <2>1
    <3> HIDE DEF repo
    <3>3. /\ Proper(dialog') /\ dialog'.name = name /\ dialog'.repo = repo
          /\ dialog'.version = pins[name] /\ dialog'.picks = (IF d.visible THEN d.picks ELSE NoPins)
          /\ overlay' = OverlayOf(RowsOf(catalog, installed'), ch)
          /\ listed' = RequiredEntries(name, repo, ch, required'[name])
      BY <2>5, <3>1, <3>2, EmitToDialog
    <3> QED
      BY <2>2, <3>3
  <2>7. ShapeOfShown'
    <3>1. DOMAIN overlay' \subseteq RowsOf(catalog, installed')
      BY <2>6, OverlayRows
    <3> QED
      BY <1>1, <1>2, <2>6, <3>1 DEF ShapeOfShown, Rows
  <2>8. dialog'.picks = dialog.picks
    BY <1>1, <2>4, <2>6 DEF SameDialog, Proper
  <2>9. ASSUME ~crossed PROVE DialogAgrees' /\ ResolvedAgrees' /\ SessionAgrees'
    <3>1. dialog.repo = asked.repo /\ dialog.version \in {asked.version, Any}
      BY <1>1, <2>9 DEF AskedFits, DialogAgrees
    <3>2. OfRepo(ch, repo, name)
      BY ErrorIsOfRepo DEF ch
    <3>3. \A k \in listed' \cup DOMAIN overlay' : k[1] = repo \/ (repo = Local /\ k[2] = name)
      BY <2>6, <3>2, ShownFits DEF OfRepo
    <3>4. DialogAgrees'
      BY <1>3, <2>6, <3>1, <3>3 DEF DialogAgrees, Wanted
    <3>5. ResolvedAgrees'
      BY <1>1, <1>2, <2>2, <3>1 DEF ResolvedAgrees
    <3>6. SessionAgrees'
      BY <1>1, <1>2, <1>6 DEF SessionAgrees
    <3> QED
      BY <3>4, <3>5, <3>6
  <2>10. AskedFits'
    BY <1>1, <1>2, <1>3, <2>8, <2>9 DEF AskedFits
  <2> QED
    BY <2>2, <2>3, <2>7, <2>10 DEF IInv, Shapes
<1> QED
  BY <1>5, <1>6

\* Confirming starts an install.
LEMMA NewInstallKeeps ==
    ASSUME IInv, UNCHANGED <<catalog, installed, resolving, raw, changes, overlay, listed,
                             clearing, asked, crossed>>,
           NEW name \in App, NEW pins \in Pinned, Proper(dialog'), SameDialog(dialog', dialog),
           name = dialog.name,
           pins[name] = (IF dialog.picks[name] = Any THEN dialog.version ELSE dialog.picks[name]),
           ops[name].stage = None,
           NEW names \in PlanNames, dialog.repo \in Repo, NEW call,
           call = [op |-> "download", name |-> name, repo |-> dialog.repo, pins |-> pins,
                   names |-> names],
           selected' = [selected EXCEPT ![name] = dialog.repo],
           required' = [required EXCEPT ![name] = {dialog.repo} \X names],
           ops' = [ops EXCEPT ![name] = [stage |-> "busy", owner |-> name]],
           sessions' = [sessions EXCEPT ![name] =
                          [repo |-> dialog.repo, pins |-> pins, rows |-> <<>>, needs |-> names]],
           toDl' = Append(toDl, call)
    PROVE  IInv'
<1> DEFINE s == [repo |-> dialog.repo, pins |-> pins, rows |-> <<>>, needs |-> names]
<1>1. /\ name \in Package /\ name # None /\ active = name
      /\ epochs \in [Package -> Nat] /\ toDl \in Seq(DlCall)
      /\ ops \in [Package -> Op] /\ sessions \in [Package -> Session \cup {NoSession}]
      /\ ShapeOfResolved /\ Installs /\ AskedFits
  BY AddApplicationAssumption, NamesDiffer
     DEF IInv, Shapes, ShapeOfShown, ShapeOfResolved, ShapeOfInstalls
<1>2. active' = active /\ epochs' = epochs
  BY DEF resolving
<1>3. s \in Session /\ s # NoSession /\ s.rows = <<>> /\ s.repo = dialog.repo /\ s.pins = pins
      /\ s.needs = names
  <2>1. <<>> \in Seq(Row)
    OBVIOUS
  <2>2. dialog.repo # None
    BY NamesDiffer
  <2> QED
    BY <2>1, <2>2 DEF Session, NoSession
<1> HIDE DEF s
<1>4. sessions' = [sessions EXCEPT ![name] = s]
  BY DEF s
<1>5. sessions'[name] = s /\ \A p \in Package : p # name => sessions'[p] = sessions[p]
  BY <1>1, <1>4
<1>6. /\ ops'[name] = [stage |-> "busy", owner |-> name] /\ ops' \in [Package -> Op]
      /\ \A p \in Package : p # name => ops'[p] = ops[p]
  BY <1>1 DEF Op
<1>7. sessions[name] = NoSession /\ name \notin clearing
  BY <1>1 DEF Installs, EntryKept
<1>8. ShapeOfShown'
  BY <1>1, <1>2 DEF IInv, Shapes, ShapeOfShown, SameDialog, Rows
<1>9. ShapeOfResolved' /\ selected'[name] = dialog.repo /\ required'[name] = {dialog.repo} \X names
  <2>1. PICK repo \in Url : repo = dialog.repo
    BY DEF Url
  <2>2. PICK R \in SUBSET (Url \X Package) : R = {repo} \X names
    BY <2>1 DEF PlanNames
  <2>3. ResolvedChanges(name, repo, R)
    BY <2>1, <2>2 DEF ResolvedChanges
  <2>4. epochs' \in [Package -> Nat]
    BY <1>1, <1>2
  <2>5. ShapeOfResolved' /\ selected'[name] = repo /\ required'[name] = R
    BY <1>1, <2>3, <2>4, ResolvedChangesFacts
  <2> QED
    BY <2>1, <2>2, <2>5
<1>10. call \in DlCall /\ call.op = "download" /\ call.name = name /\ call.repo = dialog.repo
       /\ call.pins = pins /\ call.names = names
  BY DEF DlCall, DownloadCalls
<1>11. /\ toDl' \in Seq(DlCall)
       /\ \A n \in DOMAIN toDl : n \in DOMAIN toDl' /\ toDl'[n] = toDl[n]
       /\ \A n \in DOMAIN toDl' : n \in DOMAIN toDl \/ (n = Len(toDl) + 1 /\ toDl'[n] = call)
       /\ Len(toDl) + 1 \notin DOMAIN toDl
  BY <1>1, <1>10, AppendAt
<1>12. ShapeOfInstalls'
  <2>1. sessions' \in [Package -> Session \cup {NoSession}]
    BY <1>1, <1>3, <1>4
  <2> QED
    BY <1>6, <1>11, <2>1 DEF IInv, Shapes, ShapeOfInstalls
<1>13. Installs'
  <2>1. ASSUME NEW p \in Package PROVE EntryKept(p)'
    <3>1. CASE p = name
      <4>1. /\ ops'[p].owner = name /\ ops'[p].stage = "busy" /\ sessions'[p] = s
            /\ p \notin clearing'
        BY <1>5, <1>6, <1>7, <3>1
      <4> QED
        BY <1>1, <1>3, <3>1, <4>1 DEF EntryKept, None
    <3>2. CASE p # name
      BY <1>1, <1>5, <1>6, <3>2 DEF Installs, EntryKept
    <3> QED
      BY <3>1, <3>2
  <2>2. ASSUME NEW p \in Package PROVE RowsSuffice(p)'
    BY <1>1, <1>3, <1>5 DEF Installs, RowsSuffice
  <2> QED
    BY <2>1, <2>2 DEF Installs
<1>14. ASSUME NEW n \in DOMAIN toDl PROVE toDl[n].name \in Package
  <2>1. toDl[n] \in DlCall
    BY <1>1, SeqElement
  <2> QED
    BY <2>1, AddApplicationAssumption DEF DlCall, ResolveCalls, DownloadCalls
<1>15. ASSUME NEW n \in DOMAIN toDl, toDl[n].op = "download" PROVE toDl[n].name # name
  BY <1>7, <1>15 DEF IInv, DownloadsFit
<1>16. DownloadsFit'
  <2> SUFFICES ASSUME NEW n \in DOMAIN toDl', toDl'[n].op = "download"
               PROVE  LET u == sessions'[toDl'[n].name]
                      IN /\ u # NoSession /\ u.rows = <<>> /\ u.repo = toDl'[n].repo
                         /\ u.pins = toDl'[n].pins /\ u.needs = toDl'[n].names
                         /\ \A m \in DOMAIN toDl' :
                               toDl'[m].op = "download" /\ toDl'[m].name = toDl'[n].name => m = n
    BY DEF DownloadsFit
  <2>1. CASE n \in DOMAIN toDl
    <3>1. /\ toDl'[n] = toDl[n] /\ toDl[n].op = "download" /\ toDl[n].name # name
          /\ toDl[n].name \in Package
      BY <1>11, <1>14, <1>15, <2>1
    <3>2. sessions'[toDl[n].name] = sessions[toDl[n].name]
      BY <1>5, <3>1
    <3>3. ASSUME NEW m \in DOMAIN toDl', toDl'[m].op = "download",
                 toDl'[m].name = toDl'[n].name
          PROVE  m = n
      <4>1. m \in DOMAIN toDl /\ toDl'[m] = toDl[m]
        BY <1>10, <1>11, <3>1, <3>3
      <4> QED
        BY <2>1, <3>1, <3>3, <4>1 DEF IInv, DownloadsFit
    <3> QED
      BY <2>1, <3>1, <3>2, <3>3 DEF IInv, DownloadsFit
  <2>2. CASE n \notin DOMAIN toDl
    <3>1. toDl'[n] = call /\ n = Len(toDl) + 1
      BY <1>11, <2>2
    <3>2. ASSUME NEW m \in DOMAIN toDl', toDl'[m].op = "download", toDl'[m].name = name
          PROVE  m = n
      BY <1>11, <1>15, <3>1, <3>2
    <3> QED
      BY <1>3, <1>5, <1>10, <3>1, <3>2
  <2> QED
    BY <2>1, <2>2
<1>17. ResolvesFit'
  BY <1>2, <1>10, <1>11 DEF IInv, ResolvesFit
<1>18. AskedFits'
  <2>1. asked.name = name /\ dialog.picks[name] \in {Any, asked.version}
    BY <1>1 DEF AskedFits
  <2>2. ASSUME ~crossed PROVE DialogAgrees' /\ ResolvedAgrees' /\ SessionAgrees'
    <3>1. DialogAgrees
      BY <1>1, <2>2 DEF AskedFits
    <3>2. DialogAgrees'
      BY <3>1 DEF DialogAgrees, SameDialog, Wanted
    <3>3. dialog.repo = asked.repo /\ pins[name] \in {asked.version, Any}
      BY <2>1, <3>1 DEF DialogAgrees
    <3>4. ResolvedAgrees'
      BY <1>1, <1>2, <1>9, <3>3 DEF ResolvedAgrees
    <3>5. SessionAgrees'
      BY <1>1, <1>2, <1>3, <1>5, <3>3 DEF SessionAgrees
    <3> QED
      BY <3>2, <3>4, <3>5
  <2> QED
    BY <1>1, <1>2, <2>1, <2>2 DEF AskedFits, SameDialog
<1> QED
  BY <1>8, <1>9, <1>12, <1>13, <1>16, <1>17, <1>18 DEF IInv, Shapes

LEMMA InstallKeeps ==
    ASSUME IInv, Install
    PROVE  IInv'
<1> DEFINE name == dialog.name
           repo == dialog.repo
           pins == Pins(dialog)
           d == [dialog EXCEPT !.stage = "busy"]
           plan == BuildPlan(name, repo, pins, catalog)
<1>1. /\ Proper(dialog) /\ dialog.visible /\ catalog \in Catalogs
      /\ ConfirmCatalogInstall(name, repo, pins, d)
      /\ UNCHANGED <<catalog, installed, resolving, clearing, asked, crossed>>
  BY DEF IInv, Shapes, ShapeOfShown, Install, ActionEnabled, history
<1>2. name \in App /\ name \in Package /\ name # None
  BY <1>1, NamesDiffer, AddApplicationAssumption DEF Proper, Dialogs
<1>3. /\ pins \in Pinned
      /\ pins[name] = (IF dialog.picks[name] = Any THEN dialog.version ELSE dialog.picks[name])
  BY <1>1, <1>2, PinsFacts
<1>4. Proper(d) /\ SameDialog(d, dialog)
  BY <1>1 DEF Proper, Dialogs, SameDialog
<1> HIDE DEF pins, d
<1>5. CASE dialog' = d /\ UNCHANGED <<resolved, overlay, listed, ops, sessions, toDl>>
  <2>1. UNCHANGED <<catalog, installed, resolving, installs, toDl, asked, crossed>>
    BY <1>1, <1>5 DEF installs
  <2>2. dialog' = d /\ UNCHANGED <<resolved, overlay, listed>>
    BY <1>5
  <2> QED
    BY <1>2, <1>3, <1>4, <2>1, <2>2, RefusedInstallKeeps
<1>6. CASE /\ ops[name].stage = None /\ ~plan.valid
           /\ UNCHANGED <<ops, sessions, toDl>>
           /\ PresentCatalogResolutionError(name, repo, pins[name], "failed", d)
  <2>1. UNCHANGED <<catalog, installed, resolving, installs, toDl, asked, crossed>>
    BY <1>1, <1>6 DEF installs
  <2>2. sessions[name] = NoSession
    BY <1>2, <1>6 DEF IInv, Installs, EntryKept
  <2> QED
    BY <1>2, <1>3, <1>4, <1>6, <2>1, <2>2, RefusedInstallKeeps
<1>7. CASE /\ ops[name].stage = None /\ plan.valid
           /\ selected' = [selected EXCEPT ![name] = repo]
           /\ required' = [required EXCEPT ![name] = {repo} \X plan.names]
           /\ ops' = [ops EXCEPT ![name] = [stage |-> "busy", owner |-> name]]
           /\ sessions' = [sessions EXCEPT ![name] =
                             [repo |-> repo, pins |-> pins, rows |-> <<>>,
                              needs |-> Closure(name, repo, pins, catalog)]]
           /\ dialog' = d
           /\ toDl' = Append(toDl, [op |-> "download", name |-> name, repo |-> repo,
                                    pins |-> pins, names |-> plan.names])
           /\ UNCHANGED <<raw, changes, overlay, listed>>
  <2> DEFINE call == [op |-> "download", name |-> name, repo |-> repo,
                      pins |-> pins, names |-> plan.names]
  <2>1. /\ plan.names = Closure(name, repo, pins, catalog) /\ plan.names \in PlanNames
        /\ repo \in Repo
    BY <1>1, <1>2, <1>7, PlanIsClosure DEF PlanNames
  <2>2. UNCHANGED <<catalog, installed, resolving, raw, changes, overlay, listed,
                    clearing, asked, crossed>>
    BY <1>1, <1>7
  <2>3. Proper(dialog') /\ SameDialog(dialog', dialog)
    BY <1>4, <1>7
  <2>4. /\ selected' = [selected EXCEPT ![name] = repo]
        /\ required' = [required EXCEPT ![name] = {repo} \X plan.names]
        /\ ops' = [ops EXCEPT ![name] = [stage |-> "busy", owner |-> name]]
        /\ sessions' = [sessions EXCEPT ![name] =
                          [repo |-> repo, pins |-> pins, rows |-> <<>>, needs |-> plan.names]]
        /\ toDl' = Append(toDl, call)
        /\ ops[name].stage = None
    BY <1>7, <2>1
  <2> HIDE DEF plan
  <2> QED
    BY <1>2, <1>3, <2>1, <2>2, <2>3, <2>4, NewInstallKeeps
<1>8. \/ dialog' = d /\ UNCHANGED <<resolved, overlay, listed, ops, sessions, toDl>>
      \/ /\ ops[name].stage = None /\ ~plan.valid
         /\ UNCHANGED <<ops, sessions, toDl>>
         /\ PresentCatalogResolutionError(name, repo, pins[name], "failed", d)
      \/ /\ ops[name].stage = None /\ plan.valid
         /\ selected' = [selected EXCEPT ![name] = repo]
         /\ required' = [required EXCEPT ![name] = {repo} \X plan.names]
         /\ ops' = [ops EXCEPT ![name] = [stage |-> "busy", owner |-> name]]
         /\ sessions' = [sessions EXCEPT ![name] =
                           [repo |-> repo, pins |-> pins, rows |-> <<>>,
                            needs |-> Closure(name, repo, pins, catalog)]]
         /\ dialog' = d
         /\ toDl' = Append(toDl, [op |-> "download", name |-> name, repo |-> repo,
                                  pins |-> pins, names |-> plan.names])
         /\ UNCHANGED <<raw, changes, overlay, listed>>
  BY <1>1 DEF ConfirmCatalogInstall
<1> QED
  BY <1>5, <1>6, <1>7, <1>8

-----------------------------------------------------------------------------
(* Timers and refreshes *)

LEMMA ClearTimerKeeps ==
    ASSUME IInv, NEW name \in Package, ClearTimer(name)
    PROVE  IInv'
<1>1. /\ name \in clearing /\ clearing' = clearing \ {name}
      /\ ops' = [p \in Package |-> IF ops[p].owner = name THEN NoOp ELSE ops[p]]
      /\ UNCHANGED <<catalog, installed, resolving, resolved, shown, sessions, toDl, history>>
  BY DEF ClearTimer
<1>2. UNCHANGED <<catalog, installed, active, epochs, selected, required, raw, changes, overlay,
                  listed, dialog, sessions, toDl, asked, crossed>>
  BY <1>1 DEF resolving, resolved, shown, history
<1>3. NoOp \in Op /\ NoOp.owner = None /\ NoOp.stage = None /\ name # None
  BY NamesDiffer DEF NoOp, Op
<1>4. ops \in [Package -> Op] /\ Installs
  BY DEF IInv, Shapes, ShapeOfInstalls
<1>5. ASSUME NEW p \in Package PROVE EntryKept(p)'
  <2>1. ops'[p] = IF ops[p].owner = name THEN NoOp ELSE ops[p]
    BY <1>1
  <2>2. EntryKept(p) /\ EntryKept(name)
    BY <1>4 DEF Installs
  <2>3. sessions'[p] = sessions[p] /\ (p \in clearing' <=> p \in clearing /\ p # name)
    BY <1>1
  <2>4. CASE ops[p].owner = name
    <3>1. ops'[p] = NoOp
      BY <2>1, <2>4
    <3>2. sessions[p] = NoSession
      BY <1>1, <2>2, <2>4 DEF EntryKept
    <3>3. p \notin clearing'
      BY <2>2, <2>3, <2>4 DEF EntryKept
    <3>4. p # None
      BY NamesDiffer
    <3> QED
      BY <1>3, <2>3, <3>1, <3>2, <3>3, <3>4 DEF EntryKept
  <2>5. CASE ops[p].owner # name
    <3>1. ops'[p] = ops[p]
      BY <2>1, <2>5
    <3> QED
      BY <2>2, <2>3, <2>5, <3>1 DEF EntryKept
  <2> QED
    BY <2>4, <2>5
<1>6. Installs'
  BY <1>2, <1>4, <1>5 DEF Installs, RowsSuffice
<1>7. ShapeOfShown' /\ ShapeOfResolved'
  BY <1>2 DEF IInv, Shapes, ShapeOfShown, ShapeOfResolved, Rows
<1>8. ShapeOfInstalls'
  <2>1. ops' \in [Package -> Op]
    BY <1>1, <1>3, <1>4
  <2> QED
    BY <1>1, <1>2, <2>1 DEF IInv, Shapes, ShapeOfInstalls
<1>9. DownloadsFit' /\ ResolvesFit'
  BY <1>2 DEF IInv, DownloadsFit, ResolvesFit
<1>10. AskedFits'
  BY <1>2 DEF IInv, AskedFits, DialogAgrees, ResolvedAgrees, SessionAgrees, Wanted
<1> QED
  BY <1>6, <1>7, <1>8, <1>9, <1>10 DEF IInv, Shapes

LEMMA CatalogRefreshedKeeps ==
    ASSUME IInv, NEW c \in Catalogs, CatalogRefreshed(c)
    PROVE  IInv'
<1>1. /\ catalog' = c
      /\ overlay' = [k \in DOMAIN overlay \cap RowsOf(c, installed) |-> overlay[k]]
      /\ UNCHANGED <<installed, resolving, resolved, listed, dialog, installs, toDl, asked, crossed>>
  BY DEF CatalogRefreshed
<1>2. UNCHANGED <<installed, active, epochs, selected, required, raw, changes,
                  listed, dialog, ops, sessions, clearing, toDl, asked, crossed>>
  BY <1>1 DEF resolving, resolved, installs
<1>3. DOMAIN overlay' = DOMAIN overlay \cap RowsOf(c, installed)
  BY <1>1
<1>4. ShapeOfShown'
  BY <1>1, <1>2, <1>3 DEF IInv, Shapes, ShapeOfShown, Rows
<1>5. ShapeOfResolved' /\ ShapeOfInstalls'
  BY <1>2 DEF IInv, Shapes, ShapeOfResolved, ShapeOfInstalls
<1>6. Installs' /\ DownloadsFit' /\ ResolvesFit'
  BY <1>2 DEF IInv, Installs, EntryKept, RowsSuffice, DownloadsFit, ResolvesFit
<1>7. AskedFits'
  BY <1>2, <1>3 DEF IInv, AskedFits, DialogAgrees, ResolvedAgrees, SessionAgrees, Wanted
<1> QED
  BY <1>4, <1>5, <1>6, <1>7 DEF IInv, Shapes

-----------------------------------------------------------------------------
(* Answers *)

LEMMA DroppedCall ==
    ASSUME IInv, NEW i \in DOMAIN toDl, toDl' = Drop(toDl, i),
           UNCHANGED <<epochs, active, asked>>,
           \A p \in Package : \/ toDl[i].op = "download" /\ p = toDl[i].name
                             \/ sessions'[p] = sessions[p]
    PROVE  toDl' \in Seq(DlCall) /\ DownloadsFit' /\ ResolvesFit'
<1>1. toDl \in Seq(DlCall)
  BY DEF IInv, Shapes, ShapeOfInstalls
<1>2. /\ toDl' \in Seq(DlCall)
      /\ \A m \in DOMAIN toDl' :
           \E n \in DOMAIN toDl :
              n # i /\ n = (IF m < i THEN m ELSE m + 1) /\ toDl'[m] = toDl[n]
  BY <1>1, DropFacts
<1>3. DOMAIN toDl' \subseteq Int /\ i \in Int
  BY <1>1, <1>2
<1>4. ASSUME NEW n \in DOMAIN toDl PROVE toDl[n].name \in Package
  <2>1. toDl[n] \in DlCall
    BY <1>1, SeqElement
  <2> QED
    BY <2>1, AddApplicationAssumption DEF DlCall, ResolveCalls, DownloadCalls
<1>5. DownloadsFit'
  <2> SUFFICES ASSUME NEW m \in DOMAIN toDl', toDl'[m].op = "download"
               PROVE  LET u == sessions'[toDl'[m].name]
                      IN /\ u # NoSession /\ u.rows = <<>> /\ u.repo = toDl'[m].repo
                         /\ u.pins = toDl'[m].pins /\ u.needs = toDl'[m].names
                         /\ \A l \in DOMAIN toDl' :
                               toDl'[l].op = "download" /\ toDl'[l].name = toDl'[m].name => l = m
    BY DEF DownloadsFit
  <2>1. PICK n \in DOMAIN toDl : n # i /\ n = (IF m < i THEN m ELSE m + 1) /\ toDl'[m] = toDl[n]
    BY <1>2
  <2>2. toDl[i].op = "download" => toDl[i].name # toDl[n].name
    BY <2>1 DEF IInv, DownloadsFit
  <2>3. sessions'[toDl[n].name] = sessions[toDl[n].name]
    BY <1>4, <2>2
  <2>4. ASSUME NEW l \in DOMAIN toDl', toDl'[l].op = "download", toDl'[l].name = toDl'[m].name
        PROVE  l = m
    <3>1. PICK k \in DOMAIN toDl : k # i /\ k = (IF l < i THEN l ELSE l + 1) /\ toDl'[l] = toDl[k]
      BY <1>2
    <3>2. k = n
      BY <2>1, <2>4, <3>1 DEF IInv, DownloadsFit
    <3> QED
      BY <1>3, <2>1, <3>1, <3>2
  <2> QED
    BY <2>1, <2>3, <2>4 DEF IInv, DownloadsFit
<1>6. ResolvesFit'
  <2> SUFFICES ASSUME NEW m \in DOMAIN toDl', toDl'[m].op = "resolve"
               PROVE  /\ toDl'[m].epoch <= epochs[toDl'[m].name]
                      /\ toDl'[m].epoch = epochs[toDl'[m].name] /\ toDl'[m].name = active =>
                           toDl'[m].repo = asked.repo /\ toDl'[m].pins[active] = asked.version
    BY DEF ResolvesFit
  <2>1. PICK n \in DOMAIN toDl : toDl'[m] = toDl[n]
    BY <1>2
  <2> QED
    BY <2>1 DEF IInv, ResolvesFit
<1> QED
  BY <1>2, <1>5, <1>6

\* Installing takes no row away.
LEMMA RowsGrow ==
    ASSUME NEW c, NEW known, NEW more, \A p \in Package : known[p] # Any => more[p] # Any
    PROVE  RowsOf(c, known) \subseteq RowsOf(c, more)
  BY DEF RowsOf

\* What the dialog shows after it has been told of some app.
LEMMA TellKeeps ==
    ASSUME ShapeOfShown, AskedFits, active' = active, UNCHANGED <<catalog, asked>>,
           installed' \in Pinned, \A p \in Package : installed[p] # Any => installed'[p] # Any,
           NEW name \in Package, NEW repo, name = active => repo \in Url, NEW version \in Nat,
           NEW ch, NEW how,
           NEW d, Proper(d), SameDialog(d, dialog), ops'[name].stage \in Stages,
           EmitDialogMetadata(name, repo, version, ch, how, d)
    PROVE  /\ ShapeOfShown'
           /\ active # None => dialog'.picks = dialog.picks
           /\ name = active /\ how # "failed" => dialog'.stage = ops'[name].stage
           /\ /\ active # None /\ ~crossed
              /\ name = active =>
                   /\ repo = asked.repo /\ version \in {asked.version, Any}
                   /\ OfRepo(ch, repo, name) /\ \A x \in required'[name] : x[1] = repo
              => DialogAgrees'
<1>1. /\ active = dialog.name /\ d.name = active /\ name # None /\ catalog \in Catalogs
      /\ DOMAIN overlay \subseteq Rows /\ active \in App \cup {None}
  BY NamesDiffer DEF ShapeOfShown, SameDialog
<1>2. CASE name = active
  <2>1. /\ Proper(dialog') /\ dialog'.name = name /\ dialog'.repo = repo
        /\ dialog'.version = version
        /\ dialog'.picks = (IF d.visible THEN d.picks ELSE NoPins)
        /\ how # "failed" => dialog'.stage = ops'[name].stage
        /\ overlay' = OverlayOf(RowsOf(catalog, installed'), ch)
        /\ listed' = RequiredEntries(name, repo, ch, required'[name])
    <3>1. name \in App /\ repo \in Url /\ d.name = name
      BY <1>1, <1>2
    <3> QED
      BY <1>2, <3>1, EmitToDialog
  <2>2. DOMAIN overlay' \subseteq RowsOf(catalog, installed')
    BY <2>1, OverlayRows
  <2>3. ShapeOfShown'
    BY <1>1, <1>2, <2>1, <2>2 DEF ShapeOfShown, Rows
  <2>4. dialog'.picks = dialog.picks
    BY <1>1, <1>2, <2>1 DEF SameDialog, Proper
  <2>5. ASSUME ~crossed, repo = asked.repo, version \in {asked.version, Any},
               OfRepo(ch, repo, name), \A x \in required'[name] : x[1] = repo
        PROVE  DialogAgrees'
    <3>1. asked.name = name
      BY <1>1, <1>2 DEF AskedFits
    <3>2. \A k \in listed' \cup DOMAIN overlay' : k[1] = repo \/ (repo = Local /\ k[2] = name)
      BY <2>1, <2>5, ShownFits DEF OfRepo
    <3> QED
      BY <2>1, <2>5, <3>1, <3>2 DEF DialogAgrees, Wanted
  <2> QED
    BY <1>2, <2>1, <2>3, <2>4, <2>5
<1>3. CASE name # active
  <2>1. Proper(dialog') /\ SameDialog(dialog', d) /\ UNCHANGED <<overlay, listed>>
    BY <1>3, EmitToNobody
  <2>2. SameDialog(dialog', dialog)
    BY <2>1 DEF SameDialog
  <2>3. DOMAIN overlay' \subseteq RowsOf(catalog, installed')
    BY <1>1, <2>1, RowsGrow DEF Rows
  <2>4. ShapeOfShown'
    BY <1>1, <2>1, <2>2, <2>3 DEF ShapeOfShown, SameDialog, Rows
  <2>5. ASSUME active # None, ~crossed PROVE DialogAgrees'
    BY <2>1, <2>2, <2>5 DEF AskedFits, DialogAgrees, SameDialog, Wanted
  <2> QED
    BY <1>3, <2>2, <2>4, <2>5 DEF SameDialog
<1> QED
  BY <1>2, <1>3

LEMMA ComputedFacts ==
    ASSUME NEW answer \in Seq(Row), NEW known
    PROVE  LET ch == ComputeDepChanges(answer, known)
           IN /\ DOMAIN ch \subseteq Repo \X Package
              /\ \A i \in DOMAIN answer : \E k \in DOMAIN ch : k[1] = answer[i].repo
              /\ \A repo \in Repo : \A name :
                    (\A i \in DOMAIN answer : answer[i].repo = repo) => OfRepo(ch, repo, name)
<1> DEFINE ch == ComputeDepChanges(answer, known)
<1>1. DOMAIN ch = {<<answer[i].repo, answer[i].name>> : i \in DOMAIN answer}
  BY DEF ComputeDepChanges
<1> HIDE DEF ch
<1>2. ASSUME NEW i \in DOMAIN answer PROVE answer[i].repo \in Repo /\ answer[i].name \in Package
  <2>1. answer[i] \in Row
    BY SeqElement
  <2> QED
    BY <2>1 DEF Row
<1>3. DOMAIN ch \subseteq Repo \X Package
  BY <1>1, <1>2
<1>4. \A i \in DOMAIN answer : \E k \in DOMAIN ch : k[1] = answer[i].repo
  <2> SUFFICES ASSUME NEW i \in DOMAIN answer PROVE \E k \in DOMAIN ch : k[1] = answer[i].repo
    OBVIOUS
  <2>1. <<answer[i].repo, answer[i].name>> \in DOMAIN ch
    BY <1>1
  <2> QED
    BY <2>1
<1>5. ASSUME NEW repo \in Repo, NEW name, \A i \in DOMAIN answer : answer[i].repo = repo
      PROVE  OfRepo(ch, repo, name)
  BY <1>1, <1>5, NamesDiffer DEF OfRepo
<1> QED
  BY <1>3, <1>4, <1>5 DEF ch

LEMMA CallTyped ==
    ASSUME Shapes, NEW i \in DOMAIN toDl
    PROVE  /\ toDl[i].name \in App /\ toDl[i].name \in Package /\ toDl[i].repo \in Repo
           /\ toDl[i].repo \in Url /\ toDl[i].repo # Local
           /\ toDl[i].pins[toDl[i].name] \in Nat /\ toDl[i].names \in PlanNames
           /\ toDl[i].op \in {"resolve", "download"} /\ toDl[i] \in DlCall
<1>1. toDl[i] \in DlCall
  BY SeqElement DEF Shapes, ShapeOfInstalls
<1> QED
  BY <1>1, NamesDiffer, AddApplicationAssumption
     DEF DlCall, ResolveCalls, DownloadCalls, Pinned, Url

\* An answer is taken over: its rows and the changes they make.
Taken(name, answer, known) ==
    /\ raw' = [raw EXCEPT ![name] = answer]
    /\ changes' = [changes EXCEPT ![name] = ComputeDepChanges(answer, known)]
    /\ UNCHANGED <<selected, required>>

LEMMA TakenFacts ==
    ASSUME ShapeOfResolved, NEW name \in Package, NEW answer \in Seq(Row), NEW known,
           Taken(name, answer, known),
           epochs' = epochs
    PROVE  /\ ShapeOfResolved'
           /\ raw'[name] = answer /\ changes'[name] = ComputeDepChanges(answer, known)
           /\ \A p \in Package : p # name => raw'[p] = raw[p] /\ changes'[p] = changes[p]
<1>1. DOMAIN ComputeDepChanges(answer, known) \subseteq Repo \X Package
  BY ComputedFacts
<1>2. /\ raw' \in [Package -> Seq(Row)] /\ DOMAIN changes' = Package
      /\ raw'[name] = answer /\ changes'[name] = ComputeDepChanges(answer, known)
      /\ \A p \in Package : p # name => raw'[p] = raw[p] /\ changes'[p] = changes[p]
  BY DEF ShapeOfResolved, Taken
<1>3. ASSUME NEW p \in Package PROVE DOMAIN changes'[p] \subseteq Repo \X Package
  <2>1. CASE p = name
    BY <1>1, <1>2, <2>1
  <2>2. CASE p # name
    BY <1>2, <2>2 DEF ShapeOfResolved
  <2> QED
    BY <2>1, <2>2
<1> QED
  BY <1>2, <1>3 DEF ShapeOfResolved, Taken

LEMMA ResolveAnsweredKeeps ==
    ASSUME IInv, NEW i \in DOMAIN toDl, toDl' = Drop(toDl, i), toDl[i].op = "resolve",
           NEW answer \in Seq(Row), ResolveAnswered(toDl[i], answer),
           UNCHANGED <<catalog, asked, crossed>>
    PROVE  IInv'
<1> DEFINE call == toDl[i]
           name == toDl[i].name
           repo == toDl[i].repo
           version == toDl[i].pins[toDl[i].name]
<1>1. /\ name \in App /\ name \in Package /\ repo \in Repo /\ repo \in Url /\ repo # Local
      /\ version \in Nat /\ call.names \in PlanNames
  BY CallTyped DEF IInv
<1>2. /\ UNCHANGED <<installed, active, epochs, ops, sessions, clearing>>
  BY DEF ResolveAnswered, installs
<1>3. /\ ShapeOfShown /\ ShapeOfResolved /\ ShapeOfInstalls /\ Installs /\ AskedFits
      /\ Proper(dialog) /\ installed \in Pinned /\ active \in App \cup {None}
      /\ ops \in [Package -> Op]
  BY DEF IInv, Shapes, ShapeOfShown, ShapeOfInstalls
<1>4. toDl' \in Seq(DlCall) /\ DownloadsFit' /\ ResolvesFit'
  BY <1>2, DroppedCall
<1>5. ShapeOfInstalls'
  BY <1>2, <1>3, <1>4 DEF ShapeOfInstalls
<1>6. \A p \in Package : EntryKept(p)'
  BY <1>2, <1>3 DEF Installs, EntryKept
<1>7. SameDialog(dialog, dialog) /\ ops'[name].stage \in Stages
  BY <1>1, <1>2, <1>3 DEF SameDialog, Op, Stages
<1>8. CASE UNCHANGED <<resolved, shown>>
  <2>1. UNCHANGED <<selected, required, raw, changes, overlay, listed, dialog>>
    BY <1>8 DEF resolved, shown
  <2>2. ShapeOfShown' /\ ShapeOfResolved'
    BY <1>2, <1>3, <2>1 DEF ShapeOfShown, ShapeOfResolved, Rows
  <2>3. Installs'
    BY <1>2, <1>3, <1>6, <2>1 DEF Installs, RowsSuffice
  <2>4. AskedFits'
    BY <1>2, <1>3, <2>1 DEF AskedFits, DialogAgrees, ResolvedAgrees, SessionAgrees, Wanted
  <2> QED
    BY <1>4, <1>5, <2>2, <2>3, <2>4 DEF IInv, Shapes
<1>9. ASSUME epochs[name] = call.epoch, active = name
      PROVE  repo = asked.repo /\ version = asked.version
  BY <1>9 DEF IInv, ResolvesFit
<1>10. CASE /\ epochs[name] = call.epoch
            /\ PresentCatalogResolutionError(name, repo, version, "update", dialog)
  <2> DEFINE ch == ErrorChange(<<repo, name>>)
  <2>1. /\ ResolvedChanges(name, repo, {})
        /\ EmitDialogMetadata(name, repo, version, ch, "update", dialog)
    BY <1>10, ForgottenChanges DEF PresentCatalogResolutionError
  <2>2. OfRepo(ch, repo, name)
    BY ErrorIsOfRepo
  <2> HIDE DEF ch, name, repo, version
  <2>3. {} \in SUBSET (Url \X Package) /\ epochs' \in [Package -> Nat]
    BY <1>2, <1>3 DEF ShapeOfResolved
  <2>4. /\ ShapeOfResolved' /\ selected'[name] = repo /\ required'[name] = {}
        /\ \A p \in Package : p # name => raw'[p] = raw[p] /\ changes'[p] = changes[p]
        /\ raw'[name] = raw[name] \/ DOMAIN raw'[name] = {}
    BY <1>1, <1>3, <2>1, <2>3, ResolvedChangesFacts
  <2>5. Installs'
    BY <1>1, <1>2, <1>3, <1>6, <2>1, RowsSufficeKept DEF Installs
  <2>6. \A p \in Package : installed[p] # Any => installed'[p] # Any
    BY <1>2
  <2>7. /\ ShapeOfShown' /\ (active # None => dialog'.picks = dialog.picks)
        /\ /\ active # None /\ ~crossed
           /\ name = active =>
                /\ repo = asked.repo /\ version \in {asked.version, Any}
                /\ OfRepo(ch, repo, name) /\ \A x \in required'[name] : x[1] = repo
           => DialogAgrees'
    BY <1>1, <1>2, <1>3, <1>7, <2>1, <2>6, TellKeeps
  <2>8. ASSUME active # None, ~crossed
        PROVE  DialogAgrees' /\ ResolvedAgrees' /\ SessionAgrees'
    <3>1. ResolvedAgrees /\ SessionAgrees
      BY <1>3, <2>8 DEF AskedFits
    <3>2. DialogAgrees'
      BY <1>9, <1>10, <2>2, <2>4, <2>7, <2>8
    <3>3. CASE name = active
      <4>1. ResolvedAgrees'
        BY <1>2, <1>9, <1>10, <2>4, <3>3 DEF ResolvedAgrees
      <4>2. SessionAgrees'
        BY <1>2, <2>4, <3>1, <3>3 DEF SessionAgrees
      <4> QED
        BY <3>2, <4>1, <4>2
    <3>4. CASE name # active
      <4>1. active \in Package
        BY <1>3, <2>8, AddApplicationAssumption
      <4>2. selected'[active] = selected[active] /\ required'[active] = required[active]
        BY <1>3, <2>1, <3>4, <4>1 DEF ResolvedChanges, ShapeOfResolved
      <4>3. ResolvedAgrees'
        BY <1>2, <3>1, <4>2 DEF ResolvedAgrees
      <4>4. SessionAgrees'
        BY <1>2, <2>4, <3>1, <3>4, <4>1 DEF SessionAgrees
      <4> QED
        BY <3>2, <4>3, <4>4
    <3> QED
      BY <3>3, <3>4
  <2>9. AskedFits'
    BY <1>2, <1>3, <2>7, <2>8 DEF AskedFits
  <2> QED
    BY <1>4, <1>5, <2>4, <2>5, <2>7, <2>9 DEF IInv, Shapes
<1>11. CASE /\ epochs[name] = call.epoch /\ Validated(answer, repo, call.names)
            /\ Taken(name, answer, installed)
            /\ EmitDialogMetadata(name, repo, version, ComputeDepChanges(answer, installed),
                                  "update", dialog)
  <2> DEFINE ch == ComputeDepChanges(answer, installed)
  <2>1. \A j \in DOMAIN answer : answer[j].repo = repo
    BY <1>1, <1>11, ValidatedFacts
  <2>2. /\ OfRepo(ch, repo, name)
        /\ \A j \in DOMAIN answer : \E k \in DOMAIN ch : k[1] = answer[j].repo
    BY <1>1, <2>1, ComputedFacts
  <2> HIDE DEF name, repo, version
  <2>3. /\ ShapeOfResolved' /\ raw'[name] = answer /\ changes'[name] = ch
        /\ \A p \in Package : p # name => raw'[p] = raw[p] /\ changes'[p] = changes[p]
    BY <1>1, <1>2, <1>3, <1>11, TakenFacts
  <2>4. EmitDialogMetadata(name, repo, version, ch, "update", dialog)
    BY <1>11
  <2> HIDE DEF ch
  <2>5. Installs'
    <3>1. ASSUME NEW p \in Package PROVE RowsSuffice(p)'
      <4>1. CASE p = name
        BY <1>2, <1>3, <2>2, <2>3, <4>1 DEF Installs, RowsSuffice
      <4>2. CASE p # name
        BY <1>2, <1>3, <2>3, <4>2 DEF Installs, RowsSuffice
      <4> QED
        BY <4>1, <4>2
    <3> QED
      BY <1>6, <3>1 DEF Installs
  <2>6. \A p \in Package : installed[p] # Any => installed'[p] # Any
    BY <1>2
  <2>7. /\ ShapeOfShown' /\ (active # None => dialog'.picks = dialog.picks)
        /\ /\ active # None /\ ~crossed
           /\ name = active =>
                /\ repo = asked.repo /\ version \in {asked.version, Any}
                /\ OfRepo(ch, repo, name) /\ \A x \in required'[name] : x[1] = repo
           => DialogAgrees'
    BY <1>1, <1>2, <1>3, <1>7, <2>4, <2>6, TellKeeps
  <2>8. ASSUME active # None, ~crossed
        PROVE  DialogAgrees' /\ ResolvedAgrees' /\ SessionAgrees'
    <3>1. ResolvedAgrees /\ SessionAgrees
      BY <1>3, <2>8 DEF AskedFits
    <3>2. ResolvedAgrees'
      BY <1>2, <1>11, <3>1 DEF ResolvedAgrees, Taken
    <3>3. name = active => \A x \in required'[name] : x[1] = asked.repo
      BY <1>2, <3>2 DEF ResolvedAgrees
    <3>4. DialogAgrees'
      BY <1>9, <1>11, <2>2, <2>7, <2>8, <3>3
    <3>5. SessionAgrees'
      <4>1. CASE name = active
        BY <1>2, <1>9, <1>11, <2>1, <2>3, <3>1, <4>1 DEF SessionAgrees
      <4>2. CASE name # active
        <5>1. active \in Package
          BY <1>3, <2>8, AddApplicationAssumption
        <5> QED
          BY <1>2, <2>3, <3>1, <4>2, <5>1 DEF SessionAgrees
      <4> QED
        BY <4>1, <4>2
    <3> QED
      BY <3>2, <3>4, <3>5
  <2>9. AskedFits'
    BY <1>2, <1>3, <2>7, <2>8 DEF AskedFits
  <2> QED
    BY <1>4, <1>5, <2>3, <2>5, <2>7, <2>9 DEF IInv, Shapes
<1> QED
  BY <1>8, <1>10, <1>11 DEF ResolveAnswered, Taken

-----------------------------------------------------------------------------
(* The registry and the end of an install *)

\* t is the registry o after some stages of the install of name.
Grown(o, t, name) ==
    /\ t \in [Package -> Op]
    /\ \A p \in Package :
          /\ t[p].owner = None <=> t[p].stage = None
          /\ t[p].owner = o[p].owner \/ (o[p].owner = None /\ t[p].owner = name)

LEMMA GrownIsTransitive ==
    ASSUME NEW o, NEW t, NEW u, NEW name, Grown(o, t, name), Grown(t, u, name)
    PROVE  Grown(o, u, name)
  BY DEF Grown

LEMMA TrackedGrows ==
    ASSUME NEW o \in [Package -> Op], NEW names, NEW stage \in Stages \ {None},
           NEW name \in Package, \A p \in Package : o[p].owner = None <=> o[p].stage = None
    PROVE  Grown(o, Tracked(o, names, stage, name), name)
<1> DEFINE t == Tracked(o, names, stage, name)
           new(p) == [stage |-> stage, owner |-> IF o[p].stage = None THEN name ELSE o[p].owner]
<1>1. ASSUME NEW p \in Package
      PROVE  /\ o[p] \in Op /\ new(p) \in Op /\ new(p).stage = stage
             /\ new(p).owner = (IF o[p].stage = None THEN name ELSE o[p].owner)
  <2>1. o[p] \in Op
    OBVIOUS
  <2> QED
    BY <2>1 DEF Op, Stages
<1> HIDE DEF new
<1>2. t = [p \in Package |-> IF p \in names THEN new(p) ELSE o[p]]
  BY DEF Tracked, new
<1> HIDE DEF t
<1>3. t \in [Package -> Op]
  BY <1>1, <1>2
<1>4. ASSUME NEW p \in Package
      PROVE  /\ t[p].owner = None <=> t[p].stage = None
             /\ t[p].owner = o[p].owner \/ (o[p].owner = None /\ t[p].owner = name)
  <2>1. t[p] = IF p \in names THEN new(p) ELSE o[p]
    BY <1>2
  <2>2. name # None /\ stage # None
    BY NamesDiffer
  <2> QED
    BY <1>1, <2>1, <2>2
<1> QED
  BY <1>3, <1>4 DEF Grown, t

LEMMA StagedGrows ==
    ASSUME NEW o \in [Package -> Op], NEW p \in Package, NEW stage \in Stages \ {None},
           NEW name, \A q \in Package : o[q].owner = None <=> o[q].stage = None
    PROVE  /\ Grown(o, StagedOps(o, p, stage), name)
           /\ o[p].stage # None => StagedOps(o, p, stage)[p].stage = stage
<1> DEFINE t == [o EXCEPT ![p].stage = stage]
           new == [o[p] EXCEPT !.stage = stage]
<1>1. o[p] \in Op /\ new \in Op /\ new.stage = stage /\ new.owner = o[p].owner
  <2>1. o[p] \in Op
    OBVIOUS
  <2> QED
    BY <2>1 DEF Op, Stages
<1>2. t = [o EXCEPT ![p] = new]
  OBVIOUS
<1> HIDE DEF new, t
<1>3. t \in [Package -> Op] /\ t[p] = new /\ \A q \in Package : q # p => t[q] = o[q]
  BY <1>1, <1>2
<1>4. o[p].stage # None => Grown(o, t, name)
  BY <1>1, <1>3 DEF Grown
<1>5. Grown(o, o, name)
  BY DEF Grown
<1>6. StagedOps(o, p, stage) = IF o[p].stage = None THEN o ELSE t
  BY DEF StagedOps, t
<1> QED
  BY <1>1, <1>3, <1>4, <1>5, <1>6

\* An install of name that goes on or ends.
SessionMoves(name) ==
    \/ SessionOver(name)
    \/ \E s \in Session : sessions' = [sessions EXCEPT ![name] = s] /\ UNCHANGED clearing

LEMMA EntriesKept ==
    ASSUME ShapeOfInstalls, Installs, NEW name \in Package, sessions[name] # NoSession,
           Grown(ops, ops', name), SessionMoves(name), toDl' \in Seq(DlCall)
    PROVE  /\ ShapeOfInstalls' /\ \A p \in Package : EntryKept(p)'
           /\ \A p \in Package : p # name => sessions'[p] = sessions[p]
           /\ SessionOver(name) => sessions'[name] = NoSession
<1>1. /\ sessions \in [Package -> Session \cup {NoSession}] /\ clearing \subseteq Package
      /\ ops' \in [Package -> Op]
  BY DEF ShapeOfInstalls, Grown
<1>2. name # None /\ NoSession \notin Session
  BY NamesDiffer DEF NoSession, Session
<1>3. /\ ops[name].owner = name /\ name \notin clearing
  BY DEF Installs, EntryKept
<1>4. PICK s \in Session \cup {NoSession} :
        /\ sessions' = [sessions EXCEPT ![name] = s]
        /\ clearing' = (IF s = NoSession THEN clearing \cup {name} ELSE clearing)
        /\ SessionOver(name) => s = NoSession
  <2>1. CASE SessionOver(name)
    BY <2>1 DEF SessionOver
  <2>2. CASE ~SessionOver(name)
    BY <1>2, <2>2 DEF SessionMoves
  <2> QED
    BY <2>1, <2>2
<1>5. /\ sessions' \in [Package -> Session \cup {NoSession}] /\ sessions'[name] = s
      /\ \A p \in Package : p # name => sessions'[p] = sessions[p]
  BY <1>1, <1>4
<1>6. ShapeOfInstalls'
  BY <1>1, <1>4, <1>5 DEF ShapeOfInstalls
<1>7. ASSUME NEW p \in Package PROVE EntryKept(p)'
  <2>1. /\ ops'[p].owner = None <=> ops'[p].stage = None
        /\ ops'[p].owner = ops[p].owner \/ (ops[p].owner = None /\ ops'[p].owner = name)
    BY DEF Grown
  <2>2. EntryKept(p) /\ p # None
    BY NamesDiffer DEF Installs
  <2>3. CASE p = name
    <3>1. ops'[p].owner = name
      BY <1>2, <1>3, <2>1, <2>3
    <3>2. s = NoSession => p \in clearing'
      BY <1>4, <2>3
    <3>3. s # NoSession => p \notin clearing'
      BY <1>3, <1>4, <2>3
    <3> QED
      BY <1>5, <2>1, <2>3, <3>1, <3>2, <3>3 DEF EntryKept
  <2>4. CASE p # name
    <3>1. ops'[p].owner = p <=> ops[p].owner = p
      BY <2>1, <2>2, <2>4
    <3>2. p \in clearing' <=> p \in clearing
      BY <1>4, <2>4
    <3> QED
      BY <1>5, <2>1, <2>2, <2>4, <3>1, <3>2 DEF EntryKept
  <2> QED
    BY <2>3, <2>4
<1> QED
  BY <1>4, <1>5, <1>6, <1>7

LEMMA FinishedKeeps ==
    ASSUME Shapes, Installs, AskedFits, Chosen,
           NEW name \in Package, sessions[name] # NoSession,
           NEW o, Grown(ops, o, name), Finished(name, o),
           NEW answer \in Seq(Row), raw' = [raw EXCEPT ![name] = answer],
           UNCHANGED <<catalog, active, epochs, selected, required, asked, crossed>>,
           installed' \in Pinned, \A p \in Package : installed[p] # Any => installed'[p] # Any,
           active = name /\ ~crossed => \A j \in DOMAIN answer : answer[j].repo = asked.repo,
           toDl' \in Seq(DlCall)
    PROVE  /\ Shapes' /\ Installs' /\ AskedFits'
           /\ \A p \in Package : p # name => sessions'[p] = sessions[p]
           /\ dialog'.name = name => dialog'.stage # "busy" \/ raw'[name] = <<>>
<1> DEFINE d == Completed(StagedDialog(dialog, o, name, "installed"), name)
           ch == ComputeDepChanges(answer, installed')
<1>1. /\ ShapeOfShown /\ ShapeOfResolved /\ ShapeOfInstalls /\ Proper(dialog)
      /\ active \in App \cup {None} /\ active = dialog.name /\ name # None
      /\ DOMAIN overlay \subseteq Rows /\ catalog \in Catalogs
      /\ selected \in [Package -> Url \cup {None}]
  BY NamesDiffer DEF Shapes, ShapeOfShown, ShapeOfResolved
<1>2. /\ ops' = StagedOps(o, name, "installed") /\ SessionOver(name)
      /\ RefreshOverlayAfterInstall(name, d)
  BY DEF Finished
<1>3. "installed" \in Stages \ {None} /\ "installed" \in Stages
  BY DEF Stages, None
<1>4. Proper(d) /\ SameDialog(d, dialog)
  <2>1. Proper(StagedDialog(dialog, o, name, "installed"))
        /\ SameDialog(StagedDialog(dialog, o, name, "installed"), dialog)
    BY <1>1, <1>3, StagedDialogFacts
  <2> QED
    BY <2>1, CompletedFacts, SameIsTransitive
<1> HIDE DEF d
<1>5. /\ Grown(ops, ops', name) /\ ops'[name].stage = "installed"
  <2>1. ops[name].owner = name
    BY DEF Installs, EntryKept
  <2>2. /\ o \in [Package -> Op] /\ \A p \in Package : o[p].owner = None <=> o[p].stage = None
        /\ o[name].stage # None
    BY <1>1, <2>1 DEF Grown
  <2>3. Grown(o, ops', name) /\ ops'[name].stage = "installed"
    BY <1>2, <1>3, <2>2, StagedGrows
  <2> QED
    BY <2>3, GrownIsTransitive
<1>6. /\ ShapeOfInstalls' /\ \A p \in Package : EntryKept(p)'
      /\ \A p \in Package : p # name => sessions'[p] = sessions[p]
      /\ sessions'[name] = NoSession
  BY <1>1, <1>2, <1>5, EntriesKept DEF SessionMoves
<1>7. /\ raw' \in [Package -> Seq(Row)] /\ raw'[name] = answer
      /\ \A p \in Package : p # name => raw'[p] = raw[p]
  BY <1>1 DEF ShapeOfResolved
<1>8. ASSUME \A p \in Package : p # name => changes'[p] = changes[p]
      PROVE  Installs'
  <2>1. ASSUME NEW p \in Package PROVE RowsSuffice(p)'
    <3>1. CASE p = name
      BY <1>6, <3>1 DEF RowsSuffice, NoSession
    <3>2. CASE p # name
      <4>1. sessions'[p] = sessions[p] /\ raw'[p] = raw[p] /\ changes'[p] = changes[p]
        BY <1>6, <1>7, <1>8, <3>2
      <4>2. RowsSuffice(p) /\ \A q \in Package : installed[q] # Any => installed'[q] # Any
        BY DEF Installs
      <4>3. sessions[p].rows # <<>> => sessions[p].needs \subseteq Package
        <5>1. sessions[p] \in Session \cup {NoSession}
          BY <1>1 DEF ShapeOfInstalls
        <5> QED
          BY <5>1 DEF Session, PlanNames, NoSession
      <4> QED
        BY <4>1, <4>2, <4>3 DEF RowsSuffice
    <3> QED
      BY <3>1, <3>2
  <2> QED
    BY <1>6, <2>1 DEF Installs
<1>9. active # None => active \in Package
  BY <1>1, AddApplicationAssumption
<1>10. ASSUME active # None, ~crossed
       PROVE  ResolvedAgrees' /\ SessionAgrees'
  <2>1. ResolvedAgrees /\ SessionAgrees
    BY <1>10 DEF AskedFits
  <2>2. ResolvedAgrees'
    BY <2>1 DEF ResolvedAgrees
  <2>3. CASE active = name
    BY <1>6, <2>2, <2>3 DEF SessionAgrees
  <2>4. CASE active # name
    BY <1>6, <1>7, <1>9, <1>10, <2>1, <2>2, <2>4 DEF SessionAgrees
  <2> QED
    BY <2>3, <2>4
<1>11. CASE /\ raw'[name] = <<>> /\ dialog' = d
            /\ UNCHANGED <<changes, overlay, listed>>
  <2>1. ShapeOfShown'
    <3>1. DOMAIN overlay' \subseteq RowsOf(catalog, installed')
      BY <1>1, <1>11, RowsGrow DEF Rows
    <3> QED
      BY <1>1, <1>4, <1>11, <3>1 DEF ShapeOfShown, Rows, SameDialog
  <2>2. ShapeOfResolved'
    BY <1>1, <1>7, <1>11 DEF ShapeOfResolved
  <2>3. Installs'
    BY <1>8, <1>11
  <2>4. AskedFits'
    <3>1. dialog'.picks = dialog.picks
      BY <1>4, <1>11 DEF SameDialog
    <3>2. active # None /\ ~crossed => DialogAgrees'
      BY <1>4, <1>11 DEF AskedFits, DialogAgrees, SameDialog, Wanted
    <3> QED
      BY <1>10, <3>1, <3>2 DEF AskedFits
  <2> QED
    BY <1>6, <1>11, <2>1, <2>2, <2>3, <2>4 DEF Shapes
<1>12. CASE /\ changes' = [changes EXCEPT ![name] = ch]
            /\ EmitDialogMetadata(name, selected[name], Any, ch, "update", d)
  <2>1. Taken(name, answer, installed')
    BY <1>12 DEF Taken
  <2>2. /\ ShapeOfResolved' /\ \A p \in Package : p # name => changes'[p] = changes[p]
    BY <1>1, <2>1, TakenFacts
  <2>3. Any \in Nat /\ ops'[name].stage \in Stages
    BY <1>3, <1>5 DEF Any
  <2>4. name = active => selected[name] \in Url
    BY <1>1 DEF Chosen
  <2>5. ASSUME name = active, ~crossed PROVE OfRepo(ch, asked.repo, name)
    <3>1. sessions[name].repo = asked.repo
      BY <1>1, <2>5 DEF AskedFits, SessionAgrees
    <3>2. asked.repo \in Repo
      <4>1. sessions[name] \in Session
        BY <1>1 DEF ShapeOfInstalls
      <4> QED
        BY <3>1, <4>1 DEF Session
    <3> QED
      BY <2>5, <3>2, ComputedFacts
  <2> HIDE DEF ch
  <2>6. EmitDialogMetadata(name, selected[name], Any, ch, "update", d)
    BY <1>12
  <2> DEFINE repo == selected[name]
  <2>7. name = active => repo \in Url
    BY <2>4
  <2>8. EmitDialogMetadata(name, repo, Any, ch, "update", d)
    BY <2>6
  <2> HIDE DEF repo
  <2>9. /\ ShapeOfShown' /\ (active # None => dialog'.picks = dialog.picks)
        /\ name = active => dialog'.stage = ops'[name].stage
        /\ /\ active # None /\ ~crossed
           /\ name = active =>
                /\ repo = asked.repo /\ Any \in {asked.version, Any}
                /\ OfRepo(ch, repo, name) /\ \A x \in required'[name] : x[1] = repo
           => DialogAgrees'
    <3>1. ShapeOfShown /\ AskedFits /\ active' = active /\ UNCHANGED <<catalog, asked>>
      BY <1>1
    <3>2. ShapeOfShown'
      BY <1>4, <2>3, <2>7, <2>8, <3>1, TellKeeps
    <3>3. active # None => dialog'.picks = dialog.picks
      BY <1>4, <2>3, <2>7, <2>8, <3>1, TellKeeps
    <3>4. name = active => dialog'.stage = ops'[name].stage
      BY <1>4, <2>3, <2>7, <2>8, <3>1, TellKeeps
    <3>5. ASSUME active # None, ~crossed,
                 name = active =>
                   /\ repo = asked.repo /\ Any \in {asked.version, Any}
                   /\ OfRepo(ch, repo, name) /\ \A x \in required'[name] : x[1] = repo
          PROVE  DialogAgrees'
      BY <1>4, <2>3, <2>7, <2>8, <3>1, <3>5, TellKeeps
    <3> QED
      BY <3>2, <3>3, <3>4, <3>5
  <2>10. active # None /\ ~crossed => DialogAgrees'
    <3>1. name = active /\ ~crossed => repo = asked.repo /\ \A x \in required'[name] : x[1] = repo
      BY <1>1, <1>10 DEF repo, ResolvedAgrees, AskedFits
    <3> QED
      BY <2>5, <2>9, <3>1
  <2>11. AskedFits'
    BY <1>10, <2>9, <2>10 DEF AskedFits
  <2>12. dialog'.name = name => dialog'.stage # "busy"
    BY <1>5, <2>9 DEF ShapeOfShown
  <2>13. Installs'
    BY <1>8, <2>2
  <2> QED
    BY <1>6, <2>2, <2>9, <2>11, <2>12, <2>13 DEF Shapes
<1> QED
  BY <1>2, <1>7, <1>11, <1>12 DEF RefreshOverlayAfterInstall

\* A step that ends the install of p tells a dialog that is open on it, and a
\* success leaves what the app needs.
EndsWell(p) ==
    sessions[p] # NoSession /\ sessions'[p] = NoSession =>
      /\ dialog'.name = p => dialog'.stage # "busy" \/ raw'[p] = <<>>
      /\ ops'[p].stage = "installed" => \A q \in sessions[p].needs : installed'[q] # Any

\* The session a download is of.
LEMMA DownloadOf ==
    ASSUME IInv, NEW i \in DOMAIN toDl, toDl[i].op = "download"
    PROVE  /\ toDl[i].name \in App /\ toDl[i].name \in Package /\ toDl[i].repo \in Repo
           /\ toDl[i].names \in PlanNames
           /\ sessions[toDl[i].name] \in Session /\ sessions[toDl[i].name] # NoSession
           /\ sessions[toDl[i].name].rows = <<>>
           /\ sessions[toDl[i].name].repo = toDl[i].repo
           /\ sessions[toDl[i].name].pins = toDl[i].pins
           /\ sessions[toDl[i].name].needs = toDl[i].names
           /\ ops[toDl[i].name].owner = toDl[i].name /\ ops[toDl[i].name].stage # None
<1>1. /\ toDl[i].name \in App /\ toDl[i].name \in Package /\ toDl[i].repo \in Repo
      /\ toDl[i].names \in PlanNames /\ toDl[i].name # None
  BY CallTyped, NamesDiffer DEF IInv
<1>2. /\ sessions[toDl[i].name] # NoSession /\ sessions[toDl[i].name].rows = <<>>
      /\ sessions[toDl[i].name].repo = toDl[i].repo /\ sessions[toDl[i].name].pins = toDl[i].pins
      /\ sessions[toDl[i].name].needs = toDl[i].names
  BY DEF IInv, DownloadsFit
<1>3. sessions[toDl[i].name] \in Session
  BY <1>1, <1>2 DEF IInv, Shapes, ShapeOfInstalls
<1>4. ops[toDl[i].name].owner = toDl[i].name /\ ops[toDl[i].name].stage # None
  BY <1>1, <1>2 DEF IInv, Installs, EntryKept
<1> QED
  BY <1>1, <1>2, <1>3, <1>4

LEMMA DownloadFailedKeeps ==
    ASSUME IInv, NEW i \in DOMAIN toDl, toDl' = Drop(toDl, i), toDl[i].op = "download",
           NEW name, name = toDl[i].name, NEW repo, repo = toDl[i].repo,
           NEW version, version = toDl[i].pins[name],
           ops' = StagedOps(ops, name, "failed"), SessionOver(name),
           PresentCatalogResolutionError(name, repo, version, "failed",
                                         WithStage(dialog, name, "failed")),
           UNCHANGED <<installed, active, epochs, catalog, asked, crossed>>
    PROVE  IInv' /\ \A p \in Package : EndsWell(p)
<1> DEFINE d == WithStage(dialog, name, "failed")
           ch == ErrorChange(<<repo, name>>)
<1>1. /\ name \in App /\ name \in Package /\ repo \in Repo /\ repo \in Url /\ version \in Nat
      /\ sessions[name] \in Session /\ sessions[name] # NoSession
      /\ sessions[name].repo = repo /\ sessions[name].pins[name] = version
      /\ ops[name].stage # None
  BY DownloadOf, CallTyped DEF IInv, Url
<1>2. /\ ShapeOfShown /\ ShapeOfResolved /\ ShapeOfInstalls /\ Installs /\ AskedFits
      /\ Proper(dialog) /\ active \in App \cup {None} /\ ops \in [Package -> Op]
      /\ installed \in Pinned /\ epochs' \in [Package -> Nat]
      /\ \A p \in Package : ops[p].owner = None <=> ops[p].stage = None
  BY DEF IInv, Shapes, ShapeOfShown, ShapeOfResolved, ShapeOfInstalls, Installs, EntryKept
<1>3. "failed" \in Stages /\ "failed" \in Stages \ {None}
  BY DEF Stages, None
<1>4. Grown(ops, ops', name) /\ ops'[name].stage = "failed"
  BY <1>1, <1>2, <1>3, StagedGrows
<1>5. Proper(d) /\ SameDialog(d, dialog)
  BY <1>2, <1>3, WithStageFacts
<1>6. toDl' \in Seq(DlCall) /\ (sessions' = [sessions EXCEPT ![name] = NoSession])
  BY DropFacts DEF SessionOver, IInv, Shapes, ShapeOfInstalls
<1>7. /\ ShapeOfInstalls' /\ \A p \in Package : EntryKept(p)'
      /\ \A p \in Package : p # name => sessions'[p] = sessions[p]
      /\ sessions'[name] = NoSession
  BY <1>1, <1>2, <1>4, <1>6, EntriesKept DEF SessionMoves
<1>8. DownloadsFit' /\ ResolvesFit'
  BY <1>7, DroppedCall
<1>9. /\ Forgotten(name, repo) /\ EmitDialogMetadata(name, repo, version, ch, "failed", d)
      /\ ResolvedChanges(name, repo, {})
  BY ForgottenChanges DEF PresentCatalogResolutionError
<1>10. OfRepo(ch, repo, name)
  BY ErrorIsOfRepo
<1> HIDE DEF d, ch
<1>11. {} \in SUBSET (Url \X Package)
  OBVIOUS
<1>12. /\ ShapeOfResolved' /\ selected'[name] = repo /\ required'[name] = {}
       /\ \A p \in Package : p # name => raw'[p] = raw[p] /\ changes'[p] = changes[p]
  BY <1>1, <1>2, <1>9, <1>11, ResolvedChangesFacts
<1>13. raw'[name] = <<>>
  BY <1>1, <1>2, <1>9 DEF Forgotten, ShapeOfResolved
<1>14. Installs'
  <2>1. ASSUME NEW p \in Package PROVE RowsSuffice(p)'
    <3>1. CASE p = name
      BY <1>7, <3>1 DEF RowsSuffice, NoSession
    <3>2. CASE p # name
      BY <1>2, <1>7, <1>12, <3>2 DEF Installs, RowsSuffice
    <3> QED
      BY <3>1, <3>2
  <2> QED
    BY <1>7, <2>1 DEF Installs
<1>15. ops'[name].stage \in Stages /\ \A p \in Package : installed[p] # Any => installed'[p] # Any
  BY <1>3, <1>4
<1>16. /\ ShapeOfShown' /\ (active # None => dialog'.picks = dialog.picks)
  BY <1>1, <1>2, <1>5, <1>9, <1>15, TellKeeps
<1>17. ASSUME active # None, ~crossed
       PROVE  DialogAgrees' /\ ResolvedAgrees' /\ SessionAgrees'
  <2>1. ResolvedAgrees /\ SessionAgrees
    BY <1>2, <1>17 DEF AskedFits
  <2>2. name = active => repo = asked.repo /\ version \in {asked.version, Any}
    BY <1>1, <2>1 DEF SessionAgrees
  <2>3. name = active => \A x \in required'[name] : x[1] = repo
    BY <1>12
  <2>4. DialogAgrees'
    BY <1>1, <1>2, <1>5, <1>9, <1>10, <1>15, <1>17, <2>2, <2>3, TellKeeps
  <2>5. CASE name = active
    <3>1. ResolvedAgrees'
      BY <1>12, <2>2, <2>5 DEF ResolvedAgrees
    <3>2. SessionAgrees'
      BY <1>7, <2>5 DEF SessionAgrees
    <3> QED
      BY <2>4, <3>1, <3>2
  <2>6. CASE name # active
    <3>1. active \in Package
      BY <1>2, <1>17, AddApplicationAssumption
    <3>2. selected'[active] = selected[active] /\ required'[active] = required[active]
      BY <1>2, <1>9, <2>6, <3>1 DEF ResolvedChanges, ShapeOfResolved
    <3>3. ResolvedAgrees'
      BY <2>1, <3>2 DEF ResolvedAgrees
    <3>4. SessionAgrees'
      BY <1>7, <1>12, <2>1, <2>6, <3>1 DEF SessionAgrees
    <3> QED
      BY <2>4, <3>3, <3>4
  <2> QED
    BY <2>5, <2>6
<1>18. AskedFits'
  BY <1>2, <1>16, <1>17 DEF AskedFits
<1>19. IInv'
  BY <1>7, <1>8, <1>12, <1>14, <1>16, <1>18 DEF IInv, Shapes
<1>20. ASSUME NEW p \in Package PROVE EndsWell(p)
  <2>1. CASE p = name
    BY <1>4, <1>13, <2>1 DEF EndsWell
  <2>2. CASE p # name
    BY <1>7, <2>2 DEF EndsWell
  <2> QED
    BY <2>1, <2>2
<1> QED
  BY <1>19, <1>20

\* The registry after a row of an install, or of several, has been staged.
LEMMA StagedRows ==
    ASSUME NEW o, NEW name \in Package, Grown(ops, o, name), NEW names,
           NEW stage \in Stages \ {None}
    PROVE  Grown(ops, Tracked(o, names, stage, name), name)
<1>1. o \in [Package -> Op] /\ \A p \in Package : o[p].owner = None <=> o[p].stage = None
  BY DEF Grown
<1>2. Grown(o, Tracked(o, names, stage, name), name)
  BY <1>1, TrackedGrows
<1> QED
  BY <1>2, GrownIsTransitive

LEMMA StagedRow ==
    ASSUME NEW o, NEW name \in Package, Grown(ops, o, name), NEW p \in Package,
           NEW stage \in Stages \ {None}
    PROVE  /\ Grown(ops, StagedOps(o, p, stage), name)
           /\ ops[p].owner # None => StagedOps(o, p, stage)[p].stage = stage
<1>1. o \in [Package -> Op] /\ \A q \in Package : o[q].owner = None <=> o[q].stage = None
  BY DEF Grown
<1>2. /\ Grown(o, StagedOps(o, p, stage), name)
      /\ o[p].stage # None => StagedOps(o, p, stage)[p].stage = stage
  BY <1>1, StagedGrows
<1>3. ops[p].owner # None => o[p].stage # None
  BY DEF Grown
<1> QED
  BY <1>2, <1>3, GrownIsTransitive

LEMMA RegistryGrown ==
    ASSUME ShapeOfInstalls, Installs, NEW name
    PROVE  Grown(ops, ops, name)
  BY DEF Grown, ShapeOfInstalls, Installs, EntryKept

LEMMA RowsTaken ==
    ASSUME NEW answer \in Seq(Row), NEW some, some \subseteq Range(answer),
           NEW todo \in RowsIn(answer, some)
    PROVE  todo \in Seq(Row) /\ some \subseteq Range(todo)
<1>1. PICK n \in 0..Len(answer) : todo \in [1..n -> some]
  BY DEF RowsIn
<1>2. some \subseteq Row
  <2> SUFFICES ASSUME NEW row \in some PROVE row \in Row
    OBVIOUS
  <2>1. PICK i \in DOMAIN answer : row = answer[i]
    BY DEF Range
  <2> QED
    BY <2>1, SeqElement
<1>3. n \in Nat
  OBVIOUS
<1>4. todo \in [1..n -> Row]
  BY <1>1, <1>2
<1>5. todo \in Seq(Row)
  BY <1>3, <1>4
<1> QED
  BY <1>5 DEF RowsIn

LEMMA DownloadQueuedKeeps ==
    ASSUME IInv, NEW i \in DOMAIN toDl, toDl' = Drop(toDl, i), toDl[i].op = "download",
           NEW name, name = toDl[i].name, NEW answer \in Seq(Row),
           Validated(answer, toDl[i].repo, toDl[i].names),
           raw' = [raw EXCEPT ![name] = answer],
           NEW some, some = {row \in Range(answer) : installed[row.name] # row.version},
           NEW o, Grown(ops, o, name), ops' = StagedOps(o, name, "busy"),
           dialog' = StagedDialog(dialog, o, name, "busy"),
           NEW todo \in RowsIn(answer, some), some # {},
           sessions' = [sessions EXCEPT ![name].rows = todo],
           UNCHANGED <<installed, active, epochs, selected, required, changes, overlay, listed,
                       clearing, catalog, asked, crossed>>
    PROVE  IInv' /\ \A p \in Package : sessions[p] # NoSession => sessions'[p] # NoSession
<1> DEFINE s == [sessions[name] EXCEPT !.rows = todo]
<1>1. /\ name \in Package /\ name # None
      /\ sessions[name] \in Session /\ sessions[name] # NoSession
      /\ sessions[name].repo = toDl[i].repo /\ sessions[name].needs = toDl[i].names
  BY DownloadOf, NamesDiffer
<1>2. /\ ShapeOfShown /\ ShapeOfResolved /\ ShapeOfInstalls /\ Installs /\ AskedFits
      /\ Proper(dialog) /\ active \in App \cup {None}
  BY DEF IInv, Shapes, ShapeOfShown
<1>3. some \subseteq Range(answer)
  OBVIOUS
<1>4. todo \in Seq(Row) /\ some \subseteq Range(todo)
  BY <1>3, RowsTaken
<1>5. /\ s \in Session /\ s # NoSession /\ s.rows = todo /\ s.repo = sessions[name].repo
      /\ s.needs = sessions[name].needs /\ s.pins = sessions[name].pins
  BY <1>1, <1>4, NamesDiffer DEF Session, NoSession
<1>6. sessions' = [sessions EXCEPT ![name] = s]
  BY DEF ShapeOfInstalls
<1> HIDE DEF s
<1>7. "busy" \in Stages /\ "busy" \in Stages \ {None}
  BY DEF Stages, None
<1>8. Grown(ops, ops', name)
  BY <1>1, <1>7, StagedRow
<1>9. Proper(dialog') /\ SameDialog(dialog', dialog)
  <2> DEFINE d == StagedDialog(dialog, o, name, "busy")
  <2>1. Proper(d) /\ SameDialog(d, dialog)
    BY <1>2, <1>7, StagedDialogFacts
  <2> HIDE DEF d
  <2>2. dialog' = d
    BY DEF d
  <2> QED
    BY <2>1, <2>2
<1>10. toDl' \in Seq(DlCall)
  BY <1>2, DropFacts DEF ShapeOfInstalls
<1>11. /\ ShapeOfInstalls' /\ \A p \in Package : EntryKept(p)'
       /\ \A p \in Package : p # name => sessions'[p] = sessions[p]
  BY <1>1, <1>2, <1>5, <1>6, <1>8, <1>10, EntriesKept DEF SessionMoves
<1>12. sessions'[name] = s
  BY <1>1, <1>2, <1>6 DEF ShapeOfInstalls
<1>13. DownloadsFit' /\ ResolvesFit'
  BY <1>11, DroppedCall
<1>14. /\ raw' \in [Package -> Seq(Row)] /\ raw'[name] = answer
       /\ \A p \in Package : p # name => raw'[p] = raw[p]
  BY <1>1, <1>2 DEF ShapeOfResolved
<1>15. ShapeOfShown' /\ ShapeOfResolved'
  BY <1>2, <1>9, <1>14 DEF ShapeOfShown, ShapeOfResolved, SameDialog, Rows
<1>16. NamesIn(answer) = toDl[i].names /\ \A j \in DOMAIN answer : answer[j].repo = toDl[i].repo
  BY ValidatedFacts DEF Validated
<1>17. Installs'
  <2>1. ASSUME NEW p \in Package PROVE RowsSuffice(p)'
    <3>1. CASE p = name
      <4>1. ASSUME NEW q \in s.needs PROVE installed[q] # Any \/ q \in NamesIn(todo)
        <5>1. PICK j \in DOMAIN answer : answer[j].name = q
          BY <1>1, <1>5, <1>16 DEF NamesIn
        <5>2. answer[j] \in Range(answer) /\ answer[j] \in Row
          BY SeqElement DEF Range
        <5>3. CASE answer[j] \in some
          <6>1. PICK k \in DOMAIN todo : todo[k] = answer[j]
            BY <1>4, <5>3 DEF Range
          <6> QED
            BY <5>1, <6>1 DEF NamesIn
        <5>4. CASE answer[j] \notin some
          <6>1. installed[q] = answer[j].version
            BY <5>1, <5>2, <5>4
          <6> QED
            BY <5>2, <6>1 DEF Row
        <5> QED
          BY <5>3, <5>4
      <4>2. \A j \in DOMAIN raw'[p] : raw'[p][j].repo = s.repo
        BY <1>1, <1>5, <1>14, <1>16, <3>1
      <4> QED
        BY <1>5, <1>12, <3>1, <4>1, <4>2 DEF RowsSuffice
    <3>2. CASE p # name
      BY <1>2, <1>11, <1>14, <3>2 DEF Installs, RowsSuffice
    <3> QED
      BY <3>1, <3>2
  <2> QED
    BY <1>11, <2>1 DEF Installs
<1>18. AskedFits'
  <2>1. dialog'.picks = dialog.picks
    BY <1>9 DEF SameDialog
  <2>2. ASSUME active # None, ~crossed
        PROVE  DialogAgrees' /\ ResolvedAgrees' /\ SessionAgrees'
    <3>1. DialogAgrees /\ ResolvedAgrees /\ SessionAgrees
      BY <1>2, <2>2 DEF AskedFits
    <3>2. DialogAgrees' /\ ResolvedAgrees'
      BY <1>9, <3>1 DEF DialogAgrees, ResolvedAgrees, SameDialog, Wanted
    <3>3. CASE name = active
      BY <1>1, <1>5, <1>12, <1>14, <1>16, <3>1, <3>2, <3>3 DEF SessionAgrees
    <3>4. CASE name # active
      <4>1. active \in Package
        BY <1>2, <2>2, AddApplicationAssumption
      <4> QED
        BY <1>11, <1>14, <3>1, <3>2, <3>4, <4>1 DEF SessionAgrees
    <3> QED
      BY <3>2, <3>3, <3>4
  <2> QED
    BY <1>2, <2>1, <2>2 DEF AskedFits
<1>19. \A p \in Package : sessions[p] # NoSession => sessions'[p] # NoSession
  BY <1>5, <1>11, <1>12
<1> QED
  BY <1>11, <1>13, <1>15, <1>17, <1>18, <1>19 DEF IInv, Shapes

LEMMA DownloadAnsweredKeeps ==
    ASSUME IInv, Chosen, NEW i \in DOMAIN toDl, toDl' = Drop(toDl, i), toDl[i].op = "download",
           NEW answer \in Seq(Row), DownloadAnswered(toDl[i], answer),
           UNCHANGED <<catalog, asked, crossed>>
    PROVE  IInv' /\ \A p \in Package : EndsWell(p)
<1> DEFINE call == toDl[i]
           name == toDl[i].name
           absent == {row \in Range(answer) : installed[row.name] # row.version}
           there == Tracked(ops, NamesIn(answer) \ {row.name : row \in absent}, "installed", name)
           queued == Tracked(there, {row.name : row \in absent}, "busy", name)
<1>1. /\ name \in App /\ name \in Package /\ call.repo \in Repo /\ call.names \in PlanNames
      /\ sessions[name] # NoSession /\ sessions[name].repo = call.repo
      /\ sessions[name].needs = call.names
  BY DownloadOf
<1>2. /\ Shapes /\ ShapeOfShown /\ ShapeOfResolved /\ ShapeOfInstalls /\ Installs /\ AskedFits
      /\ installed \in Pinned
  BY DEF IInv, Shapes, ShapeOfShown
<1>3. UNCHANGED <<installed, active, epochs, catalog, asked, crossed>>
  BY DEF DownloadAnswered
<1>4. /\ "installed" \in Stages \ {None} /\ "busy" \in Stages \ {None}
  BY DEF Stages, None
<1>5. Grown(ops, there, name) /\ Grown(ops, queued, name)
  <2>1. Grown(ops, there, name)
    BY <1>1, <1>2, <1>4, RegistryGrown, StagedRows
  <2> HIDE DEF there
  <2>2. Grown(ops, queued, name)
    BY <1>1, <1>4, <2>1, StagedRows
  <2> QED
    BY <2>1, <2>2
<1>6. \/ /\ ~Validated(answer, call.repo, call.names)
         /\ ops' = StagedOps(ops, name, "failed")
         /\ SessionOver(name)
         /\ PresentCatalogResolutionError(name, call.repo, call.pins[name], "failed",
                                          WithStage(dialog, name, "failed"))
      \/ /\ Validated(answer, call.repo, call.names)
         /\ raw' = [raw EXCEPT ![name] = answer]
         /\ UNCHANGED <<selected, required>>
         /\ \/ absent = {} /\ Finished(name, there)
            \/ /\ absent # {}
               /\ ops' = StagedOps(queued, name, "busy")
               /\ dialog' = StagedDialog(dialog, queued, name, "busy")
               /\ \E todo \in RowsIn(answer, absent) :
                     sessions' = [sessions EXCEPT ![name].rows = todo]
               /\ UNCHANGED <<changes, overlay, listed, clearing>>
  BY DEF DownloadAnswered
<1> HIDE DEF absent, there, queued
<1>7. CASE /\ ops' = StagedOps(ops, name, "failed")
           /\ SessionOver(name)
           /\ PresentCatalogResolutionError(name, call.repo, call.pins[name], "failed",
                                            WithStage(dialog, name, "failed"))
  BY <1>3, <1>7, DownloadFailedKeeps
<1>8. CASE /\ Validated(answer, call.repo, call.names)
           /\ raw' = [raw EXCEPT ![name] = answer]
           /\ UNCHANGED <<selected, required>>
           /\ absent = {} /\ Finished(name, there)
  <2>1. NamesIn(answer) = call.names /\ \A j \in DOMAIN answer : answer[j].repo = call.repo
    BY <1>1, <1>8, ValidatedFacts DEF Validated
  <2>2. active = name /\ ~crossed => \A j \in DOMAIN answer : answer[j].repo = asked.repo
    <3>1. name # None
      BY <1>1, NamesDiffer
    <3> QED
      BY <1>1, <1>2, <2>1, <3>1 DEF AskedFits, SessionAgrees
  <2>3. toDl' \in Seq(DlCall)
    BY <1>2, DropFacts DEF ShapeOfInstalls
  <2>4. installed' \in Pinned /\ \A p \in Package : installed[p] # Any => installed'[p] # Any
    BY <1>2, <1>3
  <2>5. /\ Shapes' /\ Installs' /\ AskedFits'
        /\ \A p \in Package : p # name => sessions'[p] = sessions[p]
        /\ dialog'.name = name => dialog'.stage # "busy" \/ raw'[name] = <<>>
    BY <1>1, <1>2, <1>3, <1>5, <1>8, <2>2, <2>3, <2>4, FinishedKeeps
  <2>6. DownloadsFit' /\ ResolvesFit'
    BY <1>3, <2>5, DroppedCall
  <2>7. \A q \in sessions[name].needs : installed'[q] # Any
    <3> SUFFICES ASSUME NEW q \in call.names PROVE installed[q] # Any
      BY <1>1, <1>3
    <3>1. PICK j \in DOMAIN answer : answer[j].name = q
      BY <2>1 DEF NamesIn
    <3>2. answer[j] \in Row /\ answer[j] \in Range(answer)
      BY SeqElement DEF Range
    <3>3. installed[q] = answer[j].version
      BY <1>8, <3>1, <3>2 DEF absent
    <3> QED
      BY <3>2, <3>3 DEF Row
  <2>8. \A p \in Package : EndsWell(p)
    BY <2>5, <2>7 DEF EndsWell
  <2> QED
    BY <2>5, <2>6, <2>8 DEF IInv
<1>9. CASE /\ Validated(answer, call.repo, call.names)
           /\ raw' = [raw EXCEPT ![name] = answer]
           /\ UNCHANGED <<selected, required>>
           /\ absent # {}
           /\ ops' = StagedOps(queued, name, "busy")
           /\ dialog' = StagedDialog(dialog, queued, name, "busy")
           /\ \E todo \in RowsIn(answer, absent) :
                 sessions' = [sessions EXCEPT ![name].rows = todo]
           /\ UNCHANGED <<changes, overlay, listed, clearing>>
  <2>1. PICK todo \in RowsIn(answer, absent) : sessions' = [sessions EXCEPT ![name].rows = todo]
    BY <1>9
  <2>2. PICK some : some = absent
    OBVIOUS
  <2>3. some = {row \in Range(answer) : installed[row.name] # row.version}
    BY <2>2 DEF absent
  <2>4. todo \in RowsIn(answer, some) /\ some # {}
    BY <1>9, <2>2
  <2>5. IInv' /\ \A p \in Package : sessions[p] # NoSession => sessions'[p] # NoSession
    BY <1>3, <1>5, <1>9, <2>1, <2>3, <2>4, DownloadQueuedKeeps
  <2> QED
    BY <2>5 DEF EndsWell
<1> QED
  BY <1>6, <1>7, <1>8, <1>9

LEMMA InstallResultsKeeps ==
    ASSUME IInv, Chosen, NEW name \in Package, NEW n \in Nat, InstallResults(name, n)
    PROVE  IInv' /\ \A p \in Package : EndsWell(p)
<1> DEFINE rows == sessions[name].rows
           Found(p) == rows[CHOOSE j \in 1..n : rows[j].name = p]
           done == {rows[j].name : j \in 1..n}
           marked == Tracked(ops, done, "installed", name)
<1>1. /\ rows # <<>> /\ n <= Len(rows)
      /\ installed' = [p \in Package |-> IF p \in done THEN Found(p).version ELSE installed[p]]
      /\ UNCHANGED <<catalog, active, epochs, selected, required, raw, toDl, asked, crossed>>
      /\ \/ n = Len(rows) /\ Finished(name, marked)
         \/ /\ n < Len(rows)
            /\ ops' = StagedOps(StagedOps(marked, rows[n+1].name, "failed"), name, "failed")
            /\ SessionOver(name)
            /\ dialog' = WithStage(dialog, name, "failed")
            /\ UNCHANGED <<changes, overlay, listed>>
  BY DEF InstallResults, history
<1>2. /\ Shapes /\ ShapeOfShown /\ ShapeOfResolved /\ ShapeOfInstalls /\ Installs /\ AskedFits
      /\ Proper(dialog) /\ active \in App \cup {None} /\ installed \in Pinned
  BY DEF IInv, Shapes, ShapeOfShown
<1>3. sessions[name] \in Session /\ sessions[name] # NoSession /\ name # None
  BY <1>1, <1>2, NamesDiffer DEF ShapeOfInstalls, NoSession
<1>4. /\ rows \in Seq(Row) /\ DOMAIN rows = 1..Len(rows) /\ Len(rows) \in Nat
      /\ sessions[name].needs \subseteq Package
  BY <1>3 DEF Session, PlanNames
<1>5. ASSUME NEW j \in DOMAIN rows PROVE rows[j] \in Row /\ rows[j].name \in Package
                                         /\ rows[j].version \in Nat \ {Any}
  <2>1. rows[j] \in Row
    BY <1>4, <1>5, SeqElement
  <2> QED
    BY <2>1 DEF Row
<1> HIDE DEF rows
<1>6. ASSUME NEW p \in done PROVE Found(p).version \in Nat \ {Any}
  <2>1. \E j \in 1..n : rows[j].name = p
    OBVIOUS
  <2>2. PICK j : j = CHOOSE k \in 1..n : rows[k].name = p
    OBVIOUS
  <2>3. j \in 1..n
    BY <2>1, <2>2
  <2> QED
    BY <1>1, <1>4, <1>5, <2>2, <2>3
<1>7. /\ installed' \in Pinned /\ \A p \in Package : installed[p] # Any => installed'[p] # Any
      /\ \A p \in Package : p \in done => installed'[p] # Any
  <2> HIDE DEF done, Found
  <2> QED
    BY <1>1, <1>2, <1>6 DEF Pinned, Any
<1>8. /\ "installed" \in Stages \ {None} /\ "failed" \in Stages \ {None} /\ "failed" \in Stages
  BY DEF Stages, None
<1>9. Grown(ops, marked, name)
  BY <1>2, <1>8, RegistryGrown, StagedRows
<1> HIDE DEF Found, marked
<1>10. toDl' \in Seq(DlCall)
  BY <1>1, <1>2 DEF ShapeOfInstalls
<1>11. ASSUME NEW p \in Package PROVE raw'[p] = raw[p]
  BY <1>1
<1>12. active = name /\ ~crossed => \A j \in DOMAIN raw[name] : raw[name][j].repo = asked.repo
  BY <1>1, <1>2, <1>3 DEF AskedFits, SessionAgrees, rows
<1>13. ASSUME \A p \in Package : p # name => sessions'[p] = sessions[p]
       PROVE  DownloadsFit' /\ ResolvesFit'
  <2>1. DownloadsFit'
    <3> SUFFICES ASSUME NEW m \in DOMAIN toDl, toDl[m].op = "download"
                 PROVE  sessions'[toDl[m].name] = sessions[toDl[m].name]
      BY <1>1 DEF IInv, DownloadsFit
    <3>1. toDl[m].name \in Package /\ sessions[toDl[m].name].rows = <<>>
      BY DownloadOf
    <3> QED
      BY <1>1, <1>13, <3>1 DEF rows
  <2>2. ResolvesFit'
    BY <1>1 DEF IInv, ResolvesFit
  <2> QED
    BY <2>1, <2>2
<1>14. CASE n = Len(rows) /\ Finished(name, marked)
  <2>1. PICK answer \in Seq(Row) : answer = raw[name]
    BY <1>2 DEF ShapeOfResolved
  <2>2. raw' = [raw EXCEPT ![name] = answer]
    BY <1>1, <1>2, <2>1 DEF ShapeOfResolved
  <2>3. active = name /\ ~crossed => \A j \in DOMAIN answer : answer[j].repo = asked.repo
    BY <1>12, <2>1
  <2>4. /\ Shapes' /\ Installs' /\ AskedFits'
        /\ \A p \in Package : p # name => sessions'[p] = sessions[p]
        /\ dialog'.name = name => dialog'.stage # "busy" \/ raw'[name] = <<>>
    BY <1>1, <1>2, <1>3, <1>7, <1>9, <1>10, <1>14, <2>2, <2>3, FinishedKeeps
  <2>5. \A q \in sessions[name].needs : installed'[q] # Any
    <3> SUFFICES ASSUME NEW q \in sessions[name].needs PROVE installed'[q] # Any
      OBVIOUS
    <3>1. q \in Package /\ (installed[q] # Any \/ q \in NamesIn(rows))
      BY <1>1, <1>2, <1>4 DEF Installs, RowsSuffice, rows
    <3>2. NamesIn(rows) = done
      BY <1>4, <1>14 DEF NamesIn
    <3> QED
      BY <1>7, <3>1, <3>2
  <2>6. \A p \in Package : EndsWell(p)
    BY <2>4, <2>5 DEF EndsWell
  <2> QED
    BY <1>13, <2>4, <2>6 DEF IInv
<1>15. CASE /\ n < Len(rows)
            /\ ops' = StagedOps(StagedOps(marked, rows[n+1].name, "failed"), name, "failed")
            /\ SessionOver(name)
            /\ dialog' = WithStage(dialog, name, "failed")
            /\ UNCHANGED <<changes, overlay, listed>>
  <2>1. PICK p \in Package : p = rows[n+1].name
    BY <1>4, <1>5, <1>15
  <2>2. Grown(ops, StagedOps(marked, p, "failed"), name)
    BY <1>8, <1>9, StagedRow
  <2>3. PICK o : o = StagedOps(marked, p, "failed")
    OBVIOUS
  <2>4. ops[name].owner # None
    BY <1>2, <1>3 DEF Installs, EntryKept
  <2>5. Grown(ops, ops', name) /\ ops'[name].stage = "failed"
    BY <1>8, <1>15, <2>1, <2>2, <2>3, <2>4, StagedRow
  <2>6. /\ ShapeOfInstalls' /\ \A q \in Package : EntryKept(q)'
        /\ \A q \in Package : q # name => sessions'[q] = sessions[q]
        /\ sessions'[name] = NoSession
    BY <1>2, <1>3, <1>10, <1>15, <2>5, EntriesKept DEF SessionMoves
  <2>7. /\ Proper(dialog') /\ SameDialog(dialog', dialog)
        /\ dialog.name = name => dialog'.stage = "failed"
    <3> DEFINE d == WithStage(dialog, name, "failed")
    <3>1. Proper(d) /\ SameDialog(d, dialog) /\ (dialog.name = name => d.stage = "failed")
      BY <1>2, <1>3, <1>8, WithStageFacts
    <3> HIDE DEF d
    <3>2. dialog' = d
      BY <1>15 DEF d
    <3> QED
      BY <3>1, <3>2
  <2>8. ShapeOfShown' /\ ShapeOfResolved'
    <3>1. DOMAIN overlay' \subseteq RowsOf(catalog, installed')
      BY <1>2, <1>7, <1>15, RowsGrow DEF ShapeOfShown, Rows
    <3> QED
      BY <1>1, <1>2, <1>7, <1>15, <2>7, <3>1
         DEF ShapeOfShown, ShapeOfResolved, SameDialog, Rows
  <2>9. Installs'
    <3>1. ASSUME NEW q \in Package PROVE RowsSuffice(q)'
      <4>1. CASE q = name
        BY <2>6, <4>1 DEF RowsSuffice, NoSession
      <4>2. CASE q # name
        <5>1. sessions[q].rows # <<>> => sessions[q].needs \subseteq Package
          <6>1. sessions[q] \in Session \cup {NoSession}
            BY <1>2 DEF ShapeOfInstalls
          <6> QED
            BY <6>1 DEF Session, PlanNames, NoSession
        <5> QED
          BY <1>1, <1>2, <1>7, <1>15, <2>6, <4>2, <5>1 DEF Installs, RowsSuffice
      <4> QED
        BY <4>1, <4>2
    <3> QED
      BY <2>6, <3>1 DEF Installs
  <2>10. AskedFits'
    <3>1. active # None => active \in Package
      BY <1>2, AddApplicationAssumption
    <3>2. ASSUME active # None, ~crossed
          PROVE  DialogAgrees' /\ ResolvedAgrees' /\ SessionAgrees'
      <4>1. DialogAgrees /\ ResolvedAgrees /\ SessionAgrees
        BY <1>2, <3>2 DEF AskedFits
      <4>2. DialogAgrees' /\ ResolvedAgrees'
        BY <1>1, <1>15, <2>7, <4>1 DEF DialogAgrees, ResolvedAgrees, SameDialog, Wanted
      <4>3. sessions'[active] = sessions[active] \/ sessions'[active] = NoSession
        BY <2>6, <3>1, <3>2
      <4>4. SessionAgrees'
        BY <1>1, <4>1, <4>3 DEF SessionAgrees
      <4> QED
        BY <4>2, <4>4
    <3> QED
      BY <1>1, <1>2, <2>7, <3>2 DEF AskedFits, SameDialog
  <2>11. \A q \in Package : EndsWell(q)
    <3> SUFFICES ASSUME NEW q \in Package, sessions[q] # NoSession, sessions'[q] = NoSession
                 PROVE  EndsWell(q)
      BY DEF EndsWell
    <3>1. q = name
      BY <2>6
    <3> QED
      BY <2>5, <2>7, <3>1 DEF EndsWell, SameDialog
  <2> QED
    BY <1>13, <2>6, <2>8, <2>9, <2>10, <2>11 DEF IInv, Shapes
<1> QED
  BY <1>1, <1>14, <1>15

-----------------------------------------------------------------------------
(* Every step *)

LEMMA UrlsAreNames == None \notin Url
  BY NamesDiffer DEF Url, Local, None

LEMMA ChosenKept ==
    ASSUME Shapes, Chosen, active' = active,
           selected' = selected \/ \E name, repo : /\ repo \in Url
                                                   /\ selected' = [selected EXCEPT ![name] = repo]
    PROVE  Chosen'
  BY UrlsAreNames, AddApplicationAssumption DEF Shapes, ShapeOfShown, ShapeOfResolved, Chosen

LEMMA NobodyEnds ==
    ASSUME UNCHANGED installs
    PROVE  \A p \in Package : EndsWell(p)
  BY DEF installs, EndsWell

LEMMA AnsweredKeeps ==
    ASSUME IInv, Chosen, NEW i \in DOMAIN toDl, toDl' = Drop(toDl, i),
           NEW answer \in Seq(Row), Answered(toDl[i], answer), UNCHANGED <<catalog, asked, crossed>>
    PROVE  IInv' /\ Chosen' /\ \A p \in Package : EndsWell(p)
<1>1. toDl[i].repo \in Url /\ Shapes
  BY CallTyped DEF IInv
<1>2. active' = active
  BY DEF Answered, ResolveAnswered, DownloadAnswered
<1>3. Chosen'
  <2>1. \/ selected' = selected
        \/ selected' = [selected EXCEPT ![toDl[i].name] = toDl[i].repo]
    BY DEF Answered, ResolveAnswered, DownloadAnswered, PresentCatalogResolutionError,
           Forgotten, resolved
  <2> QED
    BY <1>1, <1>2, <2>1, ChosenKept
<1>4. CASE toDl[i].op = "resolve" /\ ResolveAnswered(toDl[i], answer)
  <2>1. UNCHANGED installs
    BY <1>4 DEF ResolveAnswered
  <2> QED
    BY <1>3, <1>4, <2>1, NobodyEnds, ResolveAnsweredKeeps
<1>5. CASE toDl[i].op = "download" /\ DownloadAnswered(toDl[i], answer)
  BY <1>3, <1>5, DownloadAnsweredKeeps
<1> QED
  BY <1>4, <1>5 DEF Answered

LEMMA RequestChooses ==
    ASSUME IInv, NEW name \in App, NEW repo \in Url, NEW pins \in Pinned, NEW d,
           RunResolverAndOpenDialog(name, repo, pins, d)
    PROVE  Chosen' /\ UNCHANGED installs
<1>1. Shapes /\ name \in Package /\ selected \in [Package -> Url \cup {None}]
  BY AddApplicationAssumption DEF IInv, Shapes, ShapeOfResolved
<1>2. PICK ch : \E R \in SUBSET (Url \X Package) : RequestEffect(name, repo, pins, d, ch, R)
  BY <1>1, RequestHas
<1>3. selected'[name] = repo /\ active' = name /\ UNCHANGED installs
  BY <1>1, <1>2 DEF RequestEffect, ResolvedChanges, RunResolverAndOpenDialog
<1> QED
  BY <1>3, UrlsAreNames DEF Chosen

LEMMA InstallChooses ==
    ASSUME IInv, Chosen, Install
    PROVE  Chosen' /\ \A p \in Package : EndsWell(p)
<1> DEFINE name == dialog.name
           repo == dialog.repo
<1>1. /\ ActionEnabled /\ ConfirmCatalogInstall(name, repo, Pins(dialog), [dialog EXCEPT !.stage = "busy"])
      /\ active' = active /\ Shapes /\ Proper(dialog)
  BY DEF Install, resolving, IInv, Shapes, ShapeOfShown
<1>2. name \in Package /\ repo \in Url
  BY <1>1, NamesDiffer, AddApplicationAssumption DEF ActionEnabled, Proper, Dialogs
<1>3. selected' = selected \/ selected' = [selected EXCEPT ![name] = repo]
  BY <1>1 DEF ConfirmCatalogInstall, PresentCatalogResolutionError, Forgotten, resolved
<1>4. ASSUME NEW p \in Package, sessions[p] # NoSession PROVE sessions'[p] = sessions[p]
  <2>1. CASE sessions' = sessions
    BY <2>1
  <2>2. CASE ops[name].stage = None /\ \E s : sessions' = [sessions EXCEPT ![name] = s]
    <3>1. sessions[name] = NoSession
      <4>1. EntryKept(name) /\ name # None
        BY <1>2, NamesDiffer DEF IInv, Installs
      <4> QED
        BY <2>2, <4>1 DEF EntryKept
    <3> QED
      BY <1>1, <1>4, <2>2, <3>1 DEF Shapes, ShapeOfInstalls
  <2> QED
    BY <1>1, <2>1, <2>2 DEF ConfirmCatalogInstall
<1> QED
  BY <1>1, <1>2, <1>3, <1>4, ChosenKept DEF EndsWell

LEMMA Starts == Init => IInv /\ Chosen
<1> SUFFICES ASSUME Init PROVE IInv /\ Chosen
  OBVIOUS
<1>1. /\ catalog \in Catalogs /\ active = None /\ epochs = [p \in Package |-> 0]
      /\ selected = [p \in Package |-> None] /\ required = [p \in Package |-> {}]
      /\ raw = [p \in Package |-> <<>>] /\ changes = [p \in Package |-> <<>>]
      /\ overlay = <<>> /\ dialog = Closed
      /\ ops = [p \in Package |-> NoOp] /\ sessions = [p \in Package |-> NoSession]
      /\ clearing = {} /\ toDl = <<>>
  BY DEF Init
<1>2. installed \in Pinned
  <2>1. PICK S : installed = [p \in Package |-> IF p \in S THEN 1 ELSE Any]
    BY DEF Init
  <2> QED
    BY <2>1 DEF Pinned, Any
<1>3. Proper(Closed) /\ Closed.name = None
  BY NoPinsTyped DEF Closed, Proper, Dialogs, Any
<1>4. DOMAIN <<>> = {}
  OBVIOUS
<1>5. ShapeOfShown
  BY <1>1, <1>2, <1>3, <1>4 DEF ShapeOfShown
<1>6. ShapeOfResolved
  <2>1. <<>> \in Seq(Row)
    OBVIOUS
  <2>2. \A p \in Package : DOMAIN changes[p] = {}
    BY <1>1, <1>4
  <2> QED
    BY <1>1, <2>1, <2>2 DEF ShapeOfResolved
<1>7. NoOp \in Op /\ NoOp.owner = None /\ NoOp.stage = None
  BY DEF NoOp, Op
<1>8. ShapeOfInstalls
  <2>1. <<>> \in Seq(DlCall)
    OBVIOUS
  <2> QED
    BY <1>1, <1>7, <2>1 DEF ShapeOfInstalls
<1>9. Installs
  BY <1>1, <1>7, NamesDiffer DEF Installs, EntryKept, RowsSuffice, NoSession
<1>10. DownloadsFit /\ ResolvesFit
  BY <1>1, <1>4 DEF DownloadsFit, ResolvesFit
<1> QED
  BY <1>1, <1>5, <1>6, <1>8, <1>9, <1>10 DEF IInv, Shapes, AskedFits, Chosen

LEMMA StepKeeps ==
    ASSUME IInv, Chosen, [Next]_vars
    PROVE  IInv' /\ Chosen' /\ \A p \in Package : EndsWell(p)
<1>0. /\ Shapes /\ catalog \in Catalogs /\ installed \in Pinned /\ Proper(dialog)
      /\ toDl \in Seq(DlCall)
  BY DEF IInv, Shapes, ShapeOfShown, ShapeOfInstalls
<1>1. ASSUME NEW k \in Rows, OpenApp(k)
      PROVE  IInv' /\ Chosen' /\ \A p \in Package : EndsWell(p)
  <2>1. k[1] \in Url /\ k[2] \in App /\ RunResolverAndOpenDialog(k[2], k[1], NoPins, dialog)
    BY <1>0, <1>1, RowsTyped DEF Rows, OpenApp
  <2> QED
    BY <1>1, <2>1, NoPinsTyped, OpenAppKeeps, RequestChooses, NobodyEnds
<1>2. ASSUME NEW k \in DOMAIN catalog, NEW i \in DOMAIN catalog[k],
             PickVersion(k, catalog[k][i].version)
      PROVE  IInv' /\ Chosen' /\ \A p \in Package : EndsWell(p)
  <2>1. PICK d, version :
          /\ RunResolverAndOpenDialog(d.name, d.repo, Pins(d), d)
          /\ d = [dialog EXCEPT !.picks = [@ EXCEPT ![k[2]] = version]]
          /\ version = catalog[k][i].version
    BY <1>2 DEF PickVersion
  <2>2. dialog.visible /\ dialog.name \in App /\ dialog.repo \in Url
    BY <1>0, <1>2, NamesDiffer DEF PickVersion, Proper, Dialogs
  <2>3. d.name = dialog.name /\ d.repo = dialog.repo
    BY <1>0, <2>1 DEF Proper, Dialogs
  <2>4. Pins(d) \in Pinned
    <3>1. k[2] \in Package /\ catalog[k] \in Seq([version : Nat \ {Any}, needs : SUBSET Package])
      BY <1>0, AddApplicationAssumption
    <3>2. catalog[k][i] \in [version : Nat \ {Any}, needs : SUBSET Package]
      BY <3>1, SeqElement
    <3>3. version \in Nat
      BY <2>1, <3>2
    <3>4. d.picks \in Pinned /\ d.version \in Nat
      BY <1>0, <2>1, <3>1, <3>3 DEF Proper, Dialogs, Pinned
    <3> QED
      BY <3>4 DEF Pins, Pinned
  <2>5. Chosen' /\ UNCHANGED installs
    BY <2>1, <2>2, <2>3, <2>4, RequestChooses
  <2> QED
    BY <1>2, <2>5, PickVersionKeeps, NobodyEnds
<1>3. CASE CloseDialog
  <2>1. active' = None /\ UNCHANGED installs
    BY <1>3 DEF CloseDialog
  <2> QED
    BY <1>3, <2>1, CloseDialogKeeps, NobodyEnds DEF Chosen
<1>4. CASE Install
  BY <1>4, InstallKeeps, InstallChooses
<1>5. CASE DlAnswers
  <2>1. PICK answer \in Answers(Head(toDl)) : Answered(Head(toDl), answer)
    BY <1>5 DEF DlAnswers
  <2>2. 1 \in DOMAIN toDl /\ Head(toDl) = toDl[1] /\ toDl' = Drop(toDl, 1)
    BY <1>0, <1>5, TailIsDrop DEF DlAnswers
  <2>3. answer \in Seq(Row)
    BY <1>0, <2>1, <2>2, CallTyped, AnswersTyped
  <2>4. UNCHANGED <<catalog, asked, crossed>>
    BY <1>5 DEF DlAnswers, history
  <2> QED
    BY <2>1, <2>2, <2>3, <2>4, AnsweredKeeps
<1>6. ASSUME NEW i \in DOMAIN toDl, Deadline(i)
      PROVE  IInv' /\ Chosen' /\ \A p \in Package : EndsWell(p)
  <2>1. toDl' = Drop(toDl, i) /\ Answered(toDl[i], <<>>) /\ UNCHANGED <<catalog, asked, crossed>>
    BY <1>6 DEF Deadline, Drop, history
  <2>2. <<>> \in Seq(Row)
    OBVIOUS
  <2> QED
    BY <2>1, <2>2, AnsweredKeeps
<1>7. ASSUME NEW name \in Package, ClearTimer(name)
      PROVE  IInv' /\ Chosen' /\ \A p \in Package : EndsWell(p)
  <2>1. UNCHANGED <<active, selected, sessions>>
    BY <1>7 DEF ClearTimer, resolving, resolved
  <2> QED
    BY <1>7, <2>1, ClearTimerKeeps DEF Chosen, EndsWell
<1>8. ASSUME NEW name \in Package, NEW n \in 0..Cardinality(Package), InstallResults(name, n)
      PROVE  IInv' /\ Chosen' /\ \A p \in Package : EndsWell(p)
  <2>1. UNCHANGED <<active, selected>>
    BY <1>8 DEF InstallResults
  <2>2. n \in Nat
    BY CatalogPlanAssumption, FS_CardinalityType
  <2> QED
    BY <1>8, <2>1, <2>2, InstallResultsKeeps DEF Chosen
<1>9. ASSUME NEW c \in Catalogs, CatalogRefreshed(c)
      PROVE  IInv' /\ Chosen' /\ \A p \in Package : EndsWell(p)
  <2>1. UNCHANGED <<active, selected, installs>>
    BY <1>9 DEF CatalogRefreshed, resolving, resolved
  <2> QED
    BY <1>9, <2>1, CatalogRefreshedKeeps, NobodyEnds DEF Chosen
<1>10. CASE UNCHANGED vars
  <2>1. UNCHANGED <<catalog, installed, active, epochs, selected, required, raw, changes, overlay,
                    listed, dialog, ops, sessions, clearing, toDl, asked, crossed>>
    BY <1>10 DEF vars, resolving, resolved, shown, installs, history
  <2>2. Shapes'
    BY <2>1 DEF IInv, Shapes, ShapeOfShown, ShapeOfResolved, ShapeOfInstalls, Rows
  <2>3. Installs' /\ DownloadsFit' /\ ResolvesFit'
    BY <2>1 DEF IInv, Installs, EntryKept, RowsSuffice, DownloadsFit, ResolvesFit
  <2>4. AskedFits' /\ Chosen'
    BY <2>1 DEF IInv, AskedFits, DialogAgrees, ResolvedAgrees, SessionAgrees, Wanted, Chosen
  <2> QED
    BY <2>1, <2>2, <2>3, <2>4 DEF IInv, EndsWell
<1> QED
  BY <1>1, <1>2, <1>3, <1>4, <1>5, <1>6, <1>7, <1>8, <1>9, <1>10 DEF Next

LEMMA Invariance == Spec => [](IInv /\ Chosen)
<1>1. IInv /\ Chosen /\ [Next]_vars => (IInv /\ Chosen)'
  BY StepKeeps
<1> QED
  BY <1>1, Starts, PTL DEF Spec

-----------------------------------------------------------------------------
(* The theorems *)

\* The rounds of buildPlan's loop, as many as there are packages, find exactly
\* the least set that holds the app and all its packages need, whatever the
\* catalog, cycles and missing packages included; so the plan of an app is that
\* set, or there is none (CatalogResolution::buildPlan).
THEOREM PlanIsTheClosure ==
    ASSUME NEW c \in Catalogs, NEW name \in Package, NEW repo, NEW pins
    PROVE  /\ Visited(name, repo, pins, c) = Closure(name, repo, pins, c)
           /\ BuildPlan(name, repo, pins, c) \in
                {NoPlan, [valid |-> TRUE, names |-> Closure(name, repo, pins, c)]}
<1>1. ClosedSet(Package, name, repo, pins, c)
  BY NeedsTyped DEF ClosedSet
<1>2. Visited(name, repo, pins, c) = Closure(name, repo, pins, c)
  BY <1>1, VisitedIsClosure
<1> QED
  BY <1>2 DEF BuildPlan

\* Shapes, overlays only of rows there are, and the registry: an install that
\* is under way has its entry, and an entry that its owner's install has left
\* has a timer that will clear it (confirmCatalogInstall, clearByTopLevel).
THEOREM TypeCorrect == Spec => []TypeOK
<1>1. IInv => TypeOK
  BY DEF IInv, Shapes, ShapeOfShown, Installs, EntryKept, Proper, Dialogs, TypeOK
<1> QED
  BY <1>1, Invariance, PTL

\* The open dialog shows the app, the repository and the version that were
\* asked for last, and rows of that repository only, whatever answers are late,
\* overdue, of another request or wrong, unless the app is being installed
\* otherwise than was asked for (emitDialogMetadata, m_dialogResolveEpoch).
THEOREM AskedIsShown == Spec => []ShowsWhatWasAsked
<1>1. IInv => ShowsWhatWasAsked
  <2> SUFFICES ASSUME IInv, dialog.visible, ~crossed
               PROVE  /\ dialog.name = asked.name /\ dialog.repo = asked.repo
                      /\ dialog.version \in {asked.version, Any}
                      /\ \A k \in listed \cup DOMAIN overlay :
                            k[1] = asked.repo \/ (asked.repo = Local /\ k[2] = asked.name)
    BY DEF IInv, Shapes, ShapeOfShown, ShowsWhatWasAsked
  <2>1. active = dialog.name /\ active # None
    BY DEF IInv, Shapes, ShapeOfShown, Proper
  <2> QED
    BY <2>1 DEF IInv, AskedFits, DialogAgrees, Wanted
<1> QED
  BY <1>1, Invariance, PTL

\* A dialog that is open on an app does not go on showing its install as under
\* way once that has ended (setOpStage, refreshOverlayAfterInstall,
\* emitInstallFailure).
THEOREM EndShown == Spec => EndIsShown
<1> DEFINE A == \A p \in Package :
                  sessions[p] # NoSession /\ sessions'[p] = NoSession /\ dialog'.name = p
                    => dialog'.stage # "busy" \/ raw'[p] = <<>>
<1>1. IInv /\ Chosen /\ [Next]_vars => A
  BY StepKeeps DEF EndsWell
<1> QED
  BY <1>1, Invariance, PTL DEF Spec, EndIsShown

\* An install that ends as a success leaves on disk all its app needed, in any
\* number of steps, when it was confirmed: validateResolvedRows holds the answer
\* to the plan, and the plan is the closure (downloadResolvedDependencies,
\* installResultsSequential).
THEOREM CompleteOnSuccess == Spec => SuccessIsComplete
<1> DEFINE A == \A p \in Package :
                  /\ sessions[p] # NoSession /\ sessions'[p] = NoSession
                  /\ ops'[p].stage = "installed"
                  => \A q \in sessions[p].needs : installed'[q] # Any
<1>1. IInv /\ Chosen /\ [Next]_vars => A
  BY StepKeeps DEF EndsWell
<1> QED
  BY <1>1, Invariance, PTL DEF Spec, SuccessIsComplete
=============================================================================
