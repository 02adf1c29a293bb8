------------------------------- MODULE AppRows -------------------------------
(***************************************************************************)
(* AppsModel: the rows of the App Manager.  A row belongs to a repository  *)
(* and a package; what is installed is known by package name only, so one  *)
(* install touches the rows of that name in every repository, and through  *)
(* the root hashes of dependencies the rows of other packages too.         *)
(* Packages on disk that no repository offers have a row without one.      *)
(*                                                                         *)
(* Each operator takes the rows and returns the rows after the operation,  *)
(* with installStatus recomputed for the rows the code recomputes, so that *)
(* one can be left stale.  replaceCatalog, the local rows and the bulk     *)
(* updates are always followed by endBulkInstalledUpdate, which recomputes *)
(* every row: what they recompute on the way is left out.                  *)
(*                                                                         *)
(* A definition A_X is A with the plausible bug X; it is used only to show *)
(* that the properties notice.                                             *)
(*                                                                         *)
(* Abstracted: wording, icons and install types; the order of the rows;    *)
(* the change signals; categories; older releases than the first one.      *)
(***************************************************************************)
EXTENDS Naturals, Functions

CONSTANTS
  Package,     \* module names
  Repo         \* repository URLs

Local == "local"    \* the empty repository URL
NoHash == "nohash"  \* an empty root hash

\* A build is a version with its root hash; None is nothing installed, nothing
\* released.
None == [version |-> 0, hash |-> NoHash]

\* A release is a catalog row: repo, name, build, needs.
Key == (Repo \cup {Local}) \X Package

RepoOf(k) == k[1]
NameOf(k) == k[2]

NoRow == [build |-> None, needs |-> {}, installed |-> None, missing |-> {},
          status |-> "notInstalled"]

Differ(a, b) == NoHash \notin {a, b} /\ a # b

\* Only a dependency in the row's own repository is looked at.
DependencyDiffers(rows, k) ==
    \E d \in rows[k].needs :
       /\ <<RepoOf(k), d>> \in DOMAIN rows
       /\ LET dep == rows[<<RepoOf(k), d>>] IN Differ(dep.build.hash, dep.installed.hash)

Healthy(r) == r.installed # None /\ r.missing = {}

AgainstRelease(rows, k) ==
    LET installed == rows[k].installed
        build == rows[k].build
    IN CASE installed.version < build.version -> "upgrade"
         [] installed.version > build.version -> "downgrade"
         [] OTHER -> IF Differ(build.hash, installed.hash) \/ DependencyDiffers(rows, k)
                       THEN "differentHash" ELSE "installed"

\* recomputeInstallStatus, as a value.
InstallStatus(rows, k) ==
    IF ~Healthy(rows[k]) THEN "notInstalled"
    ELSE IF rows[k].build = None THEN "installed" ELSE AgainstRelease(rows, k)

Recomputed(rows, keys) ==
    [k \in DOMAIN rows |-> IF k \in keys THEN [rows[k] EXCEPT !.status = InstallStatus(rows, k)]
                                         ELSE rows[k]]

RowsNamed(rows, p) == {k \in DOMAIN rows : NameOf(k) = p}

-----------------------------------------------------------------------------
(* Catalog rows *)

KeyOf(release) == <<release.repo, release.name>>

\* A repository's row goes when its release does; a local row goes when some
\* repository offers its package.
Kept(rows, catalog) ==
    {k \in DOMAIN rows : IF RepoOf(k) = Local THEN NameOf(k) \notin {x.name : x \in catalog}
                                              ELSE k \in {KeyOf(x) : x \in catalog}}

\* catalog is a set of releases, one for a key.  What is known of a row's
\* installation stays.
ReplaceCatalog(rows, catalog) ==
    LET Old(k) == IF k \in DOMAIN rows THEN rows[k] ELSE NoRow
        New(k) == LET x == CHOOSE x \in catalog : KeyOf(x) = k
                  IN [Old(k) EXCEPT !.build = x.build, !.needs = x.needs]
        keys == {KeyOf(x) : x \in catalog}
    IN [k \in Kept(rows, catalog) \cup keys |-> IF k \in keys THEN New(k) ELSE rows[k]]

-----------------------------------------------------------------------------
(* What is installed: found maps each package to its build on disk or None *)

\* mergeLocalOnlyInstalled: user is the set of user-installed packages.  A
\* local row that is there keeps its version; a bulk update follows.
MergeLocalOnlyInstalled(rows, found, user) ==
    LET here == {p \in user : found[p] # None}
        kept == {k \in DOMAIN rows : RepoOf(k) = Local => NameOf(k) \in here}
        new == {p \in here : \A k \in kept : NameOf(k) # p}
    IN [k \in kept \cup {<<Local, p>> : p \in new} |->
          IF k \in kept THEN rows[k]
                        ELSE [NoRow EXCEPT !.installed = found[NameOf(k)],
                                           !.status = "installed"]]

EndBulkInstalledUpdate(rows) == Recomputed(rows, DOMAIN rows)

\* What the two maps say of a package; an absent version is 0.
CachedBuild(version, hash, p) ==
    IF version[p] = 0 THEN None ELSE [version |-> version[p], hash |-> hash[p]]

WithInstalled(rows, keys, version, hash) ==
    [k \in DOMAIN rows |->
        IF k \in keys THEN [rows[k] EXCEPT !.installed = CachedBuild(version, hash, NameOf(k))]
                      ELSE rows[k]]

ReplaceInstalledSet_KeepsGone(rows, version, hash) ==
    EndBulkInstalledUpdate(
       WithInstalled(rows, {k \in DOMAIN rows : version[NameOf(k)] # 0}, version, hash))

\* Rows of packages that are gone are cleared as well.
ReplaceInstalledSet(rows, version, hash) ==
    EndBulkInstalledUpdate(WithInstalled(rows, DOMAIN rows, version, hash))

\* The markInstalled calls of populateAppsModel: what is gone is not cleared.
MarkAllInstalled(rows, version, hash) ==
    WithInstalled(rows, {k \in DOMAIN rows : version[NameOf(k)] # 0}, version, hash)

MarkInstalled_OwnRowsOnly(rows, p, build) ==
    LET own == RowsNamed(rows, p)
    IN Recomputed([k \in DOMAIN rows |->
                     IF k \in own THEN [rows[k] EXCEPT !.installed = build] ELSE rows[k]],
                  own)

\* markInstalled outside a bulk: the rows of that name and, if one of them
\* changed, all the others.
MarkInstalled(rows, p, build) ==
    LET own == RowsNamed(rows, p)
    IN IF \A k \in own : rows[k].installed = build THEN rows
       ELSE Recomputed([k \in DOMAIN rows |->
                          IF k \in own THEN [rows[k] EXCEPT !.installed = build] ELSE rows[k]],
                       DOMAIN rows)

\* One setMissingDeps for each entry of the map; other rows keep theirs.
SetMissingDeps(rows, missing) ==
    LET named == {k \in DOMAIN rows : NameOf(k) \in DOMAIN missing}
    IN Recomputed([k \in DOMAIN rows |->
                     IF k \in named THEN [rows[k] EXCEPT !.missing = missing[NameOf(k)]]
                                    ELSE rows[k]],
                  named)
=============================================================================
