-------------------------------- MODULE Migrate --------------------------------
(* The migration tool (connect-migrate): it scans a project, rewrites the      *)
(* dependencies in its package.json files, then the imports in its sources,    *)
(* then runs the package manager for its lock files. Nothing is undone when a  *)
(* step fails, and the user runs the tool again.                               *)
(*                                                                             *)
(* A version range is the set of versions in it. Package names are those of    *)
(* @bufbuild ("old") and of @connectrpc ("new").                               *)
EXTENDS Naturals, FiniteSets, SequencesExt

CONSTANTS
  Projects,    \* what the tool may be run in
  CommandLines,
  MaxRuns      \* bound: how often it is run

VARIABLES
  disk,   \* the project: its manifests, sources and lock files
  run     \* the run of the tool

vars == <<disk, run>>

Old(name) == <<"@bufbuild", name>>
New(name) == <<"@connectrpc", name>>

-----------------------------------------------------------------------------
(* Versions: before 0.9.0, before the move, the target, and after it.          *)
Dropped == 1
Moved   == 2
Target  == 3
Later   == 4

AnyVersion == {Dropped, Moved, Target, Later}
Caret      == {Target, Later}
Unparsable == {}     \* semver throws

Replacement(from, range, to) == [from |-> Old(from), range |-> range, to |-> New(to)]

oldPluginReplacement ==
  Replacement("protoc-gen-connect-web", AnyVersion, "protoc-gen-connect-es")

removedWebExportReplacement ==
  Replacement("connect-web", {Dropped}, "connect-web")

(* The others are of the same kind.                                            *)
dependencyReplacements ==
  << oldPluginReplacement, removedWebExportReplacement,
     Replacement("connect", AnyVersion, "connect"),
     Replacement("connect-core", AnyVersion, "connect"),
     Replacement("connect-web", AnyVersion, "connect-web") >>

(* A package.json that cannot be read, has something of a wrong type, or says  *)
(* that all dependencies are bundled.                                          *)
Malformed == {"malformed", "bundles all"}

assertValidPackageJson(pkg) == pkg.shape \notin Malformed

(* A manifest has a section of dependencies of each kind, the names it         *)
(* bundles, and those that have meta data. replaceDependencies() knows three   *)
(* of the sections; the fourth, "optional", it leaves as it is.                *)
Sections == {"dependencies", "devDependencies", "peerDependencies"}

Depends(pkg, name) ==
  name \in DOMAIN pkg.optional \/ \E s \in Sections : name \in DOMAIN pkg.deps[s]

(* What a manifest bundles and has meta data for are dependencies of it. The   *)
(* files of a project are in directories.                                      *)
ManifestFields == {"shape", "deps", "optional", "bundled", "meta", "dir"}

IsManifest(pkg) ==
  /\ pkg = [f \in ManifestFields |-> pkg[f]]
  /\ pkg.deps = [s \in Sections |-> pkg.deps[s]]
  /\ \A s \in Sections : \A n \in DOMAIN pkg.deps[s] : pkg.deps[s][n] \subseteq AnyVersion
  /\ \A n \in pkg.bundled \cup pkg.meta : Depends(pkg, n)

IsList(l) == Len(l) \in Nat /\ l = [i \in 1 .. Len(l) |-> l[i]]

IsProject(d) ==
  /\ d = [f \in {"packages", "sources", "locks"} |-> d[f]]
  /\ IsList(d.packages) /\ IsList(d.sources) /\ IsList(d.locks)
  /\ \A i \in DOMAIN d.packages : IsManifest(d.packages[i])
  /\ \A i \in DOMAIN d.sources :
       d.sources[i] = [f \in {"refs", "broken", "dir"} |-> d.sources[i][f]]
  /\ \A i \in DOMAIN d.locks : d.locks[i] = [f \in {"is", "dir"} |-> d.locks[i][f]]

ASSUME ProjectsAssumption == \A d \in Projects : IsProject(d)

Matches(deps, replacement) ==
  /\ replacement.from \in DOMAIN deps
  /\ deps[replacement.from] \cap replacement.range # {}

NewRange(range) == IF Target \in range THEN range ELSE Caret

(* Variant: the old entry is not deleted.                                      *)
ReplacedBeside(deps, replacement) ==
  IF ~Matches(deps, replacement) THEN deps
  ELSE [n \in DOMAIN deps \cup {replacement.to} |->
          IF n = replacement.to THEN NewRange(deps[replacement.from]) ELSE deps[n]]

Replaced(deps, replacement) ==
  IF ~Matches(deps, replacement) THEN deps
  ELSE [n \in (DOMAIN deps \ {replacement.from}) \cup {replacement.to} |->
          IF n = replacement.to THEN NewRange(deps[replacement.from]) ELSE deps[n]]

Step(found, replacement) ==
  [deps    |-> [s \in Sections |-> Replaced(found.deps[s], replacement)],
   renamed |-> IF \E s \in Sections : Matches(found.deps[s], replacement)
               THEN [n \in DOMAIN found.renamed \cup {replacement.from} |->
                       IF n = replacement.from THEN replacement.to ELSE found.renamed[n]]
               ELSE found.renamed]

Renamed(names, renamed) == {IF n \in DOMAIN renamed THEN renamed[n] ELSE n : n \in names}

Throws(pkg, replacements) ==
  \E i \in DOMAIN replacements, s \in Sections :
    /\ replacements[i].from \in DOMAIN pkg.deps[s]
    /\ pkg.deps[s][replacements[i].from] = Unparsable

(* A sequence of at most one: all replacements rename.                         *)
replaceDependencies(pkg, replacements) ==
  LET found[i \in 0 .. Len(replacements)] ==
        IF i = 0 THEN [deps |-> pkg.deps, renamed |-> << >>]
        ELSE Step(found[i - 1], replacements[i])
      all == found[Len(replacements)]
  IN  IF all.renamed = << >> THEN << >>
      ELSE << [pkg EXCEPT !.deps = all.deps, !.bundled = Renamed(@, all.renamed),
                          !.meta = Renamed(@, all.renamed)] >>

-----------------------------------------------------------------------------
(* The transform of a source file: the references it has to packages, by form. *)
(* Re-exports and dynamic imports are not found.                               *)
importReplacements ==
  [name \in {Old("connect-web"), Old("connect"), Old("connect-core")} |->
     IF name = Old("connect-web") THEN New("connect-web") ELSE New("connect")]

getReplacementImport(name) ==
  IF name \in DOMAIN importReplacements THEN importReplacements[name] ELSE name

Transform(refs) ==
  { IF r[1] \in {"import", "require"} THEN <<r[1], getReplacementImport(r[2])>> ELSE r :
      r \in refs }

-----------------------------------------------------------------------------
(* parseCommandLineArgs(): a fold over the arguments, in which one may take    *)
(* the next for its value.                                                     *)
NoArgs == [ok |-> TRUE, info |-> FALSE, noInstall |-> FALSE, force |-> FALSE,
           overriding |-> FALSE, ignore |-> {"dist"}, value |-> FALSE]

Argument(a, arg) ==
  CASE ~a.ok                  -> a
    [] a.ok /\ a.value        -> [a EXCEPT !.ignore = @ \cup {arg}, !.value = FALSE]
    [] arg \in {"--help", "-h", "--version"} /\ a.ok /\ ~a.value -> [a EXCEPT !.info = TRUE]
    [] arg = "--no-install" /\ a.ok /\ ~a.value -> [a EXCEPT !.noInstall = TRUE]
    [] arg = "--force" /\ a.ok /\ ~a.value      -> [a EXCEPT !.force = TRUE]
    [] arg = "--ignore-pattern" /\ a.ok /\ ~a.value ->
         [a EXCEPT !.value = TRUE, !.overriding = TRUE,
                   !.ignore = IF a.overriding THEN @ ELSE {}]
    [] OTHER -> [a EXCEPT !.ok = FALSE]

parseCommandLineArgs(arguments) ==
  LET a == FoldLeft(Argument, NoArgs, arguments) IN [a EXCEPT !.ok = @ /\ ~a.value]

-----------------------------------------------------------------------------
(* One run. What it exits with: "usage", "info", "nothing", "current",         *)
(* "warned", "caught", "errors" or "migrated", or "killed".                    *)
Started(count, arguments) ==
  [pc |-> "scan", count |-> count, args |-> parseCommandLineArgs(arguments),
   packages |-> << >>, sources |-> {}, locks |-> {},    \* what was scanned
   left |-> {},                            \* what of it is still to migrate
   updated |-> {}, sourceErrors |-> 0, lockErrors |-> 0, exit |-> "none"]

Init ==
  /\ disk \in Projects
  /\ \E c \in CommandLines : run = Started(1, c)

Exits(how)      == run' = [run EXCEPT !.pc = "exit", !.exit = how] /\ UNCHANGED disk
Goes(pc, files) == run' = [run EXCEPT !.pc = pc, !.left = files] /\ UNCHANGED disk

(* The files that no pattern ignores, of any kind.                             *)
Seen(files) == {i \in DOMAIN files : files[i].dir \notin run.args.ignore}

(* Options come first. scan() reads and validates the manifests it sees.       *)
Scan ==
  /\ run.pc = "scan"
  /\ LET manifests == Seen(disk.packages)
         sources   == Seen(disk.sources)
         invalid   == \E i \in manifests : ~assertValidPackageJson(disk.packages[i])
     IN  CASE ~run.args.ok                               -> Exits("usage")
           [] run.args.ok /\ run.args.info               -> Exits("info")
           [] run.args.ok /\ ~run.args.info /\ invalid   -> Exits("caught")
           [] run.args.ok /\ ~run.args.info /\ manifests = {} /\ sources = {} -> Exits("nothing")
           [] OTHER -> /\ run' = [run EXCEPT !.pc = "applicable",
                             !.packages = [i \in manifests |-> disk.packages[i]],
                             !.sources = sources, !.locks = Seen(disk.locks)]
                       /\ UNCHANGED disk

Changes(pkg, replacements) == replaceDependencies(pkg, replacements) # << >>

(* v0_13_1.applicable(): the first manifest that changes or throws decides.    *)
Applicable ==
  /\ run.pc = "applicable"
  /\ LET all     == dependencyReplacements
         decides == {i \in DOMAIN run.packages :
                       Throws(run.packages[i], all) \/ Changes(run.packages[i], all)}
         first   == CHOOSE i \in decides : \A j \in decides : i <= j
     IN  CASE decides = {} -> Exits("current")
           [] decides # {} /\ Throws(run.packages[first], all) -> Exits("caught")
           [] OTHER -> Goes("warn", {})

(* Without --force, what the tool cannot migrate is an error.                  *)
Warn ==
  /\ run.pc = "warn"
  /\ LET checks == <<oldPluginReplacement, removedWebExportReplacement>>
         Some(Test(_, _)) == \E i \in DOMAIN run.packages, c \in DOMAIN checks :
                               Test(run.packages[i], <<checks[c]>>)
         Go == Goes("packages", DOMAIN run.packages)
     IN  CASE run.args.force                                     -> Go
           [] ~run.args.force /\ Some(Throws)                    -> Exits("caught")
           [] ~run.args.force /\ ~Some(Throws) /\ Some(Changes)  -> Exits("warned")
           [] OTHER                                              -> Go

(* Files are taken in the order they were found.                               *)
IsFirst(i) == \A j \in run.left : i <= j

(* migratePackages(): one manifest. It is written as it was scanned, with its  *)
(* dependencies replaced; the lock files then do not have them.                *)
MigratePackage ==
  /\ run.pc = "packages"
  /\ \E i \in run.left :
       LET pkg == run.packages[i]
           new == replaceDependencies(pkg, dependencyReplacements)
       IN  /\ IsFirst(i)
           /\ CASE Throws(pkg, dependencyReplacements) -> Exits("caught")
                [] ~Throws(pkg, dependencyReplacements) /\ new = << >> ->
                     run' = [run EXCEPT !.left = @ \ {i}] /\ UNCHANGED disk
                [] OTHER ->
                     \/ /\ disk' = [disk EXCEPT !.packages[i] = new[1],
                            !.locks = [l \in DOMAIN @ |-> [@[l] EXCEPT !.is = "stale"]]]
                        /\ run' = [run EXCEPT !.left = @ \ {i}, !.updated = @ \cup {i}]
                     \/ Exits("caught")     \* it cannot be written

PackagesDone == run.pc = "packages" /\ run.left = {} /\ Goes("sources", run.sources)

(* migrateSourceFiles(): one file. An error is counted.                        *)
MigrateSource ==
  /\ run.pc = "sources"
  /\ \E i \in run.left :
       LET f == disk.sources[i]
       IN  /\ IsFirst(i)
           /\ \/ /\ ~f.broken
                 /\ disk' = [disk EXCEPT !.sources[i].refs = Transform(@)]
                 /\ run' = [run EXCEPT !.left = @ \ {i}]
              \/ /\ f.broken \/ Transform(f.refs) # f.refs     \* or it cannot be written
                 /\ run' = [run EXCEPT !.left = @ \ {i}, !.sourceErrors = @ + 1]
                 /\ UNCHANGED disk

SourcesDone == run.pc = "sources" /\ run.left = {} /\ Goes("locks", run.locks)

(* migrateLockFiles(): one install, which succeeds, fails, or is not found.    *)
Install ==
  /\ run.pc = "locks" /\ run.updated # {} /\ ~run.args.noInstall
  /\ \E l \in run.left :
       /\ IsFirst(l)
       /\ \/ /\ disk' = [disk EXCEPT !.locks[l].is = "fresh"]
             /\ run' = [run EXCEPT !.left = @ \ {l}]
          \/ /\ run' = [run EXCEPT !.left = @ \ {l}, !.lockErrors = @ + 1]
             /\ UNCHANGED disk
          \/ Exits("caught")

LocksDone ==
  /\ run.pc = "locks"
  /\ run.updated # {} /\ ~run.args.noInstall => run.left = {}
  /\ Exits(IF run.sourceErrors + run.lockErrors > 0 THEN "errors" ELSE "migrated")

(* The user stops a run.                                                       *)
Killed == run.pc # "exit" /\ Exits("killed")

Rerun ==
  /\ run.pc = "exit" /\ run.count < MaxRuns
  /\ \E c \in CommandLines : run' = Started(run.count + 1, c)
  /\ UNCHANGED disk

Next == \/ Scan \/ Applicable \/ Warn \/ MigratePackage \/ PackagesDone
        \/ MigrateSource \/ SourcesDone \/ Install \/ LocksDone \/ Killed \/ Rerun

Spec == Init /\ [][Next]_vars

-----------------------------------------------------------------------------
OldDependency(pkg) ==
  \E s \in Sections, i \in DOMAIN dependencyReplacements :
    dependencyReplacements[i].from \in DOMAIN pkg.deps[s]

OldReference(f, forms) ==
  \E r \in f.refs : r[1] \in forms /\ r[2] \in DOMAIN importReplacements

(* A run that ends well has migrated everything it scanned: no manifest has an *)
(* old dependency in one of the sections that are replaced, and what it        *)
(* bundles and describes are its dependencies; no source imports or requires   *)
(* an old package; and the lock files are up to date, unless the run was to    *)
(* leave them (v0.13.1.ts:147).                                                *)
MigratedIsComplete ==
  run.exit = "migrated" =>
    /\ \A i \in DOMAIN run.packages :
         LET pkg == disk.packages[i]
         IN  ~OldDependency(pkg) /\ \A n \in pkg.bundled \cup pkg.meta : Depends(pkg, n)
    /\ \A i \in run.sources : ~OldReference(disk.sources[i], {"import", "require"})
    /\ ~run.args.noInstall /\ run.updated # {} =>
         \A l \in run.locks : disk.locks[l].is = "fresh"

(* "Replace all dependencies matching "from" with "to"": no manifest has an    *)
(* old dependency, of whichever kind (replace-dependencies.ts:27).             *)
NoOldDependency ==
  run.exit = "migrated" =>
    \A i \in DOMAIN run.packages, r \in DOMAIN dependencyReplacements :
      ~Depends(disk.packages[i], dependencyReplacements[r].from)

(* "It looks like you are already up to date": no source imports an old        *)
(* package (cli.ts:63).                                                        *)
CurrentIsMigrated ==
  run.exit = "current" =>
    \A i \in run.sources : ~OldReference(disk.sources[i], {"import", "require"})
=============================================================================
