---------------------------- MODULE MigrateProofs ----------------------------
(* A theorem about Migrate, for every project and every sequence of runs: what *)
(* a run that ends well has migrated. The first part says what the             *)
(* replacements make of one manifest, the second how far a run has come.       *)
EXTENDS Migrate, TLAPS

-----------------------------------------------------------------------------
(* Replacements have old names, and bring new ones.                           *)
OldName(n) == n \in {Old("protoc-gen-connect-web"), Old("connect-web"), Old("connect"),
                     Old("connect-core")}

IsReplacement(rep) ==
  /\ OldName(rep.from) /\ ~OldName(rep.to)
  /\ rep.range \subseteq AnyVersion

\* The names differ by their scope.
LEMMA NamesDiffer == \A x, y : Old(x) # New(y)
BY DEF Old, New

\* The replacements are such.
LEMMA ReplacementsAre ==
  /\ Len(dependencyReplacements) = 5 /\ DOMAIN dependencyReplacements = 1 .. 5
  /\ \A i \in 1 .. 5 : IsReplacement(dependencyReplacements[i])
  /\ \A n : OldName(n) <=> \E i \in 1 .. 5 : dependencyReplacements[i].from = n
  /\ \A n : OldName(n) =>
       \E i \in 1 .. 5 : /\ dependencyReplacements[i].from = n
                         /\ dependencyReplacements[i].range = AnyVersion
<1> DEFINE r == dependencyReplacements
<1>1. r = << oldPluginReplacement, removedWebExportReplacement,
             Replacement("connect", AnyVersion, "connect"),
             Replacement("connect-core", AnyVersion, "connect"),
             Replacement("connect-web", AnyVersion, "connect-web") >>
  BY DEF dependencyReplacements
<1> HIDE DEF r
<1>2. Len(r) = 5 /\ DOMAIN r = 1 .. 5
  BY <1>1
<1>3. /\ r[1].from = Old("protoc-gen-connect-web") /\ r[1].range = AnyVersion
      /\ r[1].to = New("protoc-gen-connect-es")
      /\ r[2].from = Old("connect-web") /\ r[2].range = {Dropped} /\ r[2].to = New("connect-web")
      /\ r[3].from = Old("connect") /\ r[3].range = AnyVersion /\ r[3].to = New("connect")
      /\ r[4].from = Old("connect-core") /\ r[4].range = AnyVersion /\ r[4].to = New("connect")
      /\ r[5].from = Old("connect-web") /\ r[5].range = AnyVersion /\ r[5].to = New("connect-web")
  BY <1>1 DEF Replacement, oldPluginReplacement, removedWebExportReplacement
<1>4. \A i \in 1 .. 5 : i = 1 \/ i = 2 \/ i = 3 \/ i = 4 \/ i = 5
  OBVIOUS
<1>5. \A i \in 1 .. 5 : IsReplacement(r[i])
  <2>1. \A y : ~OldName(New(y))
    BY NamesDiffer DEF OldName
  <2>2. {Dropped} \subseteq AnyVersion
    BY DEF AnyVersion
  <2> QED  BY <1>3, <1>4, <2>1, <2>2, Zenon DEF IsReplacement, OldName
<1>6. \A n : OldName(n) <=> \E i \in 1 .. 5 : r[i].from = n
  BY <1>3, <1>4 DEF OldName
<1>7. \A n : OldName(n) => \E i \in 1 .. 5 : r[i].from = n /\ r[i].range = AnyVersion
  BY <1>3, <1>4 DEF OldName
<1> QED  BY <1>2, <1>5, <1>6, <1>7 DEF r

-----------------------------------------------------------------------------
(* What the first n replacements make of the dependencies of a manifest, of   *)
(* which none throws.                                                         *)
Ranges(deps) ==
  \A s \in Sections : \A n \in DOMAIN deps[s] :
    deps[s][n] \subseteq AnyVersion /\ (OldName(n) => deps[s][n] # {})

Gone(deps, n) ==
  \A i \in 1 .. n : dependencyReplacements[i].range = AnyVersion =>
    \A s \in Sections : dependencyReplacements[i].from \notin DOMAIN deps[s]

(* What is renamed is a dependency by its new name, what is not by its old.   *)
Kept(deps, found) ==
  /\ \A n \in DOMAIN found.renamed :
       /\ ~OldName(found.renamed[n])
       /\ \E s \in Sections : found.renamed[n] \in DOMAIN found.deps[s]
  /\ \A s \in Sections : \A n \in DOMAIN deps[s] :
       n \in DOMAIN found.renamed \/ n \in DOMAIN found.deps[s]

Found(deps, found, n) ==
  /\ found.deps = [s \in Sections |-> found.deps[s]]
  /\ Ranges(found.deps) /\ Gone(found.deps, n) /\ Kept(deps, found)
  /\ DOMAIN found.renamed = {} => found.deps = deps

\* One replacement in one section.
LEMMA ReplacedIs ==
  ASSUME NEW deps, NEW rep
  PROVE  /\ ~Matches(deps, rep) => Replaced(deps, rep) = deps
         /\ Matches(deps, rep) =>
              /\ DOMAIN Replaced(deps, rep) = (DOMAIN deps \ {rep.from}) \cup {rep.to}
              /\ \A n \in DOMAIN Replaced(deps, rep) :
                   Replaced(deps, rep)[n] = IF n = rep.to THEN NewRange(deps[rep.from]) ELSE deps[n]
BY DEF Replaced

\* One step.
LEMMA StepIs ==
  ASSUME NEW deps, NEW found, NEW i \in 1 .. 5, Found(deps, found, i - 1)
  PROVE  Found(deps, Step(found, dependencyReplacements[i]), i)
<1> DEFINE rep  == dependencyReplacements[i]
           new  == Step(found, rep)
           D    == found.deps
           E    == new.deps
           some == \E s \in Sections : Matches(D[s], rep)
<1>1. /\ E = [s \in Sections |-> Replaced(D[s], rep)]
      /\ ~some => new.renamed = found.renamed
      /\ some => new.renamed = [n \in DOMAIN found.renamed \cup {rep.from} |->
                                  IF n = rep.from THEN rep.to ELSE found.renamed[n]]
  BY DEF Step
<1>2. IsReplacement(rep)
  BY ReplacementsAre
<1>3. \A j \in 1 .. 5 : OldName(dependencyReplacements[j].from)
  BY ReplacementsAre
<1>4. /\ D = [s \in Sections |-> D[s]] /\ Ranges(D) /\ Gone(D, i - 1) /\ Kept(deps, found)
      /\ DOMAIN found.renamed = {} => D = deps
  BY DEF Found
<1> HIDE DEF new, rep
<1>5. \A s \in Sections : E[s] = Replaced(D[s], rep)
  BY <1>1
<1> HIDE DEF D, E
<1>6. ASSUME NEW s \in Sections
      PROVE  /\ ~Matches(D[s], rep) => E[s] = D[s]
             /\ Matches(D[s], rep) =>
                  /\ DOMAIN E[s] = (DOMAIN D[s] \ {rep.from}) \cup {rep.to}
                  /\ \A n \in DOMAIN E[s] :
                       E[s][n] = IF n = rep.to THEN NewRange(D[s][rep.from]) ELSE D[s][n]
  <2> DEFINE x == D[s]
             y == E[s]
  <2>1. y = Replaced(x, rep)
    BY <1>5
  <2> HIDE DEF x, y
  <2>2. /\ ~Matches(x, rep) => Replaced(x, rep) = x
        /\ Matches(x, rep) =>
             /\ DOMAIN Replaced(x, rep) = (DOMAIN x \ {rep.from}) \cup {rep.to}
             /\ \A n \in DOMAIN Replaced(x, rep) :
                  Replaced(x, rep)[n] = IF n = rep.to THEN NewRange(x[rep.from]) ELSE x[n]
    BY ReplacedIs
  <2>3. /\ ~Matches(x, rep) => y = x
        /\ Matches(x, rep) =>
             /\ DOMAIN y = (DOMAIN x \ {rep.from}) \cup {rep.to}
             /\ \A n \in DOMAIN y :
                  y[n] = IF n = rep.to THEN NewRange(x[rep.from]) ELSE x[n]
    BY <2>1, <2>2, Zenon
  <2> QED  BY <2>3 DEF x, y
<1>7. E = [s \in Sections |-> E[s]]
  BY <1>1 DEF E
<1>8. Ranges(E)
  <2> SUFFICES ASSUME NEW s \in Sections, NEW n \in DOMAIN E[s]
               PROVE  E[s][n] \subseteq AnyVersion /\ (OldName(n) => E[s][n] # {})
    BY DEF Ranges
  <2>1. CASE ~Matches(D[s], rep)
    BY <1>4, <1>6, <2>1 DEF Ranges
  <2>2. CASE Matches(D[s], rep) /\ n = rep.to
    <3>1. rep.from \in DOMAIN D[s] /\ D[s][rep.from] \subseteq AnyVersion
      BY <1>4, <2>2 DEF Ranges, Matches
    <3>2. NewRange(D[s][rep.from]) \subseteq AnyVersion
      BY <3>1 DEF NewRange, Caret, AnyVersion
    <3> QED  BY <1>2, <1>6, <2>2, <3>2 DEF IsReplacement
  <2>3. CASE Matches(D[s], rep) /\ n # rep.to
    <3>1. n \in DOMAIN D[s] /\ E[s][n] = D[s][n]
      BY <1>6, <2>3
    <3> QED  BY <1>4, <3>1 DEF Ranges
  <2> QED  BY <2>1, <2>2, <2>3
<1>9. \A s \in Sections : \A n \in DOMAIN E[s] : n \in DOMAIN D[s] \/ n = rep.to
  BY <1>6
<1>10. Gone(E, i)
  <2> SUFFICES ASSUME NEW j \in 1 .. i, dependencyReplacements[j].range = AnyVersion,
                      NEW s \in Sections
               PROVE  dependencyReplacements[j].from \notin DOMAIN E[s]
    BY DEF Gone
  <2>1. dependencyReplacements[j].from # rep.to
    <3>1. j \in 1 .. 5
      OBVIOUS
    <3> QED  BY <1>2, <1>3, <3>1 DEF IsReplacement
  <2>2. CASE j # i
    <3>1. j \in 1 .. i - 1
      BY <2>2
    <3>2. dependencyReplacements[j].from \notin DOMAIN D[s]
      BY <1>4, <3>1 DEF Gone
    <3> QED  BY <1>9, <2>1, <3>2
  <2>3. CASE j = i
    <3>1. rep.range = AnyVersion /\ dependencyReplacements[j].from = rep.from
      BY <2>3 DEF rep
    <3>2. CASE Matches(D[s], rep)
      BY <1>6, <2>1, <3>1, <3>2
    <3>3. CASE ~Matches(D[s], rep)
      <4>1. rep.from \notin DOMAIN D[s]
        <5> SUFFICES ASSUME rep.from \in DOMAIN D[s]
                     PROVE  FALSE
          OBVIOUS
        <5>1. D[s][rep.from] \subseteq AnyVersion /\ D[s][rep.from] # {}
          BY <1>2, <1>4 DEF Ranges, IsReplacement
        <5>2. D[s][rep.from] \cap rep.range # {}
          BY <3>1, <5>1
        <5> QED  BY <3>3, <5>2 DEF Matches
      <4> QED  BY <1>6, <3>1, <3>3, <4>1
    <3> QED  BY <3>2, <3>3
  <2> QED  BY <2>2, <2>3
<1>11. \A s \in Sections : \A n \in DOMAIN D[s] : n \in DOMAIN E[s] \/ (n = rep.from /\ some)
  BY <1>6 DEF D
<1>12. Kept(deps, new)
  <2>1. ASSUME NEW n \in DOMAIN new.renamed
        PROVE  /\ ~OldName(new.renamed[n])
               /\ \E s \in Sections : new.renamed[n] \in DOMAIN E[s]
    <3>1. CASE some /\ n = rep.from
      <4>1. new.renamed[n] = rep.to
        BY <1>1, <3>1
      <4>2. PICK s \in Sections : Matches(D[s], rep)
        BY <3>1 DEF D
      <4>3. rep.to \in DOMAIN E[s]
        BY <1>6, <4>2
      <4> QED  BY <1>2, <4>1, <4>3 DEF IsReplacement
    <3>2. CASE ~(some /\ n = rep.from)
      <4>1. n \in DOMAIN found.renamed /\ new.renamed[n] = found.renamed[n]
        BY <1>1, <3>2
      <4>2. PICK s \in Sections : ~OldName(found.renamed[n]) /\ found.renamed[n] \in DOMAIN D[s]
        BY <1>4, <4>1 DEF Kept, D
      <4>3. found.renamed[n] # rep.from
        BY <1>2, <4>2 DEF IsReplacement
      <4> QED  BY <1>11, <4>1, <4>2, <4>3
    <3> QED  BY <3>1, <3>2
  <2>2. ASSUME NEW s \in Sections, NEW n \in DOMAIN deps[s]
        PROVE  n \in DOMAIN new.renamed \/ n \in DOMAIN E[s]
    <3>1. n \in DOMAIN found.renamed \/ n \in DOMAIN D[s]
      BY <1>4 DEF Kept, D
    <3>2. n \in DOMAIN found.renamed => n \in DOMAIN new.renamed
      BY <1>1
    <3>3. some => rep.from \in DOMAIN new.renamed
      BY <1>1
    <3> QED  BY <1>11, <3>1, <3>2, <3>3
  <2> QED  BY <2>1, <2>2 DEF Kept, E
<1>13. DOMAIN new.renamed = {} => E = deps
  <2> SUFFICES ASSUME DOMAIN new.renamed = {}
               PROVE  E = deps
    OBVIOUS
  <2>1. ~some
    BY <1>1
  <2>2. D = deps
    BY <1>1, <1>4, <2>1
  <2>3. \A s \in Sections : E[s] = D[s]
    BY <1>6, <2>1 DEF D
  <2>4. D = [s \in Sections |-> D[s]]
    BY <1>4
  <2>5. E = [s \in Sections |-> D[s]]
    BY <1>7, <2>3
  <2> QED  BY <2>2, <2>4, <2>5
<1>14. Found(deps, new, i)
  BY <1>7, <1>8, <1>10, <1>12, <1>13 DEF Found, E
<1> QED  BY <1>14 DEF new, rep

\* Before the first.
LEMMA FoundBefore ==
  ASSUME NEW pkg, IsManifest(pkg), ~Throws(pkg, dependencyReplacements)
  PROVE  Found(pkg.deps, [deps |-> pkg.deps, renamed |-> << >>], 0)
<1> DEFINE found == [deps |-> pkg.deps, renamed |-> << >>]
<1>1. found.deps = pkg.deps /\ DOMAIN found.renamed = {}
  OBVIOUS
<1>2. Ranges(pkg.deps)
  <2> SUFFICES ASSUME NEW s \in Sections, NEW n \in DOMAIN pkg.deps[s]
               PROVE  pkg.deps[s][n] \subseteq AnyVersion /\ (OldName(n) => pkg.deps[s][n] # {})
    BY DEF Ranges
  <2>1. pkg.deps[s][n] \subseteq AnyVersion
    BY DEF IsManifest
  <2>2. OldName(n) => pkg.deps[s][n] # {}
    <3> SUFFICES ASSUME OldName(n)
                 PROVE  pkg.deps[s][n] # {}
      OBVIOUS
    <3>1. PICK i \in 1 .. 5 : dependencyReplacements[i].from = n
      BY ReplacementsAre
    <3>2. i \in DOMAIN dependencyReplacements
      BY ReplacementsAre
    <3> QED  BY <3>1, <3>2 DEF Throws, Unparsable
  <2> QED  BY <2>1, <2>2
<1>3. Gone(pkg.deps, 0)
  BY DEF Gone
<1> HIDE DEF found
<1>4. Kept(pkg.deps, found)
  BY <1>1 DEF Kept
<1>5. pkg.deps = [s \in Sections |-> pkg.deps[s]]
  BY DEF IsManifest
<1>6. Found(pkg.deps, found, 0)
  BY <1>1, <1>2, <1>3, <1>4, <1>5 DEF Found
<1> QED  BY <1>6 DEF found

(* The function that replaceDependencies() is defined by.                     *)
NextFound(pkg, found, i) ==
  IF i = 0 THEN [deps |-> pkg.deps, renamed |-> << >>]
  ELSE Step(found[i - 1], dependencyReplacements[i])

FoundAll(pkg) ==
  CHOOSE found : found = [i \in 0 .. Len(dependencyReplacements) |-> NextFound(pkg, found, i)]

\* There is one.
LEMMA FoundAllIs ==
  ASSUME NEW pkg
  PROVE  \A i \in 0 .. 5 : FoundAll(pkg)[i] = NextFound(pkg, FoundAll(pkg), i)
<1> DEFINE r  == dependencyReplacements
           f0 == [deps |-> pkg.deps, renamed |-> << >>]
           f1 == Step(f0, r[1])
           f2 == Step(f1, r[2])
           f3 == Step(f2, r[3])
           f4 == Step(f3, r[4])
           f5 == Step(f4, r[5])
           w  == [i \in 0 .. 5 |-> CASE i = 0 -> f0 [] i = 1 -> f1 [] i = 2 -> f2
                                     [] i = 3 -> f3 [] i = 4 -> f4 [] i = 5 -> f5]
<1>1. f0 = [deps |-> pkg.deps, renamed |-> << >>] /\ f1 = Step(f0, r[1])
      /\ f2 = Step(f1, r[2]) /\ f3 = Step(f2, r[3]) /\ f4 = Step(f3, r[4])
      /\ f5 = Step(f4, r[5])
  OBVIOUS
<1> HIDE DEF f0, f1, f2, f3, f4, f5, r
<1>2. w = [i \in 0 .. 5 |-> w[i]]
  OBVIOUS
<1>3. w[0] = f0 /\ w[1] = f1 /\ w[2] = f2 /\ w[3] = f3 /\ w[4] = f4 /\ w[5] = f5
  OBVIOUS
<1> HIDE DEF w
<1>4. ASSUME NEW i \in 0 .. 5
      PROVE  w[i] = NextFound(pkg, w, i)
  <2>1. i = 0 \/ i = 1 \/ i = 2 \/ i = 3 \/ i = 4 \/ i = 5
    OBVIOUS
  <2>2. 1 - 1 = 0 /\ 2 - 1 = 1 /\ 3 - 1 = 2 /\ 4 - 1 = 3 /\ 5 - 1 = 4
        /\ 1 # 0 /\ 2 # 0 /\ 3 # 0 /\ 4 # 0 /\ 5 # 0
    OBVIOUS
  <2> QED  BY <1>1, <1>3, <2>1, <2>2 DEF NextFound, r
<1>5. Len(dependencyReplacements) = 5
  BY ReplacementsAre
<1>6. w = [i \in 0 .. Len(dependencyReplacements) |-> NextFound(pkg, w, i)]
  BY <1>2, <1>4, <1>5
<1> DEFINE p == FoundAll(pkg)
<1>7. p = [i \in 0 .. Len(dependencyReplacements) |-> NextFound(pkg, p, i)]
  BY <1>6, Zenon DEF FoundAll
<1> HIDE DEF p
<1>8. \A i \in 0 .. 5 : p[i] = NextFound(pkg, p, i)
  BY <1>5, <1>7
<1> QED  BY <1>8 DEF p

\* What all replacements make of the dependencies.
LEMMA FoundAfter ==
  ASSUME NEW pkg, IsManifest(pkg), ~Throws(pkg, dependencyReplacements)
  PROVE  Found(pkg.deps, FoundAll(pkg)[5], 5)
<1> DEFINE p == FoundAll(pkg)
<1>1. \A i \in 0 .. 5 : p[i] = NextFound(pkg, p, i)
  BY FoundAllIs
<1> HIDE DEF p
<1>2. Found(pkg.deps, p[0], 0)
  <2>1. p[0] = [deps |-> pkg.deps, renamed |-> << >>]
    BY <1>1 DEF NextFound
  <2> QED  BY <2>1, FoundBefore
<1>3. ASSUME NEW i \in 1 .. 5, Found(pkg.deps, p[i - 1], i - 1)
      PROVE  Found(pkg.deps, p[i], i)
  <2>1. p[i] = Step(p[i - 1], dependencyReplacements[i])
    <3>1. i \in 0 .. 5 /\ i # 0
      OBVIOUS
    <3> QED  BY <1>1, <3>1 DEF NextFound
  <2>2. Found(pkg.deps, Step(p[i - 1], dependencyReplacements[i]), i)
    BY <1>3, StepIs
  <2> QED  BY <2>1, <2>2
<1>4. 1 - 1 = 0 /\ 2 - 1 = 1 /\ 3 - 1 = 2 /\ 4 - 1 = 3 /\ 5 - 1 = 4
      /\ 1 \in 1 .. 5 /\ 2 \in 1 .. 5 /\ 3 \in 1 .. 5 /\ 4 \in 1 .. 5 /\ 5 \in 1 .. 5
  OBVIOUS
<1>5. Found(pkg.deps, p[1], 1)
  BY <1>2, <1>3, <1>4
<1>6. Found(pkg.deps, p[2], 2)
  BY <1>3, <1>4, <1>5
<1>7. Found(pkg.deps, p[3], 3)
  BY <1>3, <1>4, <1>6
<1>8. Found(pkg.deps, p[4], 4)
  BY <1>3, <1>4, <1>7
<1>9. Found(pkg.deps, p[5], 5)
  BY <1>3, <1>4, <1>8
<1> QED  BY <1>9 DEF p

(* A manifest without old dependencies in the sections that are replaced,     *)
(* which bundles and describes what it depends on.                            *)
Complete(pkg) ==
  ~OldDependency(pkg) /\ \A n \in pkg.bundled \cup pkg.meta : Depends(pkg, n)

\* A manifest that does not throw is complete afterwards.
LEMMA ReplacedIsComplete ==
  ASSUME NEW pkg, IsManifest(pkg), ~Throws(pkg, dependencyReplacements),
         NEW new, new = replaceDependencies(pkg, dependencyReplacements)
  PROVE  /\ new = << >> => Complete(pkg)
         /\ new # << >> => IsManifest(new[1]) /\ Complete(new[1])
<1> DEFINE all  == FoundAll(pkg)[5]
           next == [pkg EXCEPT !.deps = all.deps, !.bundled = Renamed(@, all.renamed),
                               !.meta = Renamed(@, all.renamed)]
<1>1. new = IF all.renamed = << >> THEN << >> ELSE << next >>
  <2>1. Len(dependencyReplacements) = 5
    BY ReplacementsAre
  <2> QED  BY <2>1 DEF replaceDependencies, FoundAll, NextFound
<1>2. Found(pkg.deps, all, 5)
  BY FoundAfter
<1> HIDE DEF all
<1>3. /\ all.deps = [s \in Sections |-> all.deps[s]]
      /\ Ranges(all.deps) /\ Gone(all.deps, 5) /\ Kept(pkg.deps, all)
      /\ DOMAIN all.renamed = {} => all.deps = pkg.deps
  BY <1>2 DEF Found
<1>4. ASSUME NEW s \in Sections, NEW i \in DOMAIN dependencyReplacements
      PROVE  dependencyReplacements[i].from \notin DOMAIN all.deps[s]
  <2> DEFINE n == dependencyReplacements[i].from
  <2>1. i \in 1 .. 5
    BY ReplacementsAre
  <2>2. OldName(n)
    BY <2>1, ReplacementsAre
  <2> HIDE DEF n
  <2>3. PICK j \in 1 .. 5 : dependencyReplacements[j].from = n
                            /\ dependencyReplacements[j].range = AnyVersion
    BY <2>2, ReplacementsAre
  <2> QED  BY <1>3, <2>3 DEF Gone, n
<1>5. \A n \in pkg.bundled \cup pkg.meta : Depends(pkg, n)
  BY DEF IsManifest
<1>6. CASE all.renamed = << >>
  <2>1. DOMAIN all.renamed = {}
    BY <1>6
  <2>2. all.deps = pkg.deps
    BY <1>3, <2>1
  <2>3. Complete(pkg)
    BY <1>4, <1>5, <2>2 DEF Complete, OldDependency
  <2> QED  BY <1>1, <1>6, <2>3
<1>7. CASE all.renamed # << >>
  <2>1. new # << >> /\ new[1] = next
    BY <1>1, <1>7
  <2>2. pkg = [f \in ManifestFields |-> pkg[f]]
    BY DEF IsManifest
  <2>3. /\ next.deps = all.deps /\ next.bundled = Renamed(pkg.bundled, all.renamed)
        /\ next.meta = Renamed(pkg.meta, all.renamed) /\ next.optional = pkg.optional
    BY <2>2 DEF ManifestFields
  <2>4. next = [f \in ManifestFields |-> next[f]]
    BY <2>2 DEF ManifestFields
  <2> HIDE DEF next
  <2>5. ASSUME NEW n \in next.bundled \cup next.meta
        PROVE  Depends(next, n)
    <3>1. PICK m \in pkg.bundled \cup pkg.meta :
                 n = IF m \in DOMAIN all.renamed THEN all.renamed[m] ELSE m
      BY <2>3 DEF Renamed
    <3>2. CASE m \in DOMAIN all.renamed
      BY <1>3, <2>3, <3>1, <3>2 DEF Kept, Depends
    <3>3. CASE m \notin DOMAIN all.renamed
      <4>1. Depends(pkg, m)
        BY <1>5
      <4>2. \A s \in Sections : m \in DOMAIN pkg.deps[s] => m \in DOMAIN all.deps[s]
        BY <1>3, <3>3 DEF Kept
      <4> QED  BY <2>3, <3>1, <3>3, <4>1, <4>2 DEF Depends
    <3> QED  BY <3>2, <3>3
  <2>6. Complete(next)
    BY <1>4, <2>3, <2>5 DEF Complete, OldDependency
  <2>7. \A s \in Sections : \A n \in DOMAIN next.deps[s] : next.deps[s][n] \subseteq AnyVersion
    BY <1>3, <2>3 DEF Ranges
  <2>8. IsManifest(next)
    BY <1>3, <2>3, <2>4, <2>5, <2>7 DEF IsManifest
  <2> QED  BY <2>1, <2>6, <2>8
<1> QED  BY <1>6, <1>7

\* A source that was transformed imports and requires no old package.
LEMMA TransformIsComplete ==
  ASSUME NEW f, NEW g, g.refs = Transform(f.refs)
  PROVE  ~OldReference(g, {"import", "require"})
<1> SUFFICES ASSUME NEW q \in Transform(f.refs), q[1] \in {"import", "require"},
                    q[2] \in DOMAIN importReplacements
             PROVE  FALSE
  BY DEF OldReference
<1>1. PICK p \in f.refs :
        q = IF p[1] \in {"import", "require"} THEN <<p[1], getReplacementImport(p[2])>> ELSE p
  BY DEF Transform
<1>2. p[1] \in {"import", "require"}
  BY <1>1
<1>3. q[2] = getReplacementImport(p[2])
  BY <1>1, <1>2
<1>4. \A n \in DOMAIN importReplacements : importReplacements[n] \notin DOMAIN importReplacements
  <2>1. \A x, y : Old(x) # New(y)
    BY NamesDiffer
  <2> QED  BY <2>1 DEF importReplacements
<1> QED  BY <1>3, <1>4 DEF getReplacementImport

-----------------------------------------------------------------------------
(* How far a run has come: before the manifests are written, it has what is    *)
(* on disk; while they are, those that are not left are complete and the       *)
(* others are as they were scanned; then all are. The sources that are not     *)
(* left have no old reference unless an error was counted, and the lock files  *)
(* that are not left are up to date.                                           *)
RunFields ==
  {"pc", "count", "args", "packages", "sources", "locks", "left", "updated", "sourceErrors",
   "lockErrors", "exit"}

Counts == run.sourceErrors \in Nat /\ run.lockErrors \in Nat

Scanned ==
  /\ DOMAIN run.packages \subseteq DOMAIN disk.packages
  /\ run.sources \subseteq DOMAIN disk.sources /\ run.locks \subseteq DOMAIN disk.locks
  /\ run.pc = "packages" => run.left \subseteq DOMAIN run.packages
  /\ run.pc = "sources" => run.left \subseteq run.sources
  /\ run.pc = "locks" => run.left \subseteq run.locks

Manifests ==
  \A i \in DOMAIN run.packages :
    /\ run.pc \in {"applicable", "warn"} => disk.packages[i] = run.packages[i]
    /\ run.pc = "packages" =>
         IF i \in run.left THEN disk.packages[i] = run.packages[i]
         ELSE Complete(disk.packages[i])
    /\ run.pc \in {"sources", "locks"} => Complete(disk.packages[i])

SourcesAre ==
  run.sourceErrors = 0 =>
    \A i \in run.sources :
      run.pc = "locks" \/ (run.pc = "sources" /\ i \notin run.left) =>
        ~OldReference(disk.sources[i], {"import", "require"})

LocksAre ==
  run.pc = "locks" /\ run.lockErrors = 0 =>
    \A l \in run.locks \ run.left : disk.locks[l].is = "fresh"

RunInv ==
  /\ IsProject(disk)
  /\ run = [f \in RunFields |-> run[f]]
  /\ Counts
  /\ run.pc # "exit" => run.exit = "none"
  /\ Scanned /\ Manifests /\ SourcesAre /\ LocksAre
  /\ MigratedIsComplete

\* Changing a list at one place.
LEMMA ListExcept ==
  ASSUME NEW l, IsList(l), NEW i \in DOMAIN l, NEW x
  PROVE  LET m == [l EXCEPT ![i] = x] IN
         /\ IsList(m) /\ Len(m) = Len(l) /\ DOMAIN m = DOMAIN l /\ m[i] = x
         /\ \A j \in DOMAIN l : j # i => m[j] = l[j]
<1> DEFINE n == Len(l)
           m == [l EXCEPT ![i] = x]
<1>1. n \in Nat /\ l = [j \in 1 .. n |-> l[j]]
  BY DEF IsList
<1> HIDE DEF n
<1>2. DOMAIN l = 1 .. n
  BY <1>1
<1>3. m = [j \in 1 .. n |-> m[j]] /\ m[i] = x /\ \A j \in 1 .. n : j # i => m[j] = l[j]
  BY <1>2
<1> HIDE DEF m
<1>4. Len(m) = n
  BY <1>1, <1>3
<1>5. IsList(m)
  BY <1>1, <1>3, <1>4 DEF IsList
<1> QED  BY <1>2, <1>3, <1>4, <1>5 DEF m, n

\* A run starts.
LEMMA StartedInv ==
  ASSUME IsProject(disk'), NEW c, NEW k, run' = Started(k, c)
  PROVE  RunInv'
<1>1. /\ run'.pc = "scan" /\ run'.sourceErrors = 0 /\ run'.lockErrors = 0
      /\ run'.exit = "none" /\ DOMAIN run'.packages = {}
      /\ run'.sources = {} /\ run'.locks = {} /\ run'.left = {}
  BY DEF Started
<1>2. run' = [f \in RunFields |-> run'[f]]
  BY DEF Started, RunFields
<1> QED  BY <1>1, <1>2 DEF RunInv, Counts, Scanned, Manifests, SourcesAre, LocksAre,
                           MigratedIsComplete

\* It exits otherwise than well.
LEMMA ExitsInv ==
  ASSUME RunInv, NEW how, how # "migrated", Exits(how)
  PROVE  RunInv'
<1>1. run = [f \in RunFields |-> run[f]]
  BY DEF RunInv
<1>2. /\ run'.pc = "exit" /\ run'.exit = how /\ disk' = disk
      /\ run'.sourceErrors = run.sourceErrors /\ run'.lockErrors = run.lockErrors
      /\ run'.packages = run.packages /\ run'.sources = run.sources /\ run'.locks = run.locks
  BY <1>1 DEF Exits, RunFields
<1>3. run' = [f \in RunFields |-> run'[f]]
  BY <1>1 DEF Exits, RunFields
<1> QED  BY <1>2, <1>3 DEF RunInv, Counts, Scanned, Manifests, SourcesAre, LocksAre,
                           MigratedIsComplete

\* It goes on.
LEMMA GoesIs ==
  ASSUME RunInv, NEW pc, NEW files, Goes(pc, files)
  PROVE  /\ run' = [f \in RunFields |-> run'[f]] /\ Counts' /\ disk' = disk
         /\ run'.pc = pc /\ run'.left = files
         /\ run'.packages = run.packages /\ run'.sources = run.sources /\ run'.locks = run.locks
         /\ run'.sourceErrors = run.sourceErrors /\ run'.lockErrors = run.lockErrors
         /\ run'.exit = run.exit
<1>1. run = [f \in RunFields |-> run[f]] /\ Counts
  BY DEF RunInv
<1>2. run' = [run EXCEPT !.pc = pc, !.left = files] /\ disk' = disk
  BY DEF Goes
<1>3. /\ run' = [f \in RunFields |-> run'[f]] /\ run'.pc = pc /\ run'.left = files
      /\ run'.packages = run.packages /\ run'.sources = run.sources /\ run'.locks = run.locks
      /\ run'.sourceErrors = run.sourceErrors /\ run'.lockErrors = run.lockErrors
      /\ run'.exit = run.exit
  BY <1>1, <1>2 DEF RunFields
<1>4. Counts'
  BY <1>1, <1>3 DEF Counts
<1> QED  BY <1>2, <1>3, <1>4

\* Every project is one, and a run starts in it.
LEMMA InitInv == Init => RunInv
<1> SUFFICES ASSUME Init
             PROVE  RunInv
  OBVIOUS
<1>1. IsProject(disk)
  BY ProjectsAssumption DEF Init
<1>2. PICK c \in CommandLines : run = Started(1, c)
  BY DEF Init
<1>3. /\ run.pc = "scan" /\ run.sourceErrors = 0 /\ run.lockErrors = 0
      /\ run.exit = "none" /\ DOMAIN run.packages = {}
      /\ run.sources = {} /\ run.locks = {} /\ run.left = {}
  BY <1>2 DEF Started
<1>4. run = [f \in RunFields |-> run[f]]
  BY <1>2 DEF Started, RunFields
<1> QED  BY <1>1, <1>3, <1>4 DEF RunInv, Counts, Scanned, Manifests, SourcesAre, LocksAre,
                                 MigratedIsComplete

\* Scanning.
LEMMA ScanInv == RunInv /\ Scan => RunInv'
<1> SUFFICES ASSUME RunInv, Scan
             PROVE  RunInv'
  OBVIOUS
<1> DEFINE manifests == Seen(disk.packages)
           sources   == Seen(disk.sources)
           locks     == Seen(disk.locks)
           scanned   == [i \in manifests |-> disk.packages[i]]
<1>1. \/ \E how \in {"usage", "info", "caught", "nothing"} : Exits(how)
      \/ /\ run' = [run EXCEPT !.pc = "applicable", !.packages = scanned,
                               !.sources = sources, !.locks = locks]
         /\ UNCHANGED disk
  BY Zenon DEF Scan
<1>2. CASE \E how \in {"usage", "info", "caught", "nothing"} : Exits(how)
  BY <1>2, ExitsInv
<1>3. CASE ~ \E how \in {"usage", "info", "caught", "nothing"} : Exits(how)
  <2>1. /\ manifests \subseteq DOMAIN disk.packages /\ sources \subseteq DOMAIN disk.sources
        /\ locks \subseteq DOMAIN disk.locks
    BY DEF Seen
  <2>2. DOMAIN scanned = manifests /\ \A i \in manifests : scanned[i] = disk.packages[i]
    OBVIOUS
  <2> HIDE DEF manifests, sources, locks, scanned
  <2>3. run = [f \in RunFields |-> run[f]] /\ Counts /\ run.pc = "scan" /\ IsProject(disk)
        /\ run.exit = "none"
    BY DEF RunInv, Scan
  <2>4. /\ run' = [f \in RunFields |-> run'[f]] /\ disk' = disk
        /\ run'.pc = "applicable" /\ run'.packages = scanned /\ run'.sources = sources
        /\ run'.locks = locks /\ run'.sourceErrors = run.sourceErrors
        /\ run'.lockErrors = run.lockErrors /\ run'.exit = "none"
    BY <1>1, <1>3, <2>3 DEF RunFields
  <2> QED  BY <2>1, <2>2, <2>3, <2>4 DEF RunInv, Counts, Scanned, Manifests, SourcesAre,
                                         LocksAre, MigratedIsComplete
<1> QED  BY <1>2, <1>3

\* Deciding whether there is something to migrate, and whether it can be.
LEMMA ChecksInv == RunInv /\ (Applicable \/ Warn) => RunInv'
<1> SUFFICES ASSUME RunInv, Applicable \/ Warn
             PROVE  RunInv'
  OBVIOUS
<1>1. /\ run.pc \in {"applicable", "warn"}
      /\ \/ \E how \in {"current", "caught", "warned"} : Exits(how)
         \/ Goes("warn", {})
         \/ Goes("packages", DOMAIN run.packages)
  <2>1. CASE Applicable
    BY <2>1, Zenon DEF Applicable
  <2>2. CASE Warn
    BY <2>2, Zenon DEF Warn
  <2> QED  BY <2>1, <2>2
<1>2. CASE \E how \in {"current", "caught", "warned"} : Exits(how)
  BY <1>2, ExitsInv
<1>3. CASE Goes("warn", {}) \/ Goes("packages", DOMAIN run.packages)
  <2>1. PICK pc \in {"warn", "packages"}, files \in {{}, DOMAIN run.packages} :
               Goes(pc, files) /\ (pc = "packages" => files = DOMAIN run.packages)
    BY <1>3
  <2>2. /\ run' = [f \in RunFields |-> run'[f]] /\ Counts' /\ disk' = disk
        /\ run'.pc = pc /\ run'.left = files
        /\ run'.packages = run.packages /\ run'.sources = run.sources /\ run'.locks = run.locks
        /\ run'.sourceErrors = run.sourceErrors /\ run'.lockErrors = run.lockErrors
        /\ run'.exit = run.exit
    BY <2>1, GoesIs
  <2>3. IsProject(disk) /\ Scanned /\ Manifests /\ run.exit = "none"
    BY <1>1 DEF RunInv
  <2> QED  BY <1>1, <2>1, <2>2, <2>3 DEF RunInv, Scanned, Manifests, SourcesAre, LocksAre,
                                         MigratedIsComplete
<1> QED  BY <1>1, <1>2, <1>3

\* One manifest.
LEMMA MigratePackageInv == RunInv /\ MigratePackage => RunInv'
<1> SUFFICES ASSUME RunInv, MigratePackage
             PROVE  RunInv'
  OBVIOUS
<1> DEFINE New1(i) == replaceDependencies(run.packages[i], dependencyReplacements)
<1>1. PICK i \in run.left :
        \/ Exits("caught")
        \/ /\ ~Throws(run.packages[i], dependencyReplacements) /\ New1(i) = << >>
           /\ run' = [run EXCEPT !.left = @ \ {i}] /\ UNCHANGED disk
        \/ /\ ~Throws(run.packages[i], dependencyReplacements) /\ New1(i) # << >>
           /\ disk' = [disk EXCEPT !.packages[i] = New1(i)[1],
                         !.locks = [l \in DOMAIN @ |-> [@[l] EXCEPT !.is = "stale"]]]
           /\ run' = [run EXCEPT !.left = @ \ {i}, !.updated = @ \cup {i}]
  BY Zenon DEF MigratePackage
<1> DEFINE pkg == run.packages[i]
           new == New1(i)
<1>2. CASE Exits("caught")
  BY <1>2, ExitsInv
<1>3. CASE ~Exits("caught")
  <2>1. /\ run = [f \in RunFields |-> run[f]] /\ Counts /\ IsProject(disk)
        /\ run.pc = "packages" /\ run.exit = "none" /\ Scanned /\ Manifests
    BY DEF RunInv, MigratePackage
  <2>2. /\ IsList(disk.packages) /\ IsList(disk.locks)
        /\ disk = [f \in {"packages", "sources", "locks"} |-> disk[f]]
        /\ \A j \in DOMAIN disk.packages : IsManifest(disk.packages[j])
    BY <2>1 DEF IsProject
  <2>3. /\ i \in DOMAIN run.packages /\ i \in DOMAIN disk.packages
        /\ run.packages[i] = disk.packages[i]
    BY <2>1 DEF Scanned, Manifests
  <2>4. IsManifest(pkg)
    BY <2>2, <2>3
  <2>5. /\ ~Throws(pkg, dependencyReplacements)
        /\ new = << >> => Complete(pkg)
        /\ new # << >> => IsManifest(new[1]) /\ Complete(new[1])
    <3>1. ~Throws(pkg, dependencyReplacements)
      BY <1>1, <1>3
    <3> QED  BY <2>4, <3>1, ReplacedIsComplete
  <2>6. /\ run' = [f \in RunFields |-> run'[f]]
        /\ run'.left = run.left \ {i} /\ run'.pc = "packages" /\ run'.exit = "none"
        /\ run'.packages = run.packages /\ run'.sources = run.sources /\ run'.locks = run.locks
        /\ run'.sourceErrors = run.sourceErrors /\ run'.lockErrors = run.lockErrors
    BY <1>1, <1>3, <2>1 DEF RunFields
  <2>7. \A j \in DOMAIN run.packages :
          IF j \in run.left THEN disk.packages[j] = run.packages[j]
          ELSE Complete(disk.packages[j])
    BY <2>1 DEF Manifests
  <2>8. CASE new = << >>
    <3>1. disk' = disk
      BY <1>1, <1>3, <2>8
    <3>2. Complete(disk.packages[i])
      BY <2>3, <2>5, <2>8
    <3>3. Manifests'
      BY <2>6, <2>7, <3>1, <3>2 DEF Manifests
    <3>4. Counts' /\ Scanned'
      BY <2>1, <2>6, <3>1 DEF Counts, Scanned
    <3> QED  BY <2>1, <2>6, <3>1, <3>3, <3>4 DEF RunInv, SourcesAre, LocksAre,
                                                 MigratedIsComplete
  <2>9. CASE new # << >>
    <3> DEFINE one == new[1]
               written == [disk.packages EXCEPT ![i] = one]
               stale == [l \in DOMAIN disk.locks |-> [disk.locks[l] EXCEPT !.is = "stale"]]
    <3>1. disk' = [disk EXCEPT !.packages[i] = one,
                     !.locks = [l \in DOMAIN @ |-> [@[l] EXCEPT !.is = "stale"]]]
      BY <1>1, <1>3, <2>9
    <3>2. disk' = [disk EXCEPT !.packages = written, !.locks = stale]
      BY <2>2, <3>1
    <3>3. IsManifest(one) /\ Complete(one)
      BY <2>5, <2>9
    <3> HIDE DEF one
    <3>4. /\ IsList(written) /\ DOMAIN written = DOMAIN disk.packages /\ written[i] = one
          /\ \A j \in DOMAIN disk.packages : j # i => written[j] = disk.packages[j]
      BY <2>2, <2>3, ListExcept
    <3>5. /\ IsList(stale) /\ DOMAIN stale = DOMAIN disk.locks
          /\ \A l \in DOMAIN stale : stale[l] = [f \in {"is", "dir"} |-> stale[l][f]]
      <4> DEFINE n == Len(disk.locks)
      <4>1. n \in Nat /\ DOMAIN disk.locks = 1 .. n
        BY <2>2 DEF IsList
      <4>2. \A l \in DOMAIN disk.locks :
              disk.locks[l] = [f \in {"is", "dir"} |-> disk.locks[l][f]]
        BY <2>1 DEF IsProject
      <4> HIDE DEF n
      <4>3. stale = [l \in 1 .. n |-> [disk.locks[l] EXCEPT !.is = "stale"]]
        BY <4>1
      <4>4. \A l \in DOMAIN stale : stale[l] = [f \in {"is", "dir"} |-> stale[l][f]]
        BY <4>1, <4>2, <4>3
      <4>5. Len(stale) = n /\ stale = [l \in 1 .. n |-> stale[l]] /\ DOMAIN stale = 1 .. n
        BY <4>1, <4>3
      <4> HIDE DEF stale
      <4> QED  BY <4>1, <4>4, <4>5 DEF IsList
    <3> HIDE DEF written, stale
    <3>6. /\ disk'.packages = written /\ disk'.sources = disk.sources /\ disk'.locks = stale
          /\ disk' = [f \in {"packages", "sources", "locks"} |-> disk'[f]]
      BY <2>2, <3>2
    <3>7. \A j \in DOMAIN written : IsManifest(written[j])
      BY <2>2, <3>3, <3>4
    <3>8. IsProject(disk')
      BY <2>1, <3>4, <3>5, <3>6, <3>7 DEF IsProject
    <3>9. Manifests'
      <4>1. \A j \in DOMAIN run.packages :
              IF j \in run.left \ {i} THEN written[j] = run.packages[j]
              ELSE Complete(written[j])
        <5>1. \A j \in DOMAIN run.packages : j \in DOMAIN disk.packages
          BY <2>1 DEF Scanned
        <5> QED  BY <2>7, <3>3, <3>4, <5>1
      <4> QED  BY <2>6, <3>6, <4>1 DEF Manifests
    <3>10. Counts' /\ Scanned'
      BY <2>1, <2>6, <3>4, <3>5, <3>6 DEF Counts, Scanned
    <3> QED  BY <2>6, <3>8, <3>9, <3>10 DEF RunInv, SourcesAre, LocksAre, MigratedIsComplete
  <2> QED  BY <2>8, <2>9
<1> QED  BY <1>2, <1>3

\* All manifests are.
LEMMA PackagesDoneInv == RunInv /\ PackagesDone => RunInv'
<1> SUFFICES ASSUME RunInv, PackagesDone
             PROVE  RunInv'
  OBVIOUS
<1>1. /\ run.pc = "packages" /\ run.left = {} /\ run.exit = "none"
      /\ Scanned /\ Manifests /\ IsProject(disk) /\ Goes("sources", run.sources)
  BY DEF RunInv, PackagesDone
<1>2. \A i \in DOMAIN run.packages : Complete(disk.packages[i])
  BY <1>1 DEF Manifests
<1>3. /\ run' = [f \in RunFields |-> run'[f]] /\ Counts' /\ disk' = disk
      /\ run'.pc = "sources" /\ run'.left = run.sources
      /\ run'.packages = run.packages /\ run'.sources = run.sources /\ run'.locks = run.locks
      /\ run'.exit = run.exit
  BY <1>1, GoesIs
<1> QED  BY <1>1, <1>2, <1>3 DEF RunInv, Scanned, Manifests, SourcesAre, LocksAre,
                                 MigratedIsComplete

\* One source.
LEMMA MigrateSourceInv == RunInv /\ MigrateSource => RunInv'
<1> SUFFICES ASSUME RunInv, MigrateSource
             PROVE  RunInv'
  OBVIOUS
<1>1. PICK i \in run.left :
        \/ /\ disk' = [disk EXCEPT !.sources[i].refs = Transform(@)]
           /\ run' = [run EXCEPT !.left = @ \ {i}]
        \/ /\ run' = [run EXCEPT !.left = @ \ {i}, !.sourceErrors = @ + 1]
           /\ UNCHANGED disk
  BY DEF MigrateSource
<1>2. /\ run = [f \in RunFields |-> run[f]] /\ Counts /\ IsProject(disk)
      /\ run.pc = "sources" /\ run.exit = "none"
      /\ Scanned /\ Manifests /\ SourcesAre
  BY DEF RunInv, MigrateSource
<1>3. CASE /\ disk' = [disk EXCEPT !.sources[i].refs = Transform(@)]
           /\ run' = [run EXCEPT !.left = @ \ {i}]
  <2> DEFINE f == disk.sources[i]
             g == [f EXCEPT !.refs = Transform(f.refs)]
             written == [disk.sources EXCEPT ![i] = g]
  <2>1. /\ IsList(disk.sources) /\ i \in DOMAIN disk.sources
        /\ disk = [x \in {"packages", "sources", "locks"} |-> disk[x]]
        /\ \A j \in DOMAIN disk.sources :
             disk.sources[j] = [x \in {"refs", "broken", "dir"} |-> disk.sources[j][x]]
    BY <1>2 DEF IsProject, Scanned
  <2>2. disk' = [disk EXCEPT !.sources = written]
    BY <1>3, <2>1
  <2>3. g.refs = Transform(f.refs) /\ g = [x \in {"refs", "broken", "dir"} |-> g[x]]
    BY <2>1
  <2>4. ~OldReference(g, {"import", "require"})
    BY <2>3, TransformIsComplete
  <2> HIDE DEF g
  <2>5. /\ IsList(written) /\ DOMAIN written = DOMAIN disk.sources /\ written[i] = g
        /\ \A j \in DOMAIN disk.sources : j # i => written[j] = disk.sources[j]
    BY <2>1, ListExcept
  <2> HIDE DEF written
  <2>6. /\ disk'.packages = disk.packages /\ disk'.sources = written
        /\ disk'.locks = disk.locks
        /\ disk' = [x \in {"packages", "sources", "locks"} |-> disk'[x]]
    BY <2>1, <2>2
  <2>7. \A j \in DOMAIN written : written[j] = [x \in {"refs", "broken", "dir"} |-> written[j][x]]
    BY <2>1, <2>3, <2>5
  <2>8. IsProject(disk')
    BY <1>2, <2>5, <2>6, <2>7 DEF IsProject
  <2>9. /\ run' = [x \in RunFields |-> run'[x]]
        /\ run'.pc = "sources" /\ run'.exit = "none" /\ run'.left = run.left \ {i}
        /\ run'.packages = run.packages /\ run'.sources = run.sources /\ run'.locks = run.locks
        /\ run'.sourceErrors = run.sourceErrors /\ run'.lockErrors = run.lockErrors
    BY <1>2, <1>3 DEF RunFields
  <2>10. Counts' /\ Scanned' /\ Manifests'
    BY <1>2, <2>5, <2>6, <2>9 DEF Counts, Scanned, Manifests
  <2>11. SourcesAre'
    <3>1. run.sources \subseteq DOMAIN disk.sources
      BY <1>2 DEF Scanned
    <3>2. ASSUME run.sourceErrors = 0, NEW j \in run.sources, j \notin run.left \ {i}
          PROVE  ~OldReference(written[j], {"import", "require"})
      <4>1. CASE j = i
        BY <2>4, <2>5, <4>1
      <4>2. CASE j # i
        <5>1. j \notin run.left /\ written[j] = disk.sources[j]
          BY <2>5, <3>1, <3>2, <4>2
        <5> QED  BY <1>2, <3>2, <5>1 DEF SourcesAre
      <4> QED  BY <4>1, <4>2
    <3> QED  BY <2>6, <2>9, <3>2 DEF SourcesAre
  <2> QED  BY <2>8, <2>9, <2>10, <2>11 DEF RunInv, LocksAre, MigratedIsComplete
<1>4. CASE /\ run' = [run EXCEPT !.left = @ \ {i}, !.sourceErrors = @ + 1]
           /\ UNCHANGED disk
  <2>1. /\ run' = [x \in RunFields |-> run'[x]] /\ disk' = disk
        /\ run'.pc = "sources" /\ run'.exit = "none" /\ run'.left = run.left \ {i}
        /\ run'.packages = run.packages /\ run'.sources = run.sources /\ run'.locks = run.locks
        /\ run'.sourceErrors = run.sourceErrors + 1 /\ run'.lockErrors = run.lockErrors
    BY <1>2, <1>4 DEF RunFields
  <2>2. run'.sourceErrors # 0 /\ Counts'
    BY <1>2, <2>1 DEF Counts
  <2>3. Scanned' /\ Manifests' /\ SourcesAre'
    BY <1>2, <2>1, <2>2 DEF Scanned, Manifests, SourcesAre
  <2> QED  BY <1>2, <2>1, <2>2, <2>3 DEF RunInv, LocksAre, MigratedIsComplete
<1> QED  BY <1>1, <1>3, <1>4

\* All sources are.
LEMMA SourcesDoneInv == RunInv /\ SourcesDone => RunInv'
<1> SUFFICES ASSUME RunInv, SourcesDone
             PROVE  RunInv'
  OBVIOUS
<1>1. /\ run.pc = "sources" /\ run.left = {} /\ run.exit = "none"
      /\ Scanned /\ Manifests /\ SourcesAre /\ IsProject(disk) /\ Goes("locks", run.locks)
  BY DEF RunInv, SourcesDone
<1>2. /\ run' = [f \in RunFields |-> run'[f]] /\ Counts' /\ disk' = disk
      /\ run'.pc = "locks" /\ run'.left = run.locks
      /\ run'.packages = run.packages /\ run'.sources = run.sources /\ run'.locks = run.locks
      /\ run'.sourceErrors = run.sourceErrors /\ run'.exit = run.exit
  BY <1>1, GoesIs
<1>3. Manifests' /\ Scanned' /\ SourcesAre' /\ LocksAre'
  BY <1>1, <1>2 DEF Manifests, Scanned, SourcesAre, LocksAre
<1> QED  BY <1>1, <1>2, <1>3 DEF RunInv, MigratedIsComplete

\* One install.
LEMMA InstallInv == RunInv /\ Install => RunInv'
<1> SUFFICES ASSUME RunInv, Install
             PROVE  RunInv'
  OBVIOUS
<1>1. /\ run = [f \in RunFields |-> run[f]] /\ Counts /\ IsProject(disk)
      /\ run.pc = "locks" /\ run.exit = "none"
      /\ Scanned /\ Manifests /\ SourcesAre /\ LocksAre
  BY DEF RunInv, Install
<1>2. PICK l \in run.left :
        \/ /\ disk' = [disk EXCEPT !.locks[l].is = "fresh"]
           /\ run' = [run EXCEPT !.left = @ \ {l}]
        \/ run' = [run EXCEPT !.left = @ \ {l}, !.lockErrors = @ + 1] /\ UNCHANGED disk
        \/ Exits("caught")
  BY DEF Install
<1>3. CASE /\ disk' = [disk EXCEPT !.locks[l].is = "fresh"]
           /\ run' = [run EXCEPT !.left = @ \ {l}]
  <2> DEFINE f == disk.locks[l]
             g == [f EXCEPT !.is = "fresh"]
             written == [disk.locks EXCEPT ![l] = g]
  <2>1. /\ IsList(disk.locks) /\ l \in DOMAIN disk.locks
        /\ disk = [x \in {"packages", "sources", "locks"} |-> disk[x]]
        /\ \A j \in DOMAIN disk.locks : disk.locks[j] = [x \in {"is", "dir"} |-> disk.locks[j][x]]
    BY <1>1 DEF IsProject, Scanned
  <2>2. disk' = [disk EXCEPT !.locks = written]
    BY <1>3, <2>1
  <2>3. g.is = "fresh" /\ g = [x \in {"is", "dir"} |-> g[x]]
    BY <2>1
  <2> HIDE DEF g
  <2>4. /\ IsList(written) /\ DOMAIN written = DOMAIN disk.locks /\ written[l] = g
        /\ \A j \in DOMAIN disk.locks : j # l => written[j] = disk.locks[j]
    BY <2>1, ListExcept
  <2> HIDE DEF written
  <2>5. /\ disk'.packages = disk.packages /\ disk'.sources = disk.sources
        /\ disk'.locks = written
        /\ disk' = [x \in {"packages", "sources", "locks"} |-> disk'[x]]
    BY <2>1, <2>2
  <2>6. \A j \in DOMAIN written : written[j] = [x \in {"is", "dir"} |-> written[j][x]]
    BY <2>1, <2>3, <2>4
  <2>7. IsProject(disk')
    BY <1>1, <2>4, <2>5, <2>6 DEF IsProject
  <2>8. /\ run' = [x \in RunFields |-> run'[x]]
        /\ run'.pc = "locks" /\ run'.exit = "none" /\ run'.left = run.left \ {l}
        /\ run'.packages = run.packages /\ run'.sources = run.sources /\ run'.locks = run.locks
        /\ run'.sourceErrors = run.sourceErrors /\ run'.lockErrors = run.lockErrors
    BY <1>1, <1>3 DEF RunFields
  <2>9. Counts' /\ Scanned' /\ Manifests' /\ SourcesAre'
    BY <1>1, <2>4, <2>5, <2>8 DEF Counts, Scanned, Manifests, SourcesAre
  <2>10. LocksAre'
    <3>1. \A j \in run.locks : j \in DOMAIN disk.locks
      BY <1>1 DEF Scanned
    <3> QED  BY <1>1, <2>3, <2>4, <2>5, <2>8, <3>1 DEF LocksAre
  <2> QED  BY <2>7, <2>8, <2>9, <2>10 DEF RunInv, MigratedIsComplete
<1>4. CASE run' = [run EXCEPT !.left = @ \ {l}, !.lockErrors = @ + 1] /\ UNCHANGED disk
  <2>1. /\ run' = [x \in RunFields |-> run'[x]] /\ disk' = disk
        /\ run'.pc = "locks" /\ run'.exit = "none" /\ run'.left = run.left \ {l}
        /\ run'.packages = run.packages /\ run'.sources = run.sources /\ run'.locks = run.locks
        /\ run'.sourceErrors = run.sourceErrors /\ run'.lockErrors = run.lockErrors + 1
    BY <1>1, <1>4 DEF RunFields
  <2>2. Counts' /\ run'.lockErrors # 0
    BY <1>1, <2>1 DEF Counts
  <2>3. Scanned' /\ Manifests' /\ SourcesAre' /\ LocksAre'
    BY <1>1, <2>1, <2>2 DEF Scanned, Manifests, SourcesAre, LocksAre
  <2> QED  BY <1>1, <2>1, <2>2, <2>3 DEF RunInv, MigratedIsComplete
<1>5. CASE Exits("caught")
  BY <1>5, ExitsInv
<1> QED  BY <1>2, <1>3, <1>4, <1>5

\* The run ends.
LEMMA LocksDoneInv == RunInv /\ LocksDone => RunInv'
<1> SUFFICES ASSUME RunInv, LocksDone
             PROVE  RunInv'
  OBVIOUS
<1>1. CASE run.sourceErrors + run.lockErrors > 0
  BY <1>1, ExitsInv DEF LocksDone
<1>2. CASE ~(run.sourceErrors + run.lockErrors > 0)
  <2>1. /\ run = [f \in RunFields |-> run[f]] /\ Counts /\ IsProject(disk)
        /\ run.pc = "locks" /\ Scanned /\ Manifests /\ SourcesAre /\ LocksAre
        /\ run.updated # {} /\ ~run.args.noInstall => run.left = {}
        /\ run' = [run EXCEPT !.pc = "exit", !.exit = "migrated"] /\ disk' = disk
    BY <1>2, Zenon DEF RunInv, LocksDone, Exits
  <2>2. run.sourceErrors = 0 /\ run.lockErrors = 0
    BY <1>2, <2>1 DEF Counts
  <2>3. \A i \in DOMAIN run.packages : Complete(disk.packages[i])
    BY <2>1 DEF Manifests
  <2>4. \A i \in run.sources : ~OldReference(disk.sources[i], {"import", "require"})
    BY <2>1, <2>2 DEF SourcesAre
  <2>5. run.updated # {} /\ ~run.args.noInstall =>
          \A l \in run.locks : disk.locks[l].is = "fresh"
    <3> SUFFICES ASSUME run.updated # {}, ~run.args.noInstall
                 PROVE  \A l \in run.locks : disk.locks[l].is = "fresh"
      BY Zenon
    <3>1. run.left = {}
      BY <2>1, Zenon
    <3> QED  BY <2>1, <2>2, <3>1 DEF LocksAre
  <2>6. /\ run' = [x \in RunFields |-> run'[x]]
        /\ run'.pc = "exit" /\ run'.exit = "migrated"
        /\ run'.packages = run.packages /\ run'.sources = run.sources /\ run'.locks = run.locks
        /\ run'.sourceErrors = run.sourceErrors /\ run'.lockErrors = run.lockErrors
        /\ run'.updated = run.updated /\ run'.args = run.args
    BY <2>1 DEF RunFields
  <2>7. MigratedIsComplete'
    <3>1. ~run'.args.noInstall /\ run'.updated # {} =>
            \A l \in run'.locks : disk'.locks[l].is = "fresh"
      BY <2>1, <2>5, <2>6, Zenon
    <3>2. \A i \in run'.sources : ~OldReference(disk'.sources[i], {"import", "require"})
      BY <2>1, <2>4, <2>6, Zenon
    <3>3. \A i \in DOMAIN run'.packages : Complete(disk'.packages[i])
      BY <2>1, <2>3, <2>6, Zenon
    <3> QED  BY <3>1, <3>2, <3>3, Zenon DEF MigratedIsComplete, Complete
  <2> QED  BY <2>1, <2>6, <2>7 DEF RunInv, Counts, Scanned, Manifests, SourcesAre, LocksAre
<1> QED  BY <1>1, <1>2

\* The user stops the run, or starts another.
LEMMA KilledInv == RunInv /\ (Killed \/ Rerun) => RunInv'
<1> SUFFICES ASSUME RunInv, Killed \/ Rerun
             PROVE  RunInv'
  OBVIOUS
<1>1. CASE Killed
  BY <1>1, ExitsInv DEF Killed
<1>2. CASE Rerun
  BY <1>2, StartedInv DEF RunInv, Rerun
<1> QED  BY <1>1, <1>2

(* A run that exits as having migrated the project has migrated what it        *)
(* scanned: whatever the project and the options, whatever earlier runs left   *)
(* half done, and whatever failed in them, the manifests have no old           *)
(* dependency but optional ones, the sources import none, and the lock files   *)
(* are installed (cli.ts, migratePackages(), migrateSourceFiles() and          *)
(* migrateLockFiles()).                                                        *)
THEOREM MigrationIsComplete == Spec => []MigratedIsComplete
<1>1. RunInv /\ [Next]_vars => RunInv'
  <2> SUFFICES ASSUME RunInv, [Next]_vars
               PROVE  RunInv'
    OBVIOUS
  <2>1. CASE UNCHANGED vars
    BY <2>1 DEF vars, RunInv, Counts, Scanned, Manifests, SourcesAre, LocksAre,
                MigratedIsComplete
  <2>2. CASE Next
    BY <2>2, ScanInv, ChecksInv, MigratePackageInv, PackagesDoneInv, MigrateSourceInv,
       SourcesDoneInv, InstallInv, LocksDoneInv, KilledInv DEF Next
  <2> QED  BY <2>1, <2>2
<1>2. RunInv => MigratedIsComplete
  BY DEF RunInv
<1> QED  BY InitInv, <1>1, <1>2, PTL DEF Spec
==============================================================================
