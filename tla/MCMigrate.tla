------------------------------ MODULE MCMigrate ------------------------------
(* Projects and command lines for the model checker's runs of Migrate.         *)
EXTENDS Migrate

None == << >>

Manifest(deps, dev, bundled, meta) ==
  [shape |-> "valid", bundled |-> bundled, meta |-> meta, optional |-> None, dir |-> "root",
   deps |-> [s \in Sections |-> CASE s = "dependencies" -> deps
                                  [] s = "devDependencies" -> dev [] OTHER -> None]]

In(dir, file) == [file EXCEPT !.dir = dir]

TheManifests ==
  { Manifest(Old("connect") :> {Moved}, None, {Old("connect")}, {}),
    In("src", Manifest(Old("connect-web") :> {Moved, Target},
                       Old("connect-core") :> {Dropped}, {}, {Old("connect-web")})),
    Manifest(Old("connect-web") :> {Dropped}, None, {}, {}),
    Manifest(None, Old("protoc-gen-connect-web") :> {Dropped}, {}, {}),
    [Manifest(New("connect") :> {Later}, None, {}, {}) EXCEPT
       !.deps["peerDependencies"] = Old("connect-core") :> AnyVersion],
    \* a dependency is optional, and bundled
    [Manifest(Old("connect") :> AnyVersion, None, {Old("connect-web")}, {}) EXCEPT
       !.optional = Old("connect-web") :> {Moved}],
    In("src", Manifest(Old("connect") :> Unparsable, None, {}, {})),
    In("dist", [Manifest(None, None, {}, {}) EXCEPT !.shape = "bundles all"]) }

Source(refs, broken, dir) == [refs |-> refs, broken |-> broken, dir |-> dir]

TheSources ==
  { Source({<<"import", Old("connect")>>, <<"require", Old("connect-web")>>}, FALSE, "src"),
    Source({<<"import", Old("connect-core")>>}, TRUE, "src"),
    Source({<<"require", Old("connect")>>, <<"export", Old("connect")>>}, FALSE, "dist") }

Lock(dir) == [is |-> "fresh", dir |-> dir]

Sequences(S, max) == UNION {[1 .. n -> S] : n \in 0 .. max}

AllProjects ==
  [ packages : Sequences(TheManifests, 2), sources : Sequences(TheSources, 2),
    locks : {<< >>, <<Lock("root")>>, <<Lock("src"), Lock("root")>>} ]

(* A project whose sources import what its manifest has.                       *)
OneProject ==
  { [packages |-> <<Manifest(Old("connect") :> {Moved}, None, {}, {})>>,
     sources  |-> <<Source({<<"import", Old("connect")>>}, FALSE, "src")>>,
     locks    |-> <<Lock("root")>>] }

AllCommandLines ==
  { << >>, <<"--force">>, <<"--force", "--no-install">>,
    <<"--ignore-pattern", "src", "--ignore-pattern", "other">>,
    <<"--ignore-pattern">>, <<"-h", "--force">>, <<"--unknown">> }

Plain == { << >> }
=============================================================================
