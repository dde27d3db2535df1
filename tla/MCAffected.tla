----------------------------- MODULE MCAffected -----------------------------
(* An instance of Affected: a script, a Go file with its module, and a file in
   a language that only a registered module reads.                          *)
EXTENDS Affected, TLC

MCPaths == {"a.js", "a.rb", "g.go", "go.mod"}
MCExtOf == [p \in MCPaths |-> CASE p = "a.js" -> "js" [] p = "a.rb" -> "rb" [] p = "g.go" -> "go"
                                [] OTHER -> "mod"]

\* x imports ./a, y imports the package, z nothing; the older build does not see x's import.
MCFirstTree == [p \in MCPaths |-> CASE p = "a.rb" -> "y" [] p = "g.go" -> "x" [] OTHER -> "z"]
MCBuiltin == (1 :> [b \in {"x", "y", "z"} |-> IF b = "y" THEN {"pkg"} ELSE {}])
             @@ (2 :> [b \in {"x", "y", "z"} |-> IF b = "y" THEN {"pkg"} ELSE IF b = "x" THEN {"a"} ELSE {}])
\* m2 takes what it is told of the path for an import.
MCOutput == ("m1" :> [p \in MCPaths |-> [b \in {"x", "y", "z"} |-> IF b = "y" THEN {"pkg"} ELSE {}]])
            @@ ("m2" :> [p \in MCPaths |-> [b \in {"x", "y", "z"} |->
                  IF b = "y" \/ p = "a.rb" THEN {"a"} ELSE {"pkg"}]])

MCCandidates == "a" :> <<"a.js", "a.rb">>
MCMembers == "pkg" :> {"g.go"}

\* A removal to which another file succeeds, and a text that is there already under another
\* name.
MCCommits == {<<"a.js", "none">>, <<"a.js", "y">>}
MCRegistrations == {<<"rb", "m1">>, <<"js", "m2">>}
MCFirstManifest == [e \in {"js", "rb", "go", "mod"} |-> IF e = "rb" THEN "m2" ELSE "none"]

Sym == Permutations(Queries)

MCScopes == {MCPaths, {"a.js", "a.rb"}}
=============================================================================
