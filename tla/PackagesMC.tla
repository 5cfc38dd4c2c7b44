----------------------------- MODULE PackagesMC -----------------------------
(***************************************************************************)
(* Finite instances of Packages.                                           *)
(***************************************************************************)
EXTENDS Packages, TLC

CONSTANTS
  Kinds,     \* the kinds of directory content where names meet
  FileKinds, \* the kinds of directory content where files may be broken
  DirSets,   \* the numbers of directories a path may be found in
  DeclSets   \* the sets of declarations a package may have

-----------------------------------------------------------------------------
(* Import lists. *)
Plain(p) == [path |-> p, as |-> NoName, off |-> FALSE]
Off(p) == [Plain(p) EXCEPT !.off = TRUE]
Named(p) == [Plain(p) EXCEPT !.as = "ns"]

UpTo2(is) == {<<>>} \cup {<<x>> : x \in is} \cup (is \X is)
PlainLists == UpTo2({Plain(p) : p \in {"main", "a", "b"}})

OffLists == {<<>>, <<Off("a"), Plain("b")>>, <<Plain("a"), Plain("b")>>, <<Plain("9"), Plain("a")>>,
             <<Plain("a"), Plain("a")>>, <<Off("x/b"), Plain("b")>>}
            \cup {<<Plain(p)>> : p \in Paths} \cup {<<Off(p)>> : p \in Names}

NamedLists == {<<>>} \cup {<<f>> : f \in {Plain("a"), Plain("b"), Named("a"), Named("b")}}
              \cup {<<f, g>> : f \in {Plain("a"), Named("a")}, g \in {Plain("b"), Named("b")}}
              \cup {<<Plain("b"), Named("a")>>}

Sources(kinds, lists) == [kind : kinds, imports : lists, decls : DeclSets]

(* Directories missing, found twice, empty, broken or spelt another way,   *)
(* below a root that parses, with names that cannot be listed.  What a     *)
(* directory holds matters where it is there, and "x/b" where it is named. *)
FileWorlds ==
  {[dirs |-> [main |-> 1, a |-> f, b |-> 1] @@ ("x/b" :> h) @@ ("9" :> 1),
    src |-> [p \in Paths |-> IF p = "main" THEN m ELSE IF p = "a" THEN a ELSE b]] :
     <<f, a>> \in {x \in DirSets \X [kind : FileKinds, imports : {<<>>, <<Plain("b")>>, <<Plain("a")>>}, decls : {{}}] :
                     x[1] = 0 => x[2] = [kind |-> "ok", imports |-> <<>>, decls |-> {}]},
     <<h, m>> \in {x \in {0, 1} \X [kind : {"ok"}, imports : OffLists, decls : {{}}] :
                     x[1] = 0 => \E k \in DOMAIN x[2].imports : x[2].imports[k].path = "x/b"},
     b \in [kind : {"ok", "none"}, imports : {<<>>, <<Plain("a")>>}, decls : {{}}]}

(* Names that meet in the scopes of a chain or a diamond of imports.       *)
ScopeWorlds ==
  {[dirs |-> [p \in Paths |-> 1],
    src |-> [p \in Paths |-> IF p = "main" THEN m ELSE IF p = "a" THEN a ELSE b]] :
     m \in Sources({"ok"}, NamedLists),
     a \in {x \in Sources(Kinds, {<<>>, <<Plain("b")>>, <<Named("b")>>}) :
               x.kind = "ok" \/ x.decls = {}},
     b \in {x \in Sources({"ok"}, {<<>>}) : "ns" \notin x.decls}}

(* Every import graph of three packages, where "a" may import a package    *)
(* twice.                                                                  *)
GraphWorlds ==
  {[dirs |-> [p \in Paths |-> 1],
    src |-> [p \in Paths |-> IF p = "main" THEN m ELSE IF p = "a" THEN a ELSE b]] :
     a \in [kind : {"ok"}, imports : PlainLists, decls : {{}}],
     m, b \in [kind : {"ok"}, imports : PlainLists \ {<<x, x>> : x \in {Plain("main"), Plain("a"), Plain("b")}},
               decls : {{}}]}

DefectWorlds == GraphWorlds \cup FileWorlds
AllWorlds == GraphWorlds \cup ScopeWorlds \cup FileWorlds

(* The spelling "x/b" names package "b"; every other path is its own name. *)
MCNameOf == [p \in Paths |-> IF p = "x/b" THEN "b" ELSE p]

NoDecls == {{}}
SomeDecls == {{}, {"S"}, {"S", "T"}, {"ns"}}
NoFiles == {}
DeclFiles == {[imports |-> <<>>, decls |-> {"S"}]}
ImportFiles == {[imports |-> <<Plain("b")>>, decls |-> {}]}
=============================================================================
