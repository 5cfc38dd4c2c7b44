--------------------------- MODULE DeclResolveMC ---------------------------
(* The programs on which DeclResolve is model-checked.                     *)
EXTENDS DeclResolve

MCNames == {"A", "B", "C", "D", "Missing", "none"}
MCPackages == {"main", "lib"}

Decl(p, n, k, refs) == [pkg |-> p, name |-> n, kind |-> k, refs |-> refs]
To(n, f) == [name |-> n, via |-> "", form |-> f]
Of(p, n, f) == [name |-> n, via |-> p, form |-> f]

\* What one declaration of a package can look like: at most one mention.
Body(kind, names) ==
    CASE kind = "Struct"      -> {<<>>} \cup {<<To(n, f)>> : n \in names, f \in {"ident", "pointer", "size"}}
      [] kind = "Typedef"     -> {<<To(n, f)>> : n \in names, f \in {"ident", "pointer", "array"}}
      [] kind = "WeakTypedef" -> {<<To(n, "ident")>> : n \in names}
      [] kind = "Const"       -> {<<>>} \cup {<<To(n, f)>> : n \in names, f \in {"value", "sizeof"}}
      [] kind = "Var"         -> {<<To(n, f)>> : n \in names, f \in {"ident", "pointer"}}
      [] kind = "Proc"        -> {<<To(n, "ident"), To("A", "pointer")>> : n \in names}
      [] OTHER                -> {<<To(n, "sizeof")>> : n \in names}

Shapes(p, n, kinds, names) == UNION {{Decl(p, n, k, b) : b \in Body(k, names)} : k \in kinds}

Core == {"Struct", "Typedef", "Const"}
OnePackage(decls) == [decls |-> decls, packages |-> <<"main">>, open |-> {}]

\* Three declarations that mention one another in every way.
Triples ==
    {OnePackage(<<a, b, c>>) : a \in Shapes("main", "A", Core, {"A", "B", "C"}),
                               b \in Shapes("main", "B", Core, {"A", "C"}),
                               c \in Shapes("main", "C", Core \cup {"Var"}, {"A", "B"})}

\* A struct with two members, between two others that it may need.
TwoMembers ==
    {OnePackage(<<Decl("main", "A", "Struct", <<To(n, f), To(m, g)>>), b, c>>) :
        n \in {"B", "C", "Missing"}, f \in {"ident", "pointer"}, m \in {"B", "C"}, g \in {"ident", "pointer"},
        b \in Shapes("main", "B", {"Struct"}, {"A", "C"}),
        c \in Shapes("main", "C", {"Struct", "Typedef"}, {"A", "B"})}

\* The other kinds of declarations, missing names and names taken twice.
Others ==
    {OnePackage(<<a, b, c>>) : a \in Shapes("main", "A", {"Struct", "Typedef", "WeakTypedef"}, {"B", "Missing"}),
                               b \in Shapes("main", "B", {"Struct", "WeakTypedef", "Proc", "Var"}, {"A", "C"}),
                               c \in Shapes("main", "C", {"Proc", "Var", "Const"}, {"A", "B"})
                                     \cup Shapes("main", "B", {"Struct", "Var"}, {"A"})}

\* Structs, packed structs and unions inside one another, with arrays of as
\* many elements as another one has bytes.
Sized ==
    {OnePackage(<<Decl("main", "A", k, <<To("B", f), To("C", "size")>>), b, c,
                  Decl("main", "D", "Packed", <<To("A", "pointer")>>)>>) :
        k \in {"Struct", "Packed", "Union"}, f \in {"ident", "pointer", "array"},
        b \in {Decl("main", "B", "Typedef", <<To("D", f2)>>) : f2 \in {"ident", "pointer", "array"}}
              \cup {Decl("main", "B", k2, r) : k2 \in {"Struct", "Packed", "Union"},
                      r \in {<<>>, <<To("A", "pointer")>>, <<To("C", "size")>>, <<To("C", "size"), To("A", "pointer")>>}},
        c \in {Decl("main", "C", "Const", r) : r \in {<<>>, <<To("B", "sizeof")>>, <<To("A", "sizeof")>>}}}

GoodNotes ==
    {OnePackage(<<a, Decl("main", "none", "Note", <<To(n, "sizeof")>>), b>>) : n \in {"A", "B"},
        a \in {Decl("main", "A", "Struct", <<To("B", f)>>) : f \in {"ident", "pointer"}},
        b \in {Decl("main", "B", "Struct", <<>>), Decl("main", "B", "Typedef", <<To("A", "pointer")>>)}}

BadNotes ==
    {OnePackage(<<Decl("main", "A", "Struct", <<>>), Decl("main", "none", "Note", <<To("Missing", "sizeof")>>)>>)}

\* Two packages: main imports lib with a name (mentions through via) or
\* without one.  What main needs the layout of has no member names in lib.
ByMain(n, open) == {To(n, f) : f \in IF open THEN {"ident", "pointer"} ELSE {}}
                   \cup {Of("lib", n, f) : f \in IF open THEN {} ELSE {"ident", "pointer"}}
TwoPackages(libs, mains) ==
    UNION {{[decls |-> l \o m, packages |-> <<"lib", "main">>,
             open |-> IF open THEN {<<"main", "lib">>} ELSE {}] : l \in libs, m \in mains[open]} : open \in BOOLEAN}
MainUses(names) ==
    [open \in BOOLEAN |->
        UNION {{<<Decl("main", "C", k, <<m>>)>> : k \in {"Struct", "Typedef", "Var"}, m \in ByMain(n, open)} : n \in names}]
Lexical ==
    TwoPackages({<<Decl("lib", "A", "Struct", <<>>), b>> : b \in Shapes("lib", "B", {"Typedef"}, {"A"})}
                \cup {<<Decl("lib", "A", "Struct", <<To("Missing", "ident")>>)>>},
                MainUses({"A", "B"}))

\* lib's struct has a member, and main has a declaration of that name.
Leaking ==
    {[decls |-> <<Decl("lib", "A", "Struct", <<To("B", "ident")>>), Decl("lib", "B", "Struct", <<>>),
                  Decl("main", "B", "Struct", <<>>), Decl("main", "C", k, <<Of("lib", "A", "ident")>>)>>,
      packages |-> <<"lib", "main">>, open |-> {}] : k \in {"Struct", "Var", "Typedef"}}

\* main takes the name of a struct of lib that lib has a typedef of.
Colliding ==
    TwoPackages({<<Decl("lib", "A", "Struct", <<>>), Decl("lib", "B", "Typedef", <<To("A", "ident")>>)>>},
                [open \in BOOLEAN |-> {<<Decl("main", "A", "Struct", <<>>)>>}])

\* main takes the name of a constant or struct of lib that it imports without
\* a name, and both have constants made of it.
Taking ==
    {[decls |-> <<Decl("lib", "A", k, <<>>), Decl("lib", "B", "Const", <<To("A", f)>>),
                  Decl("main", "A", k2, <<>>), Decl("main", "C", "Const", <<To(n, f)>>)>>,
      packages |-> <<"lib", "main">>, open |-> {<<"main", "lib">>}] :
        k \in {"Struct", "Const"}, k2 \in {"Struct", "Const"}, n \in {"A", "B"}, f \in {"value", "sizeof"}}

\* Weak typedefs of a struct that may be an error, by way of other typedefs.
Weak ==
    {OnePackage(<<Decl("main", "A", "Struct", <<To(n, f)>>), b, c>>) :
        n \in {"B", "C", "Missing"}, f \in {"ident", "pointer"},
        b \in Shapes("main", "B", {"WeakTypedef"}, {"A", "C"}),
        c \in Shapes("main", "C", {"Typedef", "WeakTypedef", "Var"}, {"A", "B"})}

\* A struct of main goes on after a member from lib that is an error.
GoingOn ==
    {[decls |-> <<Decl("lib", "A", "Struct", <<To("Missing", f)>>), Decl("lib", "B", "Struct", <<>>),
                  Decl("main", "B", k, <<To("C", "pointer")>>),
                  Decl("main", "C", "Struct", <<Of("lib", "A", "ident"), To("B", "ident")>>),
                  Decl("main", "D", "Var", <<To(n, "ident")>>)>>,
      packages |-> <<"lib", "main">>, open |-> {}] :
        f \in {"ident", "pointer"}, k \in {"Struct", "Typedef"}, n \in {"B", "C"}}

BrokenPrograms == BadNotes \cup Colliding
DefectPrograms == Leaking \cup BrokenPrograms
AllPrograms == Triples \cup TwoMembers \cup Sized \cup Others \cup GoodNotes \cup Lexical
               \cup Taking \cup GoingOn \cup Weak \cup BrokenPrograms
=============================================================================
