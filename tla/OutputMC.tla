------------------------------ MODULE OutputMC -------------------------------
(***************************************************************************)
(* Output for small programs: the names of three declarations, and all     *)
(* ways for three declarations of two packages to mention each other.      *)
(***************************************************************************)
EXTENDS Output

Main == <<"main">>
N(n) == [to |-> n, by |-> "name"]
T(n) == [to |-> n, by |-> "import type"]

Decl(pkg, name, note, as, refs) ==
  [pkg |-> pkg, name |-> name, note |-> note, as |-> as, refs |-> refs]

(* Three declarations that mention nothing: a package with an underscore   *)
(* and a name with one, a main outside of the first package, an @foreign   *)
(* name that is another's mangled one.                                     *)
NamedDecls ==
  {Decl(p, n, "none", <<>>, <<>>) : p \in {Main, <<"a">>, <<"a", "b">>}, n \in {<<"f">>, <<"b", "f">>}}
    \cup {Decl(p, Main, "none", <<>>, <<>>) : p \in {Main, <<"a">>}}
    \cup {Decl(<<"a">>, n, "dont_mangle", <<>>, <<>>) : n \in {<<"f">>, Main}}
    \cup {Decl(p, <<"g">>, "foreign", as, <<>>) :
            p \in {Main, <<"a">>}, as \in {<<"f">>, <<"lc", "a", "b", "f">>}}
NamePrograms == {[decls |-> <<a, b, c>>, locals |-> <<>>] : a, b, c \in NamedDecls}

(* main, f and g, with a local in f and one in g.                          *)
Lists(S) == {<<>>} \cup {<<a>> : a \in S} \cup {<<a, b>> : a, b \in S}
RefProgram(pkg, m, f, g, init, noted) ==
  [decls |-> <<Decl(<<"a">>, <<"g">>, "none", <<>>, g), Decl(pkg, <<"f">>, "none", <<>>, init \o f),
               Decl(Main, Main, "none", <<>>, m)>>,
   locals |-> <<[home |-> 1, unused |-> noted, refs |-> <<>>],
                [home |-> 2, unused |-> FALSE, refs |-> init]>>]
RefPrograms ==
  {RefProgram(pkg, m, f, g, init, noted) :
     pkg \in {Main, <<"a">>}, noted \in BOOLEAN, init \in {<<>>, <<N(1)>>},
     m \in Lists({N(1), N(2)}) \cup {<<T(1), N(1)>>, <<N(1), T(1)>>},
     f \in Lists({N(1), N(2), N(5)}), g \in Lists({N(2), N(4)})}

MCPrograms == NamePrograms \cup RefPrograms

(* Two types of a package that main mentions as a.g and a.f, or not.       *)
TypePrograms ==
  {[decls |-> <<Decl(<<"a">>, <<"g">>, "none", <<>>, g), Decl(<<"a">>, <<"f">>, "none", <<>>, f),
                Decl(Main, Main, "none", <<>>, m)>>,
    locals |-> <<>>] :
     m \in Lists({T(1), T(2)}), f \in Lists({N(1)}), g \in Lists({N(2)})}
=============================================================================
