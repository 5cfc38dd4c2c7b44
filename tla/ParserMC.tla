------------------------------ MODULE ParserMC ------------------------------
(***************************************************************************)
(* Files for the parser, what the grammar and the usual levels of the      *)
(* operators say of them, and the printer's way back.                      *)
(***************************************************************************)
EXTENDS Grammar, Printer

-----------------------------------------------------------------------------
(* Files: a few declarations, with at most one token wrong.                *)
Imports == <<"import", "id", "str", ";", "import", "str", ";">>
Header  == <<"pkgdoc", "filedoc", "#", "build_if", "(", "!", "int", ")", ";">>
Consts  == <<"id", ":", ":", "int", ";", "id", ":", ":", "^", ";", "id", ":", ":", "<<", ";">>
Vars    == <<"id", ":", "*", "id", ".", "id", "=", "#", "raw", ";", "@", "c", "doc", "id", ":", "=", "int", ";">>
Struct  == <<"id", ":", ":", "struct", "{", "id", ":", "[", "]", "id", ";", "@", "c", "(", "int", ")", "}">>
Typedef == <<"id", ":", ":", "typedef", "proc", "(", "id", ":", "id", "=", "int", "@", "c", ",", "...", "Any", ")", ";">>
Extern  == <<"id", ":", ":", "proc", "(", ")", ":", "[", "int", "]", "id", ";">>
Guarded == <<"#", "c", "(", "raw", ")", ";">>

Proc0(body) == <<"id", ":", ":", "proc", "(", ")", "{">> \o body \o <<"}">>

If == <<"if", "id", "{", "return", ";", "}", "else", "if", "id", "id", "=", "-", "id", ";",
        "else", "{", "}">>
For1 == <<"id", ":", "for", "id", ":", "=", "int", ";", "id", "<", "id", ";", "id", "+=", "int",
          "{", "break", "id", ";", "}">>
For2 == <<"for", "{", "}", "for", "id", "continue", ";", "for", ";", ";", "id", "(", ")", "{", "}">>
For3 == <<"for", "id", ";", "id", "=", "int", "{", "}", "for", "id", "=", "id", ";", "id", "{", "}">>
Switch == <<"switch", "id", "{", "case", "int", ",", "int", ":", "id", "(", ")", ";",
            "default", ":", "{", "}", "}">>
Cases == <<"switch", "id", "{", "case", "id", ":", "{", "}", "@", "c", "case", "int", ":", "return", "id", ";", "}">>
Blocks == <<"defer", "id", "=", ":", "*", "id", "(", "{", "int", "}", ")", ";",
            "{", "#", "raw", ";", "}", "@", "c">>
Locals == <<"id", ":", "id", "=", "#", "c", "(", "raw", ")", ";", "id", ":", ":", ":", "id", "{",
            "[", "int", "]", "=", "int", ",", "}", ";">>
Calls == <<"id", "(", "id", "=", "int", ",", "&", "id", ".", "id", "[", "int", "]", ")", ";",
           "return", "addptr", "(", "id", ",", "int", ")", ";">>

Sources == {
  Header \o Imports \o Consts \o Proc0(<<>>),
  Imports \o Vars \o Struct \o Guarded,
  Typedef \o Extern \o Struct,
  Proc0(If) \o Typedef,
  Proc0(For1) \o Proc0(<<>>),
  Proc0(For2) \o Extern \o Vars,
  Proc0(For3) \o Struct,
  Proc0(Switch) \o Proc0(<<"return", ";">>),
  Proc0(Cases) \o Consts,
  Consts \o Proc0(Blocks) \o Typedef,
  Proc0(Locals) \o Proc0(<<"id", "=", "int", ";">>),
  Imports \o Proc0(Calls) \o Struct }

Wrong == {"id", ":", ";", "{", "}", "(", "=", "@", "proc"}

\* A token left out, in the place of another, or one too many.
Typos(x) ==
  {SubSeq(x, 1, i - 1) \o t \o SubSeq(x, i + n, Len(x)) :
     i \in DOMAIN x, n \in {0, 1}, t \in {<<k>> : k \in Wrong} \cup {<<>>}}

-----------------------------------------------------------------------------
(* Expressions: operators of all levels around operands of all forms.      *)
Operands == {<<"id">>, <<"-", "id">>, <<"*", "&", "id", ".", "id">>, <<"!", "id", "[", "int", "]">>}
Levels == {"||", "&&", "<", "+", "&", "*"}

Infixed(l, ops, rs) == {a \o <<o>> \o b : a \in l, o \in ops, b \in rs}
Pairs == Infixed(Operands, InfixOps, Operands)
Triples == Infixed(Infixed(Operands, Levels, {<<"id">>}), Levels, Operands)
Quads == Infixed(Infixed(Infixed({<<"id">>}, Levels, {<<"id">>, <<"-", "id">>}), Levels, {<<"id">>}),
                 Levels, {<<"id">>})

Mixed == {<<"(", "id", "-", "id", ")", "*", "id">>,
          <<"id", "-", "(", "id", "-", "id", ")">>,
          <<"-", "(", "id", "+", "int", ")", "[", "int", "]">>,
          <<"(", "*", "id", ")", ".", "id">>,
          <<"id", "(", "id", "(", ")", ".", "id", ")", "[", "id", "]">>,
          <<":", "[", "id", "]", "id", "{", "{", "id", "=", "int", "}", ",", "int", "}">>}

Defined(e) == <<"id", ":", "=">> \o e \o <<";">>

AllTexts ==
  {x \o <<"eof">> : x \in UNION {Typos(s) : s \in Sources}
                          \cup {Defined(e) : e \in Pairs \cup Triples \cup Quads \cup Mixed}}

-----------------------------------------------------------------------------
(* Properties. *)
\* The whole file is parsed, and is about to be added to its package.
Parsed == pc = "decls" /\ Get(p) = "eof"

Region(x, i) == Max({s \in Starts(x) : s <= i})
Blamed == {Region(p.text, e) : e \in p.errs \ {0}}

\* The body of the procedure at r either has unbalanced braces or is the
\* whole rest of the region.
RECURSIVE Matching(_, _, _)
Matching(x, i, depth) ==
  LET d == CASE x[i] = "{" -> depth + 1 [] x[i] = "}" -> depth - 1 [] OTHER -> depth
  IN  IF d = 0 \/ i = Len(x) THEN i ELSE Matching(x, i + 1, d)

Confined(x, r) ==
  \E open \in Only(x, GSignature(x, {r}), {"{"}) :
    LET in == open..(After(x, r) - 1)
    IN  \/ Cardinality({i \in in : x[i] = "{"}) # Cardinality({i \in in : x[i] = "}"})
        \/ Matching(x, open, 0) = After(x, r) - 1

\* The parser arrives at the first token of the regions that follow ends.
Arrived(x, ends) == {r \in Starts(x) : r = 1 \/ \E q \in ends : After(x, q) = r}

BlamedRightly(x, good, confined) ==
  \A r \in Arrived(x, good \cup confined) :
    IF r \in good THEN r \notin Blamed
    ELSE r \in Blamed \/ (After(x, r) \in Blamed /\ r \notin confined)

BlamesTheRefused(x, good) == BlamedRightly(x, good, {r \in Starts(x) \ good : Confined(x, r)})

(* A region is blamed exactly when the grammar refuses it.  An error in    *)
(* the body of a procedure does not spill into what follows (the comment   *)
(* in LC_ParseProcDecl); any other may be found at the start of the next   *)
(* region only, and no error is reported without a place.                  *)
ErrorsStayInside ==
  Parsed => /\ 0 \notin p.errs
            /\ BlamesTheRefused(p.text, {r \in Starts(p.text) : InGrammar(p.text, r)})

(* The operators bind as their levels say, from the left, prefixes over    *)
(* infixes and postfixes over prefixes, and every token is in its place.   *)
Level(o) ==
  CASE o = "||" -> 1
    [] o = "&&" -> 2
    [] o \in {"==", "!=", "<", "<=", ">", ">="} -> 3
    [] o \in {"+", "-", "|", "^"} -> 4
    [] o \in {"*", "/", "%", "<<", ">>", "&"} -> 5

Height(e) == CASE e[1] = "binary" -> Level(e[2]) [] e[1] = "unary" -> 6 [] OTHER -> 7

RECURSIVE Binds(_), Yield(_)
Binds(e) ==
  CASE e[1] = "binary" -> /\ Height(e[3]) >= Level(e[2]) /\ Height(e[4]) > Level(e[2])
                          /\ Binds(e[3]) /\ Binds(e[4])
    [] e[1] = "unary" -> Height(e[3]) >= 6 /\ Binds(e[3])
    [] e[1] = "index" -> Height(e[2]) = 7 /\ Binds(e[2]) /\ Binds(e[3])
    [] e[1] = "field" -> Height(e[2]) = 7 /\ Binds(e[2])
    [] OTHER -> TRUE

Yield(e) ==
  CASE e[1] \in {"ident", "literal"} -> <<e[2]>>
    [] e[1] = "binary" -> Yield(e[3]) \o <<e[2]>> \o Yield(e[4])
    [] e[1] = "unary" -> <<e[2]>> \o Yield(e[3])
    [] e[1] = "index" -> Yield(e[2]) \o <<"[">> \o Yield(e[3]) \o <<"]">>
    [] e[1] = "field" -> Yield(e[2]) \o <<".", e[3]>>

IsFlat(x) == \A i \in DOMAIN x : x[i] \notin {"(", "{", "@", "#", "doc"} /\ (x[i] = ":" => i = 2)

TreesBind ==
  Parsed /\ p.errs = {} /\ IsFlat(p.text) =>
    /\ Len(decls) = 1
    /\ Binds(decls[1][3])
    /\ Defined(Yield(decls[1][3])) \o <<"eof">> = p.text

\* The parts of a tree that the printer visits.
Opt(t) == {t} \ {None}
Elements(s) == {s[i] : i \in DOMAIN s}

Parts(t) ==
  CASE t[1] \in {"ident", "literal", "break", "continue"} -> {}
    [] t[1] \in {"type", "field", "pointer", "expr", "const", "defer", "default", "else", "return",
                 "note stmt", "typedef", "const decl", "note decl"} -> Opt(t[2])
    [] t[1] \in {"cast", "index", "addptr", "array", "var", "var decl", "elseif", "proc decl"} ->
         Opt(t[2]) \cup Opt(t[3])
    [] t[1] = "item" -> Opt(t[3]) \cup Opt(t[4])
    [] t[1] \in {"compound", "call"} -> Opt(t[2]) \cup Elements(t[3])
    [] t[1] = "note" -> Elements(t[3])
    [] t[1] = "unary" -> {t[3]}
    [] t[1] \in {"binary", "assign"} -> {t[3], t[4]}
    [] t[1] = "proc" -> UNION {{a[2]} \cup Opt(a[3]) : a \in Elements(t[2])} \cup Opt(t[4])
    [] t[1] \in {"block", "struct", "union"} -> Elements(t[2])
    [] t[1] = "for" -> Opt(t[2]) \cup Opt(t[3]) \cup Opt(t[4]) \cup {t[5]}
    [] t[1] = "switch" -> {t[2]} \cup Elements(t[3])
    [] t[1] = "case" -> Elements(t[2]) \cup {t[3]}
    [] t[1] = "if" -> {t[2], t[3]} \cup Elements(t[4])

\* What the printer is known to spoil: it writes no parentheses around the
\* base of a postfix operator, around a type in front of a block or around a
\* literal at the start of a statement, and no space between two operators,
\* drops the last part of a "for" without a condition, and puts a comma
\* before "..." where nothing precedes it.
RECURSIVE Spoiled(_)
Spoiled(t) ==
  \/ t[1] \in {"field", "index", "call"} /\ t[2][1] \in {"unary", "type", "literal"}
  \/ t[1] = "binary" /\ t[4][1] = "unary" /\ <<t[2], t[4][2]>> \in {<<"&", "&">>, <<"/", "*">>}
  \/ t[1] \in {"if", "elseif", "switch"} /\ t[2][1] = "type"
  \/ t[1] = "for" /\ \/ t[3] = None /\ t[4] # None
                     \/ t[3] # None /\ t[3][1] = "type"
  \/ t[1] \in {"expr", "assign"} /\ Stmt(t)[1] = "{"
  \/ t[1] = "proc" /\ t[2] = <<>> /\ t[3] # "no"
  \/ \E k \in Parts(t) : Spoiled(k)

(* What the printer writes, the parser reads back as the same tree, as the *)
(* test suite does after every test (testsuite.cpp, LC_ParseFile of the    *)
(* generated text): all of it but the forms above.                         *)
Reparsed(d) == Parse(<<"decl", None>>, Parser0(PrintDecl(d) \o <<"eof">>))

RoundTrips(d) ==
  LET r == Reparsed(d) IN r.ok /\ r.errs = {} /\ r.n = d /\ Get(r) = "eof"

PrintedParsesBack ==
  Parsed /\ p.errs = {} => \A d \in Elements(decls) : RoundTrips(d) \/ Spoiled(d)

(* The parser comes to the end of every file, whatever is wrong in it.     *)
ParsingEnds == <>(pc = "done")

-----------------------------------------------------------------------------
(* Two statements that do not hold, for runs that show it.                 *)
FewTexts ==
  {x \o <<"eof">> : x \in Sources \cup {Imports} \cup {Defined(e) : e \in Mixed}}

(* The printer spoils nothing (see Spoiled).                               *)
NothingIsSpoiled == \A d \in Elements(decls) : RoundTrips(d)

(* A second doc comment of a package is an error ("there are more then 1   *)
(* package doc comments"), and a file without one is not.                  *)
DocsAreCounted == pc = "done" => (DocError \in p.errs <=> doc0 /\ doc)
=============================================================================
