------------------------------ MODULE LexerMC ------------------------------
(* Small files for Lexer, and what they should be read as: at every place  *)
(* the longest lexeme there is, where the lexemes of each kind are given   *)
(* by their ends and not by a scan.                                        *)
EXTENDS Lexer, FiniteSets

MCAddPtr == <<"a", "d", "d", "p", "t", "r">>
MCKeywords == {<<"i", "f">>, MCAddPtr}

UpTo(S, n) == UNION {[1 .. k -> S] : k \in 0 .. n}
After(s, S, n) == {s \o x : x \in UpTo(S, n)}

(* A piece of every kind, to be put side by side.                          *)
Pieces == {
    <<"i", "f">>, <<"i", "f", "1">>, MCAddPtr, <<"_", "a">>, <<"1", "9">>, <<"0", "x", "1", "f">>,
    <<"0", "b", "1", "0">>, <<"0", "b">>, <<"1", ".", "2">>, <<"\"", "a", "\\", "n", "\"">>, <<"\"", "\\", "g", "\"">>,
    <<"tick", "nl", "tick">>, <<"'", "\\", "n", "'">>, <<"'", "lead", "cont", "'">>, <<"'", "a">>,
    <<"/", "/", "a">>, <<"/", "*", "nl", "*", "/">>, <<"/", "*", "*", " ", "f", "i", "l", "e", " ", "*", "/">>,
    <<"/", "*", "*", " ", "p", "a", "c", "k", "a", "g", "e", "*", "/">>, <<"/", "*", "*", "a", "*", "/">>,
    <<"@">>, <<"<", "<", "=">>, <<"&", "&">>, <<".", ".", ".">>, <<"lead">>, <<"-">>, <<"/">>, <<"(">>}

MCTexts ==
    After(<<"/", "*">>, {"/", "*", "a", "nl"}, 5)
    \cup After(<<"/">>, {"/", "*"}, 8)
    \cup After(<<"\"">>, {"\"", "\\", "n", "g", "nl"}, 5)
    \cup After(<<"tick">>, {"tick", "\\", "a", "nl"}, 4)
    \cup After(<<"'">>, {"'", "\\", "n", "g", "lead", "cont"}, 4)
    \cup UpTo({"0", "1", "9", "x", "b", "f", "."}, 4)
    \cup UpTo({"=", "!", "*", "%", "-", "&", "|", ">", "<", ".", "/", ":"}, 3)
    \cup UpTo({"i", "f", "_", "1", " ", "@", "$"}, 4)
    \cup {a \o s \o b : a \in Pieces, b \in Pieces, s \in {<<>>, <<" ">>, <<"nl">>}}

---------------------------------------------------------------------------
(* The lexemes that start at p, by their kind and the place behind them.   *)

Over(S, p, q) == \A r \in p .. q - 1 : C(r) \in S
Ends(p) == p + 1 .. End

Numbers(p) ==
    {[kind |-> "int", q |-> q] : q \in {q \in Ends(p) :
        \/ Over(Digits, p, q)
        \/ C(p) = "0" /\ C(p + 1) = "x" /\ q > p + 2 /\ Over(HexDigits, p + 2, q)
        \/ C(p) = "0" /\ C(p + 1) = "b" /\ q > p + 2 /\ Over(BinDigits, p + 2, q)}}
    \cup {[kind |-> "float", q |-> q] : q \in {q \in Ends(p) :
        \E d \in p + 1 .. q - 1 : Over(Digits, p, d) /\ C(d) = "." /\ Over(Digits, d + 1, q)}}

Words(p) ==
    {[kind |-> "ident", q |-> q] :
        q \in {q \in Ends(p) : C(p) \in Letters /\ Over(Letters \cup Digits, p, q)}}

\* A character of a string that starts at p is hidden by the backslash
\* before it, unless that one is hidden itself.
Hidden(p, i) ==
    LET run == {b \in p + 1 .. i - 1 : \A r \in b .. i - 1 : C(r) = "\\"}
    IN  Cardinality(run) % 2 = 1
Strings(p) ==
    {[kind |-> "str", q |-> q] : q \in {q \in Ends(p) :
        /\ q >= p + 2 /\ C(p) = "\"" /\ C(q - 1) = "\"" /\ ~Hidden(p, q - 1)
        /\ \A i \in p + 1 .. q - 2 : C(i) # "nl" /\ (C(i) = "\"" => Hidden(p, i))}}
    \cup {[kind |-> "raw", q |-> q] : q \in {q \in Ends(p) :
        /\ q >= p + 2 /\ C(p) = "tick" /\ C(q - 1) = "tick"
        /\ \A i \in p + 1 .. q - 2 : C(i) # "tick"}}
Characters(p) ==
    {[kind |-> "unicode", q |-> q] : q \in {q \in Ends(p) :
        /\ C(p) = "'" /\ C(q - 1) = "'"
        /\ \/ q = p + 3 /\ C(p + 1) \notin {"\\", "lead", "cont"}
           \/ q = p + 4 /\ C(p + 1) = "\\" /\ C(p + 2) \in Escapes
           \/ q = p + 4 /\ C(p + 1) = "lead" /\ C(p + 2) = "cont"}}

\* Comments are brackets: where the one that starts at p ends, and whether
\* an end of a nested one was followed by a star.
Comment(p) ==
    LET Scan[q \in 1 .. End + 1, depth \in 0 .. End] ==
            IF q > End THEN [q |-> 0, star |-> FALSE]
            ELSE IF Starts(<<"/", "*">>, q) THEN Scan[q + 2, depth + 1]
            ELSE IF ~Starts(<<"*", "/">>, q) THEN Scan[q + 1, depth]
            ELSE IF depth = 0 THEN [q |-> q + 2, star |-> FALSE]
            ELSE [Scan[q + 2, depth - 1] EXCEPT !.star = @ \/ C(q + 2) = "*"]
    IN  Scan[p + 2, 0]
DocKind(p) ==
    CASE C(p + 2) # "*" \/ C(p + 3) = "/" -> "comment"
      [] Starts(<<" ", "f", "i", "l", "e">>, p + 3) -> "filedoc"
      [] Starts(<<" ", "p", "a", "c", "k", "a", "g", "e">>, p + 3) -> "pkgdoc"
      [] OTHER -> "doc"
Comments(p) ==
    {[kind |-> "comment", q |-> q] : q \in {q \in Ends(p) :
        Starts(<<"/", "/">>, p) /\ \A r \in p .. q - 1 : C(r) # "nl"}}
    \cup {[kind |-> DocKind(p), q |-> q] : q \in {q \in Ends(p) :
        Starts(<<"/", "*">>, p) /\ q = Comment(p).q}}

Operators ==
    {[kind |-> c, s |-> <<c>>] : c \in Single \cup WithAssign \cup {"&", "|", "<", ">", ".", "/"}}
    \cup {[kind |-> "==", s |-> <<"=", "=">>], [kind |-> "!=", s |-> <<"!", "=">>],
          [kind |-> "*=", s |-> <<"*", "=">>], [kind |-> "%=", s |-> <<"%", "=">>],
          [kind |-> "+=", s |-> <<"+", "=">>], [kind |-> "-=", s |-> <<"-", "=">>],
          [kind |-> "^=", s |-> <<"^", "=">>], [kind |-> "/=", s |-> <<"/", "=">>],
          [kind |-> "&=", s |-> <<"&", "=">>], [kind |-> "|=", s |-> <<"|", "=">>],
          [kind |-> "&&", s |-> <<"&", "&">>], [kind |-> "||", s |-> <<"|", "|">>],
          [kind |-> "<=", s |-> <<"<", "=">>], [kind |-> ">=", s |-> <<">", "=">>],
          [kind |-> "<<", s |-> <<"<", "<">>], [kind |-> ">>", s |-> <<">", ">">>],
          [kind |-> "<<=", s |-> <<"<", "<", "=">>], [kind |-> ">>=", s |-> <<">", ">", "=">>],
          [kind |-> "...", s |-> <<".", ".", ".">>]}
Signs(p) == {[kind |-> o.kind, q |-> p + Len(o.s)] : o \in {o \in Operators : Starts(o.s, p)}}

Lexemes(p) == Numbers(p) \cup Words(p) \cup Strings(p) \cup Characters(p) \cup Comments(p) \cup Signs(p)
Longest(p) == CHOOSE x \in Lexemes(p) : \A y \in Lexemes(p) : x.q >= y.q

\* What is no lexeme, and what is refused although its beginning is one.
IsFault(p) ==
    \/ Lexemes(p) = {}
    \/ Starts(<<"/", "*">>, p) /\ Comments(p) = {}
    \/ C(p) = "0" /\ C(p + 1) \in {"x", "b"} /\ Longest(p).q = p + 1
    \/ Longest(p).kind = "float" /\ C(Longest(p).q) = "."

\* The places at which the code is known to read something else: a string
\* that ends in a backslash, an empty comment of two stars, a star behind a
\* nested comment, and a raw string that is not closed.
Departs(p) ==
    \/ \E x \in Strings(p) : x.kind = "str" /\ x.q > p + 2 /\ C(x.q - 2) = "\\"
    \/ Starts(<<"/", "*", "*", "/">>, p)
    \/ Starts(<<"/", "*">>, p) /\ Comment(p).star
    \/ C(p) = "tick" /\ Strings(p) = {}

---------------------------------------------------------------------------
(* What each lexeme means.                                                 *)

\* Horner's rule, from the first digit.
ValueOf(s, base) ==
    LET V[i \in 0 .. Len(s)] == IF i = 0 THEN 0 ELSE V[i - 1] * base + Number(s[i]) IN V[Len(s)]

\* The places of the characters a string is made of, and their codes.
Heads(p, q) == {i \in p + 1 .. q - 2 : ~Hidden(p, i)}
Nth(S, n) == CHOOSE i \in S : Cardinality({j \in S : j < i}) = n - 1
Meaning(p, q) ==
    [n \in 1 .. Cardinality(Heads(p, q)) |->
        LET i == Nth(Heads(p, q), n) IN IF C(i) = "\\" THEN EscapeCode(C(i + 1)) ELSE C(i)]
HasBadCode(p, q) == \E i \in Heads(p, q) : C(i) = "\\" /\ C(i + 1) \notin Escapes

TokenOf(p, x) ==
    LET s == SubSeq(text, p, x.q - 1)
        inner == SubSeq(text, p + 1, x.q - 2)
        T(kind, first, len, val) ==
            [kind |-> kind, first |-> first, len |-> len, line |-> Line(p), val |-> val]
        All(kind, val) == T(kind, p, x.q - p, val)
    IN  CASE x.kind = "int" ->
               All("int", IF C(p) = "0" /\ C(p + 1) = "x" THEN ValueOf(SubSeq(s, 3, Len(s)), 16)
                          ELSE IF C(p) = "0" /\ C(p + 1) = "b" THEN ValueOf(SubSeq(s, 3, Len(s)), 2)
                          ELSE ValueOf(s, 10))
          [] x.kind = "ident" ->
               All(IF s = AddPtr THEN "addptr" ELSE IF s \in Keywords THEN "keyword" ELSE "ident", s)
          [] x.kind = "str" ->
               T(IF HasBadCode(p, x.q) THEN "error" ELSE "str", p + 1, x.q - p - 2, Meaning(p, x.q))
          [] x.kind = "raw" -> T("raw", p + 1, x.q - p - 2, inner)
          [] x.kind = "unicode" ->
               T("unicode", p + 1, x.q - p - 2, IF C(p + 1) = "\\" THEN <<EscapeCode(C(p + 2))>> ELSE inner)
          [] x.kind \in {"doc", "filedoc", "pkgdoc"} -> T(x.kind, p + 2, x.q - p - 4, <<>>)
          [] x.kind = "@" -> All("@", s)
          [] OTHER -> All(x.kind, <<>>)

\* The tokens up to the first place where the text is wrong, or is read
\* in another way than it should be, and why there are no more.
Expected ==
    LET From[q \in 1 .. End] ==
            LET p == Eat(White, q)
            IN  IF C(p) = "nul" THEN [tokens |-> <<TokenOf(p, [kind |-> "eof", q |-> p])>>, stop |-> "eof"]
                ELSE IF Departs(p) THEN [tokens |-> <<>>, stop |-> "departs"]
                ELSE IF IsFault(p) THEN [tokens |-> <<>>, stop |-> "fault"]
                ELSE IF Longest(p).kind = "comment" THEN From[Longest(p).q]
                ELSE [From[Longest(p).q] EXCEPT !.tokens = <<TokenOf(p, Longest(p))>> \o @]
    IN  From[1]

---------------------------------------------------------------------------
Agree(t, e) == [t EXCEPT !.val = e.val] = e /\ (e.kind # "error" => t.val = e.val)

SamePlace(t, e) == <<t.first, t.len, t.line>> = <<e.first, e.len, e.line>>

\* LC_LexNext, LC_InternTokens: the two passes together make of a file the
\* longest lexemes in it, with their kinds, places, lines and values, and
\* report an error where there is no lexeme or a code is not known, and
\* nowhere else; a file with an error is refused before the second pass.
\* Only from a place on where the code is known to depart is anything else
\* possible; it crashes only behind an error or such a place, on a back
\* quote that is the last character.
TokensAreExact ==
    pc \in {"done", "refused", "crashed"} =>
        LET e == Expected
            wrong == {i \in DOMAIN e.tokens : e.tokens[i].kind = "error"}
        IN  /\ Len(e.tokens) <= Len(tokens)
            /\ \A i \in DOMAIN e.tokens :
                  IF pc = "done" THEN Agree(tokens[i], e.tokens[i]) ELSE SamePlace(tokens[i], e.tokens[i])
            /\ pc # "done" => e.stop # "eof"
            /\ pc = "crashed" => text[Len(text)] = "tick"
            /\ e.stop = "eof" => Len(tokens) = Len(e.tokens) /\ errors = Cardinality(wrong)
            /\ e.stop = "fault" => /\ tokens[Len(e.tokens) + 1].kind = "error"
                                   /\ quick \/ pc = "refused"

\* README.md, Comments: block comments nest, however they are written.
CommentsNest ==
    (pc \in {"done", "refused"} /\ Starts(<<"/", "*">>, 1) /\ Comment(1).q # 0) =>
        \A i \in DOMAIN tokens : tokens[i].kind = "error" => tokens[i].first # 1

=============================================================================
