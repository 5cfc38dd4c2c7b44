------------------------------- MODULE Lexer -------------------------------
(* From characters to tokens (src/src/compiler/lex.c).                     *)
(*                                                                         *)
(* LC_LexStream calls LC_LexNext until the end of the file.  Unless there   *)
(* was an error, LC_InternTokens goes through the tokens once more, decodes *)
(* strings and finds keywords: two passes that read a string literal in     *)
(* two ways.                                                                *)
(* A character is a string of one letter, or the name of one that has      *)
(* none: "nl", "tab", "tick" for the back quote, "lead" and "cont" for the *)
(* bytes of a character of two bytes, and "nul" for what ends the file.    *)
(* The letters and digits that are not here are like those that are.       *)
EXTENDS Integers, Sequences

CONSTANTS
    Texts,      \* the files that may be read
    Keywords,   \* the names from L->first_keyword to L->last_keyword
    AddPtr      \* L->kaddptr, one of them

VARIABLES
    text,       \* the characters of the file
    quick,      \* called from LC_MakeParserQuick, not from LC_ParseFile
    pc,         \* "lex", "intern", "done", "refused" or "crashed"
    at,         \* x->at, the place of the next character
    tokens,     \* x->tokens
    next,       \* the token LC_InternTokens is at
    errors      \* L->errors

vars == <<text, quick, pc, at, tokens, next, errors>>

---------------------------------------------------------------------------
(* Characters.                                                             *)

White == {" ", "nl", "tab"}
Digits == {"0", "1", "2", "9"}
BinDigits == {"0", "1"}
HexDigits == Digits \cup {"a", "b", "c", "d", "e", "f"}
Letters == {"a", "b", "c", "d", "e", "f", "g", "i", "k", "l", "n", "p", "r", "t", "x", "_"}

Number(c) == CHOOSE n \in 0 .. 15 :
    c = <<"0", "1", "2", "3", "4", "5", "6", "7", "8", "9", "a", "b", "c", "d", "e", "f">>[n + 1]

Escapes == {"a", "b", "e", "f", "n", "r", "t", "v", "\\", "'", "\"", "0"}
EscapeCode(c) == IF c \in {"\\", "'", "\""} THEN c
                 ELSE IF c = "n" THEN "nl" ELSE IF c = "t" THEN "tab" ELSE "code of " \o c

C(p) == IF p \in DOMAIN text THEN text[p] ELSE "nul"
Advance(p) == IF C(p) = "nul" THEN p ELSE p + 1
End == Len(text) + 1

\* The loops that eat characters of a set, or up to one.
Eat(S, p) == CHOOSE q \in p .. End : C(q) \notin S /\ \A r \in p .. q - 1 : C(r) \in S
EatUntil(c, p) == CHOOSE q \in p .. End : C(q) \in {c, "nul"} /\ \A r \in p .. q - 1 : C(r) # c
Starts(s, p) == \A k \in DOMAIN s : C(p + k - 1) = s[k]

(* A token has its kind, the place and length of its text, the line it is  *)
(* on and, if it is a literal or a name, a value.                          *)
Line(p) == 1 + Len(SelectSeq(SubSeq(text, 1, p - 1), LAMBDA c : c = "nl"))
Text(t) == SubSeq(text, t.first, t.first + t.len - 1)

\* What LC_LexNext leaves: the token and the cursor.
Lexed(kind, p, q) ==
    [t |-> [kind |-> kind, first |-> p, len |-> q - p, line |-> Line(p), val |-> <<>>], at |-> q]
Valued(x, v) == [x EXCEPT !.t.val = v]
LexingError(p, q) == Lexed("error", p, q)
Inner(kind, p, q) ==
    LET x == Lexed(kind, p, q) IN [x EXCEPT !.t.first = p + 1, !.t.len = (q - p) - 2]

---------------------------------------------------------------------------
(* One operator for each function that lexes something; p is where the     *)
(* token starts.                                                           *)

\* Mutant: the power of the base does not grow.
LexBigInt_Flat(s, base) ==
    LET Sum[i \in 0 .. Len(s)] ==
            IF i = 0 THEN 0 ELSE Sum[i - 1] + Number(s[Len(s) - i + 1]) * (IF i = 1 THEN 1 ELSE base)
    IN  Sum[Len(s)]

(* The sum from the last digit, with a growing power of the base.          *)
LexBigInt(s, base) ==
    LET Sum[i \in 0 .. Len(s)] ==
            IF i = 0 THEN [m |-> 1, result |-> 0]
            ELSE LET u == Number(s[Len(s) - i + 1])
                 IN  [m |-> Sum[i - 1].m * base, result |-> Sum[i - 1].result + u * Sum[i - 1].m]
    IN  Sum[Len(s)].result

LexPrefixed(set, base, p) ==
    LET q == Eat(set, p + 2)
    IN  IF q = p + 2 THEN LexingError(p, q)
        ELSE Valued(Lexed("int", p, q), LexBigInt(SubSeq(text, p + 2, q - 1), base))

LexIntOrFloat(p) ==
    LET i == Eat(Digits, p)
        f == Eat(Digits, i + 1)
    IN  IF C(i) # "." THEN Valued(Lexed("int", p, i), LexBigInt(SubSeq(text, p, i - 1), 10))
        ELSE IF C(f) = "." THEN LexingError(p, f) ELSE Lexed("float", p, f)

\* Mutant: comments do not nest.
CommentEnd_First(p) ==
    IF \E q \in p .. End : Starts(<<"*", "/">>, q)
    THEN CHOOSE q \in p .. End : Starts(<<"*", "/">>, q) /\ \A r \in p .. q - 1 : ~Starts(<<"*", "/">>, r)
    ELSE 0

(* The end of a comment.  A nested comment is counted, but only one        *)
(* character of its end is skipped, and what ends it may begin another.    *)
CommentEnd(p) ==
    LET Close[q \in 1 .. End + 1, counter \in 0 .. End] ==
            LET opens == Starts(<<"/", "*">>, q)
                closes == Starts(<<"*", "/">>, q)
                r == IF opens THEN q + 1 ELSE q
            IN  IF closes /\ counter = 0 THEN q
                ELSE IF C(r) = "nul" THEN 0
                ELSE Close[r + 1, IF closes THEN counter - 1 ELSE IF opens THEN counter + 1 ELSE counter]
    IN  Close[p, 0]

LexNestedComments(p) ==
    LET isDoc == C(p + 2) = "*"
        body == IF isDoc THEN p + 3 ELSE p + 2
        kind == IF ~isDoc THEN "comment"
                ELSE IF Starts(<<" ", "f", "i", "l", "e">>, body) THEN "filedoc"
                ELSE IF Starts(<<" ", "p", "a", "c", "k", "a", "g", "e">>, body) THEN "pkgdoc"
                ELSE "doc"
        close == CommentEnd(body)
        x == Lexed(kind, p, close + 2)
    IN  IF close = 0 THEN LexingError(p, End)
        ELSE [x EXCEPT !.t.first = p + 2, !.t.len = close - (p + 2)]

(* A backslash hides a quote, and only a quote.                            *)
LexString(p) ==
    LET Quote[q \in 1 .. End] ==
            IF C(q) \in {"nl", "nul", "\""} THEN q
            ELSE IF Starts(<<"\\", "\"">>, q) THEN Quote[q + 2] ELSE Quote[q + 1]
        q == Quote[p + 1]
    IN  IF C(q) = "\"" THEN Inner("str", p, q + 1) ELSE LexingError(p, q)

(* The end of the file ends a raw string too, without a report.            *)
LexRawString(p) == Inner("raw", p, Advance(EatUntil("tick", p + 1)))

(* The value is the bytes of the character as they are.                    *)
LexUnicodeLiteral(p) ==
    LET valid == C(p + 1) \notin {"lead", "cont"} \/ Starts(<<"lead", "cont">>, p + 1)
        after == IF C(p + 1) = "lead" THEN p + 3 ELSE Advance(p + 1)
        isEscape == C(p + 1) = "\\"
        q == IF isEscape THEN Advance(after) ELSE after
        value == IF isEscape THEN <<EscapeCode(C(after))>> ELSE SubSeq(text, p + 1, after - 1)
    IN  IF ~valid THEN LexingError(p, p + 1)
        ELSE IF isEscape /\ C(after) \notin Escapes THEN LexingError(p, after)
        ELSE IF C(q) # "'" THEN LexingError(p, q)
        ELSE Valued(Inner("unicode", p, q + 1), value)

(* LC_LexCase2, LC_LexCase3 and LC_LexCase4: the second character.         *)
LexCase2(p, q, tk0, c, tk1) == IF C(q) = c THEN Lexed(tk1, p, q + 1) ELSE Lexed(tk0, p, q)
LexCase3(p, tk, c0, tk0, c1, tk1) ==
    IF C(p + 1) = c0 THEN Lexed(tk0, p, p + 2) ELSE LexCase2(p, p + 1, tk, c1, tk1)
LexCase4(p, tk, c0, tk0, c1, tk1, c2, tk2) ==
    IF C(p + 1) = c0 THEN Lexed(tk0, p, p + 2)
    ELSE IF C(p + 1) = c1 THEN LexCase2(p, p + 2, tk1, c2, tk2)
    ELSE Lexed(tk, p, p + 1)

LexDiv(p) ==
    CASE C(p + 1) = "/" -> Lexed("comment", p, EatUntil("nl", p + 2))
      [] C(p + 1) = "*" -> LexNestedComments(p)
      [] OTHER -> LexCase2(p, p + 1, "/", "=", "/=")

LexZero(p) ==
    CASE C(p + 1) = "x" -> LexPrefixed(HexDigits, 16, p)
      [] C(p + 1) = "b" -> LexPrefixed(BinDigits, 2, p)
      [] OTHER -> LexIntOrFloat(p)

Single == {"(", ")", "{", "}", "[", "]", ",", ":", ";", "~", "#", "@"}
WithAssign == {"=", "!", "*", "%", "+", "-", "^"}

LexNext(q) ==
    LET p == Eat(White, q)
        c == C(p)
    IN  CASE c = "nul" -> Lexed("eof", p, p)
          [] c \in Single -> Lexed(c, p, p + 1)
          [] c \in WithAssign -> LexCase2(p, p + 1, c, "=", c \o "=")
          [] c = "&" -> LexCase3(p, "&", "=", "&=", "&", "&&")
          [] c = "|" -> LexCase3(p, "|", "=", "|=", "|", "||")
          [] c = ">" -> LexCase4(p, ">", "=", ">=", ">", ">>", "=", ">>=")
          [] c = "<" -> LexCase4(p, "<", "=", "<=", "<", "<<", "=", "<<=")
          [] c = "." -> IF Starts(<<".", ".">>, p + 1) THEN Lexed("...", p, p + 3) ELSE Lexed(".", p, p + 1)
          [] c = "/" -> LexDiv(p)
          [] c = "'" -> LexUnicodeLiteral(p)
          [] c = "\"" -> LexString(p)
          [] c = "tick" -> LexRawString(p)
          [] c = "0" -> LexZero(p)
          [] c \in Digits \ {"0"} -> LexIntOrFloat(p)
          [] c \in Letters -> Lexed("ident", p, Eat(Letters \cup Digits, p))
          [] OTHER -> Valued([LexingError(p, p + 1) EXCEPT !.t.len = 0], <<>>)

---------------------------------------------------------------------------
(* The second pass over the tokens.                                        *)

\* The characters of a string; bad if a code is not known, which ends it.
Decode(s) ==
    LET From[i \in 1 .. Len(s) + 1] ==
            LET c1 == IF i < Len(s) THEN s[i + 1] ELSE "nul"
            IN  IF i > Len(s) THEN [val |-> <<>>, bad |-> FALSE]
                ELSE IF s[i] # "\\" THEN [From[i + 1] EXCEPT !.val = <<s[i]>> \o @]
                ELSE IF c1 \notin Escapes THEN [val |-> <<>>, bad |-> TRUE]
                ELSE [From[i + 2] EXCEPT !.val = <<EscapeCode(c1)>> \o @]
    IN  From[1]

InternToken(t) ==
    CASE t.kind = "str" ->
           LET d == Decode(Text(t))
           IN  [t EXCEPT !.val = d.val, !.kind = IF d.bad THEN "error" ELSE "str"]
      [] t.kind \in {"raw", "@"} -> [t EXCEPT !.val = Text(t)]
      [] t.kind = "ident" ->
           LET kind == IF Text(t) = AddPtr THEN "addptr"
                       ELSE IF Text(t) \in Keywords THEN "keyword" ELSE "ident"
           IN  [t EXCEPT !.val = Text(t), !.kind = kind]
      [] OTHER -> t

---------------------------------------------------------------------------
(* The two loops.                                                          *)

Init ==
    /\ text \in Texts /\ quick \in BOOLEAN
    /\ pc = "lex" /\ at = 1 /\ tokens = <<>>
    /\ next = 1 /\ errors = 0

\* LC_ParseFile gives up after an error; LC_MakeParserQuick does not look.
AfterLexing == IF errors > 0 /\ ~quick THEN "refused" ELSE "intern"

\* LC_LexNext calls itself for the same token behind a comment.
LexComment ==
    /\ pc = "lex" /\ LexNext(at).t.kind = "comment"
    /\ at' = LexNext(at).at
    /\ UNCHANGED <<text, quick, pc, tokens, next, errors>>

\* Mutant: the character that is reported is not consumed.
LexStream_Stays ==
    LET x == LexNext(at)
    IN  /\ pc = "lex" /\ x.t.kind # "comment"
        /\ tokens' = IF x.t.kind = "error" THEN tokens ELSE Append(tokens, x.t)
        /\ at' = IF x.t.kind = "error" THEN x.t.first ELSE x.at
        /\ errors' = IF x.t.kind = "error" THEN 1 ELSE errors
        /\ pc' = IF x.t.kind = "eof" THEN AfterLexing ELSE "lex"
        /\ UNCHANGED <<text, quick, next>>

LexStream ==
    LET x == LexNext(at)
    IN  /\ pc = "lex" /\ x.t.kind # "comment"
        /\ tokens' = Append(tokens, x.t)
        /\ at' = x.at
        /\ errors' = errors + (IF x.t.kind = "error" THEN 1 ELSE 0)
        /\ pc' = IF x.t.kind = "eof" THEN AfterLexing ELSE "lex"
        /\ UNCHANGED <<text, quick, next>>

InternTokens ==
    LET t == InternToken(tokens[next])
    IN  /\ pc = "intern" /\ tokens[next].len >= 0
        /\ next' = next + 1
        /\ tokens' = [tokens EXCEPT ![next] = t]
        /\ errors' = errors + (IF t.kind = "error" /\ tokens[next].kind # "error" THEN 1 ELSE 0)
        /\ pc' = IF next = Len(tokens) THEN "done" ELSE "intern"
        /\ UNCHANGED <<text, quick, at>>

\* LC_InternStrLen for a length below 0 hashes whatever is in memory.
Crash ==
    /\ pc = "intern" /\ tokens[next].len < 0
    /\ pc' = "crashed"
    /\ UNCHANGED <<text, quick, at, tokens, next, errors>>

Next == LexComment \/ LexStream \/ InternTokens \/ Crash

Spec == Init /\ [][Next]_vars /\ WF_vars(Next)

---------------------------------------------------------------------------
\* LC_LexStream, LC_InternTokens: both loops come to an end, whatever is in
\* the file, and the cursor stops at the end of it.
LexingEnds == <>(pc \in {"done", "refused", "crashed"} /\ at = End)

=============================================================================
