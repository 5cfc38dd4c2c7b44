----------------------------- MODULE BuildCacheMC ----------------------------
(***************************************************************************)
(* BuildCache with a build file that includes two headers, which include   *)
(* one another in all ways.                                                *)
(***************************************************************************)
EXTENDS BuildCache

P(r, s, x, y, z) ==
  [f \in {"build", "a", "b"} |->
     CASE f = "build" -> <<r, s>> [] f = "a" -> <<x, y>> [] f = "b" -> <<z>>]

(* The second version of a file may include other files than the first.    *)
MCProjects ==
  {P(<<"a", "b">>, <<"b">>, <<"b">>, <<>>, <<>>),       \* two ways to b, one is edited away
   P(<<"a">>, <<"b", "a">>, <<>>, <<"b", "b">>, <<>>),  \* b comes in, several times
   P(<<"a">>, <<>>, <<"b">>, <<>>, <<"a">>),            \* a and b include each other, until edited
   P(<<"b", "a">>, <<"a">>, <<>>, <<"a">>, <<>>)}       \* a comes to include itself

MCDisks == {[f \in {"build", "a", "b"} |-> IF f = "b" THEN v ELSE 1] : v \in {0, 1}}

W(m, r, c, k) == [meddles |-> m, reverts |-> r, cleans |-> c, kills |-> k]

(* Earlier versions come back only when nothing else goes wrong.           *)
Orderly == {W(FALSE, TRUE, TRUE, FALSE), W(TRUE, FALSE, TRUE, FALSE), W(FALSE, FALSE, FALSE, TRUE),
            W(TRUE, FALSE, FALSE, TRUE)}
Interrupted == {W(FALSE, TRUE, FALSE, TRUE)}
=============================================================================
