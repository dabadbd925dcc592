-------------------------- MODULE MCResponderInputs --------------------------
(***************************************************************************)
(* ResponderInputs on small buffers, requests and files.                   *)
(***************************************************************************)
EXTENDS ResponderInputs

\* HTTP: negative, zero, fitting, exactly fitting and too long.
MCLengths == {-1, 0, 1, 3, 4, 6, 9}
MCSizes == {0, 4, 8, 11, 13}

\* SCGI: the usual order, repeated keys, no length, no method, a pair cut short.
Pair(key, num, isPost, ended) == [key |-> key, num |-> num, post |-> isPost, ended |-> ended]
Len0(n) == Pair("CONTENT_LENGTH", n, FALSE, TRUE)
Post == Pair("REQUEST_METHOD", 0, TRUE, TRUE)
Get == Pair("REQUEST_METHOD", 0, FALSE, TRUE)
CutPost == Pair("REQUEST_METHOD", 0, TRUE, FALSE)
Uri == Pair("other", 0, FALSE, TRUE)

MCHeaders ==
  {<<Len0(n), Uri, Post>> : n \in {-1, 0, 2, 3, 4, 7}}
    \cup {<<Len0(2), Post, Get>>, <<Get, Len0(4), Len0(2), Post>>, <<Post>>, << >>,
          <<Len0(2)>>, <<Len0(2), CutPost, Post>>, <<Get, Len0(0)>>}
MCScgiLengths == {-1, 0, 3, 5, 6}

\* The index: valid, revoked in every way, and expired lines, and the lines
\* to skip.
Line(status, revocation, serial) ==
  [blank |-> FALSE, fields |-> 6, status |-> status, revocation |-> revocation,
   serial |-> serial]
MCLines ==
  {Line("V", "empty", s) : s \in Serials}
    \cup {Line("R", r, "s1") : r \in {"empty", "short", "valid", "invalid"}}
    \cup {Line("E", "empty", "s2")}
    \cup {Line("V", "empty", s) : s \in {"empty", "overlong", "nonhex"}}
    \cup {[Line("V", "empty", "s1") EXCEPT !.fields = 3],
          [Line("V", "empty", "s1") EXCEPT !.fields = 4],
          [Line("V", "empty", "empty") EXCEPT !.blank = TRUE, !.fields = 1]}
MCFewLines == {l \in MCLines : l.serial \in Serials /\ l.fields = 6 /\ l.revocation # "short"}
MCFiles == UNION {[1 .. n -> MCLines] : n \in 0 .. 2} \cup [1 .. 3 -> MCFewLines]
=============================================================================
