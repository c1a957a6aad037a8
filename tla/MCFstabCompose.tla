--------------------------- MODULE MCFstabCompose ---------------------------
(***************************************************************************)
(* A root volume with /a/b, a volume that has a directory b, one that has  *)
(* a file b, and a clone of the first under the same UUID; tables of up to *)
(* three entries.  One handle: handles do not see each other.              *)
(***************************************************************************)
EXTENDS FstabCompose

D(dirs, files) == [p \in dirs \cup files |-> IF p \in dirs THEN "dir" ELSE "file"]

MCTree ==
  [root |-> D({<<>>, <<"a">>, <<"a", "b">>, <<"a", "b", "c">>}, {<<"f">>, <<"a", "f">>}),
   boot |-> D({<<>>, <<"b">>, <<"b", "c">>}, {<<"f">>}),
   data |-> D({<<>>}, {<<"b">>}),
   copy |-> D({<<>>}, {<<"f">>})]
MCUuid == [root |-> "u0", boot |-> "u1", data |-> "u2", copy |-> "u1"]
MCCandidates == <<"root", "copy", "boot", "data">>

MCRawPaths ==
  {<<>>, <<"a">>, <<"a", "b">>, <<"a", "b", "c">>, <<"f">>, <<"a", "f">>, <<"a", "b", "f">>,
   <<".", "a", "b", "..">>, <<"..", "a">>}

E(mp, uuid, auto, nofail) == [mount_point |-> mp, uuid |-> uuid, auto |-> auto, nofail |-> nofail]
Plain ==
  {E(<<>>, "u0", TRUE, FALSE), E(<<>>, "u2", TRUE, FALSE),
   E(<<"a">>, "u1", TRUE, FALSE), E(<<"a">>, "u2", TRUE, TRUE), E(<<"a">>, "u0", TRUE, FALSE),
   E(<<"a", "b">>, "u2", TRUE, TRUE), E(<<"a", "b">>, "u1", TRUE, FALSE),
   E(<<"a", "b", "c">>, "u2", TRUE, FALSE), E(<<"f">>, "u1", TRUE, TRUE),
   E(<<"a", "b">>, "none", FALSE, FALSE), E(<<"a", "..">>, "u1", TRUE, TRUE)}
Tables(entries) == UNION {[1..n -> entries] : n \in 0..3}
PlainFstabs == Tables(Plain)

\* What the theorems about the composed tree assume of a table.
ASSUME TablesArePlain == \A table \in PlainFstabs : WrittenPlainly(table)

\* Mount points that are not written the way they are attached.
Dotted ==
  {E(<<"a", "b">>, "u1", TRUE, FALSE), E(<<".", "a">>, "u2", TRUE, FALSE),
   E(<<"a", "b", "c">>, "u1", TRUE, FALSE), E(<<"a", "b", "..">>, "u2", TRUE, FALSE)}
DottedFstabs == Tables(Dotted)
=============================================================================
