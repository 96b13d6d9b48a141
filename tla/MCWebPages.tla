----------------------------- MODULE MCWebPages -----------------------------
(* A small instance of WebPages for TLC. *)
EXTENDS WebPages

CONSTANTS s1, s2, s3

MCCategoryOf == [r \in Report |-> IF r = "iot" THEN "Operations" ELSE "Finance"]

\* Lists of no, one, two and three shipments, one of them without coordinates.
MCList == {<<>>, <<s2>>, <<s1, s2>>, <<s3, s1, s2>>}
=============================================================================
