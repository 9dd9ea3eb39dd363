------------------------------ MODULE MCTables ------------------------------
(* Two service names that share a bucket, and one whose hash overflows.    *)
EXTENDS Tables

b == 98
o == 111

MCName == {<<b>>, <<o>>, <<b, b, b>>}
=============================================================================
