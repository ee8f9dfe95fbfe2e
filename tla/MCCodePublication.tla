-------------------------- MODULE MCCodePublication --------------------------
(* Small instances of the publication of compiled code for TLC.            *)
EXTENDS CodePublication

CONSTANTS f1, f2, s1, s2, w1, w2

AotOnly     == {{"aot"}}
OneCompiler == {{"jit"}, {"aot"}}

(* A function that compiles, next to one that does not, or to a plugin's.  *)
Programs == {[f \in Fn |-> IF f = f1 THEN "compilable" ELSE k] : k \in {"refused", "native"}}
=============================================================================
