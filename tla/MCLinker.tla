------------------------------- MODULE MCLinker -------------------------------
(* Small programs for TLC.                                                 *)
EXTENDS Linker, SequencesExt

CONSTANTS a, b, c

E(tag, mod, found) == [tag |-> tag, mod |-> mod, found |-> found]

(* What a, b and c may import; a of itself too.                            *)
FromA == {E("MODULE_INFO", a, TRUE), E("FUNCTION_INFO", a, TRUE), E("METHOD_INFO", a, FALSE),
          E("MODULE_INFO", b, TRUE), E("FUNCTION_INFO", b, TRUE), E("FUNCTION_INFO", b, FALSE),
          E("FIELD_INFO", c, TRUE), E("METHOD_INFO", c, FALSE)}
FromB == {E("MODULE_INFO", a, TRUE), E("CLASS_INFO", c, TRUE), E("METHOD_INFO", a, TRUE)}
FromC == {E("MODULE_INFO", b, TRUE), E("FUNCTION_INFO", a, TRUE)}

Sources(entries, length, files) ==
    [file : files, pool : BoundedSeq(entries, length)]

(* Bound: a's constant pool has at most two imports, those of b and c one. *)
MixedPrograms ==
    {(a :> x @@ b :> y @@ c :> z) :
         x \in Sources(FromA, 2, {"good"}),
         y \in Sources(FromB, 1, {"good"}),
         z \in Sources(FromC, 1, {"missing", "malformed", "good"})}
=============================================================================
