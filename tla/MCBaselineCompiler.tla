------------------------ MODULE MCBaselineCompiler ------------------------
(* Functions of a few instructions over three registers, compiled with     *)
(* five machine registers so that they run out: three that a callee keeps, *)
(* which ARRAYGET needs for its operands and the address, and two of the   *)
(* others.                                                                 *)
EXTENDS BaselineCompiler

Ins(op, a, b, c, imm) == [op |-> op, a |-> a, b |-> b, c |-> c, imm |-> imm]

MCGPRegisters == <<3, 5, 12, 0, 1>>
MCVolatile    == {0, 1, 7}
MCVRegs       == 0 .. 2

Bytes      == 100
References == 101
Text       == 102

MCHeap == Bytes :> [kind |-> "Array", type |-> "UByte", length |-> 2, bytes |-> <<1, 0>>]
       @@ References :> [kind |-> "Array", type |-> "Reference", length |-> 1,
                         bytes |-> <<0, 0, 1, 0, 0, 1, 1, 0>>]
       @@ Text :> [kind |-> "String", type |-> "UByte", length |-> 1, bytes |-> <<1>>]

Number(w)  == [isObject |-> FALSE, ul |-> w]

Instructions1 ==
    {Ins("MOV", 1, 0, 0, 0), Ins("MOV", 0, 2, 0, 0), Ins("LOAD_IMM", 0, 0, 0, 9),
     Ins("LOAD_IMM", 1, 0, 0, 20), Ins("LOAD_NULL", 0, 0, 0, 0), Ins("ADD", 2, 0, 1, 0),
     Ins("ADD", 0, 0, 2, 0), Ins("ICMP", 2, 0, 1, 0), Ins("ICMP", 0, 2, 1, 0),
     Ins("INC", 1, 0, 0, 1), Ins("ARRAYLENGTH", 1, 0, 0, 0), Ins("ARRAYGET", 2, 0, 1, 0),
     Ins("ARRAYGET", 0, 0, 1, 0), Ins("CALL", 1, 0, 0, 0), Ins("YIELD", 0, 0, 0, 0),
     Ins("NOP", 0, 0, 0, 0), Ins("SUB", 0, 0, 0, 0),
     Ins("JMP", 0, 0, 0, 2), Ins("JLT", 2, 0, 0, -1), Ins("JEQ", 2, 0, 0, 1)}

Return == Ins("RETURN", 2, 0, 0, 0)

(* Those that move values between the frame and machine registers most.   *)
Core == {Ins("MOV", 1, 0, 0, 0), Ins("LOAD_NULL", 0, 0, 0, 0), Ins("ADD", 2, 0, 1, 0),
         Ins("ICMP", 2, 0, 1, 0), Ins("ICMP", 0, 2, 1, 0), Ins("INC", 1, 0, 0, 1),
         Ins("ARRAYGET", 2, 0, 1, 0), Ins("CALL", 1, 0, 0, 0), Ins("YIELD", 0, 0, 0, 0),
         Ins("JLT", 2, 0, 0, -1), Ins("JEQ", 2, 0, 0, 1)}

Ended == {<<i, Return>> : i \in Instructions1}
      \union {<<i, j, Return>> : i \in Instructions1, j \in Instructions1}
      \union {<<i, j, k, Return>> : i \in Core, j \in Core, k \in Core}

Closed(p) == \A i \in DOMAIN p : p[i].op \in Jumps => i + p[i].imm \in DOMAIN p

MCPrograms == {p \in Ended : Closed(p)}

MCFrames == {[v \in MCVRegs |-> IF v = 0 THEN x ELSE IF v = 1 THEN y ELSE Number(255)] :
                x \in {Reference(Bytes), Reference(References), Reference(Text), Reference(0),
                       Number(3)},
                y \in {Number(0), Number(1)}}
MCCallResults == {Number(2), Reference(Bytes)}
===========================================================================
