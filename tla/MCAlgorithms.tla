---------------------------- MODULE MCAlgorithms ----------------------------
(* Small inputs for each computation: words of 8 bits, bytecode of bytes   *)
(* of 3 bits, modules of two or three classes, command lines of up to      *)
(* four arguments.                                                         *)
EXTENDS Algorithms

MCWords == Word

(* Two floating-point formats: one whose range is wider than a word's, and *)
(* one with more digits than range.                                        *)
FloatsOf(format) ==
    [format : {format},
     fp : [sign : 0 .. 1, exp : 0 .. (2^format.exp - 1), frac : 0 .. (2^format.frac - 1)]]
MCFloats == FloatsOf(Format(5, 2)) \union FloatsOf(Format(3, 4))

MCMeaning == [b \in 0 .. 7 |->
    <<"NOP", "JMP", "LOAD_IMM", "JEQ", "AWAIT", "RETURN", "WIDE_OPERAND0", "WIDE_OPERAND1">>[b + 1]]

SeqsOf(S, n) == UNION {[1 .. k -> S] : k \in 0 .. n}

MCCodes == SeqsOf(0 .. 7, 4)
           \union {<<6, 1>> \o s : s \in [1 .. 3 -> 0 .. 7]}
           \union {s \o <<1, 5>> : s \in [1 .. 4 -> {0, 1, 2, 3, 7}]}

Classes(supers, fields, methods) == [super : supers, fields : fields, methods : methods]

FieldTypes == {"Reference", "Long", "Short", "Byte"}
MCModules ==
    {<<a, b>> : a \in Classes({0}, SeqsOf(FieldTypes, 2), {<<>>}),
                b \in Classes(0 .. 1, SeqsOf(FieldTypes, 3), {<<>>})}
    \union {<<a, b, c>> : a \in Classes(0 .. 2, SeqsOf({"Reference", "Byte"}, 1), {<<>>}),
                          b \in Classes(0 .. 3, SeqsOf({"Reference", "Byte"}, 1), {<<>>}),
                          c \in Classes(0 .. 2, SeqsOf({"Reference", "Byte"}, 2), {<<>>})}
    \union {<<a, b, c>> : a \in Classes({0}, {<<>>}, {<<>>, <<"m">>, <<"m", "n">>, <<"n", "m">>,
                                                     <<"m", "m">>, <<"n", "m", "m">>}),
                          b \in Classes(0 .. 3, {<<>>}, {<<>>, <<"m">>, <<"n">>, <<"n", "m">>,
                                                        <<"m", "m">>}),
                          c \in Classes(0 .. 3, {<<>>}, {<<>>, <<"m">>, <<"n">>, <<"m", "n">>,
                                                        <<"m", "m">>})}

Arguments ==
    {KeyArg("scheduler.priority.levels", NoValue),
     KeyArg("scheduler.priority.levels", TextArg(20, "")),
     KeyArg("gc.disable-finalizers", NoValue), KeyArg("gc.disable-finalizers", TextArg(0, "")),
     KeyArg("memory.old-gen-max", TextArg(3, "g")), KeyArg("gc.pause-budget", NoValue),
     KeyArg("no.such-option", NoValue), Separator, Flag("-mp"), Flag("-h"),
     TextArg(5, "ns"), TextArg(-1, "true")}
MCCommandLines == SeqsOf(Arguments, 4)
=============================================================================
