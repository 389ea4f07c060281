----------------------------- MODULE MCCallStacks -----------------------------
(***************************************************************************)
(* All call graphs over main, f and g, in which main may call f in two     *)
(* places.  Words have two bytes; the return addresses are such that       *)
(* stacks of the same depth collide in their hash, in the bytes compared,  *)
(* or in the bucket with another instruction.                              *)
(***************************************************************************)
EXTENDS CallStacks

CONSTANTS main, f, g

MCFunctions == {main, f, g}
MCSites     == (MCFunctions \X {f, g} \X {1}) \cup {<<main, f, 2>>}
MCCaller    == [s \in MCSites |-> s[1]]
MCCallee    == [s \in MCSites |-> s[2]]

Word(n) == [k \in {0, 1} |-> IF k = 0 THEN IF n % 2 = 1 THEN {1} ELSE {}
                             ELSE {b \in {1, 2} : (n \div (2 ^ b)) % 2 = 1}]

MCRet == [s \in MCSites |->
    CASE s = <<main, f, 1>> -> Word(1)
      [] s = <<main, f, 2>> -> Word(4)
      [] s = <<main, g, 1>> -> Word(7)
      [] s = <<f, f, 1>>    -> Word(6)
      [] s = <<f, g, 1>>    -> Word(3)
      [] s = <<g, f, 1>>    -> Word(2)
      [] s = <<g, g, 1>>    -> Word(5)]

MCEntered == [h \in MCFunctions |-> CASE h = main -> Word(0) [] h = f -> Word(4) [] OTHER -> Word(1)]

MCInstrs     == {Word(1), Word(2), Word(3)}
MCInFunction == [i \in MCInstrs |-> IF i = Word(2) THEN g ELSE f]
===============================================================================
