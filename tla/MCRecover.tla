----------------------------- MODULE MCRecover -----------------------------
(***************************************************************************)
(* Instances of Recover for TLC: two RAM modules (1, 2), a processor (4)   *)
(* and a board (5); 3 is a RAM module whose hint is that of 1, and 6 a     *)
(* board whose hint is that of the processor.                              *)
(***************************************************************************)
EXTENDS Recover

MCIds     == 1..6
MCClassOf == [i \in MCIds |-> IF i <= 3 THEN "ram" ELSE
                              IF i = 4 THEN "cpu" ELSE "board"]
MCHintOf  == [i \in MCIds |-> CASE i = 3 -> 1 [] i = 6 -> 4 [] OTHER -> i]

MCMachines == {{1, 2, 4, 5}, {2, 3, 4}, {1, 3, 4}, {1, 2, 6}, {4, 6}, {5}}
TwoMachines == {{1, 2, 4, 5}, {2, 4, 5}}

MCThresholds == {1, 2, 3, 5}
AllFields == {"box", "idx", "class", "hint", "envelope", "k", "mix"}
Mixed     == {"mix"}
=============================================================================
