------------------------------ MODULE MCMotorMap ------------------------------
(***************************************************************************)
(* MotorMap on commands and deviations of one joint or motor at a time:    *)
(* the conversions are linear up to the offsets and the power is bilinear, *)
(* so that these decide all.  20 is a multiple of every divisor.  The      *)
(* gains of abad and hip are equal on two legs only.                       *)
(***************************************************************************)
EXTENDS MotorMap

MCOffset == [j \in Leg |-> 3 * j - 7]

MCKp == [j \in Joint |-> IF j \in Knee THEN 3 ELSE IF j \in Wheel THEN 1
                        ELSE IF j \in {4, 9} THEN 7 ELSE 2]

MCKd == [j \in Joint |-> IF j \in Knee THEN 2 ELSE IF j \in Wheel THEN 3
                        ELSE IF j \in {3, 10} THEN 6 ELSE 1]

MCCommands == {[j \in Joint |-> IF j = i THEN 3 ELSE 0] : i \in Joint}
                \cup {[j \in Joint |-> -1]}

MCErrors == {[s \in Slot |-> IF s = r THEN 20 ELSE 0] : r \in Used}
              \cup {[s \in Slot |-> 0]}
===============================================================================
