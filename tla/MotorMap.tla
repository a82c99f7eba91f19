------------------------------- MODULE MotorMap -------------------------------
(***************************************************************************)
(* What Deal_Usb_Out_Cmd does to a command and Deal_Usb_In_Data to the     *)
(* motors' answer: signs and offsets, the differential drive of abad and   *)
(* hip, the 2.5:1 transmission of the knees, and the four pairs of slots   *)
(* that are swapped because of the wiring; and what the simulator, which   *)
(* gets the command without all this, makes of it (Motor_Model).           *)
(*                                                                         *)
(* Joint 0..11 is joint 3 * leg + {0: abad, 1: hip, 2: knee}, joint 12..15 *)
(* the wheel of leg 0..3.  Numbers are integers, in units small enough for *)
(* the divisions by 2 and by 2.5: on the wire 1/2 of the unit of a joint's *)
(* position or velocity, 1/10 of that of a torque, 1/50 of that of a       *)
(* stiffness or damping.  The rounding of float arithmetic is not modelled. *)
(***************************************************************************)
EXTENDS Integers

CONSTANTS
  Offset,    \* leg_offset of joints 0..11, in joint units
  Kp, Kd,    \* stiffness and damping of each joint
  Commands,  \* the joint positions (velocities, torques) that are commanded
  Errors     \* deviations of the motors from their set-points, on the wire

Joint == 0..15
Leg   == 0..11
Wheel == 12..15
Slot  == (0..2) \X (0..5)

ASSUME ShapeAssumption ==
  /\ Offset \in [Leg -> Int]
  /\ Kp \in [Joint -> Nat] /\ Kd \in [Joint -> Nat]
  /\ Commands \subseteq [Joint -> Int] /\ Errors \subseteq [Slot -> Int]

(* The units are small enough for deviations, too, to be divided exactly.  *)
ASSUME UnitsAssumption == \A e \in Errors : \A s \in Slot : e[s] % 20 = 0

Abad == {0, 3, 6, 9}
Hip  == {1, 4, 7, 10}
Knee == {2, 5, 8, 11}

(* leg_side_sign without the transmission, then whl_side_sign.             *)
Side == [j \in Joint |-> IF j \in {1, 5, 6, 7, 9, 11, 12, 14} THEN -1 ELSE 1]

(* The slot of a joint: chip and motor (WriteToCommand, Update_Data).      *)
SlotOf(j) == IF j \in Leg THEN <<j \div 6, j % 6>>
             ELSE <<2, (j - 12) + (j - 12) \div 2>>

Used == {SlotOf(j) : j \in Joint}

JointAt(s) == CHOOSE j \in Joint : SlotOf(j) = s

(* Mistake: a slot paired with the wrong one.                              *)
PartnerWrong(s) ==
  CASE s = <<0, 0>> -> <<2, 0>>  []  s = <<2, 0>> -> <<0, 0>>
    [] s = <<0, 3>> -> <<2, 3>>  []  s = <<2, 1>> -> <<0, 3>>
    [] s = <<1, 0>> -> <<2, 3>>  []  s = <<2, 3>> -> <<1, 0>>
    [] s = <<1, 3>> -> <<2, 4>>  []  s = <<2, 4>> -> <<1, 3>>
    [] OTHER -> s

(* The swaps, the same in both directions.                                 *)
Partner(s) ==
  CASE s = <<0, 0>> -> <<2, 0>>  []  s = <<2, 0>> -> <<0, 0>>
    [] s = <<0, 3>> -> <<2, 1>>  []  s = <<2, 1>> -> <<0, 3>>
    [] s = <<1, 0>> -> <<2, 3>>  []  s = <<2, 3>> -> <<1, 0>>
    [] s = <<1, 3>> -> <<2, 4>>  []  s = <<2, 4>> -> <<1, 3>>
    [] OTHER -> s

(* The frame or packet with the wiring's swaps undone.                     *)
Swap(f) == [s \in Slot |-> f[Partner(s)]]

-----------------------------------------------------------------------------
(* The way out.                                                            *)

(* A joint quantity on the motor's side: divided by its sign.              *)
Motor(c, j) == IF j \in Knee THEN 5 * Side[j] * c[j] ELSE 2 * Side[j] * c[j]

Placed(c, j) == IF j \in Leg THEN Motor(c, j) + 2 * Offset[j] ELSE Motor(c, j)

(* Serial to differential: m is a quantity of every joint.                 *)
Differential(m) ==
  [j \in Joint |-> CASE j \in Abad -> m[j] + m[j + 1]
                     [] j \in Hip  -> -(m[j - 1] - m[j])
                     [] OTHER      -> m[j]]

Positions(c)  == Differential([j \in Joint |-> Placed(c, j)])
Velocities(c) == Differential([j \in Joint |-> Motor(c, j)])

(* Mistake: the transmission counts once in the gains.                     *)
GainOnce(g) == [j \in Joint |-> CASE j \in Abad \cup Hip -> 25 * g[j]
                                  [] j \in Knee          -> 20 * g[j]
                                  [] OTHER               -> 50 * g[j]]

(* kp and kd alike: half for the two motors of a differential, divided by   *)
(* 2.5^2 for a knee.                                                       *)
Gain(g) == [j \in Joint |-> CASE j \in Abad \cup Hip -> 25 * g[j]
                              [] j \in Knee          -> 8 * g[j]
                              [] OTHER               -> 50 * g[j]]

(* tau_ff: multiplied by the sign, averaged over the two motors of a        *)
(* differential.                                                           *)
Torques(c) ==
  LET m == [j \in Joint |-> (IF j \in Knee THEN 4 ELSE 10) * Side[j] * c[j]]
      d == Differential(m)
  IN  [j \in Joint |-> IF j \in Abad \cup Hip THEN d[j] \div 2 ELSE d[j]]

(* The frame: every used slot is written, the others keep what they had,   *)
(* then the swaps are done in place.                                       *)
Frame(c, old) ==
  Swap([s \in Slot |->
          IF s \in Used
          THEN LET j == JointAt(s)
               IN  [p |-> Positions(c)[j], v |-> Velocities(c)[j],
                    k |-> Gain(Kp)[j],      d |-> Gain(Kd)[j],
                    t |-> Torques(c)[j]]
          ELSE old[s]])

-----------------------------------------------------------------------------
(* The way back.                                                           *)

(* Differential to serial.                                                 *)
Serial(m, half) ==
  [j \in Joint |-> CASE j \in Abad -> (m[j] - m[j + 1]) \div half
                     [] j \in Hip  -> (m[j - 1] + m[j]) \div half
                     [] OTHER      -> m[j]]

(* A motor's quantity on the joint's side: multiplied by its sign.         *)
Jointly(x, j) == (x * Side[j]) \div (IF j \in Knee THEN 5 ELSE 2)

(* Mistake: the differential's torques are averaged like its positions.    *)
DecodeMeansTorque(raw) ==
  LET wire == Swap(raw)
      p == Serial([j \in Joint |-> wire[SlotOf(j)].p], 2)
      v == Serial([j \in Joint |-> wire[SlotOf(j)].v], 2)
      t == Serial([j \in Joint |-> wire[SlotOf(j)].t], 2)
  IN  [j \in Joint |->
        [q   |-> Jointly(p[j] - (IF j \in Leg THEN 2 * Offset[j] ELSE 0), j),
         qd  |-> Jointly(v[j], j),
         tau |-> (t[j] * Side[j]) \div (IF j \in Knee THEN 4 ELSE 10)]]

(* What reaches leg_data of a packet of the board.  Torques are not halved,*)
(* and divided by the sign.                                                *)
Decode(raw) ==
  LET wire == Swap(raw)
      p == Serial([j \in Joint |-> wire[SlotOf(j)].p], 2)
      v == Serial([j \in Joint |-> wire[SlotOf(j)].v], 2)
      t == Serial([j \in Joint |-> wire[SlotOf(j)].t], 1)
  IN  [j \in Joint |->
        [q   |-> Jointly(p[j] - (IF j \in Leg THEN 2 * Offset[j] ELSE 0), j),
         qd  |-> Jointly(v[j], j),
         tau |-> (t[j] * Side[j]) \div (IF j \in Knee THEN 4 ELSE 10)]]

-----------------------------------------------------------------------------
(* The simulator gets the command joint by joint and is its own motor       *)
(* (pack_motor_cmd); q and qd are its joints' positions and velocities.    *)
SimTorque(c, q, qd) ==
  [j \in Joint |-> Kp[j] * (c[j] - q[j]) + Kd[j] * (c[j] - qd[j]) + c[j]]

-----------------------------------------------------------------------------
VARIABLES
  want,   \* the joint positions commanded, also as velocities and as tau_ff
  frame,  \* usb_cmd_u
  error,  \* how far the motors are from their set-points
  slow,   \* are their velocities as well?
  raw,    \* usb_data_u
  got,    \* leg_data
  stage

vars == <<want, frame, error, slow, raw, got, stage>>

Init ==
  /\ want = [j \in Joint |-> 0] /\ got = [j \in Joint |-> [q |-> 0, qd |-> 0, tau |-> 0]]
  /\ frame = [s \in Slot |-> [p |-> 0, v |-> 0, k |-> 0, d |-> 0, t |-> 0]]
  /\ error = [s \in Slot |-> 0] /\ slow = FALSE
  /\ raw = [s \in Slot |-> [p |-> 0, v |-> 0, t |-> 0]]
  /\ stage = "ready"

(* A command is made into a frame, on top of the previous one.             *)
Send ==
  /\ stage = "ready"
  /\ want' \in Commands
  /\ frame' = Frame(want', frame)
  /\ stage' = "sent"
  /\ UNCHANGED <<error, slow, raw, got>>

(* Each motor, somewhere near its set-point, answers with its state and    *)
(* the torque of its own control: gain / 50 times the deviation in halves, *)
(* expressed in tenths, plus the feed-forward.                             *)
Answer ==
  /\ stage = "sent"
  /\ error' \in Errors /\ slow' \in BOOLEAN
  /\ LET lag == [s \in Slot |-> IF slow' THEN error'[s] ELSE 0]
     IN  raw' = [s \in Slot |->
           [p |-> frame[s].p - error'[s], v |-> frame[s].v - lag[s],
            t |-> (frame[s].k * error'[s] + frame[s].d * lag[s]) \div 10 + frame[s].t]]
  /\ stage' = "answered"
  /\ UNCHANGED <<want, frame, got>>

Receive ==
  /\ stage = "answered"
  /\ got' = Decode(raw)
  /\ stage' = "received"
  /\ UNCHANGED <<want, frame, error, slow, raw>>

Again == stage = "received" /\ stage' = "ready" /\ UNCHANGED <<want, frame, error, slow, raw, got>>

Next == Send \/ Answer \/ Receive \/ Again

Spec == Init /\ [][Next]_vars

-----------------------------------------------------------------------------
(* The two directions undo each other: motors that stand where they were   *)
(* sent are seen where they were wanted, whatever frame was sent before.   *)
CommandsReturn ==
  stage = "received" /\ (\A s \in Slot : error[s] = 0) =>
    \A j \in Joint : got[j].q = want[j] /\ got[j].qd = want[j]

(* What a real drive adds to a joint's own control, twice, x being how far *)
(* the joints are from their set-points.  The gains of abad and hip are    *)
(* those of the two motors, each of which moves both joints: with unequal  *)
(* ones a joint has the mean of both, and feels half their difference of   *)
(* the other joint's deviation.                                            *)
Coupling(g, x) ==
  [j \in Joint |->
     CASE j \in Abad ->
            (g[j] - g[j + 1]) * (Side[j] * Side[j + 1] * x[j + 1] - x[j])
       [] j \in Hip ->
            (g[j - 1] - g[j]) * (Side[j - 1] * Side[j] * x[j - 1] + x[j])
       [] OTHER -> 0]

(* The simulated joints feel the same torque as the real ones up to this   *)
(* coupling, which the simulator does not have: at knees, at wheels and in *)
(* drives with equal gains of abad and hip the motors' own control,        *)
(* decoded, is the simulator's.  USER_INTERFACE takes any gains for each   *)
(* joint.                                                                  *)
SimulatorAgrees ==
  stage = "received" =>
    LET away   == [j \in Joint |-> want[j] - got[j].q]
        behind == [j \in Joint |-> want[j] - got[j].qd]
        torque == SimTorque(want, [j \in Joint |-> got[j].q],
                            [j \in Joint |-> got[j].qd])
    IN  \A j \in Joint :
          2 * got[j].tau
            = 2 * torque[j] + Coupling(Kp, away)[j] + Coupling(Kd, behind)[j]

(* Power is preserved: the torques of each drive are converted by the      *)
(* transpose of what converts the velocities (20 is the product of the     *)
(* wire's units).                                                          *)
PowerIsPreserved ==
  stage = "received" =>
    LET wire == Swap(raw)
        sent(j) == wire[SlotOf(j)].t * wire[SlotOf(j)].v
        felt(j) == 20 * got[j].tau * got[j].qd
    IN  /\ \A j \in Abad : sent(j) + sent(j + 1) = felt(j) + felt(j + 1)
        /\ \A j \in Knee \cup Wheel : sent(j) = felt(j)
===============================================================================
