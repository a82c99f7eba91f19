---------------------------- MODULE MotorMapProofs ----------------------------
(***************************************************************************)
(* For every command, offset, gain and deviation of the motors: the        *)
(* conversions on the way to the motors and on the way back undo each      *)
(* other, and the controller's idea of the torques is the motors'.         *)
(***************************************************************************)
EXTENDS MotorMap, TLAPS

-----------------------------------------------------------------------------
(* How far the motor of a joint is from its set-point, and its velocity,   *)
(* in twenties.                                                            *)
Deviation(j) == error[Partner(SlotOf(j))]
Lag(j)       == IF slow THEN Deviation(j) ELSE 0

Off     == [j \in Joint |-> Deviation(j) \div 20]
OffPace == [j \in Joint |-> Lag(j) \div 20]

(* What that is at the joint.                                              *)
Strayed(x, j) ==
  CASE j \in Abad -> 5 * Side[j] * (x[j] - x[j + 1])
    [] j \in Hip  -> 5 * Side[j] * (x[j - 1] + x[j])
    [] j \in Knee -> 4 * Side[j] * x[j]
    [] OTHER      -> 10 * Side[j] * x[j]

Astray(x) == [j \in Joint |-> Strayed(x, j)]

(* What stands at a joint's slot once the swaps are undone.                *)
At(f, j) == Swap(f)[SlotOf(j)]

SetPoint(c, j) == [p |-> Positions(c)[j], v |-> Velocities(c)[j],
                   k |-> Gain(Kp)[j], d |-> Gain(Kd)[j], t |-> Torques(c)[j]]

(* The numbers are ones the divisions are exact for.                       *)
NumbersInv ==
  /\ want \in [Joint -> Int] /\ error \in [Slot -> Int] /\ slow \in BOOLEAN
  /\ \A s \in Slot : error[s] % 20 = 0

(* Which buffer has come from which, as far as the command has gone.       *)
SentInv ==
  stage \in {"sent", "answered", "received"} =>
    \A j \in Joint : At(frame, j) = SetPoint(want, j)

AnsweredInv ==
  stage \in {"answered", "received"} =>
    \A j \in Joint :
      LET w == SetPoint(want, j)
      IN  At(raw, j) = [p |-> w.p - Deviation(j), v |-> w.v - Lag(j),
                        t |-> (w.k * Deviation(j) + w.d * Lag(j)) \div 10 + w.t]

ReceivedInv == stage = "received" => got = Decode(raw)

IInv == NumbersInv /\ SentInv /\ AnsweredInv /\ ReceivedInv

(* The controller sees each joint where it is, and the torque of a motor   *)
(* control of its own and of the coupling.                                 *)
Decoded(j) ==
  /\ got[j].q = want[j] - Strayed(Off, j)
  /\ got[j].qd = want[j] - Strayed(OffPace, j)
  /\ 2 * got[j].tau
       = 2 * (Kp[j] * Strayed(Off, j) + Kd[j] * Strayed(OffPace, j) + want[j])
           + Coupling(Kp, Astray(Off))[j] + Coupling(Kd, Astray(OffPace))[j]

-----------------------------------------------------------------------------
(* Joints and slots.                                                       *)

(* Four kinds of joints; an abad and the hip after it share a drive.       *)
LEMMA KindsOf ==
  /\ Joint = Abad \cup Hip \cup Knee \cup Wheel
  /\ Leg = Abad \cup Hip \cup Knee
  /\ \A j \in Abad : j \notin Hip /\ j \notin Knee /\ j + 1 \in Hip
  /\ \A j \in Hip : j \notin Abad /\ j \notin Knee /\ j - 1 \in Abad /\ (j - 1) + 1 = j
  /\ \A j \in Knee : j \notin Abad /\ j \notin Hip
  /\ \A j \in Wheel : j \notin Abad /\ j \notin Hip /\ j \notin Knee /\ j \notin Leg
<1>1. Joint = Abad \cup Hip \cup Knee \cup Wheel
  BY DEF Joint, Abad, Hip, Knee, Wheel
<1>2. Leg = Abad \cup Hip \cup Knee
  BY DEF Leg, Abad, Hip, Knee
<1>3. \A j \in Abad : j \notin Hip /\ j \notin Knee /\ j + 1 \in Hip
  BY DEF Abad, Hip, Knee
<1>4. \A j \in Hip : j \notin Abad /\ j \notin Knee /\ j - 1 \in Abad /\ (j - 1) + 1 = j
  BY DEF Abad, Hip, Knee
<1>5. \A j \in Knee : j \notin Abad /\ j \notin Hip
  BY DEF Abad, Hip, Knee
<1>6. \A j \in Wheel : j \notin Abad /\ j \notin Hip /\ j \notin Knee /\ j \notin Leg
  BY DEF Abad, Hip, Knee, Wheel, Leg
<1> QED BY <1>1, <1>2, <1>3, <1>4, <1>5, <1>6

(* Signs are signs.                                                        *)
LEMMA SideOf == \A j \in Joint : Side[j] \in {-1, 1}
BY DEF Side

(* Every joint has a slot of its own.                                      *)
LEMMA SlotsDiffer ==
  /\ \A j \in Joint : SlotOf(j) \in Slot
  /\ \A i, j \in Joint : SlotOf(i) = SlotOf(j) => i = j
<1>1. \A j \in Joint : SlotOf(j) \in Slot
  <2>1. ASSUME NEW j \in Leg PROVE SlotOf(j) \in Slot
    <3>1. j \div 6 \in 0..2 /\ j % 6 \in 0..5
      BY DEF Leg
    <3> QED BY <3>1 DEF SlotOf, Slot
  <2>2. ASSUME NEW j \in Wheel PROVE SlotOf(j) \in Slot
    <3>1. (j - 12) + (j - 12) \div 2 \in 0..5
      BY DEF Wheel
    <3> QED BY <3>1, KindsOf DEF SlotOf, Slot
  <2> QED BY <2>1, <2>2, KindsOf
<1>2. ASSUME NEW i \in Joint, NEW j \in Joint, SlotOf(i) = SlotOf(j) PROVE i = j
  <2>1. CASE i \in Leg /\ j \in Leg
    <3>1. i \div 6 = j \div 6 /\ i % 6 = j % 6
      BY <1>2, <2>1 DEF SlotOf
    <3> QED BY <2>1, <3>1 DEF Leg
  <2>2. CASE i \notin Leg /\ j \notin Leg
    <3>1. (i - 12) + (i - 12) \div 2 = (j - 12) + (j - 12) \div 2
      BY <1>2, <2>2 DEF SlotOf
    <3> QED BY <2>2, <3>1 DEF Joint, Leg
  <2>3. CASE i \in Leg /\ j \notin Leg
    <3>1. i \div 6 = 2
      BY <1>2, <2>3 DEF SlotOf
    <3> QED BY <2>3, <3>1 DEF Leg
  <2>4. CASE i \notin Leg /\ j \in Leg
    <3>1. j \div 6 = 2
      BY <1>2, <2>4 DEF SlotOf
    <3> QED BY <2>4, <3>1 DEF Leg
  <2> QED BY <2>1, <2>2, <2>3, <2>4
<1> QED BY <1>1, <1>2

(* So that the joint of a slot can be told.                                *)
LEMMA JointOfSlot == \A j \in Joint : SlotOf(j) \in Used /\ JointAt(SlotOf(j)) = j
<1> SUFFICES ASSUME NEW j \in Joint PROVE JointAt(SlotOf(j)) = j
  BY DEF Used
<1> QED BY SlotsDiffer DEF JointAt

(* The swaps are of pairs: done twice they are undone.                     *)
LEMMA PartnersPair ==
  \A s \in Slot : Partner(s) \in Slot /\ Partner(Partner(s)) = s
<1> SUFFICES ASSUME NEW s \in Slot
             PROVE  Partner(s) \in Slot /\ Partner(Partner(s)) = s
  OBVIOUS
<1> DEFINE swapped == {<<0, 0>>, <<2, 0>>, <<0, 3>>, <<2, 1>>,
                       <<1, 0>>, <<2, 3>>, <<1, 3>>, <<2, 4>>}
<1>1. swapped \subseteq Slot
  BY DEF Slot
<1>2. CASE s \in swapped
  <2>1. /\ Partner(<<0, 0>>) = <<2, 0>> /\ Partner(<<2, 0>>) = <<0, 0>>
        /\ Partner(<<0, 3>>) = <<2, 1>> /\ Partner(<<2, 1>>) = <<0, 3>>
        /\ Partner(<<1, 0>>) = <<2, 3>> /\ Partner(<<2, 3>>) = <<1, 0>>
        /\ Partner(<<1, 3>>) = <<2, 4>> /\ Partner(<<2, 4>>) = <<1, 3>>
    BY DEF Partner
  <2> QED BY <1>1, <1>2, <2>1
<1>3. CASE s \notin swapped
  <2>1. Partner(s) = s
    BY <1>3 DEF Partner
  <2> QED BY <2>1
<1> QED BY <1>2, <1>3

(* A slot of a frame with the swaps undone is its partner's.               *)
LEMMA SwapsUndo ==
  \A f : \A s \in Slot : Swap(f)[Partner(s)] = f[s] /\ Swap(f)[s] = f[Partner(s)]
BY PartnersPair DEF Swap

-----------------------------------------------------------------------------
(* The two motors of a drive, in numbers: signs sa and sh, joint quantities *)
(* ca and ch, offsets oa and oh of abad and hip.  Deviations xa and xh of  *)
(* the motors are one of the joints.                                       *)

(* The motors of a drive are xa and xh from the positions p and r they are *)
(* sent to.                                                                *)
StandAt(p, r, sa, sh, ca, ch, oa, oh, xa, xh) ==
  /\ p = ((2 * sa * ca + 2 * oa) + (2 * sh * ch + 2 * oh)) - 20 * xa
  /\ r = (-((2 * sa * ca + 2 * oa) - (2 * sh * ch + 2 * oh))) - 20 * xh

(* The same of the velocities v and w.                                     *)
MoveAt(v, w, sa, sh, ca, ch, ya, yh) ==
  /\ v = (2 * sa * ca + 2 * sh * ch) - 20 * ya
  /\ w = (-(2 * sa * ca - 2 * sh * ch)) - 20 * yh

(* Positions, there and back.                                              *)
LEMMA DrivePositions ==
  ASSUME NEW sa \in {-1, 1}, NEW sh \in {-1, 1}, NEW ca \in Int, NEW ch \in Int,
         NEW oa \in Int, NEW oh \in Int, NEW xa \in Int, NEW xh \in Int,
         NEW p, NEW r, StandAt(p, r, sa, sh, ca, ch, oa, oh, xa, xh)
  PROVE  /\ ((((p - r) \div 2) - 2 * oa) * sa) \div 2 = ca - 5 * sa * (xa - xh)
         /\ ((((p + r) \div 2) - 2 * oh) * sh) \div 2 = ch - 5 * sh * (xa + xh)
<1>1. CASE sa = 1 /\ sh = 1
  BY <1>1 DEF StandAt
<1>2. CASE sa = 1 /\ sh = -1
  BY <1>2 DEF StandAt
<1>3. CASE sa = -1 /\ sh = 1
  BY <1>3 DEF StandAt
<1>4. CASE sa = -1 /\ sh = -1
  BY <1>4 DEF StandAt
<1> QED BY <1>1, <1>2, <1>3, <1>4

(* Velocities, there and back.                                             *)
LEMMA DriveVelocities ==
  ASSUME NEW sa \in {-1, 1}, NEW sh \in {-1, 1}, NEW ca \in Int, NEW ch \in Int,
         NEW ya \in Int, NEW yh \in Int,
         NEW v, NEW w, MoveAt(v, w, sa, sh, ca, ch, ya, yh)
  PROVE  /\ (((v - w) \div 2) * sa) \div 2 = ca - 5 * sa * (ya - yh)
         /\ (((v + w) \div 2) * sh) \div 2 = ch - 5 * sh * (ya + yh)
         /\ v = 2 * (sa * (ca - 5 * sa * (ya - yh)) + sh * (ch - 5 * sh * (ya + yh)))
         /\ w = 2 * (sh * (ch - 5 * sh * (ya + yh)) - sa * (ca - 5 * sa * (ya - yh)))
<1>1. CASE sa = 1 /\ sh = 1
  BY <1>1 DEF MoveAt
<1>2. CASE sa = 1 /\ sh = -1
  BY <1>2 DEF MoveAt
<1>3. CASE sa = -1 /\ sh = 1
  BY <1>3 DEF MoveAt
<1>4. CASE sa = -1 /\ sh = -1
  BY <1>4 DEF MoveAt
<1> QED BY <1>1, <1>2, <1>3, <1>4

(* The motors' torques ta and th, of which their own control is 50 ua and   *)
(* 50 uh.                                                                  *)
PullAt(ta, th, sa, sh, ca, ch, ua, uh) ==
  /\ ta = (500 * ua) \div 10 + (10 * sa * ca + 10 * sh * ch) \div 2
  /\ th = (500 * uh) \div 10 + (-(10 * sa * ca - 10 * sh * ch)) \div 2

(* Torques: what the motors' own control adds comes back as 5 u of both.   *)
LEMMA DriveTorques ==
  ASSUME NEW sa \in {-1, 1}, NEW sh \in {-1, 1}, NEW ca \in Int, NEW ch \in Int,
         NEW ua \in Int, NEW uh \in Int,
         NEW ta, NEW th, PullAt(ta, th, sa, sh, ca, ch, ua, uh)
  PROVE  /\ (((ta - th) \div 1) * sa) \div 10 = 5 * sa * (ua - uh) + ca
         /\ (((ta + th) \div 1) * sh) \div 10 = 5 * sh * (ua + uh) + ch
         /\ ta = 5 * (sa * (5 * sa * (ua - uh) + ca) + sh * (5 * sh * (ua + uh) + ch))
         /\ th = 5 * (sh * (5 * sh * (ua + uh) + ch) - sa * (5 * sa * (ua - uh) + ca))
<1>1. CASE sa = 1 /\ sh = 1
  BY <1>1 DEF PullAt
<1>2. CASE sa = 1 /\ sh = -1
  BY <1>2 DEF PullAt
<1>3. CASE sa = -1 /\ sh = 1
  BY <1>3 DEF PullAt
<1>4. CASE sa = -1 /\ sh = -1
  BY <1>4 DEF PullAt
<1> QED BY <1>1, <1>2, <1>3, <1>4

(* The joints are da and dh from where they were sent.                     *)
AwayAt(da, dh, sa, sh, xa, xh) ==
  /\ da = 5 * sa * (xa - xh)
  /\ dh = 5 * sh * (xa + xh)

(* The gains ka and kh of the two motors come to a gain and a coupling of   *)
(* the joints.                                                             *)
GainsAt(ka, kh, da, dh, sa, sh, xa, xh) ==
  /\ 2 * (5 * sa * (ka * xa - kh * xh))
       = 2 * (ka * da) + (ka - kh) * (sa * sh * dh - da)
  /\ 2 * (5 * sh * (ka * xa + kh * xh))
       = 2 * (kh * dh) + (ka - kh) * (sa * sh * da + dh)

(* Whatever the gains are.                                                 *)
LEMMA DriveGains ==
  ASSUME NEW sa \in {-1, 1}, NEW sh \in {-1, 1}, NEW ka \in Int, NEW kh \in Int,
         NEW xa \in Int, NEW xh \in Int,
         NEW da, NEW dh, AwayAt(da, dh, sa, sh, xa, xh)
  PROVE  GainsAt(ka, kh, da, dh, sa, sh, xa, xh)
<1>1. CASE sa = 1 /\ sh = 1
  BY <1>1 DEF AwayAt, GainsAt
<1>2. CASE sa = 1 /\ sh = -1
  BY <1>2 DEF AwayAt, GainsAt
<1>3. CASE sa = -1 /\ sh = 1
  BY <1>3 DEF AwayAt, GainsAt
<1>4. CASE sa = -1 /\ sh = -1
  BY <1>4 DEF AwayAt, GainsAt
<1> QED BY <1>1, <1>2, <1>3, <1>4

(* A drive neither makes nor loses power.                                  *)
LEMMA DrivePower ==
  ASSUME NEW sa \in {-1, 1}, NEW sh \in {-1, 1},
         NEW fa \in Int, NEW fh \in Int, NEW ga \in Int, NEW gh \in Int,
         NEW ta, ta = 5 * (sa * fa + sh * fh), NEW th, th = 5 * (sh * fh - sa * fa),
         NEW va, va = 2 * (sa * ga + sh * gh), NEW vh, vh = 2 * (sh * gh - sa * ga)
  PROVE  ta * va + th * vh = 20 * fa * ga + 20 * fh * gh
<1>1. CASE sa = 1 /\ sh = 1
  BY <1>1
<1>2. CASE sa = 1 /\ sh = -1
  BY <1>2
<1>3. CASE sa = -1 /\ sh = 1
  BY <1>3
<1>4. CASE sa = -1 /\ sh = -1
  BY <1>4
<1> QED BY <1>1, <1>2, <1>3, <1>4

(* A knee with its transmission, x and y from where it was sent to, its     *)
(* control adding 16 u to the torque.                                      *)
KneeAt(p, v, t, s, c, o, x, y, u) ==
  /\ p = (5 * s * c + 2 * o) - 20 * x
  /\ v = 5 * s * c - 20 * y
  /\ t = (160 * u) \div 10 + 4 * s * c

(* A knee, there and back.                                                 *)
LEMMA KneeConverts ==
  ASSUME NEW s \in {-1, 1}, NEW c \in Int, NEW o \in Int,
         NEW x \in Int, NEW y \in Int, NEW u \in Int,
         NEW p, NEW v, NEW t, KneeAt(p, v, t, s, c, o, x, y, u)
  PROVE  /\ ((p - 2 * o) * s) \div 5 = c - 4 * s * x
         /\ (v * s) \div 5 = c - 4 * s * y /\ v = 5 * s * (c - 4 * s * y)
         /\ (t * s) \div 4 = 4 * s * u + c /\ t = 4 * s * (4 * s * u + c)
<1>1. CASE s = 1
  BY <1>1 DEF KneeAt
<1>2. CASE s = -1
  BY <1>2 DEF KneeAt
<1> QED BY <1>1, <1>2

(* A wheel, which is driven directly.                                      *)
WheelAt(p, v, t, s, c, x, y, u) ==
  /\ p = 2 * s * c - 20 * x
  /\ v = 2 * s * c - 20 * y
  /\ t = (1000 * u) \div 10 + 10 * s * c

(* A wheel, there and back.                                                *)
LEMMA WheelConverts ==
  ASSUME NEW s \in {-1, 1}, NEW c \in Int, NEW x \in Int, NEW y \in Int, NEW u \in Int,
         NEW p, NEW v, NEW t, WheelAt(p, v, t, s, c, x, y, u)
  PROVE  /\ (p * s) \div 2 = c - 10 * s * x
         /\ (v * s) \div 2 = c - 10 * s * y /\ v = 2 * s * (c - 10 * s * y)
         /\ (t * s) \div 10 = 10 * s * u + c /\ t = 10 * s * (10 * s * u + c)
<1>1. CASE s = 1
  BY <1>1 DEF WheelAt
<1>2. CASE s = -1
  BY <1>2 DEF WheelAt
<1> QED BY <1>1, <1>2

-----------------------------------------------------------------------------
(* The invariant.                                                          *)

(* Before the first command there is nothing to say.                       *)
LEMMA Initially == Init => IInv
<1> SUFFICES ASSUME Init PROVE IInv
  OBVIOUS
<1>1. 0 % 20 = 0
  OBVIOUS
<1>2. NumbersInv
  <2>1. want = [j \in Joint |-> 0] /\ error = [r \in Slot |-> 0] /\ slow = FALSE
    BY DEF Init
  <2>2. want \in [Joint -> Int] /\ error \in [Slot -> Int]
    BY <2>1
  <2>3. \A r \in Slot : error[r] % 20 = 0
    BY <1>1, <2>1
  <2> QED BY <2>1, <2>2, <2>3 DEF NumbersInv
<1> QED BY <1>2 DEF Init, IInv, SentInv, AnsweredInv, ReceivedInv

(* A frame holds the set-points, whatever was in it before.                *)
LEMMA FrameHolds ==
  ASSUME NEW c, NEW old, NEW j \in Joint
  PROVE  At(Frame(c, old), j) = SetPoint(c, j)
<1> DEFINE s == SlotOf(j)
           placed == [r \in Slot |->
                        IF r \in Used
                        THEN LET i == JointAt(r)
                             IN  [p |-> Positions(c)[i], v |-> Velocities(c)[i],
                                  k |-> Gain(Kp)[i],     d |-> Gain(Kd)[i],
                                  t |-> Torques(c)[i]]
                        ELSE old[r]]
<1>1. s \in Slot /\ s \in Used /\ JointAt(s) = j
  BY SlotsDiffer, JointOfSlot
<1>2. placed[s] = SetPoint(c, j)
  BY <1>1 DEF SetPoint
<1>3. Frame(c, old) = Swap(placed)
  BY DEF Frame
<1> HIDE DEF placed, s
<1>4. Swap(Swap(placed))[s] = placed[s]
  <2>1. Partner(s) \in Slot /\ Partner(Partner(s)) = s
    BY <1>1, PartnersPair
  <2>2. Swap(Swap(placed))[s] = Swap(placed)[Partner(s)]
    BY <1>1 DEF Swap
  <2>3. Swap(placed)[Partner(s)] = placed[Partner(Partner(s))]
    BY <2>1 DEF Swap
  <2> QED BY <2>1, <2>2, <2>3
<1> QED BY <1>2, <1>3, <1>4 DEF At, s

(* A motor answers at the slot it was addressed at.                        *)
LEMMA AnswerHolds ==
  ASSUME SentInv, Answer, NEW j \in Joint
  PROVE  LET w == SetPoint(want, j)
         IN  At(raw, j)' = [p |-> w.p - Deviation(j)', v |-> w.v - Lag(j)',
                            t |-> (w.k * Deviation(j)' + w.d * Lag(j)') \div 10 + w.t]
<1> DEFINE r == Partner(SlotOf(j))
<1>1. r \in Slot /\ SlotOf(j) \in Slot
  BY SlotsDiffer, PartnersPair
<1>2. At(raw, j)' = raw'[r] /\ At(frame, j) = frame[r]
  BY <1>1 DEF At, Swap
<1>3. frame[r] = SetPoint(want, j)
  BY <1>2 DEF SentInv, Answer
<1>4. Deviation(j)' = error'[r] /\ Lag(j)' = IF slow' THEN error'[r] ELSE 0
  BY DEF Deviation, Lag
<1> HIDE DEF r
<1>5. raw'[r] = [p |-> frame[r].p - error'[r], v |-> frame[r].v - Lag(j)',
                 t |-> (frame[r].k * error'[r] + frame[r].d * Lag(j)') \div 10
                         + frame[r].t]
  BY <1>1, <1>4 DEF Answer
<1> QED BY <1>2, <1>3, <1>4, <1>5

(* Each buffer stays what it was made from.                                *)
LEMMA Inductive == Spec => []IInv
<1>1. IInv /\ [Next]_vars => IInv'
  <2> SUFFICES ASSUME IInv, [Next]_vars PROVE IInv'
    OBVIOUS
  <2>1. CASE Send
    <3>1. NumbersInv'
      BY <2>1, ShapeAssumption DEF Send, IInv, NumbersInv
    <3>2. \A j \in Joint : At(frame', j) = SetPoint(want', j)
      BY <2>1, FrameHolds DEF Send
    <3>3. SentInv'
      BY <3>2 DEF SentInv, At, SetPoint, Swap, Positions, Velocities, Torques, Gain
    <3> QED BY <2>1, <3>1, <3>3 DEF Send, IInv, AnsweredInv, ReceivedInv
  <2>2. CASE Answer
    <3>1. NumbersInv'
      BY <2>2, ShapeAssumption, UnitsAssumption DEF Answer, IInv, NumbersInv
    <3>2. UNCHANGED <<want, frame>> /\ stage = "sent" /\ stage' = "answered"
      BY <2>2 DEF Answer
    <3>3. SentInv'
      BY <3>2 DEF IInv, SentInv, At, SetPoint
    <3>4. AnsweredInv'
      BY <2>2, <3>2, AnswerHolds DEF IInv, AnsweredInv
    <3> QED BY <3>1, <3>2, <3>3, <3>4 DEF IInv, ReceivedInv
  <2>3. CASE Receive
    BY <2>3 DEF Receive, IInv, NumbersInv, SentInv, AnsweredInv, ReceivedInv,
       Deviation, Lag, At, SetPoint
  <2>4. CASE Again
    BY <2>4 DEF Again, IInv, NumbersInv, SentInv, AnsweredInv, ReceivedInv
  <2>5. CASE UNCHANGED vars
    BY <2>5 DEF vars, IInv, NumbersInv, SentInv, AnsweredInv, ReceivedInv,
       Deviation, Lag, At, SetPoint
  <2> QED BY <2>1, <2>2, <2>3, <2>4, <2>5 DEF Next
<1> QED BY <1>1, Initially, PTL DEF Spec

-----------------------------------------------------------------------------
(* What has come back.                                                     *)

(* The numbers, of every joint.                                            *)
LEMMA NumbersOf ==
  ASSUME NumbersInv, NEW j \in Joint
  PROVE  /\ want[j] \in Int /\ Side[j] \in {-1, 1} /\ Kp[j] \in Nat /\ Kd[j] \in Nat
         /\ Off[j] \in Int /\ Deviation(j) = 20 * Off[j]
         /\ OffPace[j] \in Int /\ Lag(j) = 20 * OffPace[j]
         /\ (Deviation(j) = 0 => Off[j] = 0 /\ OffPace[j] = 0)
<1>1. want[j] \in Int /\ Side[j] \in {-1, 1} /\ Kp[j] \in Nat /\ Kd[j] \in Nat
  BY SideOf, ShapeAssumption DEF NumbersInv
<1>2. Deviation(j) \in Int /\ Deviation(j) % 20 = 0
  BY SlotsDiffer, PartnersPair DEF NumbersInv, Deviation
<1>3. Lag(j) \in Int /\ Lag(j) % 20 = 0 /\ (Deviation(j) = 0 => Lag(j) = 0)
  BY <1>2 DEF Lag
<1>4. \A n \in Int : n % 20 = 0 => n \div 20 \in Int /\ n = 20 * (n \div 20)
  OBVIOUS
<1>5. 0 \div 20 = 0
  OBVIOUS
<1> QED BY <1>1, <1>2, <1>3, <1>4, <1>5 DEF Off, OffPace

(* A quantity of every joint, as the motors of a drive get it.             *)
LEMMA DifferentialOf ==
  ASSUME NEW m, NEW j \in Abad
  PROVE  /\ Differential(m)[j] = m[j] + m[j + 1]
         /\ Differential(m)[j + 1] = -(m[j] - m[j + 1])
<1>1. /\ j \in Joint /\ j \notin Hip /\ j \in Int
      /\ j + 1 \in Joint /\ j + 1 \in Hip /\ j + 1 \notin Abad /\ (j + 1) - 1 = j
  BY KindsOf DEF Abad
<1> DEFINE h == j + 1
<1>2. Differential(m)[j] = m[j] + m[j + 1]
  BY <1>1 DEF Differential
<1> HIDE DEF h
<1>3. h \in Joint /\ h \in Hip /\ h \notin Abad /\ h - 1 = j /\ h = j + 1
  BY <1>1 DEF h
<1>4. Differential(m)[h] = -(m[h - 1] - m[h])
  BY <1>3 DEF Differential
<1> QED BY <1>2, <1>3, <1>4

(* The same way back.                                                      *)
LEMMA SerialOf ==
  ASSUME NEW m, NEW half, NEW j \in Abad
  PROVE  /\ Serial(m, half)[j] = (m[j] - m[j + 1]) \div half
         /\ Serial(m, half)[j + 1] = (m[j] + m[j + 1]) \div half
<1>1. /\ j \in Joint /\ j \notin Hip /\ j \in Int
      /\ j + 1 \in Joint /\ j + 1 \in Hip /\ j + 1 \notin Abad /\ (j + 1) - 1 = j
  BY KindsOf DEF Abad
<1> DEFINE h == j + 1
<1>2. Serial(m, half)[j] = (m[j] - m[j + 1]) \div half
  BY <1>1 DEF Serial
<1> HIDE DEF h
<1>3. h \in Joint /\ h \in Hip /\ h \notin Abad /\ h - 1 = j /\ h = j + 1
  BY <1>1 DEF h
<1>4. Serial(m, half)[h] = (m[h - 1] + m[h]) \div half
  BY <1>3 DEF Serial
<1> QED BY <1>2, <1>3, <1>4

(* What a drive is sent.                                                   *)
LEMMA DriveSetPoint ==
  ASSUME NEW c \in [Joint -> Int], NEW j \in Abad
  PROVE  LET h == j + 1
             a == SetPoint(c, j)
             b == SetPoint(c, h)
             ma == 2 * Side[j] * c[j]
             mh == 2 * Side[h] * c[h]
             ta == 10 * Side[j] * c[j]
             th == 10 * Side[h] * c[h]
         IN  /\ a.p = (ma + 2 * Offset[j]) + (mh + 2 * Offset[h])
             /\ b.p = -((ma + 2 * Offset[j]) - (mh + 2 * Offset[h]))
             /\ a.v = ma + mh /\ b.v = -(ma - mh)
             /\ a.t = (ta + th) \div 2 /\ b.t = (-(ta - th)) \div 2
             /\ a.k = 25 * Kp[j] /\ b.k = 25 * Kp[h]
             /\ a.d = 25 * Kd[j] /\ b.d = 25 * Kd[h]
<1> DEFINE h == j + 1
           pm == [i \in Joint |-> Placed(c, i)]
           vm == [i \in Joint |-> Motor(c, i)]
           tm == [i \in Joint |-> (IF i \in Knee THEN 4 ELSE 10) * Side[i] * c[i]]
<1>1. /\ j \in Joint /\ h \in Joint /\ j \in Leg /\ h \in Leg /\ h \in Hip
      /\ j \notin Knee /\ h \notin Knee /\ h \notin Abad
  BY KindsOf
<1>3. Positions(c)[j] = pm[j] + pm[h] /\ Positions(c)[h] = -(pm[j] - pm[h])
  BY DifferentialOf DEF Positions
<1>4. Velocities(c)[j] = vm[j] + vm[h] /\ Velocities(c)[h] = -(vm[j] - vm[h])
  BY DifferentialOf DEF Velocities
<1>5. /\ Torques(c)[j] = (tm[j] + tm[h]) \div 2
      /\ Torques(c)[h] = (-(tm[j] - tm[h])) \div 2
  <2>1. /\ Differential(tm)[j] = tm[j] + tm[h]
        /\ Differential(tm)[h] = -(tm[j] - tm[h])
    BY DifferentialOf
  <2>2. /\ Torques(c)[j] = Differential(tm)[j] \div 2
        /\ Torques(c)[h] = Differential(tm)[h] \div 2
    BY <1>1 DEF Torques
  <2> QED BY <2>1, <2>2
<1>6. /\ pm[j] = 2 * Side[j] * c[j] + 2 * Offset[j]
      /\ pm[h] = 2 * Side[h] * c[h] + 2 * Offset[h]
      /\ vm[j] = 2 * Side[j] * c[j] /\ vm[h] = 2 * Side[h] * c[h]
      /\ tm[j] = 10 * Side[j] * c[j] /\ tm[h] = 10 * Side[h] * c[h]
  BY <1>1 DEF Placed, Motor
<1>7. /\ Gain(Kp)[j] = 25 * Kp[j] /\ Gain(Kp)[h] = 25 * Kp[h]
      /\ Gain(Kd)[j] = 25 * Kd[j] /\ Gain(Kd)[h] = 25 * Kd[h]
  BY <1>1 DEF Gain
<1> HIDE DEF pm, vm, tm
<1> QED BY <1>3, <1>4, <1>5, <1>6, <1>7 DEF SetPoint

(* What becomes of the answer of a drive.                                  *)
LEMMA DriveDecode ==
  ASSUME NEW f, NEW j \in Abad
  PROVE  LET h == j + 1
             a == At(f, j)
             b == At(f, h)
             x == Decode(f)[j]
             y == Decode(f)[h]
         IN  /\ x.q = ((((a.p - b.p) \div 2) - 2 * Offset[j]) * Side[j]) \div 2
             /\ y.q = ((((a.p + b.p) \div 2) - 2 * Offset[h]) * Side[h]) \div 2
             /\ x.qd = (((a.v - b.v) \div 2) * Side[j]) \div 2
             /\ y.qd = (((a.v + b.v) \div 2) * Side[h]) \div 2
             /\ x.tau = (((a.t - b.t) \div 1) * Side[j]) \div 10
             /\ y.tau = (((a.t + b.t) \div 1) * Side[h]) \div 10
<1> DEFINE h == j + 1
           wire == Swap(f)
           pm == [i \in Joint |-> wire[SlotOf(i)].p]
           vm == [i \in Joint |-> wire[SlotOf(i)].v]
           tm == [i \in Joint |-> wire[SlotOf(i)].t]
           p == Serial(pm, 2)
           v == Serial(vm, 2)
           t == Serial(tm, 1)
<1>1. /\ j \in Joint /\ h \in Joint /\ j \in Leg /\ h \in Leg
      /\ j \notin Knee /\ h \notin Knee
  BY KindsOf
<1>2. \A i \in {j, h} :
        /\ Decode(f)[i].q = ((p[i] - 2 * Offset[i]) * Side[i]) \div 2
        /\ Decode(f)[i].qd = (v[i] * Side[i]) \div 2
        /\ Decode(f)[i].tau = (t[i] * Side[i]) \div 10
  BY <1>1 DEF Decode, Jointly
<1>3. /\ p[j] = (pm[j] - pm[h]) \div 2 /\ p[h] = (pm[j] + pm[h]) \div 2
      /\ v[j] = (vm[j] - vm[h]) \div 2 /\ v[h] = (vm[j] + vm[h]) \div 2
      /\ t[j] = (tm[j] - tm[h]) \div 1 /\ t[h] = (tm[j] + tm[h]) \div 1
  BY SerialOf
<1>4. /\ pm[j] = At(f, j).p /\ pm[h] = At(f, h).p
      /\ vm[j] = At(f, j).v /\ vm[h] = At(f, h).v
      /\ tm[j] = At(f, j).t /\ tm[h] = At(f, h).t
  BY <1>1 DEF At
<1> HIDE DEF p, v, t, pm, vm, tm
<1> QED BY <1>2, <1>3, <1>4

(* What is sent, how it is answered and what is made of it, put together:  *)
(* a drive.                                                                *)
LEMMA DriveDecoded ==
  ASSUME IInv, stage = "received", NEW j \in Abad
  PROVE  /\ Decoded(j) /\ Decoded(j + 1)
         /\ At(raw, j).t * At(raw, j).v + At(raw, j + 1).t * At(raw, j + 1).v
              = 20 * got[j].tau * got[j].qd + 20 * got[j + 1].tau * got[j + 1].qd
<1> DEFINE h == j + 1
           a == SetPoint(want, j)
           b == SetPoint(want, h)
           ua == Kp[j] * Off[j] + Kd[j] * OffPace[j]
           uh == Kp[h] * Off[h] + Kd[h] * OffPace[h]
<1>1. /\ j \in Joint /\ h \in Joint /\ j \in Leg /\ h \in Leg
      /\ j \in Abad /\ j \notin Hip /\ h \in Hip /\ h \notin Abad /\ h - 1 = j
      /\ j \notin Knee /\ h \notin Knee
  BY KindsOf DEF Abad
<1>2. NumbersInv /\ got = Decode(raw) /\ want \in [Joint -> Int]
  BY DEF IInv, ReceivedInv, NumbersInv
<1>3. /\ want[j] \in Int /\ Side[j] \in {-1, 1} /\ Kp[j] \in Nat /\ Kd[j] \in Nat
      /\ Off[j] \in Int /\ Deviation(j) = 20 * Off[j]
      /\ OffPace[j] \in Int /\ Lag(j) = 20 * OffPace[j] /\ Offset[j] \in Int
  BY <1>1, <1>2, NumbersOf, ShapeAssumption
<1>4. /\ want[h] \in Int /\ Side[h] \in {-1, 1}
      /\ Off[h] \in Int /\ Deviation(h) = 20 * Off[h]
      /\ OffPace[h] \in Int /\ Lag(h) = 20 * OffPace[h] /\ Offset[h] \in Int
      /\ Kp[h] \in Nat /\ Kd[h] \in Nat
  BY <1>1, <1>2, NumbersOf, ShapeAssumption
<1>5. /\ At(raw, j).p = a.p - Deviation(j) /\ At(raw, h).p = b.p - Deviation(h)
      /\ At(raw, j).v = a.v - Lag(j) /\ At(raw, h).v = b.v - Lag(h)
      /\ At(raw, j).t = (a.k * Deviation(j) + a.d * Lag(j)) \div 10 + a.t
      /\ At(raw, h).t = (b.k * Deviation(h) + b.d * Lag(h)) \div 10 + b.t
  BY <1>1 DEF IInv, AnsweredInv
<1> HIDE DEF h
<1>6. /\ a.p = (2 * Side[j] * want[j] + 2 * Offset[j])
                + (2 * Side[h] * want[h] + 2 * Offset[h])
      /\ b.p = -((2 * Side[j] * want[j] + 2 * Offset[j])
                  - (2 * Side[h] * want[h] + 2 * Offset[h]))
      /\ a.v = 2 * Side[j] * want[j] + 2 * Side[h] * want[h]
      /\ b.v = -(2 * Side[j] * want[j] - 2 * Side[h] * want[h])
      /\ a.t = (10 * Side[j] * want[j] + 10 * Side[h] * want[h]) \div 2
      /\ b.t = (-(10 * Side[j] * want[j] - 10 * Side[h] * want[h])) \div 2
      /\ a.k = 25 * Kp[j] /\ b.k = 25 * Kp[h] /\ a.d = 25 * Kd[j] /\ b.d = 25 * Kd[h]
  BY <1>2, DriveSetPoint DEF h
<1> HIDE DEF a, b
<1>7. /\ a.k * Deviation(j) + a.d * Lag(j) = 500 * ua
      /\ b.k * Deviation(h) + b.d * Lag(h) = 500 * uh
      /\ ua \in Int /\ uh \in Int
  BY <1>3, <1>4, <1>6
<1> HIDE DEF ua, uh
<1> DEFINE fa == 5 * Side[j] * (ua - uh) + want[j]
           fh == 5 * Side[h] * (ua + uh) + want[h]
           ga == want[j] - 5 * Side[j] * (OffPace[j] - OffPace[h])
           gh == want[h] - 5 * Side[h] * (OffPace[j] + OffPace[h])
<1>8. /\ got[j].q = want[j] - 5 * Side[j] * (Off[j] - Off[h])
      /\ got[h].q = want[h] - 5 * Side[h] * (Off[j] + Off[h])
  <2>1. /\ got[j].q = ((((At(raw, j).p - At(raw, h).p) \div 2) - 2 * Offset[j])
                         * Side[j]) \div 2
        /\ got[h].q = ((((At(raw, j).p + At(raw, h).p) \div 2) - 2 * Offset[h])
                         * Side[h]) \div 2
    BY <1>2, DriveDecode DEF h
  <2>2. StandAt(At(raw, j).p, At(raw, h).p, Side[j], Side[h], want[j], want[h],
                Offset[j], Offset[h], Off[j], Off[h])
    BY <1>3, <1>4, <1>5, <1>6 DEF StandAt
  <2> QED BY <1>3, <1>4, <2>1, <2>2, DrivePositions
<1>9. /\ got[j].qd = ga /\ got[h].qd = gh
      /\ At(raw, j).v = 2 * (Side[j] * ga + Side[h] * gh)
      /\ At(raw, h).v = 2 * (Side[h] * gh - Side[j] * ga)
  <2>1. /\ got[j].qd = (((At(raw, j).v - At(raw, h).v) \div 2) * Side[j]) \div 2
        /\ got[h].qd = (((At(raw, j).v + At(raw, h).v) \div 2) * Side[h]) \div 2
    BY <1>2, DriveDecode DEF h
  <2>2. MoveAt(At(raw, j).v, At(raw, h).v, Side[j], Side[h], want[j], want[h],
               OffPace[j], OffPace[h])
    BY <1>3, <1>4, <1>5, <1>6 DEF MoveAt
  <2>3. /\ (((At(raw, j).v - At(raw, h).v) \div 2) * Side[j]) \div 2 = ga
        /\ (((At(raw, j).v + At(raw, h).v) \div 2) * Side[h]) \div 2 = gh
    BY <1>3, <1>4, <2>2, DriveVelocities
  <2>4. At(raw, j).v = 2 * (Side[j] * ga + Side[h] * gh)
    BY <1>3, <1>4, <2>2, DriveVelocities
  <2>5. At(raw, h).v = 2 * (Side[h] * gh - Side[j] * ga)
    BY <1>3, <1>4, <2>2, DriveVelocities
  <2> HIDE DEF ga, gh
  <2> QED BY <2>1, <2>3, <2>4, <2>5
<1>10. /\ got[j].tau = fa /\ got[h].tau = fh
       /\ At(raw, j).t = 5 * (Side[j] * fa + Side[h] * fh)
       /\ At(raw, h).t = 5 * (Side[h] * fh - Side[j] * fa)
  <2>1. /\ got[j].tau = (((At(raw, j).t - At(raw, h).t) \div 1) * Side[j]) \div 10
        /\ got[h].tau = (((At(raw, j).t + At(raw, h).t) \div 1) * Side[h]) \div 10
    BY <1>2, DriveDecode DEF h
  <2>2. PullAt(At(raw, j).t, At(raw, h).t, Side[j], Side[h], want[j], want[h],
               ua, uh)
    BY <1>5, <1>6, <1>7 DEF PullAt
  <2>3. /\ (((At(raw, j).t - At(raw, h).t) \div 1) * Side[j]) \div 10 = fa
        /\ (((At(raw, j).t + At(raw, h).t) \div 1) * Side[h]) \div 10 = fh
    BY <1>3, <1>4, <1>7, <2>2, DriveTorques
  <2>4. /\ At(raw, j).t = 5 * (Side[j] * fa + Side[h] * fh)
        /\ At(raw, h).t = 5 * (Side[h] * fh - Side[j] * fa)
    BY <1>3, <1>4, <1>7, <2>2, DriveTorques
  <2> HIDE DEF fa, fh
  <2> QED BY <2>1, <2>3, <2>4
<1>11. /\ Strayed(Off, j) = 5 * Side[j] * (Off[j] - Off[h])
       /\ Strayed(Off, h) = 5 * Side[h] * (Off[j] + Off[h])
       /\ Strayed(OffPace, j) = 5 * Side[j] * (OffPace[j] - OffPace[h])
       /\ Strayed(OffPace, h) = 5 * Side[h] * (OffPace[j] + OffPace[h])
  <2>1. \A x : Strayed(x, j) = 5 * Side[j] * (x[j] - x[j + 1])
    BY <1>1 DEF Strayed
  <2>2. \A x : Strayed(x, h) = 5 * Side[h] * (x[h - 1] + x[h])
    BY <1>1 DEF Strayed
  <2> QED BY <1>1, <2>1, <2>2 DEF h
<1>12. /\ 2 * fa = 2 * (Kp[j] * Strayed(Off, j) + Kd[j] * Strayed(OffPace, j)
                        + want[j])
                    + Coupling(Kp, Astray(Off))[j] + Coupling(Kd, Astray(OffPace))[j]
       /\ 2 * fh = 2 * (Kp[h] * Strayed(Off, h) + Kd[h] * Strayed(OffPace, h)
                        + want[h])
                    + Coupling(Kp, Astray(Off))[h] + Coupling(Kd, Astray(OffPace))[h]
  <2> DEFINE da == Strayed(Off, j)
             dh == Strayed(Off, h)
             ea == Strayed(OffPace, j)
             eh == Strayed(OffPace, h)
             s  == Side[j] * Side[h]
             pa == Kp[j] * Off[j] - Kp[h] * Off[h]
             ph == Kp[j] * Off[j] + Kp[h] * Off[h]
             va == Kd[j] * OffPace[j] - Kd[h] * OffPace[h]
             vh == Kd[j] * OffPace[j] + Kd[h] * OffPace[h]
  <2>1. /\ \A g, x : Coupling(g, Astray(x))[j]
                       = (g[j] - g[h]) * (s * Strayed(x, h) - Strayed(x, j))
        /\ \A g, x : Coupling(g, Astray(x))[h]
                       = (g[j] - g[h]) * (s * Strayed(x, j) + Strayed(x, h))
    BY <1>1 DEF Coupling, Astray, h
  <2>2. /\ 2 * (5 * Side[j] * pa) = 2 * (Kp[j] * da) + (Kp[j] - Kp[h]) * (s * dh - da)
        /\ 2 * (5 * Side[h] * ph) = 2 * (Kp[h] * dh) + (Kp[j] - Kp[h]) * (s * da + dh)
    <3> HIDE DEF da, dh
    <3>1. AwayAt(da, dh, Side[j], Side[h], Off[j], Off[h])
      BY <1>11 DEF da, dh, AwayAt
    <3>2. /\ Side[j] \in {-1, 1} /\ Side[h] \in {-1, 1}
          /\ Kp[j] \in Int /\ Kp[h] \in Int /\ Off[j] \in Int /\ Off[h] \in Int
      BY <1>3, <1>4
    <3>3. GainsAt(Kp[j], Kp[h], da, dh, Side[j], Side[h], Off[j], Off[h])
      BY <3>1, <3>2, DriveGains
    <3> QED BY <3>3 DEF GainsAt
  <2>3. /\ 2 * (5 * Side[j] * va) = 2 * (Kd[j] * ea) + (Kd[j] - Kd[h]) * (s * eh - ea)
        /\ 2 * (5 * Side[h] * vh) = 2 * (Kd[h] * eh) + (Kd[j] - Kd[h]) * (s * ea + eh)
    <3> HIDE DEF ea, eh
    <3>1. AwayAt(ea, eh, Side[j], Side[h], OffPace[j], OffPace[h])
      BY <1>11 DEF ea, eh, AwayAt
    <3>2. /\ Side[j] \in {-1, 1} /\ Side[h] \in {-1, 1}
          /\ Kd[j] \in Int /\ Kd[h] \in Int
          /\ OffPace[j] \in Int /\ OffPace[h] \in Int
      BY <1>3, <1>4
    <3>3. GainsAt(Kd[j], Kd[h], ea, eh, Side[j], Side[h], OffPace[j], OffPace[h])
      BY <3>1, <3>2, DriveGains
    <3> QED BY <3>3 DEF GainsAt
  <2>4. /\ ua - uh = pa + va /\ ua + uh = ph + vh
        /\ pa \in Int /\ ph \in Int /\ va \in Int /\ vh \in Int
    BY <1>3, <1>4 DEF ua, uh
  <2>5. /\ da \in Int /\ dh \in Int /\ ea \in Int /\ eh \in Int /\ s \in Int
        /\ (Kp[j] - Kp[h]) * (s * dh - da) \in Int
        /\ (Kp[j] - Kp[h]) * (s * da + dh) \in Int
        /\ (Kd[j] - Kd[h]) * (s * eh - ea) \in Int
        /\ (Kd[j] - Kd[h]) * (s * ea + eh) \in Int
    <3>1. da \in Int /\ dh \in Int /\ ea \in Int /\ eh \in Int
      <4>1. Side[j] \in Int /\ Side[h] \in Int
        BY <1>3, <1>4
      <4> QED BY <1>3, <1>4, <1>11, <4>1
    <3>2. s \in Int
      BY <1>3, <1>4
    <3>3. Kp[j] - Kp[h] \in Int /\ Kd[j] - Kd[h] \in Int
      BY <1>3, <1>4
    <3> HIDE DEF s, da, dh, ea, eh
    <3>4. /\ s * dh - da \in Int /\ s * da + dh \in Int
          /\ s * eh - ea \in Int /\ s * ea + eh \in Int
      BY <3>1, <3>2
    <3> QED BY <3>1, <3>2, <3>3, <3>4
  <2>6. /\ Kp[j] * da \in Int /\ Kp[h] * dh \in Int
        /\ Kd[j] * ea \in Int /\ Kd[h] * eh \in Int
    BY <1>3, <1>4, <2>5
  <2> HIDE DEF pa, ph, va, vh, s
  <2>7. /\ 2 * fa = 2 * (5 * Side[j] * pa) + 2 * (5 * Side[j] * va) + 2 * want[j]
        /\ 2 * fh = 2 * (5 * Side[h] * ph) + 2 * (5 * Side[h] * vh) + 2 * want[h]
    <3>1. /\ Side[j] = 1 \/ Side[j] = -1
          /\ Side[h] = 1 \/ Side[h] = -1
      BY <1>3, <1>4
    <3>2. ua - uh = pa + va /\ ua + uh = ph + vh
      BY <2>4
    <3>3. /\ 2 * (5 * Side[j] * (pa + va) + want[j])
               = 2 * (5 * Side[j] * pa) + 2 * (5 * Side[j] * va) + 2 * want[j]
          /\ 2 * (5 * Side[h] * (ph + vh) + want[h])
               = 2 * (5 * Side[h] * ph) + 2 * (5 * Side[h] * vh) + 2 * want[h]
      BY <1>3, <1>4, <2>4, <3>1
    <3> QED BY <3>2, <3>3
  <2> QED BY <1>3, <1>4, <2>1, <2>2, <2>3, <2>5, <2>6, <2>7
<1>13. fa \in Int /\ fh \in Int /\ ga \in Int /\ gh \in Int
  BY <1>3, <1>4, <1>7
<1> HIDE DEF fa, fh
<1>14. Decoded(j) /\ Decoded(h)
  BY <1>8, <1>9, <1>10, <1>11, <1>12 DEF Decoded
<1> HIDE DEF ga, gh
<1>15. At(raw, j).t * At(raw, j).v + At(raw, h).t * At(raw, h).v
        = 20 * got[j].tau * got[j].qd + 20 * got[h].tau * got[h].qd
  BY <1>3, <1>4, <1>9, <1>10, <1>13, DrivePower
<1> QED BY <1>14, <1>15 DEF h

(* A knee.                                                                 *)
LEMMA KneeDecoded ==
  ASSUME IInv, stage = "received", NEW j \in Knee
  PROVE  Decoded(j) /\ At(raw, j).t * At(raw, j).v = 20 * got[j].tau * got[j].qd
<1> DEFINE a == SetPoint(want, j)
           u == Kp[j] * Off[j] + Kd[j] * OffPace[j]
           f == 4 * Side[j] * u + want[j]
           g == want[j] - 4 * Side[j] * OffPace[j]
<1>1. j \in Joint /\ j \in Leg /\ j \notin Abad /\ j \notin Hip /\ j \in Knee
  BY KindsOf
<1>2. NumbersInv /\ got = Decode(raw)
  BY DEF IInv, ReceivedInv
<1>3. /\ want[j] \in Int /\ Side[j] \in {-1, 1} /\ Kp[j] \in Nat /\ Kd[j] \in Nat
      /\ Off[j] \in Int /\ Deviation(j) = 20 * Off[j]
      /\ OffPace[j] \in Int /\ Lag(j) = 20 * OffPace[j] /\ Offset[j] \in Int
  BY <1>1, <1>2, NumbersOf, ShapeAssumption
<1>4. /\ At(raw, j).p = a.p - Deviation(j) /\ At(raw, j).v = a.v - Lag(j)
      /\ At(raw, j).t = (a.k * Deviation(j) + a.d * Lag(j)) \div 10 + a.t
  BY <1>1 DEF IInv, AnsweredInv
<1>5. /\ a.p = 5 * Side[j] * want[j] + 2 * Offset[j] /\ a.v = 5 * Side[j] * want[j]
      /\ a.t = 4 * Side[j] * want[j] /\ a.k = 8 * Kp[j] /\ a.d = 8 * Kd[j]
  <2>1. \A m : Differential(m)[j] = m[j]
    BY <1>1 DEF Differential
  <2>2. /\ Positions(want)[j] = Placed(want, j) /\ Velocities(want)[j] = Motor(want, j)
        /\ Torques(want)[j] = 4 * Side[j] * want[j]
    BY <1>1, <2>1 DEF Positions, Velocities, Torques
  <2>3. Gain(Kp)[j] = 8 * Kp[j] /\ Gain(Kd)[j] = 8 * Kd[j]
    BY <1>1 DEF Gain
  <2> QED BY <1>1, <2>2, <2>3 DEF SetPoint, Placed, Motor
<1> HIDE DEF a
<1>6. a.k * Deviation(j) + a.d * Lag(j) = 160 * u /\ u \in Int
  BY <1>3, <1>5
<1> HIDE DEF u
<1>7. KneeAt(At(raw, j).p, At(raw, j).v, At(raw, j).t, Side[j], want[j], Offset[j],
             Off[j], OffPace[j], u)
  BY <1>3, <1>4, <1>5, <1>6 DEF KneeAt
<1>8. /\ got[j].q = ((At(raw, j).p - 2 * Offset[j]) * Side[j]) \div 5
      /\ got[j].qd = (At(raw, j).v * Side[j]) \div 5
      /\ got[j].tau = (At(raw, j).t * Side[j]) \div 4
  <2>1. \A m, half : Serial(m, half)[j] = m[j]
    BY <1>1 DEF Serial
  <2> QED BY <1>1, <1>2, <2>1 DEF Decode, Jointly, At
<1>9. /\ got[j].q = want[j] - 4 * Side[j] * Off[j] /\ got[j].qd = g
      /\ got[j].tau = f
  BY <1>3, <1>6, <1>7, <1>8, KneeConverts
<1>10. At(raw, j).v = 5 * Side[j] * g /\ At(raw, j).t = 4 * Side[j] * f
  BY <1>3, <1>6, <1>7, KneeConverts
<1>11. \A x : Strayed(x, j) = 4 * Side[j] * x[j]
  BY <1>1 DEF Strayed
<1>12. f = Kp[j] * Strayed(Off, j) + Kd[j] * Strayed(OffPace, j) + want[j]
  <2>1. CASE Side[j] = 1
    BY <1>3, <1>11, <2>1 DEF u
  <2>2. CASE Side[j] = -1
    BY <1>3, <1>11, <2>2 DEF u
  <2> QED BY <1>3, <2>1, <2>2
<1>13. f \in Int /\ g \in Int
  BY <1>3, <1>6
<1> HIDE DEF f
<1>14. Decoded(j)
  <2>1. \A k, x : Coupling(k, x)[j] = 0
    BY <1>1 DEF Coupling
  <2>2. 2 * f = 2 * f + 0 + 0
    BY <1>13
  <2> QED BY <1>9, <1>11, <1>12, <2>1, <2>2 DEF Decoded
<1> HIDE DEF g
<1>15. CASE Side[j] = 1
  BY <1>9, <1>10, <1>13, <1>14, <1>15
<1>16. CASE Side[j] = -1
  BY <1>9, <1>10, <1>13, <1>14, <1>16
<1> QED BY <1>3, <1>15, <1>16

(* A wheel.                                                                *)
LEMMA WheelDecoded ==
  ASSUME IInv, stage = "received", NEW j \in Wheel
  PROVE  Decoded(j) /\ At(raw, j).t * At(raw, j).v = 20 * got[j].tau * got[j].qd
<1> DEFINE a == SetPoint(want, j)
           u == Kp[j] * Off[j] + Kd[j] * OffPace[j]
           f == 10 * Side[j] * u + want[j]
           g == want[j] - 10 * Side[j] * OffPace[j]
<1>1. j \in Joint /\ j \notin Leg /\ j \notin Abad /\ j \notin Hip /\ j \notin Knee
  BY KindsOf
<1>2. NumbersInv /\ got = Decode(raw)
  BY DEF IInv, ReceivedInv
<1>3. /\ want[j] \in Int /\ Side[j] \in {-1, 1} /\ Kp[j] \in Nat /\ Kd[j] \in Nat
      /\ Off[j] \in Int /\ Deviation(j) = 20 * Off[j]
      /\ OffPace[j] \in Int /\ Lag(j) = 20 * OffPace[j]
  BY <1>1, <1>2, NumbersOf
<1>4. /\ At(raw, j).p = a.p - Deviation(j) /\ At(raw, j).v = a.v - Lag(j)
      /\ At(raw, j).t = (a.k * Deviation(j) + a.d * Lag(j)) \div 10 + a.t
  BY <1>1 DEF IInv, AnsweredInv
<1>5. /\ a.p = 2 * Side[j] * want[j] /\ a.v = 2 * Side[j] * want[j]
      /\ a.t = 10 * Side[j] * want[j] /\ a.k = 50 * Kp[j] /\ a.d = 50 * Kd[j]
  <2>1. \A m : Differential(m)[j] = m[j]
    BY <1>1 DEF Differential
  <2>2. /\ Positions(want)[j] = Placed(want, j) /\ Velocities(want)[j] = Motor(want, j)
        /\ Torques(want)[j] = 10 * Side[j] * want[j]
    BY <1>1, <2>1 DEF Positions, Velocities, Torques
  <2>3. Gain(Kp)[j] = 50 * Kp[j] /\ Gain(Kd)[j] = 50 * Kd[j]
    BY <1>1 DEF Gain
  <2> QED BY <1>1, <2>2, <2>3 DEF SetPoint, Placed, Motor
<1> HIDE DEF a
<1>6. a.k * Deviation(j) + a.d * Lag(j) = 1000 * u /\ u \in Int
  BY <1>3, <1>5
<1> HIDE DEF u
<1>7. WheelAt(At(raw, j).p, At(raw, j).v, At(raw, j).t, Side[j], want[j],
              Off[j], OffPace[j], u)
  BY <1>3, <1>4, <1>5, <1>6 DEF WheelAt
<1>8. /\ got[j].q = (At(raw, j).p * Side[j]) \div 2
      /\ got[j].qd = (At(raw, j).v * Side[j]) \div 2
      /\ got[j].tau = (At(raw, j).t * Side[j]) \div 10
  <2>1. \A m, half : Serial(m, half)[j] = m[j]
    BY <1>1 DEF Serial
  <2>2. /\ got[j].q = ((At(raw, j).p - 0) * Side[j]) \div 2
        /\ got[j].qd = (At(raw, j).v * Side[j]) \div 2
        /\ got[j].tau = (At(raw, j).t * Side[j]) \div 10
    BY <1>1, <1>2, <2>1 DEF Decode, Jointly, At
  <2>3. At(raw, j).p \in Int
    BY <1>3, <1>4, <1>5
  <2> QED BY <2>2, <2>3
<1>9. /\ got[j].q = want[j] - 10 * Side[j] * Off[j] /\ got[j].qd = g
      /\ got[j].tau = f
  BY <1>3, <1>6, <1>7, <1>8, WheelConverts
<1>10. At(raw, j).v = 2 * Side[j] * g /\ At(raw, j).t = 10 * Side[j] * f
  <2> HIDE DEF f, g
  <2>1. g = want[j] - 10 * Side[j] * OffPace[j] /\ f = 10 * Side[j] * u + want[j]
    BY DEF f, g
  <2>2. CASE Side[j] = 1
    BY <1>3, <1>6, <1>7, <2>1, <2>2 DEF WheelAt
  <2>3. CASE Side[j] = -1
    BY <1>3, <1>6, <1>7, <2>1, <2>3 DEF WheelAt
  <2> QED BY <1>3, <2>2, <2>3
<1>11. \A x : Strayed(x, j) = 10 * Side[j] * x[j]
  BY <1>1 DEF Strayed
<1>12. f = Kp[j] * Strayed(Off, j) + Kd[j] * Strayed(OffPace, j) + want[j]
  <2>1. CASE Side[j] = 1
    BY <1>3, <1>11, <2>1 DEF u
  <2>2. CASE Side[j] = -1
    BY <1>3, <1>11, <2>2 DEF u
  <2> QED BY <1>3, <2>1, <2>2
<1>13. f \in Int /\ g \in Int
  BY <1>3, <1>6
<1> HIDE DEF f
<1>14. Decoded(j)
  <2>1. \A k, x : Coupling(k, x)[j] = 0
    BY <1>1 DEF Coupling
  <2>2. 2 * f = 2 * f + 0 + 0
    BY <1>13
  <2> QED BY <1>9, <1>11, <1>12, <2>1, <2>2 DEF Decoded
<1> HIDE DEF g
<1>15. CASE Side[j] = 1
  BY <1>9, <1>10, <1>13, <1>14, <1>15
<1>16. CASE Side[j] = -1
  BY <1>9, <1>10, <1>13, <1>14, <1>16
<1> QED BY <1>3, <1>15, <1>16

-----------------------------------------------------------------------------
(* The theorems.                                                           *)

(* Every joint is one of the three.                                        *)
LEMMA JointsDecoded ==
  ASSUME IInv, stage = "received", NEW j \in Joint
  PROVE  Decoded(j)
<1>1. CASE j \in Abad
  BY <1>1, DriveDecoded
<1>2. CASE j \in Hip
  <2>1. j - 1 \in Abad /\ (j - 1) + 1 = j
    BY <1>2, KindsOf
  <2> DEFINE i == j - 1
  <2> HIDE DEF i
  <2>2. i \in Abad /\ i + 1 = j
    BY <2>1 DEF i
  <2>3. Decoded(i + 1)
    BY <2>2, DriveDecoded
  <2> QED BY <2>2, <2>3
<1>3. CASE j \in Knee
  BY <1>3, KneeDecoded
<1>4. CASE j \in Wheel
  BY <1>4, WheelDecoded
<1> QED BY <1>1, <1>2, <1>3, <1>4, KindsOf

(* A joint strays by a number, and not at all if no motor does.            *)
LEMMA StrayedOf ==
  ASSUME NEW x \in [Joint -> Int], NEW j \in Joint
  PROVE  /\ Strayed(x, j) \in Int
         /\ (\A i \in Joint : x[i] = 0) => Strayed(x, j) = 0
<1>1. Side[j] \in Int /\ x[j] \in Int
  BY SideOf
<1>2. CASE j \in Abad
  <2>1. /\ j + 1 \in Joint /\ x[j + 1] \in Int
        /\ Strayed(x, j) = 5 * Side[j] * (x[j] - x[j + 1])
    BY <1>2, KindsOf DEF Strayed
  <2> QED BY <1>1, <2>1
<1>3. CASE j \in Hip
  <2>1. /\ j - 1 \in Joint /\ x[j - 1] \in Int
        /\ Strayed(x, j) = 5 * Side[j] * (x[j - 1] + x[j])
    BY <1>3, KindsOf DEF Strayed
  <2> QED BY <1>1, <2>1
<1>4. CASE j \in Knee
  <2>1. Strayed(x, j) = 4 * Side[j] * x[j]
    BY <1>4, KindsOf DEF Strayed
  <2> QED BY <1>1, <2>1
<1>5. CASE j \in Wheel
  <2>1. Strayed(x, j) = 10 * Side[j] * x[j]
    BY <1>5, KindsOf DEF Strayed
  <2> QED BY <1>1, <2>1
<1> QED BY <1>2, <1>3, <1>4, <1>5, KindsOf

(* Deviations are numbers.                                                 *)
LEMMA OffsAreNumbers ==
  ASSUME NumbersInv
  PROVE  Off \in [Joint -> Int] /\ OffPace \in [Joint -> Int]
<1>1. \A j \in Joint : Off[j] \in Int /\ OffPace[j] \in Int
  BY NumbersOf
<1> QED BY <1>1 DEF Off, OffPace

(* Deal_Usb_Out_Cmd and Deal_Usb_In_Data undo each other, for every        *)
(* command and every set of offsets: a motor that is where it was sent is  *)
(* seen where it was wanted, whatever the frame held before.               *)
THEOREM ConversionsInvert == Spec => []CommandsReturn
<1>1. IInv => CommandsReturn
  <2> SUFFICES ASSUME IInv, stage = "received", \A s \in Slot : error[s] = 0,
                      NEW j \in Joint
               PROVE  got[j].q = want[j] /\ got[j].qd = want[j]
    BY DEF CommandsReturn
  <2>1. NumbersInv
    BY DEF IInv
  <2>2. \A i \in Joint : Off[i] = 0 /\ OffPace[i] = 0
    <3> SUFFICES ASSUME NEW i \in Joint PROVE Off[i] = 0 /\ OffPace[i] = 0
      OBVIOUS
    <3>1. Deviation(i) = 0
      BY SlotsDiffer, PartnersPair DEF Deviation
    <3> QED BY <2>1, <3>1, NumbersOf
  <2>3. Strayed(Off, j) = 0 /\ Strayed(OffPace, j) = 0
    BY <2>1, <2>2, OffsAreNumbers, StrayedOf
  <2>4. Decoded(j)
    BY JointsDecoded
  <2> QED BY <2>1, <2>3, <2>4 DEF Decoded, NumbersInv
<1> QED BY <1>1, Inductive, PTL

(* What the controller is told of the motors' torques is what the          *)
(* simulator's pack_motor_cmd would apply at the joints, for every set of  *)
(* gains and wherever the motors are, up to the coupling of a drive whose  *)
(* two gains differ: the halved gains of the differential and those of the *)
(* knees, divided by the transmission squared, are right.                  *)
THEOREM SimulatorIsTheRobot == Spec => []SimulatorAgrees
<1>1. IInv => SimulatorAgrees
  <2> DEFINE away   == [i \in Joint |-> want[i] - got[i].q]
             behind == [i \in Joint |-> want[i] - got[i].qd]
             torque == SimTorque(want, [i \in Joint |-> got[i].q],
                                 [i \in Joint |-> got[i].qd])
  <2> SUFFICES ASSUME IInv, stage = "received", NEW j \in Joint
               PROVE  2 * got[j].tau
                        = 2 * torque[j] + Coupling(Kp, away)[j]
                            + Coupling(Kd, behind)[j]
    BY DEF SimulatorAgrees
  <2>1. NumbersInv
    BY DEF IInv
  <2>2. \A i \in Joint :
          want[i] \in Int /\ Strayed(Off, i) \in Int /\ Strayed(OffPace, i) \in Int
    BY <2>1, OffsAreNumbers, StrayedOf DEF NumbersInv
  <2>3. \A i \in Joint : Decoded(i)
    BY JointsDecoded
  <2>4. \A i \in Joint : /\ want[i] - got[i].q = Strayed(Off, i)
                         /\ want[i] - got[i].qd = Strayed(OffPace, i)
    BY <2>2, <2>3 DEF Decoded
  <2>5. away = Astray(Off) /\ behind = Astray(OffPace)
    BY <2>4 DEF Astray
  <2>6. torque[j] = Kp[j] * Strayed(Off, j) + Kd[j] * Strayed(OffPace, j) + want[j]
    BY <2>4 DEF SimTorque
  <2> HIDE DEF away, behind, torque
  <2> QED BY <2>3, <2>5, <2>6 DEF Decoded
<1> QED BY <1>1, Inductive, PTL

(* Signs, differential and transmission convert torques by the transpose   *)
(* of what converts velocities: no drive gains or loses power.             *)
THEOREM DrivesPreservePower == Spec => []PowerIsPreserved
<1>1. IInv => PowerIsPreserved
  <2> SUFFICES ASSUME IInv, stage = "received"
               PROVE  /\ \A j \in Abad :
                           At(raw, j).t * At(raw, j).v
                             + At(raw, j + 1).t * At(raw, j + 1).v
                           = 20 * got[j].tau * got[j].qd
                               + 20 * got[j + 1].tau * got[j + 1].qd
                      /\ \A j \in Knee \cup Wheel :
                           At(raw, j).t * At(raw, j).v = 20 * got[j].tau * got[j].qd
    BY DEF PowerIsPreserved, At
  <2> QED BY DriveDecoded, KneeDecoded, WheelDecoded
<1> QED BY <1>1, Inductive, PTL
===============================================================================
