---------------------------- MODULE RLPolicyProofs ----------------------------
(***************************************************************************)
(* For every size of the ring and of the histories and every length of a   *)
(* session: the counters of FSM_State_RL agree, only the policy of this    *)
(* session is commanded, and the inputs of the network are its own after   *)
(* the number of inferences the model claims.                              *)
(***************************************************************************)
EXTENDS RLPolicy, Integers, TLAPS

-----------------------------------------------------------------------------
(* How far the columns of this session have come after so many cycles and  *)
(* so many inferences.  Slot 0 of the ring is only written by the cycle    *)
(* number Window, which is after the first inference.                      *)
RingInv ==
  /\ \A s \in Slots : s \in 1..loop => ring[s]
  /\ loop >= Window => \A s \in Slots : ring[s]

JointsInv == \A i \in History : i + 2 <= ctrl => joints[i]

ActionsInv == active => \A i \in 1..Recall : i <= ctrl => actions[i].new

SeenInv == JointsSettle /\ (active /\ ctrl > Recall => seen.actions)

(* A session that goes on has not seen a NaN yet; one that began with a    *)
(* NaN has not inferred yet; one that applies its actions has just had one.*)
CommandInv ==
  /\ active => desired # "nan" /\ filtered # "nan"
  /\ active /\ apply => ctrl > Warmup /\ desired = "policy"
  /\ active /\ sick => hidden /\ ~apply
  /\ OnlyPolicyIsCommanded

IInv == TypeOK /\ RingInv /\ JointsInv /\ ActionsInv /\ SeenInv /\ CommandInv
-----------------------------------------------------------------------------
(* Arithmetic of the counters.                                             *)

(* The quotient grows exactly at the multiples.                            *)
LEMMA DivStep ==
  ASSUME NEW n \in Nat, NEW w \in Nat \ {0}
  PROVE  /\ (n + 1) % w = 0 => (n + 1) \div w = (n \div w) + 1
         /\ (n + 1) % w # 0 => (n + 1) \div w = n \div w
OBVIOUS

(* A second multiple takes twice the divisor.                              *)
LEMMA DivTwo ==
  ASSUME NEW n \in Nat, NEW w \in Nat \ {0}, n \div w >= 2
  PROVE  n >= w + w
OBVIOUS

(* Remainders of small numbers and of the divisor.                         *)
LEMMA ModSmall ==
  ASSUME NEW n \in Nat, NEW w \in Nat \ {0}
  PROVE  n % w \in 0..(w - 1) /\ (n < w => n % w = n) /\ w % w = 0
OBVIOUS

(* The columns the network is shown are columns of the history, the oldest *)
(* of them Interval * (Steps - 1) inferences old.                          *)
LEMMA ShownAreKept ==
  \A i \in Shown : i \in History /\ i <= Interval * (Steps - 1)
<1> SUFFICES ASSUME NEW j \in 0..(Steps - 1)
             PROVE  /\ Interval * j \in History
                    /\ Interval * j <= Interval * (Steps - 1)
  BY DEF Shown
<1>1. Interval \in Nat \ {0} /\ Steps \in Nat \ {0} /\ j \in Nat
  BY SizesAssumption
<1>2. Interval * j <= Interval * (Steps - 1)
  BY <1>1
<1>3. Interval * (Steps - 1) = Steps * Interval - Interval
  BY <1>1
<1>4. Interval * j \in Nat /\ Steps * Interval \in Nat
  BY <1>1
<1>5. Interval * j <= Steps * Interval - 1
  BY <1>1, <1>2, <1>3, <1>4
<1> QED BY <1>2, <1>4, <1>5 DEF History

-----------------------------------------------------------------------------
(* The first half of a cycle.                                              *)

(* Counting keeps ctrl the number of inferences so far, and the ring is    *)
(* full when the second one is due.                                        *)
LEMMA SampleCounts ==
  ASSUME TypeOK, Sample
  PROVE  /\ loop' = loop + 1 /\ loop' \in 0..MaxLoop /\ ctrl \in Nat
         /\ Due => (loop' + 1) \div Window = ctrl + 1
         /\ ~Due => (loop' + 1) \div Window = ctrl
         /\ Due /\ ctrl >= 1 => loop' >= Window
<1>1. /\ loop' = loop + 1 /\ loop < MaxLoop /\ loop \in 0..MaxLoop
      /\ ctrl = (loop + 1) \div Window
  BY DEF TypeOK, Sample
<1>2. Window \in Nat \ {0} /\ MaxLoop \in Nat /\ loop \in Nat /\ loop' \in Nat
  BY <1>1, SizesAssumption
<1>3. /\ Due => (loop' + 1) \div Window = ctrl + 1
      /\ ~Due => (loop' + 1) \div Window = ctrl
  BY <1>1, <1>2, DivStep DEF Due
<1>4. loop' \in 0..MaxLoop /\ ctrl \in Nat
  BY <1>1, <1>2
<1>5. ASSUME Due, ctrl >= 1 PROVE loop' >= Window
  <2>1. (loop' + 1) \div Window >= 2
    BY <1>3, <1>4, <1>5
  <2>2. ASSUME NEW n \in Nat, (n + 1) \div Window >= 2 PROVE n >= Window
    <3>1. n + 1 \in Nat
      OBVIOUS
    <3>2. n + 1 >= Window + Window
      BY <1>2, <2>2, <3>1, DivTwo
    <3> QED BY <1>2, <3>2
  <2>3. loop' \in Nat
    BY <1>2
  <2> QED BY <2>1, <2>2, <2>3
<1> QED BY <1>1, <1>3, <1>4, <1>5

(* The column sampled is one nobody has written in this session, until all *)
(* are full.                                                               *)
LEMMA SampleFills ==
  ASSUME TypeOK, RingInv, Sample
  PROVE  RingInv' /\ ring' \in [Slots -> BOOLEAN]
<1>1. /\ loop' = loop + 1 /\ loop \in Nat /\ Window \in Nat \ {0}
      /\ ring \in [Slots -> BOOLEAN]
      /\ ring' = [ring EXCEPT ![loop' % Window] = TRUE]
  BY SizesAssumption DEF TypeOK, Sample
<1>2. ring' \in [Slots -> BOOLEAN]
  BY <1>1
<1>3. loop' % Window \in Slots
  BY <1>1, ModSmall DEF Slots
<1>4. ring'[loop' % Window] /\ \A s \in Slots : ring[s] => ring'[s]
  BY <1>1, <1>3
<1>5. ASSUME NEW s \in Slots, s \in 1..loop' PROVE ring'[s]
  <2>1. s \in 1..loop => ring'[s]
    BY <1>4 DEF RingInv
  <2>2. CASE s = loop'
    <3>1. s \in Nat /\ s < Window
      BY <1>1 DEF Slots
    <3>2. s % Window = s
      BY <1>1, <3>1, ModSmall
    <3> QED BY <2>2, <3>2, <1>4
  <2> QED BY <1>1, <1>5, <2>1, <2>2
<1>6. ASSUME loop' >= Window, NEW s \in Slots PROVE ring'[s]
  <2>1. CASE loop >= Window
    BY <2>1, <1>4 DEF RingInv
  <2>2. CASE loop' = Window
    <3>1. ring'[0]
      BY <1>1, <1>4, <2>2, ModSmall
    <3>2. s \in 1..loop' \/ s = 0
      BY <1>1, <2>2 DEF Slots
    <3> QED BY <3>1, <3>2, <1>5
  <2> QED BY <1>1, <1>6, <2>1, <2>2
<1> QED BY <1>2, <1>5, <1>6 DEF RingInv

-----------------------------------------------------------------------------
(* An inference.                                                           *)

(* The newest column is of this session from the second inference on, and  *)
(* every other one inference later than the one before it.                 *)
LEMMA InferenceObserves ==
  ASSUME TypeOK, RingInv', JointsInv, ActionsInv, Sample, Due, CountInference,
         Observe
  PROVE  /\ ctrl' = ctrl + 1 /\ ctrl' = (loop' + 1) \div Window
         /\ apply' \in BOOLEAN
         /\ joints' \in [History -> BOOLEAN] /\ JointsInv'
         /\ seen' \in [joints : BOOLEAN, actions : BOOLEAN] /\ JointsSettle'
         /\ ctrl' > Recall => seen'.actions
<1>1. /\ ctrl \in Nat /\ ctrl' = ctrl + 1 /\ ctrl' = (loop' + 1) \div Window
      /\ ctrl >= 1 => loop' >= Window
  BY SampleCounts DEF CountInference
<1>2. apply' \in BOOLEAN
  BY DEF CountInference, TypeOK
<1>3. /\ joints' = [i \in History |-> IF i = 0 THEN \A s \in Slots : ring'[s]
                                     ELSE joints[i - 1]]
      /\ seen' = [joints  |-> \A i \in Shown : joints'[i],
                  actions |-> \A i \in 1..Recall : actions[i].new]
  BY DEF Observe
<1>4. History \subseteq Nat /\ \A i \in History : i # 0 => i - 1 \in History
  BY SizesAssumption DEF History
<1>5. joints' \in [History -> BOOLEAN]
  <2>1. joints \in [History -> BOOLEAN]
    BY DEF TypeOK
  <2> QED BY <1>3, <1>4, <2>1
<1>6. JointsInv'
  <2> SUFFICES ASSUME NEW i \in History, i + 2 <= ctrl' PROVE joints'[i]
    BY DEF JointsInv
  <2>1. CASE i = 0
    <3>1. loop' >= Window
      BY <1>1, <2>1
    <3>2. \A s \in Slots : ring'[s]
      BY <3>1 DEF RingInv
    <3> QED BY <3>2, <2>1, <1>3
  <2>2. CASE i # 0
    <3>1. (i - 1) + 2 <= ctrl /\ i - 1 \in History
      BY <1>1, <1>4, <2>2
    <3>2. joints[i - 1]
      BY <3>1 DEF JointsInv
    <3> QED BY <3>2, <2>2, <1>3
  <2> QED BY <2>1, <2>2
<1>7. seen' \in [joints : BOOLEAN, actions : BOOLEAN]
  BY <1>3
<1>8. ASSUME ctrl' >= Interval * (Steps - 1) + 2 PROVE seen'.joints
  <2> SUFFICES ASSUME NEW i \in Shown PROVE joints'[i]
    BY <1>3
  <2>1. i \in History /\ i <= Interval * (Steps - 1)
    BY ShownAreKept
  <2>2. Interval * (Steps - 1) \in Int /\ i \in Int /\ ctrl' \in Int
    BY <1>1, <1>4, <2>1, SizesAssumption
  <2>3. i + 2 <= ctrl'
    BY <1>8, <2>1, <2>2
  <2> QED BY <2>1, <2>3, <1>6 DEF JointsInv
<1>9. ASSUME ctrl' > Recall PROVE seen'.actions
  <2>1. active /\ \A i \in 1..Recall : i <= ctrl
    BY <1>1, <1>9, SizesAssumption DEF Sample
  <2>2. \A i \in 1..Recall : actions[i].new
    BY <2>1 DEF ActionsInv
  <2> QED BY <2>2, <1>3
<1> QED BY <1>1, <1>2, <1>5, <1>6, <1>7, <1>8, <1>9 DEF JointsSettle

(* The check of the set-points, and what is sent behind it.                *)
LEMMA FinishChecks ==
  ASSUME TypeOK, CommandInv, active, Finish, desired' \in Origin,
         UNCHANGED sick, sick => desired' = "nan" \/ (hidden' /\ ~apply'),
         apply' => ctrl' > Warmup /\ desired' # "default"
  PROVE  /\ CommandInv' /\ active' \in BOOLEAN
         /\ filtered' \in Origin /\ qdes' \in Origin \cup {"none"}
<1>1. /\ filtered \in {"default", "policy"} /\ qdes \in {"none", "policy"}
      /\ sick => qdes = "none"
  BY DEF TypeOK, CommandInv, OnlyPolicyIsCommanded, Origin
<1>2. CASE desired' = "nan"
  <2>1. active' = FALSE /\ UNCHANGED <<filtered, qdes>>
    BY <1>2 DEF Finish
  <2> QED BY <1>1, <2>1 DEF CommandInv, OnlyPolicyIsCommanded, Origin
<1>3. CASE desired' # "nan"
  <2>1. /\ filtered' = Blend(desired', filtered) /\ UNCHANGED active
        /\ qdes' = IF apply' THEN filtered' ELSE qdes
    BY <1>3 DEF Finish
  <2>2. desired' \in {"default", "policy"}
    BY <1>3 DEF Origin
  <2>3. /\ filtered' \in {"default", "policy"}
        /\ desired' = "policy" => filtered' = "policy"
    BY <1>1, <2>1, <2>2 DEF Blend
  <2>4. CASE apply'
    BY <1>3, <2>1, <2>2, <2>3, <2>4 DEF CommandInv, OnlyPolicyIsCommanded, Origin
  <2>5. CASE ~apply'
    BY <1>1, <1>3, <2>1, <2>2, <2>3, <2>5
       DEF CommandInv, OnlyPolicyIsCommanded, Origin
  <2> QED BY <2>4, <2>5
<1> QED BY <1>2, <1>3
-----------------------------------------------------------------------------
(* The steps of the state.                                                 *)

(* The buffers count as another session's before the state was entered.    *)
LEMMA Initially == Init => IInv
<1> SUFFICES ASSUME Init PROVE IInv
  OBVIOUS
<1>1. loop = 0 /\ ctrl = 0 /\ loop \in 0..MaxLoop /\ (loop + 1) \div Window = 0
  BY SizesAssumption DEF Init
<1>2. /\ active = FALSE /\ apply = TRUE /\ hidden = FALSE /\ sick = FALSE
      /\ desired = "default" /\ filtered = "default" /\ qdes = "none"
  BY DEF Init
<1>3. /\ ring \in [Slots -> BOOLEAN] /\ joints \in [History -> BOOLEAN]
      /\ actions \in [1..Recall -> [new : BOOLEAN, nan : BOOLEAN]]
      /\ seen \in [joints : BOOLEAN, actions : BOOLEAN]
  BY DEF Init
<1>4. TypeOK
  BY <1>1, <1>2, <1>3 DEF TypeOK, Origin
<1>5. RingInv
  BY <1>1, SizesAssumption DEF RingInv
<1>6. JointsInv
  BY <1>1, SizesAssumption DEF JointsInv, History
<1>7. SeenInv
  <2>1. Interval * (Steps - 1) \in Nat
    BY SizesAssumption
  <2> QED BY <1>1, <1>2, <2>1 DEF SeenInv, JointsSettle
<1>8. CommandInv /\ ActionsInv
  BY <1>2 DEF CommandInv, ActionsInv, OnlyPolicyIsCommanded
<1> QED BY <1>4, <1>5, <1>6, <1>7, <1>8 DEF IInv

(* On entry everything starts over but the histories and the hidden state, *)
(* whose columns are an earlier session's now.                             *)
LEMMA EnterKeeps == TypeOK /\ Enter => IInv'
<1> SUFFICES ASSUME TypeOK, Enter PROVE IInv'
  OBVIOUS
<1>1. /\ loop' = 0 /\ ctrl' = 0 /\ loop' \in 0..MaxLoop
      /\ (loop' + 1) \div Window = 0
  <2>1. loop' = 0 /\ ctrl' = 0
    BY DEF Enter
  <2>2. (0 + 1) \div Window = 0 /\ 0 \in 0..MaxLoop
    BY SizesAssumption
  <2> QED BY <2>1, <2>2
<1>2. /\ active' = TRUE /\ apply' = FALSE /\ sick' = hidden' /\ hidden' = hidden
      /\ desired' = "default" /\ filtered' = "default" /\ qdes' = "none"
  BY DEF Enter
<1>3. /\ ring' \in [Slots -> BOOLEAN] /\ joints' \in [History -> BOOLEAN]
      /\ seen' \in [joints : BOOLEAN, actions : BOOLEAN]
  BY DEF Enter
<1>4. actions' \in [1..Recall -> [new : BOOLEAN, nan : BOOLEAN]]
  <2>1. actions \in [1..Recall -> [new : BOOLEAN, nan : BOOLEAN]]
    BY DEF TypeOK
  <2>2. actions' = [i \in 1..Recall |-> [actions[i] EXCEPT !.new = FALSE]]
    BY DEF Enter
  <2> QED BY <2>1, <2>2
<1>5. hidden' \in BOOLEAN /\ sick' \in BOOLEAN
  BY <1>2 DEF TypeOK
<1>6. TypeOK'
  BY <1>1, <1>2, <1>3, <1>4, <1>5 DEF TypeOK, Origin
<1>7. RingInv'
  BY <1>1, SizesAssumption DEF RingInv
<1>8. JointsInv'
  BY <1>1, SizesAssumption DEF JointsInv, History
<1>9. SeenInv'
  <2>1. Interval * (Steps - 1) \in Nat
    BY SizesAssumption
  <2> QED BY <1>1, <2>1, SizesAssumption DEF SeenInv, JointsSettle
<1>10. ActionsInv'
  BY <1>1 DEF ActionsInv
<1>11. CommandInv'
  BY <1>2, <1>5 DEF CommandInv, OnlyPolicyIsCommanded
<1> QED BY <1>6, <1>7, <1>8, <1>9, <1>10, <1>11 DEF IInv

(* The state is left as it is.                                             *)
LEMMA LeaveKeeps == IInv /\ Leave => IInv'
<1> SUFFICES ASSUME IInv, Leave PROVE IInv'
  OBVIOUS
<1>1. /\ TypeOK /\ RingInv /\ JointsInv /\ SeenInv /\ CommandInv
      /\ active' = FALSE
      /\ UNCHANGED <<loop, ctrl, apply, ring, joints, actions, hidden, desired,
                     filtered, qdes, seen, sick>>
  BY DEF IInv, Leave
<1>2. TypeOK'
  BY <1>1 DEF TypeOK
<1>3. RingInv' /\ JointsInv'
  BY <1>1 DEF RingInv, JointsInv
<1>4. ActionsInv' /\ SeenInv'
  BY <1>1 DEF ActionsInv, SeenInv, JointsSettle
<1>5. CommandInv'
  BY <1>1 DEF CommandInv, OnlyPolicyIsCommanded
<1> QED BY <1>2, <1>3, <1>4, <1>5 DEF IInv

(* Between two inferences the set-points stay.                             *)
LEMMA CycleKeeps == IInv /\ RunCycle => IInv'
<1> SUFFICES ASSUME IInv, RunCycle PROVE IInv'
  OBVIOUS
<1>1. /\ TypeOK /\ RingInv /\ JointsInv /\ ActionsInv /\ SeenInv /\ CommandInv
      /\ Sample /\ ~Due /\ Finish /\ active
      /\ UNCHANGED <<ctrl, apply, joints, actions, hidden, desired, seen, sick>>
  BY DEF IInv, RunCycle, Sample
<1>2. RingInv' /\ ring' \in [Slots -> BOOLEAN]
  BY <1>1, SampleFills
<1>3. loop' \in 0..MaxLoop /\ ctrl' = (loop' + 1) \div Window
  BY <1>1, SampleCounts
<1>4. desired' \in Origin /\ (sick => hidden' /\ ~apply')
  BY <1>1 DEF TypeOK, CommandInv
<1>5. apply' => ctrl' > Warmup /\ desired' # "default"
  BY <1>1 DEF CommandInv
<1>6. /\ CommandInv' /\ active' \in BOOLEAN
      /\ filtered' \in Origin /\ qdes' \in Origin \cup {"none"}
  BY <1>1, <1>4, <1>5, FinishChecks
<1>7. TypeOK'
  BY <1>1, <1>2, <1>3, <1>6 DEF TypeOK
<1>8. JointsInv' /\ ActionsInv' /\ SeenInv'
  BY <1>1 DEF JointsInv, ActionsInv, SeenInv, JointsSettle
<1> QED BY <1>2, <1>6, <1>7, <1>8 DEF IInv

(* What was NaN on entry gives NaN, which ends the session; what is applied*)
(* is the action computed last.                                            *)
LEMMA InferenceKeeps == IInv /\ RunInference => IInv'
<1> SUFFICES ASSUME IInv, RunInference PROVE IInv'
  OBVIOUS
<1>1. /\ TypeOK /\ RingInv /\ JointsInv /\ ActionsInv /\ SeenInv /\ CommandInv
      /\ Sample /\ Due /\ CountInference /\ Observe /\ Finish /\ UNCHANGED sick
      /\ active
  BY DEF IInv, RunInference, Sample
<1>2. PICK o \in Outputs :
        /\ actions' = [i \in 1..Recall |->
                         IF i = 1 THEN [new |-> TRUE, nan |-> o.action = "nan"]
                         ELSE actions[i - 1]]
        /\ desired' = o.action /\ hidden' = o.hidden
  BY DEF RunInference
<1>3. /\ o.action \in {"policy", "nan"} /\ o.hidden \in BOOLEAN
      /\ hidden => o.action = "nan"
  <2>1. CASE hidden \/ \E i \in 1..Recall : actions[i].nan
    <3>1. o = [action |-> "nan", hidden |-> TRUE]
      BY <2>1 DEF Outputs
    <3> QED BY <3>1
  <2>2. CASE ~(hidden \/ \E i \in 1..Recall : actions[i].nan)
    <3>1. o \in [action : {"policy", "nan"}, hidden : BOOLEAN]
      BY <2>2 DEF Outputs
    <3> QED BY <2>2, <3>1
  <2> QED BY <2>1, <2>2
<1>4. RingInv' /\ ring' \in [Slots -> BOOLEAN] /\ loop' \in 0..MaxLoop
  BY <1>1, SampleFills, SampleCounts
<1>5. /\ ctrl' = ctrl + 1 /\ ctrl' = (loop' + 1) \div Window
      /\ apply' \in BOOLEAN
      /\ joints' \in [History -> BOOLEAN] /\ JointsInv'
      /\ seen' \in [joints : BOOLEAN, actions : BOOLEAN] /\ JointsSettle'
      /\ ctrl' > Recall => seen'.actions
  BY <1>1, <1>4, InferenceObserves
<1>6. ctrl \in Nat
  BY <1>1, SampleCounts
<1>7. desired' \in Origin /\ (sick => desired' = "nan" \/ (hidden' /\ ~apply'))
  BY <1>1, <1>2, <1>3 DEF CommandInv, Origin
<1>8. apply' => ctrl' > Warmup /\ desired' # "default"
  <2>1. desired' # "default"
    BY <1>2, <1>3
  <2>2. apply => ctrl > Warmup
    BY <1>1 DEF CommandInv
  <2>3. apply' => apply \/ ctrl' > Warmup
    BY <1>1 DEF CountInference
  <2> QED BY <2>1, <2>2, <2>3, <1>5, <1>6, SizesAssumption
<1>9. /\ CommandInv' /\ active' \in BOOLEAN
      /\ filtered' \in Origin /\ qdes' \in Origin \cup {"none"}
  BY <1>1, <1>7, <1>8, FinishChecks
<1>10. /\ actions \in [1..Recall -> [new : BOOLEAN, nan : BOOLEAN]]
       /\ \A i \in 1..Recall : i # 1 => i - 1 \in 1..Recall
  BY <1>1, SizesAssumption DEF TypeOK
<1>11. actions' \in [1..Recall -> [new : BOOLEAN, nan : BOOLEAN]]
  <2>1. \A i \in 1..Recall : i # 1 =>
          actions[i - 1] \in [new : BOOLEAN, nan : BOOLEAN]
    BY <1>10
  <2>2. [new |-> TRUE, nan |-> o.action = "nan"] \in [new : BOOLEAN, nan : BOOLEAN]
    OBVIOUS
  <2> QED BY <1>2, <2>1, <2>2
<1>12. ActionsInv'
  <2> SUFFICES ASSUME NEW i \in 1..Recall, i <= ctrl' PROVE actions'[i].new
    BY DEF ActionsInv
  <2>1. CASE i = 1
    BY <1>2, <2>1
  <2>2. CASE i # 1
    <3>1. i - 1 \in 1..Recall /\ i - 1 <= ctrl
      BY <1>5, <1>6, <1>10, <2>2
    <3>2. actions[i - 1].new
      BY <1>1, <3>1 DEF ActionsInv
    <3> QED BY <1>2, <2>2, <3>2
  <2> QED BY <2>1, <2>2
<1>13. hidden' \in BOOLEAN /\ sick' \in BOOLEAN
  BY <1>1, <1>2, <1>3 DEF TypeOK
<1>14. TypeOK'
  BY <1>4, <1>5, <1>7, <1>9, <1>11, <1>13 DEF TypeOK
<1> QED BY <1>4, <1>5, <1>9, <1>12, <1>14 DEF IInv, SeenInv

(* The session is over, but the observation was made.                      *)
LEMMA ThrowKeeps == IInv /\ InferenceThrows => IInv'
<1> SUFFICES ASSUME IInv, InferenceThrows PROVE IInv'
  OBVIOUS
<1>1. /\ TypeOK /\ RingInv /\ JointsInv /\ ActionsInv /\ CommandInv
      /\ Sample /\ Due /\ CountInference /\ Observe /\ active' = FALSE
      /\ UNCHANGED <<actions, hidden, desired, filtered, qdes, sick>>
  BY DEF IInv, InferenceThrows
<1>2. RingInv' /\ ring' \in [Slots -> BOOLEAN] /\ loop' \in 0..MaxLoop
  BY <1>1, SampleFills, SampleCounts
<1>3. /\ ctrl' = (loop' + 1) \div Window /\ apply' \in BOOLEAN
      /\ joints' \in [History -> BOOLEAN] /\ JointsInv'
      /\ seen' \in [joints : BOOLEAN, actions : BOOLEAN] /\ JointsSettle'
  BY <1>1, <1>2, InferenceObserves
<1>4. TypeOK'
  BY <1>1, <1>2, <1>3 DEF TypeOK
<1>5. ActionsInv' /\ SeenInv' /\ CommandInv'
  BY <1>1, <1>3 DEF ActionsInv, SeenInv, CommandInv, OnlyPolicyIsCommanded
<1> QED BY <1>2, <1>3, <1>4, <1>5 DEF IInv

(* The invariant holds always.                                             *)
LEMMA Inductive == Spec => []IInv
<1>1. IInv /\ [Next]_vars => IInv'
  <2>1. IInv /\ UNCHANGED vars => IInv'
    BY DEF IInv, TypeOK, RingInv, JointsInv, ActionsInv, SeenInv, CommandInv,
       JointsSettle, OnlyPolicyIsCommanded, vars
  <2>2. IInv => TypeOK
    BY DEF IInv
  <2> QED BY <2>1, <2>2, EnterKeeps, LeaveKeeps, CycleKeeps, InferenceKeeps,
         ThrowKeeps DEF Next, Run
<1> QED BY <1>1, Initially, PTL DEF Spec

-----------------------------------------------------------------------------
(* The theorems.                                                           *)

(* All variables keep their types, and ctrl_step_count_ counts every       *)
(* Window-th cycle of the session (FSM_State_RL.cpp, run_state).           *)
THEOREM PolicyTypes == Spec => []TypeOK
<1>1. IInv => TypeOK
  BY DEF IInv
<1> QED BY <1>1, Inductive, PTL

(* No NaN, no jump to the default pose and nothing of a session that       *)
(* started with a broken hidden state is ever sent to the legs.            *)
THEOREM PolicyAloneCommands == Spec => []OnlyPolicyIsCommanded
<1>1. IInv => OnlyPolicyIsCommanded
  BY DEF IInv, CommandInv
<1> QED BY <1>1, Inductive, PTL

(* The warm-up covers the previous actions whenever it is no shorter than  *)
(* their number (WarmupAssumption).                                        *)
THEOREM WarmupIsEnough == Spec => []WarmupCoversActions
<1>1. IInv => WarmupCoversActions
  <2> SUFFICES ASSUME IInv, active, apply PROVE seen.actions
    BY DEF WarmupCoversActions
  <2>1. ctrl > Warmup /\ loop \in Nat /\ ctrl = (loop + 1) \div Window
    BY SizesAssumption DEF IInv, CommandInv, TypeOK
  <2>2. ctrl > Recall
    BY <2>1, SizesAssumption, WarmupAssumption
  <2> QED BY <2>2 DEF IInv, SeenInv
<1> QED BY <1>1, Inductive, PTL

(* The joint observations are this session's own from the inference number *)
(* Interval * (Steps - 1) + 2 on, whatever the sizes.                      *)
THEOREM JointsAreSettled == Spec => []JointsSettle
<1>1. IInv => JointsSettle
  BY DEF IInv, SeenInv
<1> QED BY <1>1, Inductive, PTL
===============================================================================
