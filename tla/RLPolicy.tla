------------------------------- MODULE RLPolicy -------------------------------
(***************************************************************************)
(* FSM_State_RL: one session of the policy after another.  Each control    *)
(* cycle samples the joints into a ring of Window columns; every Window-th *)
(* one averages the ring into a history of joint observations, runs the    *)
(* network on it, its last actions and its hidden state, and sets the      *)
(* desired joint positions.  Nothing of the ring, the histories and the    *)
(* hidden state is reset when the state is entered again.                  *)
(*                                                                         *)
(* A sample is abstracted to the session it was taken in (this one or not),*)
(* a vector to whether it is NaN and where it comes from.                  *)
(***************************************************************************)
EXTENDS Naturals

CONSTANTS
  Window,    \* columns of the ring, and cycles per inference (10)
  Steps,     \* joint observations given to the network (4)
  Interval,  \* columns between two of them (2)
  Recall,    \* previous actions given to the network (3)
  Warmup,    \* inferences of a session before its actions are applied (4)
  MaxLoop    \* bound on the cycles of one session

ASSUME SizesAssumption ==
  /\ Window \in Nat \ {0, 1} /\ Steps \in Nat \ {0} /\ Interval \in Nat \ {0}
  /\ Recall \in Nat \ {0} /\ Warmup \in Nat /\ MaxLoop \in Nat

(* The warm-up is longer than the memory of actions (4 inferences, 3).     *)
ASSUME WarmupAssumption == Recall <= Warmup

VARIABLES
  active,    \* FSM_State_RL is the current state and has not thrown
  loop,      \* loop_step_count_
  ctrl,      \* ctrl_step_count_
  apply,     \* apply_action
  ring,      \* raw_jpos_buffer_, raw_jvel_buffer_: column is of this session
  joints,    \* joint_pos_buffer, joint_vel_buffer: column is of this session
  actions,   \* prev_actions_
  hidden,    \* hx is NaN
  desired,   \* desired_leg_jpos_
  filtered,  \* desired_leg_jpos_filtered_
  qdes,      \* q_des of the legs, as this session wrote them
  seen,      \* history: which inputs of the last inference were of this session only
  sick       \* history: hx was NaN when the state was entered

vars == <<active, loop, ctrl, apply, ring, joints, actions, hidden, desired,
          filtered, qdes, seen, sick>>

Slots   == 0..(Window - 1)
History == 0..(Steps * Interval - 1)
Shown   == {Interval * i : i \in 0..(Steps - 1)}
Origin  == {"default", "policy", "nan"}

(* A vector mixed from two others, and a filter's output.                  *)
Blend(a, b) == CASE "nan" \in {a, b}    -> "nan"
                 [] "policy" \in {a, b} -> "policy"
                 [] OTHER               -> "default"

-----------------------------------------------------------------------------
(* After load_policy, which ran one inference on zeroed buffers.           *)
Init ==
  /\ active = FALSE /\ loop = 0 /\ ctrl = 0 /\ apply = TRUE
  /\ ring = [i \in Slots |-> FALSE] /\ joints = [i \in History |-> FALSE]
  /\ actions = [i \in 1..Recall |-> [new |-> FALSE, nan |-> FALSE]]
  /\ hidden = FALSE
  /\ desired = "default" /\ filtered = "default" /\ qdes = "none"
  /\ seen = [joints |-> FALSE, actions |-> FALSE] /\ sick = FALSE

(* Mistake: the inferences of the last session keep counting.              *)
EnterKeepsCount ==
  /\ ~active
  /\ active' = TRUE
  /\ loop' = 0 /\ apply' = FALSE
  /\ desired' = "default" /\ filtered' = "default"
  /\ ring' = [i \in Slots |-> FALSE] /\ joints' = [i \in History |-> FALSE]
  /\ actions' = [i \in 1..Recall |-> [actions[i] EXCEPT !.new = FALSE]]
  /\ qdes' = "none" /\ seen' = [joints |-> FALSE, actions |-> FALSE]
  /\ sick' = hidden
  /\ UNCHANGED <<ctrl, hidden>>

(* state_on_enter.  What the buffers hold now belongs to an earlier session;*)
(* hx.resize keeps the hidden state, which already has its size.           *)
Enter ==
  /\ ~active
  /\ active' = TRUE
  /\ loop' = 0 /\ ctrl' = 0 /\ apply' = FALSE
  /\ desired' = "default" /\ filtered' = "default"
  /\ ring' = [i \in Slots |-> FALSE] /\ joints' = [i \in History |-> FALSE]
  /\ actions' = [i \in 1..Recall |-> [actions[i] EXCEPT !.new = FALSE]]
  /\ qdes' = "none" /\ seen' = [joints |-> FALSE, actions |-> FALSE]
  /\ sick' = hidden
  /\ UNCHANGED hidden

(* The operator has the state left; state_on_exit does nothing.            *)
Leave ==
  /\ active /\ active' = FALSE
  /\ UNCHANGED <<loop, ctrl, apply, ring, joints, actions, hidden, desired,
                 filtered, qdes, seen, sick>>

(* Mistake: the ring is one column too short.                              *)
SampleShortRing ==
  /\ active /\ loop < MaxLoop
  /\ loop' = loop + 1
  /\ ring' = [ring EXCEPT ![loop' % (Window - 1)] = TRUE]

(* The first half of run_state: count the cycle, sample the joints.        *)
Sample ==
  /\ active /\ loop < MaxLoop
  /\ loop' = loop + 1
  /\ ring' = [ring EXCEPT ![loop' % Window] = TRUE]

Due == (loop' + 1) % Window = 0

(* Mistake: the set-points are not checked.                                *)
FinishUnchecked ==
  /\ filtered' = Blend(desired', filtered)
  /\ qdes' = IF apply' THEN filtered' ELSE qdes
  /\ UNCHANGED active

(* The second half: throw on a NaN, else filter and, once the actions are  *)
(* applied, write q_des.  A throw ends the session (Control_FSM.cpp 213).  *)
Finish ==
  IF desired' = "nan"
  THEN active' = FALSE /\ UNCHANGED <<filtered, qdes>>
  ELSE /\ filtered' = Blend(desired', filtered)
       /\ qdes' = IF apply' THEN filtered' ELSE qdes
       /\ UNCHANGED active

(* A cycle without inference.                                              *)
RunCycle ==
  /\ Sample /\ ~Due
  /\ UNCHANGED <<ctrl, apply, joints, actions, hidden, desired, seen, sick>>
  /\ Finish

(* Mistake: actions are applied after as many inferences as there are      *)
(* previous actions to show.                                               *)
CountInferenceEarly ==
  /\ ctrl' = ctrl + 1
  /\ apply' = (apply \/ ctrl' >= Recall)

(* Every inference counts; those after the warm-up are applied.            *)
CountInference ==
  /\ ctrl' = ctrl + 1
  /\ apply' = (apply \/ ctrl' > Warmup)

(* The joint histories shift by the mean of the ring.                      *)
Observe ==
  /\ joints' = [i \in History |-> IF i = 0 THEN \A s \in Slots : ring'[s]
                                  ELSE joints[i - 1]]
  /\ seen' = [joints  |-> \A i \in Shown : joints'[i],
              actions |-> \A i \in 1..Recall : actions[i].new]

(* What the network, an opaque file, may compute: a NaN from nowhere (an   *)
(* overflow, a sensor value), and only NaN from a NaN.                     *)
Outputs == IF hidden \/ \E i \in 1..Recall : actions[i].nan
           THEN {[action |-> "nan", hidden |-> TRUE]}
           ELSE [action : {"policy", "nan"}, hidden : BOOLEAN]

(* A cycle with inference: prev_actions_, desired_leg_jpos_ and hx take    *)
(* whatever the network returns; only then is anything checked.            *)
RunInference ==
  /\ Sample /\ Due
  /\ CountInference /\ Observe
  /\ \E o \in Outputs :
       /\ actions' = [i \in 1..Recall |->
                        IF i = 1 THEN [new |-> TRUE, nan |-> o.action = "nan"]
                        ELSE actions[i - 1]]
       /\ desired' = o.action
       /\ hidden' = o.hidden
  /\ Finish
  /\ UNCHANGED sick

(* The session's Run throws before anything is copied.                     *)
InferenceThrows ==
  /\ Sample /\ Due
  /\ CountInference /\ Observe
  /\ active' = FALSE
  /\ UNCHANGED <<actions, hidden, desired, filtered, qdes, sick>>

Run == RunCycle \/ RunInference \/ InferenceThrows

Next == Enter \/ Leave \/ Run

Spec == Init /\ [][Next]_vars

-----------------------------------------------------------------------------
(* Types; every Window-th cycle of a session counts one inference.         *)
TypeOK ==
  /\ active \in BOOLEAN /\ apply \in BOOLEAN /\ hidden \in BOOLEAN /\ sick \in BOOLEAN
  /\ loop \in 0..MaxLoop /\ ctrl = (loop + 1) \div Window
  /\ ring \in [Slots -> BOOLEAN] /\ joints \in [History -> BOOLEAN]
  /\ actions \in [1..Recall -> [new : BOOLEAN, nan : BOOLEAN]]
  /\ desired \in Origin /\ filtered \in Origin /\ qdes \in Origin \cup {"none"}
  /\ seen \in [joints : BOOLEAN, actions : BOOLEAN]

(* The legs are only ever sent positions the policy computed in this        *)
(* session: no NaN gets past the check and no jump to the default pose     *)
(* happens on entry, whatever the previous session left behind.  A NaN in  *)
(* the hidden state outlives the session, so that no later one gets as far *)
(* as commanding a position: it fails safe, but for good.                  *)
OnlyPolicyIsCommanded == qdes \in {"none", "policy"} /\ (sick => qdes = "none")

(* When the first action is applied, all the previous actions the network  *)
(* was shown are its own of this session: the warm-up covers prev_actions_,*)
(* which nobody resets.                                                    *)
WarmupCoversActions == active /\ apply => seen.actions

(* FSM_State_RL.cpp 181: "wait for the observation buffers to be filled".  *)
(* When the first action is applied, all the joint observations the        *)
(* network was shown were taken in this session.                           *)
WarmupCoversJoints == active /\ apply => seen.joints

(* How long it really takes: the oldest column shown stems from the second *)
(* inference of the session, the first whose ring is filled.               *)
JointsSettle == ctrl >= Interval * (Steps - 1) + 2 => seen.joints
===============================================================================
