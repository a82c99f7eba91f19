------------------------------- MODULE FSMNames -------------------------------
(***************************************************************************)
(* The vocabulary shared by the modules about the control state machine:   *)
(* the states of robot_ctrl/FSM, the operator modes of the remote          *)
(* controller, and which mode asks for which state.                        *)
(***************************************************************************)

(* The states the ControlFSM object owns.  RL_WALK_2 is a name of the      *)
(* enumeration that no state object carries, so no robot is ever in it.    *)
FSMState == {"PASSIVE", "STAND_UP", "SIT_DOWN", "DAMPING", "RL", "USER_INTERFACE"}

(* The values rc_complete assigns to rc_control_.mode (0 = PASSIVE).       *)
RcMode == {"PASSIVE", "RL_WALK", "RL_WALK_2", "RECOVER_STAND", "SITDOWN",
           "DAMPING", "USER_INTERFACE"}

(* The state a mode asks for.  Nothing answers RL_WALK_2.                  *)
Goal == [PASSIVE        |-> "PASSIVE",
         RL_WALK        |-> "RL",
         RECOVER_STAND  |-> "STAND_UP",
         SITDOWN        |-> "SIT_DOWN",
         DAMPING        |-> "DAMPING",
         USER_INTERFACE |-> "USER_INTERFACE"]

(* "No request is waiting".                                                *)
NoAsk == "none"
===============================================================================
