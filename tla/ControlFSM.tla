------------------------------ MODULE ControlFSM ------------------------------
(***************************************************************************)
(* The 500 Hz control cycle of robot_ctrl/FSM (ControlFSM_run) with the    *)
(* run/enter/exit/is_busy methods of its six states, followed by           *)
(* RobotRunner::finalStep's WriteToCommand, against a remote-controller    *)
(* thread that stores into rc_control_.mode at any moment.                 *)
(*                                                                         *)
(* The cycle reads `mode' again at every else-if and finally stores into   *)
(* it, without rc_mtx_; each of these accesses is a step of its own here.  *)
(* Joint set-points are abstracted to who wrote them last, which is what   *)
(* the states leave behind for one another.                                *)
(*                                                                         *)
(* Left out: the danger counters of the safety check (Control_FSM.cpp      *)
(* 164-190), whose only effect in this build is a log line, and            *)
(* setContactPhase, which no state reads back.                             *)
(***************************************************************************)
EXTENDS Naturals, Sequences, FSMNames

CONSTANTS
  StandTicks,    \* cycles for which STAND_UP is busy: stand_time_ / control_dt_
  RecoverTicks,  \* cycles of the direct stand motion (constexpr t_stand = 1 s)
  SitTicks,      \* cycles for which SIT_DOWN is busy: sit_down_time_ / control_dt_
  EnableAfter,   \* WriteToCommand calls before MIT mode (50)
  EnableCap      \* where enable_counter saturates (80)

ASSUME TicksAssumption ==
  /\ StandTicks \in Nat \ {0} /\ SitTicks \in Nat \ {0} /\ RecoverTicks \in Nat \ {0}
  /\ RecoverTicks <= StandTicks
  /\ EnableAfter \in Nat \ {0} /\ EnableCap \in Nat \ {0}
  /\ EnableAfter <= EnableCap

VARIABLES
  mode,     \* rc_control_.mode, shared with the remote-controller thread
  cur,      \* state_current_
  next,     \* state_next_
  fold,     \* s_standup->fold_flag_
  iter,     \* state_iter_ of the two timed states
  applied,  \* s_rl->apply_action
  step,     \* where the cycle stands
  k,        \* which test of the else-if chain comes next
  cmd,      \* leg_command: who wrote each group of fields last
  usb,      \* runner_usbcmd_ as last written by WriteToCommand
  enable,   \* enable_counter
  \* history variables: they constrain nothing
  ask,      \* the last mode the operator asked for, until used or overwritten
  late,     \* a request arrived after this cycle began to test `mode'
  from,     \* the state left when cur was entered
  fault     \* progress of the fallback after an exception in run_state

ctlVars  == <<cur, next, fold, iter, applied>>
outVars  == <<cmd, usb, enable>>
histVars == <<ask, late, from, fault>>
vars     == <<mode, ctlVars, step, k, outVars, histVars>>

-----------------------------------------------------------------------------
Timed    == {"STAND_UP", "SIT_DOWN"}
Duration == [STAND_UP |-> StandTicks, SIT_DOWN |-> SitTicks]

(* Mistake: a motion that counts as ended one cycle early.                 *)
BusyOneShort == cur \in Timed /\ iter[cur] + 1 < Duration[cur]

(* is_busy(): only the timed states ever are.                              *)
Busy == cur \in Timed /\ iter[cur] < Duration[cur]

(* Mistakes in the chains: a policy started from the floor; standing up    *)
(* straight out of user control; a stand that ignores the stop request.    *)
TestsRlFromDamping ==
  [PASSIVE        |-> <<"RECOVER_STAND", "USER_INTERFACE">>,
   STAND_UP       |-> <<"SITDOWN", "DAMPING", "RL_WALK">>,
   SIT_DOWN       |-> <<"PASSIVE", "DAMPING", "RECOVER_STAND">>,
   DAMPING        |-> <<"RECOVER_STAND", "PASSIVE", "RL_WALK">>,
   RL             |-> <<"RECOVER_STAND", "DAMPING">>,
   USER_INTERFACE |-> <<"DAMPING">>]

TestsUserToStand ==
  [TestsRlFromDamping EXCEPT !.DAMPING = <<"RECOVER_STAND", "PASSIVE">>,
                             !.USER_INTERFACE = <<"DAMPING", "RECOVER_STAND">>]

TestsNoStopInStand ==
  [TestsRlFromDamping EXCEPT !.DAMPING = <<"RECOVER_STAND", "PASSIVE">>,
                             !.STAND_UP = <<"SITDOWN", "RL_WALK">>]

(* The else-if chain of each state, in the order of the code.              *)
Tests == [PASSIVE        |-> <<"RECOVER_STAND", "USER_INTERFACE">>,
          STAND_UP       |-> <<"SITDOWN", "DAMPING", "RL_WALK">>,
          SIT_DOWN       |-> <<"PASSIVE", "DAMPING", "RECOVER_STAND">>,
          DAMPING        |-> <<"RECOVER_STAND", "PASSIVE">>,
          RL             |-> <<"RECOVER_STAND", "DAMPING">>,
          USER_INTERFACE |-> <<"DAMPING">>]

(* Mistake: the RL branch copied from STAND_UP stores its mode.            *)
OwnCopied == [PASSIVE  |-> "PASSIVE",  STAND_UP |-> "RECOVER_STAND",
              SIT_DOWN |-> "SITDOWN",  DAMPING  |-> "DAMPING",
              RL       |-> "RECOVER_STAND"]

(* The mode the final else stores; USER_INTERFACE has no else.             *)
Own == [PASSIVE  |-> "PASSIVE",  STAND_UP |-> "RECOVER_STAND",
        SIT_DOWN |-> "SITDOWN",  DAMPING  |-> "DAMPING",
        RL       |-> "RL_WALK"]

(* leg_command, by who wrote last: pos is q_des, kp and kd of the legs,     *)
(* vel their qd_des, tau their tau_ff; whl is qd_des, tau_ff, kp and kd of *)
(* the wheels, whlq their q_des.                                           *)
Command == [pos  : {"zero", "fold", "stand", "sit", "damp", "rl", "user"},
            vel  : {"zero", "moving", "user"},
            tau  : {"zero", "user"},
            whl  : {"zero", "hold", "damp", "user"},
            whlq : {"zero", "user"}]

(* Leg_Controller::Zero_Command.                                           *)
ZeroCommand == [pos |-> "zero", vel |-> "zero", tau |-> "zero",
                whl |-> "zero", whlq |-> "zero"]

DampCommand == [ZeroCommand EXCEPT !.pos = "damp", !.whl = "damp"]

(* WriteToCommand: what reaches the motors.  The lines that would copy a   *)
(* leg's tau_ff are commented out.                                         *)
Wire(c) == [pos |-> c.pos, vel |-> c.vel, whl |-> c.whl, whlq |-> c.whlq]

WireCommand == {Wire(c) : c \in Command}

ChipMode == IF enable < EnableAfter THEN "enable" ELSE "mit"

-----------------------------------------------------------------------------
Init ==
  /\ mode = "PASSIVE" /\ cur = "PASSIVE" /\ next = "PASSIVE"
  /\ fold = FALSE /\ applied = FALSE
  /\ iter = [s \in Timed |-> 0]
  /\ step = "idle" /\ k = 1
  /\ cmd = ZeroCommand /\ usb = Wire(ZeroCommand) /\ enable = 0
  /\ ask = NoAsk /\ late = FALSE /\ from = "PASSIVE" /\ fault = "none"

(* The remote-controller thread stores a mode (rc_complete).               *)
RcWrite(m) ==
  /\ mode' = m
  /\ ask' = m
  /\ late' = (late \/ step \in {"test", "default"})
  /\ UNCHANGED <<ctlVars, step, k, outVars, from, fault>>

(* The timer fires.  The chain is skipped while a switch is pending or the *)
(* current state is busy.                                                  *)
StartCycle ==
  /\ step = "idle"
  /\ step' = IF next = cur /\ ~Busy THEN "test" ELSE "switch"
  /\ late' = FALSE
  /\ UNCHANGED <<mode, ctlVars, k, outVars, ask, from, fault>>

(* Mistake: fold_flag_ set for every way into STAND_UP.                    *)
ChooseAlwaysFolds ==
  /\ step = "test"
  /\ mode = Tests[cur][k]
  /\ next' = Goal[mode]
  /\ fold' = (fold \/ next' = "STAND_UP")
  /\ step' = "switch" /\ k' = 1
  /\ ask' = NoAsk
  /\ UNCHANGED <<mode, cur, iter, applied, outVars, late, from, fault>>

(* One test of the chain succeeds: the next state is chosen.               *)
Choose ==
  /\ step = "test"
  /\ mode = Tests[cur][k]
  /\ next' = Goal[mode]
  /\ fold' = IF next' = "STAND_UP" THEN cur # "RL" ELSE fold
  /\ step' = "switch" /\ k' = 1
  /\ ask' = NoAsk
  /\ UNCHANGED <<mode, cur, iter, applied, outVars, late, from, fault>>

(* Mistake: one test too many.                                             *)
TestFailsOneTooFar ==
  /\ step = "test"
  /\ mode # Tests[cur][k]
  /\ k' = IF k <= Len(Tests[cur]) THEN k + 1 ELSE 1
  /\ step' = IF k <= Len(Tests[cur]) THEN "test"
             ELSE IF cur = "USER_INTERFACE" THEN "switch" ELSE "default"
  /\ UNCHANGED <<mode, ctlVars, outVars, histVars>>

(* One test of the chain fails.                                            *)
TestFails ==
  /\ step = "test"
  /\ mode # Tests[cur][k]
  /\ k' = IF k < Len(Tests[cur]) THEN k + 1 ELSE 1
  /\ step' = IF k < Len(Tests[cur]) THEN "test"
             ELSE IF cur = "USER_INTERFACE" THEN "switch" ELSE "default"
  /\ UNCHANGED <<mode, ctlVars, outVars, histVars>>

(* The final else: whatever mode holds by now is overwritten.              *)
StoreOwn ==
  /\ step = "default"
  /\ mode' = Own[cur]
  /\ ask' = NoAsk
  /\ step' = "switch"
  /\ UNCHANGED <<ctlVars, k, outVars, late, from, fault>>

(* state_on_exit of the old state and state_on_enter of the new one.  No   *)
(* state refuses to be entered.  The UI thread start/stop that belongs to  *)
(* USER_INTERFACE is in module UserInterface.                              *)
Switch ==
  /\ step = "switch"
  /\ next # cur /\ ~Busy
  /\ cur' = next /\ from' = cur
  /\ fold' = IF cur = "STAND_UP" THEN FALSE ELSE fold
  /\ iter' = [s \in Timed |-> IF s = next \/ (s = cur /\ s = "STAND_UP") THEN 0
                              ELSE iter[s]]
  /\ applied' = IF next = "RL" THEN FALSE ELSE applied
  /\ step' = "run"
  /\ UNCHANGED <<mode, next, k, outVars, ask, late, fault>>

StaySwitch ==
  /\ step = "switch"
  /\ next = cur \/ Busy
  /\ step' = "run"
  /\ UNCHANGED <<mode, ctlVars, k, outVars, histVars>>

-----------------------------------------------------------------------------
(* state_current_->run_state().                                            *)

(* What the six run_state methods have in common here.                     *)
Ran == /\ step = "run" /\ step' = "publish"
       /\ UNCHANGED <<cur, k, usb, enable, late, from>>

RunPassive == /\ Ran /\ cur = "PASSIVE"
              /\ cmd' = ZeroCommand
              /\ UNCHANGED <<mode, next, fold, iter, applied, ask, fault>>

RunDamping == /\ Ran /\ cur = "DAMPING"
              /\ cmd' = DampCommand
              /\ UNCHANGED <<mode, next, fold, iter, applied, ask, fault>>

(* One more iteration of a timed state.  The count saturates at Duration,  *)
(* where is_busy and the trajectory parameter min(t, 1) stop depending on  *)
(* it (the 32-bit wrap after 99 days in one state is out of scope).        *)
Tick(s) == iter' = [iter EXCEPT ![s] = IF @ < Duration[s] THEN @ + 1 ELSE @]

(* The set-points of a motion: moving until its end, where the derivative  *)
(* of the Bezier curve, and so qd_des, is zero.  tau_ff and whl_q_des are  *)
(* not written.                                                            *)
Follow(who, ended) ==
  cmd' = [cmd EXCEPT !.pos = who,
                     !.vel = IF ended THEN "zero" ELSE "moving",
                     !.whl = "hold"]

RunStandUp ==
  /\ Ran /\ cur = "STAND_UP"
  /\ Tick("STAND_UP")
  /\ Follow(IF fold /\ 3 * iter'["STAND_UP"] < StandTicks THEN "fold" ELSE "stand",
            iter'["STAND_UP"] >= IF fold THEN StandTicks ELSE RecoverTicks)
  /\ UNCHANGED <<mode, next, fold, applied, ask, fault>>

RunSitDown ==
  /\ Ran /\ cur = "SIT_DOWN"
  /\ Tick("SIT_DOWN")
  /\ Follow("sit", iter'["SIT_DOWN"] >= SitTicks)
  /\ UNCHANGED <<mode, next, fold, applied, ask, fault>>

(* The policy: nothing is commanded until apply_action is set, and then    *)
(* only q_des, kp and kd of the legs (module RLPolicy has the counters).   *)
RunRL ==
  /\ Ran /\ cur = "RL"
  /\ applied' \in {applied, TRUE}
  /\ cmd' = IF applied' THEN [cmd EXCEPT !.pos = "rl"] ELSE cmd
  /\ UNCHANGED <<mode, next, fold, iter, ask, fault>>

(* Mistake: the handler only asks for DAMPING through `mode'.              *)
RunRLThrowsAsks ==
  /\ Ran /\ cur = "RL"
  /\ applied' \in {applied, TRUE}
  /\ mode' = "DAMPING"
  /\ ask' = NoAsk /\ fault' = "thrown"
  /\ UNCHANGED <<next, fold, iter, cmd>>

(* The policy throws (a NaN action, an inference error): the handler       *)
(* commits to DAMPING, and this cycle still publishes the old command.     *)
RunRLThrows ==
  /\ Ran /\ cur = "RL"
  /\ applied' \in {applied, TRUE}
  /\ next' = "DAMPING" /\ mode' = "DAMPING"
  /\ ask' = NoAsk /\ fault' = "thrown"
  /\ UNCHANGED <<fold, iter, cmd>>

(* The user's buffered set-points are copied into every field.             *)
RunUserInterface ==
  /\ Ran /\ cur = "USER_INTERFACE"
  /\ cmd' = [f \in DOMAIN ZeroCommand |-> "user"]
  /\ UNCHANGED <<mode, next, fold, iter, applied, ask, fault>>

(* Mistake: enable_counter starts over at its cap.                         *)
PublishWraps ==
  /\ step = "publish"
  /\ usb' = Wire(cmd)
  /\ enable' = IF enable + 1 > EnableCap THEN 0 ELSE enable + 1
  /\ fault' = IF fault = "thrown" THEN "stale" ELSE "none"
  /\ step' = "idle"
  /\ UNCHANGED <<mode, ctlVars, k, cmd, ask, late, from>>

(* finalStep: WriteToCommand under usb_shared_out_mutex.                   *)
Publish ==
  /\ step = "publish"
  /\ usb' = Wire(cmd)
  /\ enable' = IF enable + 1 > EnableCap THEN EnableCap ELSE enable + 1
  /\ fault' = IF fault = "thrown" THEN "stale" ELSE "none"
  /\ step' = "idle"
  /\ UNCHANGED <<mode, ctlVars, k, cmd, ask, late, from>>

-----------------------------------------------------------------------------
Run == \/ RunPassive \/ RunDamping \/ RunStandUp \/ RunSitDown
       \/ RunRL \/ RunRLThrows \/ RunUserInterface

(* The control thread.                                                     *)
Cycle == \/ StartCycle \/ Choose \/ TestFails \/ StoreOwn
         \/ Switch \/ StaySwitch \/ Run \/ Publish

Next == Cycle \/ \E m \in RcMode : RcWrite(m)

Spec == Init /\ [][Next]_vars

-----------------------------------------------------------------------------
(* Properties.                                                             *)

(* Types; k always points at a test of the current chain.                  *)
TypeOK ==
  /\ mode \in RcMode /\ ask \in RcMode \cup {NoAsk}
  /\ cur \in FSMState /\ next \in FSMState /\ from \in FSMState
  /\ fold \in BOOLEAN /\ applied \in BOOLEAN /\ late \in BOOLEAN
  /\ iter \in [Timed -> Nat]
  /\ step \in {"idle", "test", "default", "switch", "run", "publish"}
  /\ k \in 1..Len(Tests[cur])
  /\ cmd \in Command /\ usb \in WireCommand
  /\ enable \in 0..EnableCap
  /\ fault \in {"none", "thrown", "stale"}

(* The policy writes neither qd_des nor the wheels nor tau_ff (FSM_State_RL  *)
(* 326-346): whatever it commands rides on what the state before it left.  *)
(* That is a finished stand: legs asked to be at rest, wheels braked, no    *)
(* user value anywhere.                                                    *)
RlRidesOnStand ==
  cur = "RL" /\ step = "publish" =>
    /\ cmd.pos \in {"stand", "rl"}
    /\ cmd.vel = "zero" /\ cmd.tau = "zero"
    /\ cmd.whl = "hold" /\ cmd.whlq = "zero"

(* tau_ff and whl_q_des are written by USER_INTERFACE and cleared only by   *)
(* Zero_Command, which STAND_UP, SIT_DOWN and RL never call: no user value  *)
(* may survive in what the other states publish.                           *)
NoUserResidue ==
  step = "publish" /\ cur # "USER_INTERFACE" =>
    \A f \in DOMAIN cmd : cmd[f] # "user"

(* STAND_UP folds the legs first exactly when the robot may be lying: from *)
(* every state but RL (Control_FSM.cpp 48, 93, 109, 123).                  *)
FoldMatchesOrigin ==
  cur = "STAND_UP" => (fold <=> from # "RL")

(* After an exception in run_state one cycle may still publish the old      *)
(* command; the next one publishes damping, whatever the operator asks.    *)
FaultEndsInDamping ==
  step = "publish" /\ fault = "stale" => cmd = DampCommand

Abs == INSTANCE ModeSwitch WITH st <- next

(* A mode is only overwritten unanswered (the final else of the chain) if  *)
(* the current state does not answer it or if it came while the chain was  *)
(* already being tested: a request made between two cycles is never lost.  *)
OnlyLateRequestsAreLost ==
  step = "default" /\ ask # NoAsk /\ ~late => ask \notin Abs!Answers[cur]

(* Every change of state answers one request of the operator, made since    *)
(* the last change, along an allowed edge -- or is the fallback.  No mode   *)
(* the machine stored itself, and no old request, moves the robot.         *)
ImplementsModeSwitch == Abs!Spec

(* A timed motion is not left before the legs were told to rest at its end.*)
MotionsComplete ==
  [][cur' # cur /\ cur \in Timed => cmd.vel = "zero" /\ usb.vel = "zero"]_vars

(* Once in MIT mode the motor boards are never sent the enable flag again: *)
(* enable_counter saturates above its own threshold.                       *)
MitModeKept == [][ChipMode = "mit" => ChipMode' = "mit"]_vars
===============================================================================
