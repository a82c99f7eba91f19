------------------------------ MODULE RobotRunner ------------------------------
(***************************************************************************)
(* The threads of the real robot around one control cycle (run_step):      *)
(* the estimator reads the IMU's buffer under imu_mtx, setupStep the joint *)
(* data, the pose is written to mj_data_ under rerun_mtx, the controller   *)
(* computes and finalStep writes the command.  The motor board link is     *)
(* module Usb2Can; this one adds the IMU, whose callback runs in a thread   *)
(* of its own and submits its transfer again even after an error, and the  *)
(* 50 Hz logging thread.                                                   *)
(*                                                                         *)
(* IMU packets are numbered like joint samples.  The yaw reference is the   *)
(* number of the packet it was taken from, 0 the zeroed buffer, whose yaw  *)
(* is zero.                                                                *)
(***************************************************************************)
EXTENDS Usb2Can

CONSTANT MaxMade  \* bound on the IMU packets told apart

ASSUME MadeAssumption == MaxMade \in Nat

VARIABLES
  at,       \* how far run_step has come beside ctl
  imu,      \* where the IMU thread stands
  imuRx,    \* its transfer: "flying", "ended" or "refused"
  made,     \* number of packets the IMU sent
  received, \* imu_data_, the buffer of the transfer
  imuData,  \* imu_data_buffer, alias runner_imudata_
  est,      \* result_ of the estimator
  ref,      \* _ori_ini_inv; NoRef while first_vist_
  pose,     \* mj_data_: the cycle whose orientation and joints it holds
  logger    \* where the logging thread stands

imuVars   == <<imu, imuRx, made, received, imuData>>
cycleVars == <<at, est, ref, pose>>
linkVars  == vars
allVars   == <<vars, imuVars, cycleVars, logger>>

NoRef == MaxMade + 1

ImuHoldsLock == imu = "storing"
CtlHoldsImu  == at = "estimating"
CtlHoldsPose == at = "posing"
LogHoldsPose == logger = "logging"

RunnerInit ==
  /\ Init
  /\ at = "start" /\ est = Zero /\ ref = NoRef /\ pose = Zero
  /\ imu = "events" /\ imuRx = "flying" /\ made = 0 /\ received = 0 /\ imuData = Zero
  /\ logger = "asleep"

-----------------------------------------------------------------------------
(* The IMU thread.                                                         *)

(* A packet is complete.                                                   *)
ImuCompletes ==
  /\ imu = "events" /\ imuRx = "flying"
  /\ imuRx' = "ended" /\ imu' = "received"
  /\ made' = Upto(made + 1, MaxMade) /\ received' = made'
  /\ UNCHANGED <<imuData, linkVars, cycleVars, logger>>

(* "Asy Trans Failed! Try again!", or a wrong checksum: the transfer is    *)
(* submitted again.  The result of that is not looked at: if the device is *)
(* gone libusb refuses, for good.                                          *)
ImuFails ==
  /\ MayFail
  /\ imu = "events" /\ imuRx = "flying"
  /\ imuRx' \in {"flying", "refused"}
  /\ UNCHANGED <<imu, made, received, imuData, linkVars, cycleVars, logger>>

(* Mistake: the packet is stored without imu_mtx.                          *)
ImuStoresUnlocked ==
  /\ imu = "received"
  /\ imuData' = [imuData EXCEPT !.first = received]
  /\ imu' = "storing"
  /\ UNCHANGED <<imuRx, made, received, linkVars, cycleVars, logger>>

(* Deal_In_Data, under imu_mtx ...                                         *)
ImuStores ==
  /\ imu = "received" /\ ~CtlHoldsImu
  /\ imuData' = [imuData EXCEPT !.first = received]
  /\ imu' = "storing"
  /\ UNCHANGED <<imuRx, made, received, linkVars, cycleVars, logger>>

(* ... and the transfer is submitted again.                                *)
ImuStoresRest ==
  /\ imu = "storing" /\ imu' = "events"
  /\ imuData' = [imuData EXCEPT !.rest = received]
  /\ imuRx' \in (IF MayFail THEN {"flying", "refused"} ELSE {"flying"})
  /\ UNCHANGED <<made, received, linkVars, cycleVars, logger>>

-----------------------------------------------------------------------------
(* One control cycle.                                                      *)

(* Mistake: first_vist_ stays set.                                         *)
EstimateVisitsAgain ==
  /\ ctl = "start" /\ at = "start" /\ ~ImuHoldsLock
  /\ est' = [est EXCEPT !.first = imuData.first]
  /\ ref' = imuData.first
  /\ at' = "estimating"
  /\ UNCHANGED <<pose, linkVars, imuVars, logger>>

(* Mistake: the first cycle waits for a packet to take the reference from. *)
EstimateWaits ==
  /\ ctl = "start" /\ at = "start" /\ ~ImuHoldsLock /\ imuData.rest # 0
  /\ est' = [est EXCEPT !.first = imuData.first]
  /\ ref' = IF ref = NoRef THEN imuData.first ELSE ref
  /\ at' = "estimating"
  /\ UNCHANGED <<pose, linkVars, imuVars, logger>>

(* The orientation is read; the first cycle takes the yaw reference, from  *)
(* whatever the buffer holds.                                              *)
Estimate ==
  /\ ctl = "start" /\ at = "start" /\ ~ImuHoldsLock
  /\ est' = [est EXCEPT !.first = imuData.first]
  /\ ref' = IF ref = NoRef THEN imuData.first ELSE ref
  /\ at' = "estimating"
  /\ UNCHANGED <<pose, linkVars, imuVars, logger>>

(* Angular velocity and acceleration.                                      *)
EstimateRest ==
  /\ at = "estimating"
  /\ est' = [est EXCEPT !.rest = imuData.rest]
  /\ at' = "estimated"
  /\ UNCHANGED <<ref, pose, linkVars, imuVars, logger>>

RunnerSenses ==
  /\ at = "estimated" /\ (Sense \/ SenseRest)
  /\ UNCHANGED <<imuVars, cycleVars, logger>>

(* Orientation and joints are written to mj_data_ under rerun_mtx ...      *)
Poses ==
  /\ ctl = "sensed" /\ at = "estimated" /\ ~LogHoldsPose
  /\ pose' = [pose EXCEPT !.first = Upto(cycle + 1, MaxCycle)]
  /\ at' = "posing"
  /\ UNCHANGED <<est, ref, linkVars, imuVars, logger>>

(* ... and mj_forward makes the body positions of them.                    *)
PosesRest ==
  /\ at = "posing"
  /\ pose' = [pose EXCEPT !.rest = pose.first]
  /\ at' = "posed"
  /\ UNCHANGED <<est, ref, linkVars, imuVars, logger>>

RunnerComputes ==
  /\ at = "posed" /\ (Compute \/ Command)
  /\ UNCHANGED <<imuVars, cycleVars, logger>>

RunnerEnds ==
  /\ CommandRest
  /\ at' = "start"
  /\ UNCHANGED <<est, ref, pose, imuVars, logger>>

-----------------------------------------------------------------------------
(* The logging thread holds rerun_mtx for as long as a frame takes; it     *)
(* sleeps only for what is left of its 20 ms, which may be nothing.        *)
LogStarts ==
  /\ logger = "asleep" /\ ~CtlHoldsPose
  /\ logger' = "logging"
  /\ UNCHANGED <<linkVars, imuVars, cycleVars>>

LogEnds ==
  /\ logger = "logging"
  /\ logger' = "asleep"
  /\ UNCHANGED <<linkVars, imuVars, cycleVars>>

-----------------------------------------------------------------------------
RunnerCycle == \/ Estimate \/ EstimateRest \/ RunnerSenses \/ Poses \/ PosesRest
               \/ RunnerComputes \/ RunnerEnds

ImuThread == ImuCompletes \/ ImuFails \/ ImuStores \/ ImuStoresRest

BoardLink == (Callback \/ Device) /\ UNCHANGED <<imuVars, cycleVars, logger>>

RunnerNext == RunnerCycle \/ ImuThread \/ BoardLink \/ LogStarts \/ LogEnds

RunnerSpec == RunnerInit /\ [][RunnerNext]_allVars

(* As in Usb2Can: the control and the USB thread go on and get the locks    *)
(* they wait for, rerun_mtx too, which a logging thread that does not sleep *)
(* takes again at once; the others let go of theirs.  The devices need not *)
(* answer, the board's OUT endpoint excepted.                              *)
RunnerFairSpec ==
  /\ RunnerSpec
  /\ SF_allVars(Callback /\ BoardLink) /\ SF_allVars(OutCompletes /\ BoardLink)
  /\ SF_allVars(RunnerCycle)
  /\ WF_allVars(ImuStoresRest) /\ WF_allVars(LogEnds)

-----------------------------------------------------------------------------
(* Types; a logged frame shows the bodies of one cycle, in which mj_forward *)
(* has ended: mj_data_ is not written while it is read.                    *)
RunnerTypeOK ==
  /\ TypeOK
  /\ at \in {"start", "estimating", "estimated", "posing", "posed"}
  /\ imu \in {"events", "received", "storing"}
  /\ imuRx \in {"flying", "ended", "refused"}
  /\ made \in 0..MaxMade /\ received \in 0..made
  /\ imuData \in [Half -> 0..made] /\ est \in [Half -> 0..made]
  /\ ref \in 0..NoRef
  /\ pose \in [Half -> 0..MaxCycle]
  /\ logger \in {"asleep", "logging"}
  /\ (LogHoldsPose => pose.first = pose.rest /\ ~CtlHoldsPose)

WholePacket(b) == IF b.first = b.rest THEN b.first ELSE NoRef

Imu == INSTANCE LatestValue
         WITH newest <- made,
              slot   <- IF ImuHoldsLock THEN imuData.rest ELSE WholePacket(imuData),
              out    <- IF CtlHoldsImu THEN est.rest ELSE WholePacket(est)

(* The controller sees each joint sample and each IMU packet whole, and     *)
(* never one older than before.                                            *)
SensesWholeValues == SensesWholeSamples /\ Imu!Spec

(* The yaw reference is taken once, and every orientation estimated with   *)
(* it was measured no earlier: the yaw is a rotation since the reference,  *)
(* never one back to a time before it.                                     *)
ReferenceIsOldest == [][ref # NoRef => ref' = ref /\ ref <= est'.first]_allVars

(* Whatever happens to the devices -- transfers that fail for good, packets *)
(* that never come -- and however often the threads meet at the four locks, *)
(* the control loop goes on: with the data it read last.                   *)
CyclesGoOn == []<>(ctl = "commanding")
===============================================================================
