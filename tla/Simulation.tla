------------------------------ MODULE Simulation ------------------------------
(***************************************************************************)
(* The simulated robot: every step of the physics (sim_control) takes at   *)
(* most one motor command from the iceoryx channel "Motor" and publishes   *)
(* its state on "State"; the controller's process takes one state per tick *)
(* of its subscriber thread (thread_subscriber_function), which writes it  *)
(* where the control cycle reads it, and publishes one command per cycle.  *)
(*                                                                         *)
(* sim_mtx orders nothing here: only the control thread takes it.          *)
(*                                                                         *)
(* Commands and states are their numbers, and a command is whole in its    *)
(* sample.  Of a state two values are followed, one of the IMU's half and  *)
(* one of the joints'.  The code stores the elements of the halves mixed   *)
(* (acceleration and rates, then the quaternion and the legs in turn, then *)
(* the wheels), so that either of the two values may be the first.         *)
(***************************************************************************)
EXTENDS Viewer, Sequences

CONSTANTS
  Capacity,      \* samples an iceoryx subscriber keeps (256)
  MaxMade,       \* commands and states with numbers of their own
  MaxPublished

ASSUME LinkAssumption ==
  Capacity \in Nat \ {0} /\ MaxMade \in Nat /\ MaxPublished \in Nat

VARIABLES
  motorQueue, stateQueue,  \* samples that wait for the subscribers
  made,       \* the last command that was published
  obeyed,     \* motor_cmd_: the command the motors follow
  published,  \* the last state that was published
  sensed,     \* runner_imudata_ and runner_usbdata_
  sample,     \* the state in the hands of the subscriber thread, or 0
  reading,    \* what the control cycle has read
  cycle       \* where the control thread stands

Half == {"imu", "joints"}

robotVars == <<sensed, sample, reading, cycle>>
linkVars  == <<motorQueue, stateQueue, made, obeyed, published, robotVars>>
vars      == <<viewerVars, linkVars>>

(* A full queue loses its oldest sample.                                   *)
Offer(q, x) == Append(IF Len(q) = Capacity THEN Tail(q) ELSE q, x)

Init ==
  /\ ViewerInit
  /\ motorQueue = <<>> /\ stateQueue = <<>>
  /\ made = 0 /\ obeyed = 0 /\ published = 0
  /\ sensed = [h \in Half |-> 0] /\ reading = [h \in Half |-> 0]
  /\ sample = 0 /\ cycle = "estimate"

-----------------------------------------------------------------------------
(* Mistake: a full queue is drained before a command is obeyed.            *)
TakeCommandWhenFull ==
  IF Len(motorQueue) < Capacity THEN UNCHANGED <<obeyed, motorQueue>>
  ELSE obeyed' = Head(motorQueue) /\ motorQueue' = Tail(motorQueue)

(* sim_control: the oldest waiting command, or the one obeyed already.     *)
TakeCommand ==
  IF motorQueue = <<>> THEN UNCHANGED <<obeyed, motorQueue>>
  ELSE obeyed' = Head(motorQueue) /\ motorQueue' = Tail(motorQueue)

(* ... and the state is published; to loan a sample may fail.              *)
PublishState ==
  \/ /\ published < MaxPublished /\ published' = published + 1
     /\ stateQueue' = Offer(stateQueue, published')
  \/ UNCHANGED <<published, stateQueue>>

SimStep ==
  /\ Steps /\ TakeCommand /\ PublishState
  /\ UNCHANGED <<made, robotVars>>

(* All else the simulator's threads do is no matter of the link.           *)
PhysicsThread ==
  \/ SimStep
  \/ /\ \/ LoadMessage \/ LoadModel \/ LoadFails \/ HandOver \/ Woken
        \/ TestExit \/ Enter \/ Pauses \/ Leave \/ Free
     /\ UNCHANGED linkVars

RenderThread ==
  /\ \/ Frame \/ Quit \/ CloseWindow \/ UiEvent \/ PollReturns \/ Sync
     \/ Render \/ Close \/ Join
  /\ UNCHANGED linkVars

-----------------------------------------------------------------------------
(* Mistake: the newest sample is taken, and the others are read later.     *)
ReceiveNewest ==
  /\ sample = 0 /\ stateQueue # <<>>
  /\ sample' = stateQueue[Len(stateQueue)]
  /\ stateQueue' = SubSeq(stateQueue, 1, Len(stateQueue) - 1)
  /\ \E h \in Half : sensed' = [sensed EXCEPT ![h] = sample']
  /\ UNCHANGED <<viewerVars, motorQueue, made, obeyed, published, reading, cycle>>

(* A tick of the subscriber thread: a sample is taken, one of the two      *)
(* values is stored ...                                                    *)
Receive ==
  /\ sample = 0 /\ stateQueue # <<>>
  /\ sample' = Head(stateQueue) /\ stateQueue' = Tail(stateQueue)
  /\ \E h \in Half : sensed' = [sensed EXCEPT ![h] = sample']
  /\ UNCHANGED <<viewerVars, motorQueue, made, obeyed, published, reading, cycle>>

(* ... and then the other.                                                 *)
ReceiveRest ==
  /\ sample # 0 /\ sample' = 0
  /\ sensed' = [h \in Half |-> sample]
  /\ UNCHANGED <<viewerVars, motorQueue, stateQueue, made, obeyed, published,
                 reading, cycle>>

SubscriberThread == Receive \/ ReceiveRest

(* run_estimators reads the IMU's half, Update_Data the joints'.           *)
Estimate ==
  /\ cycle = "estimate" /\ cycle' = "update"
  /\ reading' = [reading EXCEPT !["imu"] = sensed["imu"]]
  /\ UNCHANGED <<viewerVars, motorQueue, stateQueue, made, obeyed, published,
                 sensed, sample>>

UpdateData ==
  /\ cycle = "update" /\ cycle' = "publish"
  /\ reading' = [reading EXCEPT !["joints"] = sensed["joints"]]
  /\ UNCHANGED <<viewerVars, motorQueue, stateQueue, made, obeyed, published,
                 sensed, sample>>

(* finalStep: WriteToCommand, and the command is published.                *)
PublishCommand ==
  /\ cycle = "publish" /\ cycle' = "estimate"
  /\ \/ /\ made < MaxMade /\ made' = made + 1
        /\ motorQueue' = Offer(motorQueue, made')
     \/ UNCHANGED <<made, motorQueue>>
  /\ UNCHANGED <<viewerVars, stateQueue, obeyed, published, sensed, sample, reading>>

ControlThread == Estimate \/ UpdateData \/ PublishCommand

-----------------------------------------------------------------------------
(* The controller is a process of its own and outlives the simulator.      *)
Simulator == Alive /\ (PhysicsThread \/ RenderThread)

Next == Simulator \/ SubscriberThread \/ ControlThread

Spec == Init /\ [][Next]_vars

(* All threads are driven by timers or by the display; mtx is held for      *)
(* moments, so that who wants it gets it; a poll comes to the end of the    *)
(* events; and the simulation follows the clock: an iteration that runs     *)
(* makes steps again and again.                                            *)
FairSpec ==
  /\ Spec
  /\ SF_vars(Alive /\ PhysicsThread) /\ SF_vars(Alive /\ RenderThread)
  /\ WF_vars(Alive /\ PollReturns /\ UNCHANGED linkVars)
  /\ SF_vars(Alive /\ PhysicsThread /\ left' > 0)
  /\ WF_vars(SubscriberThread)

-----------------------------------------------------------------------------
(* Types; the queues hold what came last, in order and without a gap: a    *)
(* controller that ran on while the simulation paused has left its newest  *)
(* commands.                                                               *)
Newest(q, n) ==
  Len(q) <= Capacity /\ \A i \in DOMAIN q : q[i] = n - Len(q) + i

SimulationTypeOK ==
  /\ ViewerTypeOK
  /\ made \in 0..MaxMade /\ obeyed \in 0..made
  /\ published \in 0..MaxPublished /\ sample \in 0..published
  /\ sensed \in [Half -> 0..published] /\ reading \in [Half -> 0..published]
  /\ Newest(motorQueue, made) /\ Newest(stateQueue, published)
  /\ cycle \in {"estimate", "update", "publish"}

(* The subscriber thread writes without any lock what the control cycle    *)
(* reads: a cycle's values of pose and joints may be of different states,  *)
(* but no value ever goes back in time.  In the other direction the backlog of  *)
(* a pause is worked off one command per step, oldest first, but the       *)
(* motors never follow a command older than the queue is long.             *)
LinkGoesForward ==
  [][ /\ \A h \in Half : reading'[h] >= reading[h]
      /\ left' < left => made - obeyed' < Capacity ]_vars

(* While the simulation runs the last command reaches the motors and stays. *)
LastCommandIsObeyed ==
  <>[](loaded /\ run /\ ~Closing /\ made = MaxMade) => <>[](obeyed = MaxMade)
===============================================================================
