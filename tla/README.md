# Verification of the Sirius wheel-legged robot controller

TLA+ models of the controller in this repository, the TLC runs that check them
and the TLAPS proofs about them. Paths are relative to the repository root,
which is `src/` in `PROJECT.json`.

## 1. The system

A wheel-legged quadruped with 16 motors on three CAN chips behind one USB
board. One process runs these threads (`robot/HardwareBridge.cpp`):

| thread | period | does |
|---|---|---|
| control (`My_HardwareBridge::run`) | 2 ms | `RobotRunner::run_step`: estimator, read joint data, `ControlFSM_run`, write command |
| USB board (`thread_usb2can_function`) | events | libusb callbacks of the IN and the OUT transfer, each resubmitting itself |
| IMU (`thread_imu_function`) | events | libusb callback of the IMU |
| remote controller (`thread_rc_function`) | 5 ms | one joystick event, chords to modes, reopening a lost pad |
| subscriber of USER_INTERFACE | 1 ms | only while that state is active: takes user commands from iceoryx |
| rerun logging (`rerun_logging_loop`) | 20 ms | logs the bodies that `run_step` computed in `mj_data_` |
| subscriber of the simulation | 1 ms | in the simulation, in place of USB and IMU: takes simulated states from iceoryx |

The simulator is a second process (`simulator/`): the main thread renders and
handles the window, a physics thread loads the model, steps it, takes one motor
command and publishes one state per step.

They share `rc_control_.mode` and `v_des` (written under `rc_mtx_`, read and
overwritten by the control thread without it), the joint data
(`usb_shared_in_mutex`), the command (`usb_shared_out_mutex`), the IMU packet
(`imu_mtx`), the pose in `mj_data_` (`rerun_mtx`) and the buffers of the user
interface state (`state_mutex_`). The simulator's threads share model, data and
requests under one `mtx`.

### Inventory

| component | state | operations | hard | what makes it correct |
|---|---|---|---|---|
| control state machine (`robot_ctrl/FSM`) | current and next state, fold flag, iteration counts, `leg_command` | one cycle: choose, switch, run | unlocked `mode` read many times per cycle; one `leg_command` for all states; exceptions | moves only on a fresh request; what a state leaves behind is what the next one expects |
| policy state (`FSM_State_RL`, `mdp/observation.cpp`) | ring, histories, previous actions, hidden state, three counters | enter, run with and without inference | nothing is reset between sessions; NaN | commands only what this session's policy computed |
| user interface state | buffers, `exit_state_`, a thread | enter, run, exit, subscriber loop | start/stop of the thread, two copies under a lock | whole commands in order; `join` returns |
| motor board link (`rt_usb2can`) | two transfers, two shared structures | callbacks, read, write | interleaving of three copies; failed transfers | values pass whole, in order, and keep passing |
| motor conversions (`rt_usb2can`, `my_motor_model`) | none | command to frame, packet to joint data, simulated torque | written out three times; gains may differ from joint to joint | inverse to each other; simulated and real joints feel the same torque, up to a known coupling |
| leg controller | command, data, enable counter | zero, write, update | counter saturation | MIT mode is kept |
| remote controller | `rc_map_`, last event, `mode`, `v_des` | poll, reopen | lost and late events, order of the chords | sees what the operator holds |
| robot runner | `mj_data_` | one cycle; a logged frame; a simulated state | four locks, failing devices | whole, ordered values; the cycle goes on |
| hardware bridge | threads, timers | start, loops | start-up order | order of the cycle |
| estimator, IMU (`OrientationEsimator`, `rt_usb_imu`) | transfer, buffer, yaw reference | callback, two-part read | first cycle before the first packet; resubmission | whole packets; one reference, never later than what is measured against it |
| simulation bridge | model, data, motor command | load, step, publish, end | two processes, bounded queues, pauses | order and age of commands and states |
| viewer (`my_simulator`) | `run`, `loadrequest`, `exitrequest` | frame, events, sync, close | handshake between two threads, freeing of what both use | physics only on a loaded model; nothing freed is used (but after Quit, see 4); the program ends |

## 2. The modules

| module | models | proved about |
|---|---|---|
| `FSMNames` | names of states and modes | |
| `ModeSwitch` | abstract: what the state machine promises its operator | |
| `ControlFSM` | `ControlFSM_run`, the six states, `finalStep` | `ControlFSMProofs` |
| `RemoteController` | `rc_complete`, `rc_map_read`, `thread_rc_function` | `RemoteControllerProofs` |
| `Teleop` | `RemoteController` and `ControlFSM` together on `mode` and `v_des` | `TeleopProofs` |
| `LatestValue` | abstract: a locked buffer between two threads | |
| `UserInterface` | `FSM_State_User_Interface` and its thread | `UserInterfaceProofs` |
| `RLPolicy` | `FSM_State_RL` and the observations | `RLPolicyProofs` |
| `Usb2Can` | both transfers and the control thread's accesses | `RobotRunnerProofs` |
| `RobotRunner` | `Usb2Can` with the IMU, the estimator and the logging thread | `RobotRunnerProofs` |
| `MotorMap`, `MCMotorMap` | `Deal_Usb_Out_Cmd`, `Deal_Usb_In_Data`, `pack_motor_cmd` as functions | `MotorMapProofs` |
| `Viewer` | the simulator's render and physics thread | `SimulationProofs` |
| `Simulation` | `Viewer` with the controller's process and the two queues between them | `SimulationProofs` |

How state and actions correspond to the code is in each module's comments, line
by line in `PROJECT.json` under "map".

**ControlFSM.** The variables `cur`, `next`, `fold`, `iter`, `applied` are
`state_current_`, `state_next_`, `fold_flag_`, `state_iter_` and
`apply_action`. A cycle is cut where it touches `mode`: `StartCycle`, then one
`TestFails` or `Choose` per `else if`, `StoreOwn` for the final `else`,
`Switch`/`StaySwitch`, one of the `Run...` actions, `Publish`. Between any two of
them `RcWrite` may store any mode. The joint set-points are abstracted to *who
wrote this group of fields last*, because that is what the states leave each
other in the shared `leg_command`. Four history variables (`ask`, `late`,
`from`, `fault`) only serve the properties.

**ModeSwitch** has two variables: the state committed to and the unanswered
request. `ControlFSM` implements it with `st <- next`, `ask <- ask`. A request is
used up when it is answered and dropped when the machine overwrites `mode`; so the
refinement says that no stored mode moves the robot twice and that modes the
machine stored itself move nothing.

**RemoteController.** One poll is `Read`, one `Chord` step per chord that stores
(the other tests change nothing, and nobody else writes `rc_map_`), `Speed` and
`SpeedRest` for the components of `v_des`, `Stat` and, while a pad is missing,
`Open`. The environment presses and releases, unplugs and plugs. `trusted` is a
history variable: the inputs of which no event was lost since one was read. The
kernel's queue is external: it overruns by dropping everything and replaying the
state with `JS_EVENT_INIT`, which `rc_map_read` ignores.

**Teleop** takes `Read`, `Chord`, `Speed`, `SpeedRest` and `Stat` from
`RemoteController` (with an ideal pad) and `Cycle` from `ControlFSM`; a `Chord`
step is an `RcWrite` of `ControlFSM`. `got` is what `computeCommand` read of `v_des`.
`Grips` are the sets of inputs that may be held at once; the code knows no such limit, a run
sets one.

**UserInterface, Usb2Can, RobotRunner.** Values are numbered in the order they are
produced, and every copy is done in two halves with the lock as the guard of its
first half; who holds a lock is read off where the threads stand. All implement
`LatestValue` (RobotRunner three times: joint samples, IMU packets, commands).
`RobotRunner` cuts `run_step` at every lock: `Estimate`/`EstimateRest`, `RunnerSenses`,
`Poses`/`PosesRest`, `RunnerComputes`, `RunnerEnds`.

**Viewer, Simulation.** A critical section under `mtx` is one step, unless the other
thread may act in it without the lock. So the physics thread stands in `step` while it
makes its steps; and because `TestExit` and `Free` happen without `mtx`, a frame is
`Frame`, any number of `Quit`, `CloseWindow` and `UiEvent` (glfw hands over all events that
have come), `PollReturns`, `Sync` and, without `mtx`, `Render`. `UiEvent`, `Sync` and `Render` use
`m_` and `d_`; used after they were freed, the program crashes or goes on (`UsesModel`). The
condition variable of `Load` is the guard `loadrequest = 0`. `Simulation` lets a `Steps` of
`Viewer` take a command and publish a state, and adds the subscriber and the control thread of
the other process. Pose and joints are received in either order, because the code stores
their elements interleaved. `sim_mtx` is not there because only one thread takes it.

**RLPolicy.** A sample is abstracted to "taken in this session", a vector to where
it comes from ("default", "policy", "nan"). The network may return anything, NaN
included, and only NaN once its hidden state or a previous action is NaN - an
assumption about arithmetic networks, and the only one.

**MotorMap.** Integers, in units that make the divisions exact. The motors
(external) answer with the torque of their own position and velocity control;
`SimTorque` is what the simulator computes from the same command. The gains of each joint are
constants, for `USER_INTERFACE` takes any; `Coupling` is what the real differential adds where
abad and hip have different ones.

## 3. The runs

| run | shows | bounds |
|---|---|---|
| `control_fsm` | nine properties of the cycle, among them the refinement of `ModeSwitch` | motions of 9 and 6 cycles instead of 1500, `enable` threshold 3 and cap 5 instead of 50 and 80 |
| `remote_controller` | `rc_map_` follows the pad, no phantom chords, a held stop is the last word, a noticed loss is repaired | 3 buttons, queue of 2 |
| `remote_controller_stuck` | *violated*: a held stop is always the last word | the same |
| `teleop` | between two polls only the last chord held is answered, a held stop stops the robot from all six states, a released stick ends the walk | 6 buttons and the stick, twelve combinations of which may be held (`Grips`), motions of two cycles |
| `user_interface` | whole commands, join returns, first session serves | 3 commands, queue of 2 |
| `user_interface_reentry` | *violated*: every session serves | 2 commands |
| `rl_policy` | what is commanded, and after how long the inputs are the session's own | real sizes, 95 cycles per session |
| `rl_policy_warmup` | *violated*: the warm-up covers the joint histories | the same |
| `robot_runner` | whole samples, packets and commands, one yaw reference, progress of commands and cycles | 1 sample, 1 packet, 2 commands told apart |
| `usb2can_retry` | *violated*: a failed transfer, IN or OUT, is submitted again | 3 samples, 3 commands |
| `motor_map` | round trip, real against simulated torque, power | unit commands and deviations, one joint or motor at a time, unequal gains in two legs |
| `simulation` | load handshake, end of the program, which way to end may use freed memory, order and age on both queues | queues of 2, 3 commands, 2 states, 2 steps per iteration |

Why the bounds are enough. The state machine compares iteration counts only with
the durations, so a few cycles give all cases (before, at and after the end, fold before
and after a third). In `teleop` a motion of two cycles is busy for one in which it does not
look at the request; longer ones only delay the moment at which it listens again. The
combinations there bring the robot into all six states and include each chord the states answer,
three chords at once (LB + RB + X), and the stick with and without LB + Y. That only the
operator is limited by them, not the code, does not matter for the theorems, which hold for any
`Grips`. Numbers of commands and samples are only compared with each other and
saturate (`Upto`), so that the threads run for ever whatever the bound; one sample beside
the zeroed buffer already tells old from new in each half. Two queue places let events
wait, combine and overrun; with three commands and two places the oldest is lost (the queue of states, of which there
are two, does not overrun in the run; the theorem `LinkIsMonotone` covers that). 95
cycles are nine inferences, two more than the joint histories need. The conversions
are affine in the command and the deviation, and power is bilinear, so unit vectors
decide them; offsets and gains are chosen different from each other, those of abad and
hip in two of the four legs.

### Fairness

Every thread is driven by a periodic timer (`thread_timer`) or by libusb's event
loop and has no blocking call but its locks, so its steps are weakly fair. A step
that waits for a lock is strongly fair: each holder keeps it for one copy per period
and sleeps, or waits for the device, without it. The operator, the user's program,
failing transfers and lost pads are never fair. `Usb2Can` and `RobotRunner` assume that
the board keeps accepting frames (strong fairness of `OutCompletes`): without that
nothing can be promised about commands. `CyclesGoOn` does not depend on it.

`Teleop` assumes one thing about time (`PollsMeetSleepingCycles`): if chords are stored
again and again, some of the stores find the control thread between two cycles. The
thread sleeps about 2 ms between cycles and a chain of tests takes microseconds, while
polls come every 5 ms. Without it TLC finds a livelock of `HeldStopStops`: every single
poll stores `DAMPING` after the test for it and before the `else` that overwrites it.
Strong fairness does not exclude that, since the livelock goes through all steps.

`Simulation` has strong fairness for the two threads of the simulator (they compete for
`mtx` and sleep or swap buffers without it), and for the iterations of the physics loop in
which the clock asks for a step: with a running simulation it does so again and again. A poll
ends (`PollReturns` is weakly fair): events do not come faster than they are handled for ever.

The exception is the logging thread. It sleeps what its frame left of 20 ms, which is nothing if the frame took
longer; it then releases `rerun_mtx` and takes it again at once. Weak fairness would let it shut
out `Poses` for ever. The strong fairness of the cycle (`RunnerCycle`) says that the mutex is not that unfair: a
thread that waits for it gets it some time. `CyclesGoOn` rests on that.

## 4. What the code does not do (findings)

1. **A stuck button overrules the stop chord.** `rc_map_` survives the loss of the pad,
   and the events that would correct it are ignored (`rt_remote_controller.cpp:30`).
   A Y whose release was lost makes every poll with LB held end in `RL_WALK`, LB + RB
   included (`README.md:56`).
2. **A second USER_INTERFACE session may be deaf**: the thread is started before
   `exit_state_` is lowered (`FSM_State_User_Interface.cpp:20-21`).
3. **The policy's warm-up does not cover its joint history**: four inferences against
   the seven columns that are shown (`FSM_State_RL.cpp:181`, `311`). The columns not yet of this
   session are those of the one before, or the zeros of start-up in the first one.
4. **A failed USB transfer is not submitted again**, though the message says so
   (`rt_usb2can.cpp:53-58` for IN, `62-67` for OUT). (The IMU's is, `rt_usb_imu.cpp:90-92`.)

Met while reading, without a run:

- LB + B does nothing: no state answers `RL_WALK_2`, which the final `else` overwrites
  (`Control_FSM.cpp:71-78`; `README.md:55` says "WeiPeng's Policy").
- The state graph of `README.md:60-70` lacks the edges STAND -> DAMPING, SITDOWN ->
  DAMPING, SITDOWN -> STAND and DAMPING -> PASSIVE, which the code takes
  (`Control_FSM.cpp:67`, `87-95`, `109`); and the bindings of the "LOGIC" controller
  (`README.md:44-50`) differ from the code, which distinguishes the two controllers only
  for USER_INTERFACE.
- A window closed before the model is handed over hangs the simulator: the render loop is
  left, `Load` waits for it, and the main thread joins the physics thread
  (`my_simulator.cpp:2286`, `SimulationBridge.cpp:302`). Hence the condition `loaded` in
  `CloseEndsProgram`.
- Quit uses freed memory. It stores `exitrequest` in the middle of a frame
  (`my_simulator.cpp:1410`), and the physics thread, which does not take `mtx` to end, frees
  model and data (`SimulationBridge.cpp:158-160`). Later events of the same poll use them
  (`my_simulator.cpp:1628`, `1753`, `1814`, `1824`, and sliders whose `pdata` point into them,
  `761`, `1071`, `1132`), and so does `Render` when it makes a section of the menu again (`2597`,
  `1121`). `OnlyQuitUsesFreed` says that nothing else does.
- With unequal gains of abad and hip, which `USER_INTERFACE` copies from the user's command
  (`FSM_State_User_Interface.cpp:57-60`), the real differential couples the two joints and the
  simulator does not: `SimulatorAgrees` holds up to the term `Coupling`.
- The pose and the joints of one simulated control cycle need not be of one state
  (`Robot_Runner.cpp:231-253`): `LinkGoesForward` only says that neither goes back in time.
- While a poll is among its `if`s the control thread may act on a chord that a later `if`
  overrules (`rt_remote_controller.cpp:205`): `AnswersLastWord` is about the time between polls.
- A model that does not load is looked into all the same (`SimulationBridge.cpp:138`), and
  `LoadMessageClear` is of no use: `LoadFails` ends in "crashed".
- A second file dropped on the window spins for ever under `mtx`: nobody clears
  `droploadrequest` (`my_simulator.cpp:1838`).
- The step key of a paused simulation steps without `sim_control`: no command is taken and no
  state published (`my_simulator.cpp:1628`).
- While a chord is held whose mode the policy does not answer, `mode` alternates and a
  released stick may go unnoticed (`rt_remote_controller.cpp:234`); hence the condition
  on chords in `ReleasedStickStops`.
- A pad that is unplugged and plugged between two polls keeps a dead descriptor
  (`HardwareBridge.cpp:186`): nothing repairs what `stat` never saw.
- After a pause the backlog of commands never shrinks if both sides run at the same rate: the
  queue stays full and every command is obeyed up to a queue's length late
  (`SimulationBridge.cpp:383`). `LinkGoesForward` bounds the delay, not more.

## 5. Proofs

`ControlFSMProofs` proves, for all durations and thresholds that satisfy
`TicksAssumption`:

| theorem | property | rests on |
|---|---|---|
| `TypeCorrect` | `TypeOK` | `CycleInv` |
| `RefinesModeSwitch` | `ImplementsModeSwitch` | `CycleInv`, `AskInv` |
| `EarlyRequestsAreKept` | `OnlyLateRequestsAreLost` | `CycleInv`, `AskInv`, `LateInv` |
| `FoldCorrect` | `FoldMatchesOrigin` | `CycleInv`, `FoldInv` |
| `PolicyRidesOnStand` | `RlRidesOnStand` | `CycleInv`, `CmdInv` |
| `UserValuesAreGone` | `NoUserResidue` | `CycleInv`, `CmdInv` |
| `MotionsAreFinished` | `MotionsComplete` | `CycleInv`, `CmdInv`, `WireInv` |
| `FaultsAreDamped` | `FaultEndsInDamping` | `CycleInv`, `CmdInv` |
| `MitModeStays` | `MitModeKept` | `TypeOK` |

The argument. The properties are not inductive: each speaks of one point of the
cycle, and what it says there was brought about several steps before. The
strengthenings say what holds at the other points:

- `CycleInv` is the shape of a cycle. A change of state is only pending between
  its choice and the switch (then the chosen state is the goal of a mode the old one
  answers, and the old one is not busy) or because of the fallback RL -> DAMPING,
  which then survives until it is carried out, as the chain is skipped while
  `next # cur`. It is proved together with `TypeOK`, which needs it for the index `k`.
- `AskInv`: the waiting request is what `mode` holds; if none waits, `mode` holds
  nothing the chosen state answers. It is what makes each stored mode act once: the
  goal of an answered mode does not answer that mode again (lemma `NoEcho`, which is
  about the tables of the six chains and would fail for other tables).
- `LateInv`: the tests passed so far looked for something else than what waits,
  unless it came late.
- `FoldInv`: `fold` is right for the state that runs and for the one that is chosen.
- `CmdInv`: what each state leaves in `leg_command` after its own runs, and the
  part of it that every state leading to `STAND_UP`, `SIT_DOWN` or `RL` leaves
  (lemma `SwitchOrigins`). `WireInv`: the motors have it, too.

The only assumption is
`TicksAssumption`: the lengths and thresholds are positive, `RecoverTicks <= StandTicks` and
`EnableAfter <= EnableCap`, as in the code (1 s against `stand_time_`, 50 against 80).

`SimulationProofs` proves, for every length of the queues, every number of commands and
states and every number of steps in an iteration (`BurstAssumption`, `LinkAssumption`:
lengths and bursts are positive):

| theorem | property | rests on |
|---|---|---|
| `SimulationTypes` | `SimulationTypeOK` | `ViewerInv`, `CommandsInv`, `StatesInv` |
| `PhysicsWaitsForViewer` | `MovesLoadedModel` | `ViewerInv` |
| `OnlyQuitIsUnclean` | `OnlyQuitUsesFreed` | `ViewerInv` |
| `LinkIsMonotone` | `LinkGoesForward` | all three |

`ViewerInv` adds what makes the handshakes work: the wait ends with `loadrequest = 0` only
after the model was taken over (`TakenOver`), which is never undone; the physics thread is
past its loop only after an exit was requested (`FreedOnExit`), which is never revoked, so
that `Sync` returns early from then on; and the request is 2 only when the render loop has been left
(`LoopLeft`), so that whoever uses freed memory does so under a request of 1, which Quit made. `CommandsInv` and `StatesInv` bound what was taken out of a
queue by what still waits in it: `obeyed <= made - Len(motorQueue)`, with equality when the
queue is empty, and likewise for `sample` and `sensed`. `sensed["joints"] <= sample` is the
step in the middle of `ReceiveRest`. Two lemmas carry the queues: a sample taken is the oldest
(`HeadIsOldest`), and a sample offered is the newest, whether or not one is lost
(`OfferIsNewest`).

`RLPolicyProofs` proves, for all sizes of the ring, the histories and the warm-up
(`SizesAssumption`: sizes are positive and the ring has two columns or more;
`WarmupAssumption`: the warm-up has at least as many inferences as the network is shown
previous actions, 4 against 3 in the code):

| theorem | property | rests on |
|---|---|---|
| `PolicyTypes` | `TypeOK` | |
| `PolicyAloneCommands` | `OnlyPolicyIsCommanded` | `CommandInv` |
| `WarmupIsEnough` | `WarmupCoversActions` | `SeenInv`, `ActionsInv`, `CommandInv` |
| `JointsAreSettled` | `JointsSettle` | `SeenInv`, `JointsInv`, `RingInv` |

The buffers are never reset, so the argument counts: after `loop` cycles of a session the
slots up to `loop` are its own, but slot 0 only at the cycle number `Window`, after the first
inference (`RingInv`); hence column `i` of the history is the session's own after `i + 2`
inferences (`JointsInv`) and action `i` after `i` (`ActionsInv`). Only `WarmupIsEnough` uses
`WarmupAssumption`; the joints need 8 inferences, which the warm-up does not wait for
(run `rl_policy_warmup`). In `CommandInv` a session that began with a NaN in the hidden state
still has it and applies nothing: its first inference ends it.

`RemoteControllerProofs` proves, for every set of inputs, every length of the kernel's
queue and any sequence of lost pads and overruns (`InputsAssumption`: the inputs are among the
eight in use, the queue has a place):

| theorem | property | rests on |
|---|---|---|
| `FilesAreInOrder` | `TypeOK` | `FileInv` |
| `TrustedInputsCatchUp` | `MapCatchesUp` | `FileInv`, `ReapplyInv`, `LastInv` |
| `ChordsWereHeld` | `NoPhantomChords` | these and `ReplayInv` |

Both properties speak of what is in `rc_map_` now, but what will be in it is decided
by events that wait. `LastInv`: the last waiting event of an input is how the operator holds it.
`ReplayInv` looks ahead: for every `k`, the chords that `rc_map_` will show after `k` more
events (`WillSee`) were held at one moment. A press appends an event and thereby one more
`k`, for which the future map is the pad of this moment; a `Read` shifts `k` by one. `ReapplyInv`
is about the read whose result nobody looks at: the last event, applied once more, changes
nothing.

`TeleopProofs` proves, for every set of inputs and all durations (`TicksAssumption`):

| theorem | property | rests on |
|---|---|---|
| `TeleopIsControlFSM` | (`TeleSpec => Spec` of `ControlFSM`) | |
| `LastChordIsAnswered` | `AnswersLastWord` | `WordInv`, and `CycleInv`, `AskInv` of `ControlFSM` |
| `HeldStopIsNotMisread` | (`HeldStopOnlyStops`) | `LastChordIsAnswered` |

By the first, everything proved of `ControlFSM` holds of the composition. `WordInv`: in the
middle of a poll the waiting request is that of the chord before `chord`; after it, that of
the last chord held - if the control thread has left any. `HeldStopOnlyStops` is the safe
half of `HeldStopStops`: with LB and RB alone held nothing but DAMPING can be chosen
between two polls. It assumes that both buttons are in `Inputs`.

`UserInterfaceProofs` proves, for every number of commands and places in the queue:

| theorem | property | rests on |
|---|---|---|
| `SessionsAreOrderly` | `TypeOK` | `QueueInv`, `CopyInv` |
| `RefinesLatestValue` | `CommandsAreWhole` | `QueueInv`, `CopyInv` |

`QueueInv`: what waits is newer than what was taken, and in order, also after the queue has
dropped its oldest entry. `CopyInv`: the halves of a buffer differ only while the thread that
copies holds `state_mutex_`. With it a copy is one step of `LatestValue`: its first half
is a stutter there, its second half the `Store` or the `Read`.

`RobotRunnerProofs` proves, for every number of samples, packets and commands and
whichever transfers fail:

| theorem | property | rests on |
|---|---|---|
| `SamplesAreWhole` | `SensesWholeSamples` of `Usb2Can` | `InInv` |
| `CommandsAreSentWhole` | `SendsWholeCommands` of `Usb2Can` | `OutInv` |
| `ThreadsAreOrderly` | `RunnerTypeOK` | `LinkInv`, `StageInv`, `PoseInv` |
| `RobotSensesWholeValues` | `SensesWholeValues` | `InInv`, `ImuInv` |
| `RobotSendsWholeCommands` | `SendsWholeCommands` | `OutInv` |
| `YawReferenceIsOldest` | `ReferenceIsOldest` | `ImuInv`, `RefInv`, `StageInv` |

The link is proved about alone; `RobotRunner` implements `Usb2Can` (lemma `RunnerIsLink`),
since what it adds changes none of the link's variables, and so inherits both refinements.
`InInv`, `OutInv` and `ImuInv` have one form: a half that is not being copied equals its
partner, the copier has the lock, nothing stored is newer than its source. `StageInv` says where
`run_step` stands between its locks. `RefInv`: the reference, once taken, is no younger than the
packet in the buffer, hence than any later one.

`MotorMapProofs` proves, for all offsets, gains, commands and deviations:

| theorem | property | rests on |
|---|---|---|
| `ConversionsInvert` | `CommandsReturn` | `SentInv`, `AnsweredInv`, `ReceivedInv` |
| `SimulatorIsTheRobot` | `SimulatorAgrees` | these |
| `DrivesPreservePower` | `PowerIsPreserved` | these |

Each buffer is a function of the command and the deviation (`SetPoint`, `Strayed`), joint by joint, and the
theorems follow by arithmetic for each of the four kinds of joints. Nothing is assumed of the gains:
lemma `DriveGains` gives the joint torques of a differential under any gains, with the coupling that
`SimulatorAgrees` states. The assumption is that deviations are multiples of 20 (`UnitsAssumption`), which is a choice of the unit: the
code divides by 2 and by the transmission in floating point, where nothing is cut off.

All strengthenings were first checked by TLC on the small instance.

So every safety property of the passing runs - invariants, action properties, refinements - is
proved. Only model-checked is liveness (`TrustedStopIsHeard`, `NoticedLossIsRepaired`,
`HeldStopStops`, `ReleasedStickStops`, `ExitReturns`, `FirstSessionServes`, `CommandsArrive`,
`CyclesGoOn`, `CloseEndsProgram`, `LastCommandIsObeyed`): it needs `ENABLED` and
fairness, which the prover does not handle. The violated properties are shown by
their counterexamples.

## 6. Not modelled

- Start-up and teardown of the hardware bridge, the thread timer (periods are abstracted to
  fairness), the mapping file of the pad, opening of devices.
- `sim_show` (the simulator as a display of the real robot), its LCM handlers, noise on
  controls and the resets of the state; the order of the 16 actuators of the wheeled
  model, whose file is not in the repository.
- The viewer's drawing, figures, widgets, history ring and scrubber, dropped files. The ring
  is only indexed under `mtx`, by a scrubber that stops the simulation first.
- Floating-point rounding, quaternions, the geometry of the motions, LCM messages.
- Vendored code: lodepng, easylogging++, MuJoCo and its own `simulate`. They make up most of
  the repository's lines, so that the modelled part, which is most of the control
  software, is a small share of the whole.

## 7. Plan

Done: the modules above, the compositions (`Teleop`, `RobotRunner`, `Simulation`) and the
proofs of all safety properties that the runs check. Next, in this order:

1. Proofs of the safe halves of further liveness properties, as `HeldStopIsNotMisread` is one:
   what a subscriber thread, a poll or a handshake that has come so far can only do next.
2. `HardwareBridge`: start-up order, what a thread may read before another has written it.
3. The history ring and the scrubber of the viewer.
