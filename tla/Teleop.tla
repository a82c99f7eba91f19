-------------------------------- MODULE Teleop --------------------------------
(***************************************************************************)
(* The operator's thread and the control thread together: RemoteController *)
(* and ControlFSM composed on rc_control_.mode, which both store into, and *)
(* on v_des, which the policy reads (computeCommand).  Neither thread ever *)
(* waits for the other: the control thread does not take rc_mtx_.          *)
(*                                                                         *)
(* Of the remote controller this module has the polls; events arrive one   *)
(* per poll at the earliest and in any order (module RemoteController has  *)
(* the queue and the pad that is lost).                                    *)
(***************************************************************************)
EXTENDS ControlFSM

CONSTANTS
  Inputs,  \* the buttons in use and the stick, as in RemoteController
  Grips    \* the sets of inputs that are held at once: SUBSET Inputs in the code,
           \* fewer to bound a run

VARIABLES
  map, v_des, chord,  \* as in RemoteController
  poll,               \* where the remote-controller thread stands
  got                 \* cmd_lin_vel_b_ and cmd_ang_vel_, as the policy read them last:
                      \* is one of them not zero?

Pad == INSTANCE RemoteController
         WITH step <- poll, asked <- ask, QueueLength <- 1,
              pad <- map, present <- ~FALSE, opened <- ~FALSE, connecting <- ~TRUE,
              queue <- <<>>, joystick <- [input |-> "none", value |-> FALSE],
              trusted <- {}, held <- {}

padVars == <<map, v_des, chord, poll>>
teleVars == <<vars, padVars, got>>

TeleInit ==
  /\ Init
  /\ map = [b \in Inputs |-> FALSE] /\ v_des = Pad!AtRest /\ got = FALSE
  /\ poll = "read" /\ chord = 1

-----------------------------------------------------------------------------
(* rc_map_read finds an event.                                             *)
ReadEvent(b) ==
  /\ poll = "read" /\ poll' = "chords"
  /\ map' = [map EXCEPT ![b] = ~@] /\ {i \in Inputs : map'[i]} \in Grips
  /\ UNCHANGED <<vars, v_des, chord, got>>

ReadNothing == Pad!Read /\ UNCHANGED <<vars, got>>

(* An `if' of rc_complete that stores is an RcWrite of ControlFSM.         *)
PollChord ==
  /\ Pad!Chord
  /\ \E m \in RcMode : RcWrite(m)
  /\ UNCHANGED got

PollEnds == (Pad!Speed \/ Pad!SpeedRest \/ Pad!Stat) /\ UNCHANGED <<vars, got>>

RcThread == ReadNothing \/ PollChord \/ PollEnds

-----------------------------------------------------------------------------
(* In RL an inference starts with computeCommand; here every cycle makes   *)
(* one, in the code every tenth.                                           *)
ControlCycle ==
  /\ Cycle
  /\ got' = IF step = "run" /\ cur = "RL" THEN v_des # Pad!AtRest ELSE got
  /\ UNCHANGED padVars

TeleNext == RcThread \/ (\E b \in Inputs : ReadEvent(b)) \/ ControlCycle

(* A poll takes place every 5 ms and a cycle every 2 ms, of which the chain  *)
(* of tests takes microseconds: of two polls in succession one finds the   *)
(* control thread asleep.                                                  *)
PollsMeetSleepingCycles ==
  []<><<PollChord>>_teleVars => []<><<PollChord /\ step = "idle">>_teleVars

(* Both threads are driven by periodic timers and never block.             *)
TeleSpec ==
  /\ TeleInit /\ [][TeleNext]_teleVars
  /\ WF_teleVars(ControlCycle) /\ WF_teleVars(RcThread) /\ PollsMeetSleepingCycles

-----------------------------------------------------------------------------
PressedChords == {c \in DOMAIN Pad!Chords : Pad!Pressed(map, c)}

(* The stores of one poll are visible one by one, but a state change that   *)
(* answers a chord overruled later in the same poll can only happen while  *)
(* the poll is under way; outside of it, the last chord held has the word. *)
AnswersLastWord ==
  [][ next' # next /\ step = "test" /\ poll # "chords" /\ PressedChords # {}
      => \E c \in PressedChords : /\ mode = Pad!Chords[c].mode
                                  /\ \A d \in PressedChords : d <= c ]_teleVars

Held(B) == \A b \in Inputs : map[b] <=> b \in B

(* LB + RB, held alone and long enough, stops the robot from every one of    *)
(* the six states, though the control thread may overwrite the request     *)
(* again and again, and though a motion that is still busy has cycles that *)
(* never look at it.                                                       *)
HeldStopStops == <>[]Held({"lb", "rb"}) => <>[](cur \in {"DAMPING", "PASSIVE"})

(* Once the stick is released while the policy walks, the policy is told to *)
(* stand in all components of the velocity -- unless a chord is held whose *)
(* mode the policy does not answer: v_des is left alone as long as mode is *)
(* not the policy's.                                                       *)
ReleasedStickStops ==
  <>[](cur = "RL" /\ ~map["ly"] /\ PressedChords = {}) => <>[]~got
===============================================================================
