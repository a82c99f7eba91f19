----------------------------- MODULE TeleopProofs -----------------------------
(***************************************************************************)
(* For every set of inputs and every length of the motions: the control    *)
(* thread, with the chain of the remote controller's ifs interleaved with  *)
(* its own tests of `mode', behaves as module ControlFSM says, and a state *)
(* change it chooses while no poll is looking at the chords answers the    *)
(* last chord held.                                                        *)
(***************************************************************************)
EXTENDS Teleop, ControlFSMProofs

-----------------------------------------------------------------------------
(* The `if' that stored last in this poll is the one before `chord'; once  *)
(* the poll has seen all of them, the request that waits -- if the control *)
(* thread has not used it or stored over it -- is that of the last chord.  *)
LastWord(c) ==
  /\ c \in PressedChords
  /\ \A d \in PressedChords : d <= c

WordInv ==
  /\ chord \in 1..Len(Pad!Chords) + 1
  /\ poll # "chords" => chord = 1
  /\ chord # 1 => /\ Pad!Pressed(map, chord - 1)
                  /\ ask # NoAsk => ask = Pad!Chords[chord - 1].mode
  /\ poll # "chords" /\ ask # NoAsk =>
       \A c \in PressedChords : LastWord(c) => ask = Pad!Chords[c].mode

-----------------------------------------------------------------------------
(* There are seven chords.                                                 *)
LEMMA SevenChords == Len(Pad!Chords) = 7 /\ DOMAIN Pad!Chords = 1..7
BY DEF Pad!Chords

(* Each step of the two threads is one of ControlFSM, or none of its        *)
(* variables changes.                                                      *)
LEMMA StepOfControl == [TeleNext]_teleVars => [Next]_vars
<1> SUFFICES ASSUME [TeleNext]_teleVars PROVE Next \/ UNCHANGED vars
  OBVIOUS
<1>1. CASE RcThread
  <2>1. CASE ReadNothing
    BY <2>1 DEF ReadNothing
  <2>2. CASE PollChord
    BY <2>2 DEF PollChord, Next
  <2>3. CASE PollEnds
    BY <2>3 DEF PollEnds
  <2> QED BY <1>1, <2>1, <2>2, <2>3 DEF RcThread
<1>2. ASSUME NEW b \in Inputs, ReadEvent(b) PROVE UNCHANGED vars
  BY <1>2 DEF ReadEvent
<1>3. CASE ControlCycle
  BY <1>3 DEF ControlCycle, Next
<1>4. CASE UNCHANGED teleVars
  BY <1>4 DEF teleVars
<1> QED BY <1>1, <1>2, <1>3, <1>4 DEF TeleNext

(* The remote-controller thread disturbs the control thread in no other    *)
(* way than ControlFSM assumes of it: the composition implements it, with  *)
(* every property proved of it (thread_rc_function, Control_FSM.cpp 35-160). *)
THEOREM TeleopIsControlFSM == TeleSpec => Spec
<1>1. TeleInit => Init
  BY DEF TeleInit
<1> QED BY <1>1, StepOfControl, PTL DEF TeleSpec, Spec

-----------------------------------------------------------------------------
(* The control thread makes no request, it only uses one or drops it.      *)
LEMMA CycleAsksNothing == Cycle => ask' \in {ask, NoAsk}
<1> SUFFICES ASSUME Cycle PROVE ask' = ask \/ ask' = NoAsk
  OBVIOUS
<1>1. CASE StartCycle
  BY <1>1 DEF StartCycle
<1>2. CASE Choose
  BY <1>2 DEF Choose
<1>3. CASE TestFails \/ StaySwitch
  BY <1>3 DEF TestFails, StaySwitch, histVars
<1>4. CASE StoreOwn
  BY <1>4 DEF StoreOwn
<1>5. CASE Switch
  BY <1>5 DEF Switch
<1>6. CASE Run
  BY <1>6 DEF Run, RunPassive, RunDamping, RunStandUp, RunSitDown, RunRL,
              RunRLThrows, RunUserInterface
<1>7. CASE Publish
  BY <1>7 DEF Publish
<1> QED BY <1>1, <1>2, <1>3, <1>4, <1>5, <1>6, <1>7 DEF Cycle

(* Only a test that succeeds chooses another state at "test".              *)
LEMMA StepChooses ==
  ASSUME TeleNext, step = "test", next' # next
  PROVE  Choose
<1>1. ~RcThread
  BY DEF RcThread, ReadNothing, PollChord, PollEnds, RcWrite, vars, ctlVars
<1>2. \A b \in Inputs : ~ReadEvent(b)
  BY DEF ReadEvent, vars, ctlVars
<1>3. Cycle
  BY <1>1, <1>2 DEF TeleNext, ControlCycle
<1> QED
  BY <1>3
  DEF Cycle, StartCycle, TestFails, StoreOwn, Switch, StaySwitch, Publish,
      Run, RunPassive, RunDamping, RunStandUp, RunSitDown, RunRL, RunRLThrows,
      RunUserInterface, Ran, ctlVars

(* WordInv is inductive: a poll's first test finds chord = 1, each `if' that *)
(* stores moves it on, and what the control thread does is to forget ask.  *)
LEMMA InitWord == TeleInit => WordInv
<1> SUFFICES ASSUME TeleInit PROVE WordInv
  OBVIOUS
<1>1. chord = 1 /\ poll = "read" /\ ask = NoAsk
  BY DEF TeleInit, Init
<1> QED BY <1>1, SevenChords DEF WordInv

(* Every step of either thread keeps WordInv.                              *)
LEMMA NextWord == WordInv /\ [TeleNext]_teleVars => WordInv'
<1> SUFFICES ASSUME WordInv, [TeleNext]_teleVars PROVE WordInv'
  OBVIOUS
<1>1. CASE ReadNothing
  <2>1. poll' = "chords" /\ chord' = chord /\ poll = "read"
    BY <1>1 DEF ReadNothing, Pad!Read
  <2>2. chord = 1
    BY <2>1 DEF WordInv
  <2> QED BY <2>1, <2>2, SevenChords DEF WordInv
<1>2. ASSUME NEW b \in Inputs, ReadEvent(b) PROVE WordInv'
  <2>1. poll' = "chords" /\ chord' = chord /\ poll = "read"
    BY <1>2 DEF ReadEvent
  <2>2. chord = 1
    BY <2>1 DEF WordInv
  <2> QED BY <2>1, <2>2, SevenChords DEF WordInv
<1>3. CASE PollChord
  <2>1. PICK c \in Pad!Due : /\ poll = "chords" /\ poll' = poll /\ map' = map
                             /\ mode' = Pad!Chords[c].mode /\ chord' = c + 1
    BY <1>3 DEF PollChord, Pad!Chord, Pad!Stores, Pad!mapVars
  <2>2. c \in 1..7 /\ Pad!Pressed(map, c)
    BY SevenChords DEF Pad!Due
  <2>3. ask' = mode'
    BY <1>3 DEF PollChord, RcWrite
  <2>4. chord' \in 1..Len(Pad!Chords) + 1 /\ chord' - 1 = c
    BY <2>1, <2>2, SevenChords
  <2>5. Pad!Pressed(map', chord' - 1)
    BY <2>1, <2>2, <2>4
  <2>6. ask' = Pad!Chords[chord' - 1].mode
    BY <2>1, <2>3, <2>4
  <2> QED BY <2>1, <2>4, <2>5, <2>6 DEF WordInv
<1>4. CASE Pad!Speed /\ UNCHANGED <<vars, got>>
  <2>1. poll = "chords" /\ Pad!Due = {} /\ chord' = 1 /\ poll' # "chords"
    BY <1>4 DEF Pad!Speed
  <2>2. map' = map /\ ask' = ask
    BY <1>4 DEF Pad!Speed, Pad!mapVars, vars, histVars
  <2>3. PressedChords' = PressedChords
    BY <2>2 DEF PressedChords
  <2>4. ASSUME NEW c \in PressedChords, LastWord(c), ask # NoAsk
        PROVE  ask = Pad!Chords[c].mode
    <3>1. c \in 1..7 /\ Pad!Pressed(map, c) /\ chord \in 1..8
      BY SevenChords DEF PressedChords, WordInv
    <3>2. c < chord
      BY <2>1, <3>1, SevenChords DEF Pad!Due
    <3>3. chord # 1 /\ chord - 1 \in 1..7
      BY <3>1, <3>2
    <3>4. chord - 1 \in PressedChords
      BY <3>3, SevenChords DEF WordInv, PressedChords
    <3>5. c = chord - 1
      BY <2>4, <3>1, <3>2, <3>4 DEF LastWord
    <3> QED BY <2>4, <3>3, <3>5 DEF WordInv
  <2>5. chord' \in 1..Len(Pad!Chords) + 1
    BY <2>1, SevenChords
  <2>6. \A c \in PressedChords' : LastWord(c)' => LastWord(c)
    BY <2>3 DEF LastWord
  <2> QED BY <2>1, <2>2, <2>3, <2>4, <2>5, <2>6 DEF WordInv
<1>5. CASE (Pad!SpeedRest \/ Pad!Stat) /\ UNCHANGED <<vars, got>>
  <2>1. poll # "chords" /\ poll' # "chords" /\ chord' = chord /\ map' = map
    BY <1>5 DEF Pad!SpeedRest, Pad!Stat, Pad!mapVars
  <2>2. ask' = ask
    BY <1>5 DEF vars, histVars
  <2>3. PressedChords' = PressedChords
    BY <2>1 DEF PressedChords
  <2> QED BY <2>1, <2>2, <2>3 DEF WordInv, LastWord
<1>6. CASE ControlCycle
  <2>1. poll' = poll /\ chord' = chord /\ map' = map
    BY <1>6 DEF ControlCycle, padVars
  <2>2. ask' = ask \/ ask' = NoAsk
    BY <1>6, CycleAsksNothing DEF ControlCycle
  <2>3. PressedChords' = PressedChords
    BY <2>1 DEF PressedChords
  <2> QED BY <2>1, <2>2, <2>3 DEF WordInv, LastWord
<1>7. CASE UNCHANGED teleVars
  <2>1. poll' = poll /\ chord' = chord /\ map' = map /\ ask' = ask
    BY <1>7 DEF teleVars, padVars, vars, histVars
  <2>2. PressedChords' = PressedChords
    BY <2>1 DEF PressedChords
  <2> QED BY <2>1, <2>2 DEF WordInv, LastWord
<1> QED
  BY <1>1, <1>2, <1>3, <1>4, <1>5, <1>6, <1>7 DEF TeleNext, RcThread, PollEnds

(* Among some chords there is a last one.                                  *)
LEMMA LastWordExists ==
  ASSUME PressedChords # {} PROVE \E c \in PressedChords : LastWord(c)
<1>1. PressedChords \subseteq 1..7
  BY SevenChords DEF PressedChords
<1>2. CASE 7 \in PressedChords  BY <1>1, <1>2 DEF LastWord
<1>3. CASE 7 \notin PressedChords /\ 6 \in PressedChords
  BY <1>1, <1>3 DEF LastWord
<1>4. CASE {6, 7} \cap PressedChords = {} /\ 5 \in PressedChords
  BY <1>1, <1>4 DEF LastWord
<1>5. CASE {5, 6, 7} \cap PressedChords = {} /\ 4 \in PressedChords
  BY <1>1, <1>5 DEF LastWord
<1>6. CASE {4, 5, 6, 7} \cap PressedChords = {} /\ 3 \in PressedChords
  BY <1>1, <1>6 DEF LastWord
<1>7. CASE {3, 4, 5, 6, 7} \cap PressedChords = {} /\ 2 \in PressedChords
  BY <1>1, <1>7 DEF LastWord
<1>8. CASE {2, 3, 4, 5, 6, 7} \cap PressedChords = {}
  <2>1. PressedChords \subseteq {1}
    BY <1>1, <1>8
  <2>2. \A c \in PressedChords : c = 1
    BY <2>1
  <2> QED BY <2>2 DEF LastWord
<1> QED BY <1>2, <1>3, <1>4, <1>5, <1>6, <1>7, <1>8

(* The state that a test chooses is asked for by the mode it finds, and    *)
(* that mode is the request that waits.                                    *)
LEMMA ChosenIsAsked ==
  ASSUME TypeOK, CycleInv, AskInv, Choose
  PROVE  ask # NoAsk /\ ask = mode
<1>1. mode \in Abs!Answers[cur] /\ cur = next
  BY TestedIsAnswered DEF Choose, TypeOK, CycleInv
<1> QED BY <1>1 DEF AskInv

(* While the remote-controller thread is not among its ifs, a state change  *)
(* answers the last of the chords it found held: no chord that a later one *)
(* of the same poll overruled, no old request and no mode the control      *)
(* thread stored itself (rc_complete; Control_FSM.cpp 43-160).             *)
THEOREM LastChordIsAnswered == TeleSpec => AnswersLastWord
<1> DEFINE Answer == next' # next /\ step = "test" /\ poll # "chords"
                     /\ PressedChords # {}
                     => \E c \in PressedChords :
                          /\ mode = Pad!Chords[c].mode
                          /\ \A d \in PressedChords : d <= c
<1>1. TeleInit => WordInv
  BY InitWord
<1>2. TypeOK /\ CycleInv /\ AskInv /\ WordInv /\ [TeleNext]_teleVars
        => [Answer]_teleVars
  <2> SUFFICES ASSUME TypeOK, CycleInv, AskInv, WordInv, TeleNext,
                      next' # next, step = "test", poll # "chords",
                      PressedChords # {}
               PROVE  \E c \in PressedChords :
                        /\ mode = Pad!Chords[c].mode
                        /\ \A d \in PressedChords : d <= c
    OBVIOUS
  <2>1. Choose
    BY StepChooses
  <2>2. ask # NoAsk /\ ask = mode
    BY <2>1, ChosenIsAsked
  <2>3. PICK c \in PressedChords : LastWord(c)
    BY LastWordExists
  <2>4. ask = Pad!Chords[c].mode
    BY <2>2, <2>3 DEF WordInv
  <2> QED BY <2>2, <2>3, <2>4 DEF LastWord
<1>3. TeleSpec => [](TypeOK /\ CycleInv) /\ []AskInv
  BY TeleopIsControlFSM, CycleCorrect, AskCorrect, PTL
<1> QED
  BY <1>1, <1>2, <1>3, NextWord, PTL DEF TeleSpec, AnswersLastWord

(* The safe half of HeldStopStops: as long as LB + RB is held, and nothing  *)
(* else, a poll that has ended leaves the control thread no other change   *)
(* of state to choose than the one to DAMPING -- whichever requests of     *)
(* earlier polls it has not looked at yet.                                 *)
HeldStopOnlyStops ==
  [][ Held({"lb", "rb"}) /\ poll # "chords" /\ step = "test" /\ next' # next
      => next' = "DAMPING" ]_teleVars

(* The only chord of these two buttons is the fourth.                      *)
LEMMA StopChordAlone ==
  ASSUME {"lb", "rb"} \subseteq Inputs, Held({"lb", "rb"})
  PROVE  PressedChords = {4}
<1>1. Pad!Pressed(map, 4)
  BY DEF Held, Pad!Pressed, Pad!Chords
<1>2. \A c \in {1, 2, 3, 5, 6, 7} : ~Pad!Pressed(map, c)
  BY DEF Held, Pad!Pressed, Pad!Chords
<1>3. 1..7 = {1, 2, 3, 4, 5, 6, 7}
  OBVIOUS
<1> QED BY <1>1, <1>2, <1>3, SevenChords DEF PressedChords

(* With the two stop buttons in use, holding them alone stops the robot or *)
(* changes nothing (rt_remote_controller.cpp 175-215).                     *)
THEOREM HeldStopIsNotMisread ==
  ASSUME {"lb", "rb"} \subseteq Inputs
  PROVE  TeleSpec => HeldStopOnlyStops
<1> DEFINE Answer == next' # next /\ step = "test" /\ poll # "chords"
                     /\ PressedChords # {}
                     => \E c \in PressedChords :
                          /\ mode = Pad!Chords[c].mode
                          /\ \A d \in PressedChords : d <= c
           Stop == Held({"lb", "rb"}) /\ poll # "chords" /\ step = "test"
                   /\ next' # next => next' = "DAMPING"
<1>1. [TeleNext]_teleVars /\ [Answer]_teleVars => [Stop]_teleVars
  <2> SUFFICES ASSUME TeleNext, Answer, Held({"lb", "rb"}), poll # "chords",
                      step = "test", next' # next
               PROVE  next' = "DAMPING"
    BY DEF teleVars, vars, ctlVars
  <2>1. mode = "DAMPING"
    BY StopChordAlone DEF Pad!Chords
  <2>2. Choose
    BY StepChooses
  <2> QED BY <2>1, <2>2 DEF Choose, Goal
<1>2. TeleSpec => [][Answer]_teleVars
  BY LastChordIsAnswered DEF AnswersLastWord
<1> QED BY <1>1, <1>2, PTL DEF TeleSpec, HeldStopOnlyStops
===============================================================================
