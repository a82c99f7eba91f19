--------------------------- MODULE ControlFSMProofs ---------------------------
(***************************************************************************)
(* Proofs about ControlFSM for every length of the motions and every       *)
(* enable threshold: its types, its safety invariants, and that it         *)
(* implements ModeSwitch.                                                  *)
(***************************************************************************)
EXTENDS ControlFSM, TLAPS

-----------------------------------------------------------------------------
(* The else-if chains as tables.                                           *)

(* Each chain has one to three tests.                                      *)
LEMMA ChainLength ==
  /\ Len(Tests["PASSIVE"]) = 2  /\ Len(Tests["STAND_UP"]) = 3
  /\ Len(Tests["SIT_DOWN"]) = 3 /\ Len(Tests["DAMPING"]) = 2
  /\ Len(Tests["RL"]) = 2       /\ Len(Tests["USER_INTERFACE"]) = 1
<1>1. Len(Tests["PASSIVE"]) = 2         BY DEF Tests
<1>2. Len(Tests["STAND_UP"]) = 3        BY DEF Tests
<1>3. Len(Tests["SIT_DOWN"]) = 3        BY DEF Tests
<1>4. Len(Tests["DAMPING"]) = 2         BY DEF Tests
<1>5. Len(Tests["RL"]) = 2              BY DEF Tests
<1>6. Len(Tests["USER_INTERFACE"]) = 1  BY DEF Tests
<1> QED BY <1>1, <1>2, <1>3, <1>4, <1>5, <1>6

(* No chain is empty.                                                      *)
LEMMA ChainLengthType == \A s \in FSMState : Len(Tests[s]) \in 1..3
BY ChainLength DEF FSMState

(* What a test finds, its state answers.                                   *)
LEMMA TestedIsAnswered ==
  ASSUME NEW s \in FSMState, NEW i \in 1..Len(Tests[s])
  PROVE  Tests[s][i] \in Abs!Answers[s]
<1> USE ChainLength DEF Tests, Abs!Answers
<1>1. CASE s = "PASSIVE"         BY <1>1
<1>2. CASE s = "STAND_UP"        BY <1>2
<1>3. CASE s = "SIT_DOWN"        BY <1>3
<1>4. CASE s = "DAMPING"         BY <1>4
<1>5. CASE s = "RL"              BY <1>5
<1>6. CASE s = "USER_INTERFACE"  BY <1>6
<1> QED BY <1>1, <1>2, <1>3, <1>4, <1>5, <1>6 DEF FSMState

(* What a state answers, one of its tests looks for.                       *)
LEMMA AnsweredIsTested ==
  ASSUME NEW s \in FSMState, NEW m \in Abs!Answers[s]
  PROVE  \E i \in 1..Len(Tests[s]) : Tests[s][i] = m
<1> USE ChainLength DEF Tests, Abs!Answers
<1>1. CASE s = "PASSIVE"         BY <1>1
<1>2. CASE s = "STAND_UP"        BY <1>2
<1>3. CASE s = "SIT_DOWN"        BY <1>3
<1>4. CASE s = "DAMPING"         BY <1>4
<1>5. CASE s = "RL"              BY <1>5
<1>6. CASE s = "USER_INTERFACE"  BY <1>6
<1> QED BY <1>1, <1>2, <1>3, <1>4, <1>5, <1>6 DEF FSMState

(* A mode just used for a change is not answered again by the new state,   *)
(* and no state answers the mode its own chain stores.                     *)
LEMMA NoEcho ==
  ASSUME NEW s \in FSMState
  PROVE  /\ \A m \in Abs!Answers[s] : /\ m \in RcMode
                                      /\ Goal[m] \in FSMState
                                      /\ Goal[m] # s
                                      /\ m \notin Abs!Answers[Goal[m]]
         /\ s # "USER_INTERFACE" => Own[s] \in RcMode /\ Own[s] \notin Abs!Answers[s]
<1> USE DEF Abs!Answers, RcMode, Goal, Own, FSMState
<1>1. CASE s = "PASSIVE"         BY <1>1
<1>2. CASE s = "STAND_UP"        BY <1>2
<1>3. CASE s = "SIT_DOWN"        BY <1>3
<1>4. CASE s = "DAMPING"         BY <1>4
<1>5. CASE s = "RL"              BY <1>5
<1>6. CASE s = "USER_INTERFACE"  BY <1>6
<1> QED BY <1>1, <1>2, <1>3, <1>4, <1>5, <1>6

-----------------------------------------------------------------------------
(* The shape of a cycle: when a switch may be pending, when the chain is   *)
(* read, how far the fallback after an exception has come.                 *)
CycleInv ==
  /\ step # "test" => k = 1
  /\ step \in {"test", "default", "run"} => next = cur
  /\ step \in {"test", "default"} => ~Busy
  /\ step = "default" => cur # "USER_INTERFACE"
  /\ next # cur =>
       \/ step = "switch" /\ ~Busy /\ \E m \in Abs!Answers[cur] : next = Goal[m]
       \/ step \in {"idle", "publish", "switch"} /\ cur = "RL" /\ next = "DAMPING"
  /\ fault = "thrown" => step = "publish" /\ cur = "RL" /\ next = "DAMPING"
  /\ fault = "stale" =>
       \/ step \in {"idle", "switch"} /\ cur = "RL" /\ next = "DAMPING"
       \/ step \in {"run", "publish"} /\ cur = "DAMPING" /\ next = "DAMPING"

(* The commands the states build are commands.                             *)
LEMMA CommandTypes ==
  /\ ZeroCommand \in Command
  /\ DampCommand \in Command
  /\ [f \in DOMAIN ZeroCommand |-> "user"] \in Command
  /\ \A c \in Command : [c EXCEPT !.pos = "rl"] \in Command
  /\ \A c \in Command, w \in {"fold", "stand", "sit"}, v \in {"zero", "moving"} :
       [c EXCEPT !.pos = w, !.vel = v, !.whl = "hold"] \in Command
<1>1. ZeroCommand \in Command
  BY DEF ZeroCommand, Command
<1>2. DampCommand \in Command
  BY DEF DampCommand, ZeroCommand, Command
<1>3. [f \in DOMAIN ZeroCommand |-> "user"] \in Command
  BY DEF ZeroCommand, Command
<1>4. \A c \in Command : [c EXCEPT !.pos = "rl"] \in Command
  BY DEF Command
<1>5. \A c \in Command, w \in {"fold", "stand", "sit"}, v \in {"zero", "moving"} :
        [c EXCEPT !.pos = w, !.vel = v, !.whl = "hold"] \in Command
  BY DEF Command
<1> QED BY <1>1, <1>2, <1>3, <1>4, <1>5

(* TypeOK and CycleInv hold at the start ...                               *)
LEMMA InitTypeCycle == Init => TypeOK /\ CycleInv
<1> SUFFICES ASSUME Init PROVE TypeOK /\ CycleInv
  OBVIOUS
<1>1. 1 \in 1..Len(Tests[cur])
  BY ChainLength DEF Init
<1>2. cmd \in Command /\ usb \in WireCommand
  BY CommandTypes DEF Init, WireCommand
<1>3. enable \in 0..EnableCap /\ iter \in [Timed -> Nat]
  BY TicksAssumption DEF Init
<1>4. TypeOK
  BY <1>1, <1>2, <1>3 DEF Init, TypeOK, RcMode, FSMState, NoAsk
<1>5. CycleInv
  BY DEF Init, CycleInv
<1> QED BY <1>4, <1>5

(* ... after every step ...                                                *)
LEMMA NextTypeCycle == TypeOK /\ CycleInv /\ [Next]_vars => TypeOK' /\ CycleInv'
<1> SUFFICES ASSUME TypeOK, CycleInv, [Next]_vars
             PROVE  TypeOK' /\ CycleInv'
  OBVIOUS
<1> USE DEF TypeOK, CycleInv
<1>1. ASSUME NEW m \in RcMode, RcWrite(m) PROVE TypeOK' /\ CycleInv'
  BY <1>1 DEF RcWrite, ctlVars, outVars, Busy
<1>2. CASE StartCycle
  BY <1>2 DEF StartCycle, ctlVars, outVars, Busy
<1>3. CASE Choose
  <2>1. mode \in Abs!Answers[cur]
    BY <1>3, TestedIsAnswered DEF Choose
  <2>2. next' \in FSMState /\ next' = Goal[mode]
    BY <1>3, <2>1, NoEcho DEF Choose
  <2>3. k' \in 1..Len(Tests[cur'])
    <3>1. k' = 1 /\ cur' = cur
      BY <1>3 DEF Choose
    <3> QED BY <3>1, ChainLengthType
  <2>4. TypeOK'
    BY <1>3, <2>2, <2>3 DEF Choose, outVars
  <2>5. CycleInv'
    BY <1>3, <2>1, <2>2 DEF Choose, outVars, Busy
  <2> QED BY <2>4, <2>5
<1>4. CASE TestFails
  <2>1. k' \in 1..Len(Tests[cur'])
    BY <1>4, ChainLengthType DEF TestFails, ctlVars
  <2>2. TypeOK'
    BY <1>4, <2>1 DEF TestFails, ctlVars, outVars, histVars
  <2>3. CycleInv'
    BY <1>4, ChainLengthType DEF TestFails, ctlVars, outVars, histVars, Busy
  <2> QED BY <2>2, <2>3
<1>5. CASE StoreOwn
  BY <1>5, NoEcho DEF StoreOwn, ctlVars, outVars, NoAsk, Busy
<1>6. CASE Switch
  <2>1. k' \in 1..Len(Tests[cur'])
    <3>1. k' = 1 /\ cur' \in FSMState
      BY <1>6 DEF Switch
    <3>2. Len(Tests[cur']) \in 1..3
      BY <3>1, ChainLengthType
    <3>3. \A n \in 1..3 : 1 \in 1..n
      OBVIOUS
    <3> QED BY <3>1, <3>2, <3>3
  <2>2. iter' \in [Timed -> Nat]
    BY <1>6 DEF Switch
  <2>3. TypeOK'
    BY <1>6, <2>1, <2>2 DEF Switch, outVars
  <2>4. CycleInv'
    BY <1>6 DEF Switch, outVars
  <2> QED BY <2>3, <2>4
<1>7. CASE StaySwitch
  <2>1. next = cur
    BY <1>7 DEF StaySwitch, Busy, Timed
  <2>2. TypeOK'
    BY <1>7 DEF StaySwitch, ctlVars, outVars, histVars
  <2>3. CycleInv'
    BY <1>7, <2>1 DEF StaySwitch, ctlVars, outVars, histVars
  <2> QED BY <2>2, <2>3
<1>8. CASE RunPassive
  <2>1. TypeOK'
    BY <1>8, CommandTypes DEF RunPassive, Ran
  <2>2. CycleInv'
    BY <1>8 DEF RunPassive, Ran, Busy
  <2> QED BY <2>1, <2>2
<1>9. CASE RunDamping
  <2>1. TypeOK'
    BY <1>9, CommandTypes DEF RunDamping, Ran
  <2>2. CycleInv'
    BY <1>9 DEF RunDamping, Ran, Busy
  <2> QED BY <2>1, <2>2
<1>10. CASE RunStandUp
  <2>1. iter' \in [Timed -> Nat]
    BY <1>10 DEF RunStandUp, Tick, Timed
  <2>2. cmd' \in Command
    BY <1>10, CommandTypes DEF RunStandUp, Follow
  <2>3. TypeOK'
    BY <1>10, <2>1, <2>2 DEF RunStandUp, Ran
  <2>4. CycleInv'
    BY <1>10 DEF RunStandUp, Ran
  <2> QED BY <2>3, <2>4
<1>11. CASE RunSitDown
  <2>1. iter' \in [Timed -> Nat]
    BY <1>11 DEF RunSitDown, Tick, Timed
  <2>2. cmd' \in Command
    BY <1>11, CommandTypes DEF RunSitDown, Follow
  <2>3. TypeOK'
    BY <1>11, <2>1, <2>2 DEF RunSitDown, Ran
  <2>4. CycleInv'
    BY <1>11 DEF RunSitDown, Ran
  <2> QED BY <2>3, <2>4
<1>12. CASE RunRL
  <2>1. cmd' \in Command /\ applied' \in BOOLEAN
    BY <1>12, CommandTypes DEF RunRL
  <2>2. TypeOK'
    BY <1>12, <2>1 DEF RunRL, Ran
  <2>3. CycleInv'
    BY <1>12 DEF RunRL, Ran
  <2> QED BY <2>2, <2>3
<1>13. CASE RunRLThrows
  <2>1. TypeOK'
    BY <1>13 DEF RunRLThrows, Ran, FSMState, RcMode, NoAsk
  <2>2. CycleInv'
    BY <1>13 DEF RunRLThrows, Ran
  <2> QED BY <2>1, <2>2
<1>14. CASE RunUserInterface
  <2>1. TypeOK'
    BY <1>14, CommandTypes DEF RunUserInterface, Ran
  <2>2. CycleInv'
    BY <1>14 DEF RunUserInterface, Ran
  <2> QED BY <2>1, <2>2
<1>15. CASE Publish
  <2>1. usb' \in WireCommand
    BY <1>15 DEF Publish, WireCommand
  <2>2. enable' \in 0..EnableCap
    BY <1>15, TicksAssumption DEF Publish
  <2>3. TypeOK'
    BY <1>15, <2>1, <2>2 DEF Publish, ctlVars
  <2>4. CycleInv'
    BY <1>15 DEF Publish, ctlVars, Busy
  <2> QED BY <2>3, <2>4
<1>16. CASE UNCHANGED vars
  BY <1>16 DEF vars, ctlVars, outVars, histVars, Busy
<1> QED
  BY <1>1, <1>2, <1>3, <1>4, <1>5, <1>6, <1>7, <1>8, <1>9, <1>10, <1>11,
     <1>12, <1>13, <1>14, <1>15, <1>16
  DEF Next, Cycle, Run

(* ... and therefore always.                                               *)
LEMMA CycleCorrect == Spec => [](TypeOK /\ CycleInv)
<1> QED BY InitTypeCycle, NextTypeCycle, PTL DEF Spec

(* In every reachable state each variable has its type, and the test that  *)
(* comes next is one of the current state's chain (Control_FSM.cpp 43-160). *)
THEOREM TypeCorrect == Spec => []TypeOK
<1> QED BY CycleCorrect, PTL

-----------------------------------------------------------------------------
(* The request that waits is what `mode' holds; when none waits, `mode'     *)
(* holds nothing the chosen state would answer.                            *)
AskInv ==
  /\ ask # NoAsk => ask = mode
  /\ ask = NoAsk => mode \notin Abs!Answers[next]

(* At the start nothing is asked for.                                      *)
LEMMA InitAsk == Init => AskInv
BY DEF Init, AskInv, Abs!Answers, NoAsk

(* Only the operator asks; each store of the machine forgets the request.  *)
LEMMA NextAsk == TypeOK /\ CycleInv /\ AskInv /\ [Next]_vars => AskInv'
<1> SUFFICES ASSUME TypeOK, CycleInv, AskInv, [Next]_vars
             PROVE  AskInv'
  OBVIOUS
<1> USE DEF AskInv
<1>1. ASSUME NEW m \in RcMode, RcWrite(m) PROVE AskInv'
  BY <1>1 DEF RcWrite, RcMode, NoAsk
<1>2. CASE Choose
  <2>1. mode \in Abs!Answers[cur] /\ cur \in FSMState
    BY <1>2, TestedIsAnswered DEF Choose, TypeOK
  <2>2. mode \notin Abs!Answers[Goal[mode]]
    BY <2>1, NoEcho
  <2> QED BY <1>2, <2>2 DEF Choose
<1>3. CASE StoreOwn
  <2>1. next = cur /\ cur \in FSMState /\ cur # "USER_INTERFACE"
    BY <1>3 DEF StoreOwn, CycleInv, TypeOK
  <2>2. Own[cur] \notin Abs!Answers[cur]
    BY <2>1, NoEcho
  <2> QED BY <1>3, <2>1, <2>2 DEF StoreOwn, ctlVars
<1>4. CASE RunRLThrows
  <2>1. "DAMPING" \notin Abs!Answers["DAMPING"]
    BY DEF Abs!Answers
  <2> QED BY <1>4, <2>1 DEF RunRLThrows
<1>5. CASE StartCycle \/ TestFails \/ StaySwitch \/ Publish
  BY <1>5 DEF StartCycle, TestFails, StaySwitch, Publish, ctlVars, histVars
<1>6. CASE Switch
  BY <1>6 DEF Switch
<1>7. CASE RunPassive \/ RunDamping \/ RunStandUp \/ RunSitDown \/ RunRL
           \/ RunUserInterface
  BY <1>7 DEF RunPassive, RunDamping, RunStandUp, RunSitDown, RunRL,
              RunUserInterface
<1>8. CASE UNCHANGED vars
  BY <1>8 DEF vars, ctlVars, histVars
<1> QED
  BY <1>1, <1>2, <1>3, <1>4, <1>5, <1>6, <1>7, <1>8 DEF Next, Cycle, Run

(* AskInv holds always.                                                    *)
LEMMA AskCorrect == Spec => []AskInv
<1> QED BY CycleCorrect, InitAsk, NextAsk, PTL DEF Spec

(* The control cycle, with its unlocked reads and writes of `mode', is an  *)
(* implementation of ModeSwitch: each step of it is a step of ModeSwitch   *)
(* or changes neither the chosen state nor the waiting request.            *)
THEOREM RefinesModeSwitch == Spec => ImplementsModeSwitch
<1>1. Init => Abs!Init
  BY DEF Init, Abs!Init, NoAsk, Abs!NoAsk
<1>2. TypeOK /\ CycleInv /\ AskInv /\ [Next]_vars => [Abs!Next]_(Abs!vars)
  <2> SUFFICES ASSUME TypeOK, CycleInv, AskInv, [Next]_vars
               PROVE  Abs!Next \/ UNCHANGED <<next, ask>>
    BY DEF Abs!vars
  <2>1. ASSUME NEW m \in RcMode, RcWrite(m) PROVE Abs!Next
    BY <2>1 DEF RcWrite, ctlVars, Abs!Next, Abs!Ask, RcMode, Abs!RcMode
  <2>2. CASE Choose
    <3>1. mode \in Abs!Answers[cur] /\ cur = next
      BY <2>2, TestedIsAnswered DEF Choose, TypeOK, CycleInv
    <3>2. ask = mode
      BY <3>1 DEF AskInv
    <3> QED
      BY <2>2, <3>1, <3>2
      DEF Choose, Abs!Next, Abs!Move, NoAsk, Abs!NoAsk, Goal, Abs!Goal
  <2>3. CASE StoreOwn
    BY <2>3 DEF StoreOwn, ctlVars, Abs!Next, Abs!Ignore, NoAsk, Abs!NoAsk
  <2>4. CASE RunRLThrows
    <3>1. next = "RL"
      BY <2>4 DEF RunRLThrows, Ran, CycleInv
    <3> QED BY <2>4, <3>1 DEF RunRLThrows, Abs!Next, Abs!Fault, NoAsk, Abs!NoAsk
  <2>5. CASE StartCycle \/ TestFails \/ StaySwitch \/ Publish
    BY <2>5 DEF StartCycle, TestFails, StaySwitch, Publish, ctlVars, histVars
  <2>6. CASE Switch
    BY <2>6 DEF Switch
  <2>7. CASE RunPassive \/ RunDamping \/ RunStandUp \/ RunSitDown \/ RunRL
             \/ RunUserInterface
    BY <2>7 DEF RunPassive, RunDamping, RunStandUp, RunSitDown, RunRL,
                RunUserInterface
  <2>8. CASE UNCHANGED vars
    BY <2>8 DEF vars, ctlVars, histVars
  <2> QED
    BY <2>1, <2>2, <2>3, <2>4, <2>5, <2>6, <2>7, <2>8 DEF Next, Cycle, Run
<1> QED
  BY <1>1, <1>2, CycleCorrect, AskCorrect, PTL DEF Spec, ImplementsModeSwitch, Abs!Spec

-----------------------------------------------------------------------------
(* What the chain has not found so far is not what waits, unless it came   *)
(* while the chain was being tested.                                       *)
LateInv ==
  /\ step = "test" /\ ~late /\ ask # NoAsk =>
       \A j \in 1..(k - 1) : Tests[cur][j] # mode
  /\ step = "default" /\ ~late /\ ask # NoAsk =>
       \A j \in 1..Len(Tests[cur]) : Tests[cur][j] # mode

(* Every step keeps LateInv: a test that fails adds itself to those passed. *)
LEMMA NextLate == TypeOK /\ CycleInv /\ LateInv /\ [Next]_vars => LateInv'
<1> SUFFICES ASSUME TypeOK, CycleInv, LateInv, [Next]_vars
             PROVE  LateInv'
  OBVIOUS
<1>1. ASSUME NEW m \in RcMode, RcWrite(m) PROVE LateInv'
  BY <1>1 DEF RcWrite, LateInv
<1>2. CASE StartCycle
  <2>1. k = 1 /\ k' = k /\ step' # "default"
    BY <1>2 DEF StartCycle, CycleInv
  <2>2. \A j \in 1..(k' - 1) : FALSE
    BY <2>1
  <2> QED BY <2>1, <2>2 DEF LateInv
<1>3. CASE TestFails
  <2>1. k \in 1..Len(Tests[cur]) /\ Len(Tests[cur]) \in 1..3
    BY ChainLengthType DEF TypeOK
  <2>2. UNCHANGED <<mode, cur, ask, late>> /\ step = "test" /\ mode # Tests[cur][k]
    BY <1>3 DEF TestFails, ctlVars, histVars
  <2>3. CASE k < Len(Tests[cur])
    <3>1. step' = "test" /\ k' = k + 1
      BY <1>3, <2>3 DEF TestFails
    <3>2. \A j \in 1..(k' - 1) : j \in 1..(k - 1) \/ j = k
      BY <2>1, <3>1
    <3> QED BY <2>2, <3>1, <3>2 DEF LateInv
  <2>4. CASE ~(k < Len(Tests[cur]))
    <3>1. step' # "test"
      BY <1>3, <2>4 DEF TestFails
    <3>2. \A j \in 1..Len(Tests[cur]) : j \in 1..(k - 1) \/ j = k
      BY <2>1, <2>4
    <3> QED BY <2>2, <3>1, <3>2 DEF LateInv
  <2> QED BY <2>3, <2>4
<1>4. CASE Choose \/ StoreOwn \/ Switch \/ StaySwitch \/ Run \/ Publish
  <2>1. step' \in {"idle", "switch", "run", "publish"}
    BY <1>4 DEF Choose, StoreOwn, Switch, StaySwitch, Publish, Run, Ran, RunPassive,
       RunDamping, RunStandUp, RunSitDown, RunRL, RunRLThrows, RunUserInterface
  <2> QED BY <2>1 DEF LateInv
<1>5. CASE UNCHANGED vars
  BY <1>5 DEF vars, ctlVars, histVars, LateInv
<1> QED BY <1>1, <1>2, <1>3, <1>4, <1>5 DEF Next, Cycle

(* A request made before the chain was begun and answered by the current   *)
(* state is never among those the final else overwrites.                   *)
THEOREM EarlyRequestsAreKept == Spec => []OnlyLateRequestsAreLost
<1>1. Init => LateInv
  BY DEF Init, LateInv
<1>2. TypeOK /\ AskInv /\ LateInv => OnlyLateRequestsAreLost
  BY AnsweredIsTested DEF TypeOK, AskInv, LateInv, OnlyLateRequestsAreLost
<1> QED BY <1>1, <1>2, NextLate, CycleCorrect, AskCorrect, PTL DEF Spec

-----------------------------------------------------------------------------
(* fold_flag_ while STAND_UP runs and while it is the pending choice.      *)
FoldInv ==
  /\ cur = "STAND_UP" => (fold <=> from # "RL")
  /\ next = "STAND_UP" /\ cur # "STAND_UP" => (fold <=> cur # "RL")

(* Every step keeps FoldInv: Choose sets fold, leaving STAND_UP clears it. *)
LEMMA NextFold == TypeOK /\ CycleInv /\ FoldInv /\ [Next]_vars => FoldInv'
<1> SUFFICES ASSUME TypeOK, CycleInv, FoldInv, [Next]_vars
             PROVE  FoldInv'
  OBVIOUS
<1> USE DEF FoldInv
<1>1. ASSUME NEW m \in RcMode, RcWrite(m) PROVE FoldInv'
  BY <1>1 DEF RcWrite, ctlVars
<1>2. CASE Choose
  <2>1. next = cur /\ next' # cur
    <3>1. mode \in Abs!Answers[cur] /\ cur \in FSMState
      BY <1>2, TestedIsAnswered DEF Choose, TypeOK
    <3> QED BY <1>2, <3>1, NoEcho DEF Choose, CycleInv
  <2> QED BY <1>2, <2>1 DEF Choose
<1>3. CASE Switch
  BY <1>3 DEF Switch
<1>4. CASE StartCycle \/ TestFails \/ StoreOwn \/ StaySwitch \/ Publish
  BY <1>4 DEF StartCycle, TestFails, StoreOwn, StaySwitch, Publish, ctlVars, histVars
<1>5. CASE RunRLThrows
  BY <1>5 DEF RunRLThrows, Ran
<1>6. CASE RunPassive \/ RunDamping \/ RunStandUp \/ RunSitDown \/ RunRL
           \/ RunUserInterface
  <2>1. UNCHANGED <<next, fold>>
    BY <1>6 DEF RunPassive, RunDamping, RunStandUp, RunSitDown, RunRL, RunUserInterface
  <2>2. UNCHANGED <<cur, from>>
    BY <1>6 DEF RunPassive, RunDamping, RunStandUp, RunSitDown, RunRL,
                RunUserInterface, Ran
  <2> QED BY <2>1, <2>2
<1>7. CASE UNCHANGED vars
  BY <1>7 DEF vars, ctlVars, histVars
<1> QED BY <1>1, <1>2, <1>3, <1>4, <1>5, <1>6, <1>7 DEF Next, Cycle, Run

(* STAND_UP folds the legs first exactly when it was not entered from RL,  *)
(* although the flag is set on choosing the state, cleared on leaving it,  *)
(* and never touched by the other ways out of RL and SIT_DOWN.             *)
THEOREM FoldCorrect == Spec => []FoldMatchesOrigin
<1>1. Init => FoldInv
  BY DEF Init, FoldInv
<1>2. FoldInv => FoldMatchesOrigin
  BY DEF FoldInv, FoldMatchesOrigin
<1> QED BY <1>1, <1>2, NextFold, CycleCorrect, PTL DEF Spec

-----------------------------------------------------------------------------
(* enable_counter never falls.                                             *)

(* Once the boards are in MIT mode the enable flag is not sent again,      *)
(* whatever the threshold and the cap, as long as the one does not exceed  *)
(* the other (leg_control.cpp 104-113).                                    *)
THEOREM MitModeStays == Spec => MitModeKept
<1>1. TypeOK /\ [Next]_vars => [ChipMode = "mit" => ChipMode' = "mit"]_vars
  <2> SUFFICES ASSUME TypeOK, [Next]_vars
               PROVE  enable' = enable
                      \/ enable' = IF enable + 1 > EnableCap THEN EnableCap ELSE enable + 1
    BY TicksAssumption DEF TypeOK, ChipMode
  <2>1. CASE Publish
    BY <2>1 DEF Publish
  <2>2. CASE StartCycle \/ Choose \/ TestFails \/ StoreOwn \/ Switch \/ StaySwitch
    BY <2>2 DEF StartCycle, Choose, TestFails, StoreOwn, Switch, StaySwitch, outVars
  <2>3. CASE Run
    BY <2>3 DEF Run, RunPassive, RunDamping, RunStandUp, RunSitDown, RunRL,
                RunRLThrows, RunUserInterface, Ran
  <2>4. ASSUME NEW m \in RcMode, RcWrite(m) PROVE enable' = enable
    BY <2>4 DEF RcWrite, outVars
  <2>5. CASE UNCHANGED vars
    BY <2>5 DEF vars, outVars
  <2> QED BY <2>1, <2>2, <2>3, <2>4, <2>5 DEF Next, Cycle
<1> QED BY <1>1, TypeCorrect, PTL DEF Spec, MitModeKept

-----------------------------------------------------------------------------
(* What the states leave for one another in leg_command.                   *)

(* Fields that only USER_INTERFACE writes, and only Zero_Command clears.   *)
Cleared == cmd.tau = "zero" /\ cmd.whlq = "zero"

(* A finished stand, and what a policy makes of it.                        *)
Standing == /\ Cleared /\ cmd.pos \in {"stand", "rl"}
            /\ cmd.vel = "zero" /\ cmd.whl = "hold"

(* Between its runs a state finds what it left itself; on its first run    *)
(* only as much as every state that leads to it leaves.                    *)
CmdInv ==
  /\ cur = "PASSIVE" /\ step # "run" => cmd = ZeroCommand
  /\ cur = "DAMPING" /\ step # "run" => cmd = DampCommand
  /\ cur \in Timed => Cleared
  /\ cur \in Timed /\ step # "run" => cmd.whl = "hold" /\ cmd.vel \in {"zero", "moving"}
  /\ cur \in Timed /\ step # "run" /\ ~Busy => cmd.vel = "zero"
  /\ cur = "STAND_UP" /\ step # "run" => cmd.pos \in {"fold", "stand"}
  /\ cur = "STAND_UP" /\ step # "run" /\ ~Busy => cmd.pos = "stand"
  /\ cur = "SIT_DOWN" /\ step # "run" => cmd.pos = "sit"
  /\ cur = "RL" => Standing

(* What reached the motors is the command, until the next one is made.     *)
WireInv == step \in {"idle", "test", "default", "switch"} => usb = Wire(cmd)

(* No field of the constant commands is a user's, and both are cleared.    *)
LEMMA ConstantCommands ==
  \A c \in {ZeroCommand, DampCommand} :
    c.tau = "zero" /\ c.whlq = "zero" /\ \A f \in DOMAIN c : c[f] # "user"
<1>1. ZeroCommand.tau = "zero" /\ ZeroCommand.whlq = "zero"
      /\ \A f \in DOMAIN ZeroCommand : ZeroCommand[f] # "user"
  BY DEF ZeroCommand
<1>2. DampCommand.tau = "zero" /\ DampCommand.whlq = "zero"
      /\ \A f \in DOMAIN DampCommand : DampCommand[f] # "user"
  <2>1. DampCommand.pos = "damp" /\ DampCommand.whl = "damp"
    BY DEF DampCommand, ZeroCommand
  <2>2. DampCommand.vel = "zero" /\ DampCommand.tau = "zero" /\ DampCommand.whlq = "zero"
    BY DEF DampCommand, ZeroCommand
  <2>3. DOMAIN DampCommand = {"pos", "vel", "tau", "whl", "whlq"}
    BY CommandTypes DEF Command
  <2> QED BY <2>1, <2>2, <2>3
<1> QED BY <1>1, <1>2

(* A motion writes three fields and keeps the other two.                   *)
LEMMA FollowFields ==
  ASSUME cmd \in Command, NEW who, NEW ended, Follow(who, ended)
  PROVE  /\ cmd'.pos = who /\ cmd'.whl = "hold"
         /\ cmd'.vel = IF ended THEN "zero" ELSE "moving"
         /\ cmd'.tau = cmd.tau /\ cmd'.whlq = cmd.whlq
BY DEF Follow, Command

(* Where a switch of the state can lead, and from where.                   *)
LEMMA SwitchOrigins ==
  ASSUME TypeOK, CycleInv, Switch
  PROVE  /\ next = "STAND_UP" => cur \in {"PASSIVE", "SIT_DOWN", "DAMPING", "RL"}
         /\ next = "SIT_DOWN" => cur = "STAND_UP"
         /\ next = "RL" => cur = "STAND_UP"
<1>1. cur \in FSMState
  BY DEF TypeOK
<1>2. CASE cur = "RL" /\ next = "DAMPING"
  BY <1>2
<1>3. CASE \E m \in Abs!Answers[cur] : next = Goal[m]
  BY <1>1, <1>3 DEF Abs!Answers, Goal, FSMState
<1> QED BY <1>2, <1>3 DEF CycleInv, Switch

(* At the start the command and what was sent of it are zero.              *)
LEMMA InitCmd == Init => CmdInv /\ WireInv
BY DEF Init, CmdInv, WireInv, Timed

(* Every step keeps CmdInv: a state's run builds on what it finds.         *)
LEMMA NextCmd == TypeOK /\ CycleInv /\ CmdInv /\ [Next]_vars => CmdInv'
<1> SUFFICES ASSUME TypeOK, CycleInv, CmdInv, [Next]_vars
             PROVE  CmdInv'
  OBVIOUS
<1> USE DEF CmdInv
<1>1. ASSUME UNCHANGED <<cur, cmd, iter>>, step' = step \/ step # "run" \/ step' = "run"
      PROVE  CmdInv'
  BY <1>1 DEF Cleared, Standing, Busy
<1>2. CASE StartCycle \/ Choose \/ TestFails \/ StoreOwn \/ StaySwitch
  BY <1>1, <1>2 DEF StartCycle, Choose, TestFails, StoreOwn, StaySwitch, ctlVars, outVars
<1>3. ASSUME NEW m \in RcMode, RcWrite(m) PROVE CmdInv'
  BY <1>1, <1>3 DEF RcWrite, ctlVars, outVars
<1>4. CASE Publish
  BY <1>1, <1>4 DEF Publish, ctlVars
<1>5. CASE UNCHANGED vars
  BY <1>1, <1>5 DEF vars, ctlVars, outVars
<1>6. CASE Switch
  <2>1. step = "switch" /\ step' = "run" /\ cur' = next /\ UNCHANGED cmd /\ ~Busy
    BY <1>6 DEF Switch, outVars
  <2>2. next = "STAND_UP" => Cleared
    BY <1>6, <2>1, SwitchOrigins, ConstantCommands DEF Cleared, Standing, Timed
  <2>3. next = "SIT_DOWN" => Cleared
    BY <1>6, <2>1, SwitchOrigins DEF Timed
  <2>4. next = "RL" => Standing
    BY <1>6, <2>1, SwitchOrigins DEF Standing, Timed
  <2> QED BY <2>1, <2>2, <2>3, <2>4 DEF Cleared, Standing, Timed
<1>7. CASE RunPassive \/ RunDamping \/ RunUserInterface
  BY <1>7 DEF RunPassive, RunDamping, RunUserInterface, Ran, Timed
<1>8. CASE RunStandUp
  <2>1. /\ cur = "STAND_UP" /\ cur' = cur /\ step' = "publish" /\ UNCHANGED fold
        /\ Follow(IF fold /\ 3 * iter'["STAND_UP"] < StandTicks THEN "fold" ELSE "stand",
                  iter'["STAND_UP"] >= IF fold THEN StandTicks ELSE RecoverTicks)
    BY <1>8 DEF RunStandUp, Ran
  <2>2. iter'["STAND_UP"] \in Nat
    BY <1>8 DEF RunStandUp, Tick, TypeOK, Timed
  <2>3. Cleared' /\ cmd'.whl = "hold" /\ cmd'.vel \in {"zero", "moving"}
        /\ cmd'.pos \in {"fold", "stand"}
    BY <2>1, FollowFields DEF TypeOK, Cleared, Timed
  <2>4. ASSUME ~Busy' PROVE cmd'.vel = "zero" /\ cmd'.pos = "stand"
    <3>1. iter'["STAND_UP"] >= StandTicks
      BY <2>1, <2>2, <2>4, TicksAssumption DEF Busy, Timed, Duration
    <3>2. /\ iter'["STAND_UP"] >= IF fold THEN StandTicks ELSE RecoverTicks
          /\ ~(3 * iter'["STAND_UP"] < StandTicks)
      BY <2>2, <3>1, TicksAssumption
    <3> QED BY <2>1, <3>2, FollowFields DEF TypeOK
  <2> QED BY <2>1, <2>3, <2>4 DEF Timed
<1>9. CASE RunSitDown
  <2>1. /\ cur = "SIT_DOWN" /\ cur' = cur /\ step' = "publish"
        /\ Follow("sit", iter'["SIT_DOWN"] >= SitTicks)
    BY <1>9 DEF RunSitDown, Ran
  <2>2. iter'["SIT_DOWN"] \in Nat
    BY <1>9 DEF RunSitDown, Tick, TypeOK, Timed
  <2>3. Cleared' /\ cmd'.whl = "hold" /\ cmd'.vel \in {"zero", "moving"} /\ cmd'.pos = "sit"
    BY <2>1, FollowFields DEF TypeOK, Cleared, Timed
  <2>4. ASSUME ~Busy' PROVE cmd'.vel = "zero"
    <3>1. iter'["SIT_DOWN"] >= SitTicks
      BY <2>1, <2>2, <2>4, TicksAssumption DEF Busy, Timed, Duration
    <3> QED BY <2>1, <3>1, FollowFields DEF TypeOK
  <2> QED BY <2>1, <2>3, <2>4 DEF Timed
<1>10. CASE RunRL \/ RunRLThrows
  <2>1. cur = "RL" /\ cur' = cur
    BY <1>10 DEF RunRL, RunRLThrows, Ran
  <2>2. cmd' = cmd \/ cmd' = [cmd EXCEPT !.pos = "rl"]
    BY <1>10 DEF RunRL, RunRLThrows
  <2>3. Standing'
    BY <2>1, <2>2 DEF Standing, Cleared, TypeOK, Command
  <2> QED BY <2>1, <2>3 DEF Timed
<1> QED
  BY <1>2, <1>3, <1>4, <1>5, <1>6, <1>7, <1>8, <1>9, <1>10 DEF Next, Cycle, Run

(* Every step keeps WireInv: a cycle ends with Publish.                    *)
LEMMA NextWire == WireInv /\ [Next]_vars => WireInv'
<1> SUFFICES ASSUME WireInv, [Next]_vars PROVE WireInv'
  OBVIOUS
<1> USE DEF WireInv
<1>1. CASE Publish
  BY <1>1 DEF Publish, Wire
<1>2. CASE StartCycle \/ Choose \/ TestFails \/ StoreOwn \/ Switch \/ StaySwitch
  BY <1>2 DEF StartCycle, Choose, TestFails, StoreOwn, Switch, StaySwitch, outVars, Wire
<1>3. CASE Run
  BY <1>3 DEF Run, RunPassive, RunDamping, RunStandUp, RunSitDown, RunRL,
              RunRLThrows, RunUserInterface, Ran
<1>4. ASSUME NEW m \in RcMode, RcWrite(m) PROVE WireInv'
  BY <1>4 DEF RcWrite, outVars, Wire
<1>5. CASE UNCHANGED vars
  BY <1>5 DEF vars, outVars, Wire
<1> QED BY <1>1, <1>2, <1>3, <1>4, <1>5 DEF Next, Cycle

(* CmdInv and WireInv hold always.                                         *)
LEMMA CmdCorrect == Spec => [](CmdInv /\ WireInv)
<1> QED BY CycleCorrect, InitCmd, NextCmd, NextWire, PTL DEF Spec

(* A policy only ever commands on top of a finished stand: from whatever    *)
(* sequence of requests, user sessions and exceptions it was entered       *)
(* (FSM_State_RL.cpp 326-346).                                             *)
THEOREM PolicyRidesOnStand == Spec => []RlRidesOnStand
<1>1. CmdInv => RlRidesOnStand
  BY DEF CmdInv, RlRidesOnStand, Standing, Cleared
<1> QED BY <1>1, CmdCorrect, PTL

(* No value a user sent is ever published by another state.                *)
THEOREM UserValuesAreGone == Spec => []NoUserResidue
<1>1. TypeOK /\ CmdInv => NoUserResidue
  <2> SUFFICES ASSUME TypeOK, CmdInv, step = "publish", cur # "USER_INTERFACE",
                      NEW f \in DOMAIN cmd
               PROVE  cmd[f] # "user"
    BY DEF NoUserResidue
  <2>1. CASE cur \in {"PASSIVE", "DAMPING"}
    BY <2>1, ConstantCommands DEF CmdInv
  <2>2. CASE cur \in Timed \cup {"RL"}
    <3>1. cmd.pos # "user" /\ cmd.vel # "user" /\ cmd.tau # "user"
          /\ cmd.whl # "user" /\ cmd.whlq # "user"
      BY <2>2 DEF CmdInv, Standing, Cleared, Timed
    <3>2. f \in {"pos", "vel", "tau", "whl", "whlq"}
      BY DEF TypeOK, Command
    <3> QED BY <3>1, <3>2
  <2> QED BY <2>1, <2>2 DEF TypeOK, FSMState, Timed
<1> QED BY <1>1, CmdCorrect, TypeCorrect, PTL

(* STAND_UP and SIT_DOWN are only left after the motors were told to rest  *)
(* at the end of the motion (Control_FSM.cpp 44, 198).                     *)
THEOREM MotionsAreFinished == Spec => MotionsComplete
<1>1. TypeOK /\ CmdInv /\ WireInv /\ [Next]_vars
        => [cur' # cur /\ cur \in Timed => cmd.vel = "zero" /\ usb.vel = "zero"]_vars
  <2> SUFFICES ASSUME CmdInv, WireInv, [Next]_vars, cur' # cur, cur \in Timed
               PROVE  cmd.vel = "zero" /\ usb.vel = "zero"
    OBVIOUS
  <2>1. Switch
    <3>1. ~(StartCycle \/ Choose \/ TestFails \/ StoreOwn \/ StaySwitch \/ Publish)
      BY DEF StartCycle, Choose, TestFails, StoreOwn, StaySwitch, Publish, ctlVars
    <3>2. ~Run
      BY DEF Run, RunPassive, RunDamping, RunStandUp, RunSitDown, RunRL,
             RunRLThrows, RunUserInterface, Ran
    <3>3. ~\E m \in RcMode : RcWrite(m)
      BY DEF RcWrite, ctlVars
    <3>4. ~UNCHANGED vars
      BY DEF vars, ctlVars
    <3> QED BY <3>1, <3>2, <3>3, <3>4 DEF Next, Cycle
  <2>2. step = "switch" /\ ~Busy
    BY <2>1 DEF Switch
  <2> QED BY <2>2 DEF CmdInv, WireInv, Wire
<1> QED BY <1>1, TypeCorrect, CmdCorrect, PTL DEF Spec, MotionsComplete

-----------------------------------------------------------------------------
(* The second cycle after an exception publishes damping, whatever was     *)
(* asked for meanwhile (Control_FSM.cpp 213-221).                          *)
THEOREM FaultsAreDamped == Spec => []FaultEndsInDamping
<1>1. CycleInv /\ CmdInv => FaultEndsInDamping
  BY DEF CycleInv, CmdInv, FaultEndsInDamping
<1> QED BY <1>1, CycleCorrect, CmdCorrect, PTL
===============================================================================
