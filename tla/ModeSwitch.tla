------------------------------ MODULE ModeSwitch ------------------------------
(***************************************************************************)
(* What the control state machine promises its operator, and no more: the  *)
(* robot changes state only along the listed edges, only to answer a       *)
(* request made since the previous change, each request at most once -- or  *)
(* because the policy failed, and then only to DAMPING.  When and after    *)
(* how many control cycles a request is answered is left open; a request   *)
(* may also be dropped.                                                    *)
(***************************************************************************)
EXTENDS FSMNames

VARIABLES st,   \* the state the robot has been committed to
          ask   \* the operator's unanswered request, or NoAsk

vars == <<st, ask>>

(* The requests each state answers.                                        *)
Answers == [PASSIVE        |-> {"RECOVER_STAND", "USER_INTERFACE"},
            STAND_UP       |-> {"SITDOWN", "DAMPING", "RL_WALK"},
            SIT_DOWN       |-> {"PASSIVE", "DAMPING", "RECOVER_STAND"},
            DAMPING        |-> {"RECOVER_STAND", "PASSIVE"},
            RL             |-> {"RECOVER_STAND", "DAMPING"},
            USER_INTERFACE |-> {"DAMPING"}]

TypeOK == /\ st \in FSMState
          /\ ask \in RcMode \cup {NoAsk}

Init == st = "PASSIVE" /\ ask = NoAsk

(* The operator asks; a newer request replaces an older one.               *)
Ask(m) == ask' = m /\ UNCHANGED st

(* The request is dropped.                                                 *)
Ignore == ask' = NoAsk /\ UNCHANGED st

(* The request is answered and thereby used up.                            *)
Move == /\ ask \in Answers[st]
        /\ st' = Goal[ask]
        /\ ask' = NoAsk

(* The policy fails: DAMPING, whatever was asked before.                   *)
Fault == /\ st = "RL"
         /\ st' = "DAMPING"
         /\ ask' = NoAsk

Next == (\E m \in RcMode : Ask(m)) \/ Ignore \/ Move \/ Fault

Spec == Init /\ [][Next]_vars
===============================================================================
