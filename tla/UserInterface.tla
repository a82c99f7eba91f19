---------------------------- MODULE UserInterface ----------------------------
(***************************************************************************)
(* FSM_State_User_Interface: the control thread enters, runs and leaves    *)
(* the state; a subscriber thread, started on entry and joined on exit,    *)
(* takes motor commands from an iceoryx queue and copies them into buffers *)
(* that run_state copies on into leg_command, under state_mutex_.          *)
(*                                                                         *)
(* Commands are numbered in the order they are published; 0 stands for the *)
(* zero-initialised buffers.  A copy is done in two halves, so that a      *)
(* reader can meet a half-written buffer if the lock does not stop it.     *)
(* Left out: the robot state that run_state publishes and no one here      *)
(* reads back.                                                             *)
(***************************************************************************)
EXTENDS Naturals, Sequences

CONSTANTS
  MaxSent,   \* bound on the commands published
  Capacity   \* of the subscriber's queue, which discards its oldest entry

ASSUME BoundsAssumption == MaxSent \in Nat /\ Capacity \in Nat \ {0}

VARIABLES
  ctl,      \* where the control thread stands
  sub,      \* where the subscriber thread stands; "none" when not joinable
  exit,     \* exit_state_
  newest,   \* number of commands published so far
  queue,    \* the subscriber's queue
  sample,   \* the command the subscriber thread is copying
  buf,      \* q_des ... tau_ff of the state object
  cmd,      \* leg_command, as this state wrote it last
  again     \* history: the state was entered before

vars == <<ctl, sub, exit, newest, queue, sample, buf, cmd, again>>

Half == {"first", "rest"}

SubHoldsLock == sub = "copying"
CtlHoldsLock == ctl = "reading"

-----------------------------------------------------------------------------
(* Mistake: a constructor that leaves the flag up.                         *)
InitFlagUp ==
  /\ ctl = "out" /\ sub = "none" /\ exit = TRUE
  /\ newest = 0 /\ queue = <<>> /\ sample = 0
  /\ buf = [h \in Half |-> 0] /\ cmd = [h \in Half |-> 0]
  /\ again = FALSE

Init ==
  /\ ctl = "out" /\ sub = "none" /\ exit = FALSE
  /\ newest = 0 /\ queue = <<>> /\ sample = 0
  /\ buf = [h \in Half |-> 0] /\ cmd = [h \in Half |-> 0]
  /\ again = FALSE

(* A user program publishes a command, whether or not the robot listens.   *)
(* The queue exists since construction and outlives every session.         *)
Publish ==
  /\ newest < MaxSent
  /\ newest' = newest + 1
  /\ queue' = Append(IF Len(queue) = Capacity THEN Tail(queue) ELSE queue, newest')
  /\ UNCHANGED <<ctl, sub, exit, sample, buf, cmd, again>>

-----------------------------------------------------------------------------
(* The control thread.                                                     *)

(* state_on_enter starts the thread ...                                    *)
EnterStarts ==
  /\ ctl = "out"
  /\ ctl' = "starting" /\ sub' = "top"
  /\ UNCHANGED <<exit, newest, queue, sample, buf, cmd, again>>

(* ... and lowers the flag only afterwards.                                *)
EnterLowersFlag ==
  /\ ctl = "starting"
  /\ exit' = FALSE /\ ctl' = "in"
  /\ UNCHANGED <<sub, newest, queue, sample, buf, cmd, again>>

(* Mistake: run_state does not lock.                                       *)
RunReadsUnlocked ==
  /\ ctl = "in"
  /\ cmd' = [cmd EXCEPT !.first = buf.first]
  /\ ctl' = "reading"
  /\ UNCHANGED <<sub, exit, newest, queue, sample, buf, again>>

(* run_state takes the shared lock and copies ...                          *)
RunReads ==
  /\ ctl = "in" /\ ~SubHoldsLock
  /\ cmd' = [cmd EXCEPT !.first = buf.first]
  /\ ctl' = "reading"
  /\ UNCHANGED <<sub, exit, newest, queue, sample, buf, again>>

(* ... the rest, and releases it.                                          *)
RunReadsRest ==
  /\ ctl = "reading"
  /\ cmd' = [cmd EXCEPT !.rest = buf.rest]
  /\ ctl' = "in"
  /\ UNCHANGED <<sub, exit, newest, queue, sample, buf, again>>

(* Mistake: the flag is not raised before the thread is joined.            *)
ExitForgetsFlag ==
  /\ ctl = "in"
  /\ ctl' = "joining"
  /\ UNCHANGED <<exit, sub, newest, queue, sample, buf, cmd, again>>

(* state_on_exit raises the flag ...                                       *)
ExitRaisesFlag ==
  /\ ctl = "in"
  /\ exit' = TRUE /\ ctl' = "joining"
  /\ UNCHANGED <<sub, newest, queue, sample, buf, cmd, again>>

(* Mistake: the thread is not waited for.                                  *)
ExitDoesNotWait ==
  /\ ctl = "joining"
  /\ ctl' = "out" /\ again' = TRUE
  /\ UNCHANGED <<sub, exit, newest, queue, sample, buf, cmd>>

(* ... and joins.                                                          *)
ExitJoins ==
  /\ ctl = "joining" /\ sub = "done"
  /\ sub' = "none" /\ ctl' = "out" /\ again' = TRUE
  /\ UNCHANGED <<exit, newest, queue, sample, buf, cmd>>

-----------------------------------------------------------------------------
(* The subscriber thread.                                                  *)

LoopTest ==
  /\ sub = "top"
  /\ sub' = IF exit THEN "done" ELSE "locking"
  /\ UNCHANGED <<ctl, exit, newest, queue, sample, buf, cmd, again>>

(* take() finds nothing.                                                   *)
TakeNothing ==
  /\ sub = "locking" /\ ~CtlHoldsLock
  /\ queue = <<>>
  /\ sub' = "waiting"
  /\ UNCHANGED <<ctl, exit, newest, queue, sample, buf, cmd, again>>

(* One take() per period; the copy begins, under the unique lock ...       *)
Take ==
  /\ sub = "locking" /\ ~CtlHoldsLock
  /\ queue # <<>>
  /\ sample' = Head(queue) /\ queue' = Tail(queue)
  /\ buf' = [buf EXCEPT !.first = sample']
  /\ sub' = "copying"
  /\ UNCHANGED <<ctl, exit, newest, cmd, again>>

(* ... and ends with it.                                                   *)
TakeRest ==
  /\ sub = "copying"
  /\ buf' = [buf EXCEPT !.rest = sample]
  /\ sub' = "waiting"
  /\ UNCHANGED <<ctl, exit, newest, queue, sample, cmd, again>>

(* The timer of the thread elapses.                                        *)
Wake ==
  /\ sub = "waiting"
  /\ sub' = "top"
  /\ UNCHANGED <<ctl, exit, newest, queue, sample, buf, cmd, again>>

-----------------------------------------------------------------------------
Control == \/ EnterStarts \/ EnterLowersFlag \/ RunReads \/ RunReadsRest
           \/ ExitRaisesFlag \/ ExitJoins

Subscriber == LoopTest \/ TakeNothing \/ Take \/ TakeRest \/ Wake

Next == Publish \/ Control \/ Subscriber

Spec == Init /\ [][Next]_vars

(* Neither thread stops, except where it blocks.  Each holds state_mutex_  *)
(* for one copy per period and sleeps without it, so a thread blocked on   *)
(* it finds it free again and again and obtains it.  When the state is     *)
(* entered or left is the operator's choice.                               *)
FairSpec ==
  /\ Spec
  /\ WF_vars(EnterLowersFlag) /\ SF_vars(RunReads) /\ WF_vars(RunReadsRest)
  /\ WF_vars(ExitJoins)
  /\ WF_vars(LoopTest) /\ SF_vars(TakeNothing \/ Take) /\ WF_vars(TakeRest)
  /\ WF_vars(Wake)

-----------------------------------------------------------------------------
(* Types; no buffer holds a command nobody published; state_mutex_ has at  *)
(* most one holder.  std::thread ends the process when a joinable thread   *)
(* object is assigned to (User_Interface.cpp 20): whenever the state may   *)
(* be entered the previous thread has been joined, and one exists while    *)
(* the state is active.                                                    *)
TypeOK ==
  /\ ctl \in {"out", "starting", "in", "reading", "joining"}
  /\ sub \in {"none", "top", "locking", "copying", "waiting", "done"}
  /\ exit \in BOOLEAN /\ again \in BOOLEAN
  /\ newest \in 0..MaxSent /\ sample \in 0..MaxSent
  /\ queue \in Seq(1..newest) /\ Len(queue) <= Capacity
  /\ buf \in [Half -> 0..newest] /\ cmd \in [Half -> 0..newest]
  /\ ~(SubHoldsLock /\ CtlHoldsLock)
  /\ (ctl = "out" <=> sub = "none")

(* The value of a buffer whose copy has ended: a number nobody published   *)
(* if its halves differ.                                                   *)
Whole(b) == IF b.first = b.rest THEN b.first ELSE MaxSent + 1

Abs == INSTANCE LatestValue
         WITH slot <- IF sub = "copying" THEN buf.rest ELSE Whole(buf),
              out  <- IF ctl = "reading" THEN cmd.rest ELSE Whole(cmd)

(* leg_command only ever receives whole commands, in the order they were   *)
(* published, across all sessions: the lock makes the two copies atomic.   *)
CommandsAreWhole == Abs!Spec

(* Leaving the state never hangs the control loop in join().               *)
ExitReturns == (ctl = "joining") ~> (ctl = "out")

InSession == ctl \in {"in", "reading"}

(* In the first session a command that has been published, or a newer one, *)
(* is executed unless the state is left.                                   *)
FirstSessionServes ==
  \A n \in 1..MaxSent :
    (InSession /\ ~again /\ newest >= n) ~> (cmd.rest >= n \/ ~InSession)

(* The same of every session.  User_Interface.cpp 52: "second execute the  *)
(* command".                                                               *)
EverySessionServes ==
  \A n \in 1..MaxSent :
    (InSession /\ newest >= n) ~> (cmd.rest >= n \/ ~InSession)
===============================================================================
