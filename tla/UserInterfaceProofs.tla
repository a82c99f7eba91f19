-------------------------- MODULE UserInterfaceProofs --------------------------
(***************************************************************************)
(* For every length of the queue and every number of commands: the lock of *)
(* FSM_State_User_Interface makes its two copies atomic, the subscriber    *)
(* thread is always joined before it is started again, and the state       *)
(* implements LatestValue, whole commands in the order of publication.     *)
(***************************************************************************)
EXTENDS UserInterface, TLAPS

-----------------------------------------------------------------------------
(* The entries of a queue are in order and newer than n.                   *)
InOrder(q, n) ==
  /\ \A i \in DOMAIN q : n < q[i]
  /\ \A i, j \in DOMAIN q : i < j => q[i] < q[j]

(* What waits in the queue is newer than what was taken, and in order.     *)
QueueInv == InOrder(queue, sample)

(* The halves of a copy differ only while it is under way, and then the    *)
(* other thread does not touch what is copied.                             *)
CopyInv ==
  /\ buf.first = sample
  /\ IF sub = "copying" THEN buf.rest < sample ELSE buf.rest = sample
  /\ IF ctl = "reading" THEN cmd.first = buf.first ELSE cmd.first = cmd.rest

IInv == TypeOK /\ QueueInv /\ CopyInv
-----------------------------------------------------------------------------
(* The subscriber's queue.                                                 *)

(* The head of a queue is its oldest entry.                                *)
LEMMA TailInOrder ==
  ASSUME NEW m \in Nat, NEW n \in Nat, NEW q \in Seq(1..m), InOrder(q, n), q # <<>>
  PROVE  /\ Head(q) \in 1..m /\ n < Head(q)
         /\ Tail(q) \in Seq(1..m) /\ Len(q) \in Nat /\ Len(Tail(q)) = Len(q) - 1
         /\ InOrder(Tail(q), Head(q)) /\ InOrder(Tail(q), n)
<1>1. /\ Len(q) \in Nat \ {0} /\ DOMAIN q = 1..Len(q) /\ Head(q) = q[1]
      /\ Tail(q) \in Seq(1..m) /\ Len(Tail(q)) = Len(q) - 1
      /\ DOMAIN Tail(q) = 1..(Len(q) - 1)
      /\ \A i \in DOMAIN Tail(q) : Tail(q)[i] = q[i + 1]
  OBVIOUS
<1>2. \A i \in DOMAIN q : q[i] \in 1..m
  OBVIOUS
<1>3. Head(q) \in 1..m /\ n < Head(q)
  BY <1>1, <1>2 DEF InOrder
<1>4. \A i \in DOMAIN Tail(q) : i + 1 \in DOMAIN q /\ 1 < i + 1
  BY <1>1
<1>5. \A i \in DOMAIN Tail(q) : Head(q) < Tail(q)[i] /\ n < Tail(q)[i]
  <2> SUFFICES ASSUME NEW i \in DOMAIN Tail(q)
               PROVE  q[1] < q[i + 1] /\ n < q[i + 1]
    BY <1>1
  <2>1. 1 \in DOMAIN q /\ i + 1 \in DOMAIN q /\ 1 < i + 1
    BY <1>1, <1>4
  <2> QED BY <2>1 DEF InOrder
<1>6. \A i, j \in DOMAIN Tail(q) : i < j => Tail(q)[i] < Tail(q)[j]
  BY <1>1, <1>4 DEF InOrder
<1> QED BY <1>1, <1>3, <1>5, <1>6 DEF InOrder

(* What is published is the newest entry.                                  *)
LEMMA AppendInOrder ==
  ASSUME NEW m \in Nat, NEW n \in 0..m, NEW q \in Seq(1..m), InOrder(q, n)
  PROVE  /\ Append(q, m + 1) \in Seq(1..(m + 1))
         /\ Len(q) \in Nat /\ Len(Append(q, m + 1)) = Len(q) + 1
         /\ InOrder(Append(q, m + 1), n)
<1> DEFINE r == Append(q, m + 1)
<1>1. q \in Seq(1..(m + 1)) /\ m + 1 \in 1..(m + 1)
  OBVIOUS
<1>2. /\ r \in Seq(1..(m + 1)) /\ Len(r) = Len(q) + 1 /\ Len(q) \in Nat
      /\ DOMAIN r = 1..(Len(q) + 1) /\ DOMAIN q = 1..Len(q)
      /\ \A i \in DOMAIN q : r[i] = q[i]
      /\ r[Len(q) + 1] = m + 1
  BY <1>1
<1>3. \A i \in DOMAIN q : q[i] \in 1..m
  OBVIOUS
<1> HIDE DEF r
<1>4. \A i \in DOMAIN r : i \in DOMAIN q \/ i = Len(q) + 1
  BY <1>2
<1>5. ASSUME NEW i \in DOMAIN r PROVE n < r[i]
  <2>1. CASE i \in DOMAIN q
    BY <1>2, <2>1 DEF InOrder
  <2>2. CASE i = Len(q) + 1
    BY <1>2, <2>2
  <2> QED BY <1>4, <2>1, <2>2
<1>6. ASSUME NEW i \in DOMAIN r, NEW j \in DOMAIN r, i < j PROVE r[i] < r[j]
  <2>1. i \in DOMAIN q
    BY <1>2, <1>6
  <2>2. CASE j \in DOMAIN q
    BY <1>2, <1>6, <2>1, <2>2 DEF InOrder
  <2>3. CASE j = Len(q) + 1
    BY <1>2, <1>3, <2>1, <2>3
  <2> QED BY <1>4, <2>2, <2>3
<1>7. InOrder(r, n)
  BY <1>5, <1>6 DEF InOrder
<1> QED BY <1>2, <1>7 DEF r

(* A full queue loses its oldest entry first.                              *)
LEMMA PublishQueues ==
  ASSUME TypeOK, QueueInv, Publish, sample <= newest
  PROVE  /\ queue' \in Seq(1..newest') /\ Len(queue') <= Capacity
         /\ QueueInv'
<1>1. /\ newest \in Nat /\ newest' = newest + 1 /\ sample \in 0..newest
      /\ queue \in Seq(1..newest) /\ Len(queue) <= Capacity
      /\ sample' = sample /\ Capacity \in Nat \ {0}
      /\ InOrder(queue, sample)
  BY BoundsAssumption DEF TypeOK, Publish, QueueInv
<1>2. CASE Len(queue) = Capacity
  <2>1. queue # <<>> /\ queue' = Append(Tail(queue), newest + 1)
    BY <1>1, <1>2 DEF Publish
  <2>2. /\ Tail(queue) \in Seq(1..newest) /\ Len(Tail(queue)) = Len(queue) - 1
        /\ InOrder(Tail(queue), sample)
    BY <1>1, <2>1, TailInOrder
  <2>3. /\ queue' \in Seq(1..(newest + 1)) /\ Len(queue') = Len(Tail(queue)) + 1
        /\ InOrder(queue', sample)
    BY <1>1, <2>1, <2>2, AppendInOrder
  <2>4. Len(queue') <= Capacity
    BY <1>1, <1>2, <2>2, <2>3
  <2> QED BY <1>1, <2>3, <2>4 DEF QueueInv
<1>3. CASE Len(queue) # Capacity
  <2>1. queue' = Append(queue, newest + 1)
    BY <1>1, <1>3 DEF Publish
  <2>2. /\ queue' \in Seq(1..(newest + 1)) /\ Len(queue') = Len(queue) + 1
        /\ Len(queue) \in Nat /\ InOrder(queue', sample)
    BY <1>1, <2>1, AppendInOrder
  <2>3. Len(queue') <= Capacity
    BY <1>1, <1>3, <2>2
  <2> QED BY <1>1, <2>2, <2>3 DEF QueueInv
<1> QED BY <1>2, <1>3

-----------------------------------------------------------------------------
(* The steps, one by one.                                                  *)

(* Nothing is buffered yet.                                                *)
LEMMA Initially == Init => IInv
<1> SUFFICES ASSUME Init PROVE IInv
  OBVIOUS
<1>1. TypeOK
  <2>1. /\ newest = 0 /\ newest \in 0..MaxSent /\ sample \in 0..MaxSent
        /\ buf \in [Half -> 0..newest] /\ cmd \in [Half -> 0..newest]
    BY BoundsAssumption DEF Init
  <2>2. queue \in Seq(1..newest) /\ Len(queue) <= Capacity
    BY BoundsAssumption DEF Init
  <2>3. ctl = "out" /\ sub = "none" /\ exit \in BOOLEAN /\ again \in BOOLEAN
    BY DEF Init
  <2> QED BY <2>1, <2>2, <2>3 DEF TypeOK, SubHoldsLock, CtlHoldsLock
<1>2. QueueInv
  BY DEF Init, QueueInv, InOrder
<1>3. CopyInv
  BY DEF Init, CopyInv, Half
<1> QED BY <1>1, <1>2, <1>3 DEF IInv

(* A publication only concerns the queue.                                  *)
LEMMA PublishKeeps == IInv /\ Publish => IInv'
<1> SUFFICES ASSUME TypeOK, QueueInv, CopyInv, Publish PROVE IInv'
  BY DEF IInv
<1>1. /\ newest < MaxSent /\ newest' = newest + 1
      /\ UNCHANGED <<ctl, sub, exit, sample, buf, cmd, again>>
  BY DEF Publish
<1>2. newest \in Nat /\ sample <= newest
  <2>1. newest \in Nat /\ buf.first \in 0..newest /\ buf.first = sample
    BY BoundsAssumption DEF TypeOK, CopyInv, Half
  <2> QED BY <2>1
<1>3. /\ queue' \in Seq(1..newest') /\ Len(queue') <= Capacity /\ QueueInv'
  BY <1>2, PublishQueues
<1>4. newest' \in 0..MaxSent
  BY <1>1, <1>2, BoundsAssumption
<1>5. buf' \in [Half -> 0..newest'] /\ cmd' \in [Half -> 0..newest']
  <2>1. 0..newest \subseteq 0..newest'
    BY <1>1, <1>2
  <2>2. buf \in [Half -> 0..newest] /\ cmd \in [Half -> 0..newest]
    BY DEF TypeOK
  <2> QED BY <1>1, <2>1, <2>2
<1>6. TypeOK'
  BY <1>1, <1>3, <1>4, <1>5 DEF TypeOK, SubHoldsLock, CtlHoldsLock
<1>7. CopyInv'
  BY <1>1 DEF CopyInv
<1> QED BY <1>3, <1>6, <1>7 DEF IInv

(* The control thread copies what the subscriber thread, which holds the   *)
(* lock or not at all, does not change meanwhile.                          *)
LEMMA ControlKeeps == IInv /\ Control => IInv'
<1> SUFFICES ASSUME TypeOK, QueueInv, CopyInv, Control PROVE IInv'
  BY DEF IInv
<1>1. UNCHANGED <<newest, queue, sample, buf>>
  BY DEF Control, EnterStarts, EnterLowersFlag, RunReads, RunReadsRest,
     ExitRaisesFlag, ExitJoins
<1>2. QueueInv'
  BY <1>1 DEF QueueInv, InOrder
<1>3. newest \in Nat /\ buf \in [Half -> 0..newest] /\ cmd \in [Half -> 0..newest]
  BY BoundsAssumption DEF TypeOK
<1>4. buf["first"] \in 0..newest /\ buf["rest"] \in 0..newest
  BY <1>3 DEF Half
<1>5. CASE EnterStarts
  BY <1>1, <1>2, <1>5
     DEF EnterStarts, IInv, TypeOK, CopyInv, SubHoldsLock, CtlHoldsLock
<1>6. CASE EnterLowersFlag
  BY <1>1, <1>2, <1>6
     DEF EnterLowersFlag, IInv, TypeOK, CopyInv, SubHoldsLock, CtlHoldsLock
<1>7. CASE RunReads
  <2>1. cmd' \in [Half -> 0..newest] /\ cmd'.first = buf.first
    BY <1>3, <1>4, <1>7 DEF RunReads, Half
  <2>2. CopyInv'
    BY <1>1, <1>7, <2>1 DEF RunReads, CopyInv
  <2> QED BY <1>1, <1>2, <1>7, <2>1, <2>2
          DEF RunReads, IInv, TypeOK, SubHoldsLock, CtlHoldsLock
<1>8. CASE RunReadsRest
  <2>1. /\ cmd' \in [Half -> 0..newest] /\ cmd'.rest = buf.rest
        /\ cmd'.first = cmd.first
    BY <1>3, <1>4, <1>8 DEF RunReadsRest, Half
  <2>2. sub # "copying" /\ cmd.first = buf.first /\ buf.first = buf.rest
    BY <1>8 DEF RunReadsRest, TypeOK, CopyInv, SubHoldsLock, CtlHoldsLock
  <2>3. CopyInv'
    BY <1>1, <1>8, <2>1, <2>2 DEF RunReadsRest, CopyInv
  <2> QED BY <1>1, <1>2, <1>8, <2>1, <2>3
          DEF RunReadsRest, IInv, TypeOK, SubHoldsLock, CtlHoldsLock
<1>9. CASE ExitRaisesFlag
  BY <1>1, <1>2, <1>9
     DEF ExitRaisesFlag, IInv, TypeOK, CopyInv, SubHoldsLock, CtlHoldsLock
<1>10. CASE ExitJoins
  BY <1>1, <1>2, <1>10
     DEF ExitJoins, IInv, TypeOK, CopyInv, SubHoldsLock, CtlHoldsLock
<1> QED BY <1>5, <1>6, <1>7, <1>8, <1>9, <1>10 DEF Control

(* The subscriber thread stores what it took, under the lock.              *)
LEMMA SubscriberKeeps == IInv /\ Subscriber => IInv'
<1> SUFFICES ASSUME TypeOK, QueueInv, CopyInv, Subscriber PROVE IInv'
  BY DEF IInv
<1>1. UNCHANGED <<ctl, exit, newest, cmd, again>>
  BY DEF Subscriber, LoopTest, TakeNothing, Take, TakeRest, Wake
<1>2. newest \in Nat /\ buf \in [Half -> 0..newest] /\ MaxSent \in Nat
      /\ newest <= MaxSent /\ sample \in Nat
  BY BoundsAssumption DEF TypeOK
<1>3. CASE LoopTest \/ TakeNothing \/ Wake
  <2>1. UNCHANGED <<queue, sample, buf>> /\ sub # "copying" /\ sub' # "copying"
        /\ sub # "none" /\ sub' \in {"top", "locking", "waiting", "done"}
    BY <1>3 DEF LoopTest, TakeNothing, Wake
  <2>2. QueueInv'
    BY <2>1 DEF QueueInv, InOrder
  <2>3. CopyInv'
    BY <1>1, <2>1 DEF CopyInv
  <2>4. TypeOK'
    BY <1>1, <2>1 DEF TypeOK, SubHoldsLock, CtlHoldsLock
  <2> QED BY <2>2, <2>3, <2>4 DEF IInv
<1>4. CASE Take
  <2>1. /\ queue # <<>> /\ sample' = Head(queue) /\ queue' = Tail(queue)
        /\ buf' = [buf EXCEPT !.first = sample']
        /\ ctl # "reading" /\ sub = "locking" /\ sub' = "copying"
    BY <1>4 DEF Take, CtlHoldsLock
  <2>2. /\ sample' \in 1..newest /\ sample < sample'
        /\ queue' \in Seq(1..newest) /\ Len(queue') <= Capacity
        /\ InOrder(queue', sample')
    <3>1. /\ queue \in Seq(1..newest) /\ Len(queue) <= Capacity
          /\ InOrder(queue, sample) /\ Capacity \in Nat
      BY BoundsAssumption DEF TypeOK, QueueInv
    <3>2. /\ sample' \in 1..newest /\ sample < sample'
          /\ queue' \in Seq(1..newest) /\ Len(queue) \in Nat
          /\ Len(queue') = Len(queue) - 1 /\ InOrder(queue', sample')
      BY <1>2, <2>1, <3>1, TailInOrder
    <3> QED BY <3>1, <3>2
  <2>3. /\ buf' \in [Half -> 0..newest] /\ buf'.first = sample'
        /\ buf'.rest = buf.rest
    BY <1>2, <2>1, <2>2 DEF Half
  <2>4. QueueInv'
    BY <2>2 DEF QueueInv
  <2>5. CopyInv'
    BY <1>1, <2>1, <2>2, <2>3 DEF CopyInv
  <2>6. sample' \in 0..MaxSent
    BY <1>2, <2>2
  <2>7. TypeOK'
    BY <1>1, <2>1, <2>2, <2>3, <2>6 DEF TypeOK, SubHoldsLock, CtlHoldsLock
  <2> QED BY <2>4, <2>5, <2>7 DEF IInv
<1>5. CASE TakeRest
  <2>1. /\ buf' = [buf EXCEPT !.rest = sample] /\ UNCHANGED <<queue, sample>>
        /\ sub = "copying" /\ sub' = "waiting" /\ ctl # "reading"
    BY <1>5 DEF TakeRest, TypeOK, SubHoldsLock, CtlHoldsLock
  <2>2. sample \in 0..newest
    BY <1>2 DEF CopyInv, Half
  <2>3. /\ buf' \in [Half -> 0..newest] /\ buf'.rest = sample
        /\ buf'.first = buf.first
    BY <1>2, <2>1, <2>2 DEF Half
  <2>4. QueueInv'
    BY <2>1 DEF QueueInv, InOrder
  <2>5. CopyInv'
    BY <1>1, <2>1, <2>3 DEF CopyInv
  <2>6. TypeOK'
    BY <1>1, <2>1, <2>3 DEF TypeOK, SubHoldsLock, CtlHoldsLock
  <2> QED BY <2>4, <2>5, <2>6 DEF IInv
<1> QED BY <1>3, <1>4, <1>5 DEF Subscriber

(* The invariant holds always.                                             *)
LEMMA Inductive == Spec => []IInv
<1>1. IInv /\ UNCHANGED vars => IInv'
  BY DEF IInv, TypeOK, QueueInv, InOrder, CopyInv, SubHoldsLock, CtlHoldsLock, vars
<1> QED BY <1>1, Initially, PublishKeeps, ControlKeeps, SubscriberKeeps, PTL
        DEF Spec, Next
-----------------------------------------------------------------------------
(* The theorems.                                                           *)

(* Types, one holder of state_mutex_ at a time, and no joinable thread     *)
(* when the state is entered (FSM_State_User_Interface.cpp, 20).           *)
THEOREM SessionsAreOrderly == Spec => []TypeOK
<1>1. IInv => TypeOK
  BY DEF IInv
<1> QED BY <1>1, Inductive, PTL

(* Seen from outside a copy under way, the buffer holds what it held       *)
(* before, and a finished copy is whole.                                   *)
LEMMA MappedValues ==
  ASSUME CopyInv
  PROVE  /\ (IF sub = "copying" THEN buf.rest ELSE Whole(buf)) = buf.rest
         /\ (IF ctl = "reading" THEN cmd.rest ELSE Whole(cmd)) = cmd.rest
BY DEF CopyInv, Whole

(* The state implements a buffer between two threads that hands on the     *)
(* value stored last, whole and never an older one: across any number of   *)
(* sessions and whatever the queue has lost                                *)
(* (FSM_State_User_Interface.cpp 52-73, 79-107).                           *)
THEOREM RefinesLatestValue == Spec => CommandsAreWhole
<1> DEFINE slot == IF sub = "copying" THEN buf.rest ELSE Whole(buf)
           out  == IF ctl = "reading" THEN cmd.rest ELSE Whole(cmd)
<1>1. Init => Abs!Init
  BY DEF Init, Abs!Init, Whole, Half
<1>2. IInv /\ IInv' /\ [Next]_vars => [Abs!Next]_(Abs!vars)
  <2> SUFFICES ASSUME TypeOK, CopyInv, CopyInv', QueueInv, [Next]_vars
               PROVE  Abs!Next \/ UNCHANGED <<newest, slot, out>>
    BY DEF IInv, Abs!vars
  <2>1. slot = buf.rest /\ out = cmd.rest /\ slot' = buf'.rest /\ out' = cmd'.rest
    BY MappedValues DEF CopyInv, Whole
  <2> HIDE DEF slot, out
  <2>2. CASE Publish
    <3>1. newest' = newest + 1 /\ UNCHANGED <<slot, out>>
      BY <2>1, <2>2 DEF Publish
    <3> QED BY <3>1 DEF Abs!Next, Abs!Produce, slot, out
  <2>3. CASE RunReadsRest
    <3>1. /\ buf.rest = sample /\ cmd'.rest = buf.rest
          /\ UNCHANGED <<newest, buf>>
      BY <2>3 DEF RunReadsRest, TypeOK, CopyInv, Half, SubHoldsLock, CtlHoldsLock
    <3>2. out' = slot /\ UNCHANGED <<newest, slot>>
      BY <2>1, <3>1
    <3> QED BY <3>2 DEF Abs!Next, Abs!Read, slot, out
  <2>4. CASE RunReads
    <3>1. cmd'.rest = cmd.rest /\ UNCHANGED <<newest, buf>>
      BY <2>4 DEF RunReads, TypeOK, Half
    <3> QED BY <2>1, <3>1
  <2>5. CASE Take
    <3>1. buf'.rest = buf.rest /\ UNCHANGED <<newest, cmd>>
      BY <2>5 DEF Take, TypeOK, Half
    <3> QED BY <2>1, <3>1
  <2>6. CASE TakeRest
    <3>1. /\ buf'.rest = sample /\ buf.rest < sample
          /\ UNCHANGED <<newest, cmd>>
      BY <2>6 DEF TakeRest, TypeOK, CopyInv, Half
    <3>2. /\ newest \in Nat /\ buf.first = sample /\ buf.first \in 0..newest
          /\ buf.rest \in 0..newest
      BY BoundsAssumption DEF TypeOK, CopyInv, Half
    <3>3. slot' \in (slot + 1)..newest /\ UNCHANGED <<newest, out>>
      BY <2>1, <3>1, <3>2
    <3> QED BY <3>3 DEF Abs!Next, Abs!Store, slot, out
  <2>7. CASE \/ EnterStarts \/ EnterLowersFlag \/ ExitRaisesFlag \/ ExitJoins
             \/ LoopTest \/ TakeNothing \/ Wake \/ UNCHANGED vars
    <3>1. UNCHANGED <<newest, buf, cmd>>
      BY <2>7 DEF EnterStarts, EnterLowersFlag, ExitRaisesFlag, ExitJoins,
         LoopTest, TakeNothing, Wake, vars
    <3> QED BY <2>1, <3>1
  <2> QED BY <2>2, <2>3, <2>4, <2>5, <2>6, <2>7 DEF Next, Control, Subscriber
<1> QED BY <1>1, <1>2, Inductive, PTL DEF Spec, CommandsAreWhole, Abs!Spec
===============================================================================
