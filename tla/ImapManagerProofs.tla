-------------------------- MODULE ImapManagerProofs --------------------------
(***************************************************************************)
(* Proofs about ImapManager, for every set of items, every assignment of   *)
(* items to queues and every bound on connection losses and refreshes.     *)
(* First what the process thread owes to those that wait for it, then what *)
(* becomes of each item: it is in one place at a time, it is tried a       *)
(* bounded number of times, its failure is earned, and the whole           *)
(* implements RequestService.                                              *)
(***************************************************************************)
EXTENDS ImapManager, SequenceTheorems, TLAPS

-----------------------------------------------------------------------------
(* The queues. *)

(* push_front of an item to its queue leaves a family of queues. *)
LEMMA PushFrontType ==
  ASSUME queue \in [Queues -> Seq(Items)], NEW i \in Items
  PROVE  PushFront(i) \in [Queues -> Seq(Items)]
<1>1. QueueOf[i] \in Queues
  BY ItemsAssumption
<1>2. <<i>> \o queue[QueueOf[i]] \in Seq(Items)
  BY <1>1, ConcatProperties
<1>. QED
  BY <1>1, <1>2 DEF PushFront

(* pop_front of a queue that is not empty yields an item and leaves a      *)
(* family of queues.                                                       *)
LEMMA PopFrontType ==
  ASSUME queue \in [Queues -> Seq(Items)], NEW q \in Queues, queue[q] # <<>>
  PROVE  /\ Head(queue[q]) \in Items
         /\ PopFront(q) \in [Queues -> Seq(Items)]
<1>1. Head(queue[q]) \in Items /\ Tail(queue[q]) \in Seq(Items)
  BY HeadTailProperties
<1>. QED
  BY <1>1 DEF PopFront

(* A report appends a result to the history of an item. *)
LEMMA ReportType ==
  ASSUME answers \in [Items -> Seq({"ok", "failed"})], NEW i \in Items,
         NEW result \in {"ok", "failed"}, Report(i, result)
  PROVE  answers' \in [Items -> Seq({"ok", "failed"})]
<1>1. Append(answers[i], result) \in Seq({"ok", "failed"})
  BY AppendProperties
<1>. QED
  BY <1>1 DEF Report

-----------------------------------------------------------------------------
(* Type correctness. *)

Signalled == {"signalled", "waiting", "aborting", "joining", "joined"}

(* Why the pipe never holds more than two bytes, and when there is an item *)
(* in hand.                                                                *)
PipeInv == pipe = 2 => dtor \in Signalled
HandInv == cur \in Items <=> InHand

TypeInv == TypeOK /\ PipeInv /\ HandInv

LEMMA InitTypeInv == Init => TypeInv
<1> SUFFICES ASSUME Init PROVE TypeInv
  OBVIOUS
<1>1. queue \in [Queues -> Seq(Items)] /\ answers \in [Items -> Seq({"ok", "failed"})]
  BY DEF Init
<1>2. pc \in Labels /\ ~InHand /\ cur \notin Items
  BY ItemsAssumption, ModeAssumption DEF Init, Labels, InHand
<1>3. DataTypeOK
  BY <1>1, BoundsAssumption DEF Init, DataTypeOK
<1>4. FlagsTypeOK
  BY ModeAssumption DEF Init, FlagsTypeOK
<1>5. ThreadsTypeOK
  BY <1>2 DEF Init, ThreadsTypeOK
<1>. QED
  BY <1>2, <1>3, <1>4, <1>5 DEF Init, TypeInv, TypeOK, PipeInv, HandInv

(* The flags are only ever assigned truth values. *)
LEMMA FlagsType ==
  ASSUME TypeOK, [Next]_vars
  PROVE  FlagsTypeOK'
<1> USE DEF TypeOK, FlagsTypeOK, local, history
<1>1. CASE Call
  BY <1>1 DEF Call, AskConnecting, AskOnceConnected, Push
<1>2. CASE Login \/ EndLogin \/ Top \/ LookAtQueues \/ Select \/ Woken
  <2>1. CASE Login \/ EndLogin \/ Top \/ Select
    BY <2>1 DEF Login, EndLogin, Top, Select
  <2>2. CASE LookAtQueues
    BY <2>2 DEF LookAtQueues, AllEmpty
  <2>3. CASE Woken
    BY <2>3 DEF Woken, AuthRefreshNeeded
  <2>. QED
    BY <1>2, <2>1, <2>2, <2>3
<1>3. CASE Idle
  <2>1. CASE IdleFetch \/ IdleStart \/ IdleWait
    BY <2>1 DEF IdleFetch, IdleStart, IdleWait, IdleStep
  <2>2. CASE IdleDone \/ IdleOffline
    BY <2>2 DEF IdleDone, IdleOffline, IdleStep
  <2>. QED
    BY <1>3, <2>1, <2>2 DEF Idle
<1>4. CASE Serve
  <2>1. CASE Drain
    BY <2>1 DEF Drain
  <2>6. CASE Outer
    BY <2>6 DEF Outer
  <2>2. CASE NextSearch \/ NextAction \/ NextRequest \/ Gap \/ NextPrefetch
             \/ Requeue
    <3>1. CASE NextSearch \/ NextAction \/ NextRequest
      BY <3>1 DEF NextSearch, NextAction, NextRequest, Serving, ServingStep
    <3>2. CASE Gap \/ NextPrefetch \/ Requeue
      BY <3>2 DEF Gap, NextPrefetch, Requeue, Serving, ServingStep
    <3>. QED
      BY <2>2, <3>1, <3>2
  <2>3. CASE PerformSearch
    BY <2>3 DEF PerformSearch
  <2>4. CASE Perform
    <3>1. retry' \in BOOLEAN /\ isConnected' \in BOOLEAN
      <4>1. CASE Succeed
        BY <4>1 DEF Succeed
      <4>2. CASE FailDisconnected
        BY <4>2 DEF FailDisconnected
      <4>3. CASE FailConnected
        BY <4>3 DEF FailConnected
      <4>. QED
        BY <2>4, <4>1, <4>2, <4>3 DEF Perform
    <3>2. authRefresh' \in BOOLEAN
      BY <2>4 DEF Perform, AuthRefreshNeeded
    <3>3. UNCHANGED <<running, connecting, onceConnected, idleRv, wasEmpty>>
      BY <2>4 DEF Perform
    <3>. QED
      BY <3>1, <3>2, <3>3
  <2>5. CASE Served
    BY <2>5 DEF Served, Linking
  <2>. QED
    BY <1>4, <2>1, <2>2, <2>3, <2>4, <2>5, <2>6 DEF Serve
<1>5. CASE Link
  BY <1>5 DEF Link, After, Reconnect, ReloginOk, ReloginRetry, Linking
<1>6. CASE Exit \/ Destroy
  <2>1. CASE Exit
    BY <2>1 DEF Exit
  <2>2. CASE BeginDestroy \/ StopRunning
    BY <2>2 DEF BeginDestroy, StopRunning, Destroying
  <2>3. CASE TestPipe \/ WritePipe \/ Wait \/ Join
    BY <2>3 DEF TestPipe, WritePipe, Wait, Join, Destroying
  <2>. QED
    BY <1>6, <2>1, <2>2, <2>3 DEF Destroy
<1>7. CASE UNCHANGED vars
  BY <1>7 DEF vars
<1>. QED
  BY <1>1, <1>2, <1>3, <1>4, <1>5, <1>6, <1>7 DEF Next, Process, Terminated

(* What is left to show for each step. *)
StepTypeInv == DataTypeOK' /\ ThreadsTypeOK' /\ PipeInv' /\ HandInv'

LEMMA CallType ==
  ASSUME TypeInv, Call
  PROVE  StepTypeInv
<1> PICK i \in Items : AskConnecting(i) \/ AskOnceConnected(i) \/ Push(i)
  BY DEF Call
<1> USE DEF TypeInv, TypeOK, StepTypeInv, DataTypeOK, ThreadsTypeOK, PipeInv,
            HandInv, InHand, local, history
<1>1. CASE AskConnecting(i)
  BY <1>1 DEF AskConnecting
<1>2. CASE AskOnceConnected(i)
  BY <1>2 DEF AskOnceConnected
<1>3. CASE Push(i)
  BY <1>3, PushFrontType DEF Push, PipeWriteOne
<1>. QED
  BY <1>1, <1>2, <1>3

LEMMA LoopType ==
  ASSUME TypeInv,
         Login \/ EndLogin \/ Top \/ LookAtQueues \/ Select \/ Woken \/ Idle
  PROVE  StepTypeInv
<1> USE DEF TypeInv, TypeOK, StepTypeInv, DataTypeOK, ThreadsTypeOK, PipeInv,
            HandInv, InHand, Labels, local, history
<1>1. CASE Login
  BY <1>1 DEF Login
<1>2. CASE EndLogin
  BY <1>2 DEF EndLogin
<1>3. CASE Top
  BY <1>3 DEF Top
<1>4. CASE LookAtQueues
  BY <1>4 DEF LookAtQueues
<1>5. CASE Select
  BY <1>5 DEF Select
<1>6. CASE Woken
  BY <1>6, BoundsAssumption DEF Woken, AuthRefreshNeeded
<1>7. CASE Idle
  BY <1>7 DEF Idle, IdleFetch, IdleStart, IdleWait, IdleDone, IdleOffline,
              IdleStep
<1>. QED
  BY <1>1, <1>2, <1>3, <1>4, <1>5, <1>6, <1>7

LEMMA ServeType ==
  ASSUME TypeInv, Serve
  PROVE  StepTypeInv
<1> USE DEF TypeInv, TypeOK, StepTypeInv, DataTypeOK, ThreadsTypeOK, PipeInv,
            HandInv, InHand, Labels, local, history
<1>1. CASE Drain \/ Gap
  BY <1>1 DEF Drain, PipeReadAll, Gap, Skip, Serving, ServingStep
<1>9. CASE Outer
  BY <1>9 DEF Outer
<1>10. CASE Served
  BY <1>10 DEF Served, Linking
<1>2. CASE NextSearch
  BY <1>2, PopFrontType
     DEF NextSearch, Pop, Skip, Serving, ServingStep, Queues
<1>3. CASE NextAction
  BY <1>3, PopFrontType
     DEF NextAction, Pop, Skip, Serving, ServingStep, Queues
<1>4. CASE NextRequest
  BY <1>4, PopFrontType
     DEF NextRequest, Pop, Skip, Serving, ServingStep, Queues
<1>5. CASE NextPrefetch
  <2>1. FirstLevel \in Queues
    BY DEF FirstLevel, Queues
  <2>. QED
    BY <1>5, <2>1, PopFrontType
       DEF NextPrefetch, Pop, Skip, Serving, ServingStep
<1>6. CASE PerformSearch
  <2>1. cur \in Items
    BY <1>6 DEF PerformSearch
  <2>2. answers' \in [Items -> Seq({"ok", "failed"})]
    BY <1>6, <2>1, ReportType DEF PerformSearch
  <2>3. attempts' \in [Items -> Nat]
    BY <1>6, <2>1 DEF PerformSearch
  <2>4. DataTypeOK'
    BY <1>6, <2>2, <2>3 DEF PerformSearch
  <2>. QED
    BY <1>6, <2>4, ItemsAssumption DEF PerformSearch
<1>7. CASE Perform
  <2>1. cur \in Items
    BY <1>7 DEF Perform
  <2>2. /\ answers' \in [Items -> Seq({"ok", "failed"})]
        /\ tries' \in [Items -> 0 .. 2]
        /\ losses' \in 0 .. MaxLosses
    <3>1. CASE Succeed
      BY <2>1, <3>1, ReportType DEF Succeed
    <3>2. CASE FailDisconnected
      BY <2>1, <3>2, ReportType, BoundsAssumption DEF FailDisconnected
    <3>3. CASE FailConnected
      <4>1. CASE tries[cur] < 2
        <5>1. tries' = [tries EXCEPT ![cur] = tries[cur] + 1] /\ answers' = answers
          BY <3>3, <4>1 DEF FailConnected
        <5>2. losses' = losses
          BY <3>3 DEF FailConnected
        <5>3. tries[cur] \in 0 .. 1
          BY <2>1, <4>1
        <5>. QED
          BY <2>1, <5>1, <5>2, <5>3
      <4>2. CASE ~(tries[cur] < 2)
        BY <2>1, <3>3, <4>2, ReportType DEF FailConnected
      <4>. QED
        BY <4>1, <4>2
    <3>. QED
      BY <1>7, <3>1, <3>2, <3>3 DEF Perform
  <2>3. refreshes' \in 0 .. MaxRefreshes
    BY <1>7, BoundsAssumption DEF Perform, AuthRefreshNeeded
  <2>4. attempts' \in [Items -> Nat]
    BY <1>7, <2>1 DEF Perform
  <2>5. UNCHANGED <<queue, pipe, caller, dtor, cur, selrv, cleared>>
    BY <1>7 DEF Perform
  <2>6. pc' = "requeue"
    BY <1>7 DEF Perform
  <2>. QED
    BY <2>1, <2>2, <2>3, <2>4, <2>5, <2>6
<1>8. CASE Requeue
  BY <1>8, PushFrontType, ItemsAssumption
     DEF Requeue, LoopOf, ServingStep, Queues, Prefetch
<1>. QED
  BY <1>1, <1>2, <1>3, <1>4, <1>5, <1>6, <1>7, <1>8, <1>9, <1>10
     DEF Serve

LEMMA LinkType ==
  ASSUME TypeInv, Link
  PROVE  StepTypeInv
<1> USE DEF TypeInv, TypeOK, StepTypeInv, DataTypeOK, ThreadsTypeOK, PipeInv,
            HandInv, InHand, Labels, local, history
<1>1. CASE After
  BY <1>1, BoundsAssumption DEF After, Linking
<1>2. CASE Reconnect \/ ReloginOk \/ ReloginRetry
  BY <1>2 DEF Reconnect, ReloginOk, ReloginRetry, Return, Linking
<1>. QED
  BY <1>1, <1>2 DEF Link

LEMMA DestroyType ==
  ASSUME TypeInv, Exit \/ Destroy
  PROVE  StepTypeInv
<1> USE DEF TypeInv, TypeOK, StepTypeInv, DataTypeOK, ThreadsTypeOK, PipeInv,
            HandInv, InHand, Labels, Signalled, local, history
<1>1. CASE Exit
  BY <1>1 DEF Exit
<1>2. CASE BeginDestroy
  <2>0. [q \in Queues |-> <<>>] \in [Queues -> Seq(Items)]
    BY EmptySeq
  <2>1. queue' \in [Queues -> Seq(Items)]
    BY <1>2, <2>0 DEF BeginDestroy
  <2>2. cleared' \in SUBSET Items
    BY <1>2 DEF BeginDestroy
  <2>. QED
    BY <1>2, <2>1, <2>2 DEF BeginDestroy
<1>3. CASE StopRunning
  BY <1>3 DEF StopRunning, Destroying
<1>4. CASE TestPipe \/ WritePipe
  BY <1>4 DEF TestPipe, WritePipe, Destroying
<1>5. CASE Wait \/ Join
  BY <1>5 DEF Wait, Join, Destroying
<1>. QED
  BY <1>1, <1>2, <1>3, <1>4, <1>5 DEF Destroy

LEMMA NextTypeInv == TypeInv /\ [Next]_vars => TypeInv'
<1> SUFFICES ASSUME TypeInv, [Next]_vars
             PROVE  TypeInv'
  OBVIOUS
<1>1. FlagsTypeOK'
  BY FlagsType DEF TypeInv
<1>2. StepTypeInv
  <2>1. CASE UNCHANGED vars
    BY <2>1 DEF vars, local, history, TypeInv, TypeOK, StepTypeInv, DataTypeOK,
                ThreadsTypeOK, PipeInv, HandInv, InHand
  <2>. QED
    BY <2>1, CallType, LoopType, ServeType, LinkType, DestroyType
       DEF Next, Process, Terminated
<1>. QED
  BY <1>1, <1>2 DEF TypeInv, TypeOK, StepTypeInv

(* The model's variables never leave their types: in particular no try is  *)
(* counted past two, and an item in hand is an item.                       *)
THEOREM TypeCorrect == Spec => []TypeOK
<1>1. TypeInv => TypeOK
  BY DEF TypeInv
<1>. QED
  BY <1>1, InitTypeInv, NextTypeInv, PTL DEF Spec

-----------------------------------------------------------------------------
(* No wake-up is lost.                                                     *)
(*                                                                         *)
(* NoLostWakeup speaks of the labels at which the process thread blocks.   *)
(* It holds because of what is true on the way there: the thread looked at *)
(* m_Running and at the queues after it last emptied the pipe.             *)

(* Between the test of m_Running and PipeReadAll. *)
Committed == {"look", "select", "woken", "idle", "idleStart", "idleWait",
              "idleDone", "idleCheck", "offline", "offlineWait"}

(* The queues were seen empty and the pipe has not been read since. *)
Quiet ==
  \/ pc \in {"select", "idle", "idleStart", "idleWait", "idleDone", "idleCheck"}
  \/ pc = "woken" /\ selrv = 0

StopInv ==
  /\ running <=> dtor \in {"alive", "locked"}
  /\ pc \in {"exit", "exited"} => ~running

WakeInv ==
  /\ dtor \in Signalled /\ pc \in Committed => pipe > 0
  /\ onceConnected /\ Quiet => AllEmpty \/ pipe > 0
  /\ pc \in {"offline", "offlineWait"} => ~onceConnected
  /\ pc \notin {"woken", "idleDone"} => selrv = 1

LEMMA InitWakeInv == Init => StopInv /\ WakeInv /\ NotifyNotMissed
  BY ModeAssumption
     DEF Init, StopInv, WakeInv, NotifyNotMissed, Committed, Quiet, Signalled

LEMMA NextStopInv ==
  ASSUME TypeInv, StopInv, [Next]_vars
  PROVE  StopInv'
<1> USE DEF StopInv, local, history
<1>1. CASE Call
  BY <1>1 DEF Call, AskConnecting, AskOnceConnected, Push
<1>2. CASE Login \/ EndLogin \/ Top \/ LookAtQueues \/ Select \/ Woken
  BY <1>2 DEF Login, EndLogin, Top, LookAtQueues, Select, Woken
<1>3. CASE Idle
  BY <1>3 DEF Idle, IdleFetch, IdleStart, IdleWait, IdleDone, IdleOffline,
              IdleStep
<1>4. CASE Serve
  <2>1. UNCHANGED <<running, dtor>>
    BY <1>4 DEF Serve, Drain, Outer, NextSearch, NextAction, NextRequest, Gap,
                NextPrefetch, PerformSearch, Perform, Requeue, Served,
                Serving, ServingStep, Linking
  <2>2. pc' \notin {"exit", "exited"}
    BY <1>4, ItemsAssumption
       DEF Serve, Drain, Outer, NextSearch, NextAction, NextRequest, Gap,
           NextPrefetch, PerformSearch, Perform, Requeue, Served, Pop, Skip,
           LoopOf, Prefetch, Queues, TypeInv, HandInv, InHand
  <2>. QED
    BY <2>1, <2>2
<1>5. CASE Link
  BY <1>5 DEF Link, After, Reconnect, ReloginOk, ReloginRetry, Return, Linking
<1>6. CASE Exit \/ Destroy
  BY <1>6 DEF Exit, Destroy, BeginDestroy, StopRunning, TestPipe, WritePipe,
              Wait, Join, Destroying, ExitMutexHeld
<1>7. CASE UNCHANGED vars
  BY <1>7 DEF vars
<1>. QED
  BY <1>1, <1>2, <1>3, <1>4, <1>5, <1>6, <1>7 DEF Next, Process, Terminated

LEMMA NextWakeInv ==
  ASSUME TypeInv, StopInv, WakeInv, [Next]_vars
  PROVE  WakeInv'
<1> USE DEF WakeInv, Committed, Quiet, Signalled, local, history
<1>0. pipe \in 0 .. 2
  BY DEF TypeInv, TypeOK, DataTypeOK
<1>1. CASE Call
  BY <1>0, <1>1 DEF Call, AskConnecting, AskOnceConnected, Push, PipeWriteOne,
                    AllEmpty
<1>2. CASE Login \/ EndLogin \/ Top
  BY <1>2 DEF Login, EndLogin, Top, AllEmpty, StopInv
<1>3. CASE LookAtQueues \/ Select \/ Woken
  <2>1. AllEmpty' <=> AllEmpty
    BY <1>3 DEF LookAtQueues, Select, Woken, AllEmpty
  <2>2. CASE LookAtQueues
    BY <2>1, <2>2 DEF LookAtQueues
  <2>3. CASE Select
    BY <1>0, <2>1, <2>3 DEF Select
  <2>4. CASE Woken
    BY <2>1, <2>4, StopInv DEF Woken, StopInv
  <2>. QED
    BY <1>3, <2>2, <2>3, <2>4
<1>4. CASE Idle
  BY <1>0, <1>4 DEF Idle, IdleFetch, IdleStart, IdleWait, IdleDone,
                    IdleOffline, IdleStep, AllEmpty
<1>5. CASE Serve
  <2>1. pc' \notin Committed
    BY <1>5, ItemsAssumption
       DEF Serve, Drain, Outer, NextSearch, NextAction, NextRequest, Gap,
           NextPrefetch, PerformSearch, Perform, Requeue, Served, Pop, Skip,
           LoopOf, Prefetch, Queues, TypeInv, HandInv, InHand
  <2>2. pc \notin Committed /\ selrv' = selrv
    BY <1>5
       DEF Serve, Drain, Outer, NextSearch, NextAction, NextRequest, Gap,
           NextPrefetch, PerformSearch, Perform, Requeue, Served, Serving,
           ServingStep, Linking
  <2>. QED
    BY <2>1, <2>2
<1>6. CASE Link
  BY <1>6 DEF Link, After, Reconnect, ReloginOk, ReloginRetry, Return, Linking
<1>7. CASE Exit \/ Destroy
  <2>1. CASE Exit
    BY <2>1 DEF Exit
  <2>2. CASE BeginDestroy
    BY <2>2 DEF BeginDestroy, AllEmpty
  <2>3. CASE StopRunning \/ TestPipe \/ WritePipe \/ Wait \/ Join
    BY <1>0, <2>3 DEF StopRunning, TestPipe, WritePipe, Wait, Join,
                      Destroying, AllEmpty
  <2>. QED
    BY <1>7, <2>1, <2>2, <2>3 DEF Destroy
<1>8. CASE UNCHANGED vars
  BY <1>8 DEF vars, AllEmpty
<1>. QED
  BY <1>1, <1>2, <1>3, <1>4, <1>5, <1>6, <1>7, <1>8
     DEF Next, Process, Terminated

(* The process thread never sleeps on an empty pipe while there is work    *)
(* for a connected session or an order to stop.                            *)
THEOREM WakeupNeverLost == Spec => []NoLostWakeup
<1>1. TypeInv /\ WakeInv => NoLostWakeup
  BY DEF TypeInv, TypeOK, DataTypeOK, WakeInv, NoLostWakeup, Committed, Quiet,
         Signalled
<1>2. TypeInv /\ StopInv /\ WakeInv /\ [Next]_vars
        => TypeInv' /\ StopInv' /\ WakeInv'
  BY NextTypeInv, NextStopInv, NextWakeInv
<1>. QED
  BY <1>1, <1>2, InitTypeInv, InitWakeInv, PTL DEF Spec

-----------------------------------------------------------------------------
(* The exit notification is not missed. *)

LEMMA NextNotifyNotMissed ==
  ASSUME TypeInv, StopInv, NotifyNotMissed, [Next]_vars
  PROVE  NotifyNotMissed'
<1> USE DEF NotifyNotMissed, local, history
<1>1. CASE Exit
  <2>1. dtor \in {"waiting", "aborting", "joining", "joined"}
    BY <1>1 DEF Exit, ExitMutexHeld, StopInv, TypeInv, TypeOK, ThreadsTypeOK
  <2>. QED
    BY <1>1, <2>1 DEF Exit
<1>2. CASE Destroy
  BY <1>2 DEF Destroy, BeginDestroy, StopRunning, TestPipe, WritePipe, Wait,
              Join, Destroying
<1>3. CASE Process /\ ~Exit
  <2>1. dtor' = dtor
    BY <1>3 DEF Process, Login, EndLogin, Top, LookAtQueues, Select, Woken,
                Idle, IdleFetch, IdleStart, IdleWait, IdleDone, IdleOffline,
                IdleStep, Serve, Drain, Outer, NextSearch, NextAction,
                NextRequest, Gap, NextPrefetch, PerformSearch, Perform,
                Requeue, Served, Serving, ServingStep, Linking, Link, After,
                Reconnect, ReloginOk, ReloginRetry
  <2>2. pc' # "exited"
    <3>1. CASE Serve
      BY <3>1, ItemsAssumption
         DEF Serve, Drain, Outer, NextSearch, NextAction, NextRequest, Gap,
             NextPrefetch, PerformSearch, Perform, Requeue, Served, Pop, Skip,
             LoopOf, Prefetch, Queues, TypeInv, HandInv, InHand
    <3>2. CASE Link
      BY <3>2 DEF Link, After, Reconnect, ReloginOk, ReloginRetry, Return
    <3>3. CASE ~Serve /\ ~Link
      BY <1>3, <3>3 DEF Process, Login, EndLogin, Top, LookAtQueues, Select,
                        Woken, Idle, IdleFetch, IdleStart, IdleWait, IdleDone,
                        IdleOffline
    <3>. QED
      BY <3>1, <3>2, <3>3
  <2>. QED
    BY <2>1, <2>2
<1>4. CASE Call
  BY <1>4 DEF Call, AskConnecting, AskOnceConnected, Push
<1>5. CASE UNCHANGED vars
  BY <1>5 DEF vars
<1>. QED
  BY <1>1, <1>2, <1>3, <1>4, <1>5 DEF Next, Terminated

(* The process thread reports its exit only to a destructor that already   *)
(* waits for it or has stopped waiting.                                    *)
THEOREM ExitNotified == Spec => []NotifyNotMissed
<1>1. TypeInv /\ StopInv /\ NotifyNotMissed /\ [Next]_vars
        => TypeInv' /\ StopInv' /\ NotifyNotMissed'
  BY NextTypeInv, NextStopInv, NextNotifyNotMissed
<1>. QED
  BY <1>1, InitTypeInv, InitWakeInv, PTL DEF Spec

-----------------------------------------------------------------------------
(* Nothing is refused in a session that got connected. *)

(* Where a session that never got connected can be. *)
Unconnected == {"login", "loggedIn", "top", "look", "select", "woken",
                "offline", "offlineWait", "drain", "outer", "after", "exit",
                "exited"}

(* While the first login is under way nobody has seen m_Connecting FALSE;  *)
(* afterwards m_OnceConnected does not change any more, and without it the *)
(* process thread never gets to serve, to idle or to reconnect.            *)
SessionInv ==
  /\ pc \in {"login", "loggedIn"} =>
       /\ connecting /\ idleRv
       /\ \A i \in Items : caller[i] \notin {"asking", "refused"}
  /\ ~onceConnected => pc \in Unconnected /\ idleRv
  /\ \A i \in Items : caller[i] = "refused" => ~onceConnected

LEMMA InitSessionInv == Init => SessionInv
  BY ModeAssumption DEF Init, SessionInv, Unconnected

LEMMA NextSessionInv ==
  ASSUME TypeInv, WakeInv, SessionInv, [Next]_vars
  PROVE  SessionInv'
<1> USE DEF SessionInv, Unconnected, local, history
<1>1. CASE Call
  <2>1. UNCHANGED <<pc, connecting, onceConnected, idleRv>>
    BY <1>1 DEF Call, AskConnecting, AskOnceConnected, Push
  <2>2. PICK i \in Items : AskConnecting(i) \/ AskOnceConnected(i) \/ Push(i)
    BY <1>1 DEF Call
  <2>3. \A j \in Items : j # i => caller'[j] = caller[j]
    BY <2>2 DEF AskConnecting, AskOnceConnected, Push, TypeInv, TypeOK,
                ThreadsTypeOK
  <2>4. /\ caller'[i] = "asking" => ~connecting
        /\ caller'[i] = "refused" => ~onceConnected /\ caller[i] = "asking"
    BY <2>2 DEF AskConnecting, AskOnceConnected, Push, TypeInv, TypeOK,
                ThreadsTypeOK
  <2>. QED
    BY <2>1, <2>3, <2>4
<1>2. CASE Login
  BY <1>2 DEF Login
<1>3. CASE EndLogin \/ Top \/ LookAtQueues \/ Select
  BY <1>3 DEF EndLogin, Top, LookAtQueues, Select
<1>4. CASE Woken
  BY <1>4 DEF Woken
<1>5. CASE Idle
  BY <1>5 DEF Idle, IdleFetch, IdleStart, IdleWait, IdleDone, IdleOffline,
              IdleStep
<1>6. CASE Serve
  <2>1. UNCHANGED <<onceConnected, caller, idleRv>>
    BY <1>6 DEF Serve, Drain, Outer, NextSearch, NextAction, NextRequest, Gap,
                NextPrefetch, PerformSearch, Perform, Requeue, Served,
                Serving, ServingStep, Linking
  <2>2. pc' \notin {"login", "loggedIn"}
    BY <1>6, ItemsAssumption
       DEF Serve, Drain, Outer, NextSearch, NextAction, NextRequest, Gap,
           NextPrefetch, PerformSearch, Perform, Requeue, Served, Pop, Skip,
           LoopOf, Prefetch, Queues, TypeInv, HandInv, InHand
  <2>3. ~onceConnected => pc' \in Unconnected
    BY <1>6 DEF Serve, Drain, Outer, NextSearch, NextAction, NextRequest, Gap,
                NextPrefetch, PerformSearch, Perform, Requeue, Served
  <2>. QED
    BY <2>1, <2>2, <2>3
<1>7. CASE Link
  BY <1>7 DEF Link, After, Reconnect, ReloginOk, ReloginRetry, Return, Linking
<1>8. CASE Exit \/ Destroy
  BY <1>8 DEF Exit, Destroy, BeginDestroy, StopRunning, TestPipe, WritePipe,
              Wait, Join, Destroying
<1>9. CASE UNCHANGED vars
  BY <1>9 DEF vars
<1>. QED
  BY <1>1, <1>2, <1>3, <1>4, <1>5, <1>6, <1>7, <1>8, <1>9
     DEF Next, Process, Terminated

(* What a caller submits is ignored only in a session that never got       *)
(* connected, although the two flags are not read together.                *)
THEOREM RefusalMeansOffline == Spec => []RefusedOnlyOffline
<1>1. TypeInv /\ SessionInv => RefusedOnlyOffline
  BY DEF SessionInv, RefusedOnlyOffline, Unconnected
<1>2. TypeInv /\ StopInv /\ WakeInv /\ SessionInv /\ [Next]_vars
        => TypeInv' /\ StopInv' /\ WakeInv' /\ SessionInv'
  BY NextTypeInv, NextStopInv, NextWakeInv, NextSessionInv
<1>. QED
  BY <1>1, <1>2, InitTypeInv, InitWakeInv, InitSessionInv, PTL DEF Spec


-----------------------------------------------------------------------------
(* Sequences as queues: an element added or removed at the front. *)

In(s, e) == \E k \in 1 .. Len(s) : s[k] = e
Distinct(s) == \A k, l \in 1 .. Len(s) : s[k] = s[l] => k = l

LEMMA FrontAdded ==
  ASSUME NEW S, NEW s \in Seq(S), NEW e \in S
  PROVE  /\ \A f : In(<<e>> \o s, f) <=> f = e \/ In(s, f)
         /\ Distinct(s) /\ ~In(s, e) => Distinct(<<e>> \o s)
<1> DEFINE t == <<e>> \o s
<1>1. /\ t \in Seq(S) /\ Len(t) = Len(s) + 1 /\ Len(s) \in Nat
      /\ t[1] = e
      /\ \A k \in 1 .. Len(s) : t[k + 1] = s[k]
  BY ConcatProperties, LenProperties
<1> HIDE DEF t
<1>2. \A k \in 1 .. Len(t) : k = 1 \/ (k - 1 \in 1 .. Len(s) /\ t[k] = s[k - 1])
  <2> SUFFICES ASSUME NEW k \in 1 .. Len(t), k # 1
               PROVE  k - 1 \in 1 .. Len(s) /\ t[k] = s[k - 1]
    OBVIOUS
  <2>1. k - 1 \in 1 .. Len(s) /\ (k - 1) + 1 = k
    BY <1>1
  <2>2. t[(k - 1) + 1] = s[k - 1]
    BY <1>1, <2>1
  <2>. QED
    BY <2>1, <2>2
<1>3. ASSUME NEW f PROVE In(t, f) <=> f = e \/ In(s, f)
  <2>1. In(t, f) => f = e \/ In(s, f)
    BY <1>1, <1>2 DEF In
  <2>2. f = e => In(t, f)
    BY <1>1 DEF In
  <2>3. ASSUME In(s, f) PROVE In(t, f)
    <3>1. PICK k \in 1 .. Len(s) : s[k] = f
      BY <2>3 DEF In
    <3>2. k + 1 \in 1 .. Len(t) /\ t[k + 1] = f
      BY <1>1, <3>1
    <3>. QED
      BY <3>2 DEF In
  <2>. QED
    BY <2>1, <2>2, <2>3
<1>4. ASSUME Distinct(s), ~In(s, e) PROVE Distinct(t)
  <2> SUFFICES ASSUME NEW k \in 1 .. Len(t), NEW l \in 1 .. Len(t), t[k] = t[l]
               PROVE  k = l
    BY DEF Distinct
  <2>1. CASE k = 1 \/ l = 1
    BY <1>1, <1>2, <1>4, <2>1 DEF In
  <2>2. CASE k # 1 /\ l # 1
    <3>1. s[k - 1] = s[l - 1] /\ k - 1 \in 1 .. Len(s) /\ l - 1 \in 1 .. Len(s)
      BY <1>2, <2>2
    <3>2. k - 1 = l - 1
      BY <1>4, <3>1 DEF Distinct
    <3>. QED
      BY <1>1, <3>2
  <2>. QED
    BY <2>1, <2>2
<1>. QED
  BY <1>3, <1>4 DEF t

LEMMA FrontRemoved ==
  ASSUME NEW S, NEW s \in Seq(S), s # <<>>
  PROVE  /\ In(s, Head(s))
         /\ \A f : In(s, f) <=> f = Head(s) \/ In(Tail(s), f)
         /\ Distinct(s) => Distinct(Tail(s)) /\ ~In(Tail(s), Head(s))
<1> DEFINE t == Tail(s)
<1>1. /\ Len(s) \in Nat \ {0}
      /\ Len(t) = Len(s) - 1
      /\ Head(s) = s[1]
      /\ \A k \in 1 .. Len(t) : t[k] = s[k + 1]
  BY HeadTailProperties, LenProperties, EmptySeq
<1> HIDE DEF t
<1>2. In(s, Head(s))
  BY <1>1 DEF In
<1>3. ASSUME NEW f PROVE In(s, f) <=> f = Head(s) \/ In(t, f)
  <2>1. ASSUME In(s, f), f # Head(s) PROVE In(t, f)
    <3>1. PICK k \in 1 .. Len(s) : s[k] = f
      BY <2>1 DEF In
    <3>2. k - 1 \in 1 .. Len(t) /\ (k - 1) + 1 = k
      BY <1>1, <2>1, <3>1
    <3>3. t[k - 1] = f
      BY <1>1, <3>1, <3>2
    <3>. QED
      BY <3>2, <3>3 DEF In
  <2>2. In(t, f) => In(s, f)
    BY <1>1 DEF In
  <2>. QED
    BY <1>2, <2>1, <2>2
<1>4. ASSUME Distinct(s) PROVE Distinct(t) /\ ~In(t, Head(s))
  <2>1. Distinct(t)
    BY <1>1, <1>4 DEF Distinct
  <2>2. ~In(t, Head(s))
    BY <1>1, <1>4 DEF Distinct, In
  <2>. QED
    BY <2>1, <2>2
<1>. QED
  BY <1>2, <1>3, <1>4 DEF t

-----------------------------------------------------------------------------
(* An item is in one place. *)

(* Each item is in the queue of its type and nowhere twice. *)
QueuesInv ==
  \A q \in Queues :
    /\ Distinct(queue[q])
    /\ \A i : In(queue[q], i) => i \in Items /\ QueueOf[i] = q

(* Where an item is, given whether it is queued or held. *)
PlaceOf(i, queued, held) ==
  /\ caller[i] = "pushed" <=> queued \/ held \/ Answered(i) \/ i \in cleared
  /\ queued => ~held /\ ~Answered(i) /\ i \notin cleared
  /\ held => ~Answered(i) /\ i \notin cleared
  /\ Answered(i) => Len(answers[i]) = 1 /\ i \notin cleared

PlacesInv == \A i \in Items : PlaceOf(i, Queued(i), Held(i))

PlaceInv == QueuesInv /\ PlacesInv

LEMMA PlaceInvOnePlace == PlaceInv => OnePlace
  BY DEF PlaceInv, QueuesInv, PlacesInv, PlaceOf, OnePlace, Distinct, In

LEMMA QueuedIn == \A i : Queued(i) <=> In(queue[QueueOf[i]], i)
  BY DEF Queued, In

(* push_front of an item that is not queued yet. *)
LEMMA PushFrontPlace ==
  ASSUME TypeInv, QueuesInv, NEW e \in Items, ~Queued(e), queue' = PushFront(e)
  PROVE  /\ QueuesInv'
         /\ \A i \in Items : Queued(i)' <=> i = e \/ Queued(i)
<1> DEFINE p == QueueOf[e]
<1>1. queue \in [Queues -> Seq(Items)] /\ p \in Queues
  BY ItemsAssumption DEF TypeInv, TypeOK, DataTypeOK
<1>2. /\ queue'[p] = <<e>> \o queue[p]
      /\ \A q \in Queues : q # p => queue'[q] = queue[q]
  BY <1>1 DEF PushFront
<1>3. /\ \A f : In(queue'[p], f) <=> f = e \/ In(queue[p], f)
      /\ Distinct(queue'[p])
  BY <1>1, <1>2, FrontAdded, QueuedIn DEF QueuesInv
<1>4. QueuesInv'
  BY <1>1, <1>2, <1>3 DEF QueuesInv
<1>5. ASSUME NEW i \in Items PROVE Queued(i)' <=> i = e \/ Queued(i)
  <2>1. QueueOf[i] \in Queues
    BY ItemsAssumption
  <2>2. (Queued(i)' <=> In(queue'[QueueOf[i]], i)) /\ (Queued(i) <=> In(queue[QueueOf[i]], i))
    BY DEF Queued, In
  <2>. QED
    BY <1>1, <1>2, <1>3, <2>1, <2>2
<1>. QED
  BY <1>4, <1>5

(* pop_front takes an item of that type out of the queues. *)
LEMMA PopFrontPlace ==
  ASSUME TypeInv, QueuesInv, NEW q \in Queues, queue[q] # <<>>,
         cur' = Head(queue[q]), queue' = PopFront(q)
  PROVE  /\ QueuesInv'
         /\ cur' \in Items /\ QueueOf[cur'] = q /\ Queued(cur')
         /\ \A i \in Items : Queued(i)' <=> i # cur' /\ Queued(i)
<1>1. queue \in [Queues -> Seq(Items)]
  BY DEF TypeInv, TypeOK, DataTypeOK
<1>2. /\ queue'[q] = Tail(queue[q])
      /\ \A p \in Queues : p # q => queue'[p] = queue[p]
  BY <1>1 DEF PopFront
<1>3. /\ In(queue[q], cur')
      /\ \A f : In(queue[q], f) <=> f = cur' \/ In(queue'[q], f)
      /\ Distinct(queue'[q]) /\ ~In(queue'[q], cur')
  BY <1>1, <1>2, FrontRemoved DEF QueuesInv
<1>4. cur' \in Items /\ QueueOf[cur'] = q /\ Queued(cur')
  BY <1>3, QueuedIn DEF QueuesInv
<1>5. QueuesInv'
  BY <1>2, <1>3 DEF QueuesInv
<1>6. ASSUME NEW i \in Items PROVE Queued(i)' <=> i # cur' /\ Queued(i)
  <2>1. QueueOf[i] \in Queues
    BY ItemsAssumption
  <2>2. (Queued(i)' <=> In(queue'[QueueOf[i]], i)) /\ (Queued(i) <=> In(queue[QueueOf[i]], i))
    BY DEF Queued, In
  <2>. QED
    BY <1>2, <1>3, <1>4, <2>1, <2>2
<1>. QED
  BY <1>4, <1>5, <1>6

LEMMA InitPlaceInv == Init => PlaceInv
<1> SUFFICES ASSUME Init PROVE PlaceInv
  OBVIOUS
<1>1. \A q \in Queues : queue[q] = <<>> /\ Len(queue[q]) = 0
  BY EmptySeq DEF Init
<1>2. QueuesInv
  BY <1>1 DEF QueuesInv, Distinct, In
<1>3. ASSUME NEW i \in Items PROVE PlaceOf(i, Queued(i), Held(i))
  <2>1. ~Queued(i)
    BY <1>1, ItemsAssumption DEF Queued
  <2>. QED
    BY <2>1, ItemsAssumption DEF Init, PlaceOf, Held, Answered
<1>. QED
  BY <1>2, <1>3 DEF PlaceInv, PlacesInv

(* A step that moves no item. *)
LEMMA StillPlace ==
  ASSUME TypeInv, PlaceInv, UNCHANGED <<queue, answers, cleared, cur>>,
         UNCHANGED <<pc, retry>> \/ ~InHand,
         \A i \in Items : caller'[i] = "pushed" <=> caller[i] = "pushed"
  PROVE  PlaceInv'
<1>1. QueuesInv'
  BY DEF PlaceInv, QueuesInv
<1>2. ASSUME NEW i \in Items PROVE PlaceOf(i, Queued(i), Held(i))'
  <2>1. Queued(i)' <=> Queued(i)
    BY DEF Queued
  <2>2. Held(i)' <=> Held(i)
    BY DEF Held, TypeInv, HandInv
  <2>3. Answered(i)' <=> Answered(i)
    BY DEF Answered
  <2>. QED
    BY <2>1, <2>2, <2>3 DEF PlaceInv, PlacesInv, PlaceOf
<1>. QED
  BY <1>1, <1>2 DEF PlaceInv, PlacesInv

LEMMA CallPlace ==
  ASSUME TypeInv, PlaceInv, Call
  PROVE  PlaceInv'
<1> PICK e \in Items : AskConnecting(e) \/ AskOnceConnected(e) \/ Push(e)
  BY DEF Call
<1>0. caller \in [Items -> {"new", "asking", "permitted", "pushed", "refused"}]
  BY DEF TypeInv, TypeOK, ThreadsTypeOK
<1>1. CASE AskConnecting(e) \/ AskOnceConnected(e)
  <2>1. UNCHANGED <<queue, answers, cleared, cur, pc, retry>>
    BY <1>1 DEF AskConnecting, AskOnceConnected, local, history
  <2>2. \A i \in Items : caller'[i] = "pushed" <=> caller[i] = "pushed"
    BY <1>0, <1>1 DEF AskConnecting, AskOnceConnected
  <2>. QED
    BY <2>1, <2>2, StillPlace
<1>2. CASE Push(e)
  <2>1. UNCHANGED <<answers, cleared, cur, pc, retry>>
    BY <1>2 DEF Push, local, history
  <2>2. /\ caller[e] # "pushed" /\ caller'[e] = "pushed"
        /\ \A i \in Items : i # e => caller'[i] = caller[i]
    BY <1>0, <1>2 DEF Push
  <2>3. ~Queued(e) /\ ~Held(e) /\ ~Answered(e) /\ e \notin cleared
    BY <2>2 DEF PlaceInv, PlacesInv, PlaceOf
  <2>4. QueuesInv' /\ \A i \in Items : Queued(i)' <=> i = e \/ Queued(i)
    BY <1>2, <2>3, PushFrontPlace DEF Push, PlaceInv
  <2>5. ASSUME NEW i \in Items PROVE PlaceOf(i, Queued(i), Held(i))'
    <3>1. (Held(i)' <=> Held(i)) /\ (Answered(i)' <=> Answered(i))
      BY <2>1 DEF Held, Answered
    <3>. QED
      BY <2>1, <2>2, <2>3, <2>4, <3>1 DEF PlaceInv, PlacesInv, PlaceOf
  <2>. QED
    BY <2>4, <2>5 DEF PlaceInv, PlacesInv
<1>. QED
  BY <1>1, <1>2

(* Taking an item out of its queue to perform it. *)
LEMMA PopPlace ==
  ASSUME TypeInv, PlaceInv, NEW q \in Queues, queue[q] # <<>>, ~InHand,
         NEW next \in {"searching", "perform"}, Pop(q, next),
         UNCHANGED <<answers, cleared, caller>>
  PROVE  PlaceInv'
<1>1. /\ QueuesInv'
      /\ cur' \in Items /\ Queued(cur')
      /\ \A i \in Items : Queued(i)' <=> i # cur' /\ Queued(i)
  BY PopFrontPlace DEF Pop, PlaceInv
<1>2. ASSUME NEW i \in Items PROVE PlaceOf(i, Queued(i), Held(i))'
  <2>1. Held(i)' <=> i = cur'
    BY DEF Held, Pop
  <2>2. ~Held(i)
    BY DEF Held, TypeInv, HandInv
  <2>3. Answered(i)' <=> Answered(i)
    BY DEF Answered
  <2>. QED
    BY <1>1, <2>1, <2>2, <2>3 DEF PlaceInv, PlacesInv, PlaceOf
<1>. QED
  BY <1>1, <1>2 DEF PlaceInv, PlacesInv

(* A result is reported for the item in hand and for no other. *)
LEMMA ReportPlace ==
  ASSUME TypeInv, NEW result \in {"ok", "failed"}, cur \in Items, Held(cur),
         PlaceInv, Report(cur, result)
  PROVE  /\ answers'[cur] = <<result>>
         /\ \A i \in Items : i # cur => answers'[i] = answers[i]
<1>1. answers \in [Items -> Seq({"ok", "failed"})]
  BY DEF TypeInv, TypeOK, DataTypeOK
<1>2. answers[cur] = <<>>
  BY DEF PlaceInv, PlacesInv, PlaceOf, Answered
<1>3. answers'[cur] = Append(<<>>, result)
  BY <1>1, <1>2 DEF Report
<1>. QED
  BY <1>1, <1>3 DEF Report

(* A step by which the item in hand, and only it, may get a result. *)
LEMMA OutcomePlace ==
  ASSUME TypeInv, PlaceInv, cur \in Items, Held(cur),
         UNCHANGED <<queue, cleared, caller>>,
         \/ /\ UNCHANGED <<answers, cur>>
            /\ Held(cur)'
         \/ /\ \E result \in {"ok", "failed"} : Report(cur, result)
            /\ \A i \in Items : ~Held(i)'
  PROVE  PlaceInv'
<1>1. QueuesInv'
  BY DEF PlaceInv, QueuesInv
<1>2. \A i \in Items : Queued(i)' <=> Queued(i)
  BY DEF Queued
<1>3. \A i \in Items : Held(i) <=> i = cur
  BY DEF Held
<1>4. CASE UNCHANGED <<answers, cur>> /\ Held(cur)'
  <2>1. \A i \in Items : (Held(i)' <=> Held(i)) /\ (Answered(i)' <=> Answered(i))
    BY <1>3, <1>4 DEF Held, Answered
  <2>. QED
    BY <1>1, <1>2, <1>4, <2>1 DEF PlaceInv, PlacesInv, PlaceOf
<1>5. CASE /\ \E result \in {"ok", "failed"} : Report(cur, result)
           /\ \A i \in Items : ~Held(i)'
  <2>1. PICK result \in {"ok", "failed"} : Report(cur, result)
    BY <1>5
  <2>2. /\ answers'[cur] = <<result>>
        /\ \A i \in Items : i # cur => answers'[i] = answers[i]
    BY <2>1, ReportPlace
  <2>3. Len(<<result>>) = 1 /\ <<result>> # <<>>
    OBVIOUS
  <2>4. ASSUME NEW i \in Items PROVE PlaceOf(i, Queued(i), Held(i))'
    BY <1>2, <1>3, <1>5, <2>2, <2>3, <2>4
       DEF PlaceInv, PlacesInv, PlaceOf, Answered
  <2>. QED
    BY <1>1, <2>4 DEF PlaceInv, PlacesInv
<1>. QED
  BY <1>4, <1>5

LEMMA ServePlace ==
  ASSUME TypeInv, PlaceInv, Serve
  PROVE  PlaceInv'
<1>1. CASE Drain \/ Outer \/ Gap \/ Served
  <2>1. UNCHANGED <<queue, answers, cleared, cur, caller>> /\ ~InHand
    BY <1>1 DEF Drain, Outer, Gap, Served, Skip, Serving, ServingStep, Linking,
                InHand, local, history
  <2>. QED
    BY <2>1, StillPlace
<1>2. CASE NextSearch \/ NextAction \/ NextRequest \/ NextPrefetch
  <2>1. UNCHANGED <<answers, cleared, caller>> /\ ~InHand
    BY <1>2 DEF NextSearch, NextAction, NextRequest, NextPrefetch, Serving,
                ServingStep, InHand, history
  <2>2. \/ \E q \in Queues, next \in {"searching", "perform"} :
             queue[q] # <<>> /\ Pop(q, next)
        \/ UNCHANGED <<cur, queue>>
    <3>1. FirstLevel \in Queues
      BY DEF FirstLevel, Queues
    <3>. QED
      BY <1>2, <3>1 DEF NextSearch, NextAction, NextRequest, NextPrefetch,
                        Skip, Queues
  <2>. QED
    BY <2>1, <2>2, PopPlace, StillPlace
<1>3. CASE PerformSearch
  <2>1. cur \in Items /\ Held(cur)
    BY <1>3 DEF PerformSearch, Held, TypeInv, HandInv, InHand
  <2>2. \A i \in Items : ~Held(i)'
    BY <1>3, ItemsAssumption DEF PerformSearch, Held
  <2>. QED
    BY <1>3, <2>1, <2>2, OutcomePlace DEF PerformSearch
<1>4. CASE Perform
  <2>1. cur \in Items /\ Held(cur)
    BY <1>4 DEF Perform, Held, TypeInv, HandInv, InHand
  <2>2. UNCHANGED <<queue, cleared, caller, cur>> /\ pc' = "requeue"
    BY <1>4 DEF Perform
  <2>3. \/ UNCHANGED answers /\ retry'
        \/ (\E result \in {"ok", "failed"} : Report(cur, result)) /\ ~retry'
    BY <1>4 DEF Perform, Succeed, FailDisconnected, FailConnected
  <2>4. Held(cur)' <=> retry'
    BY <2>2 DEF Held
  <2>5. ~retry' => \A i \in Items : ~Held(i)'
    BY <2>2 DEF Held
  <2>. QED
    BY <2>1, <2>2, <2>3, <2>4, <2>5, OutcomePlace
<1>5. CASE Requeue
  <2>1. cur \in Items /\ \A i \in Items : Held(i) <=> i = cur /\ retry
    BY <1>5 DEF Requeue, Held, TypeInv, HandInv, InHand
  <2>2. UNCHANGED <<answers, cleared, caller>> /\ \A i \in Items : ~Held(i)'
    BY <1>5, ItemsAssumption DEF Requeue, ServingStep, Held, history
  <2>3. \A i \in Items : Answered(i)' <=> Answered(i)
    BY <2>2 DEF Answered
  <2>4. CASE retry
    <3>1. ~Queued(cur)
      BY <2>1, <2>4 DEF PlaceInv, PlacesInv, PlaceOf
    <3>2. queue' = PushFront(cur)
      BY <1>5, <2>4 DEF Requeue
    <3>3. QueuesInv' /\ \A i \in Items : Queued(i)' <=> i = cur \/ Queued(i)
      BY <2>1, <3>1, <3>2, PushFrontPlace DEF PlaceInv
    <3>. QED
      BY <2>1, <2>2, <2>3, <2>4, <3>3 DEF PlaceInv, PlacesInv, PlaceOf
  <2>5. CASE ~retry
    <3>1. queue' = queue
      BY <1>5, <2>5 DEF Requeue
    <3>2. QueuesInv' /\ \A i \in Items : Queued(i)' <=> Queued(i)
      BY <3>1 DEF PlaceInv, QueuesInv, Queued
    <3>. QED
      BY <2>1, <2>2, <2>3, <2>5, <3>2 DEF PlaceInv, PlacesInv, PlaceOf
  <2>. QED
    BY <2>4, <2>5
<1>. QED
  BY <1>1, <1>2, <1>3, <1>4, <1>5 DEF Serve

LEMMA BeginDestroyPlace ==
  ASSUME TypeInv, PlaceInv, BeginDestroy
  PROVE  PlaceInv'
<1>1. UNCHANGED <<answers, cur, pc, retry, caller>>
  BY DEF BeginDestroy, local
<1>2. CASE queue' = [q \in Queues |-> <<>>]
           /\ cleared' = cleared \cup {i \in Items : Queued(i)}
  <2>1. \A q \in Queues : queue'[q] = <<>> /\ Len(queue'[q]) = 0
    BY <1>2, EmptySeq
  <2>2. QueuesInv'
    BY <2>1 DEF QueuesInv, Distinct, In
  <2>3. \A i \in Items : ~Queued(i)'
    BY <2>1, ItemsAssumption DEF Queued
  <2>4. \A i \in Items : (Held(i)' <=> Held(i)) /\ (Answered(i)' <=> Answered(i))
    BY <1>1 DEF Held, Answered
  <2>. QED
    BY <1>1, <1>2, <2>2, <2>3, <2>4 DEF PlaceInv, PlacesInv, PlaceOf
<1>3. CASE UNCHANGED <<queue, cleared>>
  BY <1>1, <1>3, StillPlace
<1>. QED
  BY <1>2, <1>3 DEF BeginDestroy

LEMMA NextPlaceInv ==
  ASSUME TypeInv, PlaceInv, [Next]_vars
  PROVE  PlaceInv'
<1>1. CASE Login \/ EndLogin \/ Top \/ LookAtQueues \/ Select \/ Woken \/ Idle
           \/ Link \/ Exit
  <2>1. UNCHANGED <<queue, answers, cleared, cur, caller>> /\ ~InHand
    BY <1>1 DEF Login, EndLogin, Top, LookAtQueues, Select, Woken, Idle,
                IdleFetch, IdleStart, IdleWait, IdleDone, IdleOffline,
                IdleStep, Link, After, Reconnect, ReloginOk, ReloginRetry,
                Linking, Exit, InHand, local, history
  <2>. QED
    BY <2>1, StillPlace
<1>2. CASE Destroy /\ ~BeginDestroy
  <2>1. UNCHANGED <<queue, answers, cleared, cur, caller, pc, retry>>
    BY <1>2 DEF Destroy, StopRunning, TestPipe, WritePipe, Wait, Join,
                Destroying, local, history
  <2>. QED
    BY <2>1, StillPlace
<1>3. CASE UNCHANGED vars
  <2>1. UNCHANGED <<queue, answers, cleared, cur, caller, pc, retry>>
    BY <1>3 DEF vars, local, history
  <2>. QED
    BY <2>1, StillPlace
<1>. QED
  BY <1>1, <1>2, <1>3, CallPlace, ServePlace, BeginDestroyPlace
     DEF Next, Process, Terminated, Destroy

(* A submitted item is in exactly one place at every moment: once in its   *)
(* queue, in the hand of the process thread, answered once, or cleared.    *)
THEOREM ItemsInOnePlace == Spec => []OnePlace
<1>1. TypeInv /\ PlaceInv /\ [Next]_vars => TypeInv' /\ PlaceInv'
  BY NextTypeInv, NextPlaceInv
<1>. QED
  BY <1>1, PlaceInvOnePlace, InitTypeInv, InitPlaceInv, PTL DEF Spec

-----------------------------------------------------------------------------
(* An item is tried a bounded number of times, and fails for a reason. *)

(* Only searches are performed by the search loop. *)
LoopInv ==
  /\ pc = "searching" => QueueOf[cur] = "search"
  /\ pc = "perform" => QueueOf[cur] # "search"

(* What the tries on a live connection and the lost connections account    *)
(* for; the attempt that got the answer comes on top.                      *)
Budget ==
  [i \in Items |-> IF QueueOf[i] = "search" THEN 0
                  ELSE IF QueueOf[i] = "action" THEN tries[i]
                  ELSE tries[i] + losses]

TriesInv ==
  \A i \in Items :
    attempts[i] <= IF answers[i] = <<>> THEN Budget[i] ELSE Budget[i] + 1

TryInv == LoopInv /\ TriesInv /\ FailureEarned

LEMMA InitTryInv == Init => TryInv
<1> SUFFICES ASSUME Init PROVE TryInv
  OBVIOUS
<1>1. LoopInv
  BY ModeAssumption DEF Init, LoopInv
<1>2. TriesInv
  <2> SUFFICES ASSUME NEW i \in Items
               PROVE  attempts[i] <= IF answers[i] = <<>> THEN Budget[i]
                                     ELSE Budget[i] + 1
    BY DEF TriesInv
  <2>1. losses = 0 /\ attempts[i] = 0 /\ tries[i] = 0 /\ answers[i] = <<>>
    BY DEF Init
  <2>2. Budget[i] = 0
    BY <2>1 DEF Budget
  <2>. QED
    BY <2>1, <2>2
<1>3. \A i \in Items : answers[i] # <<"failed">>
  BY DEF Init
<1>. QED
  BY <1>1, <1>2, <1>3 DEF TryInv, FailureEarned

LEMMA NextLoopInv ==
  ASSUME TypeInv, PlaceInv, LoopInv, [Next]_vars
  PROVE  LoopInv'
<1> USE DEF LoopInv, local, history
<1>1. CASE NextSearch \/ NextAction \/ NextRequest \/ NextPrefetch
  <2>1. FirstLevel \in Prefetch /\ Prefetch \subseteq Queues
    BY DEF FirstLevel, Prefetch, Queues
  <2>2. ASSUME NEW q \in Queues, queue[q] # <<>>, NEW next, Pop(q, next)
        PROVE  QueueOf[cur'] = q /\ pc' = next
    BY <2>2, PopFrontPlace DEF Pop, PlaceInv
  <2>3. CASE NextSearch
    BY <2>2, <2>3 DEF NextSearch, Skip, Queues
  <2>4. CASE NextAction
    BY <2>2, <2>4 DEF NextAction, Skip, Queues
  <2>5. CASE NextRequest
    BY <2>2, <2>5 DEF NextRequest, Skip, Queues
  <2>6. CASE NextPrefetch
    BY <2>1, <2>2, <2>6 DEF NextPrefetch, Skip, Prefetch
  <2>. QED
    BY <1>1, <2>3, <2>4, <2>5, <2>6
<1>2. CASE Serve /\ ~(NextSearch \/ NextAction \/ NextRequest \/ NextPrefetch)
  <2>1. pc' \notin {"searching", "perform"}
    BY <1>2, ItemsAssumption
       DEF Serve, Drain, Outer, Gap, PerformSearch, Perform, Requeue, Served,
           Skip, LoopOf, Prefetch, Queues, TypeInv, HandInv, InHand
  <2>. QED
    BY <2>1
<1>3. CASE Login \/ EndLogin \/ Top \/ LookAtQueues \/ Select \/ Woken \/ Idle
           \/ Link \/ Exit
  <2>1. pc' \notin {"searching", "perform"}
    BY <1>3 DEF Login, EndLogin, Top, LookAtQueues, Select, Woken, Idle,
                IdleFetch, IdleStart, IdleWait, IdleDone, IdleOffline, Link,
                After, Reconnect, ReloginOk, ReloginRetry, Return, Exit
  <2>. QED
    BY <2>1
<1>4. CASE Call \/ Destroy \/ UNCHANGED vars
  <2>1. UNCHANGED <<pc, cur>>
    BY <1>4 DEF Call, AskConnecting, AskOnceConnected, Push, Destroy,
                BeginDestroy, StopRunning, TestPipe, WritePipe, Wait, Join,
                Destroying, vars
  <2>. QED
    BY <2>1
<1>. QED
  BY <1>1, <1>2, <1>3, <1>4 DEF Next, Process, Terminated

(* A step that does not try anything; a loss of the connection is all that *)
(* it may count.                                                           *)
LEMMA StillTries ==
  ASSUME TypeInv, TriesInv, FailureEarned, losses' \in Nat, losses' >= losses,
         UNCHANGED <<answers, attempts, tries>>
  PROVE  TriesInv' /\ FailureEarned'
<1>1. /\ tries \in [Items -> 0 .. 2] /\ attempts \in [Items -> Nat]
      /\ losses \in Nat
  BY BoundsAssumption DEF TypeInv, TypeOK, DataTypeOK
<1>3. ASSUME NEW i \in Items
      PROVE  Budget[i] \in Nat /\ Budget'[i] \in Nat /\ Budget[i] <= Budget'[i]
  BY <1>1 DEF Budget
<1>4. TriesInv'
  <2>1. ASSUME NEW i \in Items
        PROVE  attempts[i] <= IF answers[i] = <<>> THEN Budget'[i] ELSE Budget'[i] + 1
    <3>1. /\ attempts[i] \in Nat /\ Budget[i] \in Nat /\ Budget'[i] \in Nat
          /\ Budget[i] <= Budget'[i]
      BY <1>1, <1>3
    <3>2. attempts[i] <= IF answers[i] = <<>> THEN Budget[i] ELSE Budget[i] + 1
      BY DEF TriesInv
    <3>. QED
      BY <3>1, <3>2
  <2>. QED
    BY <2>1 DEF TriesInv
<1>5. FailureEarned'
  BY <1>1 DEF FailureEarned
<1>. QED
  BY <1>4, <1>5

(* A step that tries the item in hand once. *)
LEMMA OneTry ==
  ASSUME TypeInv, PlaceInv, TriesInv, FailureEarned, cur \in Items, Held(cur),
         attempts' = [attempts EXCEPT ![cur] = @ + 1],
         tries' \in [Items -> 0 .. 2], losses' \in Nat, losses' >= losses,
         \A i \in Items : i # cur => tries'[i] = tries[i],
         \/ /\ UNCHANGED answers
            /\ Budget'[cur] = Budget[cur] + 1
         \/ \E result \in {"ok", "failed"} :
              /\ Report(cur, result)
              /\ UNCHANGED tries
              /\ result = "failed" /\ tries[cur] < 2 =>
                   \/ QueueOf[cur] = "search"
                   \/ QueueOf[cur] = "action" /\ losses' > 0
  PROVE  TriesInv' /\ FailureEarned'
<1>1. /\ tries \in [Items -> 0 .. 2] /\ attempts \in [Items -> Nat]
      /\ losses \in Nat
  BY BoundsAssumption DEF TypeInv, TypeOK, DataTypeOK
<1>2. \A i \in Items : Budget[i] \in Nat /\ Budget'[i] \in Nat
  BY <1>1 DEF Budget
<1>3. /\ \A i \in Items : i # cur => Budget[i] <= Budget'[i]
      /\ tries' = tries => Budget[cur] <= Budget'[cur]
  BY <1>1 DEF Budget
<1>4. /\ attempts'[cur] = attempts[cur] + 1
      /\ \A i \in Items : i # cur => attempts'[i] = attempts[i]
  BY <1>1
<1>5. answers[cur] = <<>> /\ attempts[cur] <= Budget[cur]
  BY DEF PlaceInv, PlacesInv, PlaceOf, Answered, TriesInv
<1>6. CASE UNCHANGED answers /\ Budget'[cur] = Budget[cur] + 1
  <2>2. ASSUME NEW i \in Items
        PROVE  attempts'[i] <= IF answers[i] = <<>> THEN Budget'[i] ELSE Budget'[i] + 1
    <3>1. CASE i = cur
      BY <1>1, <1>2, <1>4, <1>5, <1>6, <3>1
    <3>2. CASE i # cur
      <4>1. attempts[i] <= IF answers[i] = <<>> THEN Budget[i] ELSE Budget[i] + 1
        BY DEF TriesInv
      <4>2. /\ attempts'[i] = attempts[i] /\ attempts[i] \in Nat
            /\ Budget[i] \in Nat /\ Budget'[i] \in Nat
            /\ Budget[i] <= Budget'[i]
        BY <1>1, <1>2, <1>3, <1>4, <3>2
      <4>. QED
        BY <4>1, <4>2
    <3>. QED
      BY <3>1, <3>2
  <2>3. TriesInv'
    BY <1>6, <2>2 DEF TriesInv
  <2>4. ASSUME NEW i \in Items, answers'[i] = <<"failed">>, tries'[i] < 2
        PROVE  \/ QueueOf[i] = "search"
               \/ QueueOf[i] = "action" /\ losses' > 0
    <3>1. i # cur /\ answers[i] = <<"failed">>
      BY <1>5, <1>6, <2>4, <<"failed">> # <<>>
    <3>2. tries[i] < 2
      BY <2>4, <3>1
    <3>. QED
      BY <1>1, <3>1, <3>2 DEF FailureEarned
  <2>5. FailureEarned'
    BY <2>4 DEF FailureEarned
  <2>. QED
    BY <2>3, <2>5
<1>7. ASSUME NEW result \in {"ok", "failed"}, Report(cur, result),
             UNCHANGED tries,
             result = "failed" /\ tries[cur] < 2 =>
               \/ QueueOf[cur] = "search"
               \/ QueueOf[cur] = "action" /\ losses' > 0
      PROVE  TriesInv' /\ FailureEarned'
  <2>1. /\ answers'[cur] = <<result>>
        /\ \A i \in Items : i # cur => answers'[i] = answers[i]
    BY <1>7, ReportPlace
  <2>2. <<result>> # <<>> /\ (<<result>> = <<"failed">> => result = "failed")
    OBVIOUS
  <2>3. answers'[cur] # <<>>
    BY <2>1, <2>2
  <2>4. ASSUME NEW i \in Items
        PROVE  attempts'[i] <= IF answers'[i] = <<>> THEN Budget'[i] ELSE Budget'[i] + 1
    <3>1. CASE i = cur
      <4>1. attempts'[cur] <= Budget'[cur] + 1
        BY <1>1, <1>2, <1>3, <1>4, <1>5, <1>7
      <4>. QED
        BY <2>3, <3>1, <4>1
    <3>2. CASE i # cur
      <4>1. attempts[i] <= IF answers[i] = <<>> THEN Budget[i] ELSE Budget[i] + 1
        BY DEF TriesInv
      <4>2. /\ attempts'[i] = attempts[i] /\ attempts[i] \in Nat
            /\ Budget[i] \in Nat /\ Budget'[i] \in Nat
            /\ Budget[i] <= Budget'[i]
        BY <1>1, <1>2, <1>3, <1>4, <3>2
      <4>3. attempts'[i] <= IF answers[i] = <<>> THEN Budget'[i] ELSE Budget'[i] + 1
        BY <4>1, <4>2
      <4>. QED
        BY <2>1, <3>2, <4>3
    <3>. QED
      BY <3>1, <3>2
  <2>5. TriesInv'
    BY <2>4 DEF TriesInv
  <2>6. ASSUME NEW i \in Items, answers'[i] = <<"failed">>, tries'[i] < 2
        PROVE  \/ QueueOf[i] = "search"
               \/ QueueOf[i] = "action" /\ losses' > 0
    <3>1. CASE i = cur
      BY <1>7, <2>1, <2>2, <2>6, <3>1
    <3>2. CASE i # cur
      BY <1>1, <1>7, <2>1, <2>6, <3>2 DEF FailureEarned
    <3>. QED
      BY <3>1, <3>2
  <2>7. FailureEarned'
    BY <2>6 DEF FailureEarned
  <2>. QED
    BY <2>5, <2>7
<1>. QED
  BY <1>6, <1>7

LEMMA NextTryInv ==
  ASSUME TypeInv, PlaceInv, TryInv, [Next]_vars
  PROVE  TryInv'
<1>1. LoopInv'
  BY NextLoopInv DEF TryInv
<1>2. /\ tries \in [Items -> 0 .. 2] /\ losses \in Nat
      /\ tries' \in [Items -> 0 .. 2] /\ losses' \in Nat
  BY NextTypeInv, BoundsAssumption DEF TypeInv, TypeOK, DataTypeOK
<1>3. CASE PerformSearch
  <2>1. cur \in Items /\ Held(cur)
    BY <1>3 DEF PerformSearch, Held, TypeInv, HandInv, InHand
  <2>2. /\ UNCHANGED <<tries, losses>>
        /\ attempts' = [attempts EXCEPT ![cur] = @ + 1]
        /\ \E result \in {"ok", "failed"} : Report(cur, result)
    BY <1>3 DEF PerformSearch
  <2>3. QueueOf[cur] = "search"
    BY <1>3 DEF PerformSearch, TryInv, LoopInv
  <2>. QED
    BY <1>1, <1>2, <2>1, <2>2, <2>3, OneTry DEF TryInv
<1>4. CASE Perform
  <2>1. cur \in Items /\ Held(cur) /\ QueueOf[cur] # "search"
    BY <1>4 DEF Perform, Held, TypeInv, HandInv, InHand, TryInv, LoopInv
  <2>2. attempts' = [attempts EXCEPT ![cur] = @ + 1]
    BY <1>4 DEF Perform
  <2>3. CASE Succeed
    <3>1. UNCHANGED <<tries, losses>> /\ Report(cur, "ok")
      BY <2>3 DEF Succeed
    <3>. QED
      BY <1>1, <1>2, <2>1, <2>2, <3>1, OneTry DEF TryInv
  <2>4. CASE FailDisconnected
    <3>1. losses' = losses + 1 /\ UNCHANGED tries
      BY <2>4 DEF FailDisconnected
    <3>2. CASE QueueOf[cur] = "action"
      <4>1. Report(cur, "failed")
        BY <2>4, <3>2 DEF FailDisconnected
      <4>2. losses' > 0
        BY <1>2, <3>1
      <4>. QED
        BY <1>1, <1>2, <2>1, <2>2, <3>1, <3>2, <4>1, <4>2, OneTry
           DEF TryInv
    <3>3. CASE QueueOf[cur] # "action"
      <4>1. UNCHANGED answers
        BY <2>4, <3>3 DEF FailDisconnected
      <4>2. Budget'[cur] = Budget[cur] + 1
        BY <1>2, <2>1, <3>1, <3>3 DEF Budget
      <4>. QED
        BY <1>1, <1>2, <2>1, <2>2, <3>1, <4>1, <4>2, OneTry DEF TryInv
    <3>. QED
      BY <3>2, <3>3
  <2>5. CASE FailConnected
    <3>1. UNCHANGED losses
      BY <2>5 DEF FailConnected
    <3>2. CASE tries[cur] < 2
      <4>1. UNCHANGED answers /\ tries' = [tries EXCEPT ![cur] = tries[cur] + 1]
        BY <2>5, <3>2 DEF FailConnected
      <4>2. /\ tries'[cur] = tries[cur] + 1
            /\ \A i \in Items : i # cur => tries'[i] = tries[i]
        BY <1>2, <2>1, <4>1
      <4>3. Budget'[cur] = Budget[cur] + 1
        BY <1>2, <2>1, <3>1, <4>2 DEF Budget
      <4>. QED
        BY <1>1, <1>2, <2>1, <2>2, <3>1, <4>1, <4>2, <4>3, OneTry DEF TryInv
    <3>3. CASE ~(tries[cur] < 2)
      <4>1. UNCHANGED tries /\ Report(cur, "failed")
        BY <2>5, <3>3 DEF FailConnected
      <4>. QED
        BY <1>1, <1>2, <2>1, <2>2, <3>1, <3>3, <4>1, OneTry DEF TryInv
    <3>. QED
      BY <3>2, <3>3
  <2>. QED
    BY <1>4, <2>3, <2>4, <2>5 DEF Perform
<1>5. CASE After
  <2>1. UNCHANGED <<answers, attempts, tries>> /\ losses' >= losses
    BY <1>2, <1>5 DEF After, Linking
  <2>. QED
    BY <1>1, <1>2, <2>1, StillTries DEF TryInv
<1>6. ASSUME UNCHANGED <<answers, attempts, tries, losses>> PROVE TryInv'
  BY <1>1, <1>2, <1>6, StillTries DEF TryInv
<1>7. CASE Call
  BY <1>6, <1>7 DEF Call, AskConnecting, AskOnceConnected, Push, history
<1>8. CASE Login \/ EndLogin \/ Top \/ LookAtQueues \/ Select \/ Woken \/ Idle
  BY <1>6, <1>8 DEF Login, EndLogin, Top, LookAtQueues, Select, Woken, Idle,
                    IdleFetch, IdleStart, IdleWait, IdleDone, IdleOffline,
                    IdleStep, history
<1>9. CASE Serve /\ ~PerformSearch /\ ~Perform
  BY <1>6, <1>9 DEF Serve, Drain, Outer, NextSearch, NextAction, NextRequest,
                    Gap, NextPrefetch, Requeue, Served, Serving, ServingStep,
                    Linking, history
<1>10. CASE Reconnect \/ ReloginOk \/ ReloginRetry
  BY <1>6, <1>10 DEF Reconnect, ReloginOk, ReloginRetry, Linking
<1>11. CASE Exit \/ Destroy \/ UNCHANGED vars
  BY <1>6, <1>11 DEF Exit, Destroy, BeginDestroy, StopRunning, TestPipe,
                     WritePipe, Wait, Join, Destroying, vars, history
<1>. QED
  BY <1>3, <1>4, <1>5, <1>7, <1>8, <1>9, <1>10, <1>11
     DEF Next, Process, Terminated, Serve, Link

LEMMA AlwaysTryInv == Spec => [](TypeInv /\ PlaceInv /\ TryInv)
<1>1. TypeInv /\ PlaceInv /\ TryInv /\ [Next]_vars
        => TypeInv' /\ PlaceInv' /\ TryInv'
  BY NextTypeInv, NextPlaceInv, NextTryInv
<1>. QED
  BY <1>1, InitTypeInv, InitPlaceInv, InitTryInv, PTL DEF Spec

(* No item is tried more often than its own tries and the connection       *)
(* losses account for.                                                     *)
THEOREM TriesBounded == Spec => []AttemptsBounded
<1>1. TypeInv /\ TryInv => AttemptsBounded
  <2> SUFFICES ASSUME TypeInv, TryInv, NEW i \in Items
               PROVE  attempts[i] <= CASE QueueOf[i] = "search" -> 1
                                       [] QueueOf[i] = "action" -> 3
                                       [] OTHER -> 3 + losses
    BY DEF AttemptsBounded
  <2>1. attempts[i] \in Nat /\ tries[i] \in 0 .. 2 /\ losses \in Nat
    BY BoundsAssumption DEF TypeInv, TypeOK, DataTypeOK
  <2>2. Budget[i] \in Nat /\ attempts[i] <= Budget[i] + 1
    BY <2>1 DEF TryInv, TriesInv, Budget
  <2>3. Budget[i] <= CASE QueueOf[i] = "search" -> 0
                       [] QueueOf[i] = "action" -> 2
                       [] OTHER -> 2 + losses
    BY <2>1 DEF Budget
  <2>. QED
    BY <2>1, <2>2, <2>3
<1>. QED
  BY <1>1, AlwaysTryInv, PTL

(* A request fails only after three tries on a live connection.            *)
THEOREM FailuresEarned == Spec => []FailureEarned
<1>1. TryInv => FailureEarned
  BY DEF TryInv
<1>. QED
  BY <1>1, AlwaysTryInv, PTL

-----------------------------------------------------------------------------
(* ImapManager implements RequestService.                                  *)

(* The status of an item, as ServiceSpec substitutes it. *)
StatusMap == [i \in Items |-> StatusOf(i)]

LEMMA InitService == Init => Service!Init
<1> SUFFICES ASSUME Init, NEW i \in Items PROVE StatusOf(i) = "new"
  BY DEF Service!Init
<1>1. caller[i] = "new" /\ i \notin cleared /\ ~Answered(i)
  BY DEF Init, Answered
<1>. QED
  BY <1>1 DEF StatusOf

(* A step that moves no status. *)
LEMMA StillService ==
  ASSUME UNCHANGED <<answers, cleared>>,
         \A i \in Items : caller'[i] = caller[i]
  PROVE  UNCHANGED StatusMap
<1>1. ASSUME NEW i \in Items PROVE StatusOf(i)' = StatusOf(i)
  BY DEF StatusOf, Answered
<1>. QED
  BY <1>1 DEF StatusMap

(* The statuses, spelt out. *)
StatusInv ==
  \A i \in Items :
    /\ caller[i] \in {"new", "asking", "permitted"} => StatusMap[i] = "new"
    /\ caller[i] = "refused" => StatusMap[i] = "refused"
    /\ i \in cleared => StatusMap[i] = "dropped"
    /\ answers[i] = <<"ok">> => StatusMap[i] = "ok"
    /\ answers[i] = <<"failed">> => StatusMap[i] = "failed"
    /\ Queued(i) \/ Held(i) => StatusMap[i] = "pending"

LEMMA AllStatus == TypeInv /\ PlaceInv => StatusInv
<1> SUFFICES ASSUME TypeInv, PlaceInv, NEW i \in Items
             PROVE  /\ caller[i] \in {"new", "asking", "permitted"}
                         => StatusOf(i) = "new"
                    /\ caller[i] = "refused" => StatusOf(i) = "refused"
                    /\ i \in cleared => StatusOf(i) = "dropped"
                    /\ answers[i] = <<"ok">> => StatusOf(i) = "ok"
                    /\ answers[i] = <<"failed">> => StatusOf(i) = "failed"
                    /\ Queued(i) \/ Held(i) => StatusOf(i) = "pending"
  BY DEF StatusInv, StatusMap
<1>1. PlaceOf(i, Queued(i), Held(i))
  BY DEF PlaceInv, PlacesInv
<1>2. /\ caller[i] # "pushed" => i \notin cleared /\ ~Answered(i)
      /\ i \in cleared => caller[i] = "pushed" /\ ~Answered(i)
      /\ Answered(i) => caller[i] = "pushed" /\ i \notin cleared
      /\ Queued(i) \/ Held(i) =>
           caller[i] = "pushed" /\ i \notin cleared /\ ~Answered(i)
  BY <1>1 DEF PlaceOf
<1>3. \A r \in {"ok", "failed"} :
        answers[i] = <<r>> => Answered(i) /\ answers[i][Len(answers[i])] = r
  BY DEF Answered
<1>. QED
  BY <1>2, <1>3 DEF StatusOf

(* The status of all items but those of a set stays as it is. *)
LEMMA OtherStatus ==
  ASSUME NEW S \in SUBSET Items,
         \A i \in Items \ S : /\ answers'[i] = answers[i]
                              /\ caller'[i] = caller[i]
                              /\ i \in cleared' <=> i \in cleared
  PROVE  \A i \in Items \ S : StatusMap'[i] = StatusMap[i]
<1>1. ASSUME NEW i \in Items \ S PROVE StatusOf(i)' = StatusOf(i)
  BY <1>1 DEF StatusOf, Answered
<1>. QED
  BY <1>1 DEF StatusMap

(* Each step of ImapManager is a step of RequestService or none. *)
LEMMA NextService ==
  ASSUME TypeInv, PlaceInv, TypeInv', PlaceInv', [Next]_vars
  PROVE  [Service!Next]_StatusMap
<1> USE DEF local, history
<1>1. StatusInv /\ StatusInv'
  BY AllStatus, PTL
<1>2. StatusMap = [i \in Items |-> StatusMap[i]] /\ StatusMap' = [i \in Items |-> StatusMap'[i]]
  BY DEF StatusMap
<1>3. caller \in [Items -> {"new", "asking", "permitted", "pushed", "refused"}]
  BY DEF TypeInv, TypeOK, ThreadsTypeOK
<1>4. CASE Call
  <2> PICK e \in Items : AskConnecting(e) \/ AskOnceConnected(e) \/ Push(e)
    BY <1>4 DEF Call
  <2>1. \A i \in Items \ {e} : StatusMap'[i] = StatusMap[i]
    <3>1. \A i \in Items \ {e} : /\ answers'[i] = answers[i]
                                 /\ caller'[i] = caller[i]
                                 /\ i \in cleared' <=> i \in cleared
      BY <1>3 DEF AskConnecting, AskOnceConnected, Push
    <3>. QED
      BY <3>1, OtherStatus
  <2>2. StatusMap[e] = "new"
    BY <1>1 DEF StatusInv, AskConnecting, AskOnceConnected, Push
  <2>3. StatusMap'[e] \in {"new", "refused", "pending"}
    <3>1. CASE Push(e)
      <4>1. ~Queued(e) /\ queue' = PushFront(e)
        BY <3>1 DEF Push, PlaceInv, PlacesInv, PlaceOf
      <4>2. Queued(e)'
        BY <4>1, PushFrontPlace DEF PlaceInv
      <4>. QED
        BY <1>1, <4>2 DEF StatusInv
    <3>2. CASE AskConnecting(e) \/ AskOnceConnected(e)
      BY <1>1, <1>3, <3>2 DEF AskConnecting, AskOnceConnected, StatusInv
    <3>. QED
      BY <3>1, <3>2
  <2>4. StatusMap' = [StatusMap EXCEPT ![e] = StatusMap'[e]]
    BY <1>2, <2>1
  <2>5. CASE StatusMap'[e] = "new"
    BY <1>2, <2>1, <2>2, <2>5
  <2>6. CASE StatusMap'[e] = "refused"
    BY <2>2, <2>4, <2>6 DEF Service!Next, Service!Refuse, StatusMap
  <2>7. CASE StatusMap'[e] = "pending"
    BY <2>2, <2>4, <2>7 DEF Service!Next, Service!Submit, StatusMap
  <2>. QED
    BY <2>3, <2>5, <2>6, <2>7
<1>5. ASSUME cur \in Items, Held(cur), NEW result \in {"ok", "failed"},
             Report(cur, result), UNCHANGED <<cleared, caller>>
      PROVE  Service!Next
  <2>1. /\ answers'[cur] = <<result>>
        /\ \A i \in Items : i # cur => answers'[i] = answers[i]
    BY <1>5, ReportPlace
  <2>2. \A i \in Items \ {cur} : StatusMap'[i] = StatusMap[i]
    BY <1>5, <2>1, OtherStatus
  <2>3. StatusMap[cur] = "pending" /\ StatusMap'[cur] = result
    BY <1>1, <1>5, <2>1 DEF StatusInv
  <2>4. StatusMap' = [StatusMap EXCEPT ![cur] = result]
    BY <1>2, <2>2, <2>3
  <2>. QED
    BY <1>5, <2>3, <2>4 DEF Service!Next, Service!Answer, StatusMap
<1>6. ASSUME UNCHANGED <<answers, cleared, caller>>
      PROVE  UNCHANGED StatusMap
  BY <1>6, StillService
<1>7. CASE PerformSearch
  BY <1>5, <1>7 DEF PerformSearch, Held, TypeInv, HandInv, InHand
<1>8. CASE Perform
  <2>1. cur \in Items /\ Held(cur) /\ UNCHANGED <<cleared, caller>>
    BY <1>8 DEF Perform, Held, TypeInv, HandInv, InHand
  <2>2. UNCHANGED answers \/ \E result \in {"ok", "failed"} : Report(cur, result)
    BY <1>8 DEF Perform, Succeed, FailDisconnected, FailConnected
  <2>. QED
    BY <1>5, <1>6, <2>1, <2>2
<1>9. CASE BeginDestroy
  <2>1. CASE UNCHANGED <<queue, cleared>>
    BY <1>6, <1>9, <2>1 DEF BeginDestroy
  <2>2. CASE cleared' = cleared \cup {i \in Items : Queued(i)}
    <3> DEFINE S == {i \in Items : Queued(i)}
    <3>1. UNCHANGED <<answers, caller>>
      BY <1>9 DEF BeginDestroy
    <3>2. \A i \in Items \ S : StatusMap'[i] = StatusMap[i]
      BY <2>2, <3>1, OtherStatus
    <3>3. \A i \in S : StatusMap[i] = "pending" /\ StatusMap'[i] = "dropped"
      BY <1>1, <2>2 DEF StatusInv
    <3>4. StatusMap' = [i \in Items |-> IF i \in S THEN "dropped" ELSE StatusMap[i]]
      BY <1>2, <3>2, <3>3
    <3>5. S \in SUBSET Items
      OBVIOUS
    <3>. QED
      BY <3>3, <3>4, <3>5 DEF Service!Next, Service!Drop, StatusMap
  <2>. QED
    BY <1>9, <2>1, <2>2 DEF BeginDestroy
<1>10. CASE Login \/ EndLogin \/ Top \/ LookAtQueues \/ Select \/ Woken \/ Idle
            \/ Link \/ Exit
  BY <1>6, <1>10 DEF Login, EndLogin, Top, LookAtQueues, Select, Woken, Idle,
                     IdleFetch, IdleStart, IdleWait, IdleDone, IdleOffline,
                     IdleStep, Link, After, Reconnect, ReloginOk,
                     ReloginRetry, Linking, Exit
<1>11. CASE Serve /\ ~PerformSearch /\ ~Perform
  BY <1>6, <1>11 DEF Serve, Drain, Outer, NextSearch, NextAction, NextRequest,
                     Gap, NextPrefetch, Requeue, Served, Serving, ServingStep,
                     Linking
<1>12. CASE Destroy /\ ~BeginDestroy
  BY <1>6, <1>12 DEF Destroy, StopRunning, TestPipe, WritePipe, Wait, Join,
                     Destroying
<1>13. CASE UNCHANGED vars
  BY <1>6, <1>13 DEF vars
<1>. QED
  BY <1>4, <1>7, <1>8, <1>9, <1>10, <1>11, <1>12, <1>13
     DEF Next, Process, Terminated, Serve, Destroy

(* Whatever the network does, the callers see a RequestService: at most    *)
(* one answer for each item, none for one that was refused or dropped.     *)
THEOREM ImplementsService == Spec => ServiceSpec
<1>1. TypeInv /\ PlaceInv /\ TypeInv' /\ PlaceInv' /\ [Next]_vars
        => [Service!Next]_StatusMap
  BY NextService
<1>2. Init => Service!Init
  BY InitService
<1>3. Spec => [][Service!Next]_StatusMap
  BY <1>1, AlwaysTryInv, PTL DEF Spec
<1>. QED
  BY <1>2, <1>3, PTL DEF Spec, ServiceSpec, Service!Spec, StatusMap

-----------------------------------------------------------------------------
(* Prefetching yields. *)

(* m_Connecting is up during a login, and may stay up only in a thread     *)
(* that has been told to stop.                                             *)
ConnectingInv ==
  connecting => pc \in {"login", "loggedIn", "reconnect", "relogin"} \/ ~running

LEMMA InitConnectingInv == Init => ConnectingInv
  BY DEF Init, ConnectingInv

LEMMA NextConnectingInv ==
  ASSUME TypeInv, ConnectingInv, [Next]_vars
  PROVE  ConnectingInv'
<1> USE DEF ConnectingInv, local, history
<1>1. CASE Call
  BY <1>1 DEF Call, AskConnecting, AskOnceConnected, Push
<1>2. CASE Login \/ EndLogin \/ Top \/ LookAtQueues \/ Select \/ Woken
  BY <1>2 DEF Login, EndLogin, Top, LookAtQueues, Select, Woken
<1>3. CASE Idle
  BY <1>3 DEF Idle, IdleFetch, IdleStart, IdleWait, IdleDone, IdleOffline,
              IdleStep
<1>4. CASE Serve /\ ~Served
  <2>1. UNCHANGED <<connecting, running>>
    BY <1>4 DEF Serve, Drain, Outer, NextSearch, NextAction, NextRequest, Gap,
                NextPrefetch, PerformSearch, Perform, Requeue, Serving,
                ServingStep
  <2>2. pc \notin {"login", "loggedIn", "reconnect", "relogin"}
    BY <1>4 DEF Serve, Drain, Outer, NextSearch, NextAction, NextRequest, Gap,
                NextPrefetch, PerformSearch, Perform, Requeue
  <2>. QED
    BY <2>1, <2>2
<1>5. CASE Served
  BY <1>5 DEF Served, Linking
<1>6. CASE Link
  BY <1>6 DEF Link, After, Reconnect, ReloginOk, ReloginRetry, Return, Linking
<1>7. CASE Exit \/ Destroy
  BY <1>7 DEF Exit, Destroy, BeginDestroy, StopRunning, TestPipe, WritePipe,
              Wait, Join, Destroying
<1>8. CASE UNCHANGED vars
  BY <1>8 DEF vars
<1>. QED
  BY <1>1, <1>2, <1>3, <1>4, <1>5, <1>6, <1>7, <1>8
     DEF Next, Process, Terminated

(* A prefetch is taken up only when no action and no request waits, and    *)
(* only over a connection that is not known to be lost.                    *)
THEOREM PrefetchesYield == Spec => PrefetchYields
<1>1. ASSUME TypeInv, PlaceInv, ConnectingInv, [Next]_vars,
             cur' # cur, cur' # NoItem, QueueOf[cur'] \in Prefetch
      PROVE  /\ queue["action"] = <<>> /\ queue["request"] = <<>>
             /\ isConnected /\ ~connecting
  <2>1. Process
    BY <1>1 DEF Next, Call, AskConnecting, AskOnceConnected, Push, Destroy,
                BeginDestroy, StopRunning, TestPipe, WritePipe, Wait, Join,
                Destroying, Terminated, vars, local
  <2>2. Serve
    BY <1>1, <2>1
       DEF Process, Login, EndLogin, Top, LookAtQueues, Select, Woken, Idle,
           IdleFetch, IdleStart, IdleWait, IdleDone, IdleOffline, IdleStep,
           Link, After, Reconnect, ReloginOk, ReloginRetry, Linking, Exit,
           local
  <2>3. NextSearch \/ NextAction \/ NextRequest \/ NextPrefetch
    BY <1>1, <2>2
       DEF Serve, Drain, Outer, Gap, Skip, PerformSearch, Perform, Requeue,
           Served, Linking, local
  <2>4. ASSUME NEW q \in {"search", "action", "request"}, queue[q] # <<>>,
               NEW next, Pop(q, next)
        PROVE  FALSE
    BY <1>1, <2>4, PopFrontPlace DEF Pop, PlaceInv, Queues, Prefetch
  <2>5. NextPrefetch
    BY <1>1, <2>3, <2>4 DEF NextSearch, NextAction, NextRequest, Skip
  <2>. QED
    BY <1>1, <2>5 DEF NextPrefetch, Skip, MayServe, ConnectingInv
<1>2. TypeInv /\ PlaceInv /\ ConnectingInv /\ [Next]_vars
        => TypeInv' /\ PlaceInv' /\ ConnectingInv'
  BY NextTypeInv, NextPlaceInv, NextConnectingInv
<1>3. TypeInv /\ PlaceInv /\ ConnectingInv /\ [Next]_vars
        => [cur' # cur /\ cur' # NoItem /\ QueueOf[cur'] \in Prefetch
             => /\ queue["action"] = <<>> /\ queue["request"] = <<>>
                /\ isConnected /\ ~connecting]_vars
  BY <1>1
<1>. QED
  BY <1>2, <1>3, InitTypeInv, InitPlaceInv, InitConnectingInv, PTL
     DEF Spec, PrefetchYields

=============================================================================
