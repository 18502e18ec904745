----------------------------- MODULE ShutdownProofs -----------------------------
(***************************************************************************)
(* Proofs about the end of the program.                                    *)
(*                                                                         *)
(* Nothing keeps the unlocked push from being overtaken by a pop, so that  *)
(* what is said of the deque comes in two parts.  Its begin stays in the   *)
(* memory whatever happens (BeginInv): a push moves it below what it was   *)
(* once for every message, and a pop moves it up only if it was seen below *)
(* the end.  That the elements are where the begin says, and are messages, *)
(* holds as long as no push and pop have overlapped (QueueInv).            *)
(***************************************************************************)
EXTENDS Shutdown, FiniteSetTheorems, TLAPS

(* The begin as it is, and as the two threads have read it.                *)
BeginInv ==
  /\ -Cardinality(submitted) <= start
  /\ -Cardinality(submitted) <= pushAt
  /\ -Cardinality(submitted) <= popAt
  /\ main = "pushing" => /\ -Cardinality(submitted) < start
                         /\ -Cardinality(submitted) < pushAt
  /\ smtp \in {"front", "popping"} => start < 0
  /\ smtp = "popping" => popAt < 0
  /\ main = "constructing" /\ ~raced => start < 0

(* The slots from the begin, or above the one that is being constructed.   *)
Filled == (IF main = "constructing" THEN start + 1 ELSE start) .. -1

(* Without an overlap each thread finds the begin where it has read it, the*)
(* elements are the messages not yet popped, and one of them is in hand.   *)
QueueInv ==
  /\ Pushing => hand \in Msgs
  /\ ~raced =>
       /\ Pushing => pushAt = start
       /\ smtp = "popping" => popAt = start
       /\ live = Filled
       /\ \A i \in live : slots[i] \in Msgs
       /\ smtp \in {"popping", "perform", "handle"} => action \in Msgs

(* A thread has no more requests than the user has made.                   *)
PendingInv == \A t \in Imap : pending[t] <= asked

(* The user interface has its pointer until after it has ended.            *)
PointerInv == Running \/ main = "quit" => imapSet

TypeInv == TypeOK /\ BeginInv /\ QueueInv /\ PendingInv /\ PointerInv

(* Who is idle when the user quits does not begin anything that lasts.     *)
Quiet ==
  /\ start = 0 /\ smtp \notin {"front", "popping", "perform", "handle"}
  /\ \A t \in Imap : pc[t] # "answer"
  /\ \A t \in {"cache", "search"} : pc[t] # "work" /\ pending[t] = 0

EndInv ==
  /\ Running => ~inFlight
  /\ ~Running /\ ~raced /\ ~inFlight => Quiet /\ main \notin {"crashed", "terminated"}

-----------------------------------------------------------------------------
(* As many messages are submitted as there are, at most.                   *)
LEMMA SubmittedFits ==
  ASSUME NEW S \in SUBSET Msgs
  PROVE  /\ IsFiniteSet(S)
         /\ Cardinality(S) \in Nat
         /\ Cardinality(Msgs) \in Nat
         /\ Cardinality(S) <= Cardinality(Msgs)
         /\ \A m \in Msgs : m \notin S => Cardinality(S \cup {m}) = Cardinality(S) + 1
<1>1. IsFiniteSet(Msgs)
  BY BoundsAssumption
<1>2. IsFiniteSet(S) /\ Cardinality(S) <= Cardinality(Msgs)
  BY <1>1, FS_Subset
<1>3. Cardinality(S) \in Nat /\ Cardinality(Msgs) \in Nat
  BY <1>1, <1>2, FS_CardinalityType
<1>4. ASSUME NEW m \in Msgs, m \notin S
      PROVE  Cardinality(S \cup {m}) = Cardinality(S) + 1
  BY <1>2, <1>4, FS_AddElement
<1> QED
  BY <1>2, <1>3, <1>4

(* What the begin may be is within the memory.                             *)
LEMMA WithinMemory ==
  ASSUME NEW S \in SUBSET Msgs, NEW i \in Int, -Cardinality(S) <= i, i <= 0
  PROVE  i \in Deque
  BY SubmittedFits DEF Deque

LEMMA InitTypeInv == Init => TypeInv
<1> SUFFICES ASSUME Init
             PROVE  TypeInv
  OBVIOUS
<1>1. Cardinality({}) = 0
  BY FS_EmptySet
<1>2. 0 \in Deque
  BY <1>1, WithinMemory, SMT
<1>3. TypeOK
  <2>1. slots \in [Deque -> Msgs \cup {NoMsg}]
    BY DEF Init
  <2>2. pending \in [Imap -> 0 .. MaxRequests] /\ asked \in 0 .. MaxRequests
    BY BoundsAssumption DEF Init
  <2>3. pc \in [Imap -> {"wait", "work", "answer", "ended"}]
    BY DEF Init
  <2> QED
    BY <1>2, <2>1, <2>2, <2>3 DEF Init, TypeOK, MainLabels
<1>4. BeginInv /\ QueueInv /\ PendingInv /\ PointerInv
  BY <1>1 DEF Init, BeginInv, QueueInv, Filled, Pushing, PendingInv, PointerInv, Imap
<1> QED
  BY <1>3, <1>4 DEF TypeInv

(* The begin, wherever it has been read, is a slot or the end.             *)
LEMMA BeginType ==
  ASSUME TypeInv
  PROVE  /\ start \in Int /\ start <= 0
         /\ pushAt \in Int /\ pushAt <= 0
         /\ popAt \in Int /\ popAt <= 0
         /\ submitted \in SUBSET Msgs
         /\ Cardinality(submitted) \in Nat
BY SubmittedFits DEF TypeInv, TypeOK, Deque

LEMMA PushStartTypes ==
  ASSUME TypeInv, PushStart
  PROVE  TypeInv'
<1> USE DEF TypeInv, deque, smtpVars, imapVars, history
<1>1. PICK s \in {pushAt, start} : start' = s - 1 /\ pushAt' = s - 1
  BY DEF PushStart
<1>2. s \in Int /\ s <= 0 /\ -Cardinality(submitted) < s
  BY BeginType, <1>1 DEF BeginInv, PushStart, MainAt
<1>3. start' \in Deque /\ pushAt' \in Deque
  BY BeginType, <1>1, <1>2, WithinMemory
<1>4. TypeOK'
  BY <1>3 DEF TypeOK, MainLabels, PushStart, UiStep, MainAt
<1>5. BeginInv'
  BY BeginType, <1>1, <1>2 DEF BeginInv, PushStart, UiStep, MainAt
<1>6. QueueInv'
  <2>1. hand' \in Msgs
    BY DEF QueueInv, Pushing, PushStart, MainAt
  <2>2. ASSUME ~raced'
        PROVE  /\ ~raced /\ smtp # "popping" /\ start' = start - 1
               /\ live' = Filled' /\ live' = live /\ slots' = slots
    <3>1. ~raced /\ smtp # "popping" /\ s = start
      BY <1>1, <2>2 DEF PushStart
    <3>2. live = start .. -1
      BY <3>1 DEF QueueInv, Filled, PushStart, MainAt
    <3>3. Filled' = (start' + 1) .. -1
      BY DEF Filled, PushStart
    <3> QED
      BY BeginType, <1>1, <3>1, <3>2, <3>3 DEF PushStart
  <2>3. UNCHANGED <<smtp, action>> /\ pushAt' = start'
    BY <1>1 DEF PushStart, UiStep
  <2> QED
    BY <2>1, <2>2, <2>3 DEF QueueInv
<1>7. PendingInv' /\ PointerInv'
  BY DEF PendingInv, PointerInv, Running, PushStart, UiStep, MainAt
<1> QED
  BY <1>4, <1>5, <1>6, <1>7

LEMMA ConstructTypes ==
  ASSUME TypeInv, Construct
  PROVE  TypeInv'
<1> USE DEF TypeInv, deque, smtpVars, imapVars, history
<1>1. TypeOK'
  BY BeginType, WithinMemory DEF TypeOK, MainLabels, Construct, UiStep, MainAt
<1>2. BeginInv'
  BY BeginType DEF BeginInv, Construct, UiStep, MainAt
<1>3. QueueInv'
  <2>1. ASSUME ~raced'
        PROVE  /\ ~raced /\ live' = Filled'
               /\ \A k \in live' : slots'[k] \in Msgs
    <3>1. ~raced /\ smtp # "popping" /\ start = pushAt
      BY <2>1 DEF Construct
    <3>2. slots' = [slots EXCEPT ![start] = hand] /\ live' = live \cup {start}
      BY <3>1 DEF Construct
    <3>3. live = (start + 1) .. -1 /\ hand \in Msgs
      BY <3>1 DEF QueueInv, Filled, Pushing, Construct, MainAt
    <3>4. start < 0
      BY BeginType, <3>1 DEF BeginInv, Construct, MainAt
    <3>5. Filled' = start .. -1
      BY DEF Filled, Construct
    <3>6. live' = Filled'
      BY BeginType, <3>2, <3>3, <3>4, <3>5
    <3>7. \A k \in live : k \in Deque /\ slots[k] \in Msgs
      BY <3>1 DEF QueueInv, TypeOK
    <3>8. ASSUME NEW k \in live'
          PROVE  slots'[k] \in Msgs
      BY <3>2, <3>3, <3>7 DEF TypeOK
    <3> QED
      BY <3>1, <3>6, <3>8
  <2>2. UNCHANGED <<smtp, action, popAt, start>> /\ ~Pushing'
    BY DEF Construct, UiStep, Pushing
  <2> QED
    BY <2>1, <2>2 DEF QueueInv
<1>4. PendingInv' /\ PointerInv'
  BY DEF PendingInv, PointerInv, Running, Construct, UiStep, MainAt
<1> QED
  BY <1>1, <1>2, <1>3, <1>4

LEMMA WritePipeTypes ==
  ASSUME TypeInv, WritePipe
  PROVE  TypeInv'
<1> USE DEF TypeInv, deque, smtpVars, imapVars, history
<1>1. TypeOK'
  BY BeginType, WithinMemory DEF TypeOK, MainLabels, WritePipe, UiStep, MainAt
<1>2. BeginInv'
  BY BeginType DEF BeginInv, WritePipe, UiStep, MainAt
<1>3. QueueInv'
  BY BeginType DEF QueueInv, Filled, Pushing, TypeOK, WritePipe, UiStep, MainAt
<1>4. PendingInv' /\ PointerInv'
  BY DEF PendingInv, PointerInv, Running, WritePipe, UiStep, MainAt
<1> QED
  BY <1>1, <1>2, <1>3, <1>4

LEMMA WakeTypes ==
  ASSUME TypeInv, Wake
  PROVE  TypeInv'
<1> USE DEF TypeInv, deque, smtpVars, imapVars, history
<1>1. TypeOK'
  BY BeginType, WithinMemory DEF TypeOK, MainLabels, Wake, SmtpAt, SmtpStep
<1>2. BeginInv'
  BY BeginType DEF BeginInv, Wake, SmtpAt, SmtpStep
<1>3. QueueInv'
  BY BeginType DEF QueueInv, Filled, Pushing, TypeOK, Wake, SmtpAt, SmtpStep
<1>4. PendingInv' /\ PointerInv'
  BY DEF PendingInv, PointerInv, Running, Wake, SmtpAt, SmtpStep
<1> QED
  BY <1>1, <1>2, <1>3, <1>4

LEMMA QueueTypes ==
  ASSUME TypeInv, Queue
  PROVE  TypeInv'
<1> USE DEF TypeInv, deque, smtpVars, imapVars, history
<1>1. TypeOK'
  BY BeginType, WithinMemory DEF TypeOK, MainLabels, Queue, SmtpAt, SmtpGoes, SmtpStep, Loop
<1>2. BeginInv'
  BY BeginType DEF BeginInv, Queue, SmtpAt, SmtpGoes, SmtpStep, Loop
<1>3. QueueInv'
  BY BeginType DEF QueueInv, Filled, Pushing, TypeOK, Queue, SmtpAt, SmtpGoes, SmtpStep, Loop
<1>4. PendingInv' /\ PointerInv'
  BY DEF PendingInv, PointerInv, Running, Queue, SmtpAt, SmtpGoes, SmtpStep, Loop
<1> QED
  BY <1>1, <1>2, <1>3, <1>4

LEMMA AgainTypes ==
  ASSUME TypeInv, Again
  PROVE  TypeInv'
<1> USE DEF TypeInv, deque, smtpVars, imapVars, history
<1>1. TypeOK'
  BY BeginType, WithinMemory DEF TypeOK, MainLabels, Again, SmtpAt, SmtpGoes, SmtpStep, Loop
<1>2. BeginInv'
  BY BeginType DEF BeginInv, Again, SmtpAt, SmtpGoes, SmtpStep, Loop
<1>3. QueueInv'
  BY BeginType DEF QueueInv, Filled, Pushing, TypeOK, Again, SmtpAt, SmtpGoes, SmtpStep, Loop
<1>4. PendingInv' /\ PointerInv'
  BY DEF PendingInv, PointerInv, Running, Again, SmtpAt, SmtpGoes, SmtpStep, Loop
<1> QED
  BY <1>1, <1>2, <1>3, <1>4

LEMMA FrontTypes ==
  ASSUME TypeInv, Front
  PROVE  TypeInv'
<1> USE DEF TypeInv, deque, smtpVars, imapVars, history
<1>1. TypeOK'
  BY BeginType, WithinMemory DEF TypeOK, MainLabels, Front, SmtpAt, SmtpStep
<1>2. BeginInv'
  BY BeginType DEF BeginInv, Front, SmtpAt, SmtpStep
<1>3. QueueInv'
  <2>1. ASSUME ~raced'
        PROVE  ~raced /\ live' = Filled' /\ action' \in Msgs
    <3>1. ~raced /\ ~Pushing
      BY <2>1 DEF Front
    <3>2. live = start .. -1 /\ Filled' = start .. -1
      BY <3>1 DEF QueueInv, Filled, Pushing, Front, SmtpStep
    <3>3. start \in live
      BY BeginType, <3>2 DEF BeginInv, Front, SmtpAt
    <3> QED
      BY <3>1, <3>2, <3>3 DEF QueueInv, Front
  <2>2. UNCHANGED <<start, slots, live, pushAt, hand, main>> /\ popAt' = start
    BY DEF Front, SmtpStep
  <2> QED
    BY <2>1, <2>2 DEF QueueInv, Pushing
<1>4. PendingInv' /\ PointerInv'
  BY DEF PendingInv, PointerInv, Running, Front, SmtpAt, SmtpStep
<1> QED
  BY <1>1, <1>2, <1>3, <1>4

LEMMA PopTypes ==
  ASSUME TypeInv, Pop
  PROVE  TypeInv'
<1> USE DEF TypeInv, deque, smtpVars, imapVars, history
<1>1. PICK s \in {popAt, start} : start' = s + 1 /\ live' = live \ {s}
  BY DEF Pop
<1>2. s \in Int /\ s < 0 /\ -Cardinality(submitted) <= s
  BY BeginType, <1>1 DEF BeginInv, Pop, SmtpAt
<1>3. start' \in Deque
  BY BeginType, <1>1, <1>2, WithinMemory
<1>4. QueueInv'
  <2>1. ASSUME ~raced'
        PROVE  ~raced /\ ~Pushing /\ live' = Filled' /\ live' \subseteq live
    <3>1. ~raced /\ ~Pushing /\ s = start
      BY <1>1, <2>1 DEF Pop
    <3>2. live = start .. -1 /\ Filled' = start' .. -1
      BY <3>1 DEF QueueInv, Filled, Pushing, Pop, SmtpStep
    <3> QED
      BY BeginType, <1>1, <3>1, <3>2
  <2>2. UNCHANGED <<slots, hand, action, main>> /\ smtp' = "perform" /\ smtp = "popping"
    BY DEF Pop, SmtpAt, SmtpStep
  <2> QED
    BY <2>1, <2>2 DEF QueueInv, Pushing
<1>5. TypeOK'
  <2>1. smtp' = "perform" /\ ~raced' => action' \in Msgs
    BY <1>4 DEF QueueInv
  <2>2. live' \subseteq Deque
    BY <1>1 DEF TypeOK
  <2> QED
    BY <1>3, <2>1, <2>2 DEF TypeOK, Pop, SmtpAt, SmtpStep
<1>6. BeginInv'
  <2>1. UNCHANGED <<main, submitted, pushAt, popAt>> /\ smtp' = "perform"
    BY DEF Pop, SmtpStep
  <2>2. Pushing => raced'
    BY DEF Pop
  <2>3. -Cardinality(submitted) < start'
    BY BeginType, <1>1, <1>2
  <2>4. -Cardinality(submitted) <= start'
    BY BeginType, <1>3, <2>3 DEF Deque
  <2> HIDE DEF TypeInv
  <2> QED
    BY <2>1, <2>2, <2>3, <2>4 DEF TypeInv, BeginInv, Pushing
<1>7. PendingInv' /\ PointerInv'
  BY DEF PendingInv, PointerInv, Running, Pop, SmtpAt, SmtpStep
<1> QED
  BY <1>4, <1>5, <1>6, <1>7

LEMMA PerformTypes ==
  ASSUME TypeInv, Sent \/ NotSent
  PROVE  TypeInv'
<1> USE DEF TypeInv, deque, smtpVars, imapVars, history
<1>1. TypeOK'
  BY BeginType, WithinMemory DEF TypeOK, MainLabels, Sent, NotSent, SmtpAt, SmtpGoes, SmtpStep
<1>2. BeginInv'
  BY BeginType DEF BeginInv, Sent, NotSent, SmtpAt, SmtpGoes, SmtpStep
<1>3. QueueInv'
  BY BeginType DEF QueueInv, Filled, Pushing, TypeOK, Sent, NotSent, SmtpAt, SmtpGoes, SmtpStep
<1>4. PendingInv' /\ PointerInv'
  BY DEF PendingInv, PointerInv, Running, Sent, NotSent, SmtpAt, SmtpGoes, SmtpStep
<1> QED
  BY <1>1, <1>2, <1>3, <1>4

LEMMA SmtpResultHandlerTypes ==
  ASSUME TypeInv, SmtpResultHandler, imapSet
  PROVE  TypeInv'
<1> USE DEF TypeInv, deque, smtpVars, imapVars, history
<1>1. TypeOK'
  BY BeginType, WithinMemory DEF TypeOK, MainLabels, SmtpResultHandler, SmtpAt, SmtpStep, Crash
<1>2. BeginInv'
  BY BeginType DEF BeginInv, SmtpResultHandler, SmtpAt, SmtpStep, Crash
<1>3. QueueInv'
  BY BeginType DEF QueueInv, Filled, Pushing, TypeOK, SmtpResultHandler, SmtpAt, SmtpStep, Crash
<1>4. PendingInv' /\ PointerInv'
  BY DEF PendingInv, PointerInv, Running, SmtpResultHandler, SmtpAt, SmtpStep, Crash
<1> QED
  BY <1>1, <1>2, <1>3, <1>4

LEMMA ExitTypes ==
  ASSUME TypeInv, Exit
  PROVE  TypeInv'
<1> USE DEF TypeInv, deque, smtpVars, imapVars, history
<1>1. TypeOK'
  BY BeginType, WithinMemory DEF TypeOK, MainLabels, Exit, SmtpAt, SmtpGoes, SmtpStep
<1>2. BeginInv'
  BY BeginType DEF BeginInv, Exit, SmtpAt, SmtpGoes, SmtpStep
<1>3. QueueInv'
  BY BeginType DEF QueueInv, Filled, Pushing, TypeOK, Exit, SmtpAt, SmtpGoes, SmtpStep
<1>4. PendingInv' /\ PointerInv'
  BY DEF PendingInv, PointerInv, Running, Exit, SmtpAt, SmtpGoes, SmtpStep
<1> QED
  BY <1>1, <1>2, <1>3, <1>4

LEMMA CrashTypes ==
  ASSUME TypeInv, NEW overlap \in BOOLEAN, Crash(overlap), Pushing => overlap
  PROVE  TypeInv'
<1> USE DEF TypeInv, deque, smtpVars, imapVars, history
<1>1. TypeOK'
  BY BeginType, WithinMemory DEF TypeOK, MainLabels, Crash
<1>2. BeginInv'
  BY BeginType DEF BeginInv, Crash
<1>3. QueueInv'
  <2>1. ~Pushing'
    BY DEF Pushing, Crash
  <2>2. ASSUME ~raced'
        PROVE  ~raced /\ Filled' = Filled
    BY <2>2 DEF Crash, Pushing, Filled
  <2> QED
    BY <2>1, <2>2 DEF QueueInv, Crash
<1>4. PendingInv' /\ PointerInv'
  BY DEF PendingInv, PointerInv, Running, Crash
<1> QED
  BY <1>1, <1>2, <1>3, <1>4

LEMMA AsyncActionTypes ==
  ASSUME TypeInv, NEW m \in Msgs, AsyncAction(m)
  PROVE  TypeInv'
<1> USE DEF TypeInv, deque, smtpVars, imapVars, history
<1>1. m \notin submitted /\ submitted' = submitted \cup {m} /\ submitted' \in SUBSET Msgs
  BY BeginType DEF AsyncAction
<1>2. Cardinality(submitted') = Cardinality(submitted) + 1
  BY BeginType, <1>1, SubmittedFits
<1>3. TypeOK'
  BY <1>1 DEF TypeOK, MainLabels, AsyncAction, UiStep, MainAt
<1>4. BeginInv'
  BY BeginType, <1>2 DEF BeginInv, AsyncAction, UiStep, MainAt
<1>5. QueueInv'
  BY BeginType DEF QueueInv, Filled, Pushing, AsyncAction, UiStep, MainAt
<1>6. PendingInv' /\ PointerInv'
  BY DEF PendingInv, PointerInv, Running, AsyncAction, UiStep, MainAt
<1> QED
  BY <1>3, <1>4, <1>5, <1>6

LEMMA AskTypes ==
  ASSUME TypeInv, NEW threads, Ask(threads)
  PROVE  TypeInv'
<1> USE DEF TypeInv, deque, smtpVars, imapVars, history
<1>1. asked \in Nat /\ asked' = asked + 1 /\ asked' \in 0 .. MaxRequests
  BY BoundsAssumption DEF TypeOK, Ask
<1>2. ASSUME NEW t \in Imap
      PROVE  pending'[t] \in 0 .. MaxRequests /\ pending'[t] <= asked'
  <2>1. pending[t] \in Nat /\ pending[t] <= asked
    BY BoundsAssumption DEF TypeOK, PendingInv
  <2>2. pending'[t] = pending[t] + 1 \/ pending'[t] = pending[t] + 0
    BY DEF Ask
  <2> QED
    BY BoundsAssumption, <1>1, <2>1, <2>2
<1>3. pending' \in [Imap -> 0 .. MaxRequests]
  BY <1>2 DEF Ask
<1>4. TypeOK'
  BY <1>1, <1>3 DEF TypeOK, Ask, UiStep, MainAt
<1>5. BeginInv' /\ QueueInv'
  BY DEF BeginInv, QueueInv, Filled, Pushing, Ask, UiStep, MainAt
<1>6. PendingInv' /\ PointerInv'
  BY <1>2 DEF PendingInv, PointerInv, Running, Ask, UiStep, MainAt
<1> QED
  BY <1>4, <1>5, <1>6

LEMMA QuitTypes ==
  ASSUME TypeInv, Quit
  PROVE  TypeInv'
<1> USE DEF TypeInv, deque, smtpVars, imapVars, history
<1>1. inFlight' \in BOOLEAN
  BY DEF Quit, InFlight
<1>2. TypeOK'
  BY <1>1 DEF TypeOK, MainLabels, Quit, MainAt
<1>3. BeginInv' /\ QueueInv'
  BY DEF BeginInv, QueueInv, Filled, Pushing, Quit, MainAt
<1>4. PendingInv' /\ PointerInv'
  BY DEF PendingInv, PointerInv, Running, Quit, MainAt
<1> QED
  BY <1>2, <1>3, <1>4

(* The labels of the main thread once the user interface has ended.        *)
Ending ==
  {"quit", "reset", "waitSmtp", "joinSmtp", "stopProcess", "joinProcess", "stopCache",
   "waitCache", "joinCache", "stopSearch", "joinSearch", "done", "terminated"}

(* What main() does after the user interface.                              *)
LEMMA MainEndsGoesOn ==
  ASSUME TypeInv, MainEnds
  PROVE  /\ main \in Ending /\ main' \in Ending \ {"quit"}
         /\ UNCHANGED <<deque, smtp, action, pc, asked, history>>
         /\ stopped' \subseteq Imap \cup {"smtp"}
         /\ stopped \subseteq stopped'
         /\ imapSet' \in BOOLEAN /\ bytes' \in BOOLEAN
         /\ uploads' \subseteq uploads
         /\ pending' = pending \/ pending' = [pending EXCEPT !["process"] = 0]
<1>1. stopped \subseteq Imap \cup {"smtp"} /\ imapSet \in BOOLEAN /\ bytes \in BOOLEAN
  BY DEF TypeInv, TypeOK
<1>2. CASE ResetImapManager \/ StopSmtp \/ StopCache \/ StopSearch \/ StopProcess
  BY <1>1, <1>2 DEF ResetImapManager, StopSmtp, StopCache, StopSearch, StopProcess, Stop,
                    MainStep, Ending, Imap
<1>3. CASE Notified
  BY <1>1, <1>3 DEF Notified, Told, MainStep, Ending
<1>4. CASE SmtpTimeout \/ CacheTimeout \/ JoinSmtp \/ JoinProcess \/ JoinCache \/ JoinSearch
  BY <1>1, <1>4 DEF SmtpTimeout, CacheTimeout, JoinSmtp, JoinProcess, JoinCache, JoinSearch,
                    Told, MainStep, Ending
<1> QED
  BY <1>2, <1>3, <1>4 DEF MainEnds

LEMMA MainEndsTypes ==
  ASSUME TypeInv, MainEnds
  PROVE  TypeInv'
<1> USE DEF deque, smtpVars, imapVars, history
<1>1. /\ main \in Ending /\ main' \in Ending \ {"quit"}
      /\ UNCHANGED <<deque, smtp, action, pc, asked, history>>
      /\ stopped' \subseteq Imap \cup {"smtp"}
      /\ imapSet' \in BOOLEAN /\ bytes' \in BOOLEAN
      /\ uploads' \subseteq uploads
      /\ pending' = pending \/ pending' = [pending EXCEPT !["process"] = 0]
  BY MainEndsGoesOn
<1>2. \A t \in Imap : pending'[t] = pending[t] \/ pending'[t] = 0
  BY <1>1 DEF TypeInv, TypeOK
<1>3. pending' \in [Imap -> 0 .. MaxRequests] /\ asked \in Nat
  BY <1>1, BoundsAssumption DEF TypeInv, TypeOK
<1>4. TypeOK'
  BY <1>1, <1>3 DEF TypeInv, TypeOK, Ending, MainLabels
<1>5. ~Pushing /\ ~Pushing' /\ main # "constructing" /\ main' # "constructing"
      /\ main' # "pushing" /\ main' # "quit" /\ ~Running'
  BY <1>1 DEF Pushing, Running, Ending
<1>6. BeginInv' /\ QueueInv'
  BY <1>1, <1>5 DEF TypeInv, BeginInv, QueueInv, Filled, Pushing
<1>7. PendingInv'
  BY <1>1, <1>2, <1>3 DEF TypeInv, PendingInv
<1>8. PointerInv'
  BY <1>5 DEF PointerInv
<1> QED
  BY <1>4, <1>6, <1>7, <1>8 DEF TypeInv

(* What the threads of ImapManager do, but for the use of what is no more. *)
LEMMA ImapGoesOn ==
  ASSUME TypeInv,
         \/ \E t \in Imap : Take(t) \/ Answer(t) \/ End(t)
         \/ \E t \in Imap : ImapGoes(t, "answer", "wait") /\ UNCHANGED <<pending, uploads, settled>>
         \/ Upload
  PROVE  TypeInv'
<1> USE DEF deque, smtpVars, imapVars, history
<1>1. ImapStep /\ pc' \in [Imap -> {"wait", "work", "answer", "ended"}]
  BY DEF TypeInv, TypeOK, Take, Answer, End, Upload, ImapGoes
<1>2. uploads' \subseteq uploads /\ settled' \subseteq settled \cup uploads
  BY DEF Take, Answer, End, Upload
<1>3. /\ pending' \in [Imap -> 0 .. MaxRequests]
      /\ \A t \in Imap : pending'[t] <= pending[t]
  <2>1. pending \in [Imap -> 0 .. MaxRequests] /\ \A t \in Imap : pending[t] \in Int
    BY BoundsAssumption DEF TypeInv, TypeOK
  <2>2. ASSUME NEW t \in Imap, Take(t)
        PROVE  /\ pending' \in [Imap -> 0 .. MaxRequests]
               /\ \A r \in Imap : pending'[r] <= pending[r]
    BY <2>1, <2>2, BoundsAssumption DEF Take
  <2>3. CASE pending' = pending
    BY <2>1, <2>3
  <2> QED
    BY <2>2, <2>3 DEF Answer, End, Upload
<1>4. TypeOK'
  BY <1>1, <1>2, <1>3 DEF TypeInv, TypeOK, ImapStep
<1>5. BeginInv' /\ QueueInv' /\ PointerInv'
  BY <1>1 DEF TypeInv, BeginInv, QueueInv, PointerInv, Filled, Pushing, Running, ImapStep
<1>6. PendingInv'
  <2>1. asked' = asked /\ asked \in Int /\ \A t \in Imap : pending[t] \in Int
    BY <1>1, BoundsAssumption DEF TypeInv, TypeOK, ImapStep
  <2>2. \A t \in Imap : pending'[t] \in Int
    BY <1>3, BoundsAssumption
  <2> QED
    BY <1>3, <2>1, <2>2 DEF TypeInv, PendingInv
<1> QED
  BY <1>4, <1>5, <1>6 DEF TypeInv

(* Who uses the pointer of the user interface after it is reset does not   *)
(* do so while anything is pushed.                                         *)
LEMMA ResetAfterPush ==
  ASSUME TypeInv, ~imapSet
  PROVE  ~Pushing /\ ~Running
BY DEF TypeInv, PointerInv, Pushing, Running

LEMMA TypeStep == TypeInv /\ [Next]_vars => TypeInv'
<1> SUFFICES ASSUME TypeInv, [Next]_vars
             PROVE  TypeInv'
  OBVIOUS
<1>1. CASE \E m \in Msgs : AsyncAction(m)
  BY <1>1, AsyncActionTypes
<1>2. CASE PushStart \/ Construct \/ WritePipe
  BY <1>2, PushStartTypes, ConstructTypes, WritePipeTypes
<1>3. CASE AsyncRequest \/ AsyncSearch \/ Quit
  BY <1>3, AskTypes, QuitTypes DEF AsyncRequest, AsyncSearch
<1>4. CASE MainEnds
  BY <1>4, MainEndsTypes
<1>5. CASE Smtp
  <2>1. CASE FrontCrashes
    <3>1. Crash(Pushing) /\ Pushing \in BOOLEAN
      BY <2>1 DEF FrontCrashes, Pushing
    <3> QED
      BY <3>1, CrashTypes
  <2>2. CASE SmtpResultHandler
    <3>1. CASE imapSet
      BY <2>2, <3>1, SmtpResultHandlerTypes
    <3>2. CASE ~imapSet
      <4>1. Crash(FALSE)
        BY <2>2, <3>2 DEF SmtpResultHandler
      <4> QED
        BY <3>2, <4>1, ResetAfterPush, CrashTypes
    <3> QED
      BY <3>1, <3>2
  <2> QED
    BY <1>5, <2>1, <2>2, WakeTypes, QueueTypes, AgainTypes, FrontTypes, PopTypes,
       PerformTypes, ExitTypes DEF Smtp
<1>6. CASE \E t \in Imap : ImapThread(t)
  <2>1. PICK t \in Imap : ImapThread(t)
    BY <1>6
  <2>2. CASE Crash(FALSE) /\ ~imapSet
    BY <2>2, ResetAfterPush, CrashTypes
  <2>3. CASE \/ Take(t) \/ Answer(t) \/ End(t)
             \/ ImapGoes(t, "answer", "wait") /\ UNCHANGED <<pending, uploads, settled>>
    BY <2>3, ImapGoesOn
  <2> QED
    BY <2>1, <2>2, <2>3 DEF ImapThread, Answered
<1>7. CASE Upload
  BY <1>7, ImapGoesOn
<1>8. CASE UNCHANGED vars
  BY <1>8 DEF TypeInv, TypeOK, BeginInv, QueueInv, PendingInv, PointerInv, Filled, Pushing,
              Running, vars, deque, smtpVars, imapVars, history
<1> QED
  BY <1>1, <1>2, <1>3, <1>4, <1>5, <1>6, <1>7, <1>8 DEF Next, Over

(* The begin of the deque stays within its memory, however the unlocked    *)
(* push and the pops interleave; and without an overlap what SmtpManager   *)
(* performs is a message (AsyncAction(), Process()).                       *)
THEOREM TypeCorrect == Spec => []TypeOK
<1>1. TypeInv => TypeOK
  BY DEF TypeInv
<1> QED
  BY InitTypeInv, TypeStep, <1>1, PTL DEF Spec

-----------------------------------------------------------------------------
(* The end.                                                                *)

LEMMA InitEndInv == Init => EndInv
BY DEF Init, EndInv, Running

(* The user interface is there, or what it has left is quiet.              *)
LEMMA UiEnd ==
  ASSUME EndInv,
         \/ \E m \in Msgs : AsyncAction(m)
         \/ PushStart \/ Construct \/ WritePipe
         \/ AsyncRequest \/ AsyncSearch
  PROVE  EndInv'
BY DEF EndInv, Running, AsyncAction, PushStart, Construct, WritePipe, AsyncRequest,
       AsyncSearch, Ask, UiStep, MainAt

LEMMA QuitEnd ==
  ASSUME TypeInv, EndInv, Quit
  PROVE  EndInv'
<1>1. ~Running' /\ main' = "quit" /\ inFlight' = InFlight
  BY DEF Quit, Running
<1>2. ASSUME ~InFlight
      PROVE  Quiet
  <2>1. start = 0 /\ smtp # "front"
    BY <1>2 DEF InFlight, TypeInv, BeginInv
  <2>2. \A t \in {"cache", "search"} : pending[t] = 0
    BY <1>2, BoundsAssumption DEF InFlight, TypeInv, TypeOK, Imap
  <2> QED
    BY <1>2, <2>1, <2>2 DEF InFlight, Quiet
<1>3. Quiet' = Quiet
  BY DEF Quiet, Quit, deque, smtpVars, imapVars
<1> QED
  BY <1>1, <1>2, <1>3 DEF EndInv

(* Nobody keeps a wait of a destructor from ending with the thread.        *)
LEMMA MainEndsEnd ==
  ASSUME TypeInv, EndInv, MainEnds
  PROVE  EndInv'
<1>1. /\ main \in Ending /\ main' \in Ending \ {"quit"}
      /\ UNCHANGED <<deque, smtp, action, pc, asked, history>>
      /\ pending' = pending \/ pending' = [pending EXCEPT !["process"] = 0]
  BY MainEndsGoesOn
<1>2. ~Running /\ ~Running' /\ main' # "crashed"
  BY <1>1 DEF Running, Ending
<1>3. \A t \in {"cache", "search"} : pending'[t] = pending[t]
  BY <1>1 DEF TypeInv, TypeOK, Imap
<1>4. Quiet => Quiet'
  BY <1>1, <1>3 DEF Quiet, deque
<1>5. Quiet => main' # "terminated"
  BY DEF Quiet, MainEnds, ResetImapManager, StopSmtp, Notified, SmtpTimeout, JoinSmtp,
         StopProcess, JoinProcess, StopCache, CacheTimeout, JoinCache, StopSearch,
         JoinSearch, Stop, Told, MainStep
<1> QED
  BY <1>1, <1>2, <1>4, <1>5 DEF EndInv, history

(* A null pointer is used, or an element that is not there, only if        *)
(* something was in flight or has overlapped.                              *)
LEMMA CrashEnd ==
  ASSUME TypeInv, EndInv, NEW overlap \in BOOLEAN, Crash(overlap),
         \/ raced \/ overlap
         \/ ~Running /\ ~Quiet
  PROVE  EndInv'
BY DEF EndInv, Running, Crash

LEMMA FrontCrashesEnd ==
  ASSUME TypeInv, EndInv, FrontCrashes
  PROVE  EndInv'
<1>1. Crash(Pushing) /\ Pushing \in BOOLEAN /\ smtp = "front" /\ start \notin live
  BY DEF FrontCrashes, Pushing, SmtpAt
<1>2. start \in Int /\ start < 0
  BY <1>1, BeginType DEF TypeInv, BeginInv
<1>3. ~raced /\ ~Pushing => start \in live
  BY <1>2 DEF TypeInv, QueueInv, Filled, Pushing
<1> QED
  BY <1>1, <1>3, CrashEnd

LEMMA ResetEnd ==
  ASSUME TypeInv, EndInv, Crash(FALSE), ~imapSet, ~Quiet
  PROVE  EndInv'
BY ResetAfterPush, CrashEnd

(* A thread that is quiet stays so.                                        *)
LEMMA SmtpEnd ==
  ASSUME TypeInv, EndInv,
         \/ Wake \/ Queue \/ Again \/ Front \/ Pop \/ Sent \/ NotSent \/ Exit
         \/ SmtpResultHandler /\ imapSet
  PROVE  EndInv'
<1>1. main' = main /\ inFlight' = inFlight /\ UNCHANGED <<pc, pending>> /\ (raced => raced')
  <2>1. raced \in BOOLEAN
    BY DEF TypeInv, TypeOK
  <2>2. CASE SmtpResultHandler /\ imapSet
    BY <2>1, <2>2 DEF SmtpResultHandler, SmtpStep
  <2>3. CASE Front \/ Pop
    BY <2>1, <2>3 DEF Front, Pop, SmtpStep, Pushing
  <2> QED
    BY <2>1, <2>2, <2>3 DEF Wake, Queue, Again, Sent, NotSent, Exit, SmtpGoes, SmtpStep
<1>2. ASSUME start = 0, smtp \notin {"front", "popping", "perform", "handle"}
      PROVE  start' = 0 /\ smtp' \notin {"front", "popping", "perform", "handle"}
  BY <1>2 DEF Wake, Queue, Again, Front, Pop, Sent, NotSent, Exit, SmtpResultHandler,
         SmtpGoes, SmtpStep, SmtpAt, Loop, deque
<1>3. Quiet => Quiet'
  BY <1>1, <1>2 DEF Quiet
<1> QED
  BY <1>1, <1>3 DEF EndInv, Running

LEMMA ImapEnd ==
  ASSUME TypeInv, EndInv,
         \/ \E t \in Imap : Take(t) \/ Answer(t) \/ End(t)
         \/ \E t \in Imap : ImapGoes(t, "answer", "wait") /\ UNCHANGED <<pending, uploads, settled>>
         \/ Upload
  PROVE  EndInv'
<1>1. UNCHANGED <<main, inFlight, raced, start, smtp>>
  BY DEF Take, Answer, End, Upload, ImapGoes, ImapStep, deque, smtpVars
<1>2. ASSUME Quiet, ~Running
      PROVE  Quiet'
  <2>1. ASSUME NEW t \in Imap, Take(t)
        PROVE  Quiet'
    <3>1. t = "process"
      BY <1>2, <2>1 DEF Quiet, Take, Imap
    <3>2. /\ pc' = [pc EXCEPT !["process"] = "work"]
          /\ pending' = [pending EXCEPT !["process"] = pending["process"] - 1]
      BY <2>1, <3>1 DEF Take, ImapGoes
    <3> QED
      BY <1>1, <1>2, <3>2 DEF Quiet, TypeInv, TypeOK, Imap
  <2>2. ASSUME NEW t \in Imap, Answer(t)
        PROVE  Quiet'
    <3>1. t = "process"
      BY <1>2, <2>2 DEF Quiet, Answer, ImapGoes, Imap
    <3>2. pc' = [pc EXCEPT !["process"] = "wait"] /\ pending' = pending
      BY <1>2, <2>2, <3>1 DEF Answer, ImapGoes
    <3> QED
      BY <1>1, <1>2, <3>2 DEF Quiet, TypeInv, TypeOK, Imap
  <2>3. ASSUME NEW t \in Imap, NEW to \in {"wait", "ended"},
               pc' = [pc EXCEPT ![t] = to], pending' = pending
        PROVE  Quiet'
    BY <1>1, <1>2, <2>3 DEF Quiet, TypeInv, TypeOK, Imap
  <2>4. CASE Upload
    BY <2>3, <2>4 DEF Upload, ImapGoes, Imap
  <2> QED
    BY <2>1, <2>2, <2>3, <2>4 DEF End, ImapGoes
<1> QED
  BY <1>1, <1>2 DEF EndInv, Running

LEMMA EndStep == TypeInv /\ EndInv /\ [Next]_vars => EndInv'
<1> SUFFICES ASSUME TypeInv, EndInv, [Next]_vars
             PROVE  EndInv'
  OBVIOUS
<1>1. CASE \/ \E m \in Msgs : AsyncAction(m)
           \/ PushStart \/ Construct \/ WritePipe
           \/ AsyncRequest \/ AsyncSearch
  BY <1>1, UiEnd
<1>2. CASE Quit
  BY <1>2, QuitEnd
<1>3. CASE MainEnds
  BY <1>3, MainEndsEnd
<1>4. CASE Smtp
  <2>1. CASE SmtpResultHandler /\ ~imapSet
    <3>1. Crash(FALSE) /\ ~Quiet
      BY <2>1 DEF SmtpResultHandler, SmtpAt, Quiet
    <3> QED
      BY <2>1, <3>1, ResetEnd
  <2> QED
    BY <1>4, <2>1, FrontCrashesEnd, SmtpEnd DEF Smtp
<1>5. CASE \E t \in Imap : ImapThread(t)
  <2>1. PICK t \in Imap : ImapThread(t)
    BY <1>5
  <2>2. CASE Crash(FALSE) /\ ~imapSet /\ pc[t] = "answer"
    <3>1. ~Quiet
      BY <2>2 DEF Quiet
    <3> QED
      BY <2>2, <3>1, ResetEnd
  <2>3. CASE \/ Take(t) \/ Answer(t) \/ End(t)
             \/ ImapGoes(t, "answer", "wait") /\ UNCHANGED <<pending, uploads, settled>>
    BY <2>3, ImapEnd
  <2> QED
    BY <2>1, <2>2, <2>3 DEF ImapThread, Answered
<1>6. CASE Upload
  BY <1>6, ImapEnd
<1>7. CASE UNCHANGED vars
  BY <1>7 DEF EndInv, Quiet, Running, vars, deque, smtpVars, imapVars, history
<1> QED
  BY <1>1, <1>2, <1>3, <1>4, <1>5, <1>6, <1>7 DEF Next, Over

(* The program ends of itself if, when the user quits, nothing was sent,   *)
(* searched, read from the cache or answered, and no push has overlapped a *)
(* pop (~SmtpManager(), ~ImapManager(), ResponseHandler()).                *)
THEOREM EndsOfItself == Spec => []CleanEnd
<1>1. EndInv => CleanEnd
  BY DEF EndInv, CleanEnd, Running
<1> QED
  BY InitTypeInv, InitEndInv, TypeStep, EndStep, <1>1, PTL DEF Spec

=============================================================================
