------------------------------ MODULE OutgoingProofs ------------------------------
(***************************************************************************)
(* Theorems on Outgoing: its types, that a message is at one place at a    *)
(* time, that none is dropped, and that none stays behind in a queue.      *)
(***************************************************************************)
EXTENDS Outgoing, OfflineQueueProofs

TypeInv ==
  /\ TypeOK
  /\ IsFiniteSet(outbox)
  /\ IsFiniteSet(draft)

LEMMA InitTypeInv == Init => TypeInv
BY FS_EmptySet, NoMsgAssumption, BoundsAssumption
   DEF Init, TypeInv, TypeOK, UiTypeOK, QueuesTypeOK, Action

LEMMA OutgoingPopTypes ==
  ASSUME TypeInv, NEW p \in Pids
  PROVE  /\ Poppable(outbox, p, Alive) \in SUBSET File
         /\ Remaining(outbox, p, Alive) \in SUBSET File
         /\ IsFiniteSet(Remaining(outbox, p, Alive))
         /\ Poppable(draft, p, Alive) \in SUBSET File
         /\ Remaining(draft, p, Alive) \in SUBSET File
         /\ IsFiniteSet(Remaining(draft, p, Alive))
<1>1. outbox \in SUBSET File /\ draft \in SUBSET File
  BY DEF TypeInv, TypeOK, QueuesTypeOK
<1>2. IsFiniteSet(outbox) /\ IsFiniteSet(draft)
  BY DEF TypeInv
<1> QED
  BY <1>1, <1>2, PopDivides, RemainingFinite

(* What a push into one of the two directories gives.                      *)
LEMMA OutgoingPushTypes ==
  ASSUME TypeInv, NEW p \in Pids, NEW m \in Msgs
  PROVE  /\ Push(outbox, p, m) \in SUBSET File /\ IsFiniteSet(Push(outbox, p, m))
         /\ \E f \in File : f.pid = p /\ f.msg = m /\ Push(outbox, p, m) = outbox \cup {f}
         /\ Push(draft, p, m) \in SUBSET File /\ IsFiniteSet(Push(draft, p, m))
         /\ \E f \in File : f.pid = p /\ f.msg = m /\ Push(draft, p, m) = draft \cup {f}
<1>1. outbox \in SUBSET File /\ draft \in SUBSET File
  BY DEF TypeInv, TypeOK, QueuesTypeOK
<1>2. IsFiniteSet(outbox) /\ IsFiniteSet(draft)
  BY DEF TypeInv
<1>3. \E f \in File : f.pid = p /\ f.msg = m /\ Push(outbox, p, m) = outbox \cup {f}
  BY <1>1, <1>2, PushAdds
<1>4. \E f \in File : f.pid = p /\ f.msg = m /\ Push(draft, p, m) = draft \cup {f}
  BY <1>1, <1>2, PushAdds
<1>5. IsFiniteSet(Push(outbox, p, m)) /\ IsFiniteSet(Push(draft, p, m))
  BY <1>1, <1>2, PushAdds
<1> QED
  BY <1>1, <1>3, <1>4, <1>5

(* A message that the user interface works on.                             *)
LEMMA WorkedOn ==
  ASSUME TypeInv, NEW p \in Pids, ui[p] \in {"send", "queue", "store", "draft", "asking"}
  PROVE  cur[p] \in Msgs
BY NoMsgAssumption DEF TypeInv, TypeOK, UiTypeOK

(* A sequence of one element at most.                                      *)
LEMMA OneElement ==
  ASSUME NEW S, NEW s \in Seq(S), Len(s) <= 1, s # <<>>
  PROVE  /\ Len(s) = 1 /\ 1 \in 1 .. Len(s) /\ Head(s) = s[1] /\ s[1] \in S
         /\ \A e \in S : [s EXCEPT ![1] = e] \in Seq(S) /\ Len([s EXCEPT ![1] = e]) = 1
<1>1. Len(s) = 1 /\ 1 \in 1 .. Len(s) /\ Head(s) = s[1] /\ s[1] \in S
  OBVIOUS
<1>2. s \in [1 .. 1 -> S]
  BY <1>1
<1>3. \A e \in S : [s EXCEPT ![1] = e] = <<e>>
  BY <1>2
<1> QED
  BY <1>1, <1>3

LEMMA SendingTypes ==
  ASSUME TypeInv, NEW p \in Pids, NEW S, NEW e \in Seq(S), Len(e) <= 1,
         S = [action : Action, status : {"started", "ok", "failed"}]
  PROVE  /\ [sending EXCEPT ![p] = e] \in [Pids -> Seq(S)]
         /\ \A q \in Pids : Len([sending EXCEPT ![p] = e][q]) <= 1
<1>1. /\ sending \in [Pids -> Seq(S)]
      /\ \A q \in Pids : Len(sending[q]) <= 1
  BY DEF TypeInv, TypeOK, QueuesTypeOK
<1> QED
  BY <1>1

(* An action in the hands of the thread of SmtpManager.                    *)
LEMMA Sending ==
  ASSUME TypeInv, NEW p \in Pids, sending[p] # <<>>
  PROVE  /\ Len(sending[p]) = 1 /\ 1 \in 1 .. Len(sending[p])
         /\ Head(sending[p]) = sending[p][1]
         /\ sending[p][1] \in [action : Action, status : {"started", "ok", "failed"}]
         /\ Head(sending[p]).action \in Action /\ Head(sending[p]).action.msg \in Msgs
<1> DEFINE S == [action : Action, status : {"started", "ok", "failed"}]
<1>1. sending[p] \in Seq(S) /\ Len(sending[p]) <= 1
  BY DEF TypeInv, TypeOK, QueuesTypeOK
<1> HIDE DEF S
<1>2. /\ Len(sending[p]) = 1 /\ 1 \in 1 .. Len(sending[p])
      /\ Head(sending[p]) = sending[p][1] /\ sending[p][1] \in S
  BY <1>1, OneElement
<1> QED
  BY <1>2 DEF S, Action

(* ... of which the status changes.                                        *)
LEMMA StatusChanges ==
  ASSUME TypeInv, NEW p \in Pids, sending[p] # <<>>, NEW s \in {"ok", "failed"},
         sending' = [sending EXCEPT ![p][1].status = s]
  PROVE  /\ sending' = [sending EXCEPT ![p] =
                          <<[action |-> Head(sending[p]).action, status |-> s]>>]
         /\ sending'[p] = <<[action |-> Head(sending[p]).action, status |-> s]>>
         /\ Head(sending'[p]).action = Head(sending[p]).action
         /\ Head(sending'[p]).status = s
<1> DEFINE S == [action : Action, status : {"started", "ok", "failed"}]
           e == [action |-> Head(sending[p]).action, status |-> s]
<1>1. /\ sending \in [Pids -> Seq(S)] /\ Len(sending[p]) = 1
      /\ sending[p][1] \in S /\ Head(sending[p]) = sending[p][1]
  BY Sending DEF TypeInv, TypeOK, QueuesTypeOK
<1>2. [sending[p][1] EXCEPT !.status = s] = e
  BY <1>1
<1>3. sending' = [sending EXCEPT ![p] = [sending[p] EXCEPT ![1] = e]]
  BY <1>2
<1> HIDE DEF S, e
<1>4. [sending[p] EXCEPT ![1] = e] = <<e>>
  <2>1. sending[p] \in [1 .. 1 -> S]
    BY <1>1
  <2> QED
    BY <2>1
<1>5. sending' = [sending EXCEPT ![p] = <<e>>] /\ sending'[p] = <<e>>
  BY <1>1, <1>3, <1>4
<1>6. Head(sending'[p]) = e
  BY <1>5
<1>7. e.action = Head(sending[p]).action /\ e.status = s
  BY DEF e
<1>8. e = [action |-> Head(sending[p]).action, status |-> s]
  BY DEF e
<1> QED
  BY <1>5, <1>6, <1>7, <1>8

-----------------------------------------------------------------------------
(* Types. *)

LEMMA UiTypePreserved ==
  ASSUME TypeInv, Next
  PROVE  UiTypeOK'
<1> USE NoMsgAssumption
<1> USE DEF TypeInv, TypeOK, UiTypeOK
<1>1. ASSUME NEW p \in Pids,
             \/ Start(p) \/ Connect(p) \/ Disconnect(p) \/ Quit(p) \/ End(p)
      PROVE  UiTypeOK'
  <2>1. CASE End(p)
    <3>1. /\ pipe' = [pipe EXCEPT ![p] = {}]
          /\ todo' = [todo EXCEPT ![p] = {}]
          /\ ui' = [ui EXCEPT ![p] = "idle"]
          /\ cur' = [cur EXCEPT ![p] = NoMsg]
          /\ hand' = [hand EXCEPT ![p] = {}]
      BY <2>1 DEF End
    <3> QED
      BY <3>1 DEF QueuesTypeOK
  <2>2. CASE ~End(p)
    BY <1>1, <2>2 DEF Start, Connect, Disconnect, StatusStep, Quit, uiVars
  <2> QED
    BY <2>1, <2>2
<1>2. ASSUME NEW p \in Pids, NEW m \in Msgs,
             SendMessage(p, m) \/ PostponeMessage(p, m)
      PROVE  UiTypeOK'
  BY <1>2 DEF SendMessage, PostponeMessage, Begin, UiAt, UiStep
<1>3. ASSUME NEW p \in Pids, Send(p) \/ Queue(p) \/ Store(p) \/ QueueDraft(p)
      PROVE  UiTypeOK'
  <2>1. ui[p] \in {"send", "queue", "store", "draft"} /\ Return(p)
        /\ UNCHANGED <<pipe, todo, hand>>
    BY <1>3 DEF Send, Queue, Store, QueueDraft, UiAt
  <2> QED
    BY <2>1 DEF Return
<1>4. ASSUME NEW p \in Pids, Wake(p) \/ Answer(p)
      PROVE  UiTypeOK'
  BY <1>4 DEF Wake, Answer, UiAt, UiStep
<1>5. ASSUME NEW p \in Pids, HandleError(p)
      PROVE  UiTypeOK'
  <2>1. CASE errors[p] = <<>>
    BY <1>5, <2>1 DEF HandleError, UiAt, UiStep, LeftAfterError
  <2>2. CASE errors[p] # <<>>
    <3> DEFINE r == Head(errors[p])
    <3>1. r.msg \in Msgs
      <4>1. errors[p] \in Seq(Action)
        BY DEF QueuesTypeOK
      <4>2. r \in Action
        BY <2>2, <4>1, PopFront
      <4> QED
        BY <4>2 DEF Action
    <3>2. /\ AfterError(r) \in {"store", "asking", "queue", "awake"}
          /\ ui' = [ui EXCEPT ![p] = AfterError(r)]
          /\ cur' = [cur EXCEPT ![p] = IF AfterError(r) = "awake" THEN NoMsg ELSE r.msg]
          /\ todo' = [todo EXCEPT ![p] = @ \ {"error"}]
          /\ ui[p] = "awake"
          /\ UNCHANGED <<pipe, hand>>
      BY <1>5, <2>2 DEF HandleError, UiAt, LeftAfterError, AfterError
    <3> HIDE DEF r
    <3> QED
      BY <3>1, <3>2
  <2> QED
    BY <2>1, <2>2
<1>6. ASSUME NEW p \in Pids, HandleConnected(p) \/ SubmitDraft(p) \/ PopOutbox(p)
                               \/ SubmitOutbox(p)
      PROVE  UiTypeOK'
  <2> USE DEF QueuesTypeOK
  <2>1. CASE HandleConnected(p)
    <3>1. /\ ui[p] = "awake"
          /\ todo' = [todo EXCEPT ![p] = {}]
          /\ UNCHANGED <<pipe, cur>>
          /\ \/ ui' = [ui EXCEPT ![p] = "idle"] /\ UNCHANGED hand
             \/ /\ ui' = [ui EXCEPT ![p] = "drafts"]
                /\ hand' = [hand EXCEPT ![p] = Poppable(draft, p, Alive)]
      BY <2>1, Zenon DEF HandleConnected, UiAt
    <3>2. ui[p] = "awake" /\ cur[p] = NoMsg
      BY <3>1
    <3>3. CASE ui' = [ui EXCEPT ![p] = "idle"] /\ UNCHANGED hand
      BY <3>1, <3>2, <3>3
    <3>4. CASE /\ ui' = [ui EXCEPT ![p] = "drafts"]
               /\ hand' = [hand EXCEPT ![p] = Poppable(draft, p, Alive)]
      BY <3>1, <3>2, <3>4
    <3> QED
      BY <3>1, <3>3, <3>4
  <2>2. CASE SubmitDraft(p)
    BY <2>2 DEF SubmitDraft, UiAt, UiStep
  <2>3. CASE PopOutbox(p)
    BY <2>3 DEF PopOutbox, UiAt, UiStep
  <2>4. CASE SubmitOutbox(p)
    <3>1. ui[p] = "outbox" /\ UNCHANGED <<pipe, todo, cur>>
      BY <2>4 DEF SubmitOutbox, UiAt
    <3>2. CASE hand[p] = {}
      <4>1. ui' = [ui EXCEPT ![p] = "idle"] /\ UNCHANGED hand
        BY <2>4, <3>2 DEF SubmitOutbox
      <4> QED
        BY <3>1, <3>2, <4>1
    <3>3. CASE hand[p] # {}
      <4>1. PICK f \in hand[p] : hand' = [hand EXCEPT ![p] = @ \ {f}]
        BY <2>4, <3>3 DEF SubmitOutbox
      <4>2. UNCHANGED ui
        BY <2>4, <3>3 DEF SubmitOutbox
      <4> QED
        BY <3>1, <4>1, <4>2
    <3> QED
      BY <3>2, <3>3
  <2> QED
    BY <1>6, <2>1, <2>2, <2>3, <2>4
<1>7. ASSUME NEW p \in Pids, SmtpThread(p)
      PROVE  UiTypeOK'
  BY <1>7 DEF SmtpThread, SmtpTake, SmtpOk, SmtpFail, SmtpDone, SmtpError, SmtpStep, uiVars
<1>8. ASSUME NEW p \in Pids, Upload(p)
      PROVE  UiTypeOK'
  BY <1>8 DEF Upload, UploadOk, UploadFailed, UploadStep, uiVars
<1>9. CASE Terminated
  BY <1>9 DEF Terminated, vars, uiVars
<1> QED
  BY <1>1, <1>2, <1>3, <1>4, <1>5, <1>6, <1>7, <1>8, <1>9 DEF Next, UiThread

LEMMA QueuesTypePreserved ==
  ASSUME TypeInv, Next
  PROVE  QueuesTypeOK' /\ IsFiniteSet(outbox)' /\ IsFiniteSet(draft)'
<1> DEFINE Goal == QueuesTypeOK' /\ IsFiniteSet(outbox)' /\ IsFiniteSet(draft)'
       SmtpState == [action : Action, status : {"started", "ok", "failed"}]
<1>a. QueuesTypeOK /\ IsFiniteSet(outbox) /\ IsFiniteSet(draft)
  BY DEF TypeInv, TypeOK
<1>b. ASSUME NEW p \in Pids, NEW e \in Seq(SmtpState), Len(e) <= 1,
             sending' = [sending EXCEPT ![p] = e],
             UNCHANGED <<files, hand, uploads>>,
             smtp' \in [Pids -> Seq(Action)], errors' \in [Pids -> Seq(Action)]
      PROVE  Goal
  <2>1. /\ sending' \in [Pids -> Seq(SmtpState)]
        /\ \A q \in Pids : Len(sending'[q]) <= 1
    BY <1>b, SendingTypes
  <2> QED
    BY <1>a, <1>b, <2>1 DEF QueuesTypeOK, files
<1>c. <<>> \in Seq(SmtpState) /\ Len(<<>>) <= 1
  OBVIOUS
<1>1. ASSUME UNCHANGED <<files, hand, smtpVars, errors, uploads>>
      PROVE  Goal
  BY <1>a, <1>1 DEF QueuesTypeOK, files, smtpVars
<1>2. ASSUME NEW p \in Pids,
             \/ Start(p) \/ Connect(p) \/ Disconnect(p) \/ Quit(p)
             \/ Wake(p) \/ Answer(p)
      PROVE  Goal
  BY <1>1, <1>2 DEF Start, Connect, Disconnect, StatusStep, Quit, Wake, Answer, UiStep,
                    uiVars, smtpVars
<1>3. ASSUME NEW p \in Pids, NEW m \in Msgs,
             SendMessage(p, m) \/ PostponeMessage(p, m)
      PROVE  Goal
  BY <1>1, <1>3 DEF SendMessage, PostponeMessage, Begin, UiStep, smtpVars
<1>4. ASSUME NEW p \in Pids, Send(p)
      PROVE  Goal
  <2>1. [msg |-> cur[p], queued |-> FALSE] \in Action
    BY <1>4, WorkedOn DEF Send, UiAt, Action
  <2>2. <<[msg |-> cur[p], queued |-> FALSE]>> \o smtp[p] \in Seq(Action)
    BY <1>a, <2>1, PushFront DEF QueuesTypeOK
  <2> QED
    BY <1>a, <1>4, <2>2 DEF Send, UiStep, QueuesTypeOK, files
<1>5. ASSUME NEW p \in Pids, Queue(p)
      PROVE  Goal
  <2>1. outbox' \in SUBSET File /\ IsFiniteSet(outbox')
    BY <1>5, WorkedOn, OutgoingPushTypes DEF Queue, UiAt
  <2> QED
    BY <1>a, <1>5, <2>1 DEF Queue, UiStep, QueuesTypeOK
<1>6. ASSUME NEW p \in Pids, Store(p)
      PROVE  Goal
  <2>1. <<cur[p]>> \o uploads[p] \in Seq(Msgs)
    BY <1>a, <1>6, WorkedOn, PushFront DEF QueuesTypeOK, Store, UiAt
  <2> QED
    BY <1>a, <1>6, <2>1 DEF Store, UiStep, QueuesTypeOK, files, smtpVars
<1>7. ASSUME NEW p \in Pids, QueueDraft(p)
      PROVE  Goal
  <2>1. draft' \in SUBSET File /\ IsFiniteSet(draft')
    BY <1>7, WorkedOn, OutgoingPushTypes DEF QueueDraft, UiAt
  <2> QED
    BY <1>a, <1>7, <2>1 DEF QueueDraft, UiStep, QueuesTypeOK
<1>8. ASSUME NEW p \in Pids, HandleError(p)
      PROVE  Goal
  <2>1. errors' \in [Pids -> Seq(Action)]
    <3>1. CASE errors[p] = <<>>
      BY <1>a, <1>8, <3>1 DEF HandleError, QueuesTypeOK
    <3>2. CASE errors[p] # <<>>
      <4>1. Tail(errors[p]) \in Seq(Action)
        BY <1>a, <3>2, PopFront DEF QueuesTypeOK
      <4> QED
        BY <1>a, <1>8, <3>2, <4>1 DEF HandleError, QueuesTypeOK
    <3> QED
      BY <3>1, <3>2
  <2> QED
    BY <1>a, <1>8, <2>1 DEF HandleError, UiStep, QueuesTypeOK, files
<1>9. ASSUME NEW p \in Pids, HandleConnected(p)
      PROVE  Goal
  <2>1. \/ UNCHANGED <<hand, draft>>
        \/ /\ hand' = [hand EXCEPT ![p] = Poppable(draft, p, Alive)]
           /\ draft' = Remaining(draft, p, Alive)
    BY <1>9, Zenon DEF HandleConnected
  <2>2. /\ hand' \in [Pids -> SUBSET File]
        /\ draft' \in SUBSET File /\ IsFiniteSet(draft')
    BY <1>a, <2>1, OutgoingPopTypes DEF QueuesTypeOK
  <2> QED
    BY <1>a, <1>9, <2>2 DEF HandleConnected, UiStep, QueuesTypeOK
<1>10. ASSUME NEW p \in Pids, SubmitDraft(p)
       PROVE  Goal
  <2>1. PICK f \in hand[p] : /\ hand' = [hand EXCEPT ![p] = @ \ {f}]
                             /\ uploads' = [uploads EXCEPT ![p] = <<f.msg>> \o @]
    BY <1>10 DEF SubmitDraft
  <2>2. <<f.msg>> \o uploads[p] \in Seq(Msgs)
    BY <1>a, PushFront DEF QueuesTypeOK, File
  <2> QED
    BY <1>a, <1>10, <2>1, <2>2 DEF SubmitDraft, UiStep, QueuesTypeOK, files
<1>11. ASSUME NEW p \in Pids, PopOutbox(p)
       PROVE  Goal
  <2>1. /\ hand' \in [Pids -> SUBSET File]
        /\ outbox' \in SUBSET File /\ IsFiniteSet(outbox')
    BY <1>a, <1>11, OutgoingPopTypes DEF PopOutbox, QueuesTypeOK
  <2> QED
    BY <1>a, <1>11, <2>1 DEF PopOutbox, UiStep, QueuesTypeOK
<1>12. ASSUME NEW p \in Pids, SubmitOutbox(p)
       PROVE  Goal
  <2>1. CASE hand[p] = {}
    BY <1>1, <1>12, <2>1 DEF SubmitOutbox, UiStep, smtpVars
  <2>2. CASE hand[p] # {}
    <3>1. PICK f \in hand[p] :
            /\ hand' = [hand EXCEPT ![p] = @ \ {f}]
            /\ smtp' = [smtp EXCEPT ![p] = <<[msg |-> f.msg, queued |-> TRUE]>> \o @]
      BY <1>12, <2>2 DEF SubmitOutbox
    <3>2. [msg |-> f.msg, queued |-> TRUE] \in Action
      BY <1>a DEF QueuesTypeOK, File, Action
    <3>3. <<[msg |-> f.msg, queued |-> TRUE]>> \o smtp[p] \in Seq(Action)
      BY <1>a, <3>2, PushFront DEF QueuesTypeOK
    <3> QED
      BY <1>a, <1>12, <3>1, <3>3 DEF SubmitOutbox, UiStep, QueuesTypeOK, files
  <2> QED
    BY <2>1, <2>2
<1>13. ASSUME NEW p \in Pids, SmtpTake(p)
       PROVE  Goal
  <2>1. /\ Head(smtp[p]) \in Action
        /\ Tail(smtp[p]) \in Seq(Action)
    BY <1>a, <1>13, PopFront DEF SmtpTake, QueuesTypeOK
  <2>2. [action |-> Head(smtp[p]), status |-> "started"] \in SmtpState
    BY <2>1
  <2>3. smtp' \in [Pids -> Seq(Action)] /\ errors' \in [Pids -> Seq(Action)]
    BY <1>a, <1>13, <2>1 DEF SmtpTake, QueuesTypeOK
  <2> HIDE DEF SmtpState
  <2>4. /\ <<[action |-> Head(smtp[p]), status |-> "started"]>> \in Seq(SmtpState)
        /\ Len(<<[action |-> Head(smtp[p]), status |-> "started"]>>) <= 1
    BY <2>2
  <2> QED
    BY <1>b, <1>13, <2>3, <2>4 DEF SmtpTake, SmtpStep, uiVars
<1>14. ASSUME NEW p \in Pids, NEW s \in {"ok", "failed"}, sending[p] # <<>>,
              sending' = [sending EXCEPT ![p][1].status = s],
              UNCHANGED <<files, hand, smtp, errors, uploads>>
       PROVE  Goal
  <2> DEFINE e == [sending[p][1] EXCEPT !.status = s]
  <2>1. sending[p] \in Seq(SmtpState) /\ Len(sending[p]) <= 1
    BY <1>a DEF QueuesTypeOK
  <2>2. e \in SmtpState
    BY <1>14, Sending
  <2>3. sending' = [sending EXCEPT ![p] = [sending[p] EXCEPT ![1] = e]]
    BY <1>14
  <2>4. smtp' \in [Pids -> Seq(Action)] /\ errors' \in [Pids -> Seq(Action)]
    BY <1>a, <1>14 DEF QueuesTypeOK
  <2> HIDE DEF SmtpState, e
  <2>5. /\ [sending[p] EXCEPT ![1] = e] \in Seq(SmtpState)
        /\ Len([sending[p] EXCEPT ![1] = e]) <= 1
    BY <1>14, <2>1, <2>2, OneElement
  <2> QED
    BY <1>b, <1>14, <2>3, <2>4, <2>5
<1>15. ASSUME NEW p \in Pids, SmtpOk(p) \/ SmtpFail(p)
       PROVE  Goal
  BY <1>14, <1>15 DEF SmtpOk, SmtpFail, SmtpAt, SmtpStep, uiVars
<1>16. ASSUME NEW p \in Pids, SmtpDone(p)
       PROVE  Goal
  <2>1. smtp' \in [Pids -> Seq(Action)] /\ errors' \in [Pids -> Seq(Action)]
    BY <1>a, <1>16 DEF SmtpDone, QueuesTypeOK
  <2> HIDE DEF SmtpState
  <2> QED
    BY <1>b, <1>c, <1>16, <2>1 DEF SmtpDone, SmtpStep, uiVars
<1>17. ASSUME NEW p \in Pids, SmtpError(p)
       PROVE  Goal
  <2>1. Append(errors[p], Head(sending[p]).action) \in Seq(Action)
    BY <1>a, <1>17, Sending, PushBack DEF SmtpError, SmtpAt, QueuesTypeOK
  <2>2. smtp' \in [Pids -> Seq(Action)] /\ errors' \in [Pids -> Seq(Action)]
    BY <1>a, <1>17, <2>1 DEF SmtpError, QueuesTypeOK
  <2> HIDE DEF SmtpState
  <2> QED
    BY <1>b, <1>c, <1>17, <2>2 DEF SmtpError, SmtpStep, uiVars
<1>18. ASSUME NEW p \in Pids, UploadOk(p)
       PROVE  Goal
  <2>1. Tail(uploads[p]) \in Seq(Msgs)
    BY <1>a, <1>18, PopFront DEF UploadOk, QueuesTypeOK
  <2> QED
    BY <1>a, <1>18, <2>1 DEF UploadOk, UploadStep, QueuesTypeOK, uiVars, smtpVars
<1>19. ASSUME NEW p \in Pids, UploadFailed(p)
       PROVE  Goal
  <2>1. Head(uploads[p]) \in Msgs /\ Tail(uploads[p]) \in Seq(Msgs)
    BY <1>a, <1>19, PopFront DEF UploadFailed, QueuesTypeOK
  <2>2. draft' \in SUBSET File /\ IsFiniteSet(draft')
    BY <1>19, <2>1, OutgoingPushTypes DEF UploadFailed
  <2> QED
    BY <1>a, <1>19, <2>1, <2>2 DEF UploadFailed, UploadStep, QueuesTypeOK, uiVars, smtpVars
<1>20. ASSUME NEW p \in Pids, End(p)
       PROVE  Goal
  <2>1. /\ sending' \in [Pids -> Seq(SmtpState)]
        /\ \A q \in Pids : Len(sending'[q]) <= 1
    BY <1>a, <1>c, <1>20, SendingTypes DEF End
  <2>2. /\ hand' \in [Pids -> SUBSET File]
        /\ smtp' \in [Pids -> Seq(Action)] /\ errors' \in [Pids -> Seq(Action)]
        /\ uploads' \in [Pids -> Seq(Msgs)]
    BY <1>a, <1>20 DEF End, QueuesTypeOK
  <2> QED
    BY <1>a, <1>20, <2>1, <2>2 DEF End, QueuesTypeOK, files
<1>21. CASE Terminated
  BY <1>1, <1>21 DEF Terminated, vars, uiVars
<1> QED
  BY <1>2, <1>3, <1>4, <1>5, <1>6, <1>7, <1>8, <1>9, <1>10, <1>11, <1>12, <1>13, <1>15,
     <1>16, <1>17, <1>18, <1>19, <1>20, <1>21 DEF Next, UiThread, SmtpThread, Upload

LEMMA RestTypePreserved ==
  ASSUME TypeInv, Next
  PROVE  /\ proc' \in [Pids -> {"new", "running", "quitting", "dead"}]
         /\ readOnly' \in [Pids -> BOOLEAN]
         /\ connected' \in [Pids -> BOOLEAN]
         /\ {accepted, settled, failed, gone}' \subseteq SUBSET Msgs
         /\ drops' \in 0 .. MaxDrops
         /\ failures' \in 0 .. MaxFailures
<1> DEFINE Goal ==
      /\ proc' \in [Pids -> {"new", "running", "quitting", "dead"}]
      /\ readOnly' \in [Pids -> BOOLEAN]
      /\ connected' \in [Pids -> BOOLEAN]
      /\ {accepted, settled, failed, gone}' \subseteq SUBSET Msgs
      /\ drops' \in 0 .. MaxDrops
      /\ failures' \in 0 .. MaxFailures
<1> USE BoundsAssumption
<1> USE DEF TypeInv, TypeOK
<1>1. ASSUME NEW p \in Pids,
             \/ Start(p) \/ Connect(p) \/ Disconnect(p) \/ Quit(p)
      PROVE  Goal
  <2>1. UNCHANGED <<history, failures>> /\ drops' \in 0 .. MaxDrops
    BY <1>1 DEF Start, Connect, Disconnect, StatusStep, Quit, bounds
  <2>2. /\ proc' \in [Pids -> {"new", "running", "quitting", "dead"}]
        /\ readOnly' \in [Pids -> BOOLEAN]
        /\ connected' \in [Pids -> BOOLEAN]
    BY <1>1 DEF Start, Connect, Disconnect, StatusStep, Quit, procs
  <2> QED
    BY <2>1, <2>2 DEF history
<1>2. ASSUME NEW p \in Pids, NEW m \in Msgs, SendMessage(p, m) \/ PostponeMessage(p, m)
      PROVE  Goal
  BY <1>2 DEF SendMessage, PostponeMessage, Begin, UiStep, procs, bounds
<1>3. ASSUME NEW p \in Pids, UiThread(p)
      PROVE  Goal
  <2>1. UNCHANGED <<procs, connected, settled, failed, gone, bounds, accepted>>
    BY <1>3 DEF UiThread, Send, Queue, Store, QueueDraft, Wake, HandleError, Answer,
                HandleConnected, SubmitDraft, PopOutbox, SubmitOutbox, UiStep
  <2> QED
    BY <2>1 DEF procs, bounds
<1>4. ASSUME NEW p \in Pids, SmtpTake(p) \/ SmtpDone(p) \/ SmtpError(p)
      PROVE  Goal
  BY <1>4 DEF SmtpTake, SmtpDone, SmtpError, SmtpStep, procs
<1>5. ASSUME NEW p \in Pids, SmtpOk(p) \/ SmtpFail(p)
      PROVE  Goal
  <2>1. Head(sending[p]).action.msg \in Msgs
    BY <1>5, Sending DEF SmtpOk, SmtpFail, SmtpAt
  <2>2. settled' \in SUBSET Msgs /\ failed' \in SUBSET Msgs
    BY <1>5, <2>1 DEF SmtpOk, SmtpFail
  <2>3. failures' \in 0 .. MaxFailures
    BY <1>5 DEF SmtpOk, SmtpFail
  <2> QED
    BY <1>5, <2>2, <2>3 DEF SmtpOk, SmtpFail, SmtpStep, procs
<1>6. ASSUME NEW p \in Pids, Upload(p)
      PROVE  Goal
  <2>1. Head(uploads[p]) \in Msgs
    BY <1>6, PopFront DEF Upload, UploadOk, UploadFailed, QueuesTypeOK
  <2>2. settled' \in SUBSET Msgs /\ failed' \in SUBSET Msgs
    BY <1>6, <2>1 DEF Upload, UploadOk, UploadFailed
  <2>3. failures' \in 0 .. MaxFailures
    BY <1>6 DEF Upload, UploadOk, UploadFailed
  <2> QED
    BY <1>6, <2>2, <2>3 DEF Upload, UploadOk, UploadFailed, UploadStep, procs
<1>7. ASSUME NEW p \in Pids, End(p)
      PROVE  Goal
  <2>1. InMemory(p) \subseteq Msgs
    <3>1. ({cur[p]} \ {NoMsg}) \cup {f.msg : f \in hand[p]} \subseteq Msgs
      BY DEF UiTypeOK, QueuesTypeOK, File
    <3>2. \A k \in 1 .. Len(smtp[p]) : smtp[p][k].msg \in Msgs
      <4>1. \A k \in 1 .. Len(smtp[p]) : smtp[p][k] \in Action
        BY DEF QueuesTypeOK
      <4> QED
        BY <4>1 DEF Action
    <3>3. \A k \in 1 .. Len(errors[p]) : errors[p][k].msg \in Msgs
      <4>1. \A k \in 1 .. Len(errors[p]) : errors[p][k] \in Action
        BY DEF QueuesTypeOK
      <4> QED
        BY <4>1 DEF Action
    <3>4. \A k \in 1 .. Len(uploads[p]) : uploads[p][k] \in Msgs
      BY DEF QueuesTypeOK
    <3>5. \A k \in 1 .. Len(sending[p]) : sending[p][k].action.msg \in Msgs
      <4>1. \A k \in 1 .. Len(sending[p]) : k = 1 /\ sending[p] # <<>>
        BY DEF QueuesTypeOK
      <4>2. sending[p] # <<>> => sending[p][1].action.msg \in Msgs
        BY Sending
      <4> QED
        BY <4>1, <4>2
    <3> QED
      BY <3>1, <3>2, <3>3, <3>4, <3>5 DEF InMemory
  <2> QED
    BY <1>7, <2>1 DEF End
<1>8. CASE Terminated
  BY <1>8 DEF Terminated, vars, procs, history, bounds
<1> HIDE DEF Goal
<1> QED
  BY <1>1, <1>2, <1>3, <1>4, <1>5, <1>6, <1>7, <1>8 DEF Next, SmtpThread, Goal

LEMMA TypeInvPreserved == TypeInv /\ [Next]_vars => TypeInv'
<1>1. ASSUME TypeInv, Next
      PROVE  TypeInv'
  BY <1>1, UiTypePreserved, QueuesTypePreserved, RestTypePreserved DEF TypeInv, TypeOK
<1>2. ASSUME TypeInv, UNCHANGED vars
      PROVE  TypeInv'
  BY <1>2 DEF TypeInv, TypeOK, UiTypeOK, QueuesTypeOK, vars, files, procs, uiVars, smtpVars,
              history, bounds
<1> QED
  BY <1>1, <1>2

(* Every variable keeps its type, and the labels of the user interface say *)
(* what it holds (ui.cpp, smtpmanager.cpp, offlinequeue.cpp).              *)
THEOREM TypeCorrect == Spec => []TypeOK
<1>1. TypeInv => TypeOK
  BY DEF TypeInv
<1> QED
  BY InitTypeInv, TypeInvPreserved, <1>1, PTL DEF Spec

-----------------------------------------------------------------------------
(* Messages are not stranded.  The user interface looks at the connection  *)
(* before it queues a message: when the connection comes up in between,    *)
(* the request that tells it so is still in the pipe.                      *)

(* What has come back from a try to send it has failed.                    *)
ReturnedFailed ==
  \A p \in Pids :
    /\ \A k \in 1 .. Len(errors[p]) : errors[p][k].msg \in failed
    /\ SmtpAt(p, "failed") => Head(sending[p]).action.msg \in failed
    /\ ui[p] = "asking" => cur[p] \in failed

QueueingSeen ==
  \A p \in Pids :
    ui[p] \in {"queue", "draft"} /\ connected[p] /\ cur[p] \notin failed
      => "connected" \in pipe[p]

(* A process with a file that it should have sent.                         *)
Waits(f) == connected[f.pid] /\ ~readOnly[f.pid] /\ f.msg \notin failed

Told(p) == "connected" \in pipe[p] \cup todo[p]

FilesSeen ==
  /\ \A f \in draft : Waits(f) => Told(f.pid)
  /\ \A f \in outbox : Waits(f) => Told(f.pid) \/ ui[f.pid] = "drafts"

ConnectionInv ==
  /\ QueueingSeen
  /\ FilesSeen
  /\ \A p \in Pids : proc[p] = "new" => ~connected[p]

(* Steps of the user interface leave the process itself alone.             *)
LEMMA UiFrame ==
  ASSUME NEW p \in Pids, UiThread(p)
  PROVE  UNCHANGED <<proc, readOnly, connected, sending, accepted, settled, failed, gone>>
BY DEF UiThread, Send, Queue, Store, QueueDraft, Wake, HandleError, Answer, HandleConnected,
       SubmitDraft, PopOutbox, SubmitOutbox, UiStep, procs

LEMMA ReturnedFailedPreserved ==
  ASSUME TypeInv, ReturnedFailed, Next
  PROVE  ReturnedFailed'
<1> USE DEF TypeInv, TypeOK, UiTypeOK
<1>0. ASSUME failed \subseteq failed', UNCHANGED <<errors, sending>>,
             \A p \in Pids : ui'[p] = "asking" => ui[p] = "asking" /\ cur'[p] = cur[p]
      PROVE  ReturnedFailed'
  BY <1>0 DEF ReturnedFailed, SmtpAt
<1>1. ASSUME NEW p \in Pids, Start(p) \/ Connect(p) \/ Disconnect(p) \/ Quit(p) \/ Upload(p)
      PROVE  ReturnedFailed'
  <2>1. failed \subseteq failed' /\ UNCHANGED <<errors, uiVars, smtpVars>>
    BY <1>1 DEF Start, Connect, Disconnect, StatusStep, Quit, Upload, UploadOk, UploadFailed,
                UploadStep, history
  <2> QED
    BY <1>0, <2>1 DEF uiVars, smtpVars
<1>2. ASSUME NEW p \in Pids, NEW m \in Msgs, SendMessage(p, m) \/ PostponeMessage(p, m)
      PROVE  ReturnedFailed'
  BY <1>0, <1>2 DEF SendMessage, PostponeMessage, Begin, UiAt, UiStep
<1>3. ASSUME NEW p \in Pids, UiThread(p), ~HandleError(p)
      PROVE  ReturnedFailed'
  <2>1. /\ UNCHANGED <<errors, sending, failed>>
        /\ \A q \in Pids : ui'[q] # "asking" \/ (ui'[q] = ui[q] /\ cur'[q] = cur[q])
    <3>1. CASE Send(p) \/ Queue(p) \/ Store(p) \/ QueueDraft(p)
      BY <3>1 DEF Send, Queue, Store, QueueDraft, Return, UiStep
    <3>2. CASE Wake(p) \/ Answer(p)
      BY <3>2 DEF Wake, Answer, UiStep
    <3>3. CASE HandleConnected(p)
      <4>1. UNCHANGED <<cur, errors>> /\ ui'[p] # "asking"
            /\ \A q \in Pids : q # p => ui'[q] = ui[q]
        BY <3>3 DEF HandleConnected
      <4> QED
        BY <3>3, <4>1 DEF HandleConnected, UiStep
    <3>4. CASE SubmitDraft(p) \/ PopOutbox(p) \/ SubmitOutbox(p)
      <4>1. /\ UNCHANGED <<cur, errors>>
            /\ ui' = ui \/ ui' = [ui EXCEPT ![p] = "outbox"] \/ ui' = [ui EXCEPT ![p] = "idle"]
        BY <3>4, Zenon DEF SubmitDraft, PopOutbox, SubmitOutbox
      <4> QED
        BY <3>4, <4>1 DEF SubmitDraft, PopOutbox, SubmitOutbox, UiStep
    <3> QED
      BY <1>3, <3>1, <3>2, <3>3, <3>4 DEF UiThread
  <2> QED
    BY <1>0, <2>1
<1>4. ASSUME NEW p \in Pids, HandleError(p)
      PROVE  ReturnedFailed'
  <2>1. CASE errors[p] = <<>>
    BY <1>0, <1>4, <2>1 DEF HandleError, UiStep
  <2>2. CASE errors[p] # <<>>
    <3> DEFINE r == Head(errors[p])
    <3>1. /\ r = errors[p][1] /\ 1 \in 1 .. Len(errors[p])
          /\ \A k \in 1 .. Len(Tail(errors[p])) :
               k + 1 \in 1 .. Len(errors[p]) /\ Tail(errors[p])[k] = errors[p][k + 1]
      BY <2>2, PopFront DEF QueuesTypeOK
    <3>2. r.msg \in failed /\ \A k \in 1 .. Len(Tail(errors[p])) :
                                Tail(errors[p])[k].msg \in failed
      BY <3>1 DEF ReturnedFailed
    <3>3. /\ errors' = [errors EXCEPT ![p] = Tail(@)]
          /\ ui' = [ui EXCEPT ![p] = AfterError(r)]
          /\ cur' = [cur EXCEPT ![p] = IF AfterError(r) = "awake" THEN NoMsg ELSE r.msg]
          /\ UNCHANGED <<sending, failed>>
      BY <1>4, <2>2 DEF HandleError, UiStep
    <3>4. errors \in [Pids -> Seq(Action)]
      BY DEF QueuesTypeOK
    <3> HIDE DEF r
    <3>5. \A q \in Pids : \A k \in 1 .. Len(errors'[q]) : errors'[q][k].msg \in failed
      BY <3>2, <3>3, <3>4 DEF ReturnedFailed
    <3>6. \A q \in Pids : ui'[q] = "asking" => cur'[q] \in failed
      BY <3>2, <3>3 DEF ReturnedFailed
    <3> QED
      BY <3>3, <3>5, <3>6 DEF ReturnedFailed, SmtpAt
  <2> QED
    BY <2>1, <2>2
<1>5. ASSUME NEW p \in Pids, SmtpThread(p)
      PROVE  ReturnedFailed'
  <2> USE DEF QueuesTypeOK
  <2>0. /\ UNCHANGED <<ui, cur>>
        /\ failed \subseteq failed'
        /\ \A q \in Pids : q # p => sending'[q] = sending[q] /\ errors'[q] = errors[q]
    BY <1>5 DEF SmtpThread, SmtpTake, SmtpOk, SmtpFail, SmtpDone, SmtpError, SmtpStep, uiVars
  <2>1. ASSUME \A k \in 1 .. Len(errors'[p]) : errors'[p][k].msg \in failed',
               SmtpAt(p, "failed")' => Head(sending'[p]).action.msg \in failed'
        PROVE  ReturnedFailed'
    BY <2>0, <2>1 DEF ReturnedFailed, SmtpAt
  <2>2. CASE SmtpTake(p)
    <3>1. sending'[p] = <<[action |-> Head(smtp[p]), status |-> "started"]>>
          /\ errors' = errors /\ failed' = failed
      BY <2>2 DEF SmtpTake
    <3>2. ~SmtpAt(p, "failed")'
      BY <3>1 DEF SmtpAt
    <3> QED
      BY <2>1, <3>1, <3>2 DEF ReturnedFailed
  <2>3. CASE SmtpOk(p) \/ SmtpFail(p)
    <3>1. /\ sending[p] # <<>> /\ Head(sending[p]) = sending[p][1]
          /\ \E s \in {"ok", "failed"} :
               /\ sending' = [sending EXCEPT ![p][1].status = s]
               /\ s = "failed" => Head(sending[p]).action.msg \in failed'
          /\ errors' = errors
      BY <2>3, Sending DEF SmtpOk, SmtpFail, SmtpAt
    <3>2. PICK s \in {"ok", "failed"} :
                  /\ sending' = [sending EXCEPT ![p][1].status = s]
                  /\ s = "failed" => Head(sending[p]).action.msg \in failed'
      BY <3>1
    <3>3. Head(sending'[p]).status = s /\ Head(sending'[p]).action = Head(sending[p]).action
      BY <3>1, <3>2, StatusChanges
    <3> QED
      BY <2>0, <2>1, <3>1, <3>2, <3>3 DEF ReturnedFailed, SmtpAt
  <2>4. CASE SmtpDone(p)
    BY <2>1, <2>4 DEF SmtpDone, ReturnedFailed, SmtpAt
  <2>5. CASE SmtpError(p)
    <3>1. Head(sending[p]).action \in Action /\ Head(sending[p]).action.msg \in failed
      BY <2>5, Sending DEF SmtpError, SmtpAt, ReturnedFailed
    <3>2. /\ errors'[p] = Append(errors[p], Head(sending[p]).action)
          /\ sending'[p] = <<>> /\ failed' = failed
      BY <2>5 DEF SmtpError
    <3>3. \A k \in 1 .. Len(errors'[p]) :
            \/ errors'[p][k] = Head(sending[p]).action
            \/ k \in 1 .. Len(errors[p]) /\ errors'[p][k] = errors[p][k]
      BY <3>1, <3>2, PushBack
    <3> QED
      BY <2>1, <3>1, <3>2, <3>3 DEF ReturnedFailed, SmtpAt
  <2> QED
    BY <1>5, <2>2, <2>3, <2>4, <2>5 DEF SmtpThread
<1>6. ASSUME NEW p \in Pids, End(p)
      PROVE  ReturnedFailed'
  <2>1. /\ sending' = [sending EXCEPT ![p] = <<>>]
        /\ errors' = [errors EXCEPT ![p] = <<>>]
        /\ ui' = [ui EXCEPT ![p] = "idle"]
        /\ cur' = [cur EXCEPT ![p] = NoMsg]
        /\ UNCHANGED failed
    BY <1>6 DEF End
  <2>2. \A q \in Pids : errors'[q] = <<>> \/ errors'[q] = errors[q]
    BY <2>1 DEF QueuesTypeOK
  <2>3. \A q \in Pids : sending'[q] = <<>> \/ sending'[q] = sending[q]
    BY <2>1 DEF QueuesTypeOK
  <2>4. \A q \in Pids : ui'[q] # "asking" \/ (ui'[q] = ui[q] /\ cur'[q] = cur[q])
    BY <2>1
  <2> QED
    BY <2>1, <2>2, <2>3, <2>4 DEF ReturnedFailed, SmtpAt
<1>7. CASE Terminated
  BY <1>0, <1>7 DEF Terminated, vars, uiVars, smtpVars, history
<1> QED
  BY <1>1, <1>2, <1>3, <1>4, <1>5, <1>6, <1>7 DEF Next

(* Steps that take no message from or to a directory, and leave the label  *)
(* of the user interface alone.                                            *)
LEMMA ConnectionKept ==
  ASSUME TypeInv, ConnectionInv, failed \subseteq failed', UNCHANGED <<files, todo, ui, cur>>,
         \A p \in Pids :
           /\ pipe[p] \subseteq pipe'[p]
           /\ connected'[p] => \/ "connected" \in pipe'[p]
                               \/ connected[p] /\ readOnly'[p] = readOnly[p]
           /\ proc'[p] = "new" => ~connected'[p]
  PROVE  ConnectionInv'
<1> USE DEF TypeInv, TypeOK, ConnectionInv
<1>1. QueueingSeen'
  BY DEF QueueingSeen
<1>2. \A f \in draft \cup outbox : f.pid \in Pids
  BY DEF QueuesTypeOK, File
<1>3. FilesSeen'
  BY <1>2 DEF FilesSeen, Waits, Told, files
<1> QED
  BY <1>1, <1>3

(* Steps of the user interface, which do not touch the connection.         *)
LEMMA ConnectionUi ==
  ASSUME TypeInv, ReturnedFailed, ConnectionInv, NEW p \in Pids, UiThread(p)
  PROVE  ConnectionInv'
<1> USE DEF TypeInv, TypeOK, UiTypeOK, ConnectionInv
<1>1. UNCHANGED <<proc, readOnly, connected, failed>>
  BY UiFrame
<1>2. \A f \in draft \cup outbox : f.pid \in Pids
  BY DEF QueuesTypeOK, File
<1>3. CASE Send(p) \/ Queue(p) \/ Store(p) \/ QueueDraft(p)
  <2>1. /\ ui[p] \in {"send", "queue", "store", "draft"}
        /\ ui' = [ui EXCEPT ![p] = IF todo[p] = {} THEN "idle" ELSE "awake"]
        /\ cur' = [cur EXCEPT ![p] = NoMsg]
        /\ UNCHANGED <<pipe, todo>>
    BY <1>3 DEF Send, Queue, Store, QueueDraft, UiAt, Return
  <2>2. QueueingSeen'
    BY <1>1, <2>1 DEF QueueingSeen
  <2>3. ui[p] \in {"queue", "draft"} /\ connected[p] /\ cur[p] \notin failed => Told(p)
    BY DEF QueueingSeen, Told
  <2>4. /\ \A f \in draft' : f \in draft \/ (ui[p] = "draft" /\ f.pid = p /\ f.msg = cur[p])
        /\ \A f \in outbox' : f \in outbox \/ (ui[p] = "queue" /\ f.pid = p /\ f.msg = cur[p])
    <3>1. CASE Send(p) \/ Store(p)
      BY <3>1 DEF Send, Store, files
    <3>2. CASE Queue(p)
      <4>1. cur[p] \in Msgs /\ ui[p] = "queue"
        BY <3>2, WorkedOn DEF Queue, UiAt
      <4>2. PICK f : f.pid = p /\ f.msg = cur[p] /\ Push(outbox, p, cur[p]) = outbox \cup {f}
        BY <4>1, OutgoingPushTypes
      <4> QED
        BY <3>2, <4>1, <4>2 DEF Queue
    <3>3. CASE QueueDraft(p)
      <4>1. cur[p] \in Msgs /\ ui[p] = "draft"
        BY <3>3, WorkedOn DEF QueueDraft, UiAt
      <4>2. PICK f : f.pid = p /\ f.msg = cur[p] /\ Push(draft, p, cur[p]) = draft \cup {f}
        BY <4>1, OutgoingPushTypes
      <4> QED
        BY <3>3, <4>1, <4>2 DEF QueueDraft
    <3> QED
      BY <1>3, <3>1, <3>2, <3>3
  <2>5. FilesSeen'
    BY <1>1, <1>2, <2>1, <2>3, <2>4 DEF FilesSeen, Waits, Told
  <2> QED
    BY <1>1, <2>2, <2>5
<1>4. CASE Wake(p)
  <2>1. /\ todo[p] = {} /\ ui[p] = "idle"
        /\ todo' = [todo EXCEPT ![p] = pipe[p]]
        /\ pipe' = [pipe EXCEPT ![p] = {}]
        /\ ui' = [ui EXCEPT ![p] = "awake"]
        /\ UNCHANGED <<files, cur>>
    BY <1>4 DEF Wake, UiAt
  <2>2. \A q \in Pids : Told(q)' <=> Told(q)
    BY <2>1 DEF Told
  <2>3. QueueingSeen'
    BY <1>1, <2>1 DEF QueueingSeen
  <2>4. FilesSeen'
    BY <1>1, <1>2, <2>1, <2>2 DEF FilesSeen, Waits, files
  <2> QED
    BY <1>1, <2>3, <2>4
<1>5. CASE HandleError(p)
  <2>1. /\ ui[p] = "awake" /\ todo' = [todo EXCEPT ![p] = @ \ {"error"}]
        /\ UNCHANGED <<files, pipe>>
    BY <1>5 DEF HandleError, LeftAfterError, UiAt
  <2>2. \A q \in Pids : Told(q)' <=> Told(q)
    BY <2>1 DEF Told
  <2>3. CASE errors[p] = <<>>
    <3>1. UNCHANGED <<ui, cur>>
      BY <1>5, <2>3 DEF HandleError
    <3>2. QueueingSeen'
      BY <1>1, <2>1, <3>1 DEF QueueingSeen
    <3>3. FilesSeen'
      BY <1>1, <1>2, <2>1, <2>2, <3>1 DEF FilesSeen, Waits, files
    <3> QED
      BY <1>1, <3>2, <3>3
  <2>4. CASE errors[p] # <<>>
    <3> DEFINE r == Head(errors[p])
    <3>1. /\ ui' = [ui EXCEPT ![p] = AfterError(r)]
          /\ cur' = [cur EXCEPT ![p] = IF AfterError(r) = "awake" THEN NoMsg ELSE r.msg]
      BY <1>5, <2>4 DEF HandleError
    <3>2. r.msg \in failed
      <4>1. r = errors[p][1] /\ 1 \in 1 .. Len(errors[p])
        BY <2>4, PopFront DEF QueuesTypeOK
      <4> QED
        BY <4>1 DEF ReturnedFailed
    <3> HIDE DEF r
    <3>3. QueueingSeen'
      BY <1>1, <2>1, <3>1, <3>2 DEF QueueingSeen
    <3>4. FilesSeen'
      BY <1>1, <1>2, <2>1, <2>2, <3>1 DEF FilesSeen, Waits, files
    <3> QED
      BY <1>1, <3>3, <3>4
  <2> QED
    BY <2>3, <2>4
<1>6. CASE Answer(p)
  <2>1. /\ ui[p] = "asking" /\ cur[p] \in failed
        /\ \E next \in {"store", "queue"} : ui' = [ui EXCEPT ![p] = next]
        /\ UNCHANGED <<files, pipe, todo, cur>>
    BY <1>6 DEF Answer, UiAt, ReturnedFailed
  <2>2. QueueingSeen'
    BY <1>1, <2>1 DEF QueueingSeen
  <2>3. FilesSeen'
    BY <1>1, <1>2, <2>1 DEF FilesSeen, Waits, Told, files
  <2> QED
    BY <1>1, <2>2, <2>3
<1>7. CASE HandleConnected(p)
  <2>1. /\ ui[p] = "awake" /\ todo' = [todo EXCEPT ![p] = {}]
        /\ UNCHANGED <<outbox, pipe, cur>>
    BY <1>7 DEF HandleConnected, UiAt
  <2>2. \A q \in Pids : q # p => (Told(q)' <=> Told(q))
    BY <2>1 DEF Told
  <2>3. CASE "connected" \in todo[p] /\ connected[p] /\ ~readOnly[p]
    <3>1. /\ ui' = [ui EXCEPT ![p] = "drafts"]
          /\ draft' = Remaining(draft, p, Alive)
      BY <1>7, <2>3, Zenon DEF HandleConnected
    <3>2. \A f \in draft' : f \in draft /\ f.pid # p
      BY <3>1, PopDivides
    <3>3. QueueingSeen'
      BY <1>1, <2>1, <3>1 DEF QueueingSeen
    <3>4. FilesSeen'
      BY <1>1, <1>2, <2>1, <2>2, <3>1, <3>2 DEF FilesSeen, Waits
    <3> QED
      BY <1>1, <3>3, <3>4
  <2>4. CASE ~("connected" \in todo[p] /\ connected[p] /\ ~readOnly[p])
    <3>1. ui' = [ui EXCEPT ![p] = "idle"] /\ UNCHANGED draft
      BY <1>7, <2>4, Zenon DEF HandleConnected
    <3>2. QueueingSeen'
      BY <1>1, <2>1, <3>1 DEF QueueingSeen
    <3>3. FilesSeen'
      BY <1>1, <1>2, <2>1, <2>2, <2>4, <3>1 DEF FilesSeen, Waits, Told
    <3> QED
      BY <1>1, <3>2, <3>3
  <2> QED
    BY <2>3, <2>4
<1>8. CASE SubmitDraft(p)
  <2>1. UNCHANGED <<files, todo, ui, cur, pipe>>
    BY <1>8 DEF SubmitDraft
  <2> QED
    BY <1>1, <2>1, ConnectionKept
<1>9. CASE PopOutbox(p)
  <2>1. /\ ui[p] = "drafts" /\ ui' = [ui EXCEPT ![p] = "outbox"]
        /\ outbox' = Remaining(outbox, p, Alive)
        /\ UNCHANGED <<draft, pipe, todo, cur>>
    BY <1>9 DEF PopOutbox, UiAt
  <2>2. \A f \in outbox' : f \in outbox /\ f.pid # p
    BY <2>1, PopDivides
  <2>3. QueueingSeen'
    BY <1>1, <2>1 DEF QueueingSeen
  <2>4. FilesSeen'
    BY <1>1, <1>2, <2>1, <2>2 DEF FilesSeen, Waits, Told
  <2> QED
    BY <1>1, <2>3, <2>4
<1>10. CASE SubmitOutbox(p)
  <2>1. /\ ui[p] = "outbox" /\ (UNCHANGED ui \/ ui' = [ui EXCEPT ![p] = "idle"])
        /\ UNCHANGED <<files, pipe, todo, cur>>
    BY <1>10, Zenon DEF SubmitOutbox, UiAt
  <2>2. QueueingSeen'
    BY <1>1, <2>1 DEF QueueingSeen
  <2>3. FilesSeen'
    BY <1>1, <1>2, <2>1 DEF FilesSeen, Waits, Told, files
  <2> QED
    BY <1>1, <2>2, <2>3
<1> QED
  BY <1>3, <1>4, <1>5, <1>6, <1>7, <1>8, <1>9, <1>10 DEF UiThread

LEMMA ConnectionPreserved ==
  ASSUME TypeInv, ReturnedFailed, ConnectionInv, Next
  PROVE  ConnectionInv'
<1> USE DEF TypeInv, TypeOK, UiTypeOK
<1>1. ASSUME NEW p \in Pids, Start(p) \/ Connect(p) \/ Disconnect(p) \/ Quit(p)
      PROVE  ConnectionInv'
  <2>1. UNCHANGED <<files, todo, ui, cur, failed>>
    BY <1>1 DEF Start, Connect, Disconnect, StatusStep, Quit, uiVars, history
  <2>2. \A q \in Pids :
          /\ pipe[q] \subseteq pipe'[q]
          /\ connected'[q] => \/ "connected" \in pipe'[q]
                              \/ connected[q] /\ readOnly'[q] = readOnly[q]
          /\ proc'[q] = "new" => ~connected'[q]
    BY <1>1 DEF Start, Connect, Disconnect, StatusStep, Quit, UiAt, procs, ConnectionInv
  <2> QED
    BY <2>1, <2>2, ConnectionKept
<1>2. ASSUME NEW p \in Pids, NEW m \in Msgs, SendMessage(p, m) \/ PostponeMessage(p, m)
      PROVE  ConnectionInv'
  <2> USE DEF ConnectionInv
  <2>1. /\ ui[p] = "idle" /\ UNCHANGED <<files, pipe, todo, connected, procs, failed>>
        /\ cur' = [cur EXCEPT ![p] = m]
        /\ \/ ui' = [ui EXCEPT ![p] = IF connected[p] THEN "send" ELSE "queue"]
           \/ ui' = [ui EXCEPT ![p] = IF connected[p] THEN "store" ELSE "draft"]
    BY <1>2 DEF SendMessage, PostponeMessage, Begin, UiAt, UiStep
  <2>2. QueueingSeen'
    BY <2>1 DEF QueueingSeen
  <2>3. \A f \in draft \cup outbox : f.pid \in Pids
    BY DEF QueuesTypeOK, File
  <2>4. FilesSeen'
    BY <2>1, <2>3 DEF FilesSeen, Waits, Told, files, procs
  <2> QED
    BY <2>1, <2>2, <2>4 DEF procs
<1>3. ASSUME NEW p \in Pids, SmtpThread(p)
      PROVE  ConnectionInv'
  <2>1. UNCHANGED <<files, todo, ui, cur, connected, procs>> /\ failed \subseteq failed'
        /\ \A q \in Pids : pipe[q] \subseteq pipe'[q]
    BY <1>3 DEF SmtpThread, SmtpTake, SmtpOk, SmtpFail, SmtpDone, SmtpError, SmtpStep, uiVars
  <2> QED
    BY <2>1, ConnectionKept DEF procs, ConnectionInv
<1>4. ASSUME NEW p \in Pids, UploadOk(p)
      PROVE  ConnectionInv'
  <2>1. UNCHANGED <<files, todo, ui, cur, connected, procs, pipe, failed>>
    BY <1>4 DEF UploadOk, UploadStep, uiVars, files
  <2> QED
    BY <2>1, ConnectionKept DEF procs, ConnectionInv
<1>5. ASSUME NEW p \in Pids, UploadFailed(p)
      PROVE  ConnectionInv'
  <2> USE DEF ConnectionInv
  <2> DEFINE x == Head(uploads[p])
  <2>1. /\ x \in failed' /\ failed \subseteq failed'
        /\ draft' = Push(draft, p, x)
        /\ UNCHANGED <<outbox, todo, ui, cur, connected, procs, pipe>>
    BY <1>5 DEF UploadFailed, UploadStep, uiVars
  <2>2. x \in Msgs
    BY <1>5, PopFront DEF UploadFailed, QueuesTypeOK
  <2> HIDE DEF x
  <2>3. PICK f : f.pid = p /\ f.msg = x /\ Push(draft, p, x) = draft \cup {f}
    BY <2>2, OutgoingPushTypes
  <2>4. \A g \in draft \cup outbox : g.pid \in Pids
    BY DEF QueuesTypeOK, File
  <2>5. QueueingSeen'
    BY <2>1 DEF QueueingSeen
  <2>6. FilesSeen'
    BY <2>1, <2>3, <2>4 DEF FilesSeen, Waits, Told, procs
  <2> QED
    BY <2>1, <2>5, <2>6 DEF procs
<1>6. ASSUME NEW p \in Pids, End(p)
      PROVE  ConnectionInv'
  <2> USE DEF ConnectionInv
  <2>1. /\ proc' = [proc EXCEPT ![p] = "dead"]
        /\ connected' = [connected EXCEPT ![p] = FALSE]
        /\ pipe' = [pipe EXCEPT ![p] = {}]
        /\ todo' = [todo EXCEPT ![p] = {}]
        /\ ui' = [ui EXCEPT ![p] = "idle"]
        /\ cur' = [cur EXCEPT ![p] = NoMsg]
        /\ UNCHANGED <<files, readOnly, failed>>
    BY <1>6 DEF End
  <2>2. QueueingSeen'
    BY <2>1 DEF QueueingSeen
  <2>3. \A f \in draft \cup outbox : f.pid \in Pids
    BY DEF QueuesTypeOK, File
  <2>4. FilesSeen'
    BY <2>1, <2>3 DEF FilesSeen, Waits, Told, files
  <2> QED
    BY <2>1, <2>2, <2>4
<1>7. CASE Terminated
  <2>1. UNCHANGED <<files, todo, ui, cur, connected, procs, pipe, failed>>
    BY <1>7 DEF Terminated, vars, uiVars, history
  <2> QED
    BY <2>1, ConnectionKept DEF procs, ConnectionInv
<1> QED
  BY <1>1, <1>2, <1>3, <1>4, <1>5, <1>6, <1>7, ConnectionUi DEF Next, Upload

(* A message that was queued offline does not stay behind once the user    *)
(* interface has seen the connection come up (SendComposedMessage(),       *)
(* StatusHandler() and HandleConnected() in ui.cpp).                       *)
THEOREM NotLeftBehind == Spec => []NotStranded
<1>1. Init => ReturnedFailed /\ ConnectionInv
  BY DEF Init, ReturnedFailed, ConnectionInv, QueueingSeen, FilesSeen, SmtpAt
<1>2. TypeInv /\ ReturnedFailed /\ ConnectionInv /\ [Next]_vars
        => ReturnedFailed' /\ ConnectionInv'
  <2>1. ASSUME ReturnedFailed, ConnectionInv, UNCHANGED vars
        PROVE  ReturnedFailed' /\ ConnectionInv'
    BY <2>1 DEF vars, files, procs, uiVars, smtpVars, history, ReturnedFailed, ConnectionInv,
                QueueingSeen, FilesSeen, SmtpAt, Waits, Told
  <2> QED
    BY <2>1, ReturnedFailedPreserved, ConnectionPreserved
<1>3. ASSUME TypeInv, ConnectionInv
      PROVE  NotStranded
  <2> SUFFICES ASSUME NEW p \in Pids, NEW f \in outbox \cup draft, f.pid = p, UiAt(p, "idle"),
                      connected[p], "connected" \notin pipe[p], ~readOnly[p], f.msg \notin failed
               PROVE  FALSE
    BY DEF NotStranded
  <2>1. ui[p] = "idle" /\ todo[p] = {}
    BY <1>3 DEF UiAt, TypeInv, TypeOK, UiTypeOK
  <2> QED
    BY <1>3, <2>1 DEF ConnectionInv, FilesSeen, Waits, Told
<1> QED
  BY InitTypeInv, TypeInvPreserved, <1>1, <1>2, <1>3, PTL DEF Spec

-----------------------------------------------------------------------------
(* Copies.  A copy of m is told by the kind of its place, the process the  *)
(* place belongs to, and the file or the index it has there.               *)

Kinds == {"outbox", "draft", "cur", "hand", "smtp", "sending", "errors", "uploads"}

IsCopy(k, p, c, m) ==
  \/ k = "outbox" /\ c \in outbox /\ c.pid = p /\ c.msg = m
  \/ k = "draft" /\ c \in draft /\ c.pid = p /\ c.msg = m
  \/ k = "cur" /\ c = p /\ cur[p] = m
  \/ k = "hand" /\ c \in hand[p] /\ c.msg = m
  \/ k = "smtp" /\ c \in 1 .. Len(smtp[p]) /\ smtp[p][c].msg = m
  \/ /\ k = "sending" /\ c = 1 /\ sending[p] # <<>>
     /\ Head(sending[p]).action.msg = m /\ Head(sending[p]).status # "ok"
  \/ k = "errors" /\ c \in 1 .. Len(errors[p]) /\ errors[p][c].msg = m
  \/ k = "uploads" /\ c \in 1 .. Len(uploads[p]) /\ uploads[p][c] = m

Somewhere(m) == \E k \in Kinds, p \in Pids : \E c : IsCopy(k, p, c, m)

(* There is one copy at most.                                              *)
Single(m) ==
  \A k, l \in Kinds, p, q \in Pids : \A c, d :
    IsCopy(k, p, c, m) /\ IsCopy(l, q, d, m) => k = l /\ p = q /\ c = d

MessageInv(m) ==
  /\ Single(m)
  /\ m \in settled => m \in accepted
  /\ m \notin accepted \/ m \in settled => ~Somewhere(m)
  /\ DraftsFolder /\ m \in accepted => m \in settled \cup gone \/ Somewhere(m)

CopyInv == \A m \in Msgs : MessageInv(m)

LEMMA InitCopyInv == Init => CopyInv
<1> SUFFICES ASSUME Init PROVE CopyInv
  OBVIOUS
<1>1. \A k \in Kinds, p \in Pids : \A c : \A m \in Msgs : ~IsCopy(k, p, c, m)
  BY NoMsgAssumption DEF Init, IsCopy
<1> QED
  BY <1>1 DEF Init, CopyInv, MessageInv, Single, Somewhere

(* A place holds one message.                                              *)
LEMMA PlaceOfOne ==
  ASSUME NEW k, NEW p, NEW c, NEW m, NEW n, IsCopy(k, p, c, m), IsCopy(k, p, c, n)
  PROVE  m = n
BY DEF IsCopy

(* Where an element of a queue was before a push_front() or a pop_front(), *)
(* and where it is after one.                                              *)
Before(c, change) == IF change = "push" THEN c - 1 ELSE c + 1
After(c, change) == IF change = "push" THEN c + 1 ELSE c - 1

(* The copies of other messages stay where they are, but for those of the  *)
(* queue (kq, pq) that has changed; x is now at (kd, pd, cd) at most.      *)
PutAt(x, kd, pd, cd, kq, pq, change) ==
  \A m \in Msgs, k \in Kinds, q \in Pids : \A c : IsCopy(k, q, c, m)' =>
    \/ m = x /\ k = kd /\ q = pd /\ c = cd
    \/ m # x /\ ~(k = kq /\ q = pq) /\ IsCopy(k, q, c, m)
    \/ /\ m # x /\ k = kq /\ q = pq /\ c \in Int
       /\ IsCopy(k, q, Before(c, change), m)

LEMMA Placed ==
  ASSUME CopyInv, NEW x \in Msgs, NEW kd, NEW pd, NEW cd, NEW kq, NEW pq, NEW change,
         PutAt(x, kd, pd, cd, kq, pq, change),
         \A m \in Msgs : m # x /\ Somewhere(m) => Somewhere(m)',
         accepted' = accepted \cup {x}, settled \subseteq settled',
         settled' \subseteq settled \cup {x}, gone' = gone,
         x \in settled' => kd \notin Kinds,
         DraftsFolder => x \in settled' \/ Somewhere(x)'
  PROVE  CopyInv'
<1> SUFFICES ASSUME NEW m \in Msgs PROVE MessageInv(m)'
  BY DEF CopyInv
<1>0. MessageInv(m)
  BY DEF CopyInv
<1> USE DEF PutAt
<1>1. CASE m = x
  <2>1. \A k \in Kinds, q \in Pids : \A c : IsCopy(k, q, c, m)' => k = kd /\ q = pd /\ c = cd
    BY <1>1
  <2>2. Single(m)'
    BY <2>1 DEF Single
  <2>3. m \in settled' => ~Somewhere(m)'
    BY <1>1, <2>1 DEF Somewhere
  <2> QED
    BY <1>1, <2>2, <2>3 DEF MessageInv
<1>2. CASE m # x
  <2>1. Single(m)'
    <3> SUFFICES ASSUME NEW k \in Kinds, NEW l \in Kinds, NEW q \in Pids, NEW r \in Pids,
                        NEW c, NEW d, IsCopy(k, q, c, m)', IsCopy(l, r, d, m)'
                 PROVE  k = l /\ q = r /\ c = d
      BY DEF Single
    <3>1. CASE (k = kq /\ q = pq) /\ (l = kq /\ r = pq)
      <4>1. /\ c \in Int /\ IsCopy(k, q, Before(c, change), m)
            /\ d \in Int /\ IsCopy(k, q, Before(d, change), m)
        BY <1>2, <3>1
      <4>2. Before(c, change) = Before(d, change)
        BY <1>0, <4>1 DEF MessageInv, Single
      <4> QED
        BY <3>1, <4>1, <4>2 DEF Before
    <3>2. CASE ~(k = kq /\ q = pq) /\ ~(l = kq /\ r = pq)
      BY <1>0, <1>2, <3>2 DEF MessageInv, Single
    <3>3. CASE (k = kq /\ q = pq) # (l = kq /\ r = pq)
      BY <1>0, <1>2, <3>3 DEF MessageInv, Single
    <3> QED
      BY <3>1, <3>2, <3>3
  <2>2. Somewhere(m)' <=> Somewhere(m)
    BY <1>2 DEF Somewhere
  <2> QED
    BY <1>0, <1>2, <2>1, <2>2 DEF MessageInv
<1> QED
  BY <1>1, <1>2

(* The only copy of x leaves its place (ks, ps, cs), for another one or    *)
(* for good.                                                               *)
Leaves(ks, ps, cs, x, kd, pd, cd, kq, pq, change) ==
  /\ \A m \in Msgs, k \in Kinds, q \in Pids : \A c : IsCopy(k, q, c, m)' =>
       \/ m = x /\ k = kd /\ q = pd /\ c = cd
       \/ /\ ~(k = kq /\ q = pq) /\ IsCopy(k, q, c, m)
          /\ ~(k = ks /\ q = ps /\ c = cs)
       \/ /\ k = kq /\ q = pq /\ c \in Int /\ IsCopy(k, q, Before(c, change), m)
          /\ ~(k = ks /\ q = ps /\ Before(c, change) = cs)
  /\ \A m \in Msgs, k \in Kinds, q \in Pids : \A c : IsCopy(k, q, c, m) =>
       \/ k = ks /\ q = ps /\ c = cs
       \/ IsCopy(k, q, c, m)'
       \/ k = kq /\ q = pq /\ IsCopy(k, q, After(c, change), m)'

LEMMA Moved ==
  ASSUME CopyInv, NEW x \in Msgs, NEW ks \in Kinds, NEW ps \in Pids, NEW cs,
         IsCopy(ks, ps, cs, x),
         NEW kd, NEW pd, NEW cd, NEW kq, NEW pq, NEW change,
         Leaves(ks, ps, cs, x, kd, pd, cd, kq, pq, change),
         accepted' = accepted, settled \subseteq settled',
         settled' \subseteq settled \cup {x}, gone' = gone,
         x \in settled' \ settled => kd \notin Kinds,
         DraftsFolder => x \in settled' \/ Somewhere(x)'
  PROVE  CopyInv'
<1>1. Single(x) /\ Somewhere(x) /\ x \in accepted /\ x \notin settled
  BY DEF CopyInv, MessageInv, Somewhere
<1>2. \A k \in Kinds, q \in Pids : \A c : IsCopy(k, q, c, x) => k = ks /\ q = ps /\ c = cs
  BY <1>1 DEF Single
<1>3. PutAt(x, kd, pd, cd, kq, pq, change)
  BY <1>2 DEF Leaves, PutAt
<1>4. ASSUME NEW m \in Msgs, m # x, Somewhere(m)
      PROVE  Somewhere(m)'
  <2>1. PICK k \in Kinds, q \in Pids : \E c : IsCopy(k, q, c, m)
    BY <1>4 DEF Somewhere
  <2>2. PICK c : IsCopy(k, q, c, m)
    BY <2>1
  <2>3. ~(k = ks /\ q = ps /\ c = cs)
    BY <1>4, <2>2, PlaceOfOne
  <2> QED
    BY <2>2, <2>3 DEF Somewhere, Leaves
<1>5. accepted' = accepted \cup {x}
  BY <1>1
<1>6. x \in settled' => kd \notin Kinds
  BY <1>1
<1> QED
  BY <1>3, <1>4, <1>5, <1>6, Placed

LEMMA MovedOn ==
  ASSUME CopyInv, NEW x \in Msgs, NEW ks \in Kinds, NEW ps \in Pids, NEW cs,
         IsCopy(ks, ps, cs, x),
         NEW kd \in Kinds, NEW pd \in Pids, NEW cd, IsCopy(kd, pd, cd, x)',
         NEW kq, NEW pq, NEW change,
         Leaves(ks, ps, cs, x, kd, pd, cd, kq, pq, change),
         UNCHANGED <<accepted, settled, gone>>
  PROVE  CopyInv'
<1>1. Somewhere(x)'
  BY DEF Somewhere
<1> QED
  BY <1>1, Moved

(* Nothing moves.                                                          *)
LEMMA NothingMoves ==
  ASSUME CopyInv, UNCHANGED <<accepted, settled, gone>>,
         \A m \in Msgs, k \in Kinds, q \in Pids : \A c :
           IsCopy(k, q, c, m)' <=> IsCopy(k, q, c, m)
  PROVE  CopyInv'
<1> SUFFICES ASSUME NEW m \in Msgs PROVE MessageInv(m)'
  BY DEF CopyInv
<1>1. MessageInv(m)
  BY DEF CopyInv
<1>2. Single(m)' /\ (Somewhere(m)' <=> Somewhere(m))
  BY <1>1 DEF MessageInv, Single, Somewhere
<1> QED
  BY <1>1, <1>2 DEF MessageInv

(* A message that the user sends or postpones gets its first copy.         *)
LEMMA BeginCopies ==
  ASSUME TypeInv, CopyInv, NEW p \in Pids, NEW m \in Msgs,
         SendMessage(p, m) \/ PostponeMessage(p, m)
  PROVE  CopyInv'
<1> USE DEF TypeInv, TypeOK, UiTypeOK
<1>1. /\ m \notin accepted /\ accepted' = accepted \cup {m}
      /\ cur[p] = NoMsg /\ cur' = [cur EXCEPT ![p] = m]
      /\ UNCHANGED <<files, hand, smtp, sending, errors, uploads, settled, gone>>
  BY DEF SendMessage, PostponeMessage, Begin, UiAt, UiStep
<1>2. ~Somewhere(m) /\ m \notin settled
  BY <1>1 DEF CopyInv, MessageInv
<1>3. PutAt(m, "cur", p, p, "none", p, "none")
  BY <1>1, <1>2 DEF PutAt, IsCopy, Somewhere, files
<1>4. ASSUME NEW n \in Msgs, n # m, Somewhere(n)
      PROVE  Somewhere(n)'
  <2>1. PICK k \in Kinds, q \in Pids : \E c : IsCopy(k, q, c, n)
    BY <1>4 DEF Somewhere
  <2>2. PICK c : IsCopy(k, q, c, n)
    BY <2>1
  <2>3. IsCopy(k, q, c, n)'
    BY <1>1, <1>4, <2>2, NoMsgAssumption DEF IsCopy, files
  <2> QED
    BY <2>3 DEF Somewhere
<1>5. Somewhere(m)'
  <2>1. IsCopy("cur", p, p, m)' /\ "cur" \in Kinds
    BY <1>1 DEF IsCopy, Kinds
  <2> QED
    BY <2>1 DEF Somewhere
<1> QED
  BY <1>1, <1>2, <1>3, <1>4, <1>5, Placed

(* It is handed over or queued.                                            *)
LEMMA SendCopies ==
  ASSUME TypeInv, CopyInv, NEW p \in Pids, Send(p)
  PROVE  CopyInv'
<1> USE DEF TypeInv, TypeOK, QueuesTypeOK, UiTypeOK
<1>0. PICK x \in Msgs, a \in Action :
             x = cur[p] /\ a = [msg |-> x, queued |-> FALSE] /\ a.msg = x
  <2>1. cur[p] \in Msgs
    BY WorkedOn DEF Send, UiAt
  <2>2. [msg |-> cur[p], queued |-> FALSE] \in Action
    BY <2>1 DEF Action
  <2> QED
    BY <2>1, <2>2
<1>1. /\ x # NoMsg /\ cur[p] = x
      /\ cur' = [cur EXCEPT ![p] = NoMsg]
      /\ smtp' = [smtp EXCEPT ![p] = <<a>> \o @]
      /\ UNCHANGED <<files, hand, sending, errors, uploads, accepted, settled, gone>>
  BY <1>0, NoMsgAssumption DEF Send, UiStep, Return
<1>2. /\ smtp' = [smtp EXCEPT ![p] = smtp'[p]]
      /\ smtp'[p][1] = a /\ 1 \in 1 .. Len(smtp'[p])
      /\ \A j \in 1 .. Len(smtp[p]) :
           j + 1 \in 1 .. Len(smtp'[p]) /\ smtp'[p][j + 1] = smtp[p][j]
      /\ \A j \in 1 .. Len(smtp'[p]) :
           j = 1 \/ (j - 1 \in 1 .. Len(smtp[p]) /\ smtp'[p][j] = smtp[p][j - 1])
  BY <1>1, PushFront
<1>3. IsCopy("cur", p, p, x) /\ "cur" \in Kinds /\ "smtp" \in Kinds
  BY <1>1 DEF IsCopy, Kinds
<1>4. \A m \in Msgs, k \in Kinds, q \in Pids : \A c : IsCopy(k, q, c, m)' =>
        \/ m = x /\ k = "smtp" /\ q = p /\ c = 1
        \/ /\ ~(k = "smtp" /\ q = p) /\ IsCopy(k, q, c, m)
           /\ ~(k = "cur" /\ q = p /\ c = p)
        \/ k = "smtp" /\ q = p /\ c \in Int /\ IsCopy(k, q, c - 1, m)
  <2> SUFFICES ASSUME NEW m \in Msgs, NEW k \in Kinds, NEW q \in Pids, NEW c,
                      IsCopy(k, q, c, m)'
               PROVE  \/ m = x /\ k = "smtp" /\ q = p /\ c = 1
                      \/ /\ ~(k = "smtp" /\ q = p) /\ IsCopy(k, q, c, m)
                         /\ ~(k = "cur" /\ q = p /\ c = p)
                      \/ k = "smtp" /\ q = p /\ c \in Int /\ IsCopy(k, q, c - 1, m)
    OBVIOUS
  <2>1. CASE k = "smtp"
    <3>1. c \in 1 .. Len(smtp'[q]) /\ smtp'[q][c].msg = m
      BY <2>1 DEF IsCopy
    <3>2. CASE q = p
      BY <1>0, <1>2, <2>1, <3>1, <3>2 DEF IsCopy
    <3>3. CASE q # p
      BY <1>0, <1>2, <2>1, <3>1, <3>3 DEF IsCopy
    <3> QED
      BY <3>2, <3>3
  <2>2. CASE k = "cur"
    BY <1>1, <2>2, NoMsgAssumption DEF IsCopy
  <2>3. CASE k \notin {"smtp", "cur"}
    BY <1>1, <2>3 DEF IsCopy, files
  <2> QED
    BY <2>1, <2>2, <2>3
<1>5. \A m \in Msgs, k \in Kinds, q \in Pids : \A c : IsCopy(k, q, c, m) =>
        \/ k = "cur" /\ q = p /\ c = p
        \/ IsCopy(k, q, c, m)'
        \/ k = "smtp" /\ q = p /\ IsCopy(k, q, c + 1, m)'
  BY <1>1, <1>2 DEF IsCopy, files
<1>6. IsCopy("smtp", p, 1, x)'
  BY <1>0, <1>2 DEF IsCopy
<1>7. Leaves("cur", p, p, x, "smtp", p, 1, "smtp", p, "push")
  BY <1>4, <1>5 DEF Leaves, Before, After
<1> QED
  BY <1>1, <1>3, <1>6, <1>7, MovedOn

LEMMA QueueCopies ==
  ASSUME TypeInv, CopyInv, NEW p \in Pids, Queue(p)
  PROVE  CopyInv'
<1>0. PICK x \in Msgs : x = cur[p]
  BY WorkedOn DEF Queue, UiAt
<1>a. PICK f \in File : f.pid = p /\ f.msg = x /\ Push(outbox, p, x) = outbox \cup {f}
  BY OutgoingPushTypes
<1> USE DEF TypeInv, TypeOK, QueuesTypeOK, UiTypeOK
<1>1. /\ x # NoMsg /\ cur' = [cur EXCEPT ![p] = NoMsg]
      /\ outbox' = Push(outbox, p, x)
      /\ UNCHANGED <<draft, hand, smtp, sending, errors, uploads, accepted, settled, gone>>
  BY <1>0, NoMsgAssumption DEF Queue, UiStep, Return
<1>2. f.pid = p /\ f.msg = x /\ outbox' = outbox \cup {f}
  BY <1>1, <1>a
<1>3. IsCopy("cur", p, p, x) /\ "cur" \in Kinds /\ "outbox" \in Kinds
  BY <1>0 DEF IsCopy, Kinds
<1>4. \A m \in Msgs, k \in Kinds, q \in Pids : \A c : IsCopy(k, q, c, m)' =>
        \/ m = x /\ k = "outbox" /\ q = p /\ c = f
        \/ IsCopy(k, q, c, m) /\ ~(k = "cur" /\ q = p /\ c = p)
  BY <1>1, <1>2, NoMsgAssumption DEF IsCopy
<1>5. \A m \in Msgs, k \in Kinds, q \in Pids : \A c : IsCopy(k, q, c, m) =>
        \/ k = "cur" /\ q = p /\ c = p
        \/ IsCopy(k, q, c, m)'
  BY <1>1, <1>2 DEF IsCopy
<1>6. IsCopy("outbox", p, f, x)'
  BY <1>2 DEF IsCopy
<1>7. Leaves("cur", p, p, x, "outbox", p, f, "none", p, "none")
  BY <1>4, <1>5 DEF Leaves, Kinds
<1> QED
  BY <1>1, <1>3, <1>6, <1>7, MovedOn

LEMMA StoreCopies ==
  ASSUME TypeInv, CopyInv, NEW p \in Pids, Store(p)
  PROVE  CopyInv'
<1> USE DEF TypeInv, TypeOK, QueuesTypeOK, UiTypeOK
<1>0. PICK x \in Msgs : x = cur[p]
  BY WorkedOn DEF Store, UiAt
<1>1. /\ x # NoMsg /\ cur' = [cur EXCEPT ![p] = NoMsg]
      /\ uploads' = [uploads EXCEPT ![p] = <<x>> \o @]
      /\ UNCHANGED <<files, hand, smtp, sending, errors, accepted, settled, gone>>
  BY <1>0, NoMsgAssumption DEF Store, UiStep, Return
<1>2. /\ uploads' = [uploads EXCEPT ![p] = uploads'[p]]
      /\ uploads'[p][1] = x /\ 1 \in 1 .. Len(uploads'[p])
      /\ \A j \in 1 .. Len(uploads[p]) :
           j + 1 \in 1 .. Len(uploads'[p]) /\ uploads'[p][j + 1] = uploads[p][j]
      /\ \A j \in 1 .. Len(uploads'[p]) :
           j = 1 \/ (j - 1 \in 1 .. Len(uploads[p]) /\ uploads'[p][j] = uploads[p][j - 1])
  BY <1>1, PushFront
<1>3. IsCopy("cur", p, p, x) /\ "cur" \in Kinds /\ "uploads" \in Kinds
  BY <1>0 DEF IsCopy, Kinds
<1>4. \A m \in Msgs, k \in Kinds, q \in Pids : \A c : IsCopy(k, q, c, m)' =>
        \/ m = x /\ k = "uploads" /\ q = p /\ c = 1
        \/ /\ ~(k = "uploads" /\ q = p) /\ IsCopy(k, q, c, m)
           /\ ~(k = "cur" /\ q = p /\ c = p)
        \/ k = "uploads" /\ q = p /\ c \in Int /\ IsCopy(k, q, c - 1, m)
  BY <1>1, <1>2, NoMsgAssumption DEF IsCopy, files
<1>5. \A m \in Msgs, k \in Kinds, q \in Pids : \A c : IsCopy(k, q, c, m) =>
        \/ k = "cur" /\ q = p /\ c = p
        \/ IsCopy(k, q, c, m)'
        \/ k = "uploads" /\ q = p /\ IsCopy(k, q, c + 1, m)'
  <2>1. \A m \in Msgs : \A c : IsCopy("uploads", p, c, m) => IsCopy("uploads", p, c + 1, m)'
    BY <1>2 DEF IsCopy
  <2>2. \A m \in Msgs, k \in Kinds, q \in Pids : \A c :
          IsCopy(k, q, c, m) /\ ~(k = "uploads" /\ q = p) /\ ~(k = "cur" /\ q = p)
            => IsCopy(k, q, c, m)'
    BY <1>1, <1>2 DEF IsCopy, files
  <2>3. \A m : \A c : IsCopy("cur", p, c, m) => c = p
    BY DEF IsCopy
  <2> QED
    BY <2>1, <2>2, <2>3
<1>6. IsCopy("uploads", p, 1, x)'
  BY <1>2 DEF IsCopy
<1>7. Leaves("cur", p, p, x, "uploads", p, 1, "uploads", p, "push")
  BY <1>4, <1>5 DEF Leaves, Before, After
<1> QED
  BY <1>1, <1>3, <1>6, <1>7, MovedOn

LEMMA QueueDraftCopies ==
  ASSUME TypeInv, CopyInv, NEW p \in Pids, QueueDraft(p)
  PROVE  CopyInv'
<1>0. PICK x \in Msgs : x = cur[p]
  BY WorkedOn DEF QueueDraft, UiAt
<1>a. PICK f \in File : f.pid = p /\ f.msg = x /\ Push(draft, p, x) = draft \cup {f}
  BY OutgoingPushTypes
<1> USE DEF TypeInv, TypeOK, QueuesTypeOK, UiTypeOK
<1>1. /\ x # NoMsg /\ cur' = [cur EXCEPT ![p] = NoMsg]
      /\ draft' = Push(draft, p, x)
      /\ UNCHANGED <<outbox, hand, smtp, sending, errors, uploads, accepted, settled, gone>>
  BY <1>0, NoMsgAssumption DEF QueueDraft, UiStep, Return
<1>2. f.pid = p /\ f.msg = x /\ draft' = draft \cup {f}
  BY <1>1, <1>a
<1>3. IsCopy("cur", p, p, x) /\ "cur" \in Kinds /\ "draft" \in Kinds
  BY <1>0 DEF IsCopy, Kinds
<1>4. \A m \in Msgs, k \in Kinds, q \in Pids : \A c : IsCopy(k, q, c, m)' =>
        \/ m = x /\ k = "draft" /\ q = p /\ c = f
        \/ IsCopy(k, q, c, m) /\ ~(k = "cur" /\ q = p /\ c = p)
  BY <1>1, <1>2, NoMsgAssumption DEF IsCopy
<1>5. \A m \in Msgs, k \in Kinds, q \in Pids : \A c : IsCopy(k, q, c, m) =>
        \/ k = "cur" /\ q = p /\ c = p
        \/ IsCopy(k, q, c, m)'
  BY <1>1, <1>2 DEF IsCopy
<1>6. IsCopy("draft", p, f, x)'
  BY <1>2 DEF IsCopy
<1>7. Leaves("cur", p, p, x, "draft", p, f, "none", p, "none")
  BY <1>4, <1>5 DEF Leaves, Kinds
<1> QED
  BY <1>1, <1>3, <1>6, <1>7, MovedOn

(* The message of an error is worked on again; without a drafts folder one *)
(* that had been queued is dropped.                                        *)
LEMMA HandleErrorCopies ==
  ASSUME TypeInv, CopyInv, NEW p \in Pids, HandleError(p)
  PROVE  CopyInv'
<1> USE DEF TypeInv, TypeOK, QueuesTypeOK, UiTypeOK
<1>1. CASE errors[p] = <<>>
  <2>1. UNCHANGED <<files, cur, hand, smtp, sending, errors, uploads, accepted, settled, gone>>
    BY <1>1 DEF HandleError, UiStep
  <2>2. \A m \in Msgs, k \in Kinds, q \in Pids : \A c : IsCopy(k, q, c, m)' <=> IsCopy(k, q, c, m)
    BY <2>1 DEF IsCopy, files
  <2> QED
    BY <2>1, <2>2, NothingMoves
<1>2. CASE errors[p] # <<>>
  <2>0. PICK r \in Action, x \in Msgs : r = Head(errors[p]) /\ r.msg = x
    <3>1. Head(errors[p]) \in Action
      BY <1>2, PopFront
    <3> QED
      BY <3>1 DEF Action
  <2>1. /\ r = errors[p][1] /\ 1 \in 1 .. Len(errors[p])
        /\ errors' = [errors EXCEPT ![p] = errors'[p]]
        /\ \A j \in 1 .. Len(errors'[p]) :
             j + 1 \in 1 .. Len(errors[p]) /\ errors'[p][j] = errors[p][j + 1]
        /\ \A j \in 1 .. Len(errors[p]) :
             j = 1 \/ (j - 1 \in 1 .. Len(errors'[p]) /\ errors[p][j] = errors'[p][j - 1])
    <3>1. errors' = [errors EXCEPT ![p] = Tail(@)]
      BY <1>2 DEF HandleError
    <3> QED
      BY <1>2, <2>0, <3>1, PopFront
  <2>2. /\ cur[p] = NoMsg /\ x # NoMsg
        /\ cur' = [cur EXCEPT ![p] = IF AfterError(r) = "awake" THEN NoMsg ELSE x]
        /\ UNCHANGED <<files, hand, smtp, sending, uploads, accepted, settled, gone>>
    BY <1>2, <2>0, NoMsgAssumption DEF HandleError, UiAt, UiStep
  <2>3. IsCopy("errors", p, 1, x) /\ "errors" \in Kinds /\ "cur" \in Kinds
    BY <2>0, <2>1 DEF IsCopy, Kinds
  <2>4. \A m \in Msgs, k \in Kinds, q \in Pids : \A c : IsCopy(k, q, c, m)' =>
          \/ m = x /\ k = "cur" /\ q = p /\ c = p
          \/ ~(k = "errors" /\ q = p) /\ IsCopy(k, q, c, m)
          \/ k = "errors" /\ q = p /\ c \in Int /\ IsCopy(k, q, c + 1, m) /\ c + 1 # 1
    <3> SUFFICES ASSUME NEW m \in Msgs, NEW k \in Kinds, NEW q \in Pids, NEW c,
                        IsCopy(k, q, c, m)'
                 PROVE  \/ m = x /\ k = "cur" /\ q = p /\ c = p
                        \/ ~(k = "errors" /\ q = p) /\ IsCopy(k, q, c, m)
                        \/ /\ k = "errors" /\ q = p /\ c \in Int
                           /\ IsCopy(k, q, c + 1, m) /\ c + 1 # 1
      OBVIOUS
    <3>1. CASE k = "cur"
      <4>1. c = q /\ cur'[q] = m
        BY <3>1 DEF IsCopy
      <4>2. CASE q = p
        BY <2>2, <3>1, <4>1, <4>2, NoMsgAssumption
      <4>3. CASE q # p
        BY <2>2, <3>1, <4>1, <4>3 DEF IsCopy
      <4> QED
        BY <4>2, <4>3
    <3>2. CASE k = "errors"
      <4>1. c \in 1 .. Len(errors'[q]) /\ errors'[q][c].msg = m
        BY <3>2 DEF IsCopy
      <4>2. CASE q = p
        BY <2>1, <3>2, <4>1, <4>2 DEF IsCopy
      <4>3. CASE q # p
        BY <2>1, <3>2, <4>1, <4>3 DEF IsCopy
      <4> QED
        BY <4>2, <4>3
    <3>3. CASE k \notin {"cur", "errors"}
      BY <2>2, <3>3 DEF IsCopy, files
    <3> QED
      BY <3>1, <3>2, <3>3
  <2>5. \A m \in Msgs, k \in Kinds, q \in Pids : \A c : IsCopy(k, q, c, m) =>
          \/ k = "errors" /\ q = p /\ c = 1
          \/ IsCopy(k, q, c, m)'
          \/ k = "errors" /\ q = p /\ IsCopy(k, q, c - 1, m)'
    <3> SUFFICES ASSUME NEW m \in Msgs, NEW k \in Kinds, NEW q \in Pids, NEW c,
                        IsCopy(k, q, c, m), ~(k = "errors" /\ q = p /\ c = 1)
                 PROVE  \/ IsCopy(k, q, c, m)'
                        \/ k = "errors" /\ q = p /\ IsCopy(k, q, c - 1, m)'
      OBVIOUS
    <3>1. CASE k = "cur"
      <4>1. c = q /\ cur[q] = m
        BY <3>1 DEF IsCopy
      <4>2. q # p
        BY <2>2, <4>1, NoMsgAssumption
      <4> QED
        BY <2>2, <3>1, <4>1, <4>2 DEF IsCopy
    <3>2. CASE k = "errors"
      <4>1. c \in 1 .. Len(errors[q]) /\ errors[q][c].msg = m
        BY <3>2 DEF IsCopy
      <4>2. CASE q = p
        BY <2>1, <3>2, <4>1, <4>2 DEF IsCopy
      <4>3. CASE q # p
        BY <2>1, <3>2, <4>1, <4>3 DEF IsCopy
      <4> QED
        BY <4>2, <4>3
    <3>3. CASE k \notin {"cur", "errors"}
      BY <2>2, <3>3 DEF IsCopy, files
    <3> QED
      BY <3>1, <3>2, <3>3
  <2>6. Leaves("errors", p, 1, x, "cur", p, p, "errors", p, "pop")
    BY <2>4, <2>5 DEF Leaves, Before, After
  <2>7. DraftsFolder => Somewhere(x)'
    <3>1. DraftsFolder => AfterError(r) # "awake"
      BY <2>0 DEF AfterError, Action
    <3>2. DraftsFolder => IsCopy("cur", p, p, x)'
      BY <2>2, <3>1 DEF IsCopy
    <3> QED
      BY <2>3, <3>2 DEF Somewhere
  <2> QED
    BY <2>2, <2>3, <2>6, <2>7, Moved
<1> QED
  BY <1>1, <1>2

(* The files of dir, of kind kd, that are no longer there are now in the   *)
(* hand of p.                                                              *)
Taken(p, kd, dir, newDir) ==
  /\ newDir \subseteq dir /\ \A f \in dir : f.pid \in Pids
  /\ \A q \in Pids : \A c, m : IsCopy(kd, q, c, m) <=> c \in dir /\ c.pid = q /\ c.msg = m
  /\ \A q \in Pids : \A c, m :
       IsCopy(kd, q, c, m)' <=> c \in newDir /\ c.pid = q /\ c.msg = m
  /\ \A q \in Pids : \A c, m :
       IsCopy("hand", q, c, m)' <=> \/ q = p /\ c \in dir \ newDir /\ c.msg = m
                                    \/ q # p /\ IsCopy("hand", q, c, m)
  /\ \A c, m : ~IsCopy("hand", p, c, m)
  /\ \A k \in Kinds, q \in Pids : \A c, m : k \notin {kd, "hand"} =>
       (IsCopy(k, q, c, m)' <=> IsCopy(k, q, c, m))

LEMMA TakenCopies ==
  ASSUME CopyInv, NEW p \in Pids, NEW kd \in {"draft", "outbox"}, NEW dir, NEW newDir,
         Taken(p, kd, dir, newDir), UNCHANGED <<accepted, settled, gone>>
  PROVE  CopyInv'
<1> USE DEF Taken
<1>1. kd \in Kinds /\ "hand" \in Kinds /\ kd # "hand"
  BY DEF Kinds
<1> SUFFICES ASSUME NEW m \in Msgs PROVE MessageInv(m)'
  BY DEF CopyInv
<1>2. MessageInv(m) /\ Single(m)
  BY DEF CopyInv, MessageInv
<1>3. ASSUME NEW k \in Kinds, NEW q \in Pids, NEW c, IsCopy(k, q, c, m)'
      PROVE  \/ IsCopy(k, q, c, m) /\ (k = kd => c \in newDir)
             \/ k = "hand" /\ q = p /\ c \notin newDir /\ c.pid \in Pids
                  /\ IsCopy(kd, c.pid, c, m)
  <2>1. CASE k = kd
    BY <1>1, <1>3, <2>1
  <2>2. CASE k = "hand"
    BY <1>1, <1>3, <2>2
  <2>3. CASE k \notin {kd, "hand"}
    BY <1>3, <2>3
  <2> QED
    BY <2>1, <2>2, <2>3
<1>4. ASSUME NEW k \in Kinds, NEW q \in Pids, NEW c, IsCopy(k, q, c, m)
      PROVE  IsCopy(k, q, c, m)' \/ IsCopy("hand", p, c, m)'
  <2>1. CASE k = kd
    BY <1>4, <2>1
  <2>2. CASE k = "hand"
    BY <1>4, <2>2
  <2>3. CASE k \notin {kd, "hand"}
    BY <1>4, <2>3
  <2> QED
    BY <2>1, <2>2, <2>3
<1>5. Single(m)'
  <2> SUFFICES ASSUME NEW k \in Kinds, NEW l \in Kinds, NEW q \in Pids, NEW r \in Pids,
                      NEW c, NEW d, IsCopy(k, q, c, m)', IsCopy(l, r, d, m)'
               PROVE  k = l /\ q = r /\ c = d
    BY DEF Single
  <2>1. CASE IsCopy(k, q, c, m) /\ IsCopy(l, r, d, m)
    BY <1>2, <2>1 DEF Single
  <2>2. CASE ~IsCopy(k, q, c, m) /\ IsCopy(l, r, d, m)
    <3>1. c \notin newDir /\ c.pid \in Pids /\ IsCopy(kd, c.pid, c, m)
      BY <1>3, <2>2
    <3>2. l = kd /\ d = c
      BY <1>1, <1>2, <2>2, <3>1 DEF Single
    <3>3. d \in newDir
      BY <1>1, <3>2
    <3> QED
      BY <3>1, <3>2, <3>3
  <2>3. CASE IsCopy(k, q, c, m) /\ ~IsCopy(l, r, d, m)
    <3>1. d \notin newDir /\ d.pid \in Pids /\ IsCopy(kd, d.pid, d, m)
      BY <1>3, <2>3
    <3>2. k = kd /\ d = c
      BY <1>1, <1>2, <2>3, <3>1 DEF Single
    <3>3. c \in newDir
      BY <1>1, <3>2
    <3> QED
      BY <3>1, <3>2, <3>3
  <2>4. CASE ~IsCopy(k, q, c, m) /\ ~IsCopy(l, r, d, m)
    <3>1. k = "hand" /\ q = p /\ c.pid \in Pids /\ IsCopy(kd, c.pid, c, m)
      BY <1>3, <2>4
    <3>2. l = "hand" /\ r = p /\ d.pid \in Pids /\ IsCopy(kd, d.pid, d, m)
      BY <1>3, <2>4
    <3> QED
      BY <1>1, <1>2, <3>1, <3>2 DEF Single
  <2> QED
    BY <2>1, <2>2, <2>3, <2>4
<1>6. Somewhere(m)' <=> Somewhere(m)
  BY <1>1, <1>3, <1>4 DEF Somewhere
<1> QED
  BY <1>2, <1>5, <1>6 DEF MessageInv

(* A directory is popped into the hand of the user interface.              *)
LEMMA PopCopies ==
  ASSUME TypeInv, CopyInv, NEW p \in Pids, hand[p] = {},
         \/ /\ hand' = [hand EXCEPT ![p] = Poppable(draft, p, Alive)]
            /\ draft' = Remaining(draft, p, Alive)
            /\ UNCHANGED outbox
         \/ /\ hand' = [hand EXCEPT ![p] = Poppable(outbox, p, Alive)]
            /\ outbox' = Remaining(outbox, p, Alive)
            /\ UNCHANGED draft,
         UNCHANGED <<cur, smtp, sending, errors, uploads, accepted, settled, gone>>
  PROVE  CopyInv'
<1>0. hand \in [Pids -> SUBSET File] /\ \A f \in draft \cup outbox : f.pid \in Pids
  BY DEF TypeInv, TypeOK, QueuesTypeOK, File
<1>a. \A c, m : ~IsCopy("hand", p, c, m)
  BY DEF IsCopy
<1>1. CASE draft' = Remaining(draft, p, Alive) /\ UNCHANGED outbox
             /\ hand' = [hand EXCEPT ![p] = Poppable(draft, p, Alive)]
  <2>0. PICK dir, newDir : dir = draft /\ newDir = draft'
    OBVIOUS
  <2>1. newDir \subseteq dir /\ \A f : f \in Poppable(dir, p, Alive) <=> f \in dir \ newDir
    BY <1>1, <2>0, PopDivides
  <2>2. \A f : f \in hand'[p] <=> f \in dir \ newDir
    BY <1>0, <1>1, <2>0, <2>1
  <2>3. \A q \in Pids : q # p => hand'[q] = hand[q]
    BY <1>0, <1>1
  <2>4. \A q \in Pids : \A c, m :
          IsCopy("draft", q, c, m) <=> c \in dir /\ c.pid = q /\ c.msg = m
    BY <2>0 DEF IsCopy
  <2>5. \A q \in Pids : \A c, m :
          IsCopy("draft", q, c, m)' <=> c \in newDir /\ c.pid = q /\ c.msg = m
    BY <2>0 DEF IsCopy
  <2>6. \A k \in Kinds, q \in Pids : \A c, m : k \notin {"draft", "hand"} =>
          (IsCopy(k, q, c, m)' <=> IsCopy(k, q, c, m))
    BY <1>1 DEF IsCopy
  <2>7. \A q \in Pids : \A c, m :
          IsCopy("hand", q, c, m)' <=> \/ q = p /\ c \in dir \ newDir /\ c.msg = m
                                       \/ q # p /\ IsCopy("hand", q, c, m)
    BY <2>2, <2>3 DEF IsCopy
  <2>8. Taken(p, "draft", dir, newDir)
    BY <1>0, <1>a, <2>0, <2>1, <2>4, <2>5, <2>6, <2>7 DEF Taken
  <2> QED
    BY <2>8, TakenCopies
<1>2. CASE outbox' = Remaining(outbox, p, Alive) /\ UNCHANGED draft
             /\ hand' = [hand EXCEPT ![p] = Poppable(outbox, p, Alive)]
  <2>0. PICK dir, newDir : dir = outbox /\ newDir = outbox'
    OBVIOUS
  <2>1. newDir \subseteq dir /\ \A f : f \in Poppable(dir, p, Alive) <=> f \in dir \ newDir
    BY <1>2, <2>0, PopDivides
  <2>2. \A f : f \in hand'[p] <=> f \in dir \ newDir
    BY <1>0, <1>2, <2>0, <2>1
  <2>3. \A q \in Pids : q # p => hand'[q] = hand[q]
    BY <1>0, <1>2
  <2>4. \A q \in Pids : \A c, m :
          IsCopy("outbox", q, c, m) <=> c \in dir /\ c.pid = q /\ c.msg = m
    BY <2>0 DEF IsCopy
  <2>5. \A q \in Pids : \A c, m :
          IsCopy("outbox", q, c, m)' <=> c \in newDir /\ c.pid = q /\ c.msg = m
    BY <2>0 DEF IsCopy
  <2>6. \A k \in Kinds, q \in Pids : \A c, m : k \notin {"outbox", "hand"} =>
          (IsCopy(k, q, c, m)' <=> IsCopy(k, q, c, m))
    BY <1>2 DEF IsCopy
  <2>7. \A q \in Pids : \A c, m :
          IsCopy("hand", q, c, m)' <=> \/ q = p /\ c \in dir \ newDir /\ c.msg = m
                                       \/ q # p /\ IsCopy("hand", q, c, m)
    BY <2>2, <2>3 DEF IsCopy
  <2>8. Taken(p, "outbox", dir, newDir)
    BY <1>0, <1>a, <2>0, <2>1, <2>4, <2>5, <2>6, <2>7 DEF Taken
  <2> QED
    BY <2>8, TakenCopies
<1> QED
  BY <1>1, <1>2

LEMMA HandleConnectedCopies ==
  ASSUME TypeInv, CopyInv, NEW p \in Pids, HandleConnected(p) \/ PopOutbox(p)
  PROVE  CopyInv'
<1>1. CASE PopOutbox(p)
  <2>1. /\ hand[p] = {}
        /\ hand' = [hand EXCEPT ![p] = Poppable(outbox, p, Alive)]
        /\ outbox' = Remaining(outbox, p, Alive)
        /\ UNCHANGED <<draft, cur, smtp, sending, errors, uploads, accepted, settled, gone>>
    BY <1>1 DEF PopOutbox, UiStep
  <2> QED
    BY <2>1, PopCopies
<1>2. CASE HandleConnected(p)
  <2>1. /\ hand[p] = {}
        /\ UNCHANGED <<outbox, cur, smtp, sending, errors, uploads, accepted, settled, gone>>
    BY <1>2 DEF HandleConnected, UiAt, UiStep, TypeInv, TypeOK, UiTypeOK
  <2>2. CASE UNCHANGED <<hand, draft>>
    <3>1. \A m \in Msgs, k \in Kinds, q \in Pids : \A c :
            IsCopy(k, q, c, m)' <=> IsCopy(k, q, c, m)
      BY <2>1, <2>2 DEF IsCopy
    <3> QED
      BY <2>1, <3>1, NothingMoves
  <2>3. CASE /\ hand' = [hand EXCEPT ![p] = Poppable(draft, p, Alive)]
             /\ draft' = Remaining(draft, p, Alive)
    BY <2>1, <2>3, PopCopies
  <2> QED
    BY <1>2, <2>2, <2>3, Zenon DEF HandleConnected
<1> QED
  BY <1>1, <1>2

(* What was popped is submitted, the drafts to ImapManager ...             *)
LEMMA SubmitDraftCopies ==
  ASSUME TypeInv, CopyInv, NEW p \in Pids, SubmitDraft(p)
  PROVE  CopyInv'
<1> USE DEF TypeInv, TypeOK, QueuesTypeOK
<1>0. PICK f \in hand[p], x \in Msgs :
        /\ x = f.msg
        /\ hand' = [hand EXCEPT ![p] = @ \ {f}]
        /\ uploads' = [uploads EXCEPT ![p] = <<x>> \o @]
  <2>1. PICK f \in hand[p] : /\ hand' = [hand EXCEPT ![p] = @ \ {f}]
                             /\ uploads' = [uploads EXCEPT ![p] = <<f.msg>> \o @]
    BY DEF SubmitDraft
  <2>2. f.msg \in Msgs
    BY DEF File
  <2> QED
    BY <2>1, <2>2
<1>1. UNCHANGED <<files, cur, smtp, sending, errors, accepted, settled, gone>>
  BY DEF SubmitDraft, UiStep
<1>2. /\ uploads' = [uploads EXCEPT ![p] = uploads'[p]]
      /\ uploads'[p][1] = x /\ 1 \in 1 .. Len(uploads'[p])
      /\ \A j \in 1 .. Len(uploads[p]) :
           j + 1 \in 1 .. Len(uploads'[p]) /\ uploads'[p][j + 1] = uploads[p][j]
      /\ \A j \in 1 .. Len(uploads'[p]) :
           j = 1 \/ (j - 1 \in 1 .. Len(uploads[p]) /\ uploads'[p][j] = uploads[p][j - 1])
  BY <1>0, PushFront
<1>3. IsCopy("hand", p, f, x) /\ "hand" \in Kinds /\ "uploads" \in Kinds
  BY <1>0 DEF IsCopy, Kinds
<1>4. \A m \in Msgs, k \in Kinds, q \in Pids : \A c : IsCopy(k, q, c, m)' =>
        \/ m = x /\ k = "uploads" /\ q = p /\ c = 1
        \/ /\ ~(k = "uploads" /\ q = p) /\ IsCopy(k, q, c, m)
           /\ ~(k = "hand" /\ q = p /\ c = f)
        \/ k = "uploads" /\ q = p /\ c \in Int /\ IsCopy(k, q, c - 1, m)
  BY <1>0, <1>1, <1>2 DEF IsCopy, files
<1>5. \A m \in Msgs, k \in Kinds, q \in Pids : \A c : IsCopy(k, q, c, m) =>
        \/ k = "hand" /\ q = p /\ c = f
        \/ IsCopy(k, q, c, m)'
        \/ k = "uploads" /\ q = p /\ IsCopy(k, q, c + 1, m)'
  <2>1. \A m \in Msgs : \A c : IsCopy("uploads", p, c, m) => IsCopy("uploads", p, c + 1, m)'
    BY <1>2 DEF IsCopy
  <2>2. \A m \in Msgs, k \in Kinds, q \in Pids : \A c :
          IsCopy(k, q, c, m) /\ ~(k = "uploads" /\ q = p) /\ ~(k = "hand" /\ q = p /\ c = f)
            => IsCopy(k, q, c, m)'
    BY <1>0, <1>1, <1>2 DEF IsCopy, files
  <2> QED
    BY <2>1, <2>2
<1>6. IsCopy("uploads", p, 1, x)'
  BY <1>2 DEF IsCopy
<1>7. Leaves("hand", p, f, x, "uploads", p, 1, "uploads", p, "push")
  BY <1>4, <1>5 DEF Leaves, Before, After
<1> QED
  BY <1>1, <1>3, <1>6, <1>7, MovedOn

(* ... and the outgoing messages to SmtpManager.                           *)
LEMMA SubmitOutboxCopies ==
  ASSUME TypeInv, CopyInv, NEW p \in Pids, SubmitOutbox(p)
  PROVE  CopyInv'
<1> USE DEF TypeInv, TypeOK, QueuesTypeOK
<1>1. UNCHANGED <<files, cur, sending, errors, uploads, accepted, settled, gone>>
  BY DEF SubmitOutbox, UiStep
<1>2. CASE hand[p] = {}
  <2>1. \A m \in Msgs, k \in Kinds, q \in Pids : \A c : IsCopy(k, q, c, m)' <=> IsCopy(k, q, c, m)
    BY <1>1, <1>2 DEF SubmitOutbox, IsCopy, files
  <2> QED
    BY <1>1, <2>1, NothingMoves
<1>3. CASE hand[p] # {}
  <2>0. PICK f \in hand[p], x \in Msgs, a \in Action :
          /\ x = f.msg /\ a.msg = x
          /\ hand' = [hand EXCEPT ![p] = @ \ {f}]
          /\ smtp' = [smtp EXCEPT ![p] = <<a>> \o @]
    <3>1. PICK f \in hand[p] :
            /\ hand' = [hand EXCEPT ![p] = @ \ {f}]
            /\ smtp' = [smtp EXCEPT ![p] = <<[msg |-> f.msg, queued |-> TRUE]>> \o @]
      BY <1>3 DEF SubmitOutbox
    <3>2. f.msg \in Msgs
      BY DEF File
    <3>3. [msg |-> f.msg, queued |-> TRUE] \in Action
      BY <3>2 DEF Action
    <3> QED
      BY <3>1, <3>2, <3>3
  <2>2. /\ smtp' = [smtp EXCEPT ![p] = smtp'[p]]
        /\ smtp'[p][1] = a /\ 1 \in 1 .. Len(smtp'[p])
        /\ \A j \in 1 .. Len(smtp[p]) :
             j + 1 \in 1 .. Len(smtp'[p]) /\ smtp'[p][j + 1] = smtp[p][j]
        /\ \A j \in 1 .. Len(smtp'[p]) :
             j = 1 \/ (j - 1 \in 1 .. Len(smtp[p]) /\ smtp'[p][j] = smtp[p][j - 1])
    BY <2>0, PushFront
  <2>3. IsCopy("hand", p, f, x) /\ "hand" \in Kinds /\ "smtp" \in Kinds
    BY <2>0 DEF IsCopy, Kinds
  <2>4. \A m \in Msgs, k \in Kinds, q \in Pids : \A c : IsCopy(k, q, c, m)' =>
          \/ m = x /\ k = "smtp" /\ q = p /\ c = 1
          \/ /\ ~(k = "smtp" /\ q = p) /\ IsCopy(k, q, c, m)
             /\ ~(k = "hand" /\ q = p /\ c = f)
          \/ k = "smtp" /\ q = p /\ c \in Int /\ IsCopy(k, q, c - 1, m)
    <3> SUFFICES ASSUME NEW m \in Msgs, NEW k \in Kinds, NEW q \in Pids, NEW c,
                        IsCopy(k, q, c, m)'
                 PROVE  \/ m = x /\ k = "smtp" /\ q = p /\ c = 1
                        \/ /\ ~(k = "smtp" /\ q = p) /\ IsCopy(k, q, c, m)
                           /\ ~(k = "hand" /\ q = p /\ c = f)
                        \/ k = "smtp" /\ q = p /\ c \in Int /\ IsCopy(k, q, c - 1, m)
      OBVIOUS
    <3>1. CASE k = "smtp"
      <4>1. c \in 1 .. Len(smtp'[q]) /\ smtp'[q][c].msg = m
        BY <3>1 DEF IsCopy
      <4>2. CASE q = p
        BY <2>0, <2>2, <3>1, <4>1, <4>2 DEF IsCopy
      <4>3. CASE q # p
        BY <2>0, <2>2, <3>1, <4>1, <4>3 DEF IsCopy
      <4> QED
        BY <4>2, <4>3
    <3>2. CASE k = "hand"
      BY <2>0, <3>2, NoMsgAssumption DEF IsCopy
    <3>3. CASE k \notin {"smtp", "hand"}
      BY <1>1, <3>3 DEF IsCopy, files
    <3> QED
      BY <3>1, <3>2, <3>3
  <2>5. \A m \in Msgs, k \in Kinds, q \in Pids : \A c : IsCopy(k, q, c, m) =>
          \/ k = "hand" /\ q = p /\ c = f
          \/ IsCopy(k, q, c, m)'
          \/ k = "smtp" /\ q = p /\ IsCopy(k, q, c + 1, m)'
    <3>1. \A m \in Msgs : \A c : IsCopy("smtp", p, c, m) => IsCopy("smtp", p, c + 1, m)'
      BY <2>2 DEF IsCopy
    <3>2. \A m \in Msgs, k \in Kinds, q \in Pids : \A c :
            IsCopy(k, q, c, m) /\ ~(k = "smtp" /\ q = p) /\ ~(k = "hand" /\ q = p /\ c = f)
              => IsCopy(k, q, c, m)'
      BY <1>1, <2>0, <2>2 DEF IsCopy, files
    <3> QED
      BY <3>1, <3>2
  <2>6. IsCopy("smtp", p, 1, x)'
    BY <2>0, <2>2 DEF IsCopy
  <2>7. Leaves("hand", p, f, x, "smtp", p, 1, "smtp", p, "push")
    BY <2>4, <2>5 DEF Leaves, Before, After
  <2> QED
    BY <1>1, <2>3, <2>6, <2>7, MovedOn
<1> QED
  BY <1>2, <1>3

(* The thread of SmtpManager.                                              *)
LEMMA SmtpTakeCopies ==
  ASSUME TypeInv, CopyInv, NEW p \in Pids, SmtpTake(p)
  PROVE  CopyInv'
<1> USE DEF TypeInv, TypeOK, QueuesTypeOK
<1>0. PICK a \in Action, x \in Msgs : a = Head(smtp[p]) /\ a.msg = x
  <2>1. Head(smtp[p]) \in Action
    BY PopFront DEF SmtpTake
  <2> QED
    BY <2>1 DEF Action
<1>1. /\ UNCHANGED <<files, cur, hand, errors, uploads, accepted, settled, gone>>
      /\ sending[p] = <<>>
      /\ sending' = [sending EXCEPT ![p] = <<[action |-> a, status |-> "started"]>>]
  BY <1>0 DEF SmtpTake, SmtpStep, uiVars
<1>2. /\ smtp[p][1] = a /\ 1 \in 1 .. Len(smtp[p])
      /\ smtp' = [smtp EXCEPT ![p] = smtp'[p]]
      /\ \A j \in 1 .. Len(smtp'[p]) :
           j + 1 \in 1 .. Len(smtp[p]) /\ smtp'[p][j] = smtp[p][j + 1]
      /\ \A j \in 1 .. Len(smtp[p]) :
           j = 1 \/ (j - 1 \in 1 .. Len(smtp'[p]) /\ smtp[p][j] = smtp'[p][j - 1])
  <2>1. smtp' = [smtp EXCEPT ![p] = Tail(@)] /\ smtp[p] # <<>>
    BY DEF SmtpTake
  <2> QED
    BY <1>0, <2>1, PopFront
<1>3. IsCopy("smtp", p, 1, x) /\ "smtp" \in Kinds /\ "sending" \in Kinds
  BY <1>0, <1>2 DEF IsCopy, Kinds
<1>4. /\ sending'[p] # <<>> /\ Head(sending'[p]).action = a
      /\ Head(sending'[p]).status = "started"
      /\ \A q \in Pids : q # p => sending'[q] = sending[q]
  BY <1>1
<1>5. \A m \in Msgs, k \in Kinds, q \in Pids : \A c : IsCopy(k, q, c, m)' =>
        \/ m = x /\ k = "sending" /\ q = p /\ c = 1
        \/ ~(k = "smtp" /\ q = p) /\ IsCopy(k, q, c, m)
        \/ k = "smtp" /\ q = p /\ c \in Int /\ IsCopy(k, q, c + 1, m) /\ c + 1 # 1
  <2>1. \A m \in Msgs : \A c : IsCopy("sending", p, c, m)' => m = x /\ c = 1
    BY <1>0, <1>4 DEF IsCopy
  <2>2. \A m \in Msgs : \A c : IsCopy("smtp", p, c, m)' =>
          c \in Int /\ IsCopy("smtp", p, c + 1, m) /\ c + 1 # 1
    <3>1. ASSUME NEW m \in Msgs, NEW c, IsCopy("smtp", p, c, m)'
          PROVE  c \in Int /\ IsCopy("smtp", p, c + 1, m) /\ c + 1 # 1
      <4>1. c \in 1 .. Len(smtp'[p]) /\ smtp'[p][c].msg = m
        BY <3>1 DEF IsCopy
      <4>2. c + 1 \in 1 .. Len(smtp[p]) /\ smtp'[p][c] = smtp[p][c + 1]
        BY <1>2, <4>1
      <4>3. c \in Int /\ c + 1 # 1
        BY <4>1
      <4> QED
        BY <4>1, <4>2, <4>3 DEF IsCopy
    <3> QED
      BY <3>1
  <2>3. \A m \in Msgs, k \in Kinds, q \in Pids : \A c :
          IsCopy(k, q, c, m)' /\ ~(k = "smtp" /\ q = p) /\ ~(k = "sending" /\ q = p)
            => IsCopy(k, q, c, m)
    BY <1>1, <1>2, <1>4 DEF IsCopy, files
  <2> QED
    BY <2>1, <2>2, <2>3
<1>6. \A m \in Msgs, k \in Kinds, q \in Pids : \A c : IsCopy(k, q, c, m) =>
        \/ k = "smtp" /\ q = p /\ c = 1
        \/ IsCopy(k, q, c, m)'
        \/ k = "smtp" /\ q = p /\ IsCopy(k, q, c - 1, m)'
  <2>1. \A m \in Msgs : \A c : IsCopy("smtp", p, c, m) => c = 1 \/ IsCopy("smtp", p, c - 1, m)'
    BY <1>2 DEF IsCopy
  <2>2. \A m \in Msgs, k \in Kinds, q \in Pids : \A c :
          IsCopy(k, q, c, m) /\ ~(k = "smtp" /\ q = p) => IsCopy(k, q, c, m)'
    <3> SUFFICES ASSUME NEW m \in Msgs, NEW k \in Kinds, NEW q \in Pids, NEW c,
                        IsCopy(k, q, c, m), ~(k = "smtp" /\ q = p)
                 PROVE  IsCopy(k, q, c, m)'
      OBVIOUS
    <3>1. CASE k = "smtp"
      BY <1>2, <3>1 DEF IsCopy
    <3>2. CASE k = "sending"
      BY <1>1, <1>4, <3>2 DEF IsCopy
    <3>3. CASE k \notin {"smtp", "sending"}
      BY <1>1, <3>3 DEF IsCopy, files
    <3> QED
      BY <3>1, <3>2, <3>3
  <2> QED
    BY <2>1, <2>2
<1>7. IsCopy("sending", p, 1, x)'
  BY <1>0, <1>4 DEF IsCopy
<1>8. Leaves("smtp", p, 1, x, "sending", p, 1, "smtp", p, "pop")
  BY <1>5, <1>6 DEF Leaves, Before, After
<1> QED
  BY <1>1, <1>3, <1>7, <1>8, MovedOn

LEMMA SmtpOkCopies ==
  ASSUME TypeInv, CopyInv, NEW p \in Pids, SmtpOk(p)
  PROVE  CopyInv'
<1>0. PICK x \in Msgs : x = Head(sending[p]).action.msg
  BY Sending DEF SmtpOk, SmtpAt
<1>1. /\ sending' = [sending EXCEPT ![p][1].status = "ok"]
      /\ sending[p] # <<>> /\ Head(sending[p]).status = "started"
      /\ settled' = settled \cup {x}
      /\ UNCHANGED <<files, cur, hand, smtp, errors, uploads, accepted, gone>>
  BY <1>0 DEF SmtpOk, SmtpAt, SmtpStep, uiVars
<1>2. /\ Head(sending'[p]).status = "ok"
      /\ \A q \in Pids : q # p => sending'[q] = sending[q]
  BY <1>1, StatusChanges DEF TypeInv, TypeOK, QueuesTypeOK
<1>3. IsCopy("sending", p, 1, x) /\ "sending" \in Kinds /\ "none" \notin Kinds
  BY <1>0, <1>1 DEF IsCopy, Kinds
<1>4. \A m \in Msgs, k \in Kinds, q \in Pids : \A c : IsCopy(k, q, c, m)' =>
        IsCopy(k, q, c, m) /\ ~(k = "sending" /\ q = p /\ c = 1)
  BY <1>1, <1>2 DEF IsCopy, files
<1>5. \A m \in Msgs, k \in Kinds, q \in Pids : \A c : IsCopy(k, q, c, m) =>
        (k = "sending" /\ q = p /\ c = 1) \/ IsCopy(k, q, c, m)'
  BY <1>1, <1>2 DEF IsCopy, files
<1>6. Leaves("sending", p, 1, x, "none", p, 1, "none", p, "none")
  BY <1>3, <1>4, <1>5 DEF Leaves
<1> QED
  BY <1>1, <1>3, <1>6, Moved

LEMMA SmtpFailCopies ==
  ASSUME TypeInv, CopyInv, NEW p \in Pids, SmtpFail(p)
  PROVE  CopyInv'
<1>1. /\ sending' = [sending EXCEPT ![p][1].status = "failed"]
      /\ sending[p] # <<>> /\ Head(sending[p]).status = "started"
      /\ UNCHANGED <<files, cur, hand, smtp, errors, uploads, accepted, settled, gone>>
  BY DEF SmtpFail, SmtpAt, SmtpStep, uiVars
<1>2. /\ sending'[p] # <<>>
      /\ Head(sending'[p]).status = "failed"
      /\ Head(sending'[p]).action = Head(sending[p]).action
      /\ \A q \in Pids : q # p => sending'[q] = sending[q]
  BY <1>1, StatusChanges DEF TypeInv, TypeOK, QueuesTypeOK
<1>3. \A m \in Msgs, k \in Kinds, q \in Pids : \A c : IsCopy(k, q, c, m)' <=> IsCopy(k, q, c, m)
  BY <1>1, <1>2 DEF IsCopy, files
<1> QED
  BY <1>1, <1>3, NothingMoves

LEMMA SmtpDoneCopies ==
  ASSUME TypeInv, CopyInv, NEW p \in Pids, SmtpDone(p)
  PROVE  CopyInv'
<1>1. /\ sending' = [sending EXCEPT ![p] = <<>>]
      /\ sending[p] # <<>> /\ Head(sending[p]).status = "ok"
      /\ UNCHANGED <<files, cur, hand, smtp, errors, uploads, accepted, settled, gone>>
  BY DEF SmtpDone, SmtpAt, SmtpStep, uiVars
<1>2. sending'[p] = <<>> /\ \A q \in Pids : q # p => sending'[q] = sending[q]
  BY <1>1 DEF TypeInv, TypeOK, QueuesTypeOK
<1>3. \A m \in Msgs, k \in Kinds, q \in Pids : \A c : IsCopy(k, q, c, m)' <=> IsCopy(k, q, c, m)
  BY <1>1, <1>2 DEF IsCopy, files
<1> QED
  BY <1>1, <1>3, NothingMoves

LEMMA SmtpErrorCopies ==
  ASSUME TypeInv, CopyInv, NEW p \in Pids, SmtpError(p)
  PROVE  CopyInv'
<1> USE DEF TypeInv, TypeOK, QueuesTypeOK
<1>0. PICK a \in Action, x \in Msgs : a = Head(sending[p]).action /\ a.msg = x
  <2>1. Head(sending[p]).action \in Action
    BY Sending DEF SmtpError, SmtpAt
  <2> QED
    BY <2>1 DEF Action
<1>1. /\ sending[p] # <<>> /\ Head(sending[p]).status = "failed"
      /\ sending' = [sending EXCEPT ![p] = <<>>]
      /\ errors' = [errors EXCEPT ![p] = Append(@, a)]
      /\ UNCHANGED <<files, cur, hand, smtp, uploads, accepted, settled, gone>>
  BY <1>0 DEF SmtpError, SmtpAt, SmtpStep, uiVars
<1>2. PICK n : n = Len(errors'[p])
  OBVIOUS
<1>3. /\ errors' = [errors EXCEPT ![p] = errors'[p]]
      /\ errors'[p][n] = a /\ n \in 1 .. Len(errors'[p])
      /\ \A j \in 1 .. Len(errors[p]) : j \in 1 .. Len(errors'[p]) /\ errors'[p][j] = errors[p][j]
      /\ \A j \in 1 .. Len(errors'[p]) :
           j = n \/ (j \in 1 .. Len(errors[p]) /\ errors'[p][j] = errors[p][j])
  BY <1>1, <1>2, PushBack
<1>4. sending'[p] = <<>> /\ \A q \in Pids : q # p => sending'[q] = sending[q]
  BY <1>1
<1>5. IsCopy("sending", p, 1, x) /\ "sending" \in Kinds /\ "errors" \in Kinds
  BY <1>0, <1>1 DEF IsCopy, Kinds
<1>6. \A m \in Msgs, k \in Kinds, q \in Pids : \A c : IsCopy(k, q, c, m)' =>
        \/ m = x /\ k = "errors" /\ q = p /\ c = n
        \/ IsCopy(k, q, c, m) /\ ~(k = "sending" /\ q = p /\ c = 1)
  BY <1>0, <1>1, <1>3, <1>4 DEF IsCopy, files
<1>7. \A m \in Msgs, k \in Kinds, q \in Pids : \A c : IsCopy(k, q, c, m) =>
        (k = "sending" /\ q = p /\ c = 1) \/ IsCopy(k, q, c, m)'
  BY <1>1, <1>3, <1>4 DEF IsCopy, files
<1>8. IsCopy("errors", p, n, x)'
  BY <1>0, <1>3 DEF IsCopy
<1>9. Leaves("sending", p, 1, x, "errors", p, n, "none", p, "none")
  BY <1>6, <1>7 DEF Leaves, Kinds
<1> QED
  BY <1>1, <1>5, <1>8, <1>9, MovedOn

(* The upload of a draft: to the server, or back to the directory.         *)
LEMMA UploadCopies ==
  ASSUME TypeInv, CopyInv, NEW p \in Pids, Upload(p)
  PROVE  CopyInv'
<1>0. PICK x \in Msgs : x = Head(uploads[p])
  BY PopFront DEF Upload, UploadOk, UploadFailed, TypeInv, TypeOK, QueuesTypeOK
<1>1. /\ uploads[p] # <<>> /\ uploads' = [uploads EXCEPT ![p] = Tail(@)]
      /\ UNCHANGED <<outbox, cur, hand, smtp, sending, errors, accepted, gone>>
  BY DEF Upload, UploadOk, UploadFailed, UploadStep, uiVars, smtpVars
<1>2. /\ uploads[p][1] = x /\ 1 \in 1 .. Len(uploads[p])
      /\ uploads' = [uploads EXCEPT ![p] = uploads'[p]]
      /\ \A j \in 1 .. Len(uploads'[p]) :
           j + 1 \in 1 .. Len(uploads[p]) /\ uploads'[p][j] = uploads[p][j + 1]
      /\ \A j \in 1 .. Len(uploads[p]) :
           j = 1 \/ (j - 1 \in 1 .. Len(uploads'[p]) /\ uploads[p][j] = uploads'[p][j - 1])
  BY <1>0, <1>1, PopFront DEF TypeInv, TypeOK, QueuesTypeOK
<1>3. IsCopy("uploads", p, 1, x) /\ "uploads" \in Kinds /\ "none" \notin Kinds /\ "draft" \in Kinds
  BY <1>2 DEF IsCopy, Kinds
<1>a. uploads \in [Pids -> Seq(Msgs)]
  BY DEF TypeInv, TypeOK, QueuesTypeOK
<1>4. \A m \in Msgs, k \in Kinds, q \in Pids : \A c : IsCopy(k, q, c, m)' =>
        \/ k = "draft" /\ c \in draft' \ draft /\ c.pid = q /\ c.msg = m
        \/ ~(k = "uploads" /\ q = p) /\ IsCopy(k, q, c, m)
        \/ k = "uploads" /\ q = p /\ c \in Int /\ IsCopy(k, q, c + 1, m) /\ c + 1 # 1
  BY <1>a, <1>1, <1>2 DEF IsCopy
<1>5. ASSUME draft \subseteq draft'
      PROVE  \A m \in Msgs, k \in Kinds, q \in Pids : \A c : IsCopy(k, q, c, m) =>
               \/ k = "uploads" /\ q = p /\ c = 1
               \/ IsCopy(k, q, c, m)'
               \/ k = "uploads" /\ q = p /\ IsCopy(k, q, c - 1, m)'
  <2>1. \A m \in Msgs : \A c :
          IsCopy("uploads", p, c, m) => c = 1 \/ IsCopy("uploads", p, c - 1, m)'
    BY <1>2 DEF IsCopy
  <2>2. \A m \in Msgs, k \in Kinds, q \in Pids : \A c :
          IsCopy(k, q, c, m) /\ ~(k = "uploads" /\ q = p) => IsCopy(k, q, c, m)'
    BY <1>a, <1>1, <1>2, <1>5 DEF IsCopy
  <2> QED
    BY <2>1, <2>2
<1>6. CASE UploadOk(p)
  <2>1. draft' = draft /\ settled' = settled \cup {x}
    BY <1>0, <1>6 DEF UploadOk
  <2>2. Leaves("uploads", p, 1, x, "none", p, 1, "uploads", p, "pop")
    BY <1>4, <1>5, <2>1 DEF Leaves, Before, After
  <2> QED
    BY <1>1, <1>3, <2>1, <2>2, Moved
<1>7. CASE UploadFailed(p)
  <2>1. draft' = Push(draft, p, x) /\ settled' = settled
    BY <1>0, <1>7 DEF UploadFailed
  <2>2. PICK f \in File : f.pid = p /\ f.msg = x /\ Push(draft, p, x) = draft \cup {f}
    BY OutgoingPushTypes
  <2>3. \A c \in draft' \ draft : c = f
    BY <2>1, <2>2
  <2>4. Leaves("uploads", p, 1, x, "draft", p, f, "uploads", p, "pop")
    BY <1>4, <1>5, <2>1, <2>2, <2>3 DEF Leaves, Before, After
  <2>5. IsCopy("draft", p, f, x)'
    BY <2>1, <2>2 DEF IsCopy
  <2> QED
    BY <1>1, <1>3, <2>1, <2>4, <2>5, MovedOn
<1> QED
  BY <1>6, <1>7 DEF Upload

(* What a process has in memory when it ends is gone.                      *)
LEMMA EndCopies ==
  ASSUME TypeInv, CopyInv, NEW p \in Pids, End(p)
  PROVE  CopyInv'
<1> USE DEF TypeInv, TypeOK, UiTypeOK, QueuesTypeOK
<1>1. /\ gone' = gone \cup InMemory(p)
      /\ cur' = [cur EXCEPT ![p] = NoMsg]
      /\ hand' = [hand EXCEPT ![p] = {}]
      /\ smtp' = [smtp EXCEPT ![p] = <<>>]
      /\ sending' = [sending EXCEPT ![p] = <<>>]
      /\ errors' = [errors EXCEPT ![p] = <<>>]
      /\ uploads' = [uploads EXCEPT ![p] = <<>>]
      /\ UNCHANGED <<files, accepted, settled>>
  BY DEF End
<1>2. \A m \in Msgs, k \in Kinds, q \in Pids : \A c : IsCopy(k, q, c, m)' => IsCopy(k, q, c, m)
  BY <1>1, NoMsgAssumption DEF IsCopy, files
<1>3. \A m \in Msgs, k \in Kinds, q \in Pids : \A c :
        IsCopy(k, q, c, m) /\ ~IsCopy(k, q, c, m)'
          => q = p /\ k \in {"cur", "hand", "smtp", "sending", "errors", "uploads"}
  BY <1>1 DEF IsCopy, files
<1>4. ASSUME NEW m \in Msgs, NEW c, NEW k \in {"cur", "hand", "smtp", "errors", "uploads"},
             IsCopy(k, p, c, m)
      PROVE  m \in InMemory(p)
  BY <1>4, NoMsgAssumption DEF IsCopy, InMemory
<1>5. ASSUME NEW m \in Msgs, NEW c, IsCopy("sending", p, c, m)
      PROVE  m \in InMemory(p)
  <2>1. /\ 1 \in 1 .. Len(sending[p]) /\ sending[p][1].action.msg = m
        /\ sending[p][1].status # "ok"
    BY <1>5, Sending DEF IsCopy
  <2> QED
    BY <2>1 DEF InMemory
<1> SUFFICES ASSUME NEW m \in Msgs PROVE MessageInv(m)'
  BY DEF CopyInv
<1>6. MessageInv(m)
  BY DEF CopyInv
<1>7. Single(m)'
  BY <1>2, <1>6 DEF MessageInv, Single
<1>8. Somewhere(m)' => Somewhere(m)
  BY <1>2 DEF Somewhere
<1>9. Somewhere(m) => Somewhere(m)' \/ m \in InMemory(p)
  <2> SUFFICES ASSUME NEW k \in Kinds, NEW q \in Pids, NEW c, IsCopy(k, q, c, m)
               PROVE  Somewhere(m)' \/ m \in InMemory(p)
    BY DEF Somewhere
  <2>1. CASE IsCopy(k, q, c, m)'
    BY <2>1 DEF Somewhere
  <2>2. CASE ~IsCopy(k, q, c, m)'
    <3>1. q = p /\ k \in {"cur", "hand", "smtp", "sending", "errors", "uploads"}
      BY <1>3, <2>2
    <3> QED
      BY <1>4, <1>5, <3>1
  <2> QED
    BY <2>1, <2>2
<1> QED
  BY <1>1, <1>6, <1>7, <1>8, <1>9 DEF MessageInv

LEMMA CopyInvPreserved == TypeInv /\ CopyInv /\ [Next]_vars => CopyInv'
<1>1. ASSUME CopyInv,
             UNCHANGED <<files, cur, hand, smtp, sending, errors, uploads, accepted, settled,
                         gone>>
      PROVE  CopyInv'
  <2>1. \A m \in Msgs, k \in Kinds, q \in Pids : \A c : IsCopy(k, q, c, m)' <=> IsCopy(k, q, c, m)
    BY <1>1 DEF IsCopy, files
  <2> QED
    BY <1>1, <2>1, NothingMoves
<1>2. ASSUME CopyInv, UNCHANGED vars
      PROVE  CopyInv'
  BY <1>1, <1>2 DEF vars, uiVars, smtpVars, history
<1>3. ASSUME CopyInv, NEW p \in Pids,
             \/ Start(p) \/ Connect(p) \/ Disconnect(p) \/ Quit(p) \/ Wake(p) \/ Answer(p)
      PROVE  CopyInv'
  BY <1>1, <1>3 DEF Start, Connect, Disconnect, StatusStep, Quit, Wake, Answer, UiStep,
                    uiVars, smtpVars, history
<1>4. ASSUME TypeInv, CopyInv, NEW p \in Pids, UiThread(p)
      PROVE  CopyInv'
  BY <1>3, <1>4, SendCopies, QueueCopies, StoreCopies, QueueDraftCopies, HandleErrorCopies,
     HandleConnectedCopies, SubmitDraftCopies, SubmitOutboxCopies DEF UiThread
<1>5. ASSUME TypeInv, CopyInv, NEW p \in Pids, SmtpThread(p)
      PROVE  CopyInv'
  BY <1>5, SmtpTakeCopies, SmtpOkCopies, SmtpFailCopies, SmtpDoneCopies, SmtpErrorCopies
     DEF SmtpThread
<1> QED
  BY <1>2, <1>3, <1>4, <1>5, BeginCopies, UploadCopies, EndCopies DEF Next, Terminated

(* The set of places that the properties speak of has the same copies.     *)
LEMMA CopiesAre ==
  ASSUME NEW m, NEW c \in Copies(m)
  PROVE  \/ \E f \in outbox : c = <<"outbox", f>> /\ f.msg = m
         \/ \E f \in draft : c = <<"draft", f>> /\ f.msg = m
         \/ \E p \in Pids : c = <<"cur", p>> /\ cur[p] = m
         \/ \E p \in Pids : c \in CopiesIn(p, m)
BY DEF Copies

LEMMA CopiesInAre ==
  ASSUME NEW p, NEW m, NEW c \in CopiesIn(p, m)
  PROVE  \/ \E f \in hand[p] : c = <<"hand", p, f>> /\ f.msg = m
         \/ \E j \in 1 .. Len(smtp[p]) : c = <<"smtp", p, j>> /\ smtp[p][j].msg = m
         \/ \E j \in 1 .. Len(sending[p]) :
              /\ c = <<"sending", p, j>> /\ sending[p][j].action.msg = m
              /\ sending[p][j].status # "ok"
         \/ \E j \in 1 .. Len(errors[p]) : c = <<"errors", p, j>> /\ errors[p][j].msg = m
         \/ \E j \in 1 .. Len(uploads[p]) : c = <<"uploads", p, j>> /\ uploads[p][j] = m
BY DEF CopiesIn

Place(k, p, c) ==
  IF k \in {"outbox", "draft"} THEN <<k, c>>
  ELSE IF k = "cur" THEN <<k, p>> ELSE <<k, p, c>>

LEMMA CopyHasPlace ==
  ASSUME TypeInv, NEW m \in Msgs, NEW c \in Copies(m)
  PROVE  \E k \in Kinds, p \in Pids : \E x : IsCopy(k, p, x, m) /\ c = Place(k, p, x)
<1> DEFINE Goal == \E k \in Kinds, p \in Pids : \E x : IsCopy(k, p, x, m) /\ c = Place(k, p, x)
<1>0. \A f \in outbox \cup draft : f.pid \in Pids
  BY DEF TypeInv, TypeOK, QueuesTypeOK, File
<1>1. ASSUME NEW k \in Kinds, NEW p \in Pids, NEW x, IsCopy(k, p, x, m), c = Place(k, p, x)
      PROVE  Goal
  BY <1>1
<1> HIDE DEF Goal
<1>2. CASE \E f \in outbox : c = <<"outbox", f>> /\ f.msg = m
  <2>1. PICK f \in outbox : c = <<"outbox", f>> /\ f.msg = m
    BY <1>2
  <2>2. IsCopy("outbox", f.pid, f, m) /\ c = Place("outbox", f.pid, f) /\ "outbox" \in Kinds
    BY <2>1 DEF IsCopy, Place, Kinds
  <2> QED
    BY <1>0, <1>1, <2>2
<1>3. CASE \E f \in draft : c = <<"draft", f>> /\ f.msg = m
  <2>1. PICK f \in draft : c = <<"draft", f>> /\ f.msg = m
    BY <1>3
  <2>2. IsCopy("draft", f.pid, f, m) /\ c = Place("draft", f.pid, f) /\ "draft" \in Kinds
    BY <2>1 DEF IsCopy, Place, Kinds
  <2> QED
    BY <1>0, <1>1, <2>2
<1>4. CASE \E p \in Pids : c = <<"cur", p>> /\ cur[p] = m
  <2>1. PICK p \in Pids : c = <<"cur", p>> /\ cur[p] = m
    BY <1>4
  <2>2. IsCopy("cur", p, p, m) /\ c = Place("cur", p, p) /\ "cur" \in Kinds
    BY <2>1 DEF IsCopy, Place, Kinds
  <2> QED
    BY <1>1, <2>2
<1>5. CASE \E p \in Pids : c \in CopiesIn(p, m)
  <2>1. PICK p \in Pids : c \in CopiesIn(p, m)
    BY <1>5
  <2>2. CASE \E f \in hand[p] : c = <<"hand", p, f>> /\ f.msg = m
    <3>1. PICK f \in hand[p] : c = <<"hand", p, f>> /\ f.msg = m
      BY <2>2
    <3>2. IsCopy("hand", p, f, m) /\ c = Place("hand", p, f) /\ "hand" \in Kinds
      BY <3>1 DEF IsCopy, Place, Kinds
    <3> QED
      BY <1>1, <3>2
  <2>3. CASE \E j \in 1 .. Len(smtp[p]) : c = <<"smtp", p, j>> /\ smtp[p][j].msg = m
    <3>1. PICK j \in 1 .. Len(smtp[p]) : c = <<"smtp", p, j>> /\ smtp[p][j].msg = m
      BY <2>3
    <3>2. IsCopy("smtp", p, j, m) /\ c = Place("smtp", p, j) /\ "smtp" \in Kinds
      BY <3>1 DEF IsCopy, Place, Kinds
    <3> QED
      BY <1>1, <3>2
  <2>4. CASE \E j \in 1 .. Len(sending[p]) :
               /\ c = <<"sending", p, j>> /\ sending[p][j].action.msg = m
               /\ sending[p][j].status # "ok"
    <3>1. PICK j \in 1 .. Len(sending[p]) :
                /\ c = <<"sending", p, j>> /\ sending[p][j].action.msg = m
                /\ sending[p][j].status # "ok"
      BY <2>4
    <3>2. j = 1 /\ sending[p] # <<>>
      BY DEF TypeInv, TypeOK, QueuesTypeOK
    <3>3. Head(sending[p]) = sending[p][1]
      BY <3>2, Sending
    <3>4. IsCopy("sending", p, 1, m) /\ c = Place("sending", p, 1) /\ "sending" \in Kinds
      BY <3>1, <3>2, <3>3 DEF IsCopy, Place, Kinds
    <3> QED
      BY <1>1, <3>4
  <2>5. CASE \E j \in 1 .. Len(errors[p]) : c = <<"errors", p, j>> /\ errors[p][j].msg = m
    <3>1. PICK j \in 1 .. Len(errors[p]) : c = <<"errors", p, j>> /\ errors[p][j].msg = m
      BY <2>5
    <3>2. IsCopy("errors", p, j, m) /\ c = Place("errors", p, j) /\ "errors" \in Kinds
      BY <3>1 DEF IsCopy, Place, Kinds
    <3> QED
      BY <1>1, <3>2
  <2>6. CASE \E j \in 1 .. Len(uploads[p]) : c = <<"uploads", p, j>> /\ uploads[p][j] = m
    <3>1. PICK j \in 1 .. Len(uploads[p]) : c = <<"uploads", p, j>> /\ uploads[p][j] = m
      BY <2>6
    <3>2. IsCopy("uploads", p, j, m) /\ c = Place("uploads", p, j) /\ "uploads" \in Kinds
      BY <3>1 DEF IsCopy, Place, Kinds
    <3> QED
      BY <1>1, <3>2
  <2> QED
    BY <2>1, <2>2, <2>3, <2>4, <2>5, <2>6, CopiesInAre
<1> QED
  BY <1>2, <1>3, <1>4, <1>5, CopiesAre DEF Goal

LEMMA SomewhereHasCopy ==
  ASSUME TypeInv, NEW m \in Msgs, Somewhere(m)
  PROVE  Copies(m) # {}
<1>1a. PICK k \in Kinds, p \in Pids : \E c : IsCopy(k, p, c, m)
  BY DEF Somewhere
<1>1. PICK c : IsCopy(k, p, c, m)
  BY <1>1a
<1>2. CASE k = "outbox"
  <2>1. c \in outbox /\ c.msg = m
    BY <1>1, <1>2 DEF IsCopy
  <2>2. <<"outbox", c>> \in Copies(m)
    BY <2>1 DEF Copies
  <2> QED
    BY <2>2
<1>3. CASE k = "draft"
  BY <1>1, <1>3 DEF IsCopy, Copies
<1>4. CASE k = "cur"
  BY <1>1, <1>4 DEF IsCopy, Copies
<1>5. ASSUME CopiesIn(p, m) # {}
      PROVE  Copies(m) # {}
  <2>1. \A x \in CopiesIn(p, m) : x \in UNION {CopiesIn(q, m) : q \in Pids}
    OBVIOUS
  <2> QED
    BY <1>5, <2>1 DEF Copies
<1>6. CASE k = "hand"
  <2>1. <<"hand", p, c>> \in CopiesIn(p, m)
    BY <1>1, <1>6 DEF IsCopy, CopiesIn
  <2> QED
    BY <1>5, <2>1
<1>7. CASE k = "smtp"
  <2>1. <<"smtp", p, c>> \in CopiesIn(p, m)
    BY <1>1, <1>7 DEF IsCopy, CopiesIn
  <2> QED
    BY <1>5, <2>1
<1>8. CASE k = "sending"
  <2>1. /\ 1 \in 1 .. Len(sending[p]) /\ sending[p][1].action.msg = m
        /\ sending[p][1].status # "ok"
    BY <1>1, <1>8, Sending DEF IsCopy
  <2>2. <<"sending", p, 1>> \in CopiesIn(p, m)
    BY <2>1 DEF CopiesIn
  <2> QED
    BY <1>5, <2>2
<1>9. CASE k = "errors"
  <2>1. <<"errors", p, c>> \in CopiesIn(p, m)
    BY <1>1, <1>9 DEF IsCopy, CopiesIn
  <2> QED
    BY <1>5, <2>1
<1>10. CASE k = "uploads"
  <2>1. <<"uploads", p, c>> \in CopiesIn(p, m)
    BY <1>1, <1>10 DEF IsCopy, CopiesIn
  <2> QED
    BY <1>5, <2>1
<1> QED
  BY <1>2, <1>3, <1>4, <1>6, <1>7, <1>8, <1>9, <1>10 DEF Kinds

LEMMA CopyInvProperties ==
  ASSUME TypeInv, CopyInv
  PROVE  OneCopy /\ NothingLost
<1>1. ASSUME NEW m \in Msgs, NEW c \in Copies(m), NEW d \in Copies(m)
      PROVE  c = d
  <2>1a. PICK k \in Kinds, p \in Pids : \E x : IsCopy(k, p, x, m) /\ c = Place(k, p, x)
    BY CopyHasPlace
  <2>1. PICK x : IsCopy(k, p, x, m) /\ c = Place(k, p, x)
    BY <2>1a
  <2>2a. PICK l \in Kinds, q \in Pids : \E y : IsCopy(l, q, y, m) /\ d = Place(l, q, y)
    BY CopyHasPlace
  <2>2. PICK y : IsCopy(l, q, y, m) /\ d = Place(l, q, y)
    BY <2>2a
  <2>3. k = l /\ p = q /\ x = y
    BY <2>1, <2>2 DEF CopyInv, MessageInv, Single
  <2> QED
    BY <2>1, <2>2, <2>3
<1>2. ASSUME NEW m \in Msgs, m \in settled, NEW c \in Copies(m)
      PROVE  FALSE
  <2>1. ~Somewhere(m)
    BY <1>2 DEF CopyInv, MessageInv
  <2> QED
    BY <1>2, <2>1, CopyHasPlace DEF Somewhere
<1>3. ASSUME DraftsFolder, NEW m \in accepted
      PROVE  m \in settled \cup gone \/ Copies(m) # {}
  <2>1. m \in Msgs
    BY DEF TypeInv, TypeOK
  <2> QED
    BY <1>3, <2>1, SomewhereHasCopy DEF CopyInv, MessageInv
<1>4. OneCopy
  BY <1>1, <1>2 DEF OneCopy
<1>5. NothingLost
  BY <1>3 DEF NothingLost
<1> QED
  BY <1>4, <1>5

(* A message is at one place at a time, and nowhere once it was sent or    *)
(* stored: it is not sent twice (ui.cpp, smtpmanager.cpp, offlinequeue.cpp).*)
THEOREM OneCopyAlways == Spec => []OneCopy
BY InitTypeInv, InitCopyInv, TypeInvPreserved, CopyInvPreserved, CopyInvProperties, PTL DEF Spec

(* With a drafts folder, a message that was accepted is sent, stored, or   *)
(* still on its way, but for what a process has in memory when it ends     *)
(* (SmtpResultHandlerError() and ResultHandler() in ui.cpp).               *)
THEOREM NothingIsLost == Spec => []NothingLost
BY InitTypeInv, InitCopyInv, TypeInvPreserved, CopyInvPreserved, CopyInvProperties, PTL DEF Spec

=============================================================================
