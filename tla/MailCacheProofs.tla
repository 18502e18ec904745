--------------------------- MODULE MailCacheProofs ---------------------------
(***************************************************************************)
(* Three theorems on MailCache: every variable keeps its type, the cache   *)
(* never mixes the messages of two validities, and the view is always      *)
(* going to be told of a new one.  Each of the last two comes from an      *)
(* inductive strengthening of its own.                                     *)
(***************************************************************************)
EXTENDS MailCache, TLAPS

USE BoundsAssumption DEF Uids, Absent, Validity, Rows, NoRows, Message, Kinds,
  Request

(* The initial states have their types.                                    *)
LEMMA TypeInit == Init => TypeOK
<1> SUFFICES ASSUME Init PROVE TypeOK
  OBVIOUS
<1>0. FlagsOK
  BY Zenon DEF Init, FlagsOK
<1>1. FolderOK
  BY DEF Init, FolderOK, BlankCache
<1>2. ThreadOK
  BY DEF Init, ThreadOK, NoRequest, NewRequest
<1>3. UiOK
  BY DEF Init, UiOK, NoReader, BlankView, NoRequest, NewRequest
<1>4. HistoryOK
  BY DEF Init, HistoryOK
<1> QED
  BY <1>0, <1>1, <1>2, <1>3, <1>4 DEF TypeOK

(* A step leaves the Boolean variables Boolean.                            *)
LEMMA FlagsPreserved ==
  ASSUME FlagsOK, Next
  PROVE  FlagsOK'
<1> USE Zenon DEF FlagsOK, At
<1> USE DEF sessionVars, threadVars, answerVars, uiVars, history
<1>1. CASE Arrive
  BY <1>1 DEF Arrive, ServerStep
<1>2. CASE Renumber
  BY <1>2 DEF Renumber, ServerStep
<1>3. CASE SelectOther
  BY <1>3 DEF SelectOther, SessionStep
<1>4. CASE AskUids
  BY <1>4 DEF AskUids, UiStep
<1>5. CASE AskHeaders
  BY <1>5 DEF AskHeaders, UiStep
<1>6. CASE CacheRead
  BY <1>6 DEF CacheRead, ReaderStep, AnswerStep
<1>7. CASE CacheAnswer
  BY <1>7 DEF CacheAnswer, ReaderStep, AnswerStep
<1>8. CASE Restart
  BY <1>8 DEF Restart, HandsFree
<1>9. CASE Take
  BY <1>9 DEF Take, Begin
<1>10. CASE TakeIdle
  BY <1>10 DEF TakeIdle, Begin
<1>11. CASE Reconnect
  BY <1>11 DEF Reconnect, SessionStep
<1>12. CASE Select
  BY <1>12 DEF Select, CacheStep
<1>13. CASE SelectFails
  BY <1>13 DEF SelectFails, CommandFails, RequestFails, HandsFree
<1>14. CASE ClearHeaders
  BY <1>14 DEF ClearHeaders, ClearStep, CacheStep
<1>15. CASE ClearBodys
  BY <1>15 DEF ClearBodys, ClearStep, CacheStep
<1>16. CASE ClearUids
  BY <1>16 DEF ClearUids, ClearStep, CacheStep
<1>17. CASE FetchUids
  BY <1>17 DEF FetchUids, FetchStep, FetchSucceeds
<1>18. CASE FetchUidsFails
  BY <1>18 DEF FetchUidsFails, FetchStep, CommandFails, RequestFails, HandsFree
<1>19. CASE SetUids
  BY <1>19 DEF SetUids, CacheStep
<1>20. CASE DropBodys
  BY <1>20 DEF DropBodys, CacheStep
<1>21. CASE DropHeaders
  BY <1>21 DEF DropHeaders, CacheStep
<1>22. CASE FetchRows
  BY <1>22 DEF FetchRows, FetchStep, FetchSucceeds
<1>23. CASE FetchRowsFails
  BY <1>23 DEF FetchRowsFails, FetchStep, CommandFails, RequestFails, HandsFree
<1>24. CASE Move
  BY <1>24 DEF Move, ActionStep, Returned
<1>25. CASE MoveFails
  BY <1>25 DEF MoveFails, ActionStep, CommandFails
<1>26. CASE Copy
  BY <1>26 DEF Copy, ActionStep, Returned
<1>27. CASE CopyFails
  BY <1>27 DEF CopyFails, ActionStep, CommandFails
<1>28. CASE Store
  BY <1>28 DEF Store, ActionStep, Returned
<1>29. CASE StoreFails
  BY <1>29 DEF StoreFails, ActionStep, CommandFails
<1>30. CASE ExpungeFlagged
  BY <1>30 DEF ExpungeFlagged, ActionStep, Returned
<1>31. CASE ExpungeFails
  BY <1>31 DEF ExpungeFails, ActionStep, CommandFails
<1>32. CASE DeleteUids
  BY <1>32 DEF DeleteUids, CacheStep
<1>33. CASE DeleteHeaders
  BY <1>33 DEF DeleteHeaders, CacheStep
<1>34. CASE DeleteBodys
  BY <1>34 DEF DeleteBodys, CacheStep
<1>35. CASE Result
  BY <1>35 DEF Result, HandsFree
<1>36. CASE Answer
  BY <1>36 DEF Answer, HandsFree, AnswerStep
<1>37. ASSUME NEW u \in Uids, Expunged(u)
       PROVE  FlagsOK'
  BY <1>37 DEF Expunged, ServerStep
<1>38. ASSUME NEW u \in Uids, AskBody(u)
       PROVE  FlagsOK'
  BY <1>38 DEF AskBody, UiStep
<1>39. ASSUME NEW u \in Uids, MoveToTrash(u)
       PROVE  FlagsOK'
  BY <1>39 DEF MoveToTrash, UiStep
<1> QED
  BY <1>1, <1>2, <1>3, <1>4, <1>5, <1>6, <1>7, <1>8, <1>9, <1>10, <1>11,
     <1>12, <1>13, <1>14, <1>15, <1>16, <1>17, <1>18, <1>19, <1>20, <1>21,
     <1>22, <1>23, <1>24, <1>25, <1>26, <1>27, <1>28, <1>29, <1>30, <1>31,
     <1>32, <1>33, <1>34, <1>35, <1>36, <1>37, <1>38,
     <1>39
     DEF Next, ProcessThread, CacheThread, Environment, UserInterface

(* What a request finds in the cache is a set of rows.                     *)
LEMMA CachedRowsType ==
  ASSUME FolderOK, NEW r \in Request
  PROVE  CachedRows(r) \in Rows
  BY DEF CachedRows, OfKind, FolderOK

(* Rows stay rows when some of them are deleted, ...                       *)
LEMMA WithoutType ==
  ASSUME NEW r \in Rows, NEW uids
  PROVE  Without(r, uids) \in Rows
  BY DEF Without

(* ... and when fetched ones are added.                                    *)
LEMMA FilledType ==
  ASSUME FolderOK, NEW r \in Rows
  PROVE  Filled(r) \in Rows
  BY DEF Filled, FolderOK

(* The messages that the server has for some uids are messages.            *)
LEMMA HereType ==
  ASSUME FolderOK, NEW uids
  PROVE  Here(uids) \in SUBSET Message
  BY DEF Here, FolderOK

(* The folder of the server keeps its type when the flagged messages are   *)
(* expunged.                                                               *)
LEMMA ExpungeType ==
  ASSUME FolderOK, Expunge
  PROVE  server' \in [validity : Validity, uids : SUBSET Uids,
                     flagged : SUBSET Uids, next : 1 .. MaxUid + 1]
<1>1. CASE selected
  <2>1. server' = [server EXCEPT !.uids = @ \ server.flagged,
                                 !.flagged = @ \ server.flagged]
    BY <1>1 DEF Expunge, Erased
  <2> QED
    BY <2>1 DEF FolderOK
<1>2. CASE ~selected
  BY <1>2 DEF Expunge, FolderOK
<1> QED
  BY <1>1, <1>2

(* The type of the view, as UiOK has it. *)
ViewType ==
  [uids : SUBSET Uids, headers : Rows, requestedUids : BOOLEAN,
   requestedHeaders : SUBSET Uids, requestedBodys : SUBSET Uids]

(* The view keeps its type when it is given uids, with a report of a new   *)
(* validity or without, ...                                                *)
LEMMA ShowUidsType ==
  ASSUME view \in ViewType, NEW uids \in SUBSET Uids, NEW uidInvalid \in BOOLEAN,
         ShowUids(uids, uidInvalid)
  PROVE  view' \in ViewType
<1> DEFINE old == IF uidInvalid
                  THEN [BlankView EXCEPT !.requestedUids = view.requestedUids]
                  ELSE view
<1>1. old \in ViewType
  BY DEF ViewType, BlankView
<1>2. view' = [old EXCEPT !.uids = uids, !.headers = Without(@, old.uids \ uids)]
  BY DEF ShowUids
<1>3. Without(old.headers, old.uids \ uids) \in Rows
  BY <1>1, WithoutType DEF ViewType
<1> HIDE DEF old
<1> QED
  BY <1>1, <1>2, <1>3 DEF ViewType

(* ... and when it is given headers.                                       *)
LEMMA ShowHeadersType ==
  ASSUME view \in ViewType, NEW r \in Rows, ShowHeaders(r)
  PROVE  view' \in ViewType
  BY DEF ShowHeaders, ViewType

(* What Process() puts back into its queues is a request.                  *)
LEMMA RetriedType ==
  ASSUME ThreadOK
  PROVE  Retried \subseteq Request /\ ActionRetried \subseteq Request
  BY DEF Retried, ActionRetried, ThreadOK

(* A step preserves the types of the folder on the server and in the       *)
(* cache.                                                                  *)
LEMMA FolderPreserved ==
  ASSUME TypeOK, Next
  PROVE  FolderOK'
<1> USE DEF TypeOK, FolderOK, At
<1> USE DEF sessionVars, threadVars, answerVars, uiVars, history
<1>1. CASE Arrive
  <2>1. server.next \in 1 .. MaxUid /\ server.uids \subseteq Uids
    BY <1>1 DEF Arrive
  <2>2. server.next + 1 \in 1 .. MaxUid + 1
    BY <2>1
  <2>3. server' = [server EXCEPT !.uids = @ \cup {server.next},
                                 !.next = server.next + 1]
    BY <1>1 DEF Arrive
  <2>4. UNCHANGED db
    BY <1>1 DEF Arrive, ServerStep
  <2> QED
    BY <2>1, <2>2, <2>3, <2>4
<1>2. CASE Renumber
  BY <1>2 DEF Renumber, ServerStep
<1>3. CASE SelectOther
  BY <1>3 DEF SelectOther, SessionStep
<1>4. CASE AskUids
  BY <1>4 DEF AskUids, UiStep
<1>5. CASE AskHeaders
  BY <1>5 DEF AskHeaders, UiStep
<1>6. CASE CacheRead
  BY <1>6 DEF CacheRead, ReaderStep, AnswerStep
<1>7. CASE CacheAnswer
  BY <1>7 DEF CacheAnswer, ReaderStep, AnswerStep
<1>8. CASE Restart
  BY <1>8 DEF Restart, HandsFree
<1>9. CASE Take
  BY <1>9 DEF Take, Begin
<1>10. CASE TakeIdle
  BY <1>10 DEF TakeIdle, Begin
<1>11. CASE Reconnect
  BY <1>11 DEF Reconnect, SessionStep
<1>12. CASE Select
  BY <1>12 DEF Select, CacheStep
<1>13. CASE SelectFails
  BY <1>13 DEF SelectFails, CommandFails, RequestFails, HandsFree
<1>14. CASE ClearHeaders
  BY <1>14 DEF ClearHeaders, ClearStep, CacheStep
<1>15. CASE ClearBodys
  BY <1>15 DEF ClearBodys, ClearStep, CacheStep
<1>16. CASE ClearUids
  BY <1>16 DEF ClearUids, ClearStep, CacheStep
<1>17. CASE FetchUids
  BY <1>17 DEF FetchUids, FetchStep, FetchSucceeds
<1>18. CASE FetchUidsFails
  BY <1>18 DEF FetchUidsFails, FetchStep, CommandFails, RequestFails, HandsFree
<1>19. CASE SetUids
  BY <1>19 DEF SetUids, CacheStep, ThreadOK
<1>20. CASE DropBodys
  BY <1>20, WithoutType DEF DropBodys, CacheStep
<1>21. CASE DropHeaders
  BY <1>21, WithoutType DEF DropHeaders, CacheStep
<1>22. CASE FetchRows
  BY <1>22, FilledType DEF FetchRows, FetchStep, FetchSucceeds
<1>23. CASE FetchRowsFails
  BY <1>23 DEF FetchRowsFails, FetchStep, CommandFails, RequestFails, HandsFree
<1>24. CASE Move
  BY <1>24 DEF Move, ActionStep, Returned, Erased
<1>25. CASE MoveFails
  <2>1. UNCHANGED db
    BY <1>25 DEF MoveFails, ActionStep
  <2>2. UNCHANGED server \/ Erased(cur.uids)
    BY <1>25 DEF MoveFails
  <2>3. /\ server.uids \ cur.uids \subseteq Uids
        /\ server.flagged \ cur.uids \subseteq Uids
    OBVIOUS
  <2> QED
    BY <2>1, <2>2, <2>3 DEF Erased
<1>26. CASE Copy
  BY <1>26 DEF Copy, ActionStep, Returned
<1>27. CASE CopyFails
  BY <1>27 DEF CopyFails, ActionStep, CommandFails
<1>28. CASE Store
  BY <1>28 DEF Store, ActionStep, Returned, Marked
<1>29. CASE StoreFails
  BY <1>29 DEF StoreFails, ActionStep, CommandFails, Marked
<1>30. CASE ExpungeFlagged
  BY <1>30, ExpungeType DEF ExpungeFlagged, ActionStep, Returned
<1>31. CASE ExpungeFails
  BY <1>31, ExpungeType DEF ExpungeFails, ActionStep, CommandFails
<1>32. CASE DeleteUids
  BY <1>32 DEF DeleteUids, CacheStep
<1>33. CASE DeleteHeaders
  BY <1>33, WithoutType DEF DeleteHeaders, CacheStep
<1>34. CASE DeleteBodys
  BY <1>34, WithoutType DEF DeleteBodys, CacheStep
<1>35. CASE Result
  BY <1>35 DEF Result, HandsFree
<1>36. CASE Answer
  BY <1>36 DEF Answer, HandsFree, AnswerStep
<1>37. ASSUME NEW u \in Uids, Expunged(u) \/ AskBody(u) \/ MoveToTrash(u)
       PROVE  FolderOK'
  BY <1>37 DEF Expunged, AskBody, MoveToTrash, UiStep, ServerStep
<1> QED
  BY <1>1, <1>2, <1>3, <1>4, <1>5, <1>6, <1>7, <1>8, <1>9, <1>10, <1>11,
     <1>12, <1>13, <1>14, <1>15, <1>16, <1>17, <1>18, <1>19, <1>20, <1>21,
     <1>22, <1>23, <1>24, <1>25, <1>26, <1>27, <1>28, <1>29, <1>30, <1>31,
     <1>32, <1>33, <1>34, <1>35, <1>36, <1>37
     DEF Next, ProcessThread, CacheThread, Environment, UserInterface

(* A step preserves the types of what the process thread has in hand.      *)
LEMMA ThreadPreserved ==
  ASSUME TypeOK, Next
  PROVE  ThreadOK'
<1> USE DEF TypeOK, ThreadOK, At
<1> USE DEF sessionVars, threadVars, answerVars, uiVars, history
<1>1. CASE Arrive
  BY <1>1 DEF Arrive, ServerStep
<1>2. CASE Renumber
  BY <1>2 DEF Renumber, ServerStep
<1>3. CASE SelectOther
  BY <1>3 DEF SelectOther, SessionStep
<1>4. CASE AskUids
  BY <1>4 DEF AskUids, UiStep
<1>5. CASE AskHeaders
  BY <1>5 DEF AskHeaders, UiStep
<1>6. CASE CacheRead
  BY <1>6 DEF CacheRead, ReaderStep, AnswerStep
<1>7. CASE CacheAnswer
  BY <1>7 DEF CacheAnswer, ReaderStep, AnswerStep
<1>8. CASE Restart
  BY <1>8 DEF Restart, HandsFree, NoRequest, NewRequest
<1>9. CASE Take
  BY <1>9, CachedRowsType DEF Take, Begin, UiOK
<1>10. CASE TakeIdle
  BY <1>10, CachedRowsType DEF TakeIdle, Begin, NoRequest, NewRequest
<1>11. CASE Reconnect
  BY <1>11 DEF Reconnect, SessionStep
<1>12. CASE Select
  BY <1>12 DEF Select, CacheStep
<1>13. CASE SelectFails
  BY <1>13
     DEF SelectFails, CommandFails, RequestFails, HandsFree, NoRequest,
         NewRequest
<1>14. CASE ClearHeaders
  BY <1>14 DEF ClearHeaders, ClearStep, CacheStep
<1>15. CASE ClearBodys
  BY <1>15 DEF ClearBodys, ClearStep, CacheStep
<1>16. CASE ClearUids
  BY <1>16 DEF ClearUids, ClearStep, CacheStep
<1>17. CASE FetchUids
  BY <1>17 DEF FetchUids, FetchStep, FetchSucceeds, FolderOK
<1>18. CASE FetchUidsFails
  BY <1>18
     DEF FetchUidsFails, FetchStep, CommandFails, RequestFails, HandsFree,
         NoRequest, NewRequest
<1>19. CASE SetUids
  BY <1>19 DEF SetUids, CacheStep, FolderOK
<1>20. CASE DropBodys
  BY <1>20 DEF DropBodys, CacheStep
<1>21. CASE DropHeaders
  BY <1>21 DEF DropHeaders, CacheStep
<1>22. CASE FetchRows
  BY <1>22, FilledType DEF FetchRows, FetchStep, FetchSucceeds
<1>23. CASE FetchRowsFails
  BY <1>23
     DEF FetchRowsFails, FetchStep, CommandFails, RequestFails, HandsFree,
         NoRequest, NewRequest
<1>24. CASE Move
  BY <1>24 DEF Move, ActionStep, Returned
<1>25. CASE MoveFails
  BY <1>25 DEF MoveFails, ActionStep, CommandFails
<1>26. CASE Copy
  BY <1>26 DEF Copy, ActionStep, Returned
<1>27. CASE CopyFails
  BY <1>27 DEF CopyFails, ActionStep, CommandFails
<1>28. CASE Store
  BY <1>28 DEF Store, ActionStep, Returned
<1>29. CASE StoreFails
  BY <1>29 DEF StoreFails, ActionStep, CommandFails
<1>30. CASE ExpungeFlagged
  BY <1>30 DEF ExpungeFlagged, ActionStep, Returned
<1>31. CASE ExpungeFails
  BY <1>31 DEF ExpungeFails, ActionStep, CommandFails
<1>32. CASE DeleteUids
  BY <1>32 DEF DeleteUids, CacheStep
<1>33. CASE DeleteHeaders
  BY <1>33 DEF DeleteHeaders, CacheStep
<1>34. CASE DeleteBodys
  BY <1>34 DEF DeleteBodys, CacheStep
<1>35. CASE Result
  BY <1>35 DEF Result, HandsFree, NoRequest, NewRequest
<1>36. CASE Answer
  BY <1>36 DEF Answer, HandsFree, AnswerStep, NoRequest, NewRequest
<1>37. ASSUME NEW u \in Uids, Expunged(u) \/ AskBody(u) \/ MoveToTrash(u)
       PROVE  ThreadOK'
  BY <1>37 DEF Expunged, AskBody, MoveToTrash, UiStep, ServerStep
<1> QED
  BY <1>1, <1>2, <1>3, <1>4, <1>5, <1>6, <1>7, <1>8, <1>9, <1>10, <1>11,
     <1>12, <1>13, <1>14, <1>15, <1>16, <1>17, <1>18, <1>19, <1>20, <1>21,
     <1>22, <1>23, <1>24, <1>25, <1>26, <1>27, <1>28, <1>29, <1>30, <1>31,
     <1>32, <1>33, <1>34, <1>35, <1>36, <1>37
     DEF Next, ProcessThread, CacheThread, Environment, UserInterface

(* A step preserves the types of the view, of the queues and of what the   *)
(* cache thread has read.                                                  *)
LEMMA UiPreserved ==
  ASSUME TypeOK, Next
  PROVE  UiOK'
<1> USE DEF TypeOK, At
<1> USE DEF sessionVars, threadVars, answerVars, uiVars, history
<1> DEFINE ReaderOK ==
             reader \in [busy : BOOLEAN, request : Request, uids : SUBSET Uids,
                        rows : Rows]
           AskedOK == asked \in SUBSET Request /\ cached \in SUBSET Request
           ViewOK == view \in ViewType
<1>a. UiOK <=> ReaderOK /\ AskedOK /\ ViewOK
  BY DEF UiOK, ViewType
<1>b. UiOK' <=> ReaderOK' /\ AskedOK' /\ ViewOK'
  BY DEF UiOK, ViewType
<1>c. ReaderOK /\ AskedOK /\ ViewOK
  BY <1>a
<1>1. CASE Arrive
  BY <1>c, <1>b, <1>1 DEF Arrive, ServerStep
<1>2. CASE Renumber
  BY <1>c, <1>b, <1>2 DEF Renumber, ServerStep
<1>3. CASE SelectOther
  BY <1>c, <1>b, <1>3 DEF SelectOther, SessionStep
<1>4. CASE AskUids
  <2>1. view' = [view EXCEPT !.requestedUids = TRUE]
    BY <1>4 DEF AskUids
  <2>2. ViewOK'
    BY <1>c, <2>1 DEF ViewType
  <2>3. ReaderOK' /\ AskedOK'
    BY <1>c, <1>4 DEF AskUids, AsyncRequest, NewRequest, UiStep
  <2> QED
    BY <1>b, <2>2, <2>3
<1>5. CASE AskHeaders
  <2>1. Missing \subseteq Uids
    BY <1>c DEF Missing, ViewType
  <2>2. view' = [view EXCEPT !.requestedHeaders = @ \cup Missing]
    BY <1>5 DEF AskHeaders
  <2>3. ViewOK'
    BY <1>c, <2>1, <2>2 DEF ViewType
  <2>4. ReaderOK' /\ AskedOK'
    BY <1>c, <1>5, <2>1 DEF AskHeaders, AsyncRequest, NewRequest, UiStep
  <2> QED
    BY <1>b, <2>3, <2>4
<1>6. CASE CacheRead
  <2>1. PICK r \in cached :
          /\ cached' = cached \ {r}
          /\ reader' = [busy |-> TRUE, request |-> r,
                        uids |-> IF r.op = "uids" THEN db.uids ELSE {},
                        rows |-> CachedRows(r)]
    BY <1>6 DEF CacheRead
  <2>2. r \in Request /\ CachedRows(r) \in Rows /\ db.uids \in SUBSET Uids
    BY <1>c, CachedRowsType DEF FolderOK
  <2>3. ReaderOK'
    BY <2>1, <2>2
  <2>4. UNCHANGED view /\ UNCHANGED asked
    BY <1>6 DEF CacheRead, ReaderStep, AnswerStep
  <2>5. AskedOK' /\ ViewOK'
    BY <1>c, <2>1, <2>4
  <2> QED
    BY <1>b, <2>3, <2>5
<1>7. CASE CacheAnswer
  <2>1. reader.rows \in Rows /\ reader.uids \in SUBSET Uids
    BY <1>c
  <2>2. \/ ShowUids(reader.uids, FALSE)
        \/ ShowHeaders(reader.rows)
        \/ UNCHANGED view
    BY <1>7 DEF CacheAnswer
  <2>3. ViewOK'
    BY <1>c, <2>1, <2>2, ShowUidsType, ShowHeadersType
  <2>4. ReaderOK' /\ AskedOK'
    BY <1>c, <1>7 DEF CacheAnswer, ReaderStep, AnswerStep, NoReader, NoRequest,
       NewRequest
  <2> QED
    BY <1>b, <2>3, <2>4
<1>8. CASE Restart
  BY <1>c, <1>b, <1>8
     DEF Restart, HandsFree, NoReader, BlankView, NoRequest, NewRequest,
         ViewType
<1>9. CASE Take
  BY <1>c, <1>b, <1>9 DEF Take, Begin
<1>10. CASE TakeIdle
  BY <1>c, <1>b, <1>10 DEF TakeIdle, Begin
<1>11. CASE Reconnect
  BY <1>c, <1>b, <1>11 DEF Reconnect, SessionStep
<1>12. CASE Select
  BY <1>c, <1>b, <1>12 DEF Select, CacheStep
<1>13. CASE SelectFails
  BY <1>c, <1>b, <1>13, RetriedType
     DEF SelectFails, CommandFails, RequestFails, HandsFree
<1>14. CASE ClearHeaders
  BY <1>c, <1>b, <1>14 DEF ClearHeaders, ClearStep, CacheStep
<1>15. CASE ClearBodys
  BY <1>c, <1>b, <1>15 DEF ClearBodys, ClearStep, CacheStep
<1>16. CASE ClearUids
  BY <1>c, <1>b, <1>16 DEF ClearUids, ClearStep, CacheStep
<1>17. CASE FetchUids
  BY <1>c, <1>b, <1>17 DEF FetchUids, FetchStep, FetchSucceeds
<1>18. CASE FetchUidsFails
  BY <1>c, <1>b, <1>18, RetriedType
     DEF FetchUidsFails, FetchStep, CommandFails, RequestFails, HandsFree
<1>19. CASE SetUids
  BY <1>c, <1>b, <1>19 DEF SetUids, CacheStep
<1>20. CASE DropBodys
  BY <1>c, <1>b, <1>20 DEF DropBodys, CacheStep
<1>21. CASE DropHeaders
  BY <1>c, <1>b, <1>21 DEF DropHeaders, CacheStep
<1>22. CASE FetchRows
  BY <1>c, <1>b, <1>22 DEF FetchRows, FetchStep, FetchSucceeds
<1>23. CASE FetchRowsFails
  BY <1>c, <1>b, <1>23, RetriedType
     DEF FetchRowsFails, FetchStep, CommandFails, RequestFails, HandsFree
<1>24. CASE Move
  BY <1>c, <1>b, <1>24 DEF Move, ActionStep, Returned
<1>25. CASE MoveFails
  BY <1>c, <1>b, <1>25 DEF MoveFails, ActionStep, CommandFails
<1>26. CASE Copy
  BY <1>c, <1>b, <1>26 DEF Copy, ActionStep, Returned
<1>27. CASE CopyFails
  BY <1>c, <1>b, <1>27 DEF CopyFails, ActionStep, CommandFails
<1>28. CASE Store
  BY <1>c, <1>b, <1>28 DEF Store, ActionStep, Returned
<1>29. CASE StoreFails
  BY <1>c, <1>b, <1>29 DEF StoreFails, ActionStep, CommandFails
<1>30. CASE ExpungeFlagged
  BY <1>c, <1>b, <1>30 DEF ExpungeFlagged, ActionStep, Returned
<1>31. CASE ExpungeFails
  BY <1>c, <1>b, <1>31 DEF ExpungeFails, ActionStep, CommandFails
<1>32. CASE DeleteUids
  BY <1>c, <1>b, <1>32 DEF DeleteUids, CacheStep
<1>33. CASE DeleteHeaders
  BY <1>c, <1>b, <1>33 DEF DeleteHeaders, CacheStep
<1>34. CASE DeleteBodys
  BY <1>c, <1>b, <1>34 DEF DeleteBodys, CacheStep
<1>35. CASE Result
  BY <1>c, <1>b, <1>35, RetriedType DEF Result, HandsFree
<1>36. CASE Answer
  <2>1. got \in SUBSET Uids /\ rows \in Rows /\ told \in BOOLEAN
    BY DEF ThreadOK, FlagsOK
  <2>2. ShowUids(got, told) \/ ShowHeaders(rows) \/ UNCHANGED view
    BY <1>36 DEF Answer
  <2>3. ViewOK'
    BY <1>c, <2>1, <2>2, ShowUidsType, ShowHeadersType
  <2>4. ReaderOK' /\ AskedOK'
    BY <1>c, <1>36 DEF Answer, AnswerStep
  <2> QED
    BY <1>b, <2>3, <2>4
<1>37. ASSUME NEW u \in Uids, Expunged(u)
       PROVE  UiOK'
  BY <1>c, <1>b, <1>37 DEF Expunged, ServerStep
<1>38. ASSUME NEW u \in Uids, AskBody(u)
       PROVE  UiOK'
  <2>1. view' = [view EXCEPT !.requestedBodys = @ \cup {u}]
    BY <1>38 DEF AskBody
  <2>2. ViewOK'
    BY <1>c, <2>1 DEF ViewType
  <2>3. ReaderOK' /\ AskedOK'
    BY <1>c, <1>38 DEF AskBody, AsyncRequest, NewRequest, UiStep
  <2> QED
    BY <1>b, <2>2, <2>3
<1>39. ASSUME NEW u \in Uids, MoveToTrash(u)
       PROVE  UiOK'
  <2>1. view' = [view EXCEPT !.uids = @ \ {u}, !.headers[u] = Absent,
                             !.requestedUids = FALSE]
    BY <1>39 DEF MoveToTrash
  <2>2. ViewOK'
    BY <1>c, <2>1 DEF ViewType
  <2>3. ReaderOK' /\ AskedOK'
    BY <1>c, <1>39 DEF MoveToTrash, NewRequest, UiStep
  <2> QED
    BY <1>b, <2>2, <2>3
<1> QED
  BY <1>1, <1>2, <1>3, <1>4, <1>5, <1>6, <1>7, <1>8, <1>9, <1>10, <1>11,
     <1>12, <1>13, <1>14, <1>15, <1>16, <1>17, <1>18, <1>19, <1>20, <1>21,
     <1>22, <1>23, <1>24, <1>25, <1>26, <1>27, <1>28, <1>29, <1>30, <1>31,
     <1>32, <1>33, <1>34, <1>35, <1>36, <1>37, <1>38, <1>39
     DEF Next, ProcessThread, CacheThread, Environment, UserInterface

(* A step preserves the types of the trash folder and of the histories of  *)
(* messages.                                                               *)
LEMMA HistoryPreserved ==
  ASSUME TypeOK, Next
  PROVE  HistoryOK'
<1> USE DEF TypeOK, HistoryOK, At
<1> USE DEF sessionVars, threadVars, answerVars, uiVars, history
<1>1. CASE Arrive
  BY <1>1 DEF Arrive, ServerStep
<1>2. CASE Renumber
  BY <1>2 DEF Renumber, ServerStep
<1>3. CASE SelectOther
  BY <1>3 DEF SelectOther, SessionStep
<1>4. CASE AskUids
  BY <1>4 DEF AskUids, UiStep
<1>5. CASE AskHeaders
  BY <1>5 DEF AskHeaders, UiStep
<1>6. CASE CacheRead
  BY <1>6 DEF CacheRead, ReaderStep, AnswerStep
<1>7. CASE CacheAnswer
  BY <1>7 DEF CacheAnswer, ReaderStep, AnswerStep
<1>8. CASE Restart
  BY <1>8 DEF Restart, HandsFree
<1>9. CASE Take
  BY <1>9 DEF Take, Begin
<1>10. CASE TakeIdle
  BY <1>10 DEF TakeIdle, Begin
<1>11. CASE Reconnect
  BY <1>11 DEF Reconnect, SessionStep
<1>12. CASE Select
  BY <1>12 DEF Select, CacheStep
<1>13. CASE SelectFails
  BY <1>13 DEF SelectFails, CommandFails, RequestFails, HandsFree
<1>14. CASE ClearHeaders
  BY <1>14 DEF ClearHeaders, ClearStep, CacheStep
<1>15. CASE ClearBodys
  BY <1>15 DEF ClearBodys, ClearStep, CacheStep
<1>16. CASE ClearUids
  BY <1>16 DEF ClearUids, ClearStep, CacheStep
<1>17. CASE FetchUids
  BY <1>17 DEF FetchUids, FetchStep, FetchSucceeds
<1>18. CASE FetchUidsFails
  BY <1>18 DEF FetchUidsFails, FetchStep, CommandFails, RequestFails, HandsFree
<1>19. CASE SetUids
  BY <1>19 DEF SetUids, CacheStep
<1>20. CASE DropBodys
  BY <1>20 DEF DropBodys, CacheStep
<1>21. CASE DropHeaders
  BY <1>21 DEF DropHeaders, CacheStep
<1>22. CASE FetchRows
  BY <1>22 DEF FetchRows, FetchStep, FetchSucceeds
<1>23. CASE FetchRowsFails
  BY <1>23 DEF FetchRowsFails, FetchStep, CommandFails, RequestFails, HandsFree
<1>24. CASE Move
  BY <1>24, HereType DEF Move, ActionStep, Returned, Erased, Trashed
<1>25. CASE MoveFails
  BY <1>25, HereType DEF MoveFails, ActionStep, CommandFails, Erased, Trashed
<1>26. CASE Copy
  BY <1>26, HereType DEF Copy, ActionStep, Returned, Trashed
<1>27. CASE CopyFails
  BY <1>27, HereType DEF CopyFails, ActionStep, CommandFails, Trashed
<1>28. CASE Store
  BY <1>28, HereType DEF Store, ActionStep, Returned, Marked
<1>29. CASE StoreFails
  BY <1>29, HereType DEF StoreFails, ActionStep, CommandFails, Marked
<1>30. CASE ExpungeFlagged
  BY <1>30, HereType DEF ExpungeFlagged, ActionStep, Returned, Expunge, Erased
<1>31. CASE ExpungeFails
  BY <1>31, HereType
     DEF ExpungeFails, ActionStep, CommandFails, Expunge, Erased
<1>32. CASE DeleteUids
  BY <1>32 DEF DeleteUids, CacheStep
<1>33. CASE DeleteHeaders
  BY <1>33 DEF DeleteHeaders, CacheStep
<1>34. CASE DeleteBodys
  BY <1>34 DEF DeleteBodys, CacheStep
<1>35. CASE Result
  BY <1>35 DEF Result, HandsFree
<1>36. CASE Answer
  BY <1>36 DEF Answer, HandsFree, AnswerStep
<1>37. ASSUME NEW u \in Uids, Expunged(u) \/ AskBody(u) \/ MoveToTrash(u)
       PROVE  HistoryOK'
  BY <1>37 DEF Expunged, AskBody, MoveToTrash, UiStep, ServerStep, UiOK
<1> QED
  BY <1>1, <1>2, <1>3, <1>4, <1>5, <1>6, <1>7, <1>8, <1>9, <1>10, <1>11,
     <1>12, <1>13, <1>14, <1>15, <1>16, <1>17, <1>18, <1>19, <1>20, <1>21,
     <1>22, <1>23, <1>24, <1>25, <1>26, <1>27, <1>28, <1>29, <1>30, <1>31,
     <1>32, <1>33, <1>34, <1>35, <1>36, <1>37
     DEF Next, ProcessThread, CacheThread, Environment, UserInterface

(* Every variable of MailCache keeps its type, for every number of uids    *)
(* and validities, whatever the user does and whatever fails.              *)
THEOREM TypeCorrect == Spec => []TypeOK
<1>1. ASSUME TypeOK, [Next]_vars
      PROVE  TypeOK'
  <2>1. CASE Next
    BY <1>1, <2>1, FlagsPreserved, FolderPreserved, ThreadPreserved, UiPreserved,
       HistoryPreserved DEF TypeOK
  <2>2. CASE UNCHANGED vars
    BY <1>1, <2>2
       DEF TypeOK, FlagsOK, FolderOK, ThreadOK, UiOK, HistoryOK, vars, sessionVars,
           threadVars, answerVars, uiVars, history
  <2> QED
    BY <1>1, <2>1, <2>2
<1> QED
  BY TypeInit, <1>1, PTL DEF Spec

-----------------------------------------------------------------------------
(* The cache stays current. *)

(* While the folder is selected the server does not renumber it, and the   *)
(* cache has been compared with it; a folder that is cleared or fetched    *)
(* from is selected.                                                       *)
SelectedValid == selected => db.validity = server.validity

InFolder == Clearing \/ At("fetch") => selected

(* What the clearing has done so far.                                      *)
Cleared ==
  /\ pc = "clearBodys" => db.headers = NoRows
  /\ pc = "clearUids" => db.headers = NoRows /\ db.bodys = NoRows

(* The strengthening of CacheCurrent. *)
CacheInv == SelectedValid /\ InFolder /\ Cleared /\ CacheCurrent

(* The strengthening of CacheCurrent holds initially, ...                  *)
LEMMA CacheInvInit == Init => CacheInv
  BY
     DEF Init, CacheInv, SelectedValid, InFolder, Cleared, CacheCurrent,
         Clearing,
     At, Current, BlankCache

(* ... every step preserves it, ...                                        *)
LEMMA CacheInvPreserved ==
  ASSUME TypeOK, CacheInv, Next
  PROVE  CacheInv'
<1> USE DEF TypeOK, FolderOK, CacheInv, SelectedValid, InFolder, Cleared,
            CacheCurrent, Clearing, Current, At
<1> USE DEF sessionVars, threadVars, answerVars, uiVars, history
<1>1. CASE Arrive
  BY <1>1 DEF Arrive, ServerStep
<1>2. CASE Renumber
  BY <1>2 DEF Renumber, ServerStep
<1>3. CASE SelectOther
  BY <1>3 DEF SelectOther, SessionStep
<1>4. CASE AskUids
  BY <1>4 DEF AskUids, UiStep
<1>5. CASE AskHeaders
  BY <1>5 DEF AskHeaders, UiStep
<1>6. CASE CacheRead
  BY <1>6 DEF CacheRead, ReaderStep, AnswerStep
<1>7. CASE CacheAnswer
  BY <1>7 DEF CacheAnswer, ReaderStep, AnswerStep
<1>8. CASE Restart
  BY <1>8 DEF Restart, HandsFree
<1>9. CASE Take
  BY <1>9 DEF Take, Begin, Forced
<1>10. CASE TakeIdle
  BY <1>10 DEF TakeIdle, Begin, Forced
<1>11. CASE Reconnect
  BY <1>11 DEF Reconnect, SessionStep
<1>12. CASE Select
  BY <1>12 DEF Select, CacheStep, CachedUidValid, ThreadOK
<1>13. CASE SelectFails
  BY <1>13 DEF SelectFails, CommandFails, RequestFails, HandsFree
<1>14. CASE ClearHeaders
  BY <1>14 DEF ClearHeaders, ClearStep, CacheStep
<1>15. CASE ClearBodys
  BY <1>15 DEF ClearBodys, ClearStep, CacheStep
<1>16. CASE ClearUids
  BY <1>16 DEF ClearUids, ClearStep, CacheStep, ThreadOK
<1>17. CASE FetchUids
  BY <1>17 DEF FetchUids, FetchStep, FetchSucceeds
<1>18. CASE FetchUidsFails
  BY <1>18 DEF FetchUidsFails, FetchStep, CommandFails, RequestFails, HandsFree
<1>19. CASE SetUids
  BY <1>19 DEF SetUids, CacheStep
<1>20. CASE DropBodys
  BY <1>20 DEF DropBodys, CacheStep, Without
<1>21. CASE DropHeaders
  BY <1>21 DEF DropHeaders, CacheStep, Without
<1>22. CASE FetchRows
  BY <1>22 DEF FetchRows, FetchStep, FetchSucceeds, Filled, Fetched
<1>23. CASE FetchRowsFails
  BY <1>23 DEF FetchRowsFails, FetchStep, CommandFails, RequestFails, HandsFree
<1>24. CASE Move
  BY <1>24 DEF Move, ActionStep, Returned, Erased
<1>25. CASE MoveFails
  BY <1>25 DEF MoveFails, ActionStep, CommandFails, Erased
<1>26. CASE Copy
  BY <1>26 DEF Copy, ActionStep, Returned
<1>27. CASE CopyFails
  BY <1>27 DEF CopyFails, ActionStep, CommandFails
<1>28. CASE Store
  BY <1>28 DEF Store, ActionStep, Returned, Marked
<1>29. CASE StoreFails
  BY <1>29 DEF StoreFails, ActionStep, CommandFails, Marked
<1>30. CASE ExpungeFlagged
  BY <1>30 DEF ExpungeFlagged, ActionStep, Returned, Expunge, Erased
<1>31. CASE ExpungeFails
  BY <1>31 DEF ExpungeFails, ActionStep, CommandFails, Expunge, Erased
<1>32. CASE DeleteUids
  BY <1>32 DEF DeleteUids, CacheStep
<1>33. CASE DeleteHeaders
  BY <1>33 DEF DeleteHeaders, CacheStep, Without
<1>34. CASE DeleteBodys
  BY <1>34 DEF DeleteBodys, CacheStep, Without
<1>35. CASE Result
  BY <1>35 DEF Result, HandsFree
<1>36. CASE Answer
  BY <1>36 DEF Answer, HandsFree, AnswerStep
<1>37. ASSUME NEW u \in Uids, Expunged(u)
       PROVE  CacheInv'
  BY <1>37 DEF Expunged, ServerStep
<1>38. ASSUME NEW u \in Uids, AskBody(u)
       PROVE  CacheInv'
  BY <1>38 DEF AskBody, UiStep
<1>39. ASSUME NEW u \in Uids, MoveToTrash(u)
       PROVE  CacheInv'
  BY <1>39 DEF MoveToTrash, UiStep
<1> QED
  BY <1>1, <1>2, <1>3, <1>4, <1>5, <1>6, <1>7, <1>8, <1>9, <1>10, <1>11,
     <1>12, <1>13, <1>14, <1>15, <1>16, <1>17, <1>18, <1>19, <1>20, <1>21,
     <1>22, <1>23, <1>24, <1>25, <1>26, <1>27, <1>28, <1>29, <1>30, <1>31,
     <1>32, <1>33, <1>34, <1>35, <1>36, <1>37, <1>38, <1>39
     DEF Next, ProcessThread, CacheThread, Environment, UserInterface

(* ... and so it holds always.                                             *)
LEMMA CacheInvAlways == Spec => [](TypeOK /\ CacheInv)
<1>1. ASSUME TypeOK, CacheInv, [Next]_vars
      PROVE  CacheInv'
  <2>1. CASE UNCHANGED vars
    BY <1>1, <2>1
       DEF CacheInv, SelectedValid, InFolder, Cleared, CacheCurrent, Clearing,
           Current, At, vars, sessionVars, threadVars, answerVars, history
  <2> QED
    BY <1>1, <2>1, CacheInvPreserved
<1> QED
  BY CacheInvInit, TypeCorrect, <1>1, PTL DEF Spec

(* The databases hold no row of an earlier validity, but for the window    *)
(* between the storing of a new validity and the end of the clearing.      *)
THEOREM CacheStaysCurrent == Spec => []CacheCurrent
<1>1. CacheInv => CacheCurrent
  BY DEF CacheInv
<1> QED
  BY CacheInvAlways, <1>1, PTL

-----------------------------------------------------------------------------
(* The view is told. *)

(* What the thread has in hand for the view is current, or the view is     *)
(* going to be told as well; a report travels with fetched uids.           *)
RowsTold == Current(rows) \/ ReportDue \/ torn

ReportWithUids ==
  told => Forced(cur) /\ pc \in {"setUids", "dropBodys", "dropHeaders", "answer"}

(* The strengthening of ViewWillBeTold. *)
ViewInv == ViewWillBeTold /\ RowsTold /\ ReportWithUids

(* The strengthening of ViewWillBeTold holds initially, ...                *)
LEMMA ViewInvInit == Init => ViewInv
  BY
     DEF Init, ViewInv, ViewWillBeTold, RowsTold, ReportWithUids, Current,
         BlankView

(* What a request finds in the cache is current.                           *)
LEMMA CachedRowsCurrent ==
  ASSUME CacheCurrent, ~Clearing, ~torn, NEW r
  PROVE  Current(CachedRows(r))
  BY DEF CacheCurrent, Current, CachedRows, OfKind

(* Uids bring no header into the view; a report takes every header out.    *)
LEMMA ShowUidsCurrent ==
  ASSUME UiOK, NEW uids, NEW uidInvalid \in BOOLEAN, ShowUids(uids, uidInvalid),
         UNCHANGED db, Current(view.headers) \/ uidInvalid
  PROVE  Current(view.headers)'
<1> DEFINE old == IF uidInvalid
                  THEN [BlankView EXCEPT !.requestedUids = view.requestedUids]
                  ELSE view
<1>1. old \in ViewType /\ Current(old.headers)
  BY DEF ViewType, BlankView, UiOK, Current
<1>2. view' = [old EXCEPT !.uids = uids, !.headers = Without(@, old.uids \ uids)]
  BY DEF ShowUids
<1> HIDE DEF old
<1>3. view'.headers = Without(old.headers, old.uids \ uids)
  BY <1>1, <1>2 DEF ViewType
<1> QED
  BY <1>1, <1>3 DEF Current, Without

(* Current headers leave a current view current.                           *)
LEMMA ShowHeadersCurrent ==
  ASSUME UiOK, NEW r, ShowHeaders(r), UNCHANGED db,
         Current(r), Current(view.headers)
  PROVE  Current(view.headers)'
<1>1. view'.headers =
        [u \in Uids |-> IF view.headers[u] = Absent THEN r[u] ELSE view.headers[u]]
  BY DEF ShowHeaders, UiOK
<1> QED
  BY <1>1 DEF Current

(* ... and every step preserves it.                                        *)
LEMMA ViewInvPreserved ==
  ASSUME TypeOK, CacheInv, ViewInv, Next
  PROVE  ViewInv'
<1> USE DEF TypeOK, FolderOK, UiOK, ViewInv, ViewWillBeTold, RowsTold,
            ReportWithUids, ReportDue, Clearing, Current, At, Forced
<1> USE DEF sessionVars, threadVars, answerVars, uiVars, history
<1>1. CASE Arrive
  BY <1>1 DEF Arrive, ServerStep
<1>2. CASE Renumber
  BY <1>2 DEF Renumber, ServerStep
<1>3. CASE SelectOther
  BY <1>3 DEF SelectOther, SessionStep
<1>4. CASE AskUids
  BY <1>4 DEF AskUids, UiStep
<1>5. CASE AskHeaders
  BY <1>5 DEF AskHeaders, UiStep
<1>6. CASE CacheRead
  BY <1>6 DEF CacheRead, ReaderStep, AnswerStep
<1>7. CASE CacheAnswer
  <2> HIDE DEF Current, TypeOK, FolderOK, UiOK, Forced
  <2>1. UNCHANGED <<threadVars, untold, torn, invalid, db>>
    BY <1>7 DEF CacheAnswer, ReaderStep, AnswerStep
  <2>2. RowsTold' /\ ReportWithUids'
    BY <2>1 DEF Current, Forced
  <2>3. CASE ReportDue \/ torn \/ untold \/ late
    <3>1. late => late'
      BY <1>7, Zenon DEF CacheAnswer
    <3> QED
      BY <2>1, <2>2, <2>3, <3>1
  <2>4. CASE ~ReportDue /\ Current(view.headers)
    <3>1. CASE Current(reader.rows)
      <4>1. \/ ShowUids(reader.uids, FALSE)
            \/ ShowHeaders(reader.rows)
            \/ UNCHANGED view
        BY <1>7 DEF CacheAnswer
      <4>2. Current(view.headers)'
        BY <2>1, <2>4, <3>1, <4>1, ShowUidsCurrent, ShowHeadersCurrent
           DEF Current, TypeOK
      <4> QED
        BY <2>2, <4>2
    <3>2. CASE ~Current(reader.rows)
      <4>1. late'
        BY <1>7, <2>4, <3>2, Zenon DEF CacheAnswer, Current
      <4> QED
        BY <2>2, <4>1
    <3> QED
      BY <3>1, <3>2
  <2> QED
    BY <2>3, <2>4
<1>8. CASE Restart
  BY <1>8 DEF Restart, HandsFree, BlankView
<1>9. CASE Take
  <2> HIDE DEF Current, TypeOK, FolderOK, UiOK, Forced
  <2>1. PICK r : rows' = CachedRows(r)
    BY <1>9 DEF Take, Begin
  <2>2. /\ told' = FALSE
        /\ UNCHANGED <<view, invalid, torn, untold, late, db>>
        /\ pc = "idle"
    BY <1>9 DEF Take, Begin
  <2>3. Current(view.headers)' <=> Current(view.headers)
    BY <2>2 DEF Current
  <2>4. Current(rows)' \/ torn'
    BY <2>1, <2>2, CachedRowsCurrent DEF Current, CacheInv
  <2> QED
    BY <2>2, <2>3, <2>4
<1>10. CASE TakeIdle
  <2> HIDE DEF Current, TypeOK, FolderOK, UiOK, Forced
  <2>1. PICK r : rows' = CachedRows(r)
    BY <1>10 DEF TakeIdle, Begin
  <2>2. /\ told' = FALSE
        /\ UNCHANGED <<view, invalid, torn, untold, late, db>>
        /\ pc = "idle"
    BY <1>10 DEF TakeIdle, Begin
  <2>3. Current(view.headers)' <=> Current(view.headers)
    BY <2>2 DEF Current
  <2>4. Current(rows)' \/ torn'
    BY <2>1, <2>2, CachedRowsCurrent DEF Current, CacheInv
  <2> QED
    BY <2>2, <2>3, <2>4
<1>11. CASE Reconnect
  BY <1>11 DEF Reconnect, SessionStep
<1>12. CASE Select
  BY <1>12 DEF Select, CacheStep, CachedUidValid, ThreadOK
<1>13. CASE SelectFails
  <2> HIDE DEF Current, TypeOK, FolderOK, UiOK, Forced
  <2>1. CASE cur.op = "trash"
    <3>1. /\ UNCHANGED <<view, invalid, torn, untold, late, db, told, rows, cur>>
          /\ pc = "select" /\ pc' \in {"select", "expungeOnly", "result"}
      BY <1>13, <2>1 DEF SelectFails
    <3>2. /\ Current(view.headers)' <=> Current(view.headers)
          /\ Current(rows)' <=> Current(rows)
      BY <3>1 DEF Current
    <3> QED
      BY <3>1, <3>2
  <2>2. CASE cur.op # "trash"
    <3>1. /\ told' = FALSE /\ rows' = NoRows /\ pc' = "idle"
          /\ UNCHANGED <<view, invalid, torn, untold, late, db>>
      BY <1>13, <2>2 DEF SelectFails, RequestFails, HandsFree
    <3>2. Current(view.headers)' <=> Current(view.headers)
      BY <3>1 DEF Current
    <3>3. Current(rows)'
      BY <3>1 DEF Current
    <3> QED
      BY <1>13, <3>1, <3>2, <3>3 DEF SelectFails
  <2> QED
    BY <2>1, <2>2
<1>14. CASE ClearHeaders
  BY <1>14 DEF ClearHeaders, ClearStep, CacheStep
<1>15. CASE ClearBodys
  BY <1>15 DEF ClearBodys, ClearStep, CacheStep
<1>16. CASE ClearUids
  BY <1>16 DEF ClearUids, ClearStep, CacheStep, ThreadOK
<1>17. CASE FetchUids
  <2> HIDE DEF Current, TypeOK, FolderOK, UiOK, Forced
  <2>1. /\ told' = invalid /\ invalid' = FALSE /\ pc = "fetch" /\ pc' = "setUids"
        /\ Forced(cur) /\ cur' = cur
        /\ UNCHANGED <<view, torn, untold, late, db, rows>>
    BY <1>17 DEF FetchUids, FetchStep, FetchSucceeds
  <2>2. /\ Current(view.headers)' <=> Current(view.headers)
        /\ Current(rows)' <=> Current(rows)
    BY <2>1 DEF Current
  <2>3. Forced(cur)'
    BY <2>1 DEF Forced
  <2>4. invalid => told'
    BY <2>1, Zenon
  <2> QED
    BY <2>1, <2>2, <2>3, <2>4
<1>18. CASE FetchUidsFails
  <2> HIDE DEF Current, TypeOK, FolderOK, UiOK, Forced
  <2>1. /\ told' = FALSE /\ rows' = NoRows /\ pc = "fetch" /\ pc' = "idle"
        /\ UNCHANGED <<view, torn, late, db>>
    BY <1>18 DEF FetchUidsFails, FetchStep, RequestFails, HandsFree
  <2>2. (untold \/ invalid) => untold'
    BY <1>18, Zenon DEF FetchUidsFails
  <2>3. /\ Current(view.headers)' <=> Current(view.headers)
        /\ Current(rows)'
    BY <2>1 DEF Current
  <2> QED
    BY <2>1, <2>2, <2>3
<1>19. CASE SetUids
  BY <1>19 DEF SetUids, CacheStep
<1>20. CASE DropBodys
  BY <1>20 DEF DropBodys, CacheStep
<1>21. CASE DropHeaders
  BY <1>21 DEF DropHeaders, CacheStep
<1>22. CASE FetchRows
  BY <1>22
     DEF FetchRows, FetchStep, FetchSucceeds, Filled, Fetched, CacheInv,
         InFolder, SelectedValid
<1>23. CASE FetchRowsFails
  BY <1>23 DEF FetchRowsFails, FetchStep, CommandFails, RequestFails, HandsFree
<1>24. CASE Move
  BY <1>24 DEF Move, ActionStep, Returned
<1>25. CASE MoveFails
  BY <1>25 DEF MoveFails, ActionStep, CommandFails
<1>26. CASE Copy
  BY <1>26 DEF Copy, ActionStep, Returned
<1>27. CASE CopyFails
  BY <1>27 DEF CopyFails, ActionStep, CommandFails
<1>28. CASE Store
  BY <1>28 DEF Store, ActionStep, Returned
<1>29. CASE StoreFails
  BY <1>29 DEF StoreFails, ActionStep, CommandFails
<1>30. CASE ExpungeFlagged
  BY <1>30 DEF ExpungeFlagged, ActionStep, Returned
<1>31. CASE ExpungeFails
  BY <1>31 DEF ExpungeFails, ActionStep, CommandFails
<1>32. CASE DeleteUids
  BY <1>32 DEF DeleteUids, CacheStep
<1>33. CASE DeleteHeaders
  BY <1>33 DEF DeleteHeaders, CacheStep
<1>34. CASE DeleteBodys
  BY <1>34 DEF DeleteBodys, CacheStep
<1>35. CASE Result
  <2> HIDE DEF Current, TypeOK, FolderOK, UiOK, Forced
  <2>1. /\ told' = FALSE /\ rows' = NoRows /\ pc' = "idle"
        /\ UNCHANGED <<view, invalid, torn, untold, late, db>>
    BY <1>35 DEF Result, HandsFree
  <2>2. Current(view.headers)' <=> Current(view.headers)
    BY <2>1 DEF Current
  <2>3. Current(rows)'
    BY <2>1 DEF Current
  <2> QED
    BY <1>35, <2>1, <2>2, <2>3 DEF Result
<1>36. CASE Answer
  <2> HIDE DEF Current, TypeOK, FolderOK, UiOK, Forced
  <2>1. /\ told' = FALSE /\ rows' = NoRows /\ pc = "answer"
        /\ UNCHANGED <<invalid, torn, db>>
    BY <1>36 DEF Answer, HandsFree, AnswerStep
  <2>2. Current(rows)'
    BY <2>1 DEF Current
  <2>3. CASE told
    <3>1. Forced(cur)
      BY <2>3
    <3>2. ShowUids(got, told)
      BY <1>36, <3>1 DEF Answer, Forced
    <3>3. told \in BOOLEAN
      BY DEF TypeOK, FlagsOK
    <3>4. Current(view.headers)'
      BY <2>1, <2>3, <3>2, <3>3, ShowUidsCurrent DEF TypeOK
    <3> QED
      BY <2>1, <2>2, <3>4
  <2>4. CASE ~told
    <3>1. (untold \/ late) => (untold' \/ late')
      BY <1>36, <2>4, Zenon DEF Answer
    <3>2. CASE invalid \/ torn \/ untold \/ late
      BY <2>1, <2>2, <3>1, <3>2
    <3>3. CASE Current(view.headers) /\ Current(rows)
      <4>1. ShowUids(got, FALSE) \/ ShowHeaders(rows) \/ UNCHANGED view
        BY <1>36, <2>4 DEF Answer, TypeOK, FlagsOK
      <4>2. Current(view.headers)'
        BY <2>1, <3>3, <4>1, ShowUidsCurrent, ShowHeadersCurrent
           DEF TypeOK, Current
      <4> QED
        BY <2>1, <2>2, <4>2
    <3> QED
      BY <2>1, <2>4, <3>2, <3>3
  <2> QED
    BY <2>3, <2>4
<1>37. ASSUME NEW u \in Uids, Expunged(u)
       PROVE  ViewInv'
  BY <1>37 DEF Expunged, ServerStep
<1>38. ASSUME NEW u \in Uids, AskBody(u)
       PROVE  ViewInv'
  BY <1>38 DEF AskBody, UiStep
<1>39. ASSUME NEW u \in Uids, MoveToTrash(u)
       PROVE  ViewInv'
  BY <1>39 DEF MoveToTrash, UiStep
<1> QED
  BY <1>1, <1>2, <1>3, <1>4, <1>5, <1>6, <1>7, <1>8, <1>9, <1>10, <1>11,
     <1>12, <1>13, <1>14, <1>15, <1>16, <1>17, <1>18, <1>19, <1>20, <1>21,
     <1>22, <1>23, <1>24, <1>25, <1>26, <1>27, <1>28, <1>29, <1>30, <1>31,
     <1>32, <1>33, <1>34, <1>35, <1>36, <1>37, <1>38, <1>39
     DEF Next, ProcessThread, CacheThread, Environment, UserInterface

(* Whenever the view shows a header of an earlier validity, a report that  *)
(* makes it drop the header is on its way, but for the windows named.      *)
THEOREM ViewAlwaysTold == Spec => []ViewWillBeTold
<1>1. ASSUME TypeOK, CacheInv, ViewInv, [Next]_vars
      PROVE  ViewInv'
  <2>1. CASE UNCHANGED vars
    BY <1>1, <2>1
       DEF ViewInv, ViewWillBeTold, RowsTold, ReportWithUids, ReportDue, Clearing,
           Current, Forced, vars, sessionVars, threadVars, answerVars, uiVars, history
  <2> QED
    BY <1>1, <2>1, ViewInvPreserved
<1>2. ViewInv => ViewWillBeTold
  BY DEF ViewInv
<1> QED
  BY ViewInvInit, CacheInvAlways, <1>1, <1>2, PTL DEF Spec

-----------------------------------------------------------------------------
(* Nothing is lost. *)

(* A row or a choice of the user names the message of a validity and a uid.*)
Seen(v, u) ==
  \/ \E r \in {db.headers, db.bodys, view.headers, rows, reader.rows} : r[u] = v
  \/ <<v, u>> \in binned

(* Only uids that the server has given are seen.                           *)
GivenInv ==
  /\ \A u \in server.uids : u < server.next
  /\ \A v \in Validity, u \in Uids :
       Seen(v, u) => v < server.validity \/ (v = server.validity /\ u < server.next)

(* A message is copied and marked in the folder that is selected; and a    *)
(* copy that has failed is known to have.                                  *)
ActionInv ==
  /\ resume = "store" => ~ok
  /\ pc \in {"clearHeaders", "clearBodys", "clearUids", "copy", "store"} => selected

(* After the copy, a message without one has not been seen by anyone.      *)
CopiedInv ==
  pc = "store" /\ ok =>
    \A u \in cur.uids \cap server.uids :
      <<server.validity, u>> \in trash \/ ~Seen(server.validity, u)

(* What is marked has a copy, or should not have been marked.              *)
MarkedInv == \A u \in server.flagged : <<server.validity, u>> \in trash \cup unsafe

LossInv == GivenInv /\ ActionInv /\ CopiedInv /\ MarkedInv /\ LostOnlyIfUnsafe

LEMMA LossInvInit == Init => LossInv
<1> SUFFICES ASSUME Init
             PROVE  LossInv
  OBVIOUS
<1>1. PICK n \in 0 .. MaxUid :
        server = [validity |-> 1, uids |-> 1 .. n, flagged |-> {}, next |-> n + 1]
  BY DEF Init
<1>2. ASSUME NEW v \in Validity, NEW u \in Uids
      PROVE  ~Seen(v, u)
  <2>1. NoRows[u] # v
    BY DEF NoRows, Absent, Validity
  <2> QED
    BY <2>1 DEF Seen, Init, BlankCache, BlankView, NoReader
<1>3. GivenInv /\ MarkedInv
  BY <1>1, <1>2, BoundsAssumption DEF GivenInv, MarkedInv
<1> QED
  BY <1>3 DEF Init, LossInv, ActionInv, CopiedInv, LostOnlyIfUnsafe

(* What one step does to the server and the histories, unless it is one of *)
(* an action or of the server itself.                                      *)
ServerActs ==
  Arrive \/ Renumber \/ \E u \in Uids : Expunged(u)

ActionActs ==
  \/ Move \/ MoveFails \/ Copy \/ CopyFails \/ Store \/ StoreFails
  \/ ExpungeFlagged \/ ExpungeFails

LEMMA OthersLeaveServer ==
  ASSUME Next
  PROVE  ServerActs \/ ActionActs \/ UNCHANGED <<server, trash, lost, unsafe>>
<1> USE DEF history
<1>1. CASE CacheThread \/ UserInterface \/ Restart \/ SelectOther
  BY <1>1 DEF CacheThread, UserInterface, SelectOther, SessionStep, Restart, CacheRead,
              CacheAnswer, ReaderStep, AnswerStep, AskUids, AskHeaders, AskBody,
              MoveToTrash, UiStep
<1>2. CASE Take \/ TakeIdle \/ Reconnect \/ Select \/ SelectFails \/ Result \/ Answer
  BY <1>2 DEF Take, TakeIdle, Begin, Reconnect, SessionStep, Select, CacheStep,
              SelectFails, Result, Answer, AnswerStep
<1>3. CASE ClearHeaders \/ ClearBodys \/ ClearUids
  BY <1>3 DEF ClearHeaders, ClearBodys, ClearUids, ClearStep, CacheStep
<1>4. CASE \/ FetchUids \/ FetchUidsFails \/ FetchRows \/ FetchRowsFails
  BY <1>4 DEF FetchUids, FetchUidsFails, FetchRows, FetchRowsFails, FetchStep
<1>5. CASE \/ SetUids \/ DropBodys \/ DropHeaders
           \/ DeleteUids \/ DeleteHeaders \/ DeleteBodys
  BY <1>5 DEF SetUids, DropBodys, DropHeaders, DeleteUids, DeleteHeaders, DeleteBodys,
              CacheStep
<1> QED
  BY <1>1, <1>2, <1>3, <1>4, <1>5
     DEF Next, ProcessThread, Environment, ServerActs, ActionActs

(* The steps of an action leave alone what is seen.                        *)
LEMMA ActsLeaveRows ==
  ASSUME ServerActs \/ ActionActs
  PROVE  UNCHANGED <<db, view, rows, reader, binned, cur, resume, selected>>
<1> USE DEF sessionVars, threadVars, answerVars, uiVars, history
<1>1. CASE ServerActs
  BY <1>1 DEF ServerActs, Arrive, Renumber, Expunged, ServerStep
<1>2. CASE ActionActs
  BY <1>2 DEF ActionActs, Move, MoveFails, Copy, CopyFails, Store, StoreFails,
              ExpungeFlagged, ExpungeFails, ActionStep
<1> QED
  BY <1>1, <1>2

(* What the server has next, for one validity or the next one.             *)
SameFolder ==
  /\ server'.validity = server.validity
  /\ \/ server'.next = server.next /\ server'.uids \subseteq server.uids
     \/ server'.next = server.next + 1 /\ server'.uids = server.uids \cup {server.next}

NewFolder ==
  /\ server'.validity = server.validity + 1
  /\ \A u \in server'.uids : u < server'.next
  /\ server'.flagged = {}

LEMMA ServerMoves ==
  ASSUME TypeOK, Next
  PROVE  SameFolder \/ (NewFolder /\ Renumber)
<1> USE DEF TypeOK, FolderOK
<1>1. CASE Arrive
  BY <1>1 DEF Arrive, SameFolder
<1>2. CASE Renumber
  <2>1. PICK n \in 0 .. MaxUid :
          server' = [validity |-> server.validity + 1, uids |-> 1 .. n,
                     flagged |-> {}, next |-> n + 1]
    BY <1>2 DEF Renumber
  <2>2. \A u \in 1 .. n : u < n + 1
    BY BoundsAssumption
  <2> QED
    BY <1>2, <2>1, <2>2 DEF NewFolder
<1>3. ASSUME NEW u \in Uids, Expunged(u)
      PROVE  SameFolder
  BY <1>3 DEF Expunged, SameFolder
<1>4. CASE ActionActs
  <2>1. ASSUME NEW gone, Erased(gone)
        PROVE  SameFolder
    BY <2>1 DEF Erased, SameFolder
  <2>2. CASE Marked
    BY <2>2 DEF Marked, SameFolder
  <2>3. CASE UNCHANGED server
    BY <2>3 DEF SameFolder
  <2> QED
    BY <1>4, <2>1, <2>2, <2>3
       DEF ActionActs, Move, MoveFails, Copy, CopyFails, Store, StoreFails,
           ExpungeFlagged, ExpungeFails, Expunge
<1>5. CASE UNCHANGED <<server, trash, lost, unsafe>>
  BY <1>5 DEF SameFolder
<1> QED
  BY <1>1, <1>2, <1>3, <1>4, <1>5, OthersLeaveServer DEF ServerActs

(* Rows that are shown, read, kept or dropped were seen before; those that *)
(* are fetched are of messages that the server has.                        *)
LEMMA CachedRowsSeen ==
  ASSUME NEW r, NEW v \in Validity, NEW u \in Uids, CachedRows(r)[u] = v
  PROVE  Seen(v, u)
BY DEF CachedRows, OfKind, Seen, Validity, Absent

LEMMA ShowUidsSeen ==
  ASSUME UiOK, NEW S, NEW uidInvalid \in BOOLEAN, ShowUids(S, uidInvalid),
         NEW v \in Validity, NEW u \in Uids, view'.headers[u] = v
  PROVE  Seen(v, u)
<1> DEFINE old == IF uidInvalid
                  THEN [BlankView EXCEPT !.requestedUids = view.requestedUids]
                  ELSE view
<1>1. old \in ViewType /\ (old.headers = NoRows \/ old.headers = view.headers)
  BY DEF ViewType, BlankView, UiOK
<1>2. view' = [old EXCEPT !.uids = S, !.headers = Without(@, old.uids \ S)]
  BY DEF ShowUids
<1> HIDE DEF old
<1>3. view'.headers = Without(old.headers, old.uids \ S)
  BY <1>1, <1>2 DEF ViewType
<1>4. old.headers[u] = v
  BY <1>3 DEF Without, Validity, Absent
<1> QED
  BY <1>1, <1>4 DEF Seen, NoRows, Validity, Absent

LEMMA ShowHeadersSeen ==
  ASSUME UiOK, NEW r, ShowHeaders(r),
         NEW v \in Validity, NEW u \in Uids, view'.headers[u] = v
  PROVE  Seen(v, u) \/ r[u] = v
<1>1. view'.headers =
        [w \in Uids |-> IF view.headers[w] = Absent THEN r[w] ELSE view.headers[w]]
  BY DEF ShowHeaders, UiOK
<1> QED
  BY <1>1 DEF Seen

LEMMA WithoutSeen ==
  ASSUME NEW r, NEW S, NEW v \in Validity, NEW u \in Uids, Without(r, S)[u] = v
  PROVE  r[u] = v
BY DEF Without, Validity, Absent

LEMMA FilledSeen ==
  ASSUME NEW r, NEW v, NEW u \in Uids, Filled(r)[u] = v
  PROVE  r[u] = v \/ (v = server.validity /\ u \in server.uids)
BY DEF Filled, Fetched

LEMMA SeenBefore ==
  ASSUME TypeOK, Next, NEW v \in Validity, NEW u \in Uids, Seen(v, u)'
  PROVE  Seen(v, u) \/ (v = server.validity /\ u \in server.uids /\ pc = "fetch")
<1> USE DEF sessionVars, threadVars, answerVars, uiVars, history
<1>0. NoRows[u] # v
  BY DEF NoRows, Validity, Absent
<1>1. CASE UNCHANGED <<db, view, rows, reader, binned>>
  BY <1>1 DEF Seen
<1>2. CASE AskUids \/ AskHeaders \/ \E w \in Uids : AskBody(w)
  <2>1. view'.headers = view.headers /\ UNCHANGED <<db, rows, reader, binned>>
    BY <1>2 DEF AskUids, AskHeaders, AskBody, UiStep, TypeOK, UiOK
  <2> QED
    BY <2>1 DEF Seen
<1>3. ASSUME NEW w \in Uids, MoveToTrash(w)
      PROVE  Seen(v, u)
  <2>1. /\ view'.headers = [view.headers EXCEPT ![w] = Absent]
        /\ binned' = binned \cup {<<view.headers[w], w>>}
        /\ UNCHANGED <<db, rows, reader>>
    BY <1>3 DEF MoveToTrash, UiStep, TypeOK, UiOK
  <2>2. view.headers \in Rows
    BY DEF TypeOK, UiOK
  <2>3. view'.headers[u] = v => view.headers[u] = v
    BY <2>1, <2>2 DEF Validity, Absent
  <2> QED
    BY <2>1, <2>3 DEF Seen
<1>4. CASE CacheRead
  <2>1. UNCHANGED <<db, view, rows, binned>> /\ \E r : reader'.rows = CachedRows(r)
    BY <1>4 DEF CacheRead, ReaderStep, AnswerStep
  <2> QED
    BY <2>1, CachedRowsSeen DEF Seen
<1>5. CASE CacheAnswer
  <2>1. UNCHANGED <<db, rows, binned>> /\ reader'.rows = NoRows
    BY <1>5 DEF CacheAnswer, ReaderStep, AnswerStep, NoReader
  <2>2. \/ ShowUids(reader.uids, FALSE)
        \/ ShowHeaders(reader.rows)
        \/ UNCHANGED view
    BY <1>5 DEF CacheAnswer
  <2>3. view'.headers[u] = v => Seen(v, u)
    BY <2>2, ShowUidsSeen, ShowHeadersSeen DEF TypeOK, Seen
  <2> QED
    BY <1>0, <2>1, <2>3 DEF Seen
<1>6. CASE Restart
  BY <1>0, <1>6 DEF Restart, HandsFree, BlankView, NoReader, Seen
<1>7. CASE Take \/ TakeIdle
  <2>1. UNCHANGED <<db, view, reader, binned>> /\ \E r : rows' = CachedRows(r)
    BY <1>7 DEF Take, TakeIdle, Begin
  <2> QED
    BY <2>1, CachedRowsSeen DEF Seen
<1>8. CASE SelectFails \/ FetchUidsFails \/ FetchRowsFails \/ Result
  <2>1. UNCHANGED <<db, view, reader, binned>> /\ rows' \in {rows, NoRows}
    BY <1>8 DEF SelectFails, FetchUidsFails, FetchRowsFails, Result, RequestFails,
                HandsFree, FetchStep
  <2> QED
    BY <1>0, <2>1 DEF Seen
<1>9. CASE Answer
  <2>1. UNCHANGED <<db, reader, binned>> /\ rows' = NoRows
    BY <1>9 DEF Answer, HandsFree, AnswerStep
  <2>2. ShowUids(got, told) \/ ShowHeaders(rows) \/ UNCHANGED view
    BY <1>9 DEF Answer
  <2>3. told \in BOOLEAN
    BY DEF TypeOK, FlagsOK
  <2>4. view'.headers[u] = v => Seen(v, u)
    BY <2>2, <2>3, ShowUidsSeen, ShowHeadersSeen DEF TypeOK, Seen
  <2> QED
    BY <1>0, <2>1, <2>4 DEF Seen
<1>10. CASE \/ Select \/ ClearHeaders \/ ClearBodys \/ ClearUids
            \/ SetUids \/ DropBodys \/ DropHeaders
            \/ DeleteUids \/ DeleteHeaders \/ DeleteBodys
  <2>1. UNCHANGED <<view, rows, reader, binned>>
    BY <1>10 DEF Select, ClearHeaders, ClearBodys, ClearUids, ClearStep, SetUids,
                 DropBodys, DropHeaders, DeleteUids, DeleteHeaders, DeleteBodys, CacheStep
  <2>2. /\ db'.headers[u] = v => db.headers[u] = v
        /\ db'.bodys[u] = v => db.bodys[u] = v
    BY <1>0, <1>10, WithoutSeen
       DEF TypeOK, FolderOK, Select, ClearHeaders, ClearBodys, ClearUids, SetUids,
           DropBodys, DropHeaders, DeleteUids, DeleteHeaders, DeleteBodys
  <2> QED
    BY <2>1, <2>2 DEF Seen
<1>11. CASE FetchRows
  <2>1. /\ UNCHANGED <<view, reader, binned>> /\ rows' = Filled(rows) /\ pc = "fetch"
        /\ db'.headers \in {db.headers, Filled(db.headers)}
        /\ db'.bodys \in {db.bodys, Filled(db.bodys)}
    BY <1>11 DEF FetchRows, FetchStep, At, TypeOK, FolderOK
  <2> QED
    BY <2>1, FilledSeen DEF Seen
<1>12. CASE Reconnect \/ FetchUids \/ SelectOther
  BY <1>1, <1>12 DEF Reconnect, SessionStep, FetchUids, FetchStep, FetchSucceeds, SelectOther
<1> QED
  BY <1>1, <1>2, <1>3, <1>4, <1>5, <1>6, <1>7, <1>8, <1>9, <1>10, <1>11, <1>12, ActsLeaveRows
     DEF Next, ProcessThread, CacheThread, Environment, UserInterface, ServerActs, ActionActs

LEMMA GivenStep ==
  ASSUME TypeOK, GivenInv, Next
  PROVE  GivenInv'
<1>1. /\ server.validity \in Nat /\ server.next \in Nat /\ server'.next \in Nat
      /\ Uids \subseteq Nat /\ Validity \subseteq Nat /\ server.uids \subseteq Uids
      /\ server'.uids \subseteq Uids
  BY FolderPreserved, BoundsAssumption DEF TypeOK, FolderOK, Uids, Validity
<1>2. \A v \in Validity, u \in Uids :
        Seen(v, u)' => v < server.validity \/ (v = server.validity /\ u < server.next)
  BY SeenBefore DEF GivenInv
<1>3. CASE SameFolder
  BY <1>1, <1>2, <1>3 DEF SameFolder, GivenInv
<1>4. CASE NewFolder
  <2>1. \A v \in Validity, u \in Uids : Seen(v, u)' => v < server'.validity
    BY <1>1, <1>2, <1>4 DEF NewFolder
  <2> QED
    BY <1>4, <2>1 DEF NewFolder, GivenInv
<1> QED
  BY <1>3, <1>4, ServerMoves

LEMMA ActionInvStep ==
  ASSUME TypeOK, ActionInv, Next
  PROVE  ActionInv'
<1> USE DEF ActionInv, At
<1> USE DEF sessionVars, threadVars, answerVars, uiVars, history
<1>1. CASE UNCHANGED <<pc, resume, ok, selected>>
  BY <1>1
<1>2. CASE Take \/ TakeIdle
  <2>1. /\ UNCHANGED selected /\ resume' \in {"fetch", "copy", "move"}
        /\ pc' \in {"answer", "select"} \/ selected
    BY <1>2 DEF Take, TakeIdle, Begin
  <2> QED
    BY <2>1
<1>3. CASE HandsFree
  BY <1>3 DEF HandsFree
<1>4. CASE SelectFails
  BY <1>3, <1>4 DEF SelectFails, RequestFails
<1>5. CASE Select \/ ClearHeaders \/ ClearBodys \/ ClearUids
  BY <1>5 DEF Select, ClearHeaders, ClearBodys, ClearUids, ClearStep, CacheStep
<1>6. CASE \/ FetchUids \/ FetchRows \/ SetUids \/ DropBodys \/ DropHeaders
           \/ DeleteUids \/ DeleteHeaders \/ DeleteBodys
  BY <1>6 DEF FetchUids, FetchRows, FetchSucceeds, FetchStep, SetUids, DropBodys,
              DropHeaders, DeleteUids, DeleteHeaders, DeleteBodys, CacheStep
<1>7. CASE FetchUidsFails \/ FetchRowsFails \/ Result \/ Answer \/ Restart
  BY <1>3, <1>7 DEF FetchUidsFails, FetchRowsFails, RequestFails, Result, Answer, Restart
<1>8. CASE ActionActs
  <2>1. UNCHANGED <<cur, resume, selected>>
    BY <1>8, ActsLeaveRows
  <2>4. ok' => ok
    <3>1. ok' = ok \/ ok' = FALSE
      BY <1>8 DEF ActionActs, Move, MoveFails, Copy, CopyFails, Store, StoreFails,
                  ExpungeFlagged, ExpungeFails
    <3> QED
      BY <3>1
  <2>2. pc' \in {"copy", "store"} => pc = "copy"
    BY <1>8 DEF ActionActs, Move, MoveFails, Copy, CopyFails, Store, StoreFails,
                ExpungeFlagged, ExpungeFails, Returned
  <2>3. pc' \notin {"clearHeaders", "clearBodys", "clearUids"}
    BY <1>8 DEF ActionActs, Move, MoveFails, Copy, CopyFails, Store, StoreFails,
                ExpungeFlagged, ExpungeFails, Returned
  <2> QED
    BY <2>1, <2>2, <2>3, <2>4
<1>9. CASE Reconnect \/ SelectOther
  BY <1>9 DEF Reconnect, SelectOther, SessionStep
<1>10. CASE ServerActs \/ CacheThread \/ UserInterface
  BY <1>1, <1>10
     DEF ServerActs, Arrive, Renumber, Expunged, ServerStep, CacheThread, CacheRead,
         CacheAnswer, ReaderStep, AnswerStep, UserInterface, AskUids, AskHeaders,
         AskBody, MoveToTrash, UiStep
<1> QED
  BY <1>2, <1>4, <1>5, <1>6, <1>7, <1>8, <1>9, <1>10
     DEF Next, ProcessThread, Environment, ServerActs, ActionActs

(* The thread comes to its mark from a copy that was made, or stays there. *)
LEMMA MarkAfterCopy ==
  ASSUME TypeOK, ActionInv, Next, pc' = "store", ok'
  PROVE  Copy \/ UNCHANGED <<pc, ok, cur, trash>>
<1> USE DEF ActionInv, At
<1> USE DEF sessionVars, threadVars, answerVars, uiVars, history
<1>1. CASE Take \/ TakeIdle
  <2>1. resume' \in {"fetch", "copy", "move"} /\ pc' \in {"answer", "select", resume'}
    BY <1>1 DEF Take, TakeIdle, Begin
  <2> QED
    BY <2>1
<1>2. CASE HandsFree
  BY <1>2 DEF HandsFree
<1>3. CASE SelectFails
  BY <1>2, <1>3 DEF SelectFails, RequestFails
<1>4. CASE Select \/ ClearHeaders \/ ClearBodys \/ ClearUids
  BY <1>4 DEF Select, ClearHeaders, ClearBodys, ClearUids, ClearStep, CacheStep
<1>5. CASE \/ FetchUids \/ FetchRows \/ SetUids \/ DropBodys \/ DropHeaders
           \/ DeleteUids \/ DeleteHeaders \/ DeleteBodys
  BY <1>5 DEF FetchUids, FetchRows, FetchSucceeds, FetchStep, SetUids, DropBodys,
              DropHeaders, DeleteUids, DeleteHeaders, DeleteBodys, CacheStep
<1>6. CASE FetchUidsFails \/ FetchRowsFails \/ Result \/ Answer \/ Restart
  BY <1>2, <1>6 DEF FetchUidsFails, FetchRowsFails, RequestFails, Result, Answer, Restart
<1>7. CASE ActionActs
  BY <1>7 DEF ActionActs, Move, MoveFails, Copy, CopyFails, Store, StoreFails,
              ExpungeFlagged, ExpungeFails, Returned
<1>8. CASE Reconnect \/ SelectOther
  BY <1>8 DEF Reconnect, SelectOther, SessionStep
<1>9. CASE ServerActs \/ CacheThread \/ UserInterface
  BY <1>9
     DEF ServerActs, Arrive, Renumber, Expunged, ServerStep, CacheThread, CacheRead,
         CacheAnswer, ReaderStep, AnswerStep, UserInterface, AskUids, AskHeaders,
         AskBody, MoveToTrash, UiStep
<1> QED
  BY <1>1, <1>3, <1>4, <1>5, <1>6, <1>7, <1>8, <1>9
     DEF Next, ProcessThread, Environment, ServerActs, ActionActs

LEMMA CopiedStep ==
  ASSUME TypeOK, LossInv, Next
  PROVE  CopiedInv'
<1> DEFINE v == server.validity
<1> SUFFICES ASSUME pc' = "store", ok', NEW u \in cur'.uids \cap server'.uids,
                    Seen(v, u)'
             PROVE  <<v, u>>' \in trash'
  BY DEF CopiedInv
<1> USE DEF LossInv
<1>1. server.next \in Nat /\ server.validity \in Validity /\ Uids \subseteq Nat
      /\ server.uids \subseteq Uids /\ server'.uids \subseteq Uids /\ Validity \subseteq Nat
  BY FolderPreserved, BoundsAssumption DEF TypeOK, FolderOK, Uids, Validity
<1>2. CASE Copy
  <2>1. UNCHANGED <<server, cur>> /\ trash' = trash \cup Here(cur.uids)
    BY <1>2 DEF Copy, ActionStep, Trashed
  <2> QED
    BY <2>1 DEF Here
<1>3. CASE UNCHANGED <<pc, ok, cur, trash>>
  <2>1. pc = "store" /\ ok /\ selected
    BY <1>3 DEF ActionInv
  <2>2. SameFolder
    BY <2>1, ServerMoves DEF Renumber
  <2>3. Seen(v, u)
    <3>1. ASSUME NEW w \in Validity, w = v', Seen(w, u)'
          PROVE  Seen(w, u)
      BY <1>1, <2>1, <3>1, SeenBefore
    <3> QED
      BY <1>1, <2>2, <3>1 DEF SameFolder, Seen
  <2>4. u \in server.uids
    BY <1>1, <2>2, <2>3 DEF SameFolder, GivenInv
  <2> QED
    BY <1>3, <2>1, <2>2, <2>3, <2>4 DEF SameFolder, CopiedInv
<1> QED
  BY <1>2, <1>3, MarkAfterCopy

(* An expunge takes what is marked; a move loses nothing.                  *)
LEMMA ErasedLoses ==
  ASSUME TypeOK, LossInv, NEW S, Erased(S),
         trash \subseteq trash', unsafe \subseteq unsafe',
         Here(S) \subseteq trash' \cup unsafe'
  PROVE  MarkedInv' /\ LostOnlyIfUnsafe'
<1>1. server' = [server EXCEPT !.uids = @ \ S, !.flagged = @ \ S]
      /\ lost' = lost \cup ((Here(S) \cap binned) \ trash')
  BY DEF Erased
<1>2. server'.validity = server.validity /\ server'.flagged \subseteq server.flagged
  BY <1>1 DEF TypeOK, FolderOK
<1> QED
  BY <1>1, <1>2 DEF LossInv, MarkedInv, LostOnlyIfUnsafe

(* A mark without a copy is unsafe.                                        *)
LEMMA MarkedSafely ==
  ASSUME TypeOK, LossInv, At("store"), Marked, UNCHANGED <<trash, lost>>
  PROVE  MarkedInv' /\ LostOnlyIfUnsafe'
<1>1. /\ server'.validity = server.validity
      /\ server'.flagged = server.flagged \cup (cur.uids \cap server.uids)
  BY DEF Marked, TypeOK, FolderOK
<1>2. /\ unsafe' = unsafe \cup (IF ok THEN Here(cur.uids) \ binned ELSE Here(cur.uids))
  BY DEF Marked
<1>3. ASSUME NEW u \in cur.uids \cap server.uids
      PROVE  <<server.validity, u>> \in trash \cup unsafe'
  BY <1>2, <1>3 DEF LossInv, CopiedInv, At, Seen, Here
<1>4. MarkedInv'
  BY <1>1, <1>2, <1>3 DEF LossInv, MarkedInv
<1> QED
  BY <1>2, <1>4 DEF LossInv, LostOnlyIfUnsafe

LEMMA LossStep ==
  ASSUME TypeOK, LossInv, Next
  PROVE  MarkedInv' /\ LostOnlyIfUnsafe'
<1>1. ASSUME UNCHANGED <<lost, unsafe>>, trash \subseteq trash',
             server'.flagged = {} \/ (server'.validity = server.validity
                                      /\ server'.flagged \subseteq server.flagged)
      PROVE  MarkedInv' /\ LostOnlyIfUnsafe'
  BY <1>1 DEF LossInv, MarkedInv, LostOnlyIfUnsafe
<1>2. CASE ServerActs
  <2>1. UNCHANGED <<trash, lost, unsafe>>
    BY <1>2 DEF ServerActs, Arrive, Renumber, Expunged, ServerStep, history
  <2>2. CASE Renumber
    BY <1>1, <2>1, <2>2 DEF Renumber
  <2>3. CASE Arrive \/ \E u \in Uids : Expunged(u)
    BY <1>1, <2>1, <2>3 DEF Arrive, Expunged, TypeOK, FolderOK
  <2> QED
    BY <1>2, <2>2, <2>3 DEF ServerActs
<1>3. CASE Move \/ (MoveFails /\ Trashed(cur.uids) /\ Erased(cur.uids))
  <2>1. trash' = trash \cup Here(cur.uids) /\ Erased(cur.uids) /\ UNCHANGED unsafe
    BY <1>3 DEF Move, MoveFails, Trashed
  <2> QED
    BY <2>1, ErasedLoses
<1>4. CASE MoveFails /\ UNCHANGED <<server, trash, lost>>
  BY <1>1, <1>4 DEF MoveFails
<1>5. CASE Copy \/ CopyFails
  BY <1>1, <1>5 DEF Copy, CopyFails, Trashed
<1>6. CASE Store \/ StoreFails
  <2>1. At("store") /\ UNCHANGED <<trash, lost>> /\ (Marked \/ UNCHANGED <<server, unsafe>>)
    BY <1>6 DEF Store, StoreFails
  <2> QED
    BY <1>1, <2>1, MarkedSafely
<1>7. CASE ExpungeFlagged \/ ExpungeFails
  <2>1. /\ UNCHANGED <<trash, unsafe>>
        /\ Erased(server.flagged) \/ UNCHANGED <<server, lost>>
    BY <1>7 DEF ExpungeFlagged, ExpungeFails, Expunge
  <2>2. Here(server.flagged) \subseteq trash \cup unsafe
    BY DEF LossInv, MarkedInv, Here
  <2> QED
    BY <1>1, <2>1, <2>2, ErasedLoses
<1>8. CASE UNCHANGED <<server, trash, lost, unsafe>>
  BY <1>1, <1>8
<1>9. MoveFails => \/ Trashed(cur.uids) /\ Erased(cur.uids)
                   \/ UNCHANGED <<server, trash, lost>>
  BY DEF MoveFails
<1> QED
  BY <1>2, <1>3, <1>4, <1>5, <1>6, <1>7, <1>8, <1>9, OthersLeaveServer DEF ActionActs

(* For every number of messages, validities, requests and mishaps: what    *)
(* the user puts into the trash is in the trash folder of the server when  *)
(* it has left its own (Imap::CopyMessages, Imap::MoveMessages and         *)
(* Imap::DeleteMessages as ImapManager::PerformAction calls them), unless  *)
(* it was marked for deletion without a copy or by a stale uid.            *)
THEOREM NothingLostUnlessUnsafe == Spec => []LostOnlyIfUnsafe
<1>1. ASSUME TypeOK, LossInv, [Next]_vars
      PROVE  LossInv'
  <2>1. CASE UNCHANGED vars
    BY <1>1, <2>1
       DEF LossInv, GivenInv, ActionInv, CopiedInv, MarkedInv, LostOnlyIfUnsafe, Seen,
           vars, sessionVars, threadVars, answerVars, uiVars, history
  <2>2. CASE Next
    <3>1. GivenInv' /\ ActionInv'
      BY <1>1, <2>2, GivenStep, ActionInvStep DEF LossInv
    <3>2. CopiedInv' /\ MarkedInv' /\ LostOnlyIfUnsafe'
      BY <1>1, <2>2, CopiedStep, LossStep
    <3> QED
      BY <3>1, <3>2 DEF LossInv
  <2> QED
    BY <1>1, <2>1, <2>2
<1>2. LossInv => LostOnlyIfUnsafe
  BY DEF LossInv
<1> QED
  BY LossInvInit, TypeCorrect, <1>1, <1>2, PTL DEF Spec

=============================================================================
