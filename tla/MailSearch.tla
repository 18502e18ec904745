------------------------------ MODULE MailSearch ------------------------------
(***************************************************************************)
(* Searching for mails (ui.cpp, imapmanager.cpp, imap.cpp).                *)
(*                                                                         *)
(* The user interface asks for the first rows of a search, and for the     *)
(* next page when the user gets near the end of what it has.  Local        *)
(* searches are performed by a thread of their own, searches on the server *)
(* by the process thread; each takes the newest request first.  They add   *)
(* what they find to the list on their own threads, and from there may ask *)
(* for the next page too.                                                  *)
(*                                                                         *)
(* All searches find the same mails, the newest first; every search has    *)
(* another query.  A mail is told by its age, a row of the list is a mail  *)
(* together with the search that has found it.  Mails of the list may be   *)
(* deleted, by a prompt during which the other threads go on.              *)
(***************************************************************************)
EXTENDS Integers, Sequences, FiniteSets, FiniteSetsExt

CONSTANTS
  FirstMails,    \* mails that match in the beginning
  MaxMails,      \* mails that match in the end
  Height,        \* m_MainWinHeight
  MaxSearches,   \* searches that the user starts
  MaxFailures,   \* searches on the server that fail
  MaxDeletes     \* times the user wants to delete mails

ASSUME BoundsAssumption ==
  /\ FirstMails \in Nat \ {0}
  /\ MaxMails \in Nat /\ FirstMails <= MaxMails
  /\ Height \in Nat \ {0}
  /\ MaxSearches \in Nat
  /\ MaxFailures \in Nat
  /\ MaxDeletes \in Nat

Mails == 1 .. MaxMails
NoMail == 0    \* a mail that no search finds, or none
Kinds == {"local", "server"}
NoSearch == 0
Searches == NoSearch .. MaxSearches

(* ImapManager::SearchQuery.                                               *)
Query(search, offset, max) == [search |-> search, offset |-> offset, max |-> max]
NoQuery == Query(NoSearch, 0, 0)

(* ImapManager::SearchResult, and the mails that it was found among.       *)
Result(rows, hasMore, among) == [rows |-> rows, hasMore |-> hasMore, among |-> among]
Nothing == Result(<<>>, FALSE, {})

VARIABLES
  mails,       \* mails that match, or did
  gone,        \* those that are deleted
  searching,   \* m_MessageListSearch
  isLocal,     \* m_IsLocalSearch
  list,        \* m_MessageListSearchQuery, Offset, Max, HasMore, ResultHeaders
  index,       \* m_MessageListCurrentIndex
  current,     \* m_CurrentFolderUid
  ui,          \* where SearchMessage() or DeleteMessage() is
  selected,    \* m_SelectedUids
  deleting,    \* actions of ImapManager: mails to be deleted
  started,     \* searches that the user has started
  queue,       \* m_SearchQueue and m_SearchRequests
  pc,          \* where the thread of a kind is
  hand,        \* the request that it performs
  result,      \* what it has found
  last,        \* m_LastSearchQueryStr and m_LastSearchUids
  failures,    \* how often a search on the server has failed
  deletes,     \* how often the user has wanted to delete mails
  base,        \* mails that the first rows of the list were found among
  deleted,     \* mails that the user has deleted from these rows
  overtaken,   \* the list has got rows of an earlier search
  shifted,     \* mails have come or gone since, and a page was counted anew
  skipped,     \* deleted mails were left in the list
  shrunk,      \* the list has lost rows since the index was last looked at
  failed,      \* a search on the server has failed for this list
  asked        \* what the user sees that is to be deleted

mailVars == <<mails, gone>>
userVars == <<searching, ui, started>>
listVars == <<isLocal, list, index, current>>
deleteVars == <<selected, deleting, deletes, asked>>
threadVars == <<pc, hand, result, last, failures>>
ghostVars == <<base, deleted, overtaken, shifted, skipped, failed>>
vars == <<mailVars, userVars, listVars, queue, deleteVars, threadVars,
          ghostVars, shrunk>>

NewList(search) ==
  [search |-> search, offset |-> 0, max |-> 2 * Height, hasMore |-> FALSE, rows |-> <<>>]

Init ==
  /\ mails = FirstMails /\ gone = {}
  /\ searching = FALSE /\ isLocal = TRUE
  /\ list = NewList(NoSearch)
  /\ index = 0 /\ current = NoMail
  /\ ui = "idle" /\ started = 0
  /\ selected = {} /\ deleting = {} /\ deletes = 0 /\ asked = {}
  /\ queue = [k \in Kinds |-> <<>>]
  /\ pc = [k \in Kinds |-> "wait"]
  /\ hand = [k \in Kinds |-> NoQuery]
  /\ result = [k \in Kinds |-> Nothing]
  /\ last = [search |-> NoSearch, among |-> {}]
  /\ base = {} /\ deleted = {}
  /\ overtaken = FALSE /\ shifted = FALSE /\ skipped = FALSE
  /\ shrunk = FALSE /\ failed = FALSE
  /\ failures = 0

(* A mail that matches comes in.                                           *)
NewMail ==
  /\ mails < MaxMails
  /\ mails' = mails + 1
  /\ UNCHANGED <<gone, userVars, listVars, queue, deleteVars, threadVars,
                 ghostVars, shrunk>>

(* The mails that a search finds at present.                               *)
Matching == (1 .. mails) \ gone

(* The newest first.                                                       *)
Newest(ms) ==
  [i \in 1 .. Cardinality(ms) |->
     CHOOSE m \in ms : Cardinality({n \in ms : n > m}) = i - 1]

-----------------------------------------------------------------------------
(* The list, under Ui::m_SearchMutex.                                      *)

(* ImapManager::AsyncSearch, push_front.                                   *)
Pushed(k, query) == [queue EXCEPT ![k] = <<query>> \o @]

Kind == IF isLocal THEN "local" ELSE "server"

(* Mutant: the upper bound is applied last.                                *)
BoundedAbove(i) == IF i >= Len(list.rows) THEN Len(list.rows) - 1 ELSE i

(* Util::Bound: of an empty list the index is 0.                           *)
Bounded(i) ==
  IF i >= Len(list.rows) THEN IF list.rows = <<>> THEN 0 ELSE Len(list.rows) - 1
  ELSE i

(* The index goes to i; of an empty list the current mail stays.  Near the *)
(* end of the rows a page is asked for.                                    *)
UpdateUidFromIndex(i) ==
  LET next == Query(list.search, list.offset + list.max, Height) IN
  /\ index' = Bounded(i)
  /\ current' = IF list.rows = <<>> THEN current ELSE list.rows[Bounded(i) + 1].mail
  /\ shrunk' = FALSE
  /\ IF list.hasMore /\ Bounded(i) + Height >= Len(list.rows)
     THEN /\ list' = [list EXCEPT !.offset = next.offset, !.max = Height,
                                  !.hasMore = FALSE]
          /\ queue' = Pushed(Kind, next)
     ELSE UNCHANGED <<list, queue>>

-----------------------------------------------------------------------------
(* The user interface thread.                                              *)

(* SearchMessage() with a query.  The kind of the search changes first,    *)
(* outside the mutex.                                                      *)
SearchMessage(k) ==
  /\ ui = "idle"
  /\ started < MaxSearches
  /\ started' = started + 1
  /\ isLocal' = (k = "local")
  /\ searching' = TRUE
  /\ index' = 0
  /\ selected' = {}
  /\ ui' = "reset"
  /\ UNCHANGED <<mailVars, list, current, queue, deleting, deletes, asked,
                 threadVars, ghostVars, shrunk>>

Reset ==
  /\ ui = "reset"
  /\ list' = NewList(started)
  /\ ui' = "submit"
  /\ base' = {} /\ deleted' = {}
  /\ overtaken' = FALSE /\ shifted' = FALSE /\ skipped' = FALSE
  /\ shrunk' = FALSE /\ failed' = FALSE
  /\ UNCHANGED <<mailVars, searching, started, isLocal, index, current, queue,
                 deleteVars, threadVars>>

Submit ==
  /\ ui = "submit"
  /\ queue' = Pushed(Kind, Query(started, 0, 2 * Height))
  /\ ui' = "idle"
  /\ UNCHANGED <<mailVars, searching, started, listVars, deleteVars, threadVars,
                 ghostVars, shrunk>>

(* A key that moves the index.                                             *)
Move(i) ==
  /\ ui = "idle" /\ searching
  /\ UpdateUidFromIndex(i)
  /\ UNCHANGED <<mailVars, userVars, isLocal, deleteVars, threadVars, ghostVars>>

(* The user goes back to a folder, and to a mail of it.                    *)
Leave ==
  /\ ui = "idle" /\ searching
  /\ searching' = FALSE
  /\ current' = NoMail
  /\ UNCHANGED <<mailVars, ui, started, isLocal, list, index, queue, deleteVars,
                 threadVars, ghostVars, shrunk>>

Shown == {list.rows[i].mail : i \in DOMAIN list.rows}

(* The key that deletes the selected mails, or else the current one, opens *)
(* a prompt.                                                               *)
AskDelete(ms) ==
  /\ ui = "idle" /\ searching
  /\ deletes < MaxDeletes
  /\ deletes' = deletes + 1
  /\ UpdateUidFromIndex(index)
  /\ selected' = ms
  /\ asked' = IF ms # {} THEN ms
              ELSE IF list.rows = <<>> THEN {} ELSE {current'}
  /\ ui' = "confirm"
  /\ UNCHANGED <<mailVars, searching, started, isLocal, deleting, threadVars, ghostVars>>

(* The loop steps over the row that takes the place of an erased one: of   *)
(* adjacent rows every second one stays.                                   *)
Erased(rows, ms) ==
  LET Run(i) == Cardinality({j \in 1 .. i : \A k \in j .. i : rows[k].mail \in ms})
      kept == {i \in DOMAIN rows : Run(i) % 2 = 0}
  IN [n \in 1 .. Cardinality(kept) |->
        rows[CHOOSE i \in kept : Cardinality({j \in kept : j < i}) = n - 1]]

(* DeleteMessages() and MoveMessages(); the index is left as it is.        *)
DeleteMessages ==
  LET ms == IF selected = {} THEN {current} ELSE selected
      rows == Erased(list.rows, ms) IN
  /\ ui = "confirm"
  /\ deleting' = deleting \cup ms
  /\ list' = [list EXCEPT !.rows = rows]
  /\ deleted' = deleted \cup (ms \cap Shown)
  /\ skipped' = (skipped \/ \E i \in DOMAIN rows : rows[i].mail \in ms)
  /\ shrunk' = TRUE
  /\ selected' = {} /\ asked' = {}
  /\ ui' = "idle"
  /\ UNCHANGED <<mailVars, searching, started, isLocal, index, current, queue,
                 deletes, threadVars, base, overtaken, shifted, failed>>

(* What is selected is chosen anew for the next prompt.                    *)
DontDelete ==
  /\ ui = "confirm"
  /\ ui' = "idle"
  /\ selected' = {} /\ asked' = {}
  /\ UNCHANGED <<mailVars, searching, started, listVars, queue, deleting, deletes,
                 threadVars, ghostVars, shrunk>>

-----------------------------------------------------------------------------
(* The search thread and the process thread.                               *)

Take(k) ==
  /\ pc[k] = "wait"
  /\ queue[k] # <<>>
  /\ hand' = [hand EXCEPT ![k] = Head(queue[k])]
  /\ queue' = [queue EXCEPT ![k] = Tail(@)]
  /\ pc' = [pc EXCEPT ![k] = "search"]
  /\ UNCHANGED <<mailVars, userVars, listVars, deleteVars, result, last, failures,
                 ghostVars, shrunk>>

(* The process thread performs the actions; the index is told.             *)
PerformAction ==
  /\ pc["server"] = "wait" /\ queue["server"] = <<>>
  /\ deleting # {}
  /\ gone' = gone \cup (deleting \ {NoMail})
  /\ deleting' = {}
  /\ UNCHANGED <<mails, userVars, listVars, queue, selected, deletes, asked,
                 threadVars, ghostVars, shrunk>>

Least(a, b) == IF a < b THEN a ELSE b

Page(query, among) ==
  SubSeq(Newest(among), query.offset + 1, Least(query.offset + query.max, Cardinality(among)))

RowsOf(search, ms) == [i \in DOMAIN ms |-> [search |-> search, mail |-> ms[i]]]

(* Mutant: off by one, a single mail more is not noticed.                  *)
FoundShort(query, among) ==
  Result(RowsOf(query.search, Page(query, among)),
         Cardinality(among) > query.offset + query.max + 1, among)

(* What a query gives among some mails.                                    *)
Found(query, among) ==
  Result(RowsOf(query.search, Page(query, among)),
         Cardinality(among) > query.offset + query.max, among)

Finds(k, found) ==
  /\ result' = [result EXCEPT ![k] = found]
  /\ pc' = [pc EXCEPT ![k] = "answer"]

SearchStep == UNCHANGED <<mailVars, userVars, listVars, queue, deleteVars, hand,
                          base, deleted, overtaken, shifted, skipped, shrunk>>

(* SearchEngine::Search runs the query anew for every page.  The headers   *)
(* of what it finds are in the cache: they were indexed from there.        *)
SearchLocal ==
  /\ pc["local"] = "search"
  /\ Finds("local", Found(hand["local"], Matching))
  /\ UNCHANGED <<last, failures, failed>>
  /\ SearchStep

(* Mutant: the uids of the last search are not used for its next page.     *)
AmongAnew == Matching

(* Imap::SearchServer keeps the uids of the last search for its next page. *)
Among ==
  IF hand["server"].search = last.search /\ hand["server"].offset # 0
  THEN last.among ELSE Matching

SearchServer ==
  /\ pc["server"] = "search"
  /\ Finds("server", Found(hand["server"], Among))
  /\ last' = [search |-> hand["server"].search, among |-> Among]
  /\ UNCHANGED <<failures, failed>>
  /\ SearchStep

(* A header of the page is not cached, or not any more: GetHeaders() locks *)
(* m_ImapMutex, which SearchServer() holds.                                *)
Relock ==
  /\ pc["server"] = "search"
  /\ Found(hand["server"], Among).rows # <<>>
  /\ last' = [search |-> hand["server"].search, among |-> Among]
  /\ pc' = [pc EXCEPT !["server"] = "stuck"]
  /\ UNCHANGED <<result, failures, failed>>
  /\ SearchStep

(* PerformSearch() answers a failed search as one that has found nothing.  *)
SearchServerFails ==
  /\ pc["server"] = "search"
  /\ failures < MaxFailures
  /\ failures' = failures + 1
  /\ Finds("server", Nothing)
  /\ \/ UNCHANGED last
     \/ last' = [search |-> NoSearch, among |-> {}]
  /\ failed' = TRUE
  /\ SearchStep

(* SearchHandler() does not look whose answer it gets.                     *)
SearchHandler(k) ==
  LET first == hand[k].offset = 0 IN
  /\ pc[k] = "answer"
  /\ list' = [list EXCEPT !.rows = IF first THEN result[k].rows ELSE @ \o result[k].rows,
                          !.hasMore = result[k].hasMore]
  /\ base' = IF first THEN result[k].among ELSE base
  /\ deleted' = IF first THEN {} ELSE deleted
  /\ overtaken' = (overtaken \/ hand[k].search # list.search)
  /\ shifted' = (~first /\ (shifted \/ (k = "local" /\ result[k].among # base)))
  /\ pc' = [pc EXCEPT ![k] = "update"]
  /\ UNCHANGED <<mailVars, userVars, isLocal, index, current, queue, deleteVars, hand,
                 result, last, failures, skipped, shrunk, failed>>

(* Mutant: the list is shown from its beginning again.                     *)
UpdateToTop(k) ==
  /\ pc[k] = "update"
  /\ IF searching THEN UpdateUidFromIndex(0)
     ELSE UNCHANGED <<list, index, current, queue, shrunk>>
  /\ pc' = [pc EXCEPT ![k] = "wait"]
  /\ hand' = [hand EXCEPT ![k] = NoQuery]
  /\ result' = [result EXCEPT ![k] = Nothing]
  /\ UNCHANGED <<mailVars, userVars, isLocal, deleteVars, last, failures, ghostVars>>

(* The end of SearchHandler(): the mutex was let go in between.            *)
Update(k) ==
  /\ pc[k] = "update"
  /\ IF searching THEN UpdateUidFromIndex(index)
     ELSE UNCHANGED <<list, index, current, queue, shrunk>>
  /\ pc' = [pc EXCEPT ![k] = "wait"]
  /\ hand' = [hand EXCEPT ![k] = NoQuery]
  /\ result' = [result EXCEPT ![k] = Nothing]
  /\ UNCHANGED <<mailVars, userVars, isLocal, deleteVars, last, failures, ghostVars>>

-----------------------------------------------------------------------------

User ==
  \/ \E k \in Kinds : SearchMessage(k)
  \/ \E i \in 0 .. Len(list.rows) : Move(i)
  \/ Leave
  \/ \E ms \in {{}} \cup kSubset(2, Shown) : AskDelete(ms)
  \/ DeleteMessages \/ DontDelete

SearchProcess == Take("local") \/ SearchLocal \/ SearchHandler("local") \/ Update("local")

Process ==
  \/ Take("server") \/ SearchServer \/ Relock \/ SearchServerFails
  \/ SearchHandler("server") \/ Update("server")
  \/ PerformAction

Next == NewMail \/ User \/ Reset \/ Submit \/ SearchProcess \/ Process

Spec == Init /\ [][Next]_vars

(* The threads run, and SearchMessage() returns.                           *)
FairSpec == Spec /\ WF_vars(Reset \/ Submit) /\ WF_vars(SearchProcess) /\ WF_vars(Process)

-----------------------------------------------------------------------------

Row == [search : Searches, mail : Mails]

TypeOK ==
  /\ mails \in FirstMails .. MaxMails
  /\ gone \subseteq 1 .. mails
  /\ searching \in BOOLEAN
  /\ isLocal \in BOOLEAN
  /\ list.search \in Searches
  /\ list.offset \in Nat /\ list.max \in Nat \ {0}
  /\ list.hasMore \in BOOLEAN
  /\ list.rows \in Seq(Row)
  /\ index \in Nat /\ current \in Mails \cup {NoMail}
  /\ ui \in {"idle", "reset", "submit", "confirm"}
  /\ selected \subseteq Mails /\ asked \subseteq Mails
  /\ deleting \subseteq Mails \cup {NoMail} /\ deletes \in 0 .. MaxDeletes
  /\ started \in Searches
  /\ \A k \in Kinds :
       /\ \A i \in 1 .. Len(queue[k]) : queue[k][i].search \in 1 .. MaxSearches
       /\ pc[k] \in {"wait", "search", "answer", "update", "stuck"}
       /\ hand[k].search \in Searches
       /\ result[k].rows \in Seq(Row)
  /\ last.search \in Searches
  /\ base \subseteq Mails /\ deleted \subseteq Mails
  /\ {overtaken, shifted, skipped, shrunk, failed} \subseteq BOOLEAN
  /\ failures \in 0 .. MaxFailures

(* The list shows what the last search finds, the newest mail first, with  *)
(* no mail missing or shown twice and without those deleted from it,       *)
(* although two threads ask for pages, and answers, moves and deletions    *)
(* come in any order.  Three windows: answers of an earlier search come in *)
(* later (SearchHandler() does not compare the query, and the newest       *)
(* request is performed first); mails come, or go, between two pages that  *)
(* are counted anew; adjacent rows are deleted together.                   *)
RowsInOrder ==
  ui # "reset" /\ ~overtaken /\ ~shifted /\ ~skipped =>
    list.rows = RowsOf(list.search, SubSeq(Newest(base \ deleted), 1, Len(list.rows)))

(* What is deleted is what the user saw selected or under the cursor when  *)
(* asked, although other threads change the list and the current mail      *)
(* while the prompt is open, unless there was no row to see or an answer of*)
(* an earlier search has come in (DeleteMessage(), SearchHandler()).       *)
DeletesAsAsked ==
  [][deleting' \ deleting \subseteq asked \/ asked = {} \/ overtaken]_vars

(* A user who stays at the end of the list gets to see more, until all is  *)
(* shown, unless an answer of an earlier search comes in between, a search *)
(* on the server fails, or the process thread waits for its own mutex.     *)
(* After a deletion a key must be pressed first.                           *)
AtEnd == searching /\ ui = "idle" /\ ~shrunk /\ index + Height >= Len(list.rows)

EventuallyShown ==
  AtEnd ~> \/ ~AtEnd
           \/ base # {} /\ Len(list.rows) >= Cardinality(base \ deleted)
           \/ overtaken \/ shifted \/ failed
           \/ ~isLocal /\ pc["server"] = "stuck"

=============================================================================
