--------------------------- MODULE MailSearchProofs ---------------------------
(***************************************************************************)
(* Proofs about searching: the list has the rows of its search in order,   *)
(* and what is deleted is what was asked about.                            *)
(*                                                                         *)
(* As long as no answer of an earlier search has come in, the list has one *)
(* request under way at most, for the page after its rows; the rest is     *)
(* counting: rows and deleted mails together are a beginning of the mails  *)
(* that the search has found.                                              *)
(***************************************************************************)
EXTENDS MailSearch, FiniteSetTheorems, SequenceTheorems, TLAPS

Known == 1 .. mails
KnownRow == [search : Searches, mail : Known]
AnyQuery == [search : Searches, offset : Nat, max : Nat]

SomeList == [search : Searches, offset : Nat, max : Nat \ {0}, hasMore : BOOLEAN,
             rows : Seq(KnownRow)]
SomeResult == [rows : Seq(KnownRow), hasMore : BOOLEAN, among : SUBSET Known]

StateInv ==
  /\ mails \in Nat /\ FirstMails <= mails /\ mails <= MaxMails
  /\ gone \subseteq Known
  /\ searching \in BOOLEAN /\ isLocal \in BOOLEAN
  /\ index \in Nat
  /\ ui \in {"idle", "reset", "submit", "confirm"}
  /\ started \in Searches
  /\ deletes \in 0 .. MaxDeletes /\ failures \in 0 .. MaxFailures
  /\ overtaken \in BOOLEAN /\ shifted \in BOOLEAN /\ skipped \in BOOLEAN
  /\ shrunk \in BOOLEAN /\ failed \in BOOLEAN

(* The mails that are shown, chosen or found have come in.                 *)
ListInv ==
  /\ list \in SomeList
  /\ current \in Known \cup {NoMail}
  /\ selected \subseteq Known /\ asked \subseteq Known
  /\ deleting \subseteq Known \cup {NoMail}
  /\ base \subseteq Known /\ deleted \subseteq Known

ThreadInv ==
  /\ queue \in [Kinds -> Seq(AnyQuery)]
  /\ pc \in [Kinds -> {"wait", "search", "answer", "update", "stuck"}]
  /\ hand \in [Kinds -> AnyQuery]
  /\ result \in [Kinds -> SomeResult]
  /\ last \in [search : Searches, among : SUBSET Known]

(* Requests are of this search or of an earlier one.                       *)
AgeInv ==
  /\ ui = "reset" => list.search < started
  /\ ui # "reset" => list.search = started
  /\ ui = "submit" => started # NoSearch
  /\ \A k \in Kinds :
       /\ \A i \in 1 .. Len(queue[k]) : queue[k][i].search \in 1 .. list.search
       /\ pc[k] # "wait" => hand[k].search \in 1 .. list.search
  /\ list.hasMore => list.search # NoSearch

TypeInv == StateInv /\ ListInv /\ ThreadInv /\ AgeInv

(* The list belongs to the search, and no other has come into it.          *)
Ours == ui # "reset" /\ ~overtaken

(* A request of the list that is under way: i is its place in the queue,   *)
(* or 0 if it is in hand.                                                  *)
Request(k, i) == IF i = 0 THEN hand[k] ELSE queue[k][i]

Requested(k, i) ==
  /\ IF i = 0 THEN pc[k] \in {"search", "answer", "stuck"} ELSE i \in 1 .. Len(queue[k])
  /\ Request(k, i).search = list.search

UnderWay == \E k \in Kinds : \E i \in 0 .. Len(queue[k]) : Requested(k, i)

(* There is one at most, for the next page, or for the first one.          *)
PageInv ==
  Ours =>
    /\ \A k \in Kinds : \A i \in 0 .. Len(queue[k]) : Requested(k, i) =>
         /\ k = Kind /\ ~list.hasMore /\ ui # "submit"
         /\ Request(k, i) = Query(list.search, list.offset, list.max)
         /\ \A j \in 0 .. Len(queue[k]) : Requested(k, j) => i = j
    /\ ui = "submit" => list = NewList(started)
    /\ ui = "submit" \/ (UnderWay /\ list.offset = 0) =>
         list.rows = <<>> /\ base = {} /\ deleted = {}

(* An answer is a page of what was found, or nothing.                      *)
ResultInv ==
  /\ \A k \in Kinds : pc[k] = "answer" =>
       result[k] = Nothing \/ result[k] = Found(hand[k], result[k].among)
  /\ pc["server"] = "answer" /\ result["server"] # Nothing =>
       last = [search |-> hand["server"].search, among |-> result["server"].among]

(* The process thread is going to count a page after the first.            *)
CountsNext ==
  \/ list.hasMore
  \/ /\ list.offset # 0
     /\ \E i \in 0 .. Len(queue["server"]) :
          Requested("server", i) /\ (i # 0 \/ pc["server"] = "search")

HasLast == last = [search |-> list.search, among |-> base]

(* The process thread is about an earlier search.                          *)
Elsewhere == pc["server"] \in {"answer", "stuck"} /\ ~Requested("server", 0)

(* The process thread has what the rows of the list were found among, when *)
(* it is going to count the next page.                                     *)
LastInv ==
  Ours /\ ~isLocal =>
    /\ CountsNext => HasLast \/ Elsewhere
    /\ pc["server"] = "answer" /\ Requested("server", 0) /\ list.offset # 0 =>
         result["server"] = Nothing \/ result["server"].among = base

(* How many of some mails are newer than m.                                *)
Rank(S, m) == Cardinality({n \in S : n > m})

(* The rows are the newest of S.                                           *)
InOrder(rows, search, S) ==
  \A i \in 1 .. Len(rows) :
    rows[i].search = search /\ rows[i].mail \in S /\ Rank(S, rows[i].mail) = i - 1

(* So many mails were counted for the rows of the list.                    *)
Counted == IF list.hasMore THEN list.offset + list.max ELSE list.offset

AllCounted ==
  /\ Counted <= Cardinality(base)
  /\ Len(list.rows) + Cardinality(deleted) = Counted
  /\ \A m \in deleted : m \in base /\ Rank(base, m) < Counted

OrderInv ==
  Ours /\ ~shifted /\ ~skipped =>
    /\ InOrder(list.rows, list.search, base \ deleted)
    /\ list.hasMore \/ UnderWay => AllCounted

(* The prompt is about the row at the index.                               *)
PromptInv ==
  ui = "confirm" =>
    /\ selected # {} => asked = selected
    /\ selected = {} /\ asked # {} /\ ~overtaken =>
         /\ index < Len(list.rows)
         /\ current = list.rows[index + 1].mail
         /\ asked = {current}

ListOrderInv == PageInv /\ ResultInv /\ LastInv /\ OrderInv /\ PromptInv

-----------------------------------------------------------------------------
(* Counting.                                                               *)

(* Mails that have come in can be counted.                                 *)
LEMMA Countable ==
  ASSUME NEW n \in Nat, NEW S \in SUBSET (1 .. n)
  PROVE  /\ IsFiniteSet(S) /\ Cardinality(S) \in Nat
         /\ \A T \in SUBSET S :
              /\ IsFiniteSet(T) /\ Cardinality(T) \in Nat
              /\ Cardinality(T) <= Cardinality(S)
              /\ Cardinality(T) = Cardinality(S) => T = S
<1>1. IsFiniteSet(1 .. n)
  BY FS_Interval
<1>2. IsFiniteSet(S)
  BY <1>1, FS_Subset
<1>3. ASSUME NEW T \in SUBSET S
      PROVE  /\ IsFiniteSet(T)
             /\ Cardinality(T) <= Cardinality(S)
             /\ Cardinality(T) = Cardinality(S) => T = S
  BY <1>2, FS_Subset
<1> QED
  BY <1>2, <1>3, FS_CardinalityType

(* Numbers below that of the elements, no two the same, are all there.     *)
LEMMA AllNumbered ==
  ASSUME NEW S, IsFiniteSet(S), NEW f \in [S -> Nat],
         \A x \in S : f[x] < Cardinality(S),
         \A x, y \in S : x # y => f[x] # f[y],
         NEW i \in Nat, i < Cardinality(S)
  PROVE  \E x \in S : f[x] = i
<1>1. Cardinality(S) \in Nat
  BY FS_CardinalityType
<1> DEFINE n == Cardinality(S) - 1
           T == (0 .. n) \ {i}
<1>2. n \in Nat /\ n + 1 = Cardinality(S) /\ i \in 0 .. n
  BY <1>1
<1>7. IsFiniteSet(0 .. n) /\ Cardinality(0 .. n) = Cardinality(S)
  <2>1. 0 \in Int /\ n \in Int
    BY <1>2
  <2> HIDE DEF n
  <2>2. /\ IsFiniteSet(0 .. n)
        /\ Cardinality(0 .. n) = IF 0 > n THEN 0 ELSE n - 0 + 1
    BY <2>1, FS_Interval, Zenon
  <2> QED
    BY <1>2, <2>2
<1>3. IsFiniteSet(T) /\ Cardinality(T) = Cardinality(S) - 1
  <2> HIDE DEF n
  <2>1. /\ IsFiniteSet(T)
        /\ Cardinality(T) = IF i \in 0 .. n THEN Cardinality(0 .. n) - 1 ELSE Cardinality(0 .. n)
    BY <1>7, FS_RemoveElement
  <2> QED
    BY <1>2, <1>7, <2>1
<1>4. SUFFICES ASSUME \A x \in S : f[x] # i
               PROVE  FALSE
  OBVIOUS
<1>5. f \in [S -> T]
  BY <1>1, <1>4
<1>6. Cardinality(T) < Cardinality(S)
  BY <1>1, <1>3
<1> HIDE DEF T
<1> QED
  BY <1>3, <1>5, <1>6, FS_PigeonHole

(* Of two mails the newer one has the lower rank.                          *)
LEMMA Ranks ==
  ASSUME NEW n \in Nat, NEW S \in SUBSET (1 .. n), NEW a \in S
  PROVE  /\ Rank(S, a) \in Nat /\ Rank(S, a) < Cardinality(S)
         /\ \A b \in S : a < b <=> Rank(S, b) < Rank(S, a)
         /\ \A b \in S : a = b <=> Rank(S, b) = Rank(S, a)
<1> DEFINE Newer(m) == {k \in S : k > m}
<1>0. \A b \in S : b \in Int
  OBVIOUS
<1>1. ASSUME NEW b \in S
      PROVE  /\ Rank(S, b) = Cardinality(Newer(b)) /\ IsFiniteSet(Newer(b))
             /\ Rank(S, b) \in Nat /\ Rank(S, b) <= Cardinality(S)
  BY Countable DEF Rank
<1>2. ASSUME NEW b \in S, NEW c \in S, b < c
      PROVE  Rank(S, c) < Rank(S, b)
  <2>1. Newer(c) \in SUBSET Newer(b)
    <3>1. b \in Int /\ c \in Int
      BY <1>0, <1>2
    <3>2. ASSUME NEW k \in Newer(c)
          PROVE  k \in Newer(b)
      <4>1. k \in S /\ k > c
        OBVIOUS
      <4>2. k \in Int
        BY <1>0, <4>1
      <4>3. k > b
        BY <1>2, <3>1, <4>1, <4>2
      <4> QED
        BY <4>1, <4>3
    <3> QED
      BY <3>2
  <2>3. c \in Newer(b) /\ c \notin Newer(c)
    BY <1>0, <1>2
  <2> HIDE DEF Newer
  <2>2. Cardinality(Newer(c)) <= Cardinality(Newer(b))
        /\ Cardinality(Newer(b)) # Cardinality(Newer(c))
    BY <1>1, <2>1, <2>3, FS_Subset
  <2> HIDE DEF Rank
  <2> QED
    BY <1>1, <2>2
<1>3. Rank(S, a) < Cardinality(S)
  <2>1. Newer(a) \in SUBSET S /\ a \notin Newer(a)
    OBVIOUS
  <2>2. Cardinality(S) \in Nat /\ Rank(S, a) = Cardinality(Newer(a))
    BY <1>1, Countable
  <2> HIDE DEF Newer
  <2>3. /\ Cardinality(Newer(a)) \in Nat /\ Cardinality(Newer(a)) <= Cardinality(S)
        /\ Cardinality(Newer(a)) # Cardinality(S)
    BY <2>1, Countable
  <2> QED
    BY <2>2, <2>3
<1>4. ASSUME NEW b \in S
      PROVE  /\ a < b <=> Rank(S, b) < Rank(S, a)
             /\ a = b <=> Rank(S, b) = Rank(S, a)
  <2>1. a < b => Rank(S, b) < Rank(S, a)
    BY <1>2
  <2>2. b < a => Rank(S, a) < Rank(S, b)
    BY <1>2
  <2>3. a \in Int /\ b \in Int
    BY <1>0, <1>4
  <2> HIDE DEF Newer
  <2>4. Rank(S, a) \in Int /\ Rank(S, b) \in Int
    BY <1>1, <1>4
  <2> QED
    BY <2>1, <2>2, <2>3, <2>4
<1> QED
  BY <1>1, <1>3, <1>4

(* Newest is what its name says.                                           *)
LEMMA NewestIs ==
  ASSUME NEW n \in Nat, NEW S \in SUBSET (1 .. n)
  PROVE  /\ Newest(S) \in Seq(S) /\ Len(Newest(S)) = Cardinality(S)
         /\ \A i \in 1 .. Cardinality(S) :
              Newest(S)[i] \in S /\ Rank(S, Newest(S)[i]) = i - 1
<1>1. IsFiniteSet(S) /\ Cardinality(S) \in Nat
  BY Countable
<1>2. ASSUME NEW i \in 1 .. Cardinality(S)
      PROVE  \E m \in S : Rank(S, m) = i - 1
  <2> DEFINE f == [m \in S |-> Rank(S, m)]
  <2>1. f \in [S -> Nat] /\ \A m \in S : f[m] < Cardinality(S)
    BY Ranks
  <2>2. \A a, b \in S : a # b => f[a] # f[b]
    BY Ranks
  <2>3. i - 1 \in Nat /\ i - 1 < Cardinality(S)
    BY <1>1
  <2>4. \E m \in S : f[m] = i - 1
    <3> HIDE DEF f
    <3> QED
      BY <1>1, <2>1, <2>2, <2>3, AllNumbered
  <2> QED
    BY <2>4
<1>3. ASSUME NEW i \in 1 .. Cardinality(S)
      PROVE  Newest(S)[i] \in S /\ Rank(S, Newest(S)[i]) = i - 1
  <2>1. Newest(S)[i] = CHOOSE m \in S : Rank(S, m) = i - 1
    BY DEF Newest, Rank
  <2> QED
    BY <1>2, <2>1
<1>4. Newest(S) \in Seq(S) /\ Len(Newest(S)) = Cardinality(S)
  <2>1. Newest(S) \in [1 .. Cardinality(S) -> S]
    BY <1>3 DEF Newest
  <2> QED
    BY <1>1, <2>1
<1> QED
  BY <1>3, <1>4

(* Rows in order are the newest mails, and not more than there are.        *)
LEMMA InOrderIs ==
  ASSUME NEW n \in Nat, NEW S \in SUBSET (1 .. n), NEW search \in Searches,
         NEW rows \in Seq([search : Searches, mail : 1 .. n]),
         InOrder(rows, search, S)
  PROVE  /\ Len(rows) <= Cardinality(S)
         /\ \A i \in 1 .. Len(rows) :
              rows[i] = [search |-> search, mail |-> Newest(S)[i]]
         /\ rows = RowsOf(search, SubSeq(Newest(S), 1, Len(rows)))
<1>1. /\ IsFiniteSet(S) /\ Cardinality(S) \in Nat
      /\ Len(rows) \in Nat
      /\ Newest(S) \in Seq(S) /\ Len(Newest(S)) = Cardinality(S)
  <2>1. IsFiniteSet(S) /\ Cardinality(S) \in Nat
    BY Countable
  <2>2. Newest(S) \in Seq(S) /\ Len(Newest(S)) = Cardinality(S)
    BY NewestIs
  <2>3. Len(rows) \in Nat
    OBVIOUS
  <2> QED
    BY <2>1, <2>2, <2>3
<1>2. Len(rows) <= Cardinality(S)
  <2>1. CASE Len(rows) = 0
    BY <1>1, <2>1
  <2>2. CASE Len(rows) # 0
    <3>1. Len(rows) \in 1 .. Len(rows)
      BY <1>1, <2>2
    <3> DEFINE m == rows[Len(rows)].mail
    <3>2. m \in S /\ Rank(S, m) = Len(rows) - 1
      BY <3>1 DEF InOrder
    <3> HIDE DEF m
    <3>3. Rank(S, m) \in Nat /\ Rank(S, m) < Cardinality(S)
      BY <3>2, Ranks
    <3> QED
      BY <1>1, <3>2, <3>3
  <2> QED
    BY <2>1, <2>2
<1>3. ASSUME NEW i \in 1 .. Len(rows)
      PROVE  rows[i] = [search |-> search, mail |-> Newest(S)[i]]
  <2>1. /\ rows[i] \in [search : Searches, mail : 1 .. n]
        /\ rows[i].search = search
        /\ rows[i].mail \in S /\ Rank(S, rows[i].mail) = i - 1
    <3>1. rows[i] \in [search : Searches, mail : 1 .. n]
      BY ElementOfSeq
    <3> QED
      BY <3>1 DEF InOrder
  <2>2. Newest(S)[i] \in S /\ Rank(S, Newest(S)[i]) = i - 1
    <3>1. i \in 1 .. Cardinality(S)
      BY <1>1, <1>2
    <3> QED
      BY <3>1, NewestIs
  <2>3. rows[i].mail = Newest(S)[i]
    <3> DEFINE a == rows[i].mail
               b == Newest(S)[i]
    <3>1. a \in S /\ b \in S /\ Rank(S, a) = Rank(S, b)
      BY <2>1, <2>2
    <3> HIDE DEF a, b
    <3>2. a = b
      BY <3>1, Ranks
    <3> QED
      BY <3>2 DEF a, b
  <2> QED
    BY <2>1, <2>3
<1>4. rows = RowsOf(search, SubSeq(Newest(S), 1, Len(rows)))
  <2> DEFINE ms == SubSeq(Newest(S), 1, Len(rows))
  <2>1. /\ Len(ms) = Len(rows)
        /\ ms \in Seq(S)
        /\ \A i \in 1 .. Len(rows) : ms[i] = Newest(S)[i]
    BY <1>1, <1>2, SubSeqProperties
  <2>2. DOMAIN ms = 1 .. Len(rows)
    BY <2>1
  <2> HIDE DEF ms
  <2>3. RowsOf(search, ms) = [i \in 1 .. Len(rows) |-> [search |-> search, mail |-> ms[i]]]
    BY <2>2 DEF RowsOf
  <2>4. \A i \in 1 .. Len(rows) : rows[i] = RowsOf(search, ms)[i]
    BY <1>3, <2>1, <2>3
  <2>5. rows = RowsOf(search, ms)
    <3>1. rows = [i \in 1 .. Len(rows) |-> rows[i]]
      BY <1>1
    <3> QED
      BY <2>3, <2>4, <3>1
  <2> QED
    BY <2>5 DEF ms
<1> QED
  BY <1>2, <1>3, <1>4

(* The rows of a page.                                                     *)
LEMMA PageIs ==
  ASSUME NEW n \in Nat, NEW S \in SUBSET (1 .. n), NEW query \in AnyQuery,
         NEW rows, rows = Found(query, S).rows
  PROVE  /\ rows \in Seq([search : Searches, mail : 1 .. n])
         /\ Len(rows) = IF query.offset >= Cardinality(S) THEN 0
                        ELSE Least(query.max, Cardinality(S) - query.offset)
         /\ \A i \in 1 .. Len(rows) :
              /\ rows[i].search = query.search
              /\ query.offset + i \in 1 .. Cardinality(S)
              /\ rows[i].mail = Newest(S)[query.offset + i]
<1>1. /\ Cardinality(S) \in Nat
      /\ Newest(S) \in Seq(S) /\ Len(Newest(S)) = Cardinality(S)
      /\ query.search \in Searches /\ query.offset \in Nat /\ query.max \in Nat
  BY Countable, NewestIs DEF AnyQuery
<1> DEFINE first == query.offset + 1
           end == Least(query.offset + query.max, Cardinality(S))
           page == SubSeq(Newest(S), first, end)
<1>2. /\ first \in Int /\ end \in Int /\ first \in Nat \ {0} /\ end <= Cardinality(S)
      /\ end - first + 1 = Least(query.max, Cardinality(S) - query.offset)
      /\ first > end <=> query.offset >= Cardinality(S) \/ query.max = 0
  BY <1>1 DEF Least
<1>3. \A i \in first .. end : Newest(S)[i] \in S
  BY <1>1, <1>2
<1>4. /\ page \in Seq(S)
      /\ Len(page) = IF first <= end THEN end - first + 1 ELSE 0
      /\ \A i \in 1 .. end - first + 1 : page[i] = Newest(S)[first + i - 1]
  <2> HIDE DEF first, end
  <2> QED
    BY <1>2, <1>3, SubSeqProperties
<1>5. rows = [i \in 1 .. Len(page) |-> [search |-> query.search, mail |-> page[i]]]
  <2>1. rows = RowsOf(query.search, page)
    BY DEF Found, Result, Page
  <2>2. DOMAIN page = 1 .. Len(page)
    BY <1>4
  <2> QED
    BY <2>1, <2>2 DEF RowsOf
<1>6. Len(page) \in Nat
  BY <1>4
<1> HIDE DEF page
<1>7. rows \in Seq([search : Searches, mail : 1 .. n]) /\ Len(rows) = Len(page)
  <2> DEFINE Some == [search : Searches, mail : 1 .. n]
  <2>1. rows \in [1 .. Len(page) -> Some]
    <3>1. ASSUME NEW i \in 1 .. Len(page)
          PROVE  [search |-> query.search, mail |-> page[i]] \in Some
      <4>1. page[i] \in S
        BY <1>4
      <4> QED
        BY <1>1, <4>1
    <3> HIDE DEF Some
    <3> QED
      BY <1>5, <3>1
  <2> HIDE DEF Some
  <2>2. rows \in Seq(Some)
    BY <1>6, <2>1
  <2>3. Len(rows) = Len(page)
    BY <1>5, <1>6
  <2> QED
    BY <2>2, <2>3 DEF Some
<1>8. Len(page) = IF query.offset >= Cardinality(S) THEN 0
                  ELSE Least(query.max, Cardinality(S) - query.offset)
  <2>1. CASE first <= end
    <3>1. Len(page) = Least(query.max, Cardinality(S) - query.offset)
      BY <1>2, <1>4, <2>1
    <3>2. query.offset < Cardinality(S)
      BY <1>1, <1>2, <2>1
    <3> QED
      BY <1>1, <3>1, <3>2
  <2>2. CASE first > end
    <3>1. Len(page) = 0
      BY <1>2, <1>4, <2>2
    <3>2. query.offset >= Cardinality(S) \/ query.max = 0
      BY <1>2, <2>2
    <3> QED
      BY <1>1, <3>1, <3>2 DEF Least
  <2> QED
    BY <1>2, <2>1, <2>2
<1>9. ASSUME NEW i \in 1 .. Len(page)
      PROVE  /\ rows[i].search = query.search
             /\ query.offset + i \in 1 .. Cardinality(S)
             /\ rows[i].mail = Newest(S)[query.offset + i]
  <2>1. i \in 1 .. end - first + 1 /\ first + i - 1 = query.offset + i /\ i \in Nat
    BY <1>1, <1>4, <1>6
  <2>2. rows[i] = [search |-> query.search, mail |-> page[i]]
    BY <1>5
  <2>3. page[i] = Newest(S)[query.offset + i]
    BY <1>4, <2>1
  <2>4. query.offset + i \in 1 .. Cardinality(S)
    <3>1. /\ first = query.offset + 1 /\ query.offset \in Nat
          /\ i \in 1 .. end - first + 1 /\ end \in Int /\ end <= Cardinality(S)
          /\ Cardinality(S) \in Nat
      BY <1>1, <1>2, <2>1
    <3> HIDE DEF first, end
    <3>2. query.offset + i <= end /\ query.offset + i \in Nat \ {0}
      BY <3>1
    <3> QED
      BY <3>1, <3>2
  <2>5. rows[i].search = query.search /\ rows[i].mail = page[i]
    BY <2>2
  <2> QED
    BY <2>3, <2>4, <2>5
<1> QED
  BY <1>7, <1>8, <1>9

(* Without some of the mails that are newer, the rank of a mail is lower   *)
(* by as many.                                                             *)
LEMMA RankWithout ==
  ASSUME NEW n \in Nat, NEW S \in SUBSET (1 .. n), NEW D \in SUBSET S, NEW m \in S
  PROVE  /\ (\A d \in D : d > m) => Rank(S \ D, m) = Rank(S, m) - Cardinality(D)
         /\ Rank(S, m) <= Rank(S \ D, m) + Cardinality(D)
<1> DEFINE Newer == {k \in S : k > m}
           Left == {k \in S \ D : k > m}
<1>1. /\ Rank(S, m) = Cardinality(Newer) /\ Rank(S \ D, m) = Cardinality(Left)
      /\ Left = Newer \ D /\ Newer \in SUBSET S
  BY DEF Rank
<1>2. (\A d \in D : d > m) => Newer \cap D = D
  OBVIOUS
<1>3. /\ IsFiniteSet(Newer) /\ Cardinality(Newer) \in Nat
      /\ IsFiniteSet(D) /\ Cardinality(D) \in Nat
  BY <1>1, Countable
<1> HIDE DEF Newer, Left
<1>4. Cardinality(Left) = Cardinality(Newer) - Cardinality(Newer \cap D)
  BY <1>1, <1>3, FS_Difference
<1>5. Cardinality(Newer \cap D) \in Nat /\ Cardinality(Newer \cap D) <= Cardinality(D)
  BY <1>3, FS_Intersection, FS_CardinalityType
<1>6. (\A d \in D : d > m) => Cardinality(Newer \cap D) = Cardinality(D)
  BY <1>2
<1>7. /\ Rank(S \ D, m) = Rank(S, m) - Cardinality(Newer \cap D)
      /\ Rank(S, m) \in Nat
  BY <1>1, <1>3, <1>4
<1> HIDE DEF Rank
<1> QED
  BY <1>3, <1>5, <1>6, <1>7

(* A page of what is left of some mails comes after the rows, if these and *)
(* the deleted mails are those that were counted before.                   *)
LEMMA PageFollows ==
  ASSUME NEW n \in Nat, NEW B \in SUBSET (1 .. n), NEW D \in SUBSET B,
         NEW query \in AnyQuery,
         NEW rows \in Seq([search : Searches, mail : 1 .. n]),
         NEW page, page = Found(query, B).rows,
         InOrder(rows, query.search, B \ D),
         Len(rows) + Cardinality(D) = query.offset,
         query.offset <= Cardinality(B),
         \A d \in D : Rank(B, d) < query.offset
  PROVE  /\ InOrder(rows \o page, query.search, B \ D)
         /\ query.offset + query.max < Cardinality(B) =>
              Len(rows \o page) + Cardinality(D) = query.offset + query.max
<1>1. /\ page \in Seq([search : Searches, mail : 1 .. n])
      /\ Len(page) = IF query.offset >= Cardinality(B) THEN 0
                     ELSE Least(query.max, Cardinality(B) - query.offset)
      /\ \A i \in 1 .. Len(page) :
           /\ page[i].search = query.search
           /\ query.offset + i \in 1 .. Cardinality(B)
           /\ page[i].mail = Newest(B)[query.offset + i]
  <2>1. page \in Seq([search : Searches, mail : 1 .. n])
    BY PageIs
  <2>2. Len(page) = IF query.offset >= Cardinality(B) THEN 0
                    ELSE Least(query.max, Cardinality(B) - query.offset)
    BY PageIs
  <2>3. \A i \in 1 .. Len(page) :
          /\ page[i].search = query.search
          /\ query.offset + i \in 1 .. Cardinality(B)
          /\ page[i].mail = Newest(B)[query.offset + i]
    BY PageIs
  <2> QED
    BY <2>1, <2>2, <2>3
<1>2. Len(page) = IF query.offset >= Cardinality(B) THEN 0
                  ELSE Least(query.max, Cardinality(B) - query.offset)
  BY <1>1
<1>3. /\ Len(rows) \in Nat /\ Len(page) \in Nat
      /\ Cardinality(B) \in Nat /\ Cardinality(D) \in Nat
      /\ query.offset \in Nat /\ query.max \in Nat
  <2>1. Len(rows) \in Nat /\ Len(page) \in Nat
    BY <1>1
  <2>2. D \in SUBSET (1 .. n)
    OBVIOUS
  <2>3. Cardinality(B) \in Nat /\ Cardinality(D) \in Nat
    BY <2>2, Countable
  <2>4. query.offset \in Nat /\ query.max \in Nat
    BY DEF AnyQuery
  <2> QED
    BY <2>1, <2>3, <2>4
<1>4. /\ Len(rows \o page) = Len(rows) + Len(page)
      /\ \A i \in 1 .. Len(rows) + Len(page) :
           (rows \o page)[i] = IF i <= Len(rows) THEN rows[i] ELSE page[i - Len(rows)]
  <2> DEFINE Some == [search : Searches, mail : 1 .. n]
  <2>1. rows \in Seq(Some) /\ page \in Seq(Some)
    BY <1>1
  <2> HIDE DEF Some
  <2> QED
    BY <2>1, ConcatProperties
<1>5. ASSUME NEW i \in 1 .. Len(page)
      PROVE  /\ page[i].mail \in B \ D
             /\ Rank(B \ D, page[i].mail) = Len(rows) + i - 1
  <2> DEFINE m == page[i].mail
  <2>1. m \in B /\ Rank(B, m) = query.offset + i - 1
    <3> DEFINE j == query.offset + i
    <3>1. j \in 1 .. Cardinality(B) /\ m = Newest(B)[j]
      BY <1>1
    <3> HIDE DEF j, m
    <3>2. m \in B /\ Rank(B, m) = j - 1
      BY <3>1, NewestIs
    <3>3. j - 1 = query.offset + i - 1
      BY <1>3 DEF j
    <3> QED
      BY <3>2, <3>3 DEF m
  <2>2. ASSUME NEW d \in D
        PROVE  d > m
    <3>1. Rank(B, d) \in Nat /\ Rank(B, d) < Rank(B, m) /\ d \in B
      <4>1. d \in B /\ Rank(B, d) < query.offset
        OBVIOUS
      <4>2. Rank(B, d) \in Nat
        BY <4>1, Ranks
      <4> QED
        BY <1>3, <2>1, <4>1, <4>2
    <3> HIDE DEF m
    <3>2. m < d
      BY <2>1, <3>1, Ranks
    <3>3. m \in Int /\ d \in Int
      BY <2>1, <3>1
    <3> QED
      BY <3>2, <3>3
  <2> HIDE DEF m
  <2>3. m \notin D
    <3>1. m \in Int
      BY <2>1
    <3> QED
      BY <2>2, <3>1
  <2>4. Rank(B \ D, m) = Rank(B, m) - Cardinality(D)
    BY <2>1, <2>2, RankWithout
  <2>5. Rank(B \ D, m) = Len(rows) + i - 1
    <3> HIDE DEF Rank
    <3> QED
      BY <1>3, <2>1, <2>4
  <2> QED
    BY <2>1, <2>3, <2>5 DEF m
<1>6. InOrder(rows \o page, query.search, B \ D)
  <2> SUFFICES ASSUME NEW i \in 1 .. Len(rows \o page)
               PROVE  /\ (rows \o page)[i].search = query.search
                      /\ (rows \o page)[i].mail \in B \ D
                      /\ Rank(B \ D, (rows \o page)[i].mail) = i - 1
    BY DEF InOrder
  <2>1. CASE i <= Len(rows)
    <3>1. (rows \o page)[i] = rows[i] /\ i \in 1 .. Len(rows)
      BY <1>3, <1>4, <2>1
    <3> QED
      BY <3>1 DEF InOrder
  <2>2. CASE i > Len(rows)
    <3> DEFINE j == i - Len(rows)
    <3>1. (rows \o page)[i] = page[j] /\ j \in 1 .. Len(page) /\ i - 1 = Len(rows) + j - 1
      BY <1>3, <1>4, <2>2
    <3> HIDE DEF j
    <3> QED
      BY <1>1, <1>5, <3>1
  <2> QED
    BY <1>3, <1>4, <2>1, <2>2
<1>7. query.offset + query.max < Cardinality(B) => Len(page) = query.max
  BY <1>2, <1>3 DEF Least
<1> QED
  BY <1>3, <1>4, <1>6, <1>7

-----------------------------------------------------------------------------
(* Erasing rows.                                                           *)

(* As many as they are counted with.                                       *)
LEMMA OneToOne ==
  ASSUME NEW S, IsFiniteSet(S), NEW T, NEW f \in [S -> T],
         \A x, y \in S : f[x] = f[y] => x = y,
         \A t \in T : \E x \in S : f[x] = t
  PROVE  Cardinality(T) = Cardinality(S)
<1>1. f \in Bijection(S, T)
  BY DEF Bijection, Injection, Surjection, IsInjective
<1> QED
  BY <1>1, FS_Bijection, Zenon DEF ExistsBijection

(* How many places of K come before i.                                     *)
Place(K, i) == Cardinality({j \in K : j < i})

LEMMA Places ==
  ASSUME NEW n \in Nat, NEW K \in SUBSET (1 .. n), NEW a \in K
  PROVE  /\ Place(K, a) \in Nat /\ Place(K, a) < Cardinality(K)
         /\ \A b \in K : Place(K, a) = Place(K, b) => a = b
<1> DEFINE Before(i) == {j \in K : j < i}
<1>0. \A b \in K : b \in Int
  OBVIOUS
<1>1. ASSUME NEW b \in K
      PROVE  /\ Place(K, b) = Cardinality(Before(b)) /\ IsFiniteSet(Before(b))
             /\ Place(K, b) \in Nat
             /\ Cardinality(Before(b)) < Cardinality(K)
  <2>1. Before(b) \in SUBSET K /\ b \notin Before(b)
    OBVIOUS
  <2>2. Cardinality(K) \in Nat
    BY Countable
  <2>4. Place(K, b) = Cardinality(Before(b))
    BY DEF Place
  <2> HIDE DEF Before
  <2>3. /\ IsFiniteSet(Before(b)) /\ Cardinality(Before(b)) \in Nat
        /\ Cardinality(Before(b)) <= Cardinality(K)
        /\ Cardinality(Before(b)) # Cardinality(K)
    BY <1>1, <2>1, Countable
  <2> QED
    BY <2>2, <2>3, <2>4
<1>2. ASSUME NEW b \in K, NEW c \in K, b < c
      PROVE  Place(K, b) < Place(K, c)
  <2>1. ASSUME NEW j \in Before(b)
        PROVE  j \in Before(c)
    <3>1. j \in K /\ j < b
      OBVIOUS
    <3>2. j \in Int /\ b \in Int /\ c \in Int
      BY <1>0, <1>2, <3>1
    <3>3. j < c
      BY <1>2, <3>1, <3>2
    <3> QED
      BY <3>1, <3>3
  <2>3. b \in Before(c) /\ b \notin Before(b)
    BY <1>0, <1>2
  <2> HIDE DEF Before
  <2>4. Before(b) \in SUBSET Before(c)
    BY <2>1
  <2>2. Cardinality(Before(b)) <= Cardinality(Before(c))
        /\ Cardinality(Before(b)) # Cardinality(Before(c))
    BY <1>1, <1>2, <2>3, <2>4, FS_Subset
  <2> HIDE DEF Place
  <2> QED
    BY <1>1, <1>2, <2>2
<1>3. ASSUME NEW b \in K, Place(K, a) = Place(K, b)
      PROVE  a = b
  <2>1. ~(a < b) /\ ~(b < a)
    <3> HIDE DEF Before
    <3>1. Place(K, a) \in Int /\ Place(K, b) \in Int
      <4>1. Place(K, a) \in Nat /\ Place(K, b) \in Nat
        BY <1>1, <1>3
      <4> HIDE DEF Place
      <4> QED
        BY <4>1
    <3> HIDE DEF Before, Place
    <3> QED
      BY <1>2, <1>3, <3>1
  <2>2. a \in Int /\ b \in Int
    BY <1>0, <1>3
  <2> HIDE DEF Before, Place
  <2> QED
    BY <2>1, <2>2
<1> HIDE DEF Before
<1> QED
  BY <1>1, <1>3

(* The rows that are kept, at the places K.                                *)
Keeps(rows, ms, left, K) ==
  /\ K \in SUBSET (1 .. Len(rows))
  /\ \A i \in 1 .. Len(rows) : rows[i].mail \notin ms => i \in K
  /\ Len(left) = Cardinality(K)
  /\ \A x \in 1 .. Cardinality(K) : \E i \in K : left[x] = rows[i] /\ Place(K, i) = x - 1
  /\ \A i \in K : \E x \in 1 .. Cardinality(K) : left[x] = rows[i]

LEMMA ErasedIs ==
  ASSUME NEW n \in Nat, NEW ms,
         NEW rows \in Seq([search : Searches, mail : 1 .. n])
  PROVE  /\ Erased(rows, ms) \in Seq([search : Searches, mail : 1 .. n])
         /\ Len(Erased(rows, ms)) <= Len(rows)
         /\ \E K : Keeps(rows, ms, Erased(rows, ms), K)
<1> DEFINE Run(i) == Cardinality({j \in 1 .. i : \A k \in j .. i : rows[k].mail \in ms})
           K == {i \in DOMAIN rows : Run(i) % 2 = 0}
           at == [x \in 1 .. Cardinality(K) |->
                    CHOOSE i \in K : Cardinality({j \in K : j < i}) = x - 1]
           left == [x \in 1 .. Cardinality(K) |-> rows[at[x]]]
           Some == [search : Searches, mail : 1 .. n]
<1>1. Erased(rows, ms) = left
  BY DEF Erased
<1>2. K \in SUBSET (1 .. Len(rows)) /\ Len(rows) \in Nat
  OBVIOUS
<1>3. ASSUME NEW i \in 1 .. Len(rows), rows[i].mail \notin ms
      PROVE  i \in K
  <2>1. {j \in 1 .. i : \A k \in j .. i : rows[k].mail \in ms} = {}
    <3>1. \A j \in 1 .. i : i \in j .. i
      BY <1>2
    <3> QED
      BY <1>3, <3>1
  <2>2. Run(i) = 0
    BY <2>1, FS_EmptySet, Zenon
  <2>3. Run(i) % 2 = 0
    <3> HIDE DEF Run
    <3> QED
      BY <2>2
  <2>4. i \in DOMAIN rows
    OBVIOUS
  <2> HIDE DEF Run
  <2> QED
    BY <2>3, <2>4
<1> HIDE DEF K
<1>4. /\ IsFiniteSet(K) /\ Cardinality(K) \in Nat
      /\ Cardinality(K) <= Len(rows)
  <2>1. IsFiniteSet(1 .. Len(rows)) /\ Cardinality(1 .. Len(rows)) = Len(rows)
    <3>1. 1 \in Int /\ Len(rows) \in Int /\ (1 > Len(rows) <=> Len(rows) = 0)
      BY <1>2
    <3>2. /\ IsFiniteSet(1 .. Len(rows))
          /\ Cardinality(1 .. Len(rows)) = IF 1 > Len(rows) THEN 0 ELSE Len(rows) - 1 + 1
      BY <3>1, FS_Interval, Zenon
    <3> QED
      BY <1>2, <3>1, <3>2
  <2>2. IsFiniteSet(K) /\ Cardinality(K) <= Cardinality(1 .. Len(rows))
    BY <1>2, <2>1, FS_Subset
  <2>3. Cardinality(K) \in Nat
    BY <2>2, FS_CardinalityType
  <2> QED
    BY <2>1, <2>2, <2>3
<1>5. ASSUME NEW x \in 1 .. Cardinality(K)
      PROVE  at[x] \in K /\ Place(K, at[x]) = x - 1
  <2>1. \E i \in K : Place(K, i) = x - 1
    <3> DEFINE f == [i \in K |-> Place(K, i)]
    <3>1. f \in [K -> Nat] /\ \A i \in K : f[i] < Cardinality(K)
      BY <1>2, Places
    <3>2. \A a, b \in K : a # b => f[a] # f[b]
      BY <1>2, Places
    <3>3. x - 1 \in Nat /\ x - 1 < Cardinality(K)
      BY <1>4
    <3>4. \E i \in K : f[i] = x - 1
      <4> HIDE DEF f
      <4> QED
        BY <1>4, <3>1, <3>2, <3>3, AllNumbered
    <3> QED
      BY <3>4
  <2>2. at[x] = CHOOSE i \in K : Place(K, i) = x - 1
    BY DEF Place
  <2> HIDE DEF at, Place
  <2> QED
    BY <2>1, <2>2
<1>6. left \in Seq(Some) /\ Len(left) = Cardinality(K)
  <2>1. ASSUME NEW x \in 1 .. Cardinality(K)
        PROVE  rows[at[x]] \in Some
    <3>1. at[x] \in 1 .. Len(rows)
      BY <1>2, <1>5
    <3> HIDE DEF at, Some
    <3> QED
      BY <3>1, ElementOfSeq DEF Some
  <2> HIDE DEF Some, at
  <2>2. left \in [1 .. Cardinality(K) -> Some]
    BY <2>1
  <2> HIDE DEF left
  <2> QED
    BY <1>4, <2>2
<1>7. \A x \in 1 .. Cardinality(K) : \E i \in K : left[x] = rows[i] /\ Place(K, i) = x - 1
  <2> HIDE DEF at
  <2> QED
    BY <1>5
<1>8. ASSUME NEW i \in K
      PROVE  \E x \in 1 .. Cardinality(K) : left[x] = rows[i]
  <2> DEFINE x == Place(K, i) + 1
  <2>1. x \in 1 .. Cardinality(K) /\ x - 1 = Place(K, i)
    <3>1. Place(K, i) \in Nat /\ Place(K, i) < Cardinality(K)
      BY <1>2, Places
    <3> HIDE DEF Place
    <3> QED
      BY <1>4, <3>1
  <2> HIDE DEF x, at
  <2>2. at[x] \in K /\ Place(K, at[x]) = Place(K, i)
    BY <1>5, <2>1
  <2>3. at[x] = i
    BY <1>2, <2>2, Places
  <2>4. left[x] = rows[i]
    BY <2>1, <2>3
  <2> QED
    BY <2>1, <2>4
<1> HIDE DEF left
<1>9. Keeps(rows, ms, left, K)
  BY <1>2, <1>3, <1>6, <1>7, <1>8 DEF Keeps
<1>10. left \in Seq([search : Searches, mail : 1 .. n]) /\ Len(left) <= Len(rows)
  BY <1>4, <1>6
<1> QED
  BY <1>1, <1>9, <1>10

(* When no row is left of what was to be erased, the rows stay in order.   *)
(* What is left of rows in order, when those of D were erased for good.    *)
Erasing(n, S, search, ms, rows, left, K, D) ==
  /\ n \in Nat /\ S \in SUBSET (1 .. n)
  /\ rows \in Seq([search : Searches, mail : 1 .. n])
  /\ InOrder(rows, search, S)
  /\ Keeps(rows, ms, left, K)
  /\ \A x \in 1 .. Len(left) : left[x].mail \notin ms
  /\ D = ms \cap {rows[i].mail : i \in DOMAIN rows}

LEMMA ErasedInOrder ==
  ASSUME NEW n, NEW S, NEW search, NEW ms, NEW rows, NEW left, NEW K, NEW D,
         Erasing(n, S, search, ms, rows, left, K, D)
  PROVE  /\ Len(left) + Cardinality(D) = Len(rows)
         /\ D \in SUBSET S
         /\ InOrder(left, search, S \ D)
<1> SUFFICES ASSUME n \in Nat, S \in SUBSET (1 .. n),
                    rows \in Seq([search : Searches, mail : 1 .. n]),
                    InOrder(rows, search, S),
                    Keeps(rows, ms, left, K),
                    \A x \in 1 .. Len(left) : left[x].mail \notin ms,
                    D = ms \cap {rows[i].mail : i \in DOMAIN rows}
             PROVE  /\ Len(left) + Cardinality(D) = Len(rows)
                    /\ D \in SUBSET S
                    /\ InOrder(left, search, S \ D)
  BY DEF Erasing
<1> DEFINE mail == [i \in 1 .. Len(rows) |-> rows[i].mail]
           all == 1 .. Len(rows)
<1>1. /\ Len(rows) \in Nat /\ K \in SUBSET all /\ DOMAIN rows = all
  BY DEF Keeps
<1>2. \A i \in all : /\ mail[i] \in S /\ Rank(S, mail[i]) = i - 1
                     /\ rows[i].search = search /\ rows[i].mail = mail[i]
  BY DEF InOrder
<1>3. \A i \in all : i \in K <=> mail[i] \notin ms
  <2>1. ASSUME NEW i \in K
        PROVE  mail[i] \notin ms
    <3>1. PICK x \in 1 .. Cardinality(K) : left[x] = rows[i]
      BY DEF Keeps
    <3>2. x \in 1 .. Len(left)
      BY DEF Keeps
    <3>3. left[x].mail \notin ms
      BY <3>2
    <3> QED
      BY <1>1, <3>1, <3>3
  <2>2. ASSUME NEW i \in all, mail[i] \notin ms
        PROVE  i \in K
    BY <2>2 DEF Keeps
  <2> QED
    BY <2>1, <2>2
<1>4. D = {mail[i] : i \in all \ K}
  <2>1. D = {m \in {mail[i] : i \in all} : m \in ms}
    BY <1>1
  <2> HIDE DEF mail, all
  <2> QED
    BY <1>3, <2>1
<1>5. D \in SUBSET S
  <2> HIDE DEF mail, all
  <2> QED
    BY <1>2, <1>4
<1>6. \A i, j \in all : mail[i] = mail[j] => i = j
  <2>1. \A i, j \in all : mail[i] = mail[j] => i - 1 = j - 1
    <3> HIDE DEF mail, all
    <3> QED
      BY <1>2
  <2> QED
    BY <2>1
<1>7. /\ IsFiniteSet(all) /\ Cardinality(all) = Len(rows)
      /\ IsFiniteSet(K) /\ Cardinality(K) \in Nat
      /\ IsFiniteSet(all \ K) /\ Cardinality(all \ K) = Len(rows) - Cardinality(K)
  <2>1. IsFiniteSet(all) /\ Cardinality(all) = Len(rows)
    <3>1. 1 \in Int /\ Len(rows) \in Int /\ (1 > Len(rows) <=> Len(rows) = 0)
      BY <1>1
    <3>2. /\ IsFiniteSet(1 .. Len(rows))
          /\ Cardinality(1 .. Len(rows)) = IF 1 > Len(rows) THEN 0 ELSE Len(rows) - 1 + 1
      BY <3>1, FS_Interval, Zenon
    <3> QED
      BY <1>1, <3>1, <3>2
  <2>2. IsFiniteSet(K) /\ Cardinality(K) \in Nat
    <3>1. IsFiniteSet(K)
      BY <1>1, <2>1, FS_Subset
    <3> QED
      BY <3>1, FS_CardinalityType
  <2> HIDE DEF all
  <2>3. all \cap K = K
    BY <1>1
  <2>4. IsFiniteSet(all \ K) /\ Cardinality(all \ K) = Cardinality(all) - Cardinality(all \cap K)
    BY <2>1, FS_Difference
  <2> QED
    BY <2>1, <2>2, <2>3, <2>4
<1>8. Cardinality(D) = Cardinality(all \ K)
  <2> DEFINE f == [i \in all \ K |-> mail[i]]
  <2> HIDE DEF mail, all
  <2>1. /\ f \in [all \ K -> D]
        /\ \A x, y \in all \ K : f[x] = f[y] => x = y
        /\ \A t \in D : \E x \in all \ K : f[x] = t
    BY <1>4, <1>6
  <2> HIDE DEF f
  <2> QED
    BY <1>7, <2>1, OneToOne
<1>9. Len(left) + Cardinality(D) = Len(rows)
  <2>1. Len(left) = Cardinality(K)
    BY DEF Keeps
  <2> HIDE DEF all
  <2> QED
    BY <1>1, <1>7, <1>8, <2>1
<1>10. ASSUME NEW i \in K
       PROVE  Rank(S \ D, mail[i]) = Place(K, i)
  <2> DEFINE Before == {j \in K : j < i}
             Newer == {k \in S \ D : k > mail[i]}
             f == [j \in Before |-> mail[j]]
  <2>0. \A a \in S : a \in Int
    OBVIOUS
  <2>1. i \in all /\ i \in Int /\ mail[i] \in S
    <3>1. i \in all
      BY <1>1, <1>10
    <3>2. mail[i] \in S
      <4> HIDE DEF mail, all
      <4> QED
        BY <1>2, <3>1
    <3> QED
      BY <3>1, <3>2
  <2>2. ASSUME NEW j \in Before
        PROVE  mail[j] \in Newer
    <3>1. j \in K /\ j \in all /\ j < i
      BY <1>1
    <3>2. mail[j] \in S /\ mail[j] \notin ms
      BY <1>2, <1>3, <3>1
    <3>3. mail[j] \notin D
      <4> HIDE DEF mail
      <4> QED
        BY <3>2
    <3>4. Rank(S, mail[j]) < Rank(S, mail[i])
      <4>1. Rank(S, mail[j]) = j - 1 /\ Rank(S, mail[i]) = i - 1
        BY <1>2, <2>1, <3>1
      <4> HIDE DEF mail
      <4> QED
        BY <1>1, <2>1, <3>1, <4>1
    <3>5. mail[i] < mail[j]
      <4> HIDE DEF mail, all
      <4> QED
        BY <2>1, <3>2, <3>4, Ranks
    <3>6. mail[i] \in Int /\ mail[j] \in Int
      <4> HIDE DEF mail, all
      <4> QED
        BY <2>0, <2>1, <3>2
    <3> HIDE DEF mail, all
    <3> QED
      BY <3>2, <3>3, <3>5, <3>6
  <2>3. ASSUME NEW k \in Newer
        PROVE  \E j \in Before : mail[j] = k
    <3> DEFINE j == Rank(S, k) + 1
    <3>1. k \in S /\ k \notin D /\ k > mail[i]
      OBVIOUS
    <3>2. k \in Int /\ mail[i] \in Int
      <4> HIDE DEF mail, all, Newer
      <4> QED
        BY <2>0, <2>1, <3>1
    <3>3. Rank(S, k) < Rank(S, mail[i]) /\ Rank(S, k) \in Nat
      <4> HIDE DEF mail, all, Newer
      <4>1. mail[i] < k
        BY <3>1, <3>2
      <4> QED
        BY <2>1, <3>1, <4>1, Ranks
    <3>4. j \in all /\ j < i /\ Rank(S, k) = j - 1
      <4>1. Rank(S, mail[i]) = i - 1
        BY <1>2, <2>1
      <4> HIDE DEF mail, Rank
      <4> QED
        BY <1>1, <2>1, <3>3, <4>1
    <3>5. mail[j] \in S /\ Rank(S, mail[j]) = Rank(S, k)
      <4> HIDE DEF mail, all, j
      <4> QED
        BY <1>2, <3>4
    <3>6. mail[j] = k
      <4> HIDE DEF mail, all, j, Newer
      <4> QED
        BY <3>1, <3>5, Ranks
    <3>7. j \in K
      <4> HIDE DEF mail, all, j, Newer
      <4> QED
        BY <1>4, <3>1, <3>4, <3>6
    <3> HIDE DEF mail, all, j, Newer
    <3> QED
      BY <3>4, <3>6, <3>7
  <2>4. IsFiniteSet(Before)
    <3>1. Before \in SUBSET K
      OBVIOUS
    <3> QED
      BY <1>7, <3>1, FS_Subset
  <2>5. \A x, y \in Before : f[x] = f[y] => x = y
    <3>1. Before \in SUBSET all
      BY <1>1
    <3> HIDE DEF Before, all, mail
    <3> QED
      BY <1>6, <3>1
  <2>6. /\ f \in [Before -> Newer]
        /\ \A t \in Newer : \E x \in Before : f[x] = t
    <3> HIDE DEF Before, Newer, mail
    <3> QED
      BY <2>2, <2>3
  <2>7. Cardinality(Newer) = Cardinality(Before)
    <3> HIDE DEF f, Before, Newer
    <3> QED
      BY <2>4, <2>5, <2>6, OneToOne
  <2>8. Rank(S \ D, mail[i]) = Cardinality(Newer) /\ Place(K, i) = Cardinality(Before)
    BY DEF Rank, Place
  <2> HIDE DEF Before, Newer
  <2> QED
    BY <2>7, <2>8
<1>11. InOrder(left, search, S \ D)
  <2> SUFFICES ASSUME NEW x \in 1 .. Len(left)
               PROVE  /\ left[x].search = search /\ left[x].mail \in S \ D
                      /\ Rank(S \ D, left[x].mail) = x - 1
    BY DEF InOrder
  <2>1. x \in 1 .. Cardinality(K)
    BY DEF Keeps
  <2>2. PICK i \in K : left[x] = rows[i] /\ Place(K, i) = x - 1
    BY <2>1 DEF Keeps
  <2>3. i \in all
    BY <1>1
  <2>4. left[x].mail = mail[i] /\ left[x].search = search /\ mail[i] \in S
    BY <1>2, <2>2, <2>3
  <2> HIDE DEF mail, all
  <2>5. mail[i] \notin D
    BY <1>3, <2>3
  <2> QED
    BY <1>10, <2>2, <2>4, <2>5
<1> QED
  BY <1>5, <1>9, <1>11

-----------------------------------------------------------------------------
(* Types.                                                                  *)

(* The steps of the program.                                               *)
LEMMA Steps ==
  ASSUME Next
  PROVE  \/ NewMail \/ Leave \/ DeleteMessages \/ DontDelete \/ Reset \/ Submit
         \/ SearchLocal \/ SearchServer \/ Relock \/ SearchServerFails
         \/ PerformAction
         \/ \E k \in Kinds : SearchMessage(k) \/ Take(k) \/ SearchHandler(k) \/ Update(k)
         \/ \E i \in Nat : Move(i)
         \/ \E ms \in SUBSET Shown : AskDelete(ms)
<1>1. \A i \in 0 .. Len(list.rows) : i \in Nat
  OBVIOUS
<1>2. \A ms \in {{}} \cup kSubset(2, Shown) : ms \in SUBSET Shown
  BY DEF kSubset
<1>3. "local" \in Kinds /\ "server" \in Kinds
  BY DEF Kinds
<1> QED
  BY <1>1, <1>2, <1>3, Zenon DEF Next, User, SearchProcess, Process

LEMMA TypesImply == TypeInv => TypeOK
<1> SUFFICES ASSUME TypeInv PROVE TypeOK
  OBVIOUS
<1> USE BoundsAssumption DEF TypeInv, StateInv, Known
<1>1. Known \subseteq Mails /\ Known = 1 .. mails
  BY DEF Mails
<1>2. KnownRow \subseteq Row
  BY <1>1 DEF KnownRow, Row
<1>3. \A rows \in Seq(KnownRow) : rows \in Seq(Row)
  BY <1>2, SeqMonotonic
<1>4. /\ list.search \in Searches /\ list.offset \in Nat /\ list.max \in Nat \ {0}
      /\ list.hasMore \in BOOLEAN /\ list.rows \in Seq(Row)
      /\ current \in Mails \cup {NoMail}
      /\ selected \subseteq Mails /\ asked \subseteq Mails
      /\ deleting \subseteq Mails \cup {NoMail}
      /\ base \subseteq Mails /\ deleted \subseteq Mails
  BY <1>1, <1>3 DEF ListInv, SomeList
<1>5. \A k \in Kinds : /\ pc[k] \in {"wait", "search", "answer", "update", "stuck"}
                       /\ hand[k].search \in Searches
                       /\ result[k].rows \in Seq(Row)
  BY <1>3 DEF ThreadInv, AnyQuery, SomeResult
<1>6. \A k \in Kinds : \A i \in 1 .. Len(queue[k]) : queue[k][i].search \in 1 .. MaxSearches
  <2>1. list.search \in Int /\ list.search <= MaxSearches
    BY <1>4 DEF Searches, NoSearch
  <2> QED
    BY <2>1 DEF AgeInv
<1>7. last.search \in Searches
  BY DEF ThreadInv
<1>8. mails \in FirstMails .. MaxMails /\ gone \subseteq 1 .. mails
  OBVIOUS
<1>9. {overtaken, shifted, skipped, shrunk, failed} \subseteq BOOLEAN
  OBVIOUS
<1> HIDE DEF Known
<1> QED
  BY <1>4, <1>5, <1>6, <1>7, <1>8, <1>9 DEF TypeOK

LEMMA InitTypeInv == Init => TypeInv
<1> SUFFICES ASSUME Init PROVE TypeInv
  OBVIOUS
<1> USE BoundsAssumption DEF Init, NewList, NoSearch, Searches, NoMail, Kinds
<1>1. StateInv
  <2>1. mails = FirstMails /\ gone = {} /\ index = 0 /\ started = 0 /\ deletes = 0 /\ failures = 0
    OBVIOUS
  <2>2. /\ searching = FALSE /\ isLocal = TRUE /\ ui = "idle"
        /\ overtaken = FALSE /\ shifted = FALSE /\ skipped = FALSE /\ shrunk = FALSE
        /\ failed = FALSE
    OBVIOUS
  <2>3. 0 \in 0 .. MaxDeletes /\ 0 \in 0 .. MaxFailures /\ 0 \in Searches /\ 0 \in Nat
    OBVIOUS
  <2>4. FirstMails \in Nat /\ FirstMails <= FirstMails /\ FirstMails <= MaxMails
    OBVIOUS
  <2> QED
    BY <2>1, <2>2, <2>3, <2>4 DEF StateInv
<1>2. ListInv
  BY DEF ListInv, SomeList
<1>3. ThreadInv
  <2>1. NoQuery \in AnyQuery /\ Nothing \in SomeResult
    BY DEF NoQuery, Query, AnyQuery, Nothing, Result, SomeResult
  <2> QED
    BY <2>1 DEF ThreadInv
<1>4. AgeInv
  BY DEF AgeInv
<1> QED
  BY <1>1, <1>2, <1>3, <1>4 DEF TypeInv

(* What UpdateUidFromIndex() does: it may ask for the next page.           *)
NextPage ==
  LET next == Query(list.search, list.offset + list.max, Height) IN
  /\ list.hasMore
  /\ list' = [list EXCEPT !.offset = next.offset, !.max = Height, !.hasMore = FALSE]
  /\ queue' = Pushed(Kind, next)

LEMMA UpdateIs ==
  ASSUME TypeInv, NEW i \in Nat, UpdateUidFromIndex(i)
  PROVE  /\ index' \in Nat
         /\ list.rows # <<>> => index' < Len(list.rows)
         /\ i < Len(list.rows) => index' = i
         /\ current' = IF list.rows = <<>> THEN current ELSE list.rows[index' + 1].mail
         /\ current' \in Known \cup {NoMail}
         /\ shrunk' = FALSE
         /\ UNCHANGED <<list, queue>> \/ NextPage
<1>1. list.rows \in Seq(KnownRow) /\ Len(list.rows) \in Nat
  BY DEF TypeInv, ListInv, SomeList
<1>2. /\ Bounded(i) \in Nat
      /\ list.rows # <<>> => Bounded(i) < Len(list.rows)
      /\ i < Len(list.rows) => Bounded(i) = i
  BY <1>1 DEF Bounded
<1>3. /\ index' = Bounded(i)
      /\ current' = IF list.rows = <<>> THEN current ELSE list.rows[Bounded(i) + 1].mail
      /\ shrunk' = FALSE
      /\ UNCHANGED <<list, queue>> \/ NextPage
  BY DEF UpdateUidFromIndex, NextPage
<1> HIDE DEF Bounded
<1>4. current' \in Known \cup {NoMail}
  <2>1. CASE list.rows = <<>>
    BY <1>3, <2>1 DEF TypeInv, ListInv
  <2>2. CASE list.rows # <<>>
    <3>1. Bounded(i) + 1 \in 1 .. Len(list.rows)
      BY <1>1, <1>2, <2>2
    <3>2. list.rows[Bounded(i) + 1] \in KnownRow
      BY <1>1, <3>1, ElementOfSeq
    <3> QED
      BY <1>3, <2>2, <3>2 DEF KnownRow
  <2> QED
    BY <2>1, <2>2
<1> QED
  BY <1>2, <1>3, <1>4

LEMMA StatePreserved ==
  ASSUME TypeInv, Next
  PROVE  StateInv'
<1> USE BoundsAssumption DEF TypeInv, StateInv, mailVars, userVars, listVars, deleteVars,
                             threadVars, ghostVars
<1>1. CASE NewMail
  BY <1>1 DEF NewMail, Known
<1>2. CASE Leave \/ DontDelete
  BY <1>2 DEF Leave, DontDelete, Known
<1>3. CASE DeleteMessages
  BY <1>3 DEF DeleteMessages, Known
<1>4. CASE Reset \/ Submit
  BY <1>4 DEF Reset, Submit, Known
<1>5. CASE SearchLocal \/ SearchServer \/ Relock
  <2>1. UNCHANGED <<mails, gone, searching, isLocal, index, ui, started, deletes, failures,
                    overtaken, shifted, skipped, shrunk, failed>>
    BY <1>5 DEF SearchLocal, SearchServer, Relock, SearchStep
  <2> QED
    BY <2>1 DEF Known
<1>6. CASE SearchServerFails
  BY <1>6 DEF SearchServerFails, SearchStep, Known
<1>7. CASE PerformAction
  <2>1. gone' \subseteq Known
    BY <1>7 DEF PerformAction, ListInv
  <2> QED
    BY <1>7, <2>1 DEF PerformAction, Known
<1>8. ASSUME NEW k \in Kinds, SearchMessage(k)
      PROVE  StateInv'
  <2>1. started' \in Searches
    BY <1>8 DEF SearchMessage, Searches, NoSearch
  <2> QED
    BY <1>8, <2>1 DEF SearchMessage, Known
<1>9. ASSUME NEW k \in Kinds, Take(k)
      PROVE  StateInv'
  BY <1>9 DEF Take, Known
<1>10. ASSUME NEW k \in Kinds, SearchHandler(k)
       PROVE  StateInv'
  BY <1>10 DEF SearchHandler, Known
<1>11. ASSUME NEW k \in Kinds, Update(k)
       PROVE  StateInv'
  <2>1. index' \in Nat /\ shrunk' \in BOOLEAN
    <3>1. CASE searching
      <4>1. UpdateUidFromIndex(index)
        BY <1>11, <3>1 DEF Update
      <4> QED
        BY <4>1, UpdateIs
    <3>2. CASE ~searching
      BY <1>11, <3>2 DEF Update
    <3> QED
      BY <3>1, <3>2
  <2> QED
    BY <1>11, <2>1 DEF Update, Known
<1>12. ASSUME NEW i \in Nat, Move(i)
       PROVE  StateInv'
  <2>1. index' \in Nat /\ shrunk' \in BOOLEAN
    BY <1>12, UpdateIs DEF Move
  <2> QED
    BY <1>12, <2>1 DEF Move, Known
<1>13. ASSUME NEW ms \in SUBSET Shown, AskDelete(ms)
       PROVE  StateInv'
  <2>1. index' \in Nat /\ shrunk' \in BOOLEAN
    BY <1>13, UpdateIs DEF AskDelete
  <2> QED
    BY <1>13, <2>1 DEF AskDelete, Known
<1> QED
  BY <1>1, <1>2, <1>3, <1>4, <1>5, <1>6, <1>7, <1>8, <1>9, <1>10, <1>11, <1>12, <1>13, Steps

LEMMA ShownKnown == TypeInv => Shown \subseteq Known
<1> SUFFICES ASSUME TypeInv, NEW i \in DOMAIN list.rows
             PROVE  list.rows[i].mail \in Known
  BY DEF Shown
<1>1. list.rows \in Seq(KnownRow) /\ i \in 1 .. Len(list.rows)
  BY DEF TypeInv, ListInv, SomeList
<1>2. list.rows[i] \in KnownRow
  BY <1>1, ElementOfSeq
<1> QED
  BY <1>2 DEF KnownRow

(* A search finds mails that have come in.                                 *)
LEMMA FoundType ==
  ASSUME TypeInv, NEW query \in AnyQuery, NEW S \in SUBSET Known
  PROVE  Found(query, S) \in SomeResult
<1>1. mails \in Nat
  BY DEF TypeInv, StateInv
<1> DEFINE rows == Found(query, S).rows
<1>2. rows \in Seq([search : Searches, mail : 1 .. mails])
  <2> HIDE DEF rows
  <2>1. rows = Found(query, S).rows
    BY DEF rows
  <2> QED
    BY <1>1, <2>1, PageIs DEF Known
<1>3. Found(query, S) = [rows |-> rows, hasMore |-> Found(query, S).hasMore, among |-> S]
  BY DEF Found, Result
<1>4. Found(query, S).hasMore \in BOOLEAN
  BY DEF Found, Result
<1> HIDE DEF rows
<1> QED
  BY <1>2, <1>3, <1>4 DEF SomeResult, KnownRow, Known

LEMMA SearchedKnown ==
  ASSUME TypeInv
  PROVE  Matching \in SUBSET Known /\ Among \in SUBSET Known
BY DEF TypeInv, ThreadInv, Matching, Among, Known

LEMMA PageType ==
  ASSUME TypeInv, NextPage
  PROVE  /\ list' \in SomeList /\ list'.search = list.search
         /\ list'.rows = list.rows /\ list'.hasMore = FALSE
         /\ list'.offset = list.offset + list.max /\ list'.max = Height
         /\ list'.offset # 0 /\ list'.offset \in Nat
         /\ Query(list.search, list.offset + list.max, Height) \in AnyQuery
         /\ queue' = [queue EXCEPT
              ![Kind] = <<Query(list.search, list.offset + list.max, Height)>> \o @]
<1> USE BoundsAssumption
<1>1. list \in SomeList
  BY DEF TypeInv, ListInv
<1>2. list' = [list EXCEPT !.offset = list.offset + list.max, !.max = Height, !.hasMore = FALSE]
  BY DEF NextPage, Query
<1>3. /\ list.offset \in Nat /\ list.max \in Nat \ {0} /\ list.search \in Searches
      /\ list.offset + list.max \in Nat /\ list.offset + list.max # 0
  BY <1>1 DEF SomeList
<1>4. Query(list.search, list.offset + list.max, Height) \in AnyQuery
  BY <1>3 DEF Query, AnyQuery
<1>5. queue' = [queue EXCEPT
              ![Kind] = <<Query(list.search, list.offset + list.max, Height)>> \o @]
  BY DEF NextPage, Pushed
<1> QED
  BY <1>1, <1>2, <1>3, <1>4, <1>5 DEF SomeList

LEMMA UpdateType ==
  ASSUME TypeInv, NEW i \in Nat, UpdateUidFromIndex(i)
  PROVE  list' \in SomeList /\ list'.search = list.search /\ list'.rows = list.rows
<1>1. UNCHANGED list \/ NextPage
  BY UpdateIs
<1>2. list \in SomeList
  BY DEF TypeInv, ListInv
<1> QED
  BY <1>1, <1>2, PageType

LEMMA ListPreserved ==
  ASSUME TypeInv, Next
  PROVE  ListInv'
<1> USE BoundsAssumption DEF ListInv, mailVars, userVars, listVars, deleteVars,
                             threadVars, ghostVars
<1>0. ListInv /\ mails \in Nat /\ index \in Nat /\ started \in Searches
  BY DEF TypeInv, StateInv
<1>1. CASE NewMail
  <2>1. Known \subseteq Known'
    BY <1>0, <1>1 DEF NewMail, Known
  <2>2. KnownRow \subseteq KnownRow'
    BY <2>1 DEF KnownRow
  <2>3. list \in SomeList /\ list.rows \in Seq(KnownRow)
    BY <1>0 DEF SomeList
  <2>4. list.rows \in Seq(KnownRow')
    BY <2>2, <2>3, SeqMonotonic
  <2>5. list' \in SomeList'
    BY <1>1, <2>3, <2>4 DEF NewMail, SomeList
  <2> QED
    BY <1>0, <1>1, <2>1, <2>5 DEF NewMail
<1>a. SUFFICES ASSUME ~NewMail
               PROVE  ListInv'
  BY <1>1
<1>b. UNCHANGED mails
  BY <1>a, Steps DEF Leave, DeleteMessages, DontDelete, Reset, Submit, SearchLocal,
     SearchServer, Relock, SearchServerFails, PerformAction, SearchMessage, Take,
     SearchHandler, Update, Move, AskDelete, SearchStep
<1>c. Known' = Known /\ SomeList' = SomeList
  BY <1>b DEF Known, SomeList, KnownRow
<1>2. CASE Leave \/ DontDelete
  BY <1>0, <1>2, <1>c DEF Leave, DontDelete
<1>3. CASE DeleteMessages
  <2> DEFINE ms == IF selected = {} THEN {current} ELSE selected
             rows == Erased(list.rows, ms)
  <2>1. /\ deleting' = deleting \cup ms
        /\ list' = [list EXCEPT !.rows = rows]
        /\ deleted' = deleted \cup (ms \cap Shown)
        /\ selected' = {} /\ asked' = {}
        /\ UNCHANGED <<current, base>>
    BY <1>3 DEF DeleteMessages
  <2>2. ms \subseteq Known \cup {NoMail} /\ Shown \subseteq Known
    BY <1>0, ShownKnown
  <2>3. rows \in Seq(KnownRow)
    <3>1. list.rows \in Seq([search : Searches, mail : 1 .. mails])
      BY <1>0 DEF SomeList, KnownRow, Known
    <3> HIDE DEF ms
    <3>2. rows \in Seq([search : Searches, mail : 1 .. mails])
      BY <1>0, <3>1, ErasedIs
    <3> QED
      BY <3>2 DEF KnownRow, Known
  <2> HIDE DEF rows
  <2>4. list' \in SomeList
    BY <1>0, <2>1, <2>3 DEF SomeList
  <2> HIDE DEF ms
  <2> QED
    BY <1>0, <1>c, <2>1, <2>2, <2>4
<1>4. CASE Reset
  <2>1. NewList(started) \in SomeList
    <3>1. <<>> \in Seq(KnownRow)
      OBVIOUS
    <3> QED
      BY <1>0, <3>1 DEF NewList, SomeList
  <2> QED
    BY <1>0, <1>4, <1>c, <2>1 DEF Reset
<1>5. CASE Submit \/ SearchLocal \/ SearchServer \/ Relock \/ SearchServerFails
  BY <1>0, <1>5, <1>c DEF Submit, SearchLocal, SearchServer, Relock, SearchServerFails,
     SearchStep
<1>6. CASE PerformAction
  BY <1>0, <1>6, <1>c DEF PerformAction
<1>7. ASSUME NEW k \in Kinds, SearchMessage(k) \/ Take(k)
      PROVE  ListInv'
  BY <1>0, <1>7, <1>c DEF SearchMessage, Take
<1>8. ASSUME NEW k \in Kinds, SearchHandler(k)
      PROVE  ListInv'
  <2>1. result[k] \in SomeResult
    BY DEF TypeInv, ThreadInv
  <2>2. PICK rows, more : /\ list' = [list EXCEPT !.rows = rows, !.hasMore = more]
                          /\ rows \in Seq(KnownRow) /\ more \in BOOLEAN
    <3>1. list' = [list EXCEPT !.rows = IF hand[k].offset = 0 THEN result[k].rows
                                        ELSE list.rows \o result[k].rows,
                               !.hasMore = result[k].hasMore]
      BY <1>8 DEF SearchHandler
    <3>2. /\ result[k].rows \in Seq(KnownRow) /\ list.rows \in Seq(KnownRow)
          /\ result[k].hasMore \in BOOLEAN
      BY <1>0, <2>1 DEF SomeResult, SomeList
    <3>3. list.rows \o result[k].rows \in Seq(KnownRow)
      BY <3>2, ConcatProperties
    <3> QED
      BY <3>1, <3>2, <3>3
  <2>3. list' \in SomeList
    BY <1>0, <2>2 DEF SomeList
  <2>4. /\ base' \subseteq Known /\ deleted' \subseteq Known
        /\ UNCHANGED <<current, selected, asked, deleting>>
    BY <1>0, <1>8, <2>1 DEF SearchHandler, SomeResult
  <2> QED
    BY <1>0, <1>c, <2>3, <2>4
<1>9. ASSUME NEW k \in Kinds, Update(k)
      PROVE  ListInv'
  <2>1. list' \in SomeList /\ current' \in Known \cup {NoMail}
    <3>1. CASE searching
      <4>1. UpdateUidFromIndex(index)
        BY <1>9, <3>1 DEF Update
      <4> QED
        BY <1>0, <4>1, UpdateIs, UpdateType
    <3>2. CASE ~searching
      BY <1>0, <1>9, <3>2 DEF Update
    <3> QED
      BY <3>1, <3>2
  <2> QED
    BY <1>0, <1>9, <1>c, <2>1 DEF Update
<1>10. ASSUME NEW i \in Nat, Move(i)
       PROVE  ListInv'
  <2>1. list' \in SomeList /\ current' \in Known \cup {NoMail}
    BY <1>10, UpdateIs, UpdateType DEF Move
  <2> QED
    BY <1>0, <1>10, <1>c, <2>1 DEF Move
<1>11. ASSUME NEW ms \in SUBSET Shown, AskDelete(ms)
       PROVE  ListInv'
  <2>1. list' \in SomeList /\ current' \in Known \cup {NoMail}
    BY <1>0, <1>11, UpdateIs, UpdateType DEF AskDelete
  <2>2. ms \subseteq Known /\ selected' = ms /\ UNCHANGED <<deleting, base, deleted>>
    BY <1>11, ShownKnown DEF AskDelete
  <2>3. asked' \subseteq Known
    <3>1. CASE ms # {}
      BY <1>11, <2>2, <3>1 DEF AskDelete
    <3>2. CASE ms = {} /\ list.rows = <<>>
      BY <1>11, <3>2 DEF AskDelete
    <3>3. CASE ms = {} /\ list.rows # <<>>
      <4>1. asked' = {current'} /\ UpdateUidFromIndex(index)
        BY <1>11, <3>3 DEF AskDelete
      <4>2. current' = list.rows[index' + 1].mail /\ index' + 1 \in 1 .. Len(list.rows)
        <5>1. /\ index' \in Nat /\ index' < Len(list.rows)
              /\ current' = list.rows[index' + 1].mail
          BY <1>0, <3>3, <4>1, UpdateIs
        <5>2. Len(list.rows) \in Nat
          BY <1>0 DEF SomeList
        <5>3. index' + 1 \in 1 .. Len(list.rows)
          <6> DEFINE n == Len(list.rows)
                     x == index'
          <6>1. x \in Nat /\ n \in Nat /\ x < n
            BY <5>1, <5>2
          <6> HIDE DEF n, x
          <6>2. x + 1 \in 1 .. n
            BY <6>1
          <6> QED
            BY <6>2 DEF n, x
        <5> QED
          BY <5>1, <5>3
      <4>3. list.rows[index' + 1] \in KnownRow
        BY <1>0, <4>2, ElementOfSeq DEF SomeList
      <4> QED
        BY <4>1, <4>2, <4>3 DEF KnownRow
    <3> QED
      BY <3>1, <3>2, <3>3
  <2> QED
    BY <1>0, <1>c, <2>1, <2>2, <2>3
<1> QED
  BY <1>a, <1>2, <1>3, <1>4, <1>5, <1>6, <1>7, <1>8, <1>9, <1>10, <1>11, Steps

LEMMA ThreadPreserved ==
  ASSUME TypeInv, Next
  PROVE  ThreadInv'
<1> USE BoundsAssumption DEF ThreadInv, mailVars, userVars, listVars, deleteVars,
                             threadVars, ghostVars
<1>0. /\ ThreadInv /\ mails \in Nat /\ index \in Nat /\ started \in Searches
      /\ list \in SomeList
  BY DEF TypeInv, StateInv, ListInv
<1>1. CASE NewMail
  <2>1. Known \subseteq Known'
    BY <1>0, <1>1 DEF NewMail, Known
  <2>2. KnownRow \subseteq KnownRow'
    BY <2>1 DEF KnownRow
  <2>3. Seq(KnownRow) \subseteq Seq(KnownRow')
    BY <2>2, SeqMonotonic
  <2>4. SomeResult \subseteq SomeResult'
    BY <2>1, <2>3 DEF SomeResult
  <2>5. [Kinds -> SomeResult] \subseteq [Kinds -> SomeResult']
    BY <2>4
  <2> QED
    BY <1>0, <1>1, <2>1, <2>5 DEF NewMail
<1>a. SUFFICES ASSUME ~NewMail
               PROVE  ThreadInv'
  BY <1>1
<1>b. UNCHANGED mails
  BY <1>a, Steps DEF Leave, DeleteMessages, DontDelete, Reset, Submit, SearchLocal,
     SearchServer, Relock, SearchServerFails, PerformAction, SearchMessage, Take,
     SearchHandler, Update, Move, AskDelete, SearchStep
<1>c. Known' = Known /\ SomeResult' = SomeResult
  BY <1>b DEF Known, SomeResult, KnownRow
<1>d. Kind \in Kinds /\ "local" \in Kinds /\ "server" \in Kinds
  BY DEF Kind, Kinds
<1>e. NoQuery \in AnyQuery /\ Nothing \in SomeResult
  BY DEF NoQuery, Query, AnyQuery, Nothing, Result, SomeResult, Searches, NoSearch
<1>2. CASE Leave \/ DontDelete \/ DeleteMessages \/ Reset \/ PerformAction
  BY <1>0, <1>2, <1>c DEF Leave, DontDelete, DeleteMessages, Reset, PerformAction
<1>3. CASE Submit
  <2>1. Query(started, 0, 2 * Height) \in AnyQuery
    BY <1>0 DEF Query, AnyQuery
  <2>2. queue' = [queue EXCEPT ![Kind] = <<Query(started, 0, 2 * Height)>> \o @]
    BY <1>3 DEF Submit, Pushed
  <2>3. <<Query(started, 0, 2 * Height)>> \o queue[Kind] \in Seq(AnyQuery)
    BY <1>0, <1>d, <2>1
  <2>4. queue' \in [Kinds -> Seq(AnyQuery)]
    BY <1>0, <2>2, <2>3
  <2> QED
    BY <1>0, <1>3, <1>c, <2>4 DEF Submit
<1>4. CASE SearchLocal
  <2>1. Found(hand["local"], Matching) \in SomeResult
    BY <1>0, <1>d, FoundType, SearchedKnown
  <2> QED
    BY <1>0, <1>4, <1>c, <1>d, <2>1 DEF SearchLocal, Finds, SearchStep
<1>5. CASE SearchServer
  <2>1. Found(hand["server"], Among) \in SomeResult
    BY <1>0, <1>d, FoundType, SearchedKnown
  <2>2. [search |-> hand["server"].search, among |-> Among]
          \in [search : Searches, among : SUBSET Known]
    BY <1>0, <1>d, SearchedKnown DEF AnyQuery
  <2> QED
    BY <1>0, <1>5, <1>c, <1>d, <2>1, <2>2 DEF SearchServer, Finds, SearchStep
<1>6. CASE Relock
  <2>2. [search |-> hand["server"].search, among |-> Among]
          \in [search : Searches, among : SUBSET Known]
    BY <1>0, <1>d, SearchedKnown DEF AnyQuery
  <2> QED
    BY <1>0, <1>6, <1>c, <1>d, <2>2 DEF Relock, SearchStep
<1>7. CASE SearchServerFails
  <2>2. [search |-> NoSearch, among |-> {}] \in [search : Searches, among : SUBSET Known]
    BY DEF Searches, NoSearch
  <2> QED
    BY <1>0, <1>7, <1>c, <1>d, <1>e, <2>2 DEF SearchServerFails, Finds, SearchStep
<1>8. ASSUME NEW k \in Kinds, SearchMessage(k)
      PROVE  ThreadInv'
  BY <1>0, <1>8, <1>c DEF SearchMessage
<1>9. ASSUME NEW k \in Kinds, Take(k)
      PROVE  ThreadInv'
  <2>1. Head(queue[k]) \in AnyQuery /\ Tail(queue[k]) \in Seq(AnyQuery)
    BY <1>0, <1>9, HeadTailProperties DEF Take
  <2> QED
    BY <1>0, <1>9, <1>c, <2>1 DEF Take
<1>10. ASSUME NEW k \in Kinds, SearchHandler(k)
       PROVE  ThreadInv'
  BY <1>0, <1>10, <1>c DEF SearchHandler
<1>11. ASSUME NEW i \in Nat, UpdateUidFromIndex(i) \/ UNCHANGED queue
       PROVE  queue' \in [Kinds -> Seq(AnyQuery)]
  <2>1. CASE NextPage
    <3> DEFINE next == Query(list.search, list.offset + list.max, Height)
    <3>1. next \in AnyQuery /\ queue' = [queue EXCEPT ![Kind] = <<next>> \o @]
      BY <2>1, PageType
    <3> HIDE DEF next
    <3>2. <<next>> \o queue[Kind] \in Seq(AnyQuery)
      BY <1>0, <1>d, <3>1
    <3> QED
      BY <1>0, <3>1, <3>2
  <2> QED
    BY <1>0, <1>11, <2>1, UpdateIs
<1>12. ASSUME NEW k \in Kinds, Update(k)
       PROVE  ThreadInv'
  <2>1. queue' \in [Kinds -> Seq(AnyQuery)]
    <3>1. UpdateUidFromIndex(index) \/ UNCHANGED queue
      BY <1>12 DEF Update
    <3> QED
      BY <1>0, <1>11, <3>1
  <2> QED
    BY <1>0, <1>12, <1>c, <1>e, <2>1 DEF Update
<1>13. ASSUME NEW i \in Nat, Move(i)
       PROVE  ThreadInv'
  <2>1. queue' \in [Kinds -> Seq(AnyQuery)]
    BY <1>11, <1>13 DEF Move
  <2> QED
    BY <1>0, <1>13, <1>c, <2>1 DEF Move
<1>14. ASSUME NEW ms \in SUBSET Shown, AskDelete(ms)
       PROVE  ThreadInv'
  <2>1. queue' \in [Kinds -> Seq(AnyQuery)]
    BY <1>0, <1>11, <1>14 DEF AskDelete
  <2> QED
    BY <1>0, <1>14, <1>c, <2>1 DEF AskDelete
<1> QED
  BY <1>a, <1>2, <1>3, <1>4, <1>5, <1>6, <1>7, <1>8, <1>9, <1>10, <1>12, <1>13, <1>14, Steps

(* A queue after a request is put in front, and after one is taken.        *)
LEMMA FrontIs ==
  ASSUME NEW s \in Seq(AnyQuery), NEW x \in AnyQuery
  PROVE  /\ <<x>> \o s \in Seq(AnyQuery) /\ Len(<<x>> \o s) = Len(s) + 1
         /\ (<<x>> \o s)[1] = x
         /\ \A i \in 2 .. Len(s) + 1 : i - 1 \in 1 .. Len(s) /\ (<<x>> \o s)[i] = s[i - 1]
<1>1. <<x>> \in Seq(AnyQuery) /\ Len(<<x>>) = 1 /\ <<x>>[1] = x /\ Len(s) \in Nat
  OBVIOUS
<1>2. /\ <<x>> \o s \in Seq(AnyQuery)
      /\ Len(<<x>> \o s) = 1 + Len(s)
      /\ \A i \in 1 .. 1 + Len(s) :
           (<<x>> \o s)[i] = IF i <= 1 THEN <<x>>[i] ELSE s[i - 1]
  BY <1>1, ConcatProperties
<1> DEFINE t == <<x>> \o s
<1> HIDE DEF t
<1>3. /\ t \in Seq(AnyQuery) /\ Len(t) = 1 + Len(s)
      /\ \A i \in 1 .. 1 + Len(s) : t[i] = IF i <= 1 THEN <<x>>[i] ELSE s[i - 1]
  BY <1>2 DEF t
<1>4. t[1] = x
  BY <1>1, <1>3
<1>5. \A i \in 2 .. Len(s) + 1 : i - 1 \in 1 .. Len(s) /\ t[i] = s[i - 1]
  BY <1>1, <1>3
<1>6. Len(t) = Len(s) + 1
  BY <1>1, <1>3
<1> QED
  BY <1>3, <1>4, <1>5, <1>6 DEF t

LEMMA TakenIs ==
  ASSUME NEW s \in Seq(AnyQuery), s # <<>>
  PROVE  /\ Len(Tail(s)) = Len(s) - 1 /\ Len(s) \in Nat \ {0}
         /\ Head(s) = s[1]
         /\ \A i \in 1 .. Len(s) - 1 : Tail(s)[i] = s[i + 1]
BY HeadTailProperties

(* The requests that a step adds.                                          *)
NewRequest(k, x) ==
  /\ x \in AnyQuery
  /\ queue' = [queue EXCEPT ![k] = <<x>> \o @]

LEMMA RequestsAre ==
  ASSUME TypeInv, NEW k \in Kinds, NEW x, NewRequest(k, x)
  PROVE  /\ Len(queue'[k]) = Len(queue[k]) + 1 /\ Len(queue[k]) \in Nat
         /\ queue'[k][1] = x
         /\ \A i \in 2 .. Len(queue[k]) + 1 :
              i - 1 \in 1 .. Len(queue[k]) /\ queue'[k][i] = queue[k][i - 1]
         /\ \A j \in Kinds : j # k => queue'[j] = queue[j]
<1>1. queue \in [Kinds -> Seq(AnyQuery)] /\ x \in AnyQuery
  BY DEF TypeInv, ThreadInv, NewRequest
<1>2. /\ queue'[k] = <<x>> \o queue[k] /\ Len(queue[k]) \in Nat
      /\ \A j \in Kinds : j # k => queue'[j] = queue[j]
  BY <1>1 DEF NewRequest
<1>3. /\ Len(<<x>> \o queue[k]) = Len(queue[k]) + 1
      /\ (<<x>> \o queue[k])[1] = x
      /\ \A i \in 2 .. Len(queue[k]) + 1 :
           i - 1 \in 1 .. Len(queue[k]) /\ (<<x>> \o queue[k])[i] = queue[k][i - 1]
  BY <1>1, FrontIs
<1> QED
  BY <1>2, <1>3

LEMMA PageRequest ==
  ASSUME TypeInv, NextPage
  PROVE  NewRequest(Kind, Query(list.search, list.offset + list.max, Height))
BY PageType DEF NewRequest

LEMMA AgePreserved ==
  ASSUME TypeInv, Next
  PROVE  AgeInv'
<1> USE BoundsAssumption DEF mailVars, userVars, listVars, deleteVars, threadVars, ghostVars
<1> DEFINE Old == \A k \in Kinds : \A i \in 1 .. Len(queue[k]) :
                    queue[k][i].search \in 1 .. list.search
           Held == \A k \in Kinds : pc[k] # "wait" => hand[k].search \in 1 .. list.search
<1>0. /\ AgeInv /\ index \in Nat /\ started \in Nat /\ list \in SomeList /\ list.search \in Nat
      /\ ui \in {"idle", "reset", "submit", "confirm"}
  BY DEF TypeInv, StateInv, ListInv, SomeList, Searches, NoSearch
<1>1. Old /\ Held
  BY <1>0 DEF AgeInv
<1>d. Kind \in Kinds /\ "local" \in Kinds /\ "server" \in Kinds
  BY DEF Kind, Kinds
<1>2. CASE NewMail \/ Leave \/ DontDelete \/ PerformAction
  BY <1>0, <1>2 DEF NewMail, Leave, DontDelete, PerformAction, AgeInv
<1>3. CASE DeleteMessages
  <2>1. list'.search = list.search /\ list'.hasMore = list.hasMore
    BY <1>0, <1>3 DEF DeleteMessages, SomeList
  <2> QED
    BY <1>0, <1>3, <2>1 DEF DeleteMessages, AgeInv
<1>4. CASE Reset
  <2>1. /\ list'.search = started /\ list'.hasMore = FALSE /\ ui' = "submit"
        /\ list.search < started
        /\ UNCHANGED <<started, queue, pc, hand>>
    BY <1>0, <1>4 DEF Reset, NewList, AgeInv
  <2>2. \A n \in 1 .. list.search : n \in 1 .. started
    BY <1>0, <2>1
  <2>3. started # NoSearch
    BY <1>0, <2>1 DEF NoSearch
  <2> QED
    BY <1>1, <2>1, <2>2, <2>3 DEF AgeInv
<1>5. CASE Submit
  <2> DEFINE x == Query(started, 0, 2 * Height)
  <2>1. NewRequest(Kind, x)
    BY <1>5 DEF Submit, Pushed, NewRequest, TypeInv, StateInv, Query, AnyQuery
  <2>2. x.search \in 1 .. list.search
    BY <1>0, <1>5 DEF Submit, AgeInv, NoSearch, Query
  <2> HIDE DEF x
  <2>3. \A k \in Kinds : \A i \in 1 .. Len(queue'[k]) :
          queue'[k][i].search \in 1 .. list.search
    <3> SUFFICES ASSUME NEW k \in Kinds, NEW i \in 1 .. Len(queue'[k])
                 PROVE  queue'[k][i].search \in 1 .. list.search
      OBVIOUS
    <3>1. CASE k # Kind
      BY <1>1, <1>d, <2>1, <3>1, RequestsAre
    <3>2. CASE k = Kind
      <4>1. /\ Len(queue'[k]) = Len(queue[k]) + 1 /\ Len(queue[k]) \in Nat
            /\ queue'[k][1] = x
            /\ \A j \in 2 .. Len(queue[k]) + 1 :
                 j - 1 \in 1 .. Len(queue[k]) /\ queue'[k][j] = queue[k][j - 1]
        BY <1>d, <2>1, <3>2, RequestsAre
      <4>2. i = 1 \/ i \in 2 .. Len(queue[k]) + 1
        BY <4>1
      <4> QED
        BY <1>1, <2>2, <4>1, <4>2
    <3> QED
      BY <3>1, <3>2
  <2> QED
    BY <1>0, <1>5, <2>3 DEF Submit, AgeInv
<1>6. CASE SearchLocal \/ SearchServer \/ Relock \/ SearchServerFails
  <2>1. /\ UNCHANGED <<list, ui, started, queue, hand>>
        /\ \A k \in Kinds : pc'[k] # "wait" => pc[k] # "wait"
    BY <1>6, <1>d DEF SearchLocal, SearchServer, Relock, SearchServerFails, SearchStep, Finds,
       TypeInv, ThreadInv
  <2> QED
    BY <1>0, <2>1 DEF AgeInv
<1>7. ASSUME NEW k \in Kinds, SearchMessage(k)
      PROVE  AgeInv'
  <2>1. /\ ui = "idle" /\ ui' = "reset" /\ started' = started + 1
        /\ UNCHANGED <<list, queue, pc, hand>>
    BY <1>7 DEF SearchMessage
  <2>2. list.search < started'
    BY <1>0, <2>1 DEF AgeInv
  <2> QED
    BY <1>0, <2>1, <2>2 DEF AgeInv
<1>8. ASSUME NEW k \in Kinds, Take(k)
      PROVE  AgeInv'
  <2>1. /\ UNCHANGED <<list, ui, started>>
        /\ queue[k] \in Seq(AnyQuery) /\ queue[k] # <<>>
        /\ queue'[k] = Tail(queue[k]) /\ hand'[k] = Head(queue[k])
        /\ \A j \in Kinds : j # k =>
             queue'[j] = queue[j] /\ hand'[j] = hand[j] /\ pc'[j] = pc[j]
    BY <1>8 DEF Take, TypeInv, ThreadInv
  <2>2. /\ Len(queue'[k]) = Len(queue[k]) - 1 /\ Len(queue[k]) \in Nat \ {0}
        /\ hand'[k] = queue[k][1]
        /\ \A i \in 1 .. Len(queue[k]) - 1 : queue'[k][i] = queue[k][i + 1]
    BY <2>1, TakenIs
  <2>3. hand'[k].search \in 1 .. list.search
    <3>1. 1 \in 1 .. Len(queue[k])
      BY <2>2
    <3> QED
      BY <1>1, <2>2, <3>1
  <2>4. \A i \in 1 .. Len(queue'[k]) : queue'[k][i].search \in 1 .. list.search
    <3>1. \A i \in 1 .. Len(queue'[k]) :
            i + 1 \in 1 .. Len(queue[k]) /\ queue'[k][i] = queue[k][i + 1]
      BY <2>2
    <3> QED
      BY <1>1, <3>1
  <2>5. \A j \in Kinds :
          /\ \A i \in 1 .. Len(queue'[j]) : queue'[j][i].search \in 1 .. list.search
          /\ pc'[j] # "wait" => hand'[j].search \in 1 .. list.search
    BY <1>1, <2>1, <2>3, <2>4
  <2> QED
    BY <1>0, <2>1, <2>5 DEF AgeInv
<1>9. ASSUME NEW k \in Kinds, SearchHandler(k)
      PROVE  AgeInv'
  <2>1. /\ UNCHANGED <<ui, started, queue, hand>>
        /\ pc[k] = "answer" /\ \A j \in Kinds : pc'[j] # "wait" => pc[j] # "wait"
        /\ list'.search = list.search
    BY <1>0, <1>9 DEF SearchHandler, TypeInv, ThreadInv, SomeList
  <2>2. list.search # NoSearch
    <3>1. hand[k].search \in 1 .. list.search
      BY <1>1, <2>1
    <3> QED
      BY <1>0, <3>1 DEF NoSearch
  <2> QED
    BY <1>0, <2>1, <2>2 DEF AgeInv
<1>10. ASSUME NEW i \in Nat, UpdateUidFromIndex(i) \/ UNCHANGED <<list, queue>>
       PROVE  /\ list'.search = list.search /\ (list'.hasMore => list.hasMore)
              /\ \A k \in Kinds : \A j \in 1 .. Len(queue'[k]) :
                   queue'[k][j].search \in 1 .. list.search
  <2>1. CASE UNCHANGED <<list, queue>>
    BY <1>1, <2>1
  <2>2. CASE NextPage
    <3> DEFINE x == Query(list.search, list.offset + list.max, Height)
    <3>1. NewRequest(Kind, x)
      BY <2>2, PageRequest
    <3>2. x.search \in 1 .. list.search
      BY <1>0, <2>2 DEF NextPage, AgeInv, NoSearch, Query
    <3> HIDE DEF x
    <3>3. ASSUME NEW k \in Kinds, NEW j \in 1 .. Len(queue'[k])
          PROVE  queue'[k][j].search \in 1 .. list.search
      <4>1. CASE k # Kind
        BY <1>1, <1>d, <3>1, <3>3, <4>1, RequestsAre
      <4>2. CASE k = Kind
        <5>1. /\ Len(queue'[k]) = Len(queue[k]) + 1 /\ Len(queue[k]) \in Nat
              /\ queue'[k][1] = x
              /\ \A m \in 2 .. Len(queue[k]) + 1 :
                   m - 1 \in 1 .. Len(queue[k]) /\ queue'[k][m] = queue[k][m - 1]
          BY <1>d, <3>1, <4>2, RequestsAre
        <5>2. j = 1 \/ j \in 2 .. Len(queue[k]) + 1
          BY <3>3, <5>1
        <5> QED
          BY <1>1, <3>2, <5>1, <5>2
      <4> QED
        BY <4>1, <4>2
    <3>4. list'.search = list.search /\ list'.hasMore = FALSE
      BY <2>2, PageType
    <3> QED
      BY <3>3, <3>4
  <2> QED
    BY <1>10, <2>1, <2>2, UpdateIs
<1>11. ASSUME NEW k \in Kinds, Update(k)
       PROVE  AgeInv'
  <2>1. /\ UNCHANGED <<ui, started>>
        /\ \A j \in Kinds : pc'[j] # "wait" => pc[j] # "wait" /\ hand'[j] = hand[j]
    BY <1>11 DEF Update, TypeInv, ThreadInv
  <2>2. UpdateUidFromIndex(index) \/ UNCHANGED <<list, queue>>
    BY <1>11 DEF Update
  <2>3. /\ list'.search = list.search /\ (list'.hasMore => list.hasMore)
        /\ \A j \in Kinds : \A i \in 1 .. Len(queue'[j]) :
             queue'[j][i].search \in 1 .. list.search
    BY <1>0, <1>10, <2>2
  <2> QED
    BY <1>0, <1>1, <2>1, <2>3 DEF AgeInv
<1>12. ASSUME NEW i \in Nat, Move(i)
       PROVE  AgeInv'
  <2>1. UNCHANGED <<ui, started, pc, hand>> /\ UpdateUidFromIndex(i)
    BY <1>12 DEF Move
  <2>3. /\ list'.search = list.search /\ (list'.hasMore => list.hasMore)
        /\ \A j \in Kinds : \A m \in 1 .. Len(queue'[j]) :
             queue'[j][m].search \in 1 .. list.search
    BY <1>10, <2>1
  <2> QED
    BY <1>0, <1>1, <2>1, <2>3 DEF AgeInv
<1>13. ASSUME NEW ms \in SUBSET Shown, AskDelete(ms)
       PROVE  AgeInv'
  <2>1. /\ UNCHANGED <<started, pc, hand>> /\ UpdateUidFromIndex(index)
        /\ ui = "idle" /\ ui' = "confirm"
    BY <1>13 DEF AskDelete
  <2>3. /\ list'.search = list.search /\ (list'.hasMore => list.hasMore)
        /\ \A j \in Kinds : \A m \in 1 .. Len(queue'[j]) :
             queue'[j][m].search \in 1 .. list.search
    BY <1>0, <1>10, <2>1
  <2> QED
    BY <1>0, <1>1, <2>1, <2>3 DEF AgeInv
<1> HIDE DEF Old, Held
<1> QED
  BY <1>2, <1>3, <1>4, <1>5, <1>6, <1>7, <1>8, <1>9, <1>11, <1>12, <1>13, Steps

LEMMA TypeInvPreserved ==
  ASSUME TypeInv, [Next]_vars
  PROVE  TypeInv'
<1>1. CASE Next
  BY <1>1, StatePreserved, ListPreserved, ThreadPreserved, AgePreserved DEF TypeInv
<1>2. CASE UNCHANGED vars
  <2> USE <1>2 DEF TypeInv, vars, mailVars, userVars, listVars, deleteVars, threadVars, ghostVars
  <2>0. Known' = Known /\ SomeList' = SomeList /\ SomeResult' = SomeResult
    BY DEF Known, SomeList, SomeResult, KnownRow
  <2>1. StateInv'
    BY <2>0 DEF StateInv
  <2>2. ListInv'
    BY <2>0 DEF ListInv
  <2>3. ThreadInv'
    BY <2>0 DEF ThreadInv
  <2>4. AgeInv'
    BY DEF AgeInv
  <2> QED
    BY <2>1, <2>2, <2>3, <2>4
<1> QED
  BY <1>1, <1>2

(* The types, and that the mails shown, chosen and found have come in.     *)
THEOREM TypeCorrect == Spec => []TypeOK
<1>1. Spec => []TypeInv
  BY InitTypeInv, TypeInvPreserved, PTL DEF Spec
<1> QED
  BY <1>1, TypesImply, PTL

-----------------------------------------------------------------------------
(* One request of the list at most is under way.                           *)

Busy == {"search", "answer", "stuck"}

(* A step that leaves the requests alone, or comes to the end of one.      *)
Kept ==
  /\ UNCHANGED <<queue, isLocal>>
  /\ list'.search = list.search /\ list'.hasMore = list.hasMore
  /\ list'.offset = list.offset /\ list'.max = list.max
  /\ \A k \in Kinds : pc'[k] \in Busy => pc[k] \in Busy /\ hand'[k] = hand[k]
  /\ ui' = "submit" => ui = "submit" /\ UNCHANGED <<list, started>>
  /\ ui' # "reset" /\ ~overtaken' => Ours
  /\ list.rows = <<>> /\ base = {} /\ deleted = {} =>
       list'.rows = <<>> /\ base' = {} /\ deleted' = {}

LEMMA KeptRequests ==
  ASSUME TypeInv, Kept
  PROVE  /\ \A k \in Kinds : \A i \in 0 .. Len(queue[k]) : Requested(k, i)' =>
              Requested(k, i) /\ Request(k, i)' = Request(k, i)
         /\ UnderWay' => UnderWay
<1>1. ASSUME NEW k \in Kinds, NEW i \in 0 .. Len(queue[k]), Requested(k, i)'
      PROVE  Requested(k, i) /\ Request(k, i)' = Request(k, i)
  <2>1. CASE i = 0
    BY <1>1, <2>1 DEF Kept, Requested, Request, Busy
  <2>2. CASE i # 0
    BY <1>1, <2>2 DEF Kept, Requested, Request
  <2> QED
    BY <2>1, <2>2
<1>2. UNCHANGED queue
  BY DEF Kept
<1>3. UnderWay' => UnderWay
  BY <1>1, <1>2 DEF UnderWay
<1> QED
  BY <1>1, <1>3

LEMMA KeptPage ==
  ASSUME TypeInv, PageInv, Kept
  PROVE  PageInv'
<1>1. SUFFICES ASSUME Ours'
               PROVE  /\ \A k \in Kinds : \A i \in 0 .. Len(queue'[k]) : Requested(k, i)' =>
                           /\ k = Kind' /\ ~list'.hasMore /\ ui' # "submit"
                           /\ Request(k, i)' = Query(list'.search, list'.offset, list'.max)
                           /\ \A j \in 0 .. Len(queue'[k]) : Requested(k, j)' => i = j
                      /\ ui' = "submit" => list' = NewList(started')
                      /\ ui' = "submit" \/ (UnderWay' /\ list'.offset = 0) =>
                           list'.rows = <<>> /\ base' = {} /\ deleted' = {}
  BY DEF PageInv
<1>2. Ours
  BY <1>1 DEF Ours, Kept
<1>3. Kind' = Kind /\ queue' = queue
  BY DEF Kept, Kind
<1>4. ASSUME NEW k \in Kinds, NEW i \in 0 .. Len(queue'[k]), Requested(k, i)'
      PROVE  /\ k = Kind' /\ ~list'.hasMore /\ ui' # "submit"
             /\ Request(k, i)' = Query(list'.search, list'.offset, list'.max)
             /\ \A j \in 0 .. Len(queue'[k]) : Requested(k, j)' => i = j
  <2>1. Requested(k, i) /\ Request(k, i)' = Request(k, i)
    BY <1>3, <1>4, KeptRequests
  <2>2. \A j \in 0 .. Len(queue[k]) : Requested(k, j)' => Requested(k, j)
    BY KeptRequests
  <2>3. /\ k = Kind /\ ~list.hasMore /\ ui # "submit"
        /\ Request(k, i) = Query(list.search, list.offset, list.max)
        /\ \A j \in 0 .. Len(queue[k]) : Requested(k, j) => i = j
    BY <1>2, <1>3, <2>1 DEF PageInv
  <2> QED
    BY <1>3, <2>1, <2>2, <2>3 DEF Kept
<1>5. ui' = "submit" => list' = NewList(started')
  BY <1>2 DEF PageInv, Kept, NewList
<1>6. ui' = "submit" \/ (UnderWay' /\ list'.offset = 0) =>
        list'.rows = <<>> /\ base' = {} /\ deleted' = {}
  BY <1>2, KeptRequests DEF PageInv, Kept
<1> QED
  BY <1>4, <1>5, <1>6

(* A request that is put into the queue when none is under way.            *)
LEMMA NewIsAlone ==
  ASSUME TypeInv, NEW k \in Kinds, NEW x, NewRequest(k, x), ~UnderWay,
         list'.search = list.search, x.search = list.search,
         \A j \in Kinds : pc'[j] \in Busy => pc[j] \in Busy /\ hand'[j] = hand[j]
  PROVE  /\ \A j \in Kinds : \A i \in 0 .. Len(queue'[j]) :
              Requested(j, i)' <=> j = k /\ i = 1
         /\ Request(k, 1)' = x
         /\ Len(queue'[k]) \in Nat /\ 1 \in 1 .. Len(queue'[k])
<1>1. /\ Len(queue'[k]) = Len(queue[k]) + 1 /\ Len(queue[k]) \in Nat
      /\ queue'[k][1] = x
      /\ \A i \in 2 .. Len(queue[k]) + 1 :
           i - 1 \in 1 .. Len(queue[k]) /\ queue'[k][i] = queue[k][i - 1]
      /\ \A j \in Kinds : j # k => queue'[j] = queue[j]
  BY RequestsAre
<1>2. Request(k, 1)' = x /\ Len(queue'[k]) \in Nat /\ 1 \in 1 .. Len(queue'[k])
  BY <1>1 DEF Request
<1>3. Requested(k, 1)'
  BY <1>2 DEF Requested
<1>4. ASSUME NEW j \in Kinds, NEW i \in 0 .. Len(queue'[j]), Requested(j, i)', ~(j = k /\ i = 1)
      PROVE  FALSE
  <2>1. CASE i = 0
    <3>1. pc'[j] \in Busy /\ hand'[j].search = list'.search
      BY <1>4, <2>1 DEF Requested, Request, Busy
    <3>2. Requested(j, 0)
      BY <3>1 DEF Requested, Request, Busy
    <3>3. 0 \in 0 .. Len(queue[j])
      BY DEF TypeInv, ThreadInv
    <3> QED
      BY <3>2, <3>3 DEF UnderWay
  <2>2. CASE i # 0 /\ j # k
    <3>1. Requested(j, i) /\ i \in 0 .. Len(queue[j])
      BY <1>1, <1>4, <2>2 DEF Requested, Request
    <3> QED
      BY <3>1 DEF UnderWay
  <2>3. CASE i # 0 /\ j = k
    <3>1. i \in 2 .. Len(queue[k]) + 1
      BY <1>1, <1>4, <2>3
    <3>2. /\ i - 1 \in 1 .. Len(queue[k]) /\ i - 1 # 0 /\ i - 1 \in 0 .. Len(queue[k])
          /\ queue'[k][i] = queue[k][i - 1]
      BY <1>1, <3>1
    <3>3. queue'[k][i].search = list'.search
      BY <1>4, <2>3 DEF Requested, Request
    <3>4. Requested(k, i - 1)
      BY <3>2, <3>3 DEF Requested, Request
    <3> QED
      BY <3>2, <3>4 DEF UnderWay
  <2> QED
    BY <2>1, <2>2, <2>3
<1> QED
  BY <1>2, <1>3, <1>4

(* One that is taken from it.                                              *)
LEMMA TakenRequest ==
  ASSUME TypeInv, NEW k \in Kinds, Take(k)
  PROVE  /\ \A i \in 0 .. Len(queue'[k]) :
              /\ i + 1 \in 1 .. Len(queue[k]) /\ i + 1 \in 0 .. Len(queue[k])
              /\ Requested(k, i)' <=> Requested(k, i + 1)
              /\ Request(k, i)' = Request(k, i + 1)
         /\ \A j \in Kinds : j # k =>
              /\ queue'[j] = queue[j]
              /\ \A i \in 0 .. Len(queue[j]) :
                   /\ Requested(j, i)' <=> Requested(j, i)
                   /\ Request(j, i)' = Request(j, i)
<1>1. /\ UNCHANGED list /\ pc[k] = "wait" /\ pc'[k] = "search"
      /\ queue[k] \in Seq(AnyQuery) /\ queue[k] # <<>>
      /\ queue'[k] = Tail(queue[k]) /\ hand'[k] = Head(queue[k])
      /\ \A j \in Kinds : j # k =>
           queue'[j] = queue[j] /\ hand'[j] = hand[j] /\ pc'[j] = pc[j]
  BY DEF Take, TypeInv, ThreadInv, listVars
<1>2. /\ Len(queue'[k]) = Len(queue[k]) - 1 /\ Len(queue[k]) \in Nat \ {0}
      /\ hand'[k] = queue[k][1]
      /\ \A i \in 1 .. Len(queue[k]) - 1 : queue'[k][i] = queue[k][i + 1]
  BY <1>1, TakenIs
<1>3. ASSUME NEW i \in 0 .. Len(queue'[k])
      PROVE  /\ i + 1 \in 1 .. Len(queue[k]) /\ i + 1 \in 0 .. Len(queue[k])
             /\ Requested(k, i)' <=> Requested(k, i + 1)
             /\ Request(k, i)' = Request(k, i + 1)
  <2>1. i + 1 \in 1 .. Len(queue[k]) /\ i + 1 \in 0 .. Len(queue[k]) /\ i + 1 # 0
    BY <1>2
  <2>2. Request(k, i)' = Request(k, i + 1)
    <3>1. CASE i = 0
      BY <1>2, <3>1 DEF Request
    <3>2. CASE i # 0
      <4>1. i \in 1 .. Len(queue[k]) - 1
        BY <1>2, <3>2
      <4> QED
        BY <1>2, <2>1, <3>2, <4>1 DEF Request
    <3> QED
      BY <3>1, <3>2
  <2>3. i # 0 => i \in 1 .. Len(queue'[k])
    BY <1>2
  <2>4. Requested(k, i)' <=> Requested(k, i + 1)
    BY <1>1, <2>1, <2>2, <2>3 DEF Requested
  <2> QED
    BY <2>1, <2>2, <2>4
<1>4. ASSUME NEW j \in Kinds, j # k, NEW i \in 0 .. Len(queue[j])
      PROVE  /\ Requested(j, i)' <=> Requested(j, i)
             /\ Request(j, i)' = Request(j, i)
  BY <1>1, <1>4 DEF Requested, Request
<1> QED
  BY <1>1, <1>3, <1>4

(* A step that asks for the next page.                                     *)
Turned ==
  /\ NextPage
  /\ UNCHANGED <<isLocal, ghostVars>>
  /\ ui' = "submit" => ui = "submit"
  /\ ui' # "reset" => ui # "reset"
  /\ \A k \in Kinds : pc'[k] \in Busy => pc[k] \in Busy /\ hand'[k] = hand[k]

LEMMA TurnedPage ==
  ASSUME TypeInv, PageInv, Turned, Ours'
  PROVE  /\ Ours /\ list.hasMore /\ ~UnderWay /\ ui # "submit" /\ ui' # "submit"
         /\ list'.search = list.search /\ list'.rows = list.rows
         /\ list'.hasMore = FALSE /\ list'.offset = list.offset + list.max
         /\ list'.offset # 0
         /\ \A j \in Kinds : \A i \in 0 .. Len(queue'[j]) :
              Requested(j, i)' <=> j = Kind /\ i = 1
         /\ Request(Kind, 1)' = Query(list'.search, list'.offset, list'.max)
         /\ Len(queue'[Kind]) \in Nat /\ 1 \in 1 .. Len(queue'[Kind])
<1>1. Ours /\ list.hasMore
  BY DEF Ours, Turned, ghostVars, NextPage
<1>2. ~UnderWay
  BY <1>1 DEF PageInv, UnderWay
<1>3. ui # "submit"
  BY <1>1 DEF PageInv, NewList
<1>4. ui' # "submit"
  BY <1>3 DEF Turned
<1>5. /\ list'.search = list.search /\ list'.rows = list.rows
      /\ list'.hasMore = FALSE /\ list'.offset = list.offset + list.max
      /\ list'.offset # 0 /\ list'.max = Height
  BY PageType DEF Turned
<1>6. NewRequest(Kind, Query(list.search, list.offset + list.max, Height))
  BY PageRequest DEF Turned
<1>7. Query(list.search, list.offset + list.max, Height).search = list.search
  BY DEF Query
<1>8. Kind \in Kinds
  BY DEF Kind, Kinds
<1>9. /\ \A j \in Kinds : \A i \in 0 .. Len(queue'[j]) :
              Requested(j, i)' <=> j = Kind /\ i = 1
      /\ Request(Kind, 1)' = Query(list.search, list.offset + list.max, Height)
      /\ Len(queue'[Kind]) \in Nat /\ 1 \in 1 .. Len(queue'[Kind])
  <2>1. PICK k \in Kinds, x \in AnyQuery :
          k = Kind /\ x = Query(list.search, list.offset + list.max, Height)
    BY <1>6, <1>8 DEF NewRequest
  <2>2. NewRequest(k, x) /\ x.search = list.search
    BY <1>6, <1>7, <2>1
  <2>3. \A j \in Kinds : pc'[j] \in Busy => pc[j] \in Busy /\ hand'[j] = hand[j]
    BY DEF Turned
  <2>4. /\ \A j \in Kinds : \A i \in 0 .. Len(queue'[j]) :
                Requested(j, i)' <=> j = k /\ i = 1
        /\ Request(k, 1)' = x
        /\ Len(queue'[k]) \in Nat /\ 1 \in 1 .. Len(queue'[k])
    BY <1>2, <1>5, <2>2, <2>3, NewIsAlone
  <2>5. Kind' = Kind
    BY DEF Turned, Kind
  <2> QED
    BY <2>1, <2>4, <2>5
<1> QED
  BY <1>1, <1>2, <1>3, <1>4, <1>5, <1>9

(* The step that adds the rows of this search: the only request is done.   *)
LEMMA HandledPage ==
  ASSUME TypeInv, PageInv, NEW k \in Kinds, SearchHandler(k), Ours'
  PROVE  /\ Ours /\ Requested(k, 0) /\ k = Kind /\ ~list.hasMore /\ UnderWay
         /\ hand[k] = Query(list.search, list.offset, list.max)
         /\ ui # "submit" /\ UNCHANGED ui
         /\ ~UnderWay'
         /\ list'.search = list.search /\ list'.offset = list.offset
         /\ list'.max = list.max /\ list'.hasMore = result[k].hasMore
         /\ list'.rows = IF list.offset = 0 THEN result[k].rows
                         ELSE list.rows \o result[k].rows
<1>1. /\ pc[k] = "answer" /\ pc' = [pc EXCEPT ![k] = "update"]
      /\ ~overtaken /\ hand[k].search = list.search /\ ui' # "reset"
      /\ UNCHANGED <<ui, queue, hand, isLocal>>
      /\ list' = [list EXCEPT !.rows = IF hand[k].offset = 0 THEN result[k].rows
                                       ELSE @ \o result[k].rows,
                              !.hasMore = result[k].hasMore]
  BY DEF SearchHandler, Ours, userVars
<1>2. Ours /\ Requested(k, 0)
  BY <1>1 DEF Ours, Requested, Request
<1>3. list \in SomeList /\ queue \in [Kinds -> Seq(AnyQuery)]
      /\ pc \in [Kinds -> {"wait", "search", "answer", "update", "stuck"}]
  BY DEF TypeInv, ListInv, ThreadInv
<1>4. 0 \in 0 .. Len(queue[k])
  BY <1>3
<1>5. /\ k = Kind /\ ~list.hasMore /\ ui # "submit"
      /\ Request(k, 0) = Query(list.search, list.offset, list.max)
      /\ \A j \in 0 .. Len(queue[k]) : Requested(k, j) => j = 0
  BY <1>2, <1>4 DEF PageInv
<1>6. hand[k] = Query(list.search, list.offset, list.max)
  BY <1>5 DEF Request
<1>7. list'.search = list.search /\ list'.offset = list.offset
      /\ list'.max = list.max /\ list'.hasMore = result[k].hasMore
      /\ list'.rows = IF list.offset = 0 THEN result[k].rows ELSE list.rows \o result[k].rows
  BY <1>1, <1>3, <1>6 DEF SomeList, Query
<1>8. ASSUME NEW j \in Kinds, NEW i \in 0 .. Len(queue'[j]), Requested(j, i)'
      PROVE  FALSE
  <2>1. i \in 0 .. Len(queue[j])
    BY <1>1, <1>8
  <2>2. Requested(j, i) /\ ~(j = k /\ i = 0)
    BY <1>1, <1>3, <1>7, <1>8 DEF Requested, Request
  <2>3. j = k
    BY <1>2, <1>5, <2>1, <2>2 DEF PageInv
  <2> QED
    BY <1>5, <2>1, <2>2, <2>3
<1>9. ~UnderWay'
  BY <1>8 DEF UnderWay
<1>10. UnderWay
  BY <1>2, <1>4 DEF UnderWay
<1> QED
  BY <1>1, <1>2, <1>5, <1>6, <1>7, <1>9, <1>10

(* The other steps.                                                        *)
LEMMA KeptSteps ==
  ASSUME TypeInv,
         \/ NewMail \/ Leave \/ DontDelete \/ DeleteMessages \/ PerformAction
         \/ SearchLocal \/ SearchServer \/ Relock \/ SearchServerFails
  PROVE  Kept
<1> USE DEF mailVars, userVars, listVars, deleteVars, threadVars, ghostVars
<1>0. /\ list \in SomeList
      /\ pc \in [Kinds -> {"wait", "search", "answer", "update", "stuck"}]
      /\ ui \in {"idle", "reset", "submit", "confirm"}
  BY DEF TypeInv, ListInv, ThreadInv, StateInv
<1>1. CASE NewMail \/ Leave \/ DontDelete \/ PerformAction
  <2>1. /\ UNCHANGED <<queue, isLocal, list, pc, hand, overtaken, base, deleted, started>>
        /\ ui' = ui \/ (ui = "confirm" /\ ui' = "idle")
    BY <1>1 DEF NewMail, Leave, DontDelete, PerformAction
  <2> QED
    BY <2>1 DEF Kept, Ours
<1>2. CASE SearchLocal \/ SearchServer \/ Relock \/ SearchServerFails
  <2>1. /\ UNCHANGED <<queue, isLocal, list, hand, overtaken, base, deleted, started, ui>>
        /\ \A k \in Kinds : pc'[k] \in Busy => pc[k] \in Busy
    BY <1>0, <1>2 DEF SearchLocal, SearchServer, Relock, SearchServerFails, SearchStep, Finds, Busy
  <2> QED
    BY <2>1 DEF Kept, Ours
<1>3. CASE DeleteMessages
  <2> DEFINE ms == IF selected = {} THEN {current} ELSE selected
  <2>1. /\ list' = [list EXCEPT !.rows = Erased(list.rows, ms)]
        /\ deleted' = deleted \cup (ms \cap Shown)
        /\ UNCHANGED <<queue, isLocal, hand, pc, overtaken, base, started>>
        /\ ui = "confirm" /\ ui' = "idle"
    BY <1>3 DEF DeleteMessages
  <2>2. ASSUME list.rows = <<>>, deleted = {}
        PROVE  list'.rows = <<>> /\ deleted' = {}
    <3>1. list.rows \in Seq([search : Searches, mail : 1 .. mails]) /\ mails \in Nat
      BY <1>0 DEF SomeList, KnownRow, Known, TypeInv, StateInv
    <3> HIDE DEF ms
    <3>2. /\ Erased(list.rows, ms) \in Seq([search : Searches, mail : 1 .. mails])
          /\ Len(Erased(list.rows, ms)) <= Len(list.rows)
      BY <3>1, ErasedIs
    <3>3. Len(list.rows) = 0
      BY <2>2
    <3> DEFINE left == Erased(list.rows, ms)
    <3>4. left = <<>>
      <4>1. left \in Seq([search : Searches, mail : 1 .. mails]) /\ Len(left) <= 0
        BY <3>2, <3>3
      <4> HIDE DEF left
      <4> QED
        BY <4>1, EmptySeq
    <3>5. Shown = {}
      BY <2>2 DEF Shown
    <3>6. list'.rows = left
      BY <1>0, <2>1 DEF SomeList
    <3> HIDE DEF left
    <3> QED
      BY <2>1, <2>2, <3>4, <3>5, <3>6
  <2>3. list'.search = list.search /\ list'.hasMore = list.hasMore
        /\ list'.offset = list.offset /\ list'.max = list.max
    BY <1>0, <2>1 DEF SomeList
  <2> HIDE DEF ms
  <2> QED
    BY <2>1, <2>2, <2>3 DEF Kept, Ours
<1> QED
  BY <1>1, <1>2, <1>3

(* Those that look at the index.                                           *)
LEMMA IndexSteps ==
  ASSUME TypeInv, Next,
         \/ \E k \in Kinds : Update(k)
         \/ \E i \in Nat : Move(i)
         \/ \E ms \in SUBSET Shown : AskDelete(ms)
  PROVE  (Kept /\ UNCHANGED list) \/ Turned
<1> USE DEF mailVars, userVars, listVars, deleteVars, threadVars, ghostVars
<1>1. ASSUME UNCHANGED <<list, queue, isLocal, ghostVars>>,
             ui' = "submit" => ui = "submit", ui' # "reset" => ui # "reset",
             UNCHANGED started,
             \A k \in Kinds : pc'[k] \in Busy => pc[k] \in Busy /\ hand'[k] = hand[k]
      PROVE  Kept
  BY <1>1 DEF Kept, Ours
<1>2. ASSUME NEW k \in Kinds, Update(k)
      PROVE  (Kept /\ UNCHANGED list) \/ Turned
  <2>1. \A j \in Kinds : pc'[j] \in Busy => pc[j] \in Busy /\ hand'[j] = hand[j]
    BY <1>2 DEF Update, Busy, TypeInv, ThreadInv
  <2>2. UNCHANGED <<isLocal, ghostVars, ui, started>>
    BY <1>2 DEF Update
  <2>3. UNCHANGED <<list, queue>> \/ NextPage
    <3>1. UpdateUidFromIndex(index) \/ UNCHANGED <<list, queue>>
      BY <1>2 DEF Update
    <3> QED
      BY <3>1, UpdateIs DEF TypeInv, StateInv
  <2> QED
    BY <1>1, <2>1, <2>2, <2>3 DEF Turned
<1>3. ASSUME NEW i \in Nat, Move(i)
      PROVE  (Kept /\ UNCHANGED list) \/ Turned
  <2>1. UNCHANGED <<isLocal, ghostVars, ui, started, pc, hand>>
    BY <1>3 DEF Move
  <2>2. UNCHANGED <<list, queue>> \/ NextPage
    BY <1>3, UpdateIs DEF Move
  <2> QED
    BY <1>1, <2>1, <2>2 DEF Turned
<1>4. ASSUME NEW ms \in SUBSET Shown, AskDelete(ms)
      PROVE  (Kept /\ UNCHANGED list) \/ Turned
  <2>1. UNCHANGED <<isLocal, ghostVars, started, pc, hand>> /\ ui = "idle" /\ ui' = "confirm"
    BY <1>4 DEF AskDelete
  <2>2. UNCHANGED <<list, queue>> \/ NextPage
    <3>1. UpdateUidFromIndex(index)
      BY <1>4 DEF AskDelete
    <3> QED
      BY <3>1, UpdateIs DEF TypeInv, StateInv
  <2> QED
    BY <1>1, <2>1, <2>2 DEF Turned
<1> QED
  BY <1>2, <1>3, <1>4

LEMMA ResetIs ==
  ASSUME TypeInv, Reset
  PROVE  /\ ~UnderWay' /\ list' = NewList(started) /\ started' = started /\ ui' = "submit"
         /\ base' = {} /\ deleted' = {}
         /\ list'.search = started /\ list'.offset = 0 /\ list'.hasMore = FALSE
         /\ list'.rows = <<>>
<1>1. /\ list' = NewList(started) /\ ui' = "submit" /\ base' = {} /\ deleted' = {}
      /\ UNCHANGED <<queue, pc, hand, started>> /\ ui = "reset"
  BY DEF Reset, threadVars
<1>2. list'.search = started /\ list'.offset = 0 /\ list'.hasMore = FALSE /\ list'.rows = <<>>
  BY <1>1 DEF NewList
<1>3. list.search < started /\ list.search \in Nat /\ started \in Nat
  BY <1>1 DEF TypeInv, AgeInv, ListInv, SomeList, StateInv, Searches, NoSearch
<1>4. ASSUME NEW k \in Kinds, NEW i \in 0 .. Len(queue'[k]), Requested(k, i)'
      PROVE  FALSE
  <2>1. Request(k, i)'.search = started
    BY <1>2, <1>4 DEF Requested
  <2>2. Request(k, i)' = Request(k, i)
    BY <1>1 DEF Request
  <2>3. Request(k, i).search \in 1 .. list.search
    <3>1. CASE i = 0
      BY <1>1, <1>4, <3>1 DEF Requested, Request, TypeInv, AgeInv
    <3>2. CASE i # 0
      BY <1>1, <1>4, <3>2 DEF Requested, Request, TypeInv, AgeInv
    <3> QED
      BY <3>1, <3>2
  <2> QED
    BY <1>3, <2>1, <2>2, <2>3
<1> QED
  BY <1>1, <1>2, <1>4 DEF UnderWay

LEMMA SubmitIs ==
  ASSUME TypeInv, PageInv, Submit, Ours'
  PROVE  /\ Ours /\ ~UnderWay /\ ui' = "idle" /\ list = NewList(started)
         /\ list'= list /\ base' = base /\ deleted' = deleted
         /\ list.rows = <<>> /\ base = {} /\ deleted = {}
         /\ list.offset = 0 /\ list.hasMore = FALSE
         /\ \A j \in Kinds : \A i \in 0 .. Len(queue'[j]) :
              Requested(j, i)' <=> j = Kind /\ i = 1
         /\ Request(Kind, 1)' = Query(list'.search, list'.offset, list'.max)
         /\ Len(queue'[Kind]) \in Nat /\ 1 \in 1 .. Len(queue'[Kind])
<1>1. /\ ui = "submit" /\ ui' = "idle"
      /\ UNCHANGED <<list, isLocal, pc, hand, base, deleted, overtaken, started>>
      /\ queue' = Pushed(Kind, Query(started, 0, 2 * Height))
  BY DEF Submit, userVars, listVars, threadVars, ghostVars
<1>2. Ours
  BY <1>1 DEF Ours
<1>3. list = NewList(started) /\ list.rows = <<>> /\ base = {} /\ deleted = {}
  BY <1>1, <1>2 DEF PageInv
<1>4. ~UnderWay
  BY <1>1, <1>2 DEF PageInv, UnderWay
<1>5. list.search = started /\ list.offset = 0 /\ list.max = 2 * Height /\ list.hasMore = FALSE
  BY <1>3 DEF NewList
<1>6. PICK k \in Kinds, x \in AnyQuery : k = Kind /\ x = Query(started, 0, 2 * Height)
  <2>1. Kind \in Kinds
    BY DEF Kind, Kinds
  <2>2. Query(started, 0, 2 * Height) \in AnyQuery
    BY BoundsAssumption DEF Query, AnyQuery, TypeInv, StateInv
  <2> QED
    BY <2>1, <2>2
<1>7. NewRequest(k, x) /\ x.search = list.search
  BY <1>1, <1>5, <1>6 DEF NewRequest, Pushed, Query
<1>8. /\ \A j \in Kinds : \A i \in 0 .. Len(queue'[j]) :
              Requested(j, i)' <=> j = k /\ i = 1
      /\ Request(k, 1)' = x
      /\ Len(queue'[k]) \in Nat /\ 1 \in 1 .. Len(queue'[k])
  BY <1>1, <1>4, <1>7, NewIsAlone
<1>9. Kind' = Kind
  BY <1>1 DEF Kind
<1> QED
  BY <1>1, <1>2, <1>3, <1>4, <1>5, <1>6, <1>8, <1>9

LEMMA TakeIs ==
  ASSUME TypeInv, NEW k \in Kinds, Take(k)
  PROVE  /\ UNCHANGED <<list, isLocal, ui, started, overtaken, base, deleted>>
         /\ UnderWay' => UnderWay
<1>1. UNCHANGED <<list, isLocal, ui, started, overtaken, base, deleted>>
  BY DEF Take, userVars, listVars, ghostVars
<1>2. ASSUME NEW j \in Kinds, NEW i \in 0 .. Len(queue'[j]), Requested(j, i)'
      PROVE  UnderWay
  <2>1. CASE j = k
    BY <1>2, <2>1, TakenRequest DEF UnderWay
  <2>2. CASE j # k
    BY <1>2, <2>2, TakenRequest DEF UnderWay
  <2> QED
    BY <2>1, <2>2
<1>3. UnderWay' => UnderWay
  BY <1>2 DEF UnderWay
<1> QED
  BY <1>1, <1>3

(* One request at most stays under way.                                    *)
LEMMA PagePreserved ==
  ASSUME TypeInv, PageInv, Next
  PROVE  PageInv'
<1>1. CASE Kept
  BY <1>1, KeptPage
<1>2. SUFFICES ASSUME Ours'
               PROVE  /\ \A k \in Kinds : \A i \in 0 .. Len(queue'[k]) : Requested(k, i)' =>
                           /\ k = Kind' /\ ~list'.hasMore /\ ui' # "submit"
                           /\ Request(k, i)' = Query(list'.search, list'.offset, list'.max)
                           /\ \A j \in 0 .. Len(queue'[k]) : Requested(k, j)' => i = j
                      /\ ui' = "submit" => list' = NewList(started')
                      /\ ui' = "submit" \/ (UnderWay' /\ list'.offset = 0) =>
                           list'.rows = <<>> /\ base' = {} /\ deleted' = {}
  BY DEF PageInv
<1> DEFINE Goal == /\ \A k \in Kinds : \A i \in 0 .. Len(queue'[k]) : Requested(k, i)' =>
                           /\ k = Kind' /\ ~list'.hasMore /\ ui' # "submit"
                           /\ Request(k, i)' = Query(list'.search, list'.offset, list'.max)
                           /\ \A j \in 0 .. Len(queue'[k]) : Requested(k, j)' => i = j
                   /\ ui' = "submit" => list' = NewList(started')
                   /\ ui' = "submit" \/ (UnderWay' /\ list'.offset = 0) =>
                        list'.rows = <<>> /\ base' = {} /\ deleted' = {}
<1>3. CASE Turned
  <2>1. /\ list'.hasMore = FALSE /\ list'.offset # 0 /\ ui' # "submit"
        /\ \A j \in Kinds : \A i \in 0 .. Len(queue'[j]) :
             Requested(j, i)' <=> j = Kind /\ i = 1
        /\ Request(Kind, 1)' = Query(list'.search, list'.offset, list'.max)
    BY <1>2, <1>3, TurnedPage
  <2>2. Kind' = Kind
    BY <1>3 DEF Turned, Kind
  <2> QED
    BY <2>1, <2>2
<1>4. CASE Reset
  <2>1. /\ ~UnderWay' /\ list' = NewList(started) /\ started' = started /\ ui' = "submit"
        /\ base' = {} /\ deleted' = {} /\ list'.rows = <<>>
    BY <1>4, ResetIs
  <2> QED
    BY <2>1 DEF UnderWay
<1>5. CASE Submit
  <2>1. /\ ui' = "idle" /\ list'.hasMore = FALSE
        /\ list'.rows = <<>> /\ base' = {} /\ deleted' = {}
        /\ \A j \in Kinds : \A i \in 0 .. Len(queue'[j]) :
             Requested(j, i)' <=> j = Kind /\ i = 1
        /\ Request(Kind, 1)' = Query(list'.search, list'.offset, list'.max)
    BY <1>2, <1>5, SubmitIs
  <2>2. Kind' = Kind
    BY <1>5 DEF Submit, Kind, listVars
  <2> QED
    BY <2>1, <2>2
<1>6. ASSUME NEW k \in Kinds, SearchMessage(k)
      PROVE  Goal
  BY <1>2, <1>6 DEF SearchMessage, Ours
<1>7. ASSUME NEW k \in Kinds, SearchHandler(k)
      PROVE  Goal
  <2>1. ~UnderWay' /\ ui' # "submit"
    BY <1>2, <1>7, HandledPage
  <2> QED
    BY <2>1 DEF UnderWay
<1>8. ASSUME NEW k \in Kinds, Take(k)
      PROVE  Goal
  <2>1. /\ UNCHANGED <<list, isLocal, ui, started, overtaken, base, deleted>>
        /\ UnderWay' => UnderWay
    BY <1>8, TakeIs
  <2>2. Kind' = Kind
    BY <2>1 DEF Kind
  <2>3. Ours
    BY <1>2, <2>1 DEF Ours
  <2>4. ASSUME NEW j \in Kinds, NEW i \in 0 .. Len(queue'[j]), Requested(j, i)'
        PROVE  /\ j = Kind' /\ ~list'.hasMore /\ ui' # "submit"
               /\ Request(j, i)' = Query(list'.search, list'.offset, list'.max)
               /\ \A m \in 0 .. Len(queue'[j]) : Requested(j, m)' => i = m
    <3>1. CASE j = k
      <4>1. /\ i + 1 \in 0 .. Len(queue[k]) /\ Requested(k, i + 1)
            /\ Request(k, i)' = Request(k, i + 1)
        BY <1>8, <2>4, <3>1, TakenRequest
      <4>2. /\ k = Kind /\ ~list.hasMore /\ ui # "submit"
            /\ Request(k, i + 1) = Query(list.search, list.offset, list.max)
            /\ \A m \in 0 .. Len(queue[k]) : Requested(k, m) => i + 1 = m
        BY <2>3, <4>1 DEF PageInv
      <4>3. ASSUME NEW m \in 0 .. Len(queue'[j]), Requested(j, m)'
            PROVE  i = m
        <5>1. m + 1 \in 0 .. Len(queue[k]) /\ Requested(k, m + 1)
          BY <1>8, <3>1, <4>3, TakenRequest
        <5>2. i + 1 = m + 1
          BY <4>2, <5>1
        <5> QED
          BY <2>4, <4>3, <5>2
      <4> QED
        BY <2>1, <2>2, <3>1, <4>1, <4>2, <4>3
    <3>2. CASE j # k
      <4>1. queue'[j] = queue[j]
        BY <1>8, <3>2, TakenRequest
      <4>2. /\ Requested(j, i) /\ Request(j, i)' = Request(j, i)
            /\ \A m \in 0 .. Len(queue[j]) : Requested(j, m)' => Requested(j, m)
        BY <1>8, <2>4, <3>2, <4>1, TakenRequest
      <4>3. /\ j = Kind /\ ~list.hasMore /\ ui # "submit"
            /\ Request(j, i) = Query(list.search, list.offset, list.max)
            /\ \A m \in 0 .. Len(queue[j]) : Requested(j, m) => i = m
        BY <2>3, <2>4, <4>1, <4>2 DEF PageInv
      <4> QED
        BY <2>1, <2>2, <4>1, <4>2, <4>3
    <3> QED
      BY <3>1, <3>2
  <2>5. /\ ui' = "submit" => list' = NewList(started')
        /\ ui' = "submit" \/ (UnderWay' /\ list'.offset = 0) =>
             list'.rows = <<>> /\ base' = {} /\ deleted' = {}
    BY <2>1, <2>3 DEF PageInv
  <2> QED
    BY <2>4, <2>5
<1>9. CASE Kept \/ Turned
  <2>1. Kept => Goal
    BY <1>1, <1>2 DEF PageInv
  <2> HIDE DEF Goal
  <2> QED
    BY <1>3, <1>9, <2>1 DEF Goal
<1>10. Goal
  <2> HIDE DEF Goal
  <2>1. \/ Reset \/ Submit \/ Kept \/ Turned
        \/ \E k \in Kinds : SearchMessage(k) \/ SearchHandler(k) \/ Take(k)
    BY Steps, KeptSteps, IndexSteps
  <2> QED
    BY <1>3, <1>4, <1>5, <1>6, <1>7, <1>8, <1>9, <2>1 DEF Goal
<1> QED
  BY <1>10

-----------------------------------------------------------------------------
(* What has been found.                                                    *)

LEMMA ResultPreserved ==
  ASSUME TypeInv, ResultInv, Next
  PROVE  ResultInv'
<1> USE DEF mailVars, userVars, listVars, deleteVars, threadVars, ghostVars
<1>0. /\ pc \in [Kinds -> {"wait", "search", "answer", "update", "stuck"}]
      /\ hand \in [Kinds -> AnyQuery] /\ result \in [Kinds -> SomeResult]
      /\ "local" \in Kinds /\ "server" \in Kinds
  BY DEF TypeInv, ThreadInv, Kinds
<1>1. ASSUME UNCHANGED <<pc, hand, result, last>>
      PROVE  ResultInv'
  BY <1>1 DEF ResultInv
<1>2. CASE SearchLocal
  <2>1. /\ UNCHANGED <<hand, last>>
        /\ result'["local"] = Found(hand["local"], Matching)
        /\ \A k \in Kinds : k # "local" => result'[k] = result[k] /\ pc'[k] = pc[k]
    BY <1>0, <1>2 DEF SearchLocal, SearchStep, Finds
  <2>2. result'["local"].among = Matching
    BY <2>1 DEF Found, Result
  <2>3. result'["local"] = Found(hand'["local"], result'["local"].among)
    BY <2>1, <2>2
  <2> QED
    BY <1>0, <2>1, <2>3 DEF ResultInv
<1>3. CASE SearchServer
  <2>1. /\ UNCHANGED hand
        /\ result'["server"] = Found(hand["server"], Among)
        /\ last' = [search |-> hand["server"].search, among |-> Among]
        /\ \A k \in Kinds : k # "server" => result'[k] = result[k] /\ pc'[k] = pc[k]
    BY <1>0, <1>3 DEF SearchServer, SearchStep, Finds
  <2>2. result'["server"].among = Among
    BY <2>1 DEF Found, Result
  <2>3. /\ result'["server"] = Found(hand'["server"], result'["server"].among)
        /\ last' = [search |-> hand'["server"].search, among |-> result'["server"].among]
    BY <2>1, <2>2
  <2> QED
    BY <1>0, <2>1, <2>3 DEF ResultInv
<1>4. CASE Relock
  <2>1. /\ UNCHANGED <<hand, result>> /\ pc'["server"] = "stuck"
        /\ \A k \in Kinds : k # "server" => pc'[k] = pc[k]
    BY <1>0, <1>4 DEF Relock, SearchStep
  <2> QED
    BY <1>0, <2>1 DEF ResultInv
<1>5. CASE SearchServerFails
  <2>1. /\ UNCHANGED hand /\ result'["server"] = Nothing
        /\ \A k \in Kinds : k # "server" => result'[k] = result[k] /\ pc'[k] = pc[k]
    BY <1>0, <1>5 DEF SearchServerFails, SearchStep, Finds
  <2> QED
    BY <1>0, <2>1 DEF ResultInv
<1>6. ASSUME NEW k \in Kinds, Take(k) \/ SearchHandler(k) \/ Update(k)
      PROVE  ResultInv'
  <2>1. /\ UNCHANGED last /\ pc'[k] # "answer"
        /\ \A j \in Kinds : j # k =>
             pc'[j] = pc[j] /\ hand'[j] = hand[j] /\ result'[j] = result[j]
    BY <1>0, <1>6 DEF Take, SearchHandler, Update
  <2> QED
    BY <1>0, <2>1 DEF ResultInv
<1>7. CASE \/ NewMail \/ Leave \/ DeleteMessages \/ DontDelete \/ Reset \/ Submit
           \/ PerformAction
  BY <1>1, <1>7 DEF NewMail, Leave, DeleteMessages, DontDelete, Reset, Submit, PerformAction
<1>8. ASSUME NEW k \in Kinds, SearchMessage(k)
      PROVE  ResultInv'
  BY <1>1, <1>8 DEF SearchMessage
<1>9. ASSUME NEW i \in Nat, Move(i)
      PROVE  ResultInv'
  BY <1>1, <1>9 DEF Move
<1>10. ASSUME NEW ms \in SUBSET Shown, AskDelete(ms)
       PROVE  ResultInv'
  BY <1>1, <1>10 DEF AskDelete
<1> QED
  BY <1>2, <1>3, <1>4, <1>5, <1>6, <1>7, <1>8, <1>9, <1>10, Steps

-----------------------------------------------------------------------------
(* The uids of the last search are those of the list.                      *)

(* A step of others, or the end of a search on the server.                 *)
ServerKept ==
  /\ UNCHANGED <<last, base>>
  /\ \/ /\ pc'["server"] = pc["server"] /\ hand'["server"] = hand["server"]
        /\ result'["server"] = result["server"]
     \/ pc["server"] = "update" /\ pc'["server"] = "wait"

LEMMA ServerKeptSteps ==
  ASSUME TypeInv,
         \/ NewMail \/ Leave \/ DontDelete \/ DeleteMessages \/ PerformAction \/ SearchLocal
         \/ \E k \in Kinds : Update(k)
         \/ \E i \in Nat : Move(i)
         \/ \E ms \in SUBSET Shown : AskDelete(ms)
  PROVE  ServerKept
<1> USE DEF mailVars, userVars, listVars, deleteVars, threadVars, ghostVars
<1>0. /\ pc \in [Kinds -> {"wait", "search", "answer", "update", "stuck"}]
      /\ hand \in [Kinds -> AnyQuery] /\ result \in [Kinds -> SomeResult]
      /\ "local" \in Kinds /\ "server" \in Kinds
  BY DEF TypeInv, ThreadInv, Kinds
<1>1. CASE NewMail \/ Leave \/ DontDelete \/ DeleteMessages \/ PerformAction
  BY <1>1 DEF NewMail, Leave, DontDelete, DeleteMessages, PerformAction, ServerKept
<1>2. CASE SearchLocal
  BY <1>0, <1>2 DEF SearchLocal, SearchStep, Finds, ServerKept
<1>3. ASSUME NEW k \in Kinds, Update(k)
      PROVE  ServerKept
  BY <1>0, <1>3 DEF Update, ServerKept
<1>4. ASSUME NEW i \in Nat, Move(i)
      PROVE  ServerKept
  BY <1>4 DEF Move, ServerKept
<1>5. ASSUME NEW ms \in SUBSET Shown, AskDelete(ms)
      PROVE  ServerKept
  BY <1>5 DEF AskDelete, ServerKept
<1> QED
  BY <1>1, <1>2, <1>3, <1>4, <1>5

LEMMA KeptLast ==
  ASSUME TypeInv, LastInv, Kept, ServerKept
  PROVE  LastInv'
<1>1. SUFFICES ASSUME Ours', ~isLocal'
               PROVE  /\ CountsNext' => HasLast' \/ Elsewhere'
                      /\ pc'["server"] = "answer" /\ Requested("server", 0)' /\ list'.offset # 0 =>
                           result'["server"] = Nothing \/ result'["server"].among = base'
  BY DEF LastInv
<1>2. /\ CountsNext => HasLast \/ Elsewhere
      /\ pc["server"] = "answer" /\ Requested("server", 0) /\ list.offset # 0 =>
           result["server"] = Nothing \/ result["server"].among = base
  BY <1>1 DEF LastInv, Kept, Ours
<1>3. /\ \A i \in 0 .. Len(queue["server"]) : Requested("server", i)' => Requested("server", i)
      /\ 0 \in 0 .. Len(queue["server"])
  <2>1. "server" \in Kinds
    BY DEF Kinds
  <2> QED
    BY <2>1, KeptRequests DEF TypeInv, ThreadInv
<1>4. HasLast => HasLast'
  BY DEF HasLast, ServerKept, Kept
<1>5. Elsewhere /\ pc'["server"] = pc["server"] => Elsewhere'
  BY <1>3 DEF Elsewhere
<1>6. CountsNext' => CountsNext
  BY <1>3 DEF CountsNext, ServerKept, Kept
<1>7. pc["server"] = "update" => ~Elsewhere
  BY DEF Elsewhere
<1> QED
  BY <1>2, <1>3, <1>4, <1>5, <1>6, <1>7 DEF ServerKept, Kept

(* A search on the server is done, or fails, or never comes back.          *)
LEMMA ServerLast ==
  ASSUME TypeInv, PageInv, LastInv, SearchServer \/ Relock \/ SearchServerFails
  PROVE  LastInv'
<1>1. SUFFICES ASSUME Ours', ~isLocal'
               PROVE  /\ CountsNext' => HasLast' \/ Elsewhere'
                      /\ pc'["server"] = "answer" /\ Requested("server", 0)' /\ list'.offset # 0 =>
                           result'["server"] = Nothing \/ result'["server"].among = base'
  BY DEF LastInv
<1>2. /\ pc["server"] = "search" /\ pc'["server"] \in {"answer", "stuck"}
      /\ UNCHANGED <<list, queue, hand, base, isLocal, ui, overtaken>>
      /\ \/ pc'["server"] = "stuck"
         \/ result'["server"] = Nothing
         \/ result'["server"].among = Among
  BY DEF SearchServer, Relock, SearchServerFails, SearchStep, Finds, Found, Result,
     TypeInv, ThreadInv, Kinds, userVars, listVars
<1>3. /\ CountsNext => HasLast \/ Elsewhere
      /\ Ours
  BY <1>1, <1>2 DEF LastInv, Ours
<1>4. "server" \in Kinds /\ 0 \in 0 .. Len(queue["server"])
  BY DEF TypeInv, ThreadInv, Kinds
<1>5. Requested("server", 0)' <=> Requested("server", 0)
  BY <1>2 DEF Requested, Request
<1>6. CASE ~Requested("server", 0)
  BY <1>2, <1>5, <1>6 DEF Elsewhere
<1>7. CASE Requested("server", 0)
  <2>1. /\ ~list.hasMore /\ hand["server"] = Query(list.search, list.offset, list.max)
        /\ \A j \in 0 .. Len(queue["server"]) : Requested("server", j) => j = 0
    BY <1>3, <1>4, <1>7 DEF PageInv, Request
  <2>2. \A j \in 0 .. Len(queue["server"]) : j # 0 /\ Requested("server", j)' => Requested("server", j)
    BY <1>2 DEF Requested, Request
  <2>3. ~CountsNext'
    BY <1>2, <2>1, <2>2 DEF CountsNext
  <2>4. list.offset # 0 => Among = base
    <3>1. SUFFICES ASSUME list.offset # 0
                   PROVE  Among = base
      OBVIOUS
    <3>2. CountsNext /\ ~Elsewhere
      BY <1>2, <1>4, <1>7, <3>1 DEF CountsNext, Elsewhere
    <3>3. last = [search |-> list.search, among |-> base]
      BY <1>3, <3>2 DEF HasLast
    <3> QED
      BY <2>1, <3>1, <3>3 DEF Among, Query
  <2> QED
    BY <1>2, <2>3, <2>4
<1> QED
  BY <1>6, <1>7

LEMMA LastPreserved ==
  ASSUME TypeInv, PageInv, ResultInv, LastInv, Next
  PROVE  LastInv'
<1> USE DEF mailVars, userVars, listVars, deleteVars, threadVars, ghostVars
<1>0. /\ "server" \in Kinds /\ "local" \in Kinds /\ 0 \in 0 .. Len(queue["server"])
      /\ pc \in [Kinds -> {"wait", "search", "answer", "update", "stuck"}]
      /\ hand \in [Kinds -> AnyQuery] /\ result \in [Kinds -> SomeResult]
      /\ queue \in [Kinds -> Seq(AnyQuery)]
  BY DEF TypeInv, ThreadInv, Kinds
<1>1. CASE Kept /\ ServerKept
  BY <1>1, KeptLast
<1>2. CASE SearchServer \/ Relock \/ SearchServerFails
  BY <1>2, ServerLast
<1> DEFINE Goal == /\ CountsNext' => HasLast' \/ Elsewhere'
                   /\ pc'["server"] = "answer" /\ Requested("server", 0)' /\ list'.offset # 0 =>
                        result'["server"] = Nothing \/ result'["server"].among = base'
<1>3. SUFFICES ASSUME Ours', ~isLocal'
               PROVE  Goal
  BY DEF LastInv
<1>4. CASE Turned /\ ServerKept
  <2>1. /\ Ours /\ list.hasMore /\ list'.search = list.search
        /\ \A j \in Kinds : \A i \in 0 .. Len(queue'[j]) :
             Requested(j, i)' <=> j = Kind /\ i = 1
    BY <1>3, <1>4, TurnedPage
  <2>2. HasLast \/ Elsewhere
    BY <1>3, <1>4, <2>1 DEF LastInv, CountsNext, Turned
  <2>3. ~Requested("server", 0)'
    <3>1. 0 \in 0 .. Len(queue'["server"])
      BY <1>0, ThreadPreserved DEF ThreadInv
    <3> QED
      BY <1>0, <2>1, <3>1
  <2>4. HasLast => HasLast'
    BY <1>4, <2>1 DEF HasLast, ServerKept
  <2>5. Elsewhere => Elsewhere'
    BY <1>4, <2>3 DEF Elsewhere, ServerKept
  <2> QED
    BY <2>2, <2>3, <2>4, <2>5
<1>5. CASE Reset
  <2>1. ~UnderWay' /\ list'.hasMore = FALSE /\ list'.offset = 0
    BY <1>5, ResetIs
  <2> QED
    BY <2>1 DEF CountsNext
<1>6. CASE Submit
  <2>1. list'.hasMore = FALSE /\ list'.offset = 0
    BY <1>3, <1>6, SubmitIs
  <2> QED
    BY <2>1 DEF CountsNext
<1>7. ASSUME NEW k \in Kinds, SearchMessage(k)
      PROVE  Goal
  BY <1>3, <1>7 DEF SearchMessage, Ours
<1>8. ASSUME NEW k \in Kinds, Take(k)
      PROVE  Goal
  <2>1. /\ UNCHANGED <<list, isLocal, ui, overtaken, base, last, result>> /\ Ours
        /\ pc[k] = "wait" /\ pc'[k] = "search"
        /\ \A j \in Kinds : j # k => pc'[j] = pc[j]
    BY <1>0, <1>3, <1>8 DEF Take, Ours
  <2>2. /\ CountsNext => HasLast \/ Elsewhere
        /\ pc["server"] = "answer" /\ Requested("server", 0) /\ list.offset # 0 =>
             result["server"] = Nothing \/ result["server"].among = base
    BY <1>3, <2>1 DEF LastInv
  <2>3. HasLast => HasLast'
    BY <2>1 DEF HasLast
  <2>4. CASE k = "server"
    <3>1. \A i \in 0 .. Len(queue'["server"]) :
            Requested("server", i)' =>
              Requested("server", i + 1) /\ i + 1 \in 0 .. Len(queue["server"]) /\ i + 1 # 0
      BY <1>8, <2>4, TakenRequest
    <3>2. CountsNext' => CountsNext
      BY <2>1, <3>1 DEF CountsNext
    <3>3. ~Elsewhere /\ pc'["server"] # "answer"
      BY <2>1, <2>4 DEF Elsewhere
    <3> QED
      BY <2>2, <2>3, <3>2, <3>3
  <2>5. CASE k # "server"
    <3>1. /\ queue'["server"] = queue["server"] /\ pc'["server"] = pc["server"]
          /\ \A i \in 0 .. Len(queue["server"]) : Requested("server", i)' <=> Requested("server", i)
      BY <1>0, <1>8, <2>1, <2>5, TakenRequest
    <3>2. CountsNext' => CountsNext
      BY <2>1, <3>1 DEF CountsNext
    <3>3. Elsewhere => Elsewhere'
      BY <1>0, <3>1 DEF Elsewhere
    <3> QED
      BY <1>0, <2>1, <2>2, <2>3, <3>1, <3>2, <3>3
  <2> QED
    BY <2>4, <2>5
<1>9. ASSUME NEW k \in Kinds, SearchHandler(k)
      PROVE  Goal
  <2>1. /\ Ours /\ Requested(k, 0) /\ k = Kind /\ hand[k] = Query(list.search, list.offset, list.max)
        /\ ~UnderWay'
        /\ list'.search = list.search /\ list'.hasMore = result[k].hasMore
    BY <1>3, <1>9, HandledPage
  <2>2. /\ UNCHANGED <<isLocal, last>> /\ pc[k] = "answer" /\ pc'[k] = "update"
        /\ base' = IF hand[k].offset = 0 THEN result[k].among ELSE base
    BY <1>0, <1>9 DEF SearchHandler
  <2>3. k = "server"
    BY <1>3, <2>1, <2>2 DEF Kind
  <2>4. CountsNext' => result["server"].hasMore
    BY <1>0, <2>1, <2>3 DEF CountsNext, UnderWay
  <2>5. ASSUME result["server"].hasMore
        PROVE  HasLast'
    <3>1. result["server"] # Nothing
      BY <2>5 DEF Nothing, Result
    <3>2. last = [search |-> hand["server"].search, among |-> result["server"].among]
      BY <2>2, <2>3, <3>1 DEF ResultInv
    <3>3. hand["server"].search = list.search /\ hand["server"].offset = list.offset
      BY <2>1, <2>3 DEF Query
    <3>4. hand["server"].offset # 0 => result["server"].among = base
      BY <1>3, <2>1, <2>2, <2>3, <3>1, <3>3 DEF LastInv
    <3>5. base' = result["server"].among
      BY <2>2, <2>3, <3>4
    <3> QED
      BY <2>1, <2>2, <3>2, <3>3, <3>5 DEF HasLast
  <2> QED
    BY <2>2, <2>3, <2>4, <2>5
<1> HIDE DEF Goal
<1>10. CASE (Kept \/ Turned) /\ ServerKept
  <2>1. LastInv' => Goal
    BY <1>3 DEF LastInv, Goal
  <2> QED
    BY <1>1, <1>4, <1>10, <2>1
<1>11. CASE SearchServer \/ Relock \/ SearchServerFails
  <2>1. LastInv' => Goal
    BY <1>3 DEF LastInv, Goal
  <2> QED
    BY <1>2, <1>11, <2>1
<1>12. \/ Reset \/ Submit
       \/ SearchServer \/ Relock \/ SearchServerFails
       \/ (Kept \/ Turned) /\ ServerKept
       \/ \E k \in Kinds : SearchMessage(k) \/ SearchHandler(k) \/ Take(k)
  <2>1. CASE \/ \E k \in Kinds : Update(k)
             \/ \E i \in Nat : Move(i)
             \/ \E ms \in SUBSET Shown : AskDelete(ms)
    BY <2>1, IndexSteps, ServerKeptSteps
  <2>2. CASE \/ NewMail \/ Leave \/ DontDelete \/ DeleteMessages \/ PerformAction \/ SearchLocal
    BY <2>2, KeptSteps, ServerKeptSteps
  <2> QED
    BY <2>1, <2>2, Steps
<1> QED
  BY <1>5, <1>6, <1>7, <1>8, <1>9, <1>10, <1>11, <1>12

-----------------------------------------------------------------------------
(* The rows stay in order.                                                 *)

(* What the list counts on.                                                *)
LEMMA CountedType ==
  ASSUME TypeInv
  PROVE  /\ mails \in Nat /\ base \in SUBSET (1 .. mails) /\ deleted \in SUBSET (1 .. mails)
         /\ list.rows \in Seq([search : Searches, mail : 1 .. mails])
         /\ list.offset \in Nat /\ list.max \in Nat /\ list.hasMore \in BOOLEAN
         /\ IsFiniteSet(base) /\ Cardinality(base) \in Nat
         /\ IsFiniteSet(deleted) /\ Cardinality(deleted) \in Nat
         /\ Len(list.rows) \in Nat
<1>1. /\ mails \in Nat /\ base \in SUBSET (1 .. mails) /\ deleted \in SUBSET (1 .. mails)
      /\ list.rows \in Seq([search : Searches, mail : 1 .. mails])
      /\ list.offset \in Nat /\ list.max \in Nat /\ list.hasMore \in BOOLEAN
  BY DEF TypeInv, StateInv, ListInv, SomeList, KnownRow, Known
<1>2. IsFiniteSet(base) /\ Cardinality(base) \in Nat
  BY <1>1, Countable
<1>3. IsFiniteSet(deleted) /\ Cardinality(deleted) \in Nat
  BY <1>1, Countable
<1> QED
  BY <1>1, <1>2, <1>3

LEMMA KeptOrder ==
  ASSUME TypeInv, OrderInv, Kept, UNCHANGED <<base, deleted, shifted, skipped>>,
         list'.rows = list.rows
  PROVE  OrderInv'
<1>1. SUFFICES ASSUME Ours', ~shifted', ~skipped'
               PROVE  /\ InOrder(list'.rows, list'.search, base' \ deleted')
                      /\ list'.hasMore \/ UnderWay' => AllCounted'
  BY DEF OrderInv
<1>2. Ours /\ list'.hasMore = list.hasMore /\ list'.search = list.search
      /\ (UnderWay' => UnderWay)
  BY <1>1, KeptRequests DEF Kept, Ours
<1>3. Counted' = Counted
  BY DEF Counted, Kept
<1>4. AllCounted => AllCounted'
  BY <1>3 DEF AllCounted
<1>5. /\ InOrder(list.rows, list.search, base \ deleted)
      /\ list.hasMore \/ UnderWay => AllCounted
  BY <1>1, <1>2 DEF OrderInv
<1> QED
  BY <1>2, <1>4, <1>5

(* The next page is asked for.                                             *)
LEMMA TurnedOrder ==
  ASSUME TypeInv, PageInv, OrderInv, Turned
  PROVE  OrderInv'
<1>1. SUFFICES ASSUME Ours', ~shifted', ~skipped'
               PROVE  /\ InOrder(list'.rows, list'.search, base' \ deleted')
                      /\ list'.hasMore \/ UnderWay' => AllCounted'
  BY DEF OrderInv
<1>2. /\ Ours /\ list.hasMore /\ list'.search = list.search /\ list'.rows = list.rows
      /\ list'.hasMore = FALSE /\ list'.offset = list.offset + list.max
  BY <1>1, TurnedPage
<1>3. UNCHANGED <<base, deleted, shifted, skipped>>
  BY DEF Turned, ghostVars
<1>4. InOrder(list.rows, list.search, base \ deleted) /\ AllCounted
  BY <1>1, <1>2, <1>3 DEF OrderInv
<1>5. Counted' = Counted
  BY <1>2 DEF Counted
<1>6. AllCounted'
  BY <1>2, <1>3, <1>4, <1>5 DEF AllCounted
<1> QED
  BY <1>2, <1>3, <1>4, <1>6

(* An empty list is in order.                                              *)
LEMMA EmptyInOrder ==
  ASSUME NEW search, NEW S
  PROVE  InOrder(<<>>, search, S)
BY DEF InOrder

(* The list is cleared, and its first page asked for.                      *)
LEMMA ClearedOrder ==
  ASSUME TypeInv, PageInv, Reset \/ Submit
  PROVE  OrderInv'
<1>1. SUFFICES ASSUME Ours'
               PROVE  /\ InOrder(list'.rows, list'.search, base' \ deleted')
                      /\ list'.hasMore \/ UnderWay' => AllCounted'
  BY DEF OrderInv
<1>2. CASE Reset
  <2>1. ~UnderWay' /\ list'.hasMore = FALSE /\ list'.rows = <<>>
    BY <1>2, ResetIs
  <2> QED
    BY <2>1, EmptyInOrder
<1>3. CASE Submit
  <2>1. /\ list'.rows = <<>> /\ base' = {} /\ deleted' = {}
        /\ list'.offset = 0 /\ list'.hasMore = FALSE
    BY <1>1, <1>3, SubmitIs
  <2>2. Counted' = 0
    BY <2>1 DEF Counted
  <2>3. Cardinality({}) = 0 /\ Len(<<>>) = 0
    BY FS_EmptySet
  <2>4. AllCounted'
    BY <2>1, <2>2, <2>3 DEF AllCounted
  <2> QED
    BY <2>1, <2>4, EmptyInOrder
<1> QED
  BY <1>2, <1>3

(* A request is taken.                                                     *)
LEMMA TakenOrder ==
  ASSUME TypeInv, OrderInv, NEW k \in Kinds, Take(k)
  PROVE  OrderInv'
<1>1. SUFFICES ASSUME Ours', ~shifted', ~skipped'
               PROVE  /\ InOrder(list'.rows, list'.search, base' \ deleted')
                      /\ list'.hasMore \/ UnderWay' => AllCounted'
  BY DEF OrderInv
<1>2. /\ UNCHANGED <<list, isLocal, ui, started, overtaken, base, deleted>>
      /\ UnderWay' => UnderWay
  BY TakeIs
<1>3. UNCHANGED <<shifted, skipped>>
  BY DEF Take, ghostVars
<1>4. Ours
  BY <1>1, <1>2 DEF Ours
<1>5. /\ InOrder(list.rows, list.search, base \ deleted)
      /\ list.hasMore \/ UnderWay => AllCounted
  BY <1>1, <1>3, <1>4 DEF OrderInv
<1>6. AllCounted => AllCounted'
  BY <1>2 DEF AllCounted, Counted
<1> QED
  BY <1>2, <1>5, <1>6

(* An answer of this search: the first page, or one that follows the rows. *)
LEMMA HandledOrder ==
  ASSUME TypeInv, PageInv, ResultInv, LastInv, OrderInv, NEW k \in Kinds, SearchHandler(k)
  PROVE  OrderInv'
<1>1. SUFFICES ASSUME Ours', ~shifted', ~skipped'
               PROVE  /\ InOrder(list'.rows, list'.search, base' \ deleted')
                      /\ list'.hasMore => AllCounted'
  <2>1. Ours' => ~UnderWay'
    BY HandledPage
  <2> QED
    BY <1>1, <2>1 DEF OrderInv
<1>2. /\ Ours /\ Requested(k, 0) /\ k = Kind /\ ~list.hasMore /\ UnderWay
      /\ hand[k] = Query(list.search, list.offset, list.max)
      /\ list'.search = list.search /\ list'.offset = list.offset
      /\ list'.max = list.max /\ list'.hasMore = result[k].hasMore
      /\ list'.rows = IF list.offset = 0 THEN result[k].rows ELSE list.rows \o result[k].rows
  BY <1>1, HandledPage
<1>3. hand[k].search = list.search /\ hand[k].offset = list.offset /\ hand[k].max = list.max
  BY <1>2 DEF Query
<1>4. /\ base' = IF list.offset = 0 THEN result[k].among ELSE base
      /\ deleted' = IF list.offset = 0 THEN {} ELSE deleted
      /\ list.offset # 0 => ~shifted /\ (k = "local" => result[k].among = base)
      /\ ~skipped /\ pc[k] = "answer"
  BY <1>1, <1>3 DEF SearchHandler
<1>5. /\ mails \in Nat /\ base \in SUBSET (1 .. mails) /\ deleted \in SUBSET (1 .. mails)
      /\ list.rows \in Seq([search : Searches, mail : 1 .. mails])
      /\ list.offset \in Nat /\ list.max \in Nat
      /\ Cardinality(base) \in Nat /\ Cardinality(deleted) \in Nat
  BY CountedType
<1>6. hand[k] \in AnyQuery /\ result[k] \in SomeResult
  BY DEF TypeInv, ThreadInv
<1>7. list.offset # 0 =>
        /\ InOrder(list.rows, list.search, base \ deleted)
        /\ list.offset <= Cardinality(base)
        /\ Len(list.rows) + Cardinality(deleted) = list.offset
        /\ \A m \in deleted : m \in base /\ Rank(base, m) < list.offset
  BY <1>2, <1>4 DEF OrderInv, AllCounted, Counted
<1>8. CASE result[k] = Nothing
  <2>1. result[k].rows = <<>> /\ result[k].hasMore = FALSE
    BY <1>8 DEF Nothing, Result
  <2>2. list.offset # 0 => list'.rows = list.rows
    BY <1>2, <1>5, <2>1
  <2> QED
    BY <1>2, <1>4, <1>7, <2>1, <2>2, EmptyInOrder
<1>9. CASE result[k] # Nothing
  <2> DEFINE A == result[k].among
             page == result[k].rows
  <2>1. result[k] = Found(hand[k], A)
    BY <1>4, <1>9 DEF ResultInv
  <2>2. /\ page = Found(hand[k], A).rows
        /\ result[k].hasMore = (Cardinality(A) > list.offset + list.max)
    BY <1>3, <2>1 DEF Found, Result
  <2>3. A \in SUBSET (1 .. mails) /\ Cardinality(A) \in Nat
    <3>1. A \in SUBSET (1 .. mails)
      BY <1>6 DEF SomeResult, Known
    <3> QED
      BY <1>5, <3>1, Countable
  <2>4. page \in Seq([search : Searches, mail : 1 .. mails])
    BY <1>6 DEF SomeResult, KnownRow, Known
  <2>5. list.offset # 0 => A = base
    <3>1. CASE k = "local"
      BY <1>4, <3>1
    <3>2. CASE k # "local"
      <4>1. k = "server" /\ ~isLocal
        BY <1>2, <3>2 DEF Kind, Kinds
      <4> QED
        BY <1>2, <1>4, <1>9, <4>1 DEF LastInv
    <3> QED
      BY <3>1, <3>2
  <2> DEFINE rows == IF list.offset = 0 THEN <<>> ELSE list.rows
             D == IF list.offset = 0 THEN {} ELSE deleted
  <2>6. /\ rows \in Seq([search : Searches, mail : 1 .. mails])
        /\ D \in SUBSET A
        /\ InOrder(rows, list.search, A \ D)
        /\ Len(rows) + Cardinality(D) = list.offset
        /\ list.offset <= Cardinality(A)
        /\ \A d \in D : d \in A /\ Rank(A, d) < list.offset
    <3>1. CASE list.offset = 0
      BY <1>5, <2>3, <3>1, EmptyInOrder, FS_EmptySet
    <3>2. CASE list.offset # 0
      BY <1>5, <1>7, <2>5, <3>2
    <3> QED
      BY <3>1, <3>2
  <2>7. list'.rows = rows \o page
    <3>1. CASE list.offset = 0
      <4>1. <<>> \o page = page
        <5> HIDE DEF page
        <5> QED
          BY <2>4
      <4> QED
        BY <1>2, <3>1, <4>1
    <3>2. CASE list.offset # 0
      BY <1>2, <3>2
    <3> QED
      BY <3>1, <3>2
  <2>8. base' = A /\ deleted' = D
    BY <1>4, <2>5
  <2> HIDE DEF A, page, rows, D
  <2>9. /\ InOrder(rows \o page, list.search, A \ D)
        /\ list.offset + list.max < Cardinality(A) =>
             Len(rows \o page) + Cardinality(D) = list.offset + list.max
    <3>1. PICK query \in AnyQuery : query = hand[k]
      BY <1>6
    <3>2. /\ query.search = list.search /\ query.offset = list.offset
          /\ query.max = list.max /\ page = Found(query, A).rows
      BY <1>3, <2>2, <3>1
    <3>3. /\ InOrder(rows, query.search, A \ D)
          /\ Len(rows) + Cardinality(D) = query.offset
          /\ query.offset <= Cardinality(A)
          /\ \A d \in D : Rank(A, d) < query.offset
      BY <2>6, <3>2
    <3>4. /\ mails \in Nat /\ A \in SUBSET (1 .. mails) /\ D \in SUBSET A
          /\ rows \in Seq([search : Searches, mail : 1 .. mails])
          /\ page = Found(query, A).rows
      BY <1>5, <2>3, <2>6, <3>2
    <3>5. InOrder(rows \o page, query.search, A \ D)
      BY <3>3, <3>4, PageFollows
    <3>6. query.offset + query.max < Cardinality(A) =>
            Len(rows \o page) + Cardinality(D) = query.offset + query.max
      BY <3>3, <3>4, PageFollows
    <3> QED
      BY <3>2, <3>5, <3>6
  <2>10. InOrder(list'.rows, list'.search, base' \ deleted')
    BY <1>2, <2>7, <2>8, <2>9
  <2>11. ASSUME list'.hasMore
         PROVE  AllCounted'
    <3>1. Cardinality(A) > list.offset + list.max
      BY <1>2, <2>2, <2>11
    <3>2. Counted' = list.offset + list.max
      BY <1>2, <2>11 DEF Counted
    <3>3. Counted' <= Cardinality(base')
      BY <1>5, <2>3, <2>8, <3>1, <3>2
    <3>4. Len(list'.rows) + Cardinality(deleted') = Counted'
      BY <1>5, <2>3, <2>7, <2>8, <2>9, <3>1, <3>2
    <3>5. ASSUME NEW m \in D
          PROVE  m \in A /\ Rank(A, m) < list.offset + list.max
      <4>1. m \in A /\ Rank(A, m) < list.offset
        BY <2>6, <3>5
      <4>2. Rank(A, m) \in Nat
        BY <1>5, <2>3, <4>1, Ranks
      <4> QED
        BY <1>5, <4>1, <4>2
    <3>6. \A m \in deleted' : m \in base' /\ Rank(base', m) < Counted'
      BY <2>8, <3>2, <3>5
    <3> QED
      BY <3>3, <3>4, <3>6 DEF AllCounted
  <2> QED
    BY <2>10, <2>11
<1> QED
  BY <1>8, <1>9

(* The rows of deleted mails are erased.                                   *)
LEMMA ErasedOrder ==
  ASSUME TypeInv, OrderInv, DeleteMessages
  PROVE  OrderInv'
<1> DEFINE ms == IF selected = {} THEN {current} ELSE selected
           left == Erased(list.rows, ms)
           D == ms \cap Shown
<1>1. SUFFICES ASSUME Ours', ~shifted', ~skipped'
               PROVE  /\ InOrder(list'.rows, list'.search, base' \ deleted')
                      /\ list'.hasMore \/ UnderWay' => AllCounted'
  BY DEF OrderInv
<1>2. /\ list' = [list EXCEPT !.rows = left]
      /\ deleted' = deleted \cup D
      /\ ~skipped /\ \A i \in DOMAIN left : left[i].mail \notin ms
      /\ UNCHANGED <<base, shifted, overtaken>>
      /\ ui = "confirm"
  BY <1>1 DEF DeleteMessages
<1>3. /\ list'.rows = left /\ list'.search = list.search /\ list'.hasMore = list.hasMore
      /\ list'.offset = list.offset /\ list'.max = list.max
  BY <1>2 DEF TypeInv, ListInv, SomeList
<1>4. /\ Ours /\ Kept
  BY <1>1, <1>2, KeptSteps DEF Ours
<1>5. /\ mails \in Nat /\ base \in SUBSET (1 .. mails) /\ deleted \in SUBSET (1 .. mails)
      /\ list.rows \in Seq([search : Searches, mail : 1 .. mails])
      /\ list.offset \in Nat /\ list.max \in Nat /\ list.hasMore \in BOOLEAN
      /\ IsFiniteSet(base) /\ Cardinality(base) \in Nat
      /\ IsFiniteSet(deleted) /\ Cardinality(deleted) \in Nat
      /\ Len(list.rows) \in Nat
  BY CountedType
<1>6. /\ InOrder(list.rows, list.search, base \ deleted)
      /\ list.hasMore \/ UnderWay => AllCounted
  BY <1>1, <1>2, <1>4 DEF OrderInv
<1>7. /\ D \in SUBSET (base \ deleted)
      /\ InOrder(left, list.search, (base \ deleted) \ D)
      /\ Len(left) + Cardinality(D) = Len(list.rows)
  <2>1. left \in Seq([search : Searches, mail : 1 .. mails]) /\ \E K : Keeps(list.rows, ms, left, K)
    <3> HIDE DEF ms
    <3> QED
      BY <1>5, ErasedIs
  <2>2. PICK K : Keeps(list.rows, ms, left, K)
    BY <2>1
  <2>3. \A x \in 1 .. Len(left) : left[x].mail \notin ms
    <3> HIDE DEF ms, left
    <3> QED
      BY <1>2, <2>1
  <2>4. D = ms \cap {list.rows[i].mail : i \in DOMAIN list.rows}
    BY DEF Shown
  <2>5. base \ deleted \in SUBSET (1 .. mails)
    BY <1>5
  <2> HIDE DEF ms, left, D
  <2> DEFINE S == base \ deleted
  <2>6. S \in SUBSET (1 .. mails) /\ InOrder(list.rows, list.search, S)
    BY <1>6, <2>5
  <2> HIDE DEF S
  <2>7. mails \in Nat /\ list.rows \in Seq([search : Searches, mail : 1 .. mails])
    BY <1>5
  <2>8. Erasing(mails, S, list.search, ms, list.rows, left, K, D)
    BY <2>2, <2>3, <2>4, <2>6, <2>7 DEF Erasing
  <2>9. /\ Len(left) + Cardinality(D) = Len(list.rows)
        /\ D \in SUBSET S
        /\ InOrder(left, list.search, S \ D)
    BY <2>8, ErasedInOrder
  <2> QED
    BY <2>9 DEF S
<1> HIDE DEF left
<1>8. InOrder(list'.rows, list'.search, base' \ deleted')
  <2> HIDE DEF D
  <2>1. (base \ deleted) \ D = base' \ deleted'
    BY <1>2
  <2> QED
    BY <1>3, <1>7, <2>1
<1>9. ASSUME list'.hasMore \/ UnderWay'
      PROVE  AllCounted'
  <2>1. AllCounted
    BY <1>3, <1>4, <1>6, <1>9, KeptRequests
  <2>2. Counted' = Counted /\ Counted \in Nat
    BY <1>3, <1>5 DEF Counted
  <2>3. \A m \in D : \E i \in 1 .. Len(list.rows) : m = list.rows[i].mail
    BY <1>5 DEF Shown
  <2> HIDE DEF D, ms
  <2>4. IsFiniteSet(D) /\ Cardinality(D) \in Nat
    <3>1. D \in SUBSET (1 .. mails)
      BY <1>5, <1>7
    <3> QED
      BY <1>5, <3>1, Countable
  <2>5. Cardinality(deleted \cup D) = Cardinality(deleted) + Cardinality(D)
    <3>1. deleted \cap D = {}
      BY <1>7
    <3>2. Cardinality(deleted \cup D) =
            Cardinality(deleted) + Cardinality(D) - Cardinality(deleted \cap D)
      BY <1>5, <2>4, FS_Union
    <3>3. Cardinality(deleted \cap D) = 0
      BY <3>1, FS_EmptySet
    <3> QED
      BY <1>5, <2>4, <3>2, <3>3
  <2>6. ASSUME NEW m \in D
        PROVE  m \in base /\ Rank(base, m) < Counted
    <3>1. m \in base \ deleted
      BY <1>7, <2>6
    <3>2. PICK i \in 1 .. Len(list.rows) : m = list.rows[i].mail
      BY <2>3, <2>6
    <3>3. Rank(base \ deleted, m) = i - 1
      BY <1>6, <3>2 DEF InOrder
    <3>4. deleted \in SUBSET base
      BY <2>1 DEF AllCounted
    <3>5. Rank(base, m) <= Rank(base \ deleted, m) + Cardinality(deleted)
      BY <1>5, <3>1, <3>4, RankWithout
    <3>6. Len(list.rows) + Cardinality(deleted) = Counted
      BY <2>1 DEF AllCounted
    <3>7. Rank(base, m) \in Nat
      BY <1>5, <3>1, Ranks
    <3> QED
      BY <1>5, <2>2, <3>1, <3>3, <3>5, <3>6, <3>7
  <2>7. Counted' <= Cardinality(base')
    BY <1>2, <2>1, <2>2 DEF AllCounted
  <2>8. Len(list'.rows) + Cardinality(deleted') = Counted'
    <3>1. Len(list.rows) + Cardinality(deleted) = Counted
      BY <2>1 DEF AllCounted
    <3>2. Len(left) \in Nat
      <4>1. left \in Seq([search : Searches, mail : 1 .. mails])
        BY <1>5, ErasedIs DEF left
      <4> QED
        BY <4>1
    <3> QED
      BY <1>2, <1>3, <1>5, <1>7, <2>2, <2>4, <2>5, <3>1, <3>2
  <2>9. \A m \in deleted' : m \in base' /\ Rank(base', m) < Counted'
    BY <1>2, <2>1, <2>2, <2>6 DEF AllCounted
  <2> QED
    BY <2>7, <2>8, <2>9 DEF AllCounted
<1> QED
  BY <1>8, <1>9

LEMMA OrderPreserved ==
  ASSUME TypeInv, PageInv, ResultInv, LastInv, OrderInv, Next
  PROVE  OrderInv'
<1> USE DEF mailVars, userVars, listVars, deleteVars, threadVars, ghostVars
<1>1. CASE \/ NewMail \/ Leave \/ DontDelete \/ PerformAction
           \/ SearchLocal \/ SearchServer \/ Relock \/ SearchServerFails
  <2>1. UNCHANGED <<list, base, deleted, shifted, skipped>>
    BY <1>1 DEF NewMail, Leave, DontDelete, PerformAction,
       SearchLocal, SearchServer, Relock, SearchServerFails, SearchStep
  <2>2. Kept
    BY <1>1, KeptSteps
  <2> QED
    BY <2>1, <2>2, KeptOrder
<1>2. CASE \/ \E k \in Kinds : Update(k)
           \/ \E i \in Nat : Move(i)
           \/ \E ms \in SUBSET Shown : AskDelete(ms)
  <2>1. UNCHANGED <<base, deleted, shifted, skipped>>
    BY <1>2 DEF Update, Move, AskDelete
  <2>2. (Kept /\ UNCHANGED list) \/ Turned
    BY <1>2, IndexSteps
  <2> QED
    BY <2>1, <2>2, KeptOrder, TurnedOrder
<1>3. ASSUME NEW k \in Kinds, SearchMessage(k)
      PROVE  OrderInv'
  BY <1>3 DEF SearchMessage, OrderInv, Ours
<1> QED
  BY <1>1, <1>2, <1>3, Steps, ClearedOrder, TakenOrder, HandledOrder, ErasedOrder

-----------------------------------------------------------------------------
(* The prompt stays about the row that the user saw.                       *)

LEMMA PromptPreserved ==
  ASSUME TypeInv, PageInv, PromptInv, Next
  PROVE  PromptInv'
<1> USE DEF mailVars, userVars, listVars, deleteVars, threadVars, ghostVars
<1>0. /\ list \in SomeList /\ index \in Nat /\ Len(list.rows) \in Nat
      /\ list.rows \in Seq(KnownRow)
  BY DEF TypeInv, StateInv, ListInv, SomeList
<1>1. CASE \/ NewMail \/ PerformAction
           \/ SearchLocal \/ SearchServer \/ Relock \/ SearchServerFails
           \/ \E k \in Kinds : Take(k)
  <2>1. UNCHANGED <<ui, selected, asked, overtaken, index, list, current>>
    BY <1>1 DEF NewMail, PerformAction, SearchLocal, SearchServer, Relock,
       SearchServerFails, SearchStep, Take
  <2> QED
    BY <2>1 DEF PromptInv
<1>2. CASE \/ Leave \/ DeleteMessages \/ DontDelete \/ Reset \/ Submit
           \/ \E k \in Kinds : SearchMessage(k)
           \/ \E i \in Nat : Move(i)
  <2>1. ui' # "confirm"
    BY <1>2 DEF Leave, DeleteMessages, DontDelete, Reset, Submit, SearchMessage, Move
  <2> QED
    BY <2>1 DEF PromptInv
<1>3. ASSUME NEW ms \in SUBSET Shown, AskDelete(ms)
      PROVE  PromptInv'
  <2>1. /\ selected' = ms
        /\ asked' = IF ms # {} THEN ms ELSE IF list.rows = <<>> THEN {} ELSE {current'}
        /\ UpdateUidFromIndex(index)
    BY <1>3 DEF AskDelete
  <2>2. /\ list.rows # <<>> => index' < Len(list.rows)
        /\ current' = IF list.rows = <<>> THEN current ELSE list.rows[index' + 1].mail
    BY <1>0, <2>1, UpdateIs
  <2>3. list'.rows = list.rows
    BY <1>0, <2>1, UpdateType
  <2> QED
    BY <2>1, <2>2, <2>3 DEF PromptInv
<1>4. ASSUME NEW k \in Kinds, Update(k)
      PROVE  PromptInv'
  <2>1. /\ UNCHANGED <<ui, selected, asked, overtaken>>
        /\ UpdateUidFromIndex(index) \/ UNCHANGED <<list, index, current>>
    BY <1>4 DEF Update
  <2>2. CASE UNCHANGED <<list, index, current>>
    BY <2>1, <2>2 DEF PromptInv
  <2>3. CASE UpdateUidFromIndex(index)
    <3>1. /\ index < Len(list.rows) => index' = index
          /\ current' = IF list.rows = <<>> THEN current ELSE list.rows[index' + 1].mail
          /\ list'.rows = list.rows
      BY <1>0, <2>3, UpdateIs, UpdateType
    <3>2. index < Len(list.rows) => list.rows # <<>>
      BY <1>0
    <3> QED
      BY <2>1, <3>1, <3>2 DEF PromptInv
  <2> QED
    BY <2>1, <2>2, <2>3
<1>5. ASSUME NEW k \in Kinds, SearchHandler(k)
      PROVE  PromptInv'
  <2>1. /\ UNCHANGED <<ui, selected, asked, index, current>>
        /\ ~overtaken' => ~overtaken
    BY <1>5 DEF SearchHandler
  <2>2. SUFFICES ASSUME ui = "confirm", selected = {}, asked # {}, ~overtaken'
                 PROVE  /\ index < Len(list'.rows)
                        /\ current = list'.rows[index + 1].mail
                        /\ asked = {current}
    BY <2>1 DEF PromptInv
  <2>3. index < Len(list.rows) /\ current = list.rows[index + 1].mail /\ asked = {current}
    BY <2>1, <2>2 DEF PromptInv
  <2>4. Ours /\ Ours'
    BY <2>1, <2>2 DEF Ours
  <2>5. /\ UnderWay
        /\ list'.rows = IF list.offset = 0 THEN result[k].rows
                        ELSE list.rows \o result[k].rows
    BY <1>5, <2>4, HandledPage
  <2>6. list.offset # 0
    <3>1. list.offset = 0 => list.rows = <<>>
      BY <2>4, <2>5 DEF PageInv
    <3> QED
      BY <1>0, <2>3, <3>1
  <2>7. result[k].rows \in Seq(KnownRow)
    BY DEF TypeInv, ThreadInv, SomeResult
  <2>8. /\ Len(list'.rows) = Len(list.rows) + Len(result[k].rows)
        /\ Len(result[k].rows) \in Nat
        /\ \A i \in 1 .. Len(list.rows) : list'.rows[i] = list.rows[i]
    <3> DEFINE page == result[k].rows
               rows == list.rows
    <3>1. page \in Seq(KnownRow) /\ rows \in Seq(KnownRow) /\ list'.rows = rows \o page
      BY <1>0, <2>5, <2>6, <2>7
    <3> HIDE DEF page, rows
    <3>2. /\ Len(rows \o page) = Len(rows) + Len(page) /\ Len(page) \in Nat
          /\ \A i \in 1 .. Len(rows) : (rows \o page)[i] = rows[i]
      BY <3>1
    <3> QED
      BY <3>1, <3>2 DEF page, rows
  <2>9. index + 1 \in 1 .. Len(list.rows)
    BY <1>0, <2>3
  <2>10. list'.rows[index + 1] = list.rows[index + 1]
    BY <2>8, <2>9
  <2>11. index < Len(list'.rows)
    <3> DEFINE n == Len(list.rows)
               more == Len(result[k].rows)
    <3>1. n \in Nat /\ more \in Nat /\ index \in Nat /\ index < n
          /\ Len(list'.rows) = n + more
      BY <1>0, <2>3, <2>8
    <3> HIDE DEF n, more
    <3> QED
      BY <3>1
  <2> QED
    BY <2>3, <2>10, <2>11
<1> QED
  BY <1>1, <1>2, <1>3, <1>4, <1>5, Steps

-----------------------------------------------------------------------------

LEMMA InitListOrder == Init => ListOrderInv
<1> SUFFICES ASSUME Init
             PROVE  ListOrderInv
  OBVIOUS
<1>1. /\ ui = "idle" /\ isLocal = TRUE /\ list.hasMore = FALSE /\ list.rows = <<>>
      /\ \A k \in Kinds : queue[k] = <<>> /\ pc[k] = "wait"
  BY DEF Init, NewList
<1>2. ASSUME NEW k \in Kinds, NEW i \in 0 .. Len(queue[k])
      PROVE  ~Requested(k, i)
  BY <1>1, <1>2 DEF Requested
<1>3. ~UnderWay
  BY <1>2 DEF UnderWay
<1>4. PageInv
  BY <1>1, <1>2, <1>3 DEF PageInv
<1>5. ResultInv
  BY <1>1 DEF ResultInv, Kinds
<1>6. LastInv
  BY <1>1 DEF LastInv
<1>7. OrderInv
  BY <1>1, <1>3, EmptyInOrder DEF OrderInv
<1>8. PromptInv
  BY <1>1 DEF PromptInv
<1> QED
  BY <1>4, <1>5, <1>6, <1>7, <1>8 DEF ListOrderInv

LEMMA ListOrderPreserved ==
  ASSUME TypeInv, ListOrderInv, [Next]_vars
  PROVE  ListOrderInv'
<1>1. CASE Next
  BY <1>1, PagePreserved, ResultPreserved, LastPreserved, OrderPreserved, PromptPreserved
  DEF ListOrderInv
<1>2. CASE UNCHANGED vars
  <2> USE <1>2 DEF ListOrderInv, vars, mailVars, userVars, listVars, deleteVars, threadVars,
                   ghostVars
  <2>3. PageInv'
    BY DEF PageInv, Ours, Kind, UnderWay, Requested, Request
  <2>4. ResultInv'
    BY DEF ResultInv
  <2>5. LastInv'
    BY DEF LastInv, Ours, CountsNext, HasLast, Elsewhere, Requested, Request
  <2>6. OrderInv'
    BY DEF OrderInv, AllCounted, Counted, Ours, UnderWay, Requested, Request
  <2>7. PromptInv'
    BY DEF PromptInv
  <2> QED
    BY <2>3, <2>4, <2>5, <2>6, <2>7
<1> QED
  BY <1>1, <1>2

(* As long as no answer of an earlier search has come in, no page was      *)
(* counted among other mails, and no deleted mail was left in the list, it *)
(* has the newest mails that the search has found, without those deleted.  *)
THEOREM RowsStayInOrder == Spec => []RowsInOrder
<1>1. TypeInv /\ OrderInv => RowsInOrder
  <2>1. SUFFICES ASSUME TypeInv, OrderInv, Ours, ~shifted, ~skipped
                 PROVE  list.rows =
                          RowsOf(list.search, SubSeq(Newest(base \ deleted), 1, Len(list.rows)))
    BY DEF RowsInOrder, Ours
  <2>2. InOrder(list.rows, list.search, base \ deleted)
    BY <2>1 DEF OrderInv
  <2>3. /\ mails \in Nat /\ base \ deleted \in SUBSET (1 .. mails)
        /\ list.rows \in Seq([search : Searches, mail : 1 .. mails])
    BY <2>1, CountedType
  <2>4. list.search \in Searches
    BY <2>1 DEF TypeInv, ListInv, SomeList
  <2> QED
    BY <2>2, <2>3, <2>4, InOrderIs
<1>2. Init => TypeInv /\ ListOrderInv
  BY InitTypeInv, InitListOrder
<1>3. TypeInv /\ ListOrderInv /\ [Next]_vars => TypeInv' /\ ListOrderInv'
  BY TypeInvPreserved, ListOrderPreserved
<1>4. ListOrderInv => OrderInv
  BY DEF ListOrderInv
<1> QED
  BY <1>1, <1>2, <1>3, <1>4, PTL DEF Spec

(* What is deleted is what the user saw selected, or under the cursor, when*)
(* asked: no page that comes in while the prompt is open changes what the  *)
(* answer is about.                                                        *)
THEOREM DeletesOnlyAsAsked == Spec => DeletesAsAsked
<1> USE DEF mailVars, userVars, listVars, deleteVars, threadVars, ghostVars
<1>1. ASSUME TypeInv, PromptInv, [Next]_vars
      PROVE  [deleting' \ deleting \subseteq asked \/ asked = {} \/ overtaken]_vars
  <2>1. CASE DeleteMessages
    <3>1. /\ ui = "confirm"
          /\ deleting' = deleting \cup (IF selected = {} THEN {current} ELSE selected)
      BY <2>1 DEF DeleteMessages
    <3>2. /\ selected # {} => asked = selected
          /\ selected = {} /\ asked # {} /\ ~overtaken => asked = {current}
      BY <1>1, <3>1 DEF PromptInv
    <3> QED
      BY <3>1, <3>2
  <2>2. CASE deleting' \subseteq deleting
    BY <2>2
  <2>3. CASE UNCHANGED vars
    BY <2>3 DEF vars
  <2>4. Next => DeleteMessages \/ deleting' \subseteq deleting
    BY Steps DEF NewMail, Leave, DontDelete, Reset, Submit, SearchLocal, SearchServer, Relock,
       SearchServerFails, SearchStep, PerformAction, SearchMessage, Take, SearchHandler,
       Update, Move, AskDelete
  <2> QED
    BY <1>1, <2>1, <2>2, <2>3, <2>4
<1>2. Init => TypeInv /\ ListOrderInv
  BY InitTypeInv, InitListOrder
<1>3. TypeInv /\ ListOrderInv /\ [Next]_vars => TypeInv' /\ ListOrderInv'
  BY TypeInvPreserved, ListOrderPreserved
<1>4. ListOrderInv => PromptInv
  BY DEF ListOrderInv
<1>5. Spec => [](TypeInv /\ ListOrderInv)
  BY <1>2, <1>3, PTL DEF Spec
<1> QED
  BY <1>1, <1>4, <1>5, PTL DEF Spec, DeletesAsAsked
===============================================================================
