-------------------------- MODULE CustomTableProofs --------------------------
(***************************************************************************)
(* Proofs about CustomTable, for any filters, columns, page sizes, pages   *)
(* and number of overlapping requests.                                     *)
(***************************************************************************)
EXTENDS CustomTable, TLAPS

(* The timer runs only while the table is mounted.                         *)
TimerIsOfTable == phase # "mounted" => pending = None

(* A table that is not yet mounted has asked for nothing.                  *)
NewIsIdle == phase = "new" => ~isBusy

TableInv == TypeOK /\ SpinnerIsWaiting /\ TimerIsOfTable /\ NewIsIdle

-----------------------------------------------------------------------------
(* What is in a slot, if anything, is a request for a query.               *)
LEMMA RequestFacts ==
    ASSUME NEW kind \in {"page", "reset", "refresh"}, NEW q \in Queries,
           NEW token \in Tokens, NEW n \in Nat, NEW max \in Nat
    PROVE  /\ Request(kind, q, token, n, max) \in Requests
           /\ Request(kind, q, token, n, max) # None
           /\ Request(kind, q, token, n, max).query = q
BY NoneAssumption DEF Request, Requests

(* The token a reload sends is one of those the table has been given.      *)
LEMMA TokenAtType ==
    ASSUME tokenList \in Seq(Tokens), NEW n \in Nat
    PROVE  TokenAt(n) \in Tokens
BY DEF TokenAt, Tokens

(* A page component answers with a token of the query it is asked for.     *)
LEMMA NextTokenType ==
    ASSUME NEW r \in Requests
    PROVE  NextToken(r) \in Tokens
<1>1. r.query \in Queries /\ r.token \in Tokens
  BY DEF Requests
<1>2. r.token.page \in Nat
  BY <1>1 DEF Tokens, First
<1>3. LastPage[r.query] \in Nat
  BY <1>1, TableAssumption
<1>4. r.token.page + 1 \in Nat \ {0}
  BY <1>2
<1> QED
  BY <1>1, <1>2, <1>3, <1>4 DEF NextToken, Tokens

(* Sending keeps the types, and leaves somebody to stop the spinner.       *)
LEMMA SendKeeps ==
    ASSUME TypeOK, NEW s \in Slots, NEW r \in Requests, Send(s, r)
    PROVE  /\ query' \in Queries /\ isBusy' \in BOOLEAN
           /\ flight' \in [Slots -> Requests \cup {None}]
           /\ ~Idle'
<1>1. r # None /\ r.query \in Queries
  BY NoneAssumption DEF Requests
<1>2. flight' = [flight EXCEPT ![s] = r] /\ flight'[s] = r
  BY DEF Send, TypeOK
<1>3. ~Idle'
  BY <1>1, <1>2 DEF Idle
<1> QED
  BY <1>1, <1>2, <1>3 DEF Send, TypeOK

-----------------------------------------------------------------------------
LEMMA InitInv == Init => TableInv
<1> SUFFICES ASSUME Init PROVE TableInv
  OBVIOUS
<1>1. query \in Queries
  BY TableAssumption DEF Init, Queries
<1>2. First \in Tokens /\ <<First>> \in Seq(Tokens) /\ Len(<<First>>) > 0
  BY DEF Tokens
<1>3. TypeOK
  BY <1>1, <1>2, TableAssumption DEF Init, TypeOK
<1> QED
  BY <1>3 DEF Init, TableInv, SpinnerIsWaiting, TimerIsOfTable, NewIsIdle

(* What every action that sends does, whatever it sends.                   *)
LEMMA SendingKeepsInv ==
    ASSUME TableInv, NEW s \in Slots, NEW r \in Requests, Send(s, r), UNCHANGED paging,
           phase' = "mounted", typed' = typed, pending' \in {pending, None},
           orderly' \in BOOLEAN
    PROVE  TableInv'
<1>1. /\ query' \in Queries /\ isBusy' \in BOOLEAN
      /\ flight' \in [Slots -> Requests \cup {None}]
      /\ ~Idle'
  BY SendKeeps DEF TableInv
<1>2. TypeOK'
  BY <1>1 DEF TableInv, TypeOK, paging
<1> QED
  BY <1>1, <1>2 DEF TableInv, SpinnerIsWaiting, TimerIsOfTable, NewIsIdle

(* What comes to rest in a slot keeps the types and the spinner honest.    *)
LEMMA LandingKeeps ==
    ASSUME TableInv, NEW s \in Slots, Land(s)
    PROVE  /\ flight' \in [Slots -> Requests \cup {None}]
           /\ isBusy' \in BOOLEAN
           /\ SpinnerIsWaiting' /\ TimerIsOfTable' /\ NewIsIdle'
<1>1. flight' \in [Slots -> Requests \cup {None}]
  BY DEF Land, TableInv, TypeOK
<1>2. isBusy' \in BOOLEAN /\ NewIsIdle' /\ TimerIsOfTable'
  BY DEF Land, Mounted, TableInv, TypeOK, NewIsIdle, TimerIsOfTable, typing
<1>3. SpinnerIsWaiting'
  BY DEF Land, Mounted, SpinnerIsWaiting
<1> QED
  BY <1>1, <1>2, <1>3

(* The answer, by the kind of the request.                                 *)
LEMMA AnswerKeepsInv ==
    ASSUME TableInv, NEW s \in Slots, Answer(s)
    PROVE  TableInv'
<1> DEFINE r == flight[s]
           token == NextToken(r)
<1>1. r \in Requests /\ Land(s)
  BY DEF Answer, TableInv, TypeOK
<1>2. token \in Tokens
  BY <1>1, NextTokenType
<1>3. r.page \in Nat /\ r.max \in Nat /\ r.query \in Queries /\ r.token.page \in Nat
  BY <1>1 DEF Requests, Tokens, First
<1>4. /\ tokenList \in Seq(Tokens) /\ Len(tokenList) > 0
      /\ currentPage \in Nat /\ maxPageIndex \in Nat /\ First \in Tokens
  BY DEF TableInv, TypeOK, Tokens
<1> HIDE DEF r, token
<1>5. /\ tokenList' \in Seq(Tokens) /\ Len(tokenList') > 0
      /\ currentPage' \in Nat /\ maxPageIndex' \in Nat
  <2>1. CASE ContinuePage(r, token)
    <3>1. Append(tokenList, token) \in Seq(Tokens) /\ Len(Append(tokenList, token)) > 0
      BY <1>2, <1>4
    <3> QED
      BY <2>1, <3>1, <1>3, <1>4 DEF ContinuePage, Mounted
  <2>2. CASE ContinueReset(token)
    <3>1. /\ <<First, token>> \in Seq(Tokens) /\ Len(<<First, token>>) > 0
          /\ <<First>> \in Seq(Tokens) /\ Len(<<First>>) > 0
      BY <1>2, <1>4
    <3>2. Unbounded \in Nat
      BY TableAssumption
    <3> QED
      BY <2>2, <3>1, <3>2, <1>4 DEF ContinueReset, Mounted
  <2>3. CASE UNCHANGED <<tokenList, currentPage, maxPageIndex>>
    BY <2>3, <1>4
  <2> QED
    BY <2>1, <2>2, <2>3 DEF Answer, r, token
<1>6. shown' \in [query : Queries, page : Nat] \cup {None}
  BY <1>3 DEF Answer, Mounted, TableInv, TypeOK, r
<1>7. /\ flight' \in [Slots -> Requests \cup {None}]
      /\ isBusy' \in BOOLEAN
      /\ SpinnerIsWaiting' /\ TimerIsOfTable' /\ NewIsIdle'
  BY <1>1, LandingKeeps
<1>8. /\ phase' = phase /\ query' = query /\ typed' = typed /\ pending' = pending
      /\ orderly' = orderly
  BY <1>1 DEF Answer, Land, typing
<1>9. TypeOK'
  BY <1>5, <1>6, <1>7, <1>8 DEF TableInv, TypeOK
<1> QED
  BY <1>7, <1>9 DEF TableInv

(* The page a handler asks for.                                            *)
LEMMA GoToKeepsInv ==
    ASSUME TableInv, NEW s \in Slots, NEW n \in Nat, GoTo(s, n),
           phase' = "mounted", UNCHANGED typing
    PROVE  TableInv'
<1> DEFINE r == Request("page", query, TokenAt(n), n, maxPageIndex)
<1>1. TokenAt(n) \in Tokens
  BY TokenAtType DEF TableInv, TypeOK
<1>2. r \in Requests
  BY <1>1, RequestFacts DEF TableInv, TypeOK
<1>3. Send(s, r) /\ UNCHANGED paging /\ orderly' \in BOOLEAN
  BY DEF GoTo, TableInv, TypeOK, Idle
<1> QED
  BY <1>2, <1>3, SendingKeepsInv DEF typing

(* A reload of another kind, for a query of the header's making.           *)
LEMMA ReloadKeepsInv ==
    ASSUME TableInv, NEW s \in Slots, NEW kind \in {"reset", "refresh"}, NEW q \in Queries,
           NEW token \in Tokens, Send(s, Request(kind, q, token, 0, 0)), UNCHANGED paging,
           phase' = "mounted", typed' = typed, pending' \in {pending, None},
           orderly' \in BOOLEAN
    PROVE  TableInv'
<1>1. Request(kind, q, token, 0, 0) \in Requests
  BY RequestFacts
<1> QED
  BY <1>1, SendingKeepsInv

-----------------------------------------------------------------------------
LEMMA NextInv == TableInv /\ [Next]_vars => TableInv'
<1> SUFFICES ASSUME TableInv, [Next]_vars PROVE TableInv'
  OBVIOUS
<1> USE DEF TableInv
<1>0. /\ query \in Queries /\ currentPage \in Nat /\ maxPageIndex \in Nat
      /\ TokenAt(currentPage) \in Tokens /\ First \in Tokens
      /\ (orderly /\ Idle) \in BOOLEAN
  BY TokenAtType DEF TypeOK, Tokens, Idle
<1>1. ASSUME NEW s \in Slots, Mount(s) PROVE TableInv'
  BY <1>1, GoToKeepsInv DEF Mount
<1>2. ASSUME NEW s \in Slots, NextPage(s) PROVE TableInv'
  <2>1. currentPage + 1 \in Nat
    BY <1>0
  <2> QED
    BY <1>2, <2>1, GoToKeepsInv DEF NextPage
<1>3. ASSUME NEW s \in Slots, PreviousPage(s) PROVE TableInv'
  <2> DEFINE n == IF currentPage - 1 < maxPageIndex THEN currentPage - 1 ELSE maxPageIndex
  <2>1. n \in Nat
    BY <1>0, <1>3 DEF PreviousPage
  <2> QED
    BY <1>3, <2>1, GoToKeepsInv DEF PreviousPage
<1>4. ASSUME NEW s \in Slots, Refresh(s) PROVE TableInv'
  BY <1>0, <1>4, ReloadKeepsInv DEF Refresh, typing
<1>5. ASSUME NEW s \in Slots, NEW k \in SortKeys, RequestSort(s, k) PROVE TableInv'
  <2> DEFINE q == [query EXCEPT !.sortBy = k, !.asc = (query.sortBy = k => ~query.asc)]
  <2>1. q \in Queries
    BY <1>0 DEF Queries
  <2> QED
    BY <1>0, <1>5, <2>1, ReloadKeepsInv DEF RequestSort, typing
<1>6. ASSUME NEW s \in Slots, NEW n \in PageSizes, RequestRowsPerPage(s, n) PROVE TableInv'
  <2>1. [query EXCEPT !.size = n] \in Queries
    BY <1>0 DEF Queries
  <2> QED
    BY <1>0, <1>6, <2>1, ReloadKeepsInv DEF RequestRowsPerPage, typing
<1>7. ASSUME NEW s \in Slots, RequestFilter(s) PROVE TableInv'
  <2>1. pending \in Filters /\ phase = "mounted"
    BY <1>7 DEF RequestFilter, TimerIsOfTable, TypeOK
  <2>2. [query EXCEPT !.filter = pending] \in Queries
    BY <1>0, <2>1 DEF Queries
  <2>3. (orderly /\ Idle /\ currentPage = 0) \in BOOLEAN
    OBVIOUS
  <2> QED
    BY <1>0, <1>7, <2>1, <2>2, <2>3, ReloadKeepsInv DEF RequestFilter
<1>8. ASSUME NEW s \in Slots, Answer(s) PROVE TableInv'
  BY <1>8, AnswerKeepsInv
<1>9. ASSUME NEW s \in Slots, Fail(s) PROVE TableInv'
  <2>1. /\ flight' \in [Slots -> Requests \cup {None}] /\ isBusy' \in BOOLEAN
        /\ SpinnerIsWaiting' /\ TimerIsOfTable' /\ NewIsIdle'
    BY <1>9, LandingKeeps DEF Fail
  <2>2. TypeOK'
    BY <1>9, <2>1 DEF Fail, Land, TypeOK, paging, typing
  <2> QED
    BY <2>1, <2>2
<1>10. ASSUME NEW f \in Filters, TypeFilter(f) PROVE TableInv'
  BY <1>10 DEF TypeFilter, TypeOK, SpinnerIsWaiting, TimerIsOfTable, NewIsIdle, Idle, paging
<1>11. CASE Unmount
  BY <1>11 DEF Unmount, TypeOK, SpinnerIsWaiting, TimerIsOfTable, NewIsIdle, Idle, paging
<1>12. CASE UNCHANGED vars
  BY <1>12 DEF vars, TypeOK, SpinnerIsWaiting, TimerIsOfTable, NewIsIdle, Idle
<1> QED
  BY <1>1, <1>2, <1>3, <1>4, <1>5, <1>6, <1>7, <1>8, <1>9, <1>10, <1>11, <1>12
     DEF Next, FilterBox, Header, Footer

(* Every variable of the table keeps its type, however many requests       *)
(* overlap.                                                                *)
THEOREM TableTypeCorrect == Spec => []TypeOK
<1>1. TableInv => TypeOK
  BY DEF TableInv
<1> QED
  BY <1>1, InitInv, NextInv, PTL DEF Spec

(* The spinner of a mounted table turns only while a request is in flight  *)
(* (the finally of CustomTable.tsx:491).                                   *)
THEOREM SpinnerWaits == Spec => []SpinnerIsWaiting
<1>1. TableInv => SpinnerIsWaiting
  BY DEF TableInv
<1> QED
  BY <1>1, InitInv, NextInv, PTL DEF Spec

-----------------------------------------------------------------------------
LEMMA GoneStep ==
    TableInv /\ [Next]_vars => [phase = "gone" =>
          /\ UNCHANGED <<query, currentPage, maxPageIndex, isBusy, shown, typed>>
          /\ \A s \in Slots : flight'[s] \in {flight[s], None}]_vars
<1> SUFFICES ASSUME TableInv, [Next]_vars, phase = "gone", vars' # vars
             PROVE  /\ UNCHANGED <<query, currentPage, maxPageIndex, isBusy, shown, typed>>
                    /\ \A s \in Slots : flight'[s] \in {flight[s], None}
  OBVIOUS
<1>1. pending = None /\ Next
  BY DEF TableInv, TimerIsOfTable
<1>2. PICK s \in Slots : Answer(s) \/ Fail(s)
  BY <1>1 DEF Next, FilterBox, Header, Footer, Mount, NextPage, PreviousPage, Refresh,
              RequestSort, RequestRowsPerPage, RequestFilter, TypeFilter, Unmount
<1>3. flight \in [Slots -> Requests \cup {None}]
  BY DEF TableInv, TypeOK
<1>4. Land(s)
  BY <1>2 DEF Answer, Fail
<1>5. /\ UNCHANGED <<query, isBusy, typed>>
      /\ \A t \in Slots : flight'[t] \in {flight[t], None}
  BY <1>3, <1>4 DEF Land, Mounted, typing
<1>6. UNCHANGED <<currentPage, maxPageIndex, shown>>
  BY <1>2 DEF Answer, Fail, ContinuePage, ContinueReset, Mounted, paging
<1> QED
  BY <1>5, <1>6

(* A table that is gone asks for nothing and shows nothing new             *)
(* (componentWillUnmount, CustomTable.tsx:277).                            *)
THEOREM GoneIsSilent == Spec => SilentWhenGone
BY InitInv, NextInv, GoneStep, PTL DEF Spec, SilentWhenGone

-----------------------------------------------------------------------------
(* Pages in order.  While nobody has disturbed the table, one request at   *)
(* most is in flight, and it is for the page whose token it carries.       *)

(* The tokens kept are those of the pages of q, from the first on.         *)
TokensOf(q) ==
    /\ tokenList[1] = First
    /\ Len(tokenList) <= LastPage[q] + 1
    /\ \A i \in 2 .. Len(tokenList) : tokenList[i] = [query |-> q, page |-> i - 1]

(* The footer shows a page of q, and knows whether another follows.        *)
Footing(q) ==
    /\ TokensOf(q)
    /\ currentPage < Len(tokenList)
    /\ maxPageIndex \in {Unbounded, LastPage[q]}
    /\ currentPage < LastPage[q] => currentPage + 1 < Len(tokenList)
    /\ currentPage = LastPage[q] => maxPageIndex = LastPage[q]

(* What a request in flight has to do with the state its answer will find. *)
Asked(r) ==
    /\ r.kind = "page" =>
          /\ TokensOf(r.query)
          /\ r.page < Len(tokenList) /\ r.token = tokenList[r.page + 1]
          /\ r.max \in {Unbounded, LastPage[r.query]}
    /\ r.kind = "refresh" => Footing(r.query) /\ r.token = tokenList[currentPage + 1]
    /\ r.kind = "reset" => r.token = First

OneAtATime == \A s, t \in Slots : flight[s] # None /\ flight[t] # None => s = t
Unopened == phase = "new" => Idle /\ tokenList = <<First>> /\ maxPageIndex = Unbounded
AtRest == phase = "mounted" /\ Idle =>
             Footing(query) /\ shown = [query |-> query, page |-> currentPage]
UnderWay == phase = "mounted" =>
               \A s \in Slots : flight[s] # None => flight[s].query = query /\ Asked(flight[s])

Orderly == orderly /\ phase # "gone" => OneAtATime /\ Unopened /\ AtRest /\ UnderWay

(* The page of a token kept is the page it is kept for.                    *)
LEMMA TokenPage ==
    ASSUME TypeOK, NEW q \in Queries, TokensOf(q), NEW n \in Nat, n < Len(tokenList)
    PROVE  tokenList[n + 1].page = n
<1>1. CASE n = 0
  BY <1>1 DEF TokensOf, First
<1>2. CASE n # 0
  <2>1. n + 1 \in 2 .. Len(tokenList)
    BY <1>2 DEF TypeOK
  <2>2. tokenList[n + 1] = [query |-> q, page |-> (n + 1) - 1]
    BY <2>1 DEF TokensOf
  <2> QED
    BY <2>2
<1> QED
  BY <1>1, <1>2

(* A request for the right thing, sent from rest.                          *)
LEMMA SendingInOrder ==
    ASSUME TableInv, NEW s \in Slots, NEW r \in Requests, Send(s, r), UNCHANGED paging,
           phase' = "mounted", orderly' => Idle /\ Asked(r)
    PROVE  Orderly'
<1> SUFFICES ASSUME orderly' PROVE OneAtATime' /\ Unopened' /\ AtRest' /\ UnderWay'
  BY DEF Orderly
<1>1. /\ flight' = [flight EXCEPT ![s] = r] /\ flight \in [Slots -> Requests \cup {None}]
      /\ query' = r.query /\ r # None
  BY NoneAssumption DEF Send, TableInv, TypeOK
<1>2. \A t \in Slots : flight'[t] = IF t = s THEN r ELSE None
  BY <1>1 DEF Idle
<1>3. Asked(r)'
  BY DEF Asked, Footing, TokensOf, paging
<1>4. OneAtATime' /\ ~Idle'
  BY <1>1, <1>2 DEF OneAtATime, Idle
<1>5. UnderWay'
  BY <1>1, <1>2, <1>3 DEF UnderWay
<1> QED
  BY <1>4, <1>5 DEF Unopened, AtRest

(* Asking for a page the token list reaches.                               *)
LEMMA GoToInOrder ==
    ASSUME TableInv, NEW s \in Slots, NEW n \in Nat, GoTo(s, n), phase' = "mounted",
           orderly /\ Idle => /\ TokensOf(query) /\ n < Len(tokenList)
                              /\ maxPageIndex \in {Unbounded, LastPage[query]}
    PROVE  Orderly'
<1> DEFINE r == Request("page", query, TokenAt(n), n, maxPageIndex)
<1>1. TokenAt(n) \in Tokens
  BY TokenAtType DEF TableInv, TypeOK
<1>2. r \in Requests
  BY <1>1, RequestFacts DEF TableInv, TypeOK
<1>3. Send(s, r) /\ UNCHANGED paging /\ (orderly' => orderly /\ Idle)
  BY DEF GoTo
<1>4. orderly /\ Idle => Asked(r)
  BY DEF Asked, Request, TokenAt
<1> QED
  BY <1>2, <1>3, <1>4, SendingInOrder

(* Starting again at the first page.                                       *)
LEMMA ResetInOrder ==
    ASSUME TableInv, NEW s \in Slots, NEW q \in Queries, NEW token \in Tokens,
           Send(s, Request("reset", q, token, 0, 0)), UNCHANGED paging, phase' = "mounted",
           orderly' => Idle /\ token = First
    PROVE  Orderly'
<1>1. Request("reset", q, token, 0, 0) \in Requests
  BY RequestFacts
<1>2. token = First => Asked(Request("reset", q, token, 0, 0))
  BY DEF Asked, Request
<1> QED
  BY <1>1, <1>2, SendingInOrder

(* The answer leaves the footer where its request says, on rows of that    *)
(* page.                                                                   *)
LEMMA AnswerInOrder ==
    ASSUME TableInv, Orderly, NEW s \in Slots, Answer(s)
    PROVE  Orderly'
<1> DEFINE r == flight[s]
           token == NextToken(r)
<1>1. r \in Requests /\ r # None /\ Land(s)
  BY DEF Answer, TableInv, TypeOK
<1>2. /\ phase' = phase /\ query' = query /\ orderly' = orderly
      /\ flight' = [flight EXCEPT ![s] = None] /\ flight \in [Slots -> Requests \cup {None}]
  BY <1>1 DEF Answer, Land, TableInv, TypeOK
<1> SUFFICES ASSUME orderly, phase # "gone"
             PROVE  OneAtATime' /\ Unopened' /\ AtRest' /\ UnderWay'
  BY <1>2 DEF Orderly
<1>3. phase = "mounted"
  BY <1>1 DEF Orderly, Unopened, Idle, TableInv, TypeOK
<1>4. r.query = query /\ Asked(r)
  BY <1>1, <1>3 DEF Orderly, UnderWay
<1>5. \A t \in Slots : flight'[t] = None
  BY <1>1, <1>2 DEF Orderly, OneAtATime
<1>6. /\ query \in Queries /\ query # None /\ LastPage[query] \in Nat
      /\ Unbounded \in Nat /\ Unbounded > LastPage[query]
      /\ tokenList \in Seq(Tokens) /\ Len(tokenList) > 0 /\ currentPage \in Nat
      /\ r.page \in Nat /\ TypeOK
  BY <1>1, NoneAssumption, TableAssumption DEF TableInv, TypeOK, Requests
<1>7. /\ token = IF r.token.page < LastPage[query]
                 THEN [query |-> query, page |-> r.token.page + 1] ELSE First
      /\ token # First <=> r.token.page < LastPage[query]
  BY <1>4, <1>6 DEF NextToken, First
<1>8. shown' = [query |-> query, page |-> r.token.page]
  BY <1>3, <1>4 DEF Answer, Mounted
<1>9. /\ \/ r.kind = "page" /\ ContinuePage(r, token)
         \/ r.kind = "reset" /\ ContinueReset(token)
         \/ r.kind = "refresh" /\ UNCHANGED <<tokenList, currentPage, maxPageIndex>>
  BY DEF Answer
<1> HIDE DEF r, token
<1>10. Footing(query)' /\ currentPage' = r.token.page
  <2>1. ASSUME r.kind = "page", ContinuePage(r, token)
        PROVE  Footing(query)' /\ currentPage' = r.token.page
    <3>1. /\ TokensOf(query) /\ r.page < Len(tokenList)
          /\ r.max \in {Unbounded, LastPage[query]} /\ r.token.page = r.page
      BY <1>4, <1>6, <2>1, TokenPage DEF Asked
    <3>2. /\ currentPage' = r.page
          /\ maxPageIndex' = IF token # First THEN r.max ELSE r.page
      BY <1>3, <2>1 DEF ContinuePage, Mounted
    <3>3. CASE token # First /\ r.page + 1 = Len(tokenList)
      <4>1. /\ tokenList' = Append(tokenList, token) /\ r.page < LastPage[query]
            /\ token = [query |-> query, page |-> r.page + 1]
        BY <1>7, <2>1, <3>1, <3>3 DEF ContinuePage
      <4>2. token \in Tokens
        BY <1>6, <4>1 DEF Tokens
      <4>3. /\ Len(tokenList') = Len(tokenList) + 1
            /\ \A i \in 1 .. Len(tokenList) : tokenList'[i] = tokenList[i]
            /\ tokenList'[Len(tokenList) + 1] = token
        BY <1>6, <4>1, <4>2
      <4>4. tokenList'[1] = First /\ Len(tokenList') <= LastPage[query] + 1
        BY <1>6, <3>1, <3>3, <4>1, <4>3 DEF TokensOf
      <4>5. ASSUME NEW i \in 2 .. Len(tokenList')
            PROVE  tokenList'[i] = [query |-> query, page |-> i - 1]
        <5>1. CASE i = Len(tokenList) + 1
          BY <1>6, <3>3, <4>1, <4>3, <5>1
        <5>2. CASE i # Len(tokenList) + 1
          <6>1. i \in 2 .. Len(tokenList) /\ i \in 1 .. Len(tokenList)
            BY <1>6, <4>3, <5>2
          <6> QED
            BY <3>1, <4>3, <6>1 DEF TokensOf
        <5> QED
          BY <5>1, <5>2
      <4>6. TokensOf(query)'
        BY <1>2, <4>4, <4>5 DEF TokensOf
      <4> QED
        BY <1>2, <1>6, <3>1, <3>2, <3>3, <4>1, <4>3, <4>6 DEF Footing
    <3>4. CASE ~(token # First /\ r.page + 1 = Len(tokenList))
      <4>1. tokenList' = tokenList
        BY <2>1, <3>4 DEF ContinuePage
      <4>2. TokensOf(query)'
        BY <1>2, <3>1, <4>1 DEF TokensOf
      <4>3. Len(tokenList) <= LastPage[query] + 1
        BY <3>1 DEF TokensOf
      <4> QED
        BY <1>2, <1>6, <1>7, <3>1, <3>2, <3>4, <4>1, <4>2, <4>3 DEF Footing
    <3> QED
      BY <3>3, <3>4
  <2>2. ASSUME r.kind = "reset", ContinueReset(token)
        PROVE  Footing(query)' /\ currentPage' = r.token.page
    <3>1. r.token.page = 0
      BY <1>4, <2>2 DEF Asked, First
    <3>2. /\ tokenList' = IF token # First THEN <<First, token>> ELSE <<First>>
          /\ currentPage' = 0
          /\ maxPageIndex' = IF token # First THEN Unbounded ELSE 0
      BY <1>3, <2>2 DEF ContinueReset, Mounted
    <3>3. CASE token # First
      <4>1. /\ tokenList' = <<First, token>> /\ LastPage[query] >= 1
            /\ token = [query |-> query, page |-> 1]
        BY <1>6, <1>7, <3>1, <3>2, <3>3
      <4> QED
        BY <1>2, <1>6, <3>1, <3>2, <3>3, <4>1 DEF Footing, TokensOf
    <3>4. CASE token = First
      <4>1. tokenList' = <<First>> /\ LastPage[query] = 0
        BY <1>6, <1>7, <3>1, <3>2, <3>4
      <4> QED
        BY <1>2, <1>6, <3>1, <3>2, <3>4, <4>1 DEF Footing, TokensOf
    <3> QED
      BY <3>3, <3>4
  <2>3. ASSUME r.kind = "refresh", UNCHANGED <<tokenList, currentPage, maxPageIndex>>
        PROVE  Footing(query)' /\ currentPage' = r.token.page
    <3>1. Footing(query) /\ r.token = tokenList[currentPage + 1]
      BY <1>4, <2>3 DEF Asked
    <3>2. r.token.page = currentPage
      BY <1>6, <3>1, TokenPage DEF Footing
    <3> QED
      BY <1>2, <2>3, <3>1, <3>2 DEF Footing, TokensOf
  <2> QED
    BY <1>9, <2>1, <2>2, <2>3
<1>11. AtRest'
  BY <1>2, <1>8, <1>10 DEF AtRest
<1> QED
  BY <1>2, <1>3, <1>5, <1>11 DEF OneAtATime, Unopened, UnderWay

LEMMA OrderlyInit == Init => Orderly
BY DEF Init, Orderly, OneAtATime, Unopened, AtRest, UnderWay, Idle

LEMMA OrderlyNext == TableInv /\ Orderly /\ [Next]_vars => Orderly'
<1> SUFFICES ASSUME TableInv, Orderly, [Next]_vars PROVE Orderly'
  OBVIOUS
<1>0. /\ query \in Queries /\ currentPage \in Nat /\ maxPageIndex \in Nat
      /\ LastPage[query] \in Nat /\ Unbounded \in Nat /\ Unbounded > LastPage[query]
      /\ tokenList \in Seq(Tokens) /\ Len(tokenList) > 0 /\ First \in Tokens
      /\ TokenAt(currentPage) \in Tokens
  BY TableAssumption, TokenAtType DEF TableInv, TypeOK, Tokens
<1>a. phase = "mounted" /\ orderly /\ Idle =>
         /\ Footing(query) /\ TokensOf(query) /\ Len(tokenList) <= LastPage[query] + 1
         /\ maxPageIndex \in {Unbounded, LastPage[query]}
  BY DEF Orderly, AtRest, Footing, TokensOf
<1>1. ASSUME NEW s \in Slots, Mount(s) PROVE Orderly'
  <2>1. orderly => /\ tokenList = <<First>> /\ Len(tokenList) = 1 /\ tokenList[1] = First
                   /\ maxPageIndex = Unbounded
    BY <1>1 DEF Mount, Orderly, Unopened
  <2>2. ASSUME orderly PROVE TokensOf(query)
    <3>1. Len(tokenList) <= LastPage[query] + 1
      <4>1. Len(tokenList) = 1 /\ LastPage[query] \in Nat
        BY <1>0, <2>1, <2>2
      <4> QED
        BY <4>1
    <3>2. 2 .. Len(tokenList) = {}
      BY <2>1, <2>2
    <3> QED
      BY <2>1, <2>2, <3>1, <3>2 DEF TokensOf
  <2> QED
    BY <1>0, <1>1, <2>1, <2>2, GoToInOrder DEF Mount
<1>2. ASSUME NEW s \in Slots, NextPage(s) PROVE Orderly'
  <2>1. currentPage + 1 \in Nat /\ GoTo(s, currentPage + 1) /\ phase = "mounted" /\ phase' = "mounted"
    BY <1>0, <1>2 DEF NextPage
  <2>2. orderly /\ Idle => currentPage + 1 < Len(tokenList)
    BY <1>0, <1>2, <1>a, <2>1 DEF NextPage, Footing
  <2> QED
    BY <1>a, <2>1, <2>2, GoToInOrder
<1>3. ASSUME NEW s \in Slots, PreviousPage(s) PROVE Orderly'
  <2> DEFINE n == IF currentPage - 1 < maxPageIndex THEN currentPage - 1 ELSE maxPageIndex
  <2>1. n \in Nat /\ GoTo(s, n) /\ phase = "mounted" /\ phase' = "mounted"
    BY <1>0, <1>3 DEF PreviousPage
  <2>2. orderly /\ Idle => n < Len(tokenList)
    BY <1>0, <1>3, <1>a, <2>1 DEF PreviousPage, Footing
  <2> QED
    BY <1>a, <2>1, <2>2, GoToInOrder
<1>4. ASSUME NEW s \in Slots, Refresh(s) PROVE Orderly'
  <2> DEFINE r == Request("refresh", query, TokenAt(currentPage), 0, 0)
  <2>1. r \in Requests
    BY <1>0, RequestFacts
  <2>2. phase = "mounted" /\ orderly /\ Idle => Asked(r)
    BY <1>a DEF Asked, Request, TokenAt, Footing
  <2> QED
    BY <1>4, <2>1, <2>2, SendingInOrder DEF Refresh
<1>5. ASSUME NEW s \in Slots, NEW k \in SortKeys, RequestSort(s, k) PROVE Orderly'
  <2> DEFINE q == [query EXCEPT !.sortBy = k, !.asc = (query.sortBy = k => ~query.asc)]
  <2>1. q \in Queries
    BY <1>0 DEF Queries
  <2> QED
    BY <1>0, <1>5, <2>1, ResetInOrder DEF RequestSort
<1>6. ASSUME NEW s \in Slots, NEW n \in PageSizes, RequestRowsPerPage(s, n) PROVE Orderly'
  <2>1. [query EXCEPT !.size = n] \in Queries
    BY <1>0 DEF Queries
  <2> QED
    BY <1>0, <1>6, <2>1, ResetInOrder DEF RequestRowsPerPage
<1>7. ASSUME NEW s \in Slots, RequestFilter(s) PROVE Orderly'
  <2>1. pending \in Filters /\ phase = "mounted" /\ phase' = "mounted"
    BY <1>7 DEF RequestFilter, TableInv, TimerIsOfTable, TypeOK
  <2>2. [query EXCEPT !.filter = pending] \in Queries
    BY <1>0, <2>1 DEF Queries
  <2>3. orderly' => orderly /\ Idle /\ currentPage = 0
    BY <1>7 DEF RequestFilter
  <2>4. orderly' => TokenAt(currentPage) = First
    BY <1>0, <1>a, <2>1, <2>3 DEF TokenAt, TokensOf
  <2>5. Send(s, Request("reset", [query EXCEPT !.filter = pending], TokenAt(currentPage), 0, 0))
        /\ UNCHANGED paging
    BY <1>7 DEF RequestFilter
  <2> QED
    BY <1>0, <2>1, <2>2, <2>3, <2>4, <2>5, ResetInOrder
<1>8. ASSUME NEW s \in Slots, Answer(s) PROVE Orderly'
  BY <1>8, AnswerInOrder
<1>9. ASSUME NEW s \in Slots, Fail(s) PROVE Orderly'
  BY <1>9 DEF Fail, Orderly
<1>10. CASE Unmount
  BY <1>10 DEF Unmount, Orderly
<1>11. CASE (\E f \in Filters : TypeFilter(f)) \/ UNCHANGED vars
  <2>1. UNCHANGED <<phase, query, currentPage, maxPageIndex, tokenList, shown, flight, orderly>>
    BY <1>11 DEF TypeFilter, vars, paging
  <2>2. \A q : (TokensOf(q)' <=> TokensOf(q)) /\ (Footing(q)' <=> Footing(q))
    BY <2>1 DEF TokensOf, Footing
  <2>3. \A r : Asked(r)' <=> Asked(r)
    BY <2>1, <2>2 DEF Asked
  <2>4. /\ OneAtATime' <=> OneAtATime
        /\ Unopened' <=> Unopened
    BY <2>1 DEF OneAtATime, Unopened, Idle
  <2>5. /\ AtRest' <=> AtRest
        /\ UnderWay' <=> UnderWay
    BY <2>1, <2>2, <2>3 DEF AtRest, UnderWay, Idle
  <2> QED
    BY <2>1, <2>4, <2>5 DEF Orderly
<1> QED
  BY <1>1, <1>2, <1>3, <1>4, <1>5, <1>6, <1>7, <1>8, <1>9, <1>10, <1>11
     DEF Next, FilterBox, Header, Footer

(* As long as no reload fails, none overlaps another and no filter is      *)
(* asked for from a later page, what the table shows at rest is what its   *)
(* header and footer say, and the tokens are those of its query (lines     *)
(* 540 to 591): whatever the queries and however many pages they have.     *)
THEOREM PagesStayInOrder == Spec => []OrderlyPages
<1>1. TableInv /\ Orderly => OrderlyPages
  <2> SUFFICES ASSUME TableInv, Orderly, orderly, phase = "mounted", Idle
               PROVE  Footing(query) /\ shown = [query |-> query, page |-> currentPage]
    BY DEF OrderlyPages, PagesInOrder, Footing, TokensOf
  <2> QED
    BY DEF Orderly, AtRest
<1> QED
  BY <1>1, InitInv, NextInv, OrderlyInit, OrderlyNext, PTL DEF Spec

-----------------------------------------------------------------------------
(* What the filter box shows is what the timer will ask for or, when it    *)
(* does not run, what the header asks for: the keys typed before the timer *)
(* fires are never dropped, whatever else is asked for meanwhile.          *)
NothingTypedIsLost ==
    phase # "gone" => typed = IF pending = None THEN query.filter ELSE pending

LEMMA TypedNext == TableInv /\ NothingTypedIsLost /\ [Next]_vars => NothingTypedIsLost'
<1> SUFFICES ASSUME TableInv, NothingTypedIsLost, [Next]_vars PROVE NothingTypedIsLost'
  OBVIOUS
<1>0. query \in Queries
  BY DEF TableInv, TypeOK
<1>1. ASSUME NEW s \in Slots, NEW n, GoTo(s, n), UNCHANGED typing, phase # "gone"
      PROVE  NothingTypedIsLost'
  BY <1>1 DEF GoTo, Send, Request, typing, NothingTypedIsLost
<1>2. ASSUME NEW s \in Slots, Mount(s) \/ NextPage(s) \/ PreviousPage(s)
      PROVE  NothingTypedIsLost'
  BY <1>1, <1>2 DEF Mount, NextPage, PreviousPage
<1>3. ASSUME NEW s \in Slots, Refresh(s) PROVE NothingTypedIsLost'
  BY <1>3 DEF Refresh, Send, Request, typing, NothingTypedIsLost
<1>4. ASSUME NEW s \in Slots, NEW k \in SortKeys, RequestSort(s, k) PROVE NothingTypedIsLost'
  BY <1>0, <1>4 DEF RequestSort, Send, Request, typing, NothingTypedIsLost, Queries
<1>5. ASSUME NEW s \in Slots, NEW n \in PageSizes, RequestRowsPerPage(s, n)
      PROVE  NothingTypedIsLost'
  BY <1>0, <1>5 DEF RequestRowsPerPage, Send, Request, typing, NothingTypedIsLost, Queries
<1>6. ASSUME NEW s \in Slots, RequestFilter(s) PROVE NothingTypedIsLost'
  BY <1>0, <1>6 DEF RequestFilter, Send, Request, NothingTypedIsLost, Queries
<1>7. ASSUME NEW s \in Slots, Answer(s) \/ Fail(s) PROVE NothingTypedIsLost'
  BY <1>7 DEF Answer, Fail, Land, typing, NothingTypedIsLost
<1>8. ASSUME NEW f \in Filters, TypeFilter(f) PROVE NothingTypedIsLost'
  BY <1>8, NoneAssumption DEF TypeFilter, NothingTypedIsLost
<1>9. CASE Unmount \/ UNCHANGED vars
  BY <1>9 DEF Unmount, vars, NothingTypedIsLost
<1> QED
  BY <1>2, <1>3, <1>4, <1>5, <1>6, <1>7, <1>8, <1>9 DEF Next, FilterBox, Header, Footer

(* The safety half of FilterCatchesUp: the filter the box shows is pending *)
(* or in the header (lines 205 to 216).  That the timer then finds its     *)
(* turn is left to fairness.                                               *)
THEOREM FilterIsNeverDropped == Spec => []NothingTypedIsLost
<1>1. Init => NothingTypedIsLost
  <2> SUFFICES ASSUME Init PROVE NothingTypedIsLost
    OBVIOUS
  <2>1. PICK k \in SortKeys, b \in BOOLEAN, n \in PageSizes :
           query = [filter |-> "", sortBy |-> k, asc |-> b, size |-> n]
    BY DEF Init
  <2>2. query.filter = ""
    BY <2>1
  <2> QED
    BY <2>2 DEF Init, NothingTypedIsLost
<1> QED
  BY <1>1, InitInv, NextInv, TypedNext, PTL DEF Spec

-----------------------------------------------------------------------------
(* The contract: what the slots say to it, and its steps.                  *)

AskedFor == [s \in Slots |-> IF flight[s] = None THEN None ELSE flight[s].query]

LEMMA SlotsAsk ==
    ASSUME TableInv, NEW s \in Slots, NEW r \in Requests, Send(s, r)
    PROVE  Contract!Ask(r.query, s)
<1>1. r # None /\ r.query # None
  BY NoneAssumption DEF Requests
<1>2. flight' = [flight EXCEPT ![s] = r] /\ flight \in [Slots -> Requests \cup {None}]
  BY DEF Send, TableInv, TypeOK
<1>3. AskedFor' = [AskedFor EXCEPT ![s] = r.query]
  BY <1>1, <1>2 DEF AskedFor
<1>4. AskedFor[s] = None
  BY DEF AskedFor, Send
<1> QED
  BY <1>3, <1>4 DEF Contract!Ask, AskedFor, Send

LEMMA SlotsSettle ==
    ASSUME TableInv, NEW s \in Slots, flight[s] # None, Land(s)
    PROVE  Contract!Settle(s)
<1>1. flight \in [Slots -> Requests \cup {None}] /\ flight[s] \in Requests
  BY DEF TableInv, TypeOK
<1>2. flight[s].query # None
  BY <1>1, NoneAssumption DEF Requests
<1>3. AskedFor' = [AskedFor EXCEPT ![s] = None] /\ AskedFor[s] # None
  BY <1>1, <1>2 DEF AskedFor, Land
<1>4. isBusy' = (isBusy /\ phase # "mounted")
  BY DEF Land, Mounted, TableInv, TypeOK
<1> QED
  BY <1>3, <1>4 DEF Contract!Settle, AskedFor, Land

LEMMA ContractStep == TableInv /\ [Next]_vars => [Contract!TableNext]_Contract!tableVars
<1> SUFFICES ASSUME TableInv, [Next]_vars PROVE [Contract!TableNext]_Contract!tableVars
  OBVIOUS
<1>0. /\ query \in Queries /\ currentPage \in Nat /\ maxPageIndex \in Nat
      /\ TokenAt(currentPage) \in Tokens /\ First \in Tokens
  BY TokenAtType DEF TableInv, TypeOK, Tokens
<1>1. ASSUME NEW s \in Slots, NEW n \in Nat, GoTo(s, n)
      PROVE  Contract!Ask(query, s)
  <2>1. TokenAt(n) \in Tokens
    BY TokenAtType DEF TableInv, TypeOK
  <2> QED
    BY <1>0, <1>1, <2>1, RequestFacts, SlotsAsk DEF GoTo
<1>2. ASSUME NEW s \in Slots, Mount(s) PROVE Contract!Open(s)
  BY <1>1, <1>2 DEF Mount, Contract!Open
<1>3. ASSUME NEW s \in Slots, NextPage(s) \/ PreviousPage(s) PROVE Contract!Reload(query, s)
  <2> DEFINE n == IF currentPage - 1 < maxPageIndex THEN currentPage - 1 ELSE maxPageIndex
  <2>1. currentPage + 1 \in Nat /\ (currentPage > 0 => n \in Nat)
    BY <1>0
  <2> QED
    BY <1>1, <1>3, <2>1 DEF NextPage, PreviousPage, Contract!Reload
<1>4. ASSUME NEW s \in Slots, NEW kind \in {"reset", "refresh"}, NEW q \in Queries,
             NEW token \in Tokens, Send(s, Request(kind, q, token, 0, 0)),
             phase = "mounted", UNCHANGED phase
      PROVE  Contract!Reload(q, s)
  BY <1>4, RequestFacts, SlotsAsk DEF Contract!Reload
<1>5. ASSUME NEW s \in Slots, Refresh(s) PROVE Contract!Reload(query, s)
  <2>1. /\ Send(s, Request("refresh", query, TokenAt(currentPage), 0, 0))
        /\ phase = "mounted" /\ UNCHANGED phase
    BY <1>5 DEF Refresh
  <2>2. /\ Request("refresh", query, TokenAt(currentPage), 0, 0) \in Requests
        /\ Request("refresh", query, TokenAt(currentPage), 0, 0).query = query
    BY <1>0, RequestFacts
  <2>3. Contract!Ask(Request("refresh", query, TokenAt(currentPage), 0, 0).query, s)
    BY <2>1, <2>2, SlotsAsk
  <2> QED
    BY <2>1, <2>2, <2>3 DEF Contract!Reload
<1>6. ASSUME NEW s \in Slots, NEW k \in SortKeys, RequestSort(s, k)
      PROVE  \E q \in Queries : Contract!Reload(q, s)
  <2> DEFINE q == [query EXCEPT !.sortBy = k, !.asc = (query.sortBy = k => ~query.asc)]
  <2>1. q \in Queries
    BY <1>0 DEF Queries
  <2> QED
    BY <1>0, <1>4, <1>6, <2>1 DEF RequestSort
<1>7. ASSUME NEW s \in Slots, NEW n \in PageSizes, RequestRowsPerPage(s, n)
      PROVE  \E q \in Queries : Contract!Reload(q, s)
  <2>1. [query EXCEPT !.size = n] \in Queries
    BY <1>0 DEF Queries
  <2> QED
    BY <1>0, <1>4, <1>7, <2>1 DEF RequestRowsPerPage
<1>8. ASSUME NEW s \in Slots, RequestFilter(s)
      PROVE  \E q \in Queries : Contract!Reload(q, s)
  <2>1. pending \in Filters /\ phase = "mounted"
    BY <1>8 DEF RequestFilter, TableInv, TimerIsOfTable, TypeOK
  <2>2. [query EXCEPT !.filter = pending] \in Queries
    BY <1>0, <2>1 DEF Queries
  <2> QED
    BY <1>0, <1>4, <1>8, <2>1, <2>2 DEF RequestFilter
<1>9. ASSUME NEW s \in Slots, Answer(s) \/ Fail(s) PROVE Contract!Settle(s)
  BY <1>9, SlotsSettle DEF Answer, Fail
<1>10. ASSUME NEW f \in Filters, TypeFilter(f) PROVE UNCHANGED Contract!tableVars
  BY <1>10 DEF TypeFilter, Contract!tableVars
<1>11. CASE Unmount
  BY <1>11 DEF Unmount, Contract!TableNext, Contract!Close
<1>12. CASE UNCHANGED vars
  BY <1>12 DEF vars, Contract!tableVars
<1>13. ASSUME NEW s \in Slots,
              Contract!Open(s) \/ Contract!Settle(s) \/ \E q \in Queries : Contract!Reload(q, s)
       PROVE  Contract!TableNext
  BY <1>13 DEF Contract!TableNext
<1>14. CASE \E s \in Slots :
               \/ Mount(s) \/ NextPage(s) \/ PreviousPage(s) \/ Refresh(s)
               \/ \E k \in SortKeys : RequestSort(s, k)
               \/ \E n \in PageSizes : RequestRowsPerPage(s, n)
               \/ RequestFilter(s) \/ Answer(s) \/ Fail(s)
  <2>1. PICK s \in Slots :
               \/ Mount(s) \/ NextPage(s) \/ PreviousPage(s) \/ Refresh(s)
               \/ \E k \in SortKeys : RequestSort(s, k)
               \/ \E n \in PageSizes : RequestRowsPerPage(s, n)
               \/ RequestFilter(s) \/ Answer(s) \/ Fail(s)
    BY <1>14
  <2>2. CASE Mount(s)
    BY <2>2, <1>2, <1>13
  <2>3. CASE NextPage(s) \/ PreviousPage(s) \/ Refresh(s)
    <3>1. Contract!Reload(query, s)
      BY <2>3, <1>3, <1>5
    <3>2. \E q \in Queries : Contract!Reload(q, s)
      BY <3>1, <1>0 DEF Contract!Reload, Contract!Ask
    <3> QED
      BY <3>2, <1>13
  <2>4. CASE \E k \in SortKeys : RequestSort(s, k)
    BY <2>4, <1>6, <1>13
  <2>5. CASE \E n \in PageSizes : RequestRowsPerPage(s, n)
    BY <2>5, <1>7, <1>13
  <2>6. CASE RequestFilter(s)
    BY <2>6, <1>8, <1>13
  <2>7. CASE Answer(s) \/ Fail(s)
    BY <2>7, <1>9, <1>13
  <2> QED
    BY <2>1, <2>2, <2>3, <2>4, <2>5, <2>6, <2>7
<1> QED
  BY <1>10, <1>11, <1>12, <1>14 DEF Next, FilterBox, Header, Footer

LEMMA ContractInit == TableInv /\ Init => Contract!TableInit
BY DEF Init, TableInv, TypeOK, Contract!TableInit

(* The table implements TableContract: what the list pages are written     *)
(* against (ArtifactList.tsx:130, ExecutionList.tsx:126) is what it does.  *)
THEOREM TableKeepsContract == Spec => KeepsContract
BY InitInv, NextInv, ContractInit, ContractStep, PTL DEF Spec, KeepsContract, Contract!TableSpec
=============================================================================
