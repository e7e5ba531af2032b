----------------------------- MODULE CustomTable -----------------------------
(***************************************************************************)
(* The table of src/frontend/src/components/CustomTable.tsx: paging,       *)
(* sorting and filtering over a reload function its page gives it.         *)
(*                                                                         *)
(* An event handler runs to its end, with the setStates it batches and     *)
(* their callbacks, before anything else does: it is one step.  A reload   *)
(* is answered in a later step, by which time other handlers may have run; *)
(* what the code after the await has kept from before it (the page asked   *)
(* for, maxPageIndex) travels with the request.                            *)
(***************************************************************************)
EXTENDS Naturals, Sequences

CONSTANTS
    Filters,      \* what is typed in the filter box; "" is the empty one
    SortKeys,     \* sort keys of the columns
    PageSizes,    \* 10, 20, 50, 100 in the code
    LastPage,     \* of each query: index of the last page the page component has for it
    MaxPage,      \* bound: largest page number reached
    Unbounded,    \* Number.MAX_SAFE_INTEGER
    Slots,        \* bound: requests in flight
    None

Queries == [filter : Filters, sortBy : SortKeys, asc : BOOLEAN, size : PageSizes]

(* Page tokens.  The first page has an empty one, which as an answer means *)
(* that no page follows.                                                   *)
First  == [query |-> None, page |-> 0]
Tokens == [query : Queries, page : Nat \ {0}] \cup {First}

(* What is known of a reload where it awaits: what it is for, and what the *)
(* code after the await has kept.                                          *)
Requests == [kind : {"page", "reset", "refresh"}, query : Queries, token : Tokens,
             page : Nat, max : Nat]

ASSUME NoneAssumption == None \notin Queries /\ None \notin Requests /\ None \notin Filters

ASSUME TableAssumption ==
    /\ "" \in Filters
    /\ LastPage \in [Queries -> Nat]
    /\ MaxPage \in Nat /\ Unbounded \in Nat /\ \A q \in Queries : Unbounded > LastPage[q]

VARIABLES
    phase,         \* new, mounted, gone
    query,         \* filterStringEncoded, sortBy, sortOrder, pageSize: what the header shows
    currentPage,
    maxPageIndex,
    tokenList,
    isBusy,
    typed,         \* filterString
    pending,       \* the filter the debounced request holds, or None
    flight,        \* of each slot: the request in flight, or None
    shown,         \* query and page of the rows the page component has set, or None
    orderly        \* history: no request failed, overlapped another, or filtered a later page

vars == <<phase, query, currentPage, maxPageIndex, tokenList, isBusy, typed, pending,
          flight, shown, orderly>>

paging == <<currentPage, maxPageIndex, tokenList, shown>>
typing == <<typed, pending>>

Init ==
    /\ phase = "new"
    /\ \E k \in SortKeys, b \in BOOLEAN, n \in PageSizes :
          query = [filter |-> "", sortBy |-> k, asc |-> b, size |-> n]
    /\ currentPage = 0 /\ maxPageIndex = Unbounded /\ tokenList = <<First>>
    /\ isBusy = FALSE
    /\ typed = "" /\ pending = None
    /\ flight = [s \in Slots |-> None]
    /\ shown = None
    /\ orderly = TRUE

-----------------------------------------------------------------------------
(* reload: the query of the request becomes the state's.                   *)

Idle == \A s \in Slots : flight[s] = None

(* An index past the end of the list is a request without a token.         *)
TokenAt(page) == IF page < Len(tokenList) THEN tokenList[page + 1] ELSE First

Request(kind, q, token, page, max) ==
    [kind |-> kind, query |-> q, token |-> token, page |-> page, max |-> max]

(* Mutant: the header does not take the query over.                        *)
SendKeepingHeader(s, r) ==
    /\ flight[s] = None
    /\ flight' = [flight EXCEPT ![s] = r]
    /\ UNCHANGED query
    /\ isBusy' = TRUE

Send(s, r) ==
    /\ flight[s] = None
    /\ flight' = [flight EXCEPT ![s] = r]
    /\ query' = r.query
    /\ isBusy' = TRUE

(* _pageChanged(offset), to the page it comes to.                          *)
GoTo(s, page) ==
    /\ Send(s, Request("page", query, TokenAt(page), page, maxPageIndex))
    /\ orderly' = (orderly /\ Idle)
    /\ UNCHANGED paging

(* componentDidMount                                                       *)
Mount(s) ==
    /\ phase = "new" /\ phase' = "mounted"
    /\ GoTo(s, 0)
    /\ UNCHANGED typing

NextPage(s) ==
    /\ phase = "mounted"
    /\ currentPage < maxPageIndex /\ currentPage < MaxPage
    /\ GoTo(s, currentPage + 1)
    /\ UNCHANGED <<phase, typing>>

PreviousPage(s) ==
    /\ phase = "mounted"
    /\ currentPage > 0
    /\ GoTo(s, IF currentPage - 1 < maxPageIndex THEN currentPage - 1 ELSE maxPageIndex)
    /\ UNCHANGED <<phase, typing>>

(* The page's refresh calls reload() itself and does nothing after it.     *)
Refresh(s) ==
    /\ phase = "mounted"
    /\ Send(s, Request("refresh", query, TokenAt(currentPage), 0, 0))
    /\ orderly' = (orderly /\ Idle)
    /\ UNCHANGED <<phase, paging, typing>>

(* _requestSort: the same column again turns the order.                    *)
RequestSort(s, k) ==
    /\ phase = "mounted"
    /\ LET q == [query EXCEPT !.sortBy = k, !.asc = (query.sortBy = k => ~query.asc)]
       IN  Send(s, Request("reset", q, First, 0, 0))
    /\ orderly' = (orderly /\ Idle)
    /\ UNCHANGED <<phase, paging, typing>>

(* _requestRowsPerPage                                                     *)
RequestRowsPerPage(s, n) ==
    /\ phase = "mounted"
    /\ Send(s, Request("reset", [query EXCEPT !.size = n], First, 0, 0))
    /\ orderly' = (orderly /\ Idle)
    /\ UNCHANGED <<phase, paging, typing>>

-----------------------------------------------------------------------------
(* Mutant: a timer that runs keeps the filter it was started with.         *)
TypeFilterFirst(f) ==
    /\ phase = "mounted" /\ f # typed
    /\ typed' = f /\ pending' = IF pending = None THEN f ELSE pending
    /\ UNCHANGED <<phase, query, paging, isBusy, flight, orderly>>

(* The filter box.  Typing shows at once and starts the timer again.       *)
TypeFilter(f) ==
    /\ phase = "mounted" /\ f # typed
    /\ typed' = f /\ pending' = f
    /\ UNCHANGED <<phase, query, paging, isBusy, flight, orderly>>

(* _requestFilter, 300 ms after the last key.  It does not name a page     *)
(* token: reload takes that of the current page, of the query before.      *)
RequestFilter(s) ==
    /\ pending # None
    /\ Send(s, Request("reset", [query EXCEPT !.filter = pending], TokenAt(currentPage), 0, 0))
    /\ pending' = None
    /\ orderly' = (orderly /\ Idle /\ currentPage = 0)
    /\ UNCHANGED <<phase, paging, typed>>

-----------------------------------------------------------------------------
(* Answers.                                                                *)

(* The token the page component answers with: its pages follow each other. *)
NextToken(r) ==
    IF r.token.page < LastPage[r.query] THEN [query |-> r.query, page |-> r.token.page + 1] ELSE First

Mounted(new, old) == IF phase = "mounted" THEN new ELSE old

Land(s) ==
    /\ flight' = [flight EXCEPT ![s] = None]
    /\ isBusy' = Mounted(FALSE, isBusy)
    /\ UNCHANGED <<phase, query, typing>>

(* The rest of _pageChanged.  The push changes the list in place, mounted  *)
(* or not.                                                                 *)
ContinuePage(r, token) ==
    /\ tokenList' = IF token # First /\ r.page + 1 = Len(tokenList)
                    THEN Append(tokenList, token) ELSE tokenList
    /\ currentPage' = Mounted(r.page, currentPage)
    /\ maxPageIndex' = Mounted(IF token # First THEN r.max ELSE r.page, maxPageIndex)

(* Mutant: the page stays the one it was.                                  *)
ContinueResetOnPage(token) ==
    /\ tokenList' = Mounted(IF token # First THEN <<First, token>> ELSE <<First>>, tokenList)
    /\ maxPageIndex' = Mounted(IF token # First THEN Unbounded ELSE 0, maxPageIndex)
    /\ UNCHANGED currentPage

(* Mutant: the list of a query of one page is emptied.                     *)
ContinueResetEmpty(token) ==
    /\ tokenList' = Mounted(IF token # First THEN <<First, token>> ELSE <<>>, tokenList)
    /\ currentPage' = Mounted(0, currentPage)
    /\ maxPageIndex' = Mounted(IF token # First THEN Unbounded ELSE 0, maxPageIndex)

(* _resetToFirstPage                                                       *)
ContinueReset(token) ==
    /\ tokenList' = Mounted(IF token # First THEN <<First, token>> ELSE <<First>>, tokenList)
    /\ currentPage' = Mounted(0, currentPage)
    /\ maxPageIndex' = Mounted(IF token # First THEN Unbounded ELSE 0, maxPageIndex)

Answer(s) ==
    LET r == flight[s]
        token == NextToken(r)
    IN  /\ r # None
        /\ Land(s)
        /\ shown' = Mounted([query |-> r.query, page |-> r.token.page], shown)
        /\ \/ r.kind = "page" /\ ContinuePage(r, token)
           \/ r.kind = "reset" /\ ContinueReset(token)
           \/ r.kind = "refresh" /\ UNCHANGED <<tokenList, currentPage, maxPageIndex>>
        /\ UNCHANGED orderly

(* Mutant: the spinner is stopped after the await, not in a finally.       *)
FailWithoutFinally(s) ==
    /\ flight[s] # None
    /\ flight' = [flight EXCEPT ![s] = None]
    /\ orderly' = FALSE
    /\ UNCHANGED <<phase, query, typing, isBusy, paging>>

(* The promise is rejected: the code after the await does not run.         *)
Fail(s) ==
    /\ flight[s] # None
    /\ Land(s)
    /\ orderly' = FALSE
    /\ UNCHANGED paging

(* Mutant: the timer is not cancelled.                                     *)
UnmountKeepingTimer ==
    /\ phase = "mounted" /\ phase' = "gone"
    /\ UNCHANGED <<query, paging, isBusy, typing, flight, orderly>>

(* componentWillUnmount cancels the timer; requests go on.                 *)
Unmount ==
    /\ phase = "mounted" /\ phase' = "gone"
    /\ pending' = None
    /\ UNCHANGED <<query, paging, isBusy, typed, flight, orderly>>

(* What the table offers its user, from its top to its bottom.             *)
FilterBox == \E f \in Filters : TypeFilter(f)
Header(s) == \E k \in SortKeys : RequestSort(s, k)
Footer(s) ==
    \/ \E n \in PageSizes : RequestRowsPerPage(s, n)
    \/ PreviousPage(s) \/ NextPage(s)

Next ==
    \/ FilterBox
    \/ \E s \in Slots :
          \/ Header(s) \/ Footer(s)
          \/ Mount(s) \/ Refresh(s) \/ RequestFilter(s) \/ Answer(s) \/ Fail(s)
    \/ Unmount

Spec == Init /\ [][Next]_vars

(* A request is answered or fails, and the timer fires.  The timer waits   *)
(* for nothing, but in the model for a free slot, which answers give and   *)
(* other requests take away: hence strong fairness.                        *)
FairSpec ==
    /\ Spec
    /\ \A s \in Slots : WF_vars(Answer(s) \/ Fail(s))
    /\ SF_vars(\E s \in Slots : RequestFilter(s))

-----------------------------------------------------------------------------
(* Properties.                                                             *)

TypeOK ==
    /\ phase \in {"new", "mounted", "gone"}
    /\ query \in Queries
    /\ currentPage \in Nat /\ maxPageIndex \in Nat
    /\ tokenList \in Seq(Tokens) /\ Len(tokenList) > 0
    /\ isBusy \in BOOLEAN
    /\ typed \in Filters /\ pending \in Filters \cup {None}
    /\ flight \in [Slots -> Requests \cup {None}]
    /\ shown \in [query : Queries, page : Nat] \cup {None}
    /\ orderly \in BOOLEAN

(* The spinner (CustomTable.tsx:367) never turns for nothing: while it is  *)
(* on, a request is in flight whose finally (line 491) will stop it,       *)
(* however requests overlap and whichever of them fail.                    *)
SpinnerIsWaiting == phase = "mounted" /\ isBusy => ~Idle

(* "Reset state, since this invalidates the token list and page counter    *)
(* calculations" (line 569): at rest, the rows shown are those of the      *)
(* query in the header and of the page in the footer, that page and those  *)
(* after it have their tokens, all of this query, and the last page is not *)
(* taken for another.                                                      *)
PagesInOrder ==
    phase = "mounted" /\ Idle =>
        /\ shown = [query |-> query, page |-> currentPage]
        /\ currentPage < Len(tokenList)
        /\ \A i \in 2 .. Len(tokenList) : tokenList[i] = [query |-> query, page |-> i - 1]
        /\ maxPageIndex \in {Unbounded, LastPage[query]}
        /\ currentPage < LastPage[query] => currentPage + 1 < Len(tokenList)

(* It holds as long as no reload fails, none overlaps another (nothing in  *)
(* the code stops a user from sorting while a page is on its way) and no   *)
(* filter is asked for from a page other than the first.                   *)
OrderlyPages == orderly => PagesInOrder

(* After componentWillUnmount (line 277) no request leaves the table, the  *)
(* timer's included, and late answers change nothing it shows.             *)
SilentWhenGone ==
    [][phase = "gone" =>
          /\ UNCHANGED <<query, currentPage, maxPageIndex, isBusy, shown, typed>>
          /\ \A s \in Slots : flight'[s] \in {flight[s], None}]_vars

(* What is typed is asked for in the end (line 210): a filter the user     *)
(* leaves in the box is the one in the requests, unless the table goes.    *)
FilterCatchesUp == (phase = "mounted") ~> (query.filter = typed \/ phase = "gone")

(* The table keeps the promises of TableContract.                          *)
Contract == INSTANCE TableContract WITH
    header <- query, busy <- isBusy,
    asked <- [s \in Slots |-> IF flight[s] = None THEN None ELSE flight[s].query]

KeepsContract == Contract!TableSpec
=============================================================================
