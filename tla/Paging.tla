------------------------------- MODULE Paging -------------------------------
(***************************************************************************)
(* The three loops that read a paged list of Temporal Cloud: CountAPIKeys  *)
(* and FindServiceAccountByName (client/grpc.go), and the sweep of what    *)
(* acceptance tests left behind (cmd/sweep/main.go).  While one reads, the *)
(* list changes and the server may hand out a token it handed out before.  *)
(*                                                                         *)
(* Items are numbered in the order the server lists them.  A token is the  *)
(* number of the last item of a page: a cursor, not an offset, so removing *)
(* an item moves no other to a page already read.                          *)
(***************************************************************************)
EXTENDS Naturals, FiniteSets

CONSTANTS
    Items,      \* the numbers an item may have
    Matching,   \* the items with the name, or the prefix, asked for
    PageSize,
    Patience,   \* the pages that fit into the context of a request
    Callers     \* which loops run

Start == 0      \* the empty token

(* More pages than a server that never goes back can give (PagesBounded).  *)
MaxPages == Cardinality(Items) + 2

ASSUME ItemsAssumption ==
    /\ Items \subseteq Nat \ {Start} /\ IsFiniteSet(Items)
    /\ Matching \subseteq Items
    /\ PageSize \in Nat \ {0} /\ Patience \in Nat
    /\ Callers \subseteq {"count", "find", "sweep"}

VARIABLES
    live,       \* the items the server has
    caller,     \* the loop that runs
    pc,         \* "list": about to ask for a page; "delete": sweep works on one
    pageToken, nextPageToken,
    count,      \* of CountAPIKeys; swept, of the sweep
    todo,       \* what the sweep has still to delete of its page
    answer,     \* what the call returned
    pages,      \* the pages the call was given; a sweep's, which no context
                \* bounds, up to MaxPages and until the server goes back
    initial,    \* history: the items when the call began
    born,       \* history: items created since
    seen,       \* history: items the call has been shown, or tried to delete
    rewound     \* history: the server handed out an earlier token

loopVars == <<pc, pageToken, nextPageToken, count, todo, answer>>
historyVars == <<pages, initial, seen, rewound>>
vars == <<live, caller, loopVars, born, historyVars>>

Answer == {"none", "ok", "not_found", "unavailable", "other"}

TypeOK ==
    /\ live \subseteq Items /\ initial \subseteq Items /\ born \subseteq Items
    /\ caller \in Callers
    /\ pc \in {"list", "delete", "done"}
    /\ pageToken \in Nat /\ nextPageToken \in Nat
    /\ count \in Nat /\ pages \in Nat
    /\ todo \subseteq Matching
    /\ answer \in Answer
    /\ seen \subseteq Items
    /\ rewound \in BOOLEAN

Init ==
    /\ live \in SUBSET Items
    /\ caller \in Callers
    /\ pc = "list"
    /\ pageToken = Start /\ nextPageToken = Start
    /\ count = 0 /\ pages = 0
    /\ todo = {}
    /\ answer = "none"
    /\ initial = live
    /\ born = {} /\ seen = {}
    /\ rewound = FALSE

-----------------------------------------------------------------------------
(* The server, and whoever else uses the account.                          *)

Create(i) ==
    /\ pc # "done" /\ i \notin live \cup initial \cup born
    /\ live' = live \cup {i}
    /\ born' = born \cup {i}
    /\ UNCHANGED <<caller, loopVars, historyVars>>

Remove(i) ==
    /\ pc # "done" /\ i \in live
    /\ live' = live \ {i}
    /\ UNCHANGED <<caller, loopVars, born, historyVars>>

Ahead == {i \in live : i > pageToken}

IsLast(i, S) == i \in S /\ \A j \in S : j <= i

(* A page holds the next items in order, at most PageSize, maybe fewer.    *)
Pages ==
    {S \in SUBSET Ahead :
        /\ Cardinality(S) <= PageSize
        /\ S = {} => Ahead = {}
        /\ \A i \in S, j \in Ahead : j < i => j \in S}

(* The token after page S: none is left, or the cursor; or, from a server  *)
(* that misbehaves, the token it was asked with or an earlier one.         *)
Tokens(S) ==
    {t \in Items \cup {Start} :
        \/ t = Start /\ S = Ahead
        \/ IsLast(t, S)
        \/ t # Start /\ t <= pageToken}

-----------------------------------------------------------------------------
(* The loops.                                                              *)

Return(a) == pc' = "done" /\ answer' = a

FaultyAdvance(next) ==       \* a token that does not advance ends the list
    IF next \in {Start, pageToken}
    THEN /\ Return(IF caller = "find" THEN "not_found" ELSE "ok")
         /\ UNCHANGED <<pageToken, nextPageToken>>
    ELSE /\ pc' = "list" /\ pageToken' = next /\ nextPageToken' = Start
         /\ UNCHANGED answer

FaultyAdvanceUnguarded(next) ==  \* no check that the token advances
    IF next = Start
    THEN /\ Return(IF caller = "find" THEN "not_found" ELSE "ok")
         /\ UNCHANGED <<pageToken, nextPageToken>>
    ELSE /\ pc' = "list" /\ pageToken' = next /\ nextPageToken' = Start
         /\ UNCHANGED answer

(* The end of the loop's body: the last page, a token that does not        *)
(* advance, or the next page.                                              *)
Advance(next) ==
    IF next = Start
    THEN /\ Return(IF caller = "find" THEN "not_found" ELSE "ok")
         /\ UNCHANGED <<pageToken, nextPageToken>>
    ELSE IF next = pageToken
    THEN Return("unavailable") /\ UNCHANGED <<pageToken, nextPageToken>>
    ELSE /\ pc' = "list" /\ pageToken' = next /\ nextPageToken' = Start
         /\ UNCHANGED answer

InTime == caller = "sweep" \/ pages < Patience

(* A page arrived.                                                         *)
Shown(S, next) ==
    /\ pc = "list" /\ InTime
    /\ S \in Pages /\ next \in Tokens(S)
    /\ rewound' = (rewound \/ (next # Start /\ next < pageToken))
    /\ pages' = IF caller = "sweep" /\ (rewound' \/ pages = MaxPages)
                THEN pages ELSE pages + 1
    /\ UNCHANGED <<live, caller, born, initial>>

CountPage(S, next) ==
    /\ caller = "count" /\ Shown(S, next)
    /\ count' = count + Cardinality(S)
    /\ seen' = seen \cup S
    /\ Advance(next)
    /\ UNCHANGED todo

(* The first match on the page is returned, the rest is not looked at.     *)
FindInPage(S, next) ==
    /\ caller = "find" /\ Shown(S, next)
    /\ seen' = seen \cup S
    /\ \/ /\ S \cap Matching # {}
          /\ Return("ok") /\ UNCHANGED <<pageToken, nextPageToken>>
       \/ S \cap Matching = {} /\ Advance(next)
    /\ UNCHANGED <<count, todo>>

SweepPage(S, next) ==
    /\ caller = "sweep" /\ Shown(S, next)
    /\ pc' = "delete"
    /\ todo' = S \cap Matching
    /\ nextPageToken' = next
    /\ UNCHANGED <<seen, pageToken, count, answer>>

FaultySweepOne(i) ==         \* tries a deletion that failed again
    /\ pc = "delete" /\ i \in todo /\ \A j \in todo : i <= j
    /\ \/ i \in live /\ live' = live \ {i} /\ count' = count + 1 /\ todo' = todo \ {i}
       \/ live' \in {live, live \ {i}} /\ UNCHANGED <<count, todo>>
    /\ seen' = seen \cup {i}
    /\ UNCHANGED <<caller, pc, pageToken, nextPageToken, answer, born, pages, initial, rewound>>

(* A deletion the cloud accepts is counted; one that fails, whether or not *)
(* it took effect, is only reported.                                       *)
SweepOne(i) ==
    /\ pc = "delete" /\ i \in todo /\ \A j \in todo : i <= j
    /\ \/ i \in live /\ live' = live \ {i} /\ count' = count + 1
       \/ live' \in {live, live \ {i}} /\ UNCHANGED count
    /\ todo' = todo \ {i}
    /\ seen' = seen \cup {i}
    /\ UNCHANGED <<caller, pc, pageToken, nextPageToken, answer, born, pages, initial, rewound>>

SweepNext ==
    /\ pc = "delete" /\ todo = {}
    /\ Advance(nextPageToken)
    /\ UNCHANGED <<live, caller, count, todo, born, historyVars>>

(* The RPC fails: any error, or the end of the context.                    *)
ListFails ==
    /\ pc = "list"
    /\ IF InTime THEN Return("other") ELSE Return("unavailable")
    /\ UNCHANGED <<live, caller, pageToken, nextPageToken, count, todo, born, historyVars>>

Page ==
    \E S \in SUBSET Items, next \in Items \cup {Start} :
        CountPage(S, next) \/ FindInPage(S, next) \/ SweepPage(S, next)

Loop == Page \/ (\E i \in Items : SweepOne(i)) \/ SweepNext \/ ListFails

Next == Loop \/ \E i \in Items : Create(i) \/ Remove(i)

Spec == Init /\ [][Next]_vars

(* The goroutine runs, and an RPC returns.                                 *)
FairSpec == Spec /\ WF_vars(Loop)

-----------------------------------------------------------------------------
(* Properties.                                                             *)

Throughout == initial \cap live

(* Whatever is created and removed during the reading, and however often   *)
(* the server repeats itself: a count is not below the number of keys that *)
(* exist all the while (below it a mint passes the ceiling), and, unless   *)
(* the server went back, not above the number that ever existed; a name    *)
(* said to be free has no account (else the write creates a second one);   *)
(* and a sweep that ends has tried every account with the prefix.          *)
NothingMissed ==
    /\ caller = "count" /\ answer = "ok" =>
          /\ Cardinality(Throughout) <= count
          /\ ~rewound => count <= Cardinality(initial \cup born)
    /\ caller = "find" /\ answer = "not_found" => Throughout \cap Matching = {}
    /\ caller = "sweep" /\ answer = "ok" => Throughout \cap Matching \subseteq seen

(* A server that repeats its tokens, but never goes back, cannot keep a    *)
(* loop: it is given no more pages than items ever existed, and one.  This *)
(* is the half of CallEnds that needs no fairness, and what the check of   *)
(* the token is for: without it only the context would bound the loop.     *)
PagesBounded == ~rewound => pages <= Cardinality(initial \cup born) + 1

(* Every call ends, also against a server whose token stops advancing.     *)
(* Against one whose tokens go in circles the context ends the calls of    *)
(* the plugin; the sweep has none, and may run for ever.                   *)
CallEnds == pc = "list" ~> pc = "done" \/ (caller = "sweep" /\ rewound)

=============================================================================
