---------------------------- MODULE PagingProofs ----------------------------
(***************************************************************************)
(* Proof that the loops over a paged list miss nothing, for any list and   *)
(* page size, whatever changes meanwhile and whatever tokens come back,    *)
(* and that a server that never goes back cannot keep them.                *)
(***************************************************************************)
EXTENDS Paging, FiniteSetTheorems, TLAPS

-----------------------------------------------------------------------------
(* A page and its token.                                                   *)

LEMMA PageIs ==
    ASSUME TypeOK, NEW S \in Pages, NEW next \in Tokens(S)
    PROVE  /\ S \subseteq live /\ S \subseteq Items /\ next \in Nat
           /\ \A i \in S : i > pageToken
           /\ next = Start => \A i \in live : i <= pageToken \/ i \in S
           /\ next # Start /\ next > pageToken
                 => /\ \A i \in live : i <= next => i <= pageToken \/ i \in S
                    /\ \A i \in S : i <= next
<1> USE ItemsAssumption DEF TypeOK, Ahead, Start
<1>1. /\ S \subseteq live /\ \A i \in S : i > pageToken
      /\ \A i \in S, j \in Ahead : j < i => j \in S
    BY DEF Pages
<1>2. next \in Items \cup {Start} /\ next \in Nat
    BY DEF Tokens
<1>3. next = Start => S = Ahead
    <2>1. \A i \in S : i # Start
        BY <1>1
    <2> QED
        BY <2>1 DEF Tokens, IsLast
<1>4. next # Start /\ next > pageToken => IsLast(next, S)
    <2> SUFFICES ASSUME next # Start, next > pageToken PROVE IsLast(next, S)
        OBVIOUS
    <2>1. ~(next <= pageToken)
        BY <1>2
    <2> QED
        BY <2>1 DEF Tokens
<1>5. next # Start /\ next > pageToken => \A i \in live : i <= next => i <= pageToken \/ i \in S
    <2> SUFFICES ASSUME next # Start, next > pageToken, NEW i \in live, i <= next, ~(i <= pageToken)
                 PROVE  i \in S
        OBVIOUS
    <2>1. i \in Ahead
        OBVIOUS
    <2>2. next \in S
        BY <1>4 DEF IsLast
    <2> QED
        BY <1>1, <1>2, <2>1, <2>2
<1>6. next = Start => \A i \in live : i <= pageToken \/ i \in S
    BY <1>3
<1> QED
    BY <1>1, <1>2, <1>4, <1>5, <1>6 DEF IsLast

LEMMA CardinalityAdds ==
    ASSUME NEW S, NEW T, IsFiniteSet(S), IsFiniteSet(T)
    PROVE  /\ Cardinality(S \cup T) <= Cardinality(S) + Cardinality(T)
           /\ S \cap T = {} => Cardinality(S \cup T) = Cardinality(S) + Cardinality(T)
<1>1. /\ IsFiniteSet(S \cap T) /\ Cardinality(S \cap T) \in Nat
      /\ Cardinality(S \cup T) = Cardinality(S) + Cardinality(T) - Cardinality(S \cap T)
    BY FS_Union, FS_Intersection, FS_CardinalityType
<1>2. Cardinality(S) \in Nat /\ Cardinality(T) \in Nat
    BY FS_CardinalityType
<1>3. S \cap T = {} => Cardinality(S \cap T) = 0
    BY FS_EmptySet, Zenon
<1> QED
    BY <1>1, <1>2, <1>3

-----------------------------------------------------------------------------
(* What a loop has seen by the time it asks for the next page.             *)

Wanted == IF caller = "sweep" THEN Throughout \cap Matching ELSE Throughout

Reached ==
    /\ live \subseteq initial \cup born
    /\ pc = "list" => answer = "none"
    /\ pc # "done" => \A i \in Wanted : i <= pageToken => i \in seen
    /\ pc = "delete" =>
          /\ caller = "sweep" /\ answer = "none"
          /\ \A i \in Wanted :
                nextPageToken = Start \/ i <= nextPageToken => i \in seen \cup todo

Counted ==
    caller = "count" =>
        /\ Cardinality(seen) <= count
        /\ ~rewound => /\ count = Cardinality(seen) /\ seen \subseteq initial \cup born
                       /\ pc = "list" => \A i \in seen : i <= pageToken

Looked == caller = "find" /\ pc = "list" => seen \cap Matching = {}

LEMMA TypeStep == TypeOK /\ [Next]_vars => TypeOK'
<1> SUFFICES ASSUME TypeOK, [Next]_vars PROVE TypeOK'
    OBVIOUS
<1> USE ItemsAssumption DEF TypeOK, Answer, Start, historyVars, loopVars
<1>1. ASSUME NEW next \in Nat, Advance(next)
      PROVE  /\ pc' \in {"list", "done"} /\ pageToken' \in Nat /\ nextPageToken' \in Nat
             /\ answer' \in Answer
    BY <1>1 DEF Advance, Return
<1>2. ASSUME NEW S \in SUBSET Items, NEW next \in Items \cup {Start},
             CountPage(S, next) \/ FindInPage(S, next) \/ SweepPage(S, next)
      PROVE  TypeOK'
    <2>1. Cardinality(S) \in Nat
        BY FS_Subset, FS_CardinalityType
    <2>2. pages' \in Nat /\ rewound' \in BOOLEAN
        <3>1. Shown(S, next)
            BY <1>2 DEF CountPage, FindInPage, SweepPage
        <3>2. pages' \in {pages, pages + 1}
            BY <3>1, Zenon DEF Shown
        <3>3. rewound' \in BOOLEAN
            BY <3>1, Zenon DEF Shown
        <3> QED
            BY <3>2, <3>3
    <2>3. UNCHANGED <<live, caller, born, initial>>
        BY <1>2 DEF CountPage, FindInPage, SweepPage, Shown
    <2>4. CASE CountPage(S, next)
        BY <1>1, <2>1, <2>2, <2>3, <2>4 DEF CountPage
    <2>5. CASE FindInPage(S, next)
        <3>1. Advance(next) \/ (Return("ok") /\ UNCHANGED <<pageToken, nextPageToken>>)
            BY <2>5 DEF FindInPage
        <3>2. pc' \in {"list", "done"} /\ pageToken' \in Nat /\ nextPageToken' \in Nat /\ answer' \in Answer
            BY <1>1, <3>1 DEF Return
        <3> QED
            BY <2>2, <2>3, <2>5, <3>2 DEF FindInPage
    <2>6. CASE SweepPage(S, next)
        BY <2>2, <2>3, <2>6 DEF SweepPage
    <2> QED
        BY <1>2, <2>4, <2>5, <2>6
<1>3. ASSUME NEW i \in Items, SweepOne(i) PROVE TypeOK'
    <2>1. live' \subseteq Items /\ count' \in Nat
        <3>1. live' \in {live, live \ {i}}
            BY <1>3, Zenon DEF SweepOne
        <3>2. count' = count + 1 \/ count' = count
            BY <1>3, Zenon DEF SweepOne
        <3> QED
            BY <3>1, <3>2
    <2>2. todo' \subseteq Matching /\ seen' \subseteq Items
        BY <1>3 DEF SweepOne
    <2>3. UNCHANGED <<caller, pc, pageToken, nextPageToken, answer, born, pages, initial, rewound>>
        BY <1>3 DEF SweepOne
    <2> QED
        BY <2>1, <2>2, <2>3
<1>4. CASE SweepNext
    BY <1>1, <1>4 DEF SweepNext
<1>5. CASE ListFails
    BY <1>5 DEF ListFails, Return
<1>6. ASSUME NEW i \in Items, Create(i) \/ Remove(i) PROVE TypeOK'
    BY <1>6 DEF Create, Remove
<1>7. CASE UNCHANGED vars
    BY <1>7 DEF vars
<1> QED
    BY <1>2, <1>3, <1>4, <1>5, <1>6, <1>7 DEF Next, Loop, Page

(* One page, for whichever loop: everything wanted up to the next token,   *)
(* or everything at all at the end of the list, is seen or on the page.    *)
LEMMA PageReaches ==
    ASSUME TypeOK, Reached, NEW S \in SUBSET Items, NEW next \in Items \cup {Start},
           Shown(S, next)
    PROVE  /\ UNCHANGED <<live, caller, born, initial>> /\ Wanted' = Wanted
           /\ next \in Nat /\ S \subseteq initial \cup born
           /\ \A i \in Wanted : next = Start \/ i <= next => i \in seen \cup S
<1> USE ItemsAssumption DEF TypeOK, Start
<1>1. UNCHANGED <<live, caller, born, initial>> /\ S \in Pages /\ next \in Tokens(S) /\ pc = "list"
    BY DEF Shown
<1>2. Wanted' = Wanted
    BY <1>1 DEF Wanted, Throughout
<1>3. next \in Nat /\ S \subseteq live
    BY <1>1, PageIs
<1>4. ASSUME NEW i \in Wanted, next = Start \/ i <= next PROVE i \in seen \cup S
    <2>1. i \in live /\ i \in Nat
        BY DEF Wanted, Throughout
    <2>2. i <= pageToken => i \in seen
        BY <1>1 DEF Reached
    <2>3. CASE next = Start
        BY <1>1, <2>1, <2>2, <2>3, PageIs
    <2>4. CASE next # Start /\ next > pageToken
        BY <1>1, <1>4, <2>1, <2>2, <2>4, PageIs
    <2>5. CASE next # Start /\ next <= pageToken
        BY <1>3, <1>4, <2>1, <2>2, <2>5
    <2> QED
        BY <1>3, <2>3, <2>4, <2>5
<1> QED
    BY <1>1, <1>2, <1>3, <1>4 DEF Reached

LEMMA CountStep ==
    ASSUME TypeOK, Reached, Counted, NEW S \in SUBSET Items, NEW next \in Items \cup {Start},
           CountPage(S, next)
    PROVE  Reached' /\ Counted' /\ Looked' /\ NothingMissed'
<1> USE ItemsAssumption DEF TypeOK, Start
<1>1. Shown(S, next) /\ caller = "count" /\ caller' = "count"
    BY DEF CountPage, Shown
<1>2. /\ UNCHANGED <<live, born, initial>> /\ Wanted' = Wanted /\ Wanted = Throughout
      /\ next \in Nat /\ S \subseteq initial \cup born
      /\ \A i \in Wanted : next = Start \/ i <= next => i \in seen \cup S
    BY <1>1, PageReaches DEF Wanted
<1>3. seen' = seen \cup S /\ count' = count + Cardinality(S)
    BY DEF CountPage
<1>4. /\ IsFiniteSet(S) /\ IsFiniteSet(seen) /\ IsFiniteSet(initial \cup born)
      /\ Cardinality(S) \in Nat /\ Cardinality(seen) \in Nat /\ Cardinality(seen') \in Nat
      /\ IsFiniteSet(seen')
    <2>1. seen \cup S \subseteq Items /\ initial \cup born \subseteq Items
        OBVIOUS
    <2> QED
        BY <1>3, <2>1, FS_Subset, FS_CardinalityType
<1>5. Cardinality(seen') <= count'
    <2>1. Cardinality(seen \cup S) <= Cardinality(seen) + Cardinality(S)
        BY <1>4, CardinalityAdds
    <2> QED
        BY <1>1, <1>3, <1>4, <2>1 DEF Counted
<1>6. ~rewound' => /\ count' = Cardinality(seen') /\ seen' \subseteq initial \cup born
                   /\ next > pageToken => \A i \in seen' : i <= next
    <2> SUFFICES ASSUME ~rewound'
                 PROVE  /\ count' = Cardinality(seen') /\ seen' \subseteq initial \cup born
                        /\ next > pageToken => \A i \in seen' : i <= next
        OBVIOUS
    <2>1. ~rewound /\ pc = "list" /\ S \in Pages /\ next \in Tokens(S)
        BY <1>1 DEF Shown
    <2>2. /\ count = Cardinality(seen) /\ seen \subseteq initial \cup born
          /\ \A i \in seen : i <= pageToken
        BY <1>1, <2>1 DEF Counted
    <2>3. \A i \in S : i > pageToken
        BY <2>1, PageIs
    <2>4. seen \cap S = {}
        BY <2>2, <2>3
    <2>5. Cardinality(seen \cup S) = Cardinality(seen) + Cardinality(S)
        BY <1>4, <2>4, CardinalityAdds
    <2>6. next > pageToken => \A i \in seen' : i <= next
        <3> SUFFICES ASSUME next > pageToken PROVE \A i \in seen' : i <= next
            OBVIOUS
        <3>1. \A i \in S : i <= next
            BY <2>1, PageIs
        <3>2. \A i \in seen : i <= next
            BY <1>2, <2>2
        <3> QED
            BY <1>3, <3>1, <3>2
    <2> QED
        BY <1>2, <1>3, <2>2, <2>5, <2>6
<1>7. CASE pc' = "list" /\ pageToken' = next /\ next # Start /\ next # pageToken /\ answer' = answer
    <2>1. ~rewound' => next > pageToken
        <3>1. rewound' = (rewound \/ (next # Start /\ next < pageToken))
            BY <1>1, Zenon DEF Shown
        <3>2. next < pageToken => rewound'
            BY <1>7, <3>1, Zenon
        <3> QED
            BY <1>2, <1>7, <3>2
    <2>2. Counted'
        BY <1>2, <1>5, <1>6, <1>7, <2>1 DEF Counted
    <2>3. answer = "none"
        BY <1>1 DEF Shown, Reached
    <2>4. Reached'
        BY <1>2, <1>3, <1>7, <2>3 DEF Reached
    <2> QED
        BY <1>1, <1>7, <2>2, <2>3, <2>4 DEF Looked, NothingMissed
<1>8. CASE pc' = "done" /\ (answer' = "ok" => next = Start)
    <2>1. Counted'
        BY <1>2, <1>5, <1>6, <1>8 DEF Counted
    <2>2. Reached'
        BY <1>2, <1>8 DEF Reached
    <2>3. answer' = "ok" => Cardinality(Throughout') <= count'
        <3> SUFFICES ASSUME answer' = "ok" PROVE Cardinality(Throughout') <= count'
            OBVIOUS
        <3>1. Throughout' = Throughout /\ Throughout \subseteq seen'
            BY <1>2, <1>3, <1>8 DEF Throughout
        <3>2. Cardinality(Throughout) <= Cardinality(seen')
            BY <1>4, <3>1, FS_Subset
        <3>3. Cardinality(Throughout) \in Nat
            BY <1>4, <3>1, FS_Subset, FS_CardinalityType
        <3> QED
            BY <1>3, <1>4, <1>5, <3>1, <3>2, <3>3
    <2>4. ~rewound' => count' <= Cardinality((initial \cup born)')
        <3> SUFFICES ASSUME ~rewound' PROVE count' <= Cardinality(initial \cup born)
            BY <1>2
        <3>1. Cardinality(seen') <= Cardinality(initial \cup born)
            BY <1>4, <1>6, FS_Subset
        <3> QED
            BY <1>6, <3>1
    <2> QED
        BY <1>1, <1>8, <2>1, <2>2, <2>3, <2>4 DEF Looked, NothingMissed
<1>9. Advance(next)
    BY DEF CountPage
<1> QED
    BY <1>1, <1>7, <1>8, <1>9 DEF Advance, Return

LEMMA FindStep ==
    ASSUME TypeOK, Reached, Looked, NEW S \in SUBSET Items, NEW next \in Items \cup {Start},
           FindInPage(S, next)
    PROVE  Reached' /\ Counted' /\ Looked' /\ NothingMissed'
<1> USE DEF TypeOK, Start
<1>1. Shown(S, next) /\ caller = "find" /\ caller' = "find" /\ seen' = seen \cup S
    BY DEF FindInPage, Shown
<1>2. /\ UNCHANGED <<live, born, initial>> /\ Wanted' = Wanted /\ Wanted = Throughout
      /\ \A i \in Wanted : next = Start \/ i <= next => i \in seen'
    BY <1>1, PageReaches DEF Wanted
<1>3. pc = "list" /\ answer = "none" /\ seen \cap Matching = {}
    BY <1>1 DEF Shown, Reached, Looked
<1>4. CASE /\ pc' = "list" /\ pageToken' = next /\ next # Start /\ answer' = answer
           /\ S \cap Matching = {}
    <2>1. Reached' /\ Looked'
        BY <1>1, <1>2, <1>3, <1>4 DEF Reached, Looked
    <2> QED
        BY <1>1, <1>3, <1>4, <2>1 DEF Counted, NothingMissed
<1>5. CASE pc' = "done" /\ (answer' = "not_found" => next = Start /\ S \cap Matching = {})
    <2>1. Reached' /\ Looked' /\ Counted'
        BY <1>1, <1>2, <1>5 DEF Reached, Looked, Counted
    <2>2. answer' = "not_found" => Throughout' \cap Matching = {}
        <3> SUFFICES ASSUME answer' = "not_found" PROVE Throughout' \cap Matching = {}
            OBVIOUS
        <3>1. Throughout' \subseteq seen'
            BY <1>2, <1>5 DEF Throughout
        <3> QED
            BY <1>1, <1>3, <1>5, <3>1
    <2> QED
        BY <1>1, <2>1, <2>2 DEF NothingMissed
<1>6. \/ Return("ok")
      \/ S \cap Matching = {} /\ Advance(next)
    BY DEF FindInPage
<1> QED
    BY <1>1, <1>4, <1>5, <1>6 DEF Advance, Return

LEMMA SweepStep ==
    ASSUME TypeOK, Reached, NEW S \in SUBSET Items, NEW next \in Items \cup {Start},
           SweepPage(S, next)
    PROVE  Reached' /\ Counted' /\ Looked' /\ NothingMissed'
<1> USE DEF TypeOK, Start
<1>1. /\ Shown(S, next) /\ caller = "sweep" /\ caller' = "sweep"
      /\ pc' = "delete" /\ todo' = S \cap Matching /\ nextPageToken' = next
      /\ UNCHANGED <<seen, pageToken, answer>>
    BY DEF SweepPage, Shown
<1>2. /\ UNCHANGED <<live, born, initial>> /\ Wanted' = Wanted
      /\ \A i \in Wanted : next = Start \/ i <= next => i \in seen \cup S
    BY <1>1, PageReaches
<1>3. pc = "list" /\ answer = "none"
    BY <1>1 DEF Shown, Reached
<1>4. \A i \in Wanted : i \in Matching
    BY <1>1 DEF Wanted
<1> QED
    BY <1>1, <1>2, <1>3, <1>4 DEF Reached, Counted, Looked, NothingMissed

LEMMA OtherStep ==
    ASSUME TypeOK, Reached, Counted, Looked, NothingMissed,
           \/ \E i \in Items : SweepOne(i) \/ Create(i) \/ Remove(i)
           \/ SweepNext \/ ListFails
    PROVE  Reached' /\ Counted' /\ Looked' /\ NothingMissed'
<1> USE ItemsAssumption DEF TypeOK, Start
<1>1. ASSUME NEW i \in Items, SweepOne(i)
      PROVE  Reached' /\ Counted' /\ Looked' /\ NothingMissed'
    <2>1. /\ live' \subseteq live /\ todo' = todo \ {i} /\ seen' = seen \cup {i} /\ pc = "delete"
          /\ UNCHANGED <<caller, pc, pageToken, nextPageToken, answer, born, initial>>
        BY <1>1 DEF SweepOne
    <2>2. caller = "sweep" /\ answer = "none"
        BY <2>1 DEF Reached
    <2>3. Wanted' \subseteq Wanted
        BY <2>1 DEF Wanted, Throughout
    <2>4. Reached'
        BY <2>1, <2>2, <2>3 DEF Reached
    <2> QED
        BY <2>1, <2>2, <2>4 DEF Counted, Looked, NothingMissed
<1>2. CASE SweepNext
    <2>1. /\ pc = "delete" /\ todo = {} /\ caller = "sweep" /\ answer = "none"
          /\ UNCHANGED <<live, caller, count, todo, born, initial, seen>>
        BY <1>2 DEF SweepNext, Reached, historyVars
    <2>2. Wanted' = Wanted /\ Throughout' = Throughout
        BY <2>1 DEF Wanted, Throughout
    <2>3. \A i \in Wanted : nextPageToken = Start \/ i <= nextPageToken => i \in seen
        BY <2>1 DEF Reached
    <2>4. CASE pc' = "list" /\ pageToken' = nextPageToken /\ answer' = answer
        BY <2>1, <2>2, <2>3, <2>4 DEF Reached, Counted, Looked, NothingMissed
    <2>5. CASE pc' = "done" /\ (answer' = "ok" => nextPageToken = Start)
        <3>1. answer' = "ok" => Throughout' \cap Matching \subseteq seen'
            BY <2>1, <2>2, <2>3, <2>5 DEF Wanted
        <3> QED
            BY <2>1, <2>2, <2>5, <3>1 DEF Reached, Counted, Looked, NothingMissed
    <2>6. Advance(nextPageToken)
        BY <1>2 DEF SweepNext
    <2> QED
        BY <2>1, <2>4, <2>5, <2>6 DEF Advance, Return
<1>3. CASE ListFails
    <2>1. /\ pc' = "done" /\ answer' \in {"other", "unavailable"}
          /\ UNCHANGED <<live, caller, count, born, initial, seen, rewound>>
        BY <1>3 DEF ListFails, Return, historyVars
    <2> QED
        BY <2>1 DEF Reached, Counted, Looked, NothingMissed
<1>4. ASSUME NEW i \in Items, Create(i) \/ Remove(i)
      PROVE  Reached' /\ Counted' /\ Looked' /\ NothingMissed'
    <2>1. /\ pc # "done" /\ answer = "none"
          /\ UNCHANGED <<caller, pc, pageToken, nextPageToken, count, todo, answer, initial,
                         seen, rewound>>
        BY <1>4 DEF Create, Remove, Reached, loopVars, historyVars
    <2>2. /\ born \subseteq born' /\ live' \subseteq initial \cup born'
          /\ Throughout' \subseteq Throughout
        BY <1>4 DEF Create, Remove, Reached, Throughout, historyVars
    <2>3. Wanted' \subseteq Wanted
        BY <2>1, <2>2 DEF Wanted
    <2>4. Reached'
        BY <2>1, <2>2, <2>3 DEF Reached
    <2>5. Counted' /\ Looked'
        BY <2>1, <2>2 DEF Counted, Looked
    <2> QED
        BY <2>1, <2>4, <2>5 DEF NothingMissed
<1> QED
    BY <1>1, <1>2, <1>3, <1>4

-----------------------------------------------------------------------------
(* How many pages there can be: each one but the last passes an item.      *)

Existed == initial \cup born
Passed(t) == {i \in Existed : i <= t}

Measured ==
    ~rewound =>
        /\ pc = "list" => pages <= Cardinality(Passed(pageToken))
        /\ pc = "delete" =>
              /\ pages <= Cardinality(Passed(pageToken)) + 1
              /\ nextPageToken \notin {Start, pageToken} =>
                    pages <= Cardinality(Passed(nextPageToken))
        /\ pages <= Cardinality(Existed) + 1

(* A token that goes on passes at least the item it is the number of.      *)
LEMMA TokenPasses ==
    ASSUME TypeOK, live \subseteq Existed, NEW S \in Pages, NEW next \in Tokens(S),
           next # Start, next > pageToken
    PROVE  Cardinality(Passed(pageToken)) + 1 <= Cardinality(Passed(next))
<1> USE ItemsAssumption DEF TypeOK, Start
<1>1. next \in live
    <2>1. next \in Nat /\ ~(next <= pageToken)
        BY DEF Tokens
    <2>2. next \in S
        BY <2>1 DEF Tokens, IsLast
    <2> QED
        BY <2>2, PageIs
<1>2. Passed(pageToken) \subseteq Passed(next) /\ next \in Passed(next) /\ next \notin Passed(pageToken)
    <2>1. \A i \in Existed : i \in Nat
        BY DEF Existed
    <2>2. next \in Nat /\ next \in Existed
        BY <1>1, <2>1
    <2>3. ASSUME NEW i \in Existed, i <= pageToken PROVE i <= next
        BY <2>1, <2>2, <2>3
    <2>4. next <= next /\ ~(next <= pageToken)
        BY <2>2
    <2> QED
        BY <2>2, <2>3, <2>4 DEF Passed
<1>3. IsFiniteSet(Passed(next))
    <2>1. Passed(next) \subseteq Items
        BY DEF Passed, Existed
    <2> QED
        BY <2>1, FS_Subset
<1>4. /\ Cardinality(Passed(pageToken)) <= Cardinality(Passed(next))
      /\ Cardinality(Passed(pageToken)) # Cardinality(Passed(next))
    BY <1>2, <1>3, FS_Subset
<1>5. Cardinality(Passed(pageToken)) \in Nat /\ Cardinality(Passed(next)) \in Nat
    BY <1>2, <1>3, FS_Subset, FS_CardinalityType
<1> QED
    BY <1>4, <1>5

LEMMA PassedGrows ==
    ASSUME TypeOK, TypeOK', Existed \subseteq Existed', NEW t \in Nat
    PROVE  /\ Cardinality(Passed(t)) \in Nat /\ Cardinality(Existed) \in Nat
           /\ Cardinality(Passed(t)) <= Cardinality(Existed)
           /\ Cardinality(Passed(t)) <= Cardinality(Passed(t)')
           /\ Cardinality(Existed) <= Cardinality(Existed')
           /\ Cardinality(Passed(t)') \in Nat /\ Cardinality(Existed') \in Nat
<1> USE ItemsAssumption
<1>1. Existed' \subseteq Items /\ IsFiniteSet(Existed')
    <2>1. Existed' \subseteq Items
        BY DEF TypeOK, Existed
    <2> QED
        BY <2>1, FS_Subset
<1>2. IsFiniteSet(Existed) /\ Cardinality(Existed) <= Cardinality(Existed')
    BY <1>1, FS_Subset
<1>3. Passed(t) \subseteq Existed /\ Passed(t) \subseteq Passed(t)' /\ Passed(t)' \subseteq Existed'
    BY DEF Passed
<1>4. IsFiniteSet(Passed(t)') /\ IsFiniteSet(Passed(t))
    BY <1>1, <1>2, <1>3, FS_Subset
<1>5. /\ Cardinality(Passed(t)) <= Cardinality(Passed(t)')
      /\ Cardinality(Passed(t)) <= Cardinality(Existed)
    BY <1>2, <1>3, <1>4, FS_Subset
<1> QED
    BY <1>1, <1>2, <1>4, <1>5, FS_CardinalityType

LEMMA PageMeasured ==
    ASSUME TypeOK, TypeOK', Reached, Measured,
           NEW S \in SUBSET Items, NEW next \in Items \cup {Start},
           CountPage(S, next) \/ FindInPage(S, next) \/ SweepPage(S, next)
    PROVE  Measured'
<1> SUFFICES ASSUME ~rewound' PROVE Measured'
    BY DEF Measured
<1> USE ItemsAssumption DEF TypeOK, Start
<1>1. Shown(S, next)
    BY DEF CountPage, FindInPage, SweepPage
<1>2. /\ pc = "list" /\ S \in Pages /\ next \in Tokens(S) /\ next \in Nat
      /\ UNCHANGED <<live, born, initial>> /\ pages' \in {pages, pages + 1}
    BY <1>1 DEF Shown
<1>3. ~rewound /\ (next # Start => next >= pageToken)
    <2>1. rewound' = (rewound \/ (next # Start /\ next < pageToken))
        BY <1>1, Zenon DEF Shown
    <2>2. ~rewound /\ ~(next # Start /\ next < pageToken)
        BY <2>1, Zenon
    <2> QED
        BY <1>2, <2>2
<1>4. pages <= Cardinality(Passed(pageToken))
    BY <1>2, <1>3 DEF Measured
<1>5. Existed' = Existed /\ \A t : Passed(t)' = Passed(t)
    BY <1>2 DEF Existed, Passed
<1>6. next \notin {Start, pageToken} =>
          Cardinality(Passed(pageToken)) + 1 <= Cardinality(Passed(next))
    <2>1. live \subseteq Existed
        BY DEF Reached, Existed
    <2> QED
        BY <1>2, <1>3, <2>1, TokenPasses
<1>7. /\ Cardinality(Passed(pageToken)) \in Nat /\ Cardinality(Existed) \in Nat
      /\ Cardinality(Passed(next)) \in Nat
      /\ Cardinality(Passed(pageToken)) <= Cardinality(Existed)
    BY <1>2, <1>5, PassedGrows
<1>8. /\ pages' <= Cardinality(Passed(pageToken)) + 1 /\ pages' <= Cardinality(Existed) + 1
      /\ next \notin {Start, pageToken} => pages' <= Cardinality(Passed(next))
    BY <1>2, <1>4, <1>6, <1>7
<1>9. \/ pc' = "done"
      \/ pc' = "list" /\ pageToken' = next /\ next \notin {Start, pageToken}
      \/ pc' = "delete" /\ pageToken' = pageToken /\ nextPageToken' = next
    BY DEF CountPage, FindInPage, SweepPage, Advance, Return
<1> QED
    BY <1>5, <1>8, <1>9 DEF Measured

LEMMA OtherMeasured ==
    ASSUME TypeOK, TypeOK', Measured,
           \/ \E i \in Items : SweepOne(i) \/ Create(i) \/ Remove(i)
           \/ SweepNext \/ ListFails \/ UNCHANGED vars
    PROVE  Measured'
<1> USE DEF TypeOK, historyVars, loopVars
<1>1. UNCHANGED <<pages, rewound, initial>> /\ born \subseteq born'
    BY DEF SweepOne, Create, Remove, SweepNext, ListFails, vars
<1>2. Existed \subseteq Existed'
    BY <1>1 DEF Existed
<1>3. \/ UNCHANGED <<pc, pageToken, nextPageToken>>
      \/ pc' = "done"
      \/ /\ pc = "delete" /\ pc' = "list" /\ pageToken' = nextPageToken
         /\ nextPageToken \notin {Start, pageToken}
    BY DEF SweepOne, Create, Remove, SweepNext, ListFails, Advance, Return, vars
<1>4. \A t \in Nat : /\ Cardinality(Passed(t)) \in Nat /\ Cardinality(Passed(t)') \in Nat
                     /\ Cardinality(Passed(t)) <= Cardinality(Passed(t)')
    BY <1>2, PassedGrows
<1>5. /\ Cardinality(Existed) \in Nat /\ Cardinality(Existed') \in Nat
      /\ Cardinality(Existed) <= Cardinality(Existed')
    BY <1>2, PassedGrows
<1>6. \A t \in Nat : pages <= Cardinality(Passed(t)) => pages' <= Cardinality(Passed(t)')
    BY <1>1, <1>4
<1>7. \A t \in Nat : pages <= Cardinality(Passed(t)) + 1 => pages' <= Cardinality(Passed(t)') + 1
    BY <1>1, <1>4
<1>8. pages <= Cardinality(Existed) + 1 => pages' <= Cardinality(Existed') + 1
    BY <1>1, <1>5
<1>9. CASE UNCHANGED <<pc, pageToken, nextPageToken>>
    BY <1>1, <1>6, <1>7, <1>8, <1>9 DEF Measured, Passed
<1>10. CASE pc' = "done"
    BY <1>1, <1>8, <1>10 DEF Measured
<1>11. CASE /\ pc = "delete" /\ pc' = "list" /\ pageToken' = nextPageToken
            /\ nextPageToken \notin {Start, pageToken}
    BY <1>1, <1>6, <1>8, <1>11 DEF Measured, Passed
<1> QED
    BY <1>3, <1>9, <1>10, <1>11

-----------------------------------------------------------------------------

Inductive == TypeOK /\ Reached /\ Counted /\ Looked /\ NothingMissed /\ Measured

LEMMA InitHolds == Init => Inductive
<1> SUFFICES ASSUME Init PROVE Inductive
    OBVIOUS
<1> USE ItemsAssumption DEF Init, Start
<1>1. TypeOK
    BY DEF TypeOK, Answer
<1>2. Reached
    <2>1. \A i \in Wanted : ~(i <= 0)
        BY DEF Wanted, Throughout
    <2> QED
        BY <2>1 DEF Reached
<1>3. Counted
    <2>1. seen = {} /\ Cardinality(seen) = 0
        BY FS_EmptySet, Zenon
    <2> QED
        BY <2>1 DEF Counted
<1>4. Looked /\ NothingMissed
    BY DEF Looked, NothingMissed
<1>5. Measured
    <2>1. IsFiniteSet(Existed) /\ IsFiniteSet(Passed(Start))
        <3>1. Existed \subseteq Items /\ Passed(Start) \subseteq Items
            BY DEF Existed, Passed
        <3> QED
            BY <3>1, FS_Subset
    <2>2. Cardinality(Existed) \in Nat /\ Cardinality(Passed(Start)) \in Nat
        BY <2>1, FS_CardinalityType
    <2> QED
        BY <2>2 DEF Measured
<1> QED
    BY <1>1, <1>2, <1>3, <1>4, <1>5 DEF Inductive

LEMMA InductiveStep == Inductive /\ [Next]_vars => Inductive'
<1> SUFFICES ASSUME Inductive, [Next]_vars PROVE Inductive'
    OBVIOUS
<1> USE DEF Inductive
<1>1. TypeOK'
    BY TypeStep
<1>2. CASE Page
    <2> PICK S \in SUBSET Items, next \in Items \cup {Start} :
            CountPage(S, next) \/ FindInPage(S, next) \/ SweepPage(S, next)
        BY <1>2 DEF Page
    <2>1. Measured'
        BY <1>1, PageMeasured
    <2> QED
        BY <1>1, <2>1, CountStep, FindStep, SweepStep
<1>3. CASE \/ \E i \in Items : SweepOne(i) \/ Create(i) \/ Remove(i)
           \/ SweepNext \/ ListFails
    BY <1>1, <1>3, OtherStep, OtherMeasured
<1>4. CASE UNCHANGED vars
    <2>1. Measured'
        BY <1>1, <1>4, OtherMeasured
    <2> QED
        BY <1>1, <1>4, <2>1 DEF vars, loopVars, historyVars, Reached, Counted, Looked,
               NothingMissed, Wanted, Throughout
<1> QED
    BY <1>2, <1>3, <1>4 DEF Next, Loop

(* The inductive invariant holds throughout.                               *)
THEOREM InductiveHolds == Spec => []Inductive
<1> QED
    BY InitHolds, InductiveStep, PTL DEF Spec

(* For any list and page size: every variable keeps its type.              *)
THEOREM TypeCorrect == Spec => []TypeOK
<1>1. Inductive => TypeOK
    BY DEF Inductive
<1> QED
    BY <1>1, InductiveHolds, PTL

(* For any list and page size, whatever is created and removed meanwhile   *)
(* and whatever tokens the server repeats: no key is left out of a count,  *)
(* none counted twice unless the server went back, no account of the name  *)
(* is overlooked, and a sweep that ends has tried them all.                *)
THEOREM Complete == Spec => []NothingMissed
<1>1. Inductive => NothingMissed
    BY DEF Inductive
<1> QED
    BY <1>1, InductiveHolds, PTL

(* For any list and page size: a server that never goes back gives a loop   *)
(* no more pages than items ever existed, and one.                         *)
THEOREM PagesEnd == Spec => []PagesBounded
<1>1. Inductive => PagesBounded
    BY DEF Inductive, Measured, PagesBounded, Existed
<1> QED
    BY <1>1, InductiveHolds, PTL

=============================================================================
