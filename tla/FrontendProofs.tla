---------------------------- MODULE FrontendProofs ----------------------------
(***************************************************************************)
(* Theorems about Frontend, for every set of contacts and of requests and  *)
(* every number of sign-ins.                                               *)
(***************************************************************************)
EXTENDS Frontend, FiniteSetTheorems, TLAPS

-----------------------------------------------------------------------------
(* The list                                                                *)

Items == [id : Contacts, value : {"on", "off"}]

\* The list is a sequence of items none of which stands twice.
ListOK ==
    /\ list \in Seq(Items)
    /\ NoneTwice

\* The value shown for a contact is that of its item.
LEMMA ValueShown ==
    ASSUME ListOK, NEW i \in DOMAIN list
    PROVE  ValueOf(list[i].id) = list[i].value
<1> DEFINE k == list[i].id
           I == {j \in 1..Len(list) : list[j].id = k}
<1>1. I = {i}
  BY DEF ListOK, NoneTwice
<1>2. Min(I) = i
  BY <1>1 DEF Min
<1>3. SelectInSeq(list, LAMBDA x : x.id = k) = i
  BY <1>1, <1>2 DEF SelectInSeq
<1>4. QED
  BY <1>3 DEF ValueOf

\* What the page shows, as a set; no item stands twice, so it tells all.
OnPage == {list[i] : i \in DOMAIN list}

LEMMA OnPageFacts ==
    ASSUME ListOK
    PROVE  /\ OnPage \subseteq Items
           /\ \A x \in OnPage : x.id \in Listed /\ ValueOf(x.id) = x.value
           /\ \A k \in Listed : Item(k, ValueOf(k)) \in OnPage
<1>1. OnPage \subseteq Items
  BY DEF OnPage, ListOK
<1>2. ASSUME NEW i \in DOMAIN list
      PROVE  /\ list[i].id \in Listed /\ ValueOf(list[i].id) = list[i].value
             /\ Item(list[i].id, ValueOf(list[i].id)) \in OnPage
  <2>1. list[i] \in Items /\ ValueOf(list[i].id) = list[i].value
    BY <1>2, ValueShown DEF ListOK
  <2>2. Item(list[i].id, list[i].value) = list[i]
    BY <2>1 DEF Item, Items
  <2>3. QED
    BY <2>1, <2>2 DEF Listed, OnPage
<1>3. QED
  BY <1>1, <1>2 DEF OnPage, Listed

\* The answer to a write takes the place of the contact's item, or becomes the
\* first one.
LEMMA UpsertFacts ==
    ASSUME ListOK, NEW k \in Contacts, NEW v \in {"on", "off"},
           list' = Upsert(Item(k, v))
    PROVE  /\ ListOK'
           /\ OnPage' = {x \in OnPage : x.id # k} \cup {Item(k, v)}
<1>1. Item(k, v) \in Items /\ Item(k, v).id = k
  BY DEF Item, Items
<1> DEFINE item == Item(k, v)
<1> HIDE DEF item
<1>2. CASE k \notin Listed
  <2>1. list' = <<item>> \o list
    BY <1>1, <1>2 DEF Upsert, item
  <2>2. /\ list' \in Seq(Items) /\ Len(list') = Len(list) + 1 /\ list'[1] = item
        /\ \A i \in 1..Len(list) : list'[i + 1] = list[i]
    BY <1>1, <2>1 DEF ListOK, item
  <2>3. DOMAIN list' = 1..(Len(list) + 1) /\ DOMAIN list = 1..Len(list)
    BY <2>2 DEF ListOK
  <2>4. \A i \in DOMAIN list' : i = 1 \/ (i - 1 \in DOMAIN list /\ list'[i] = list[i - 1])
    BY <2>2, <2>3 DEF ListOK
  <2>5. \A i \in DOMAIN list : list[i].id # k
    BY <1>2 DEF Listed
  <2>6. NoneTwice'
    <3>1. ASSUME NEW i \in DOMAIN list', NEW j \in DOMAIN list', list'[i].id = list'[j].id
          PROVE  i = j
      <4>1. i \in Int /\ j \in Int
        BY <2>3 DEF ListOK
      <4>2. item.id = k
        BY <1>1 DEF item
      <4>3. CASE i = 1 \/ j = 1
        BY <2>2, <2>4, <2>5, <3>1, <4>2, <4>3
      <4>4. CASE i # 1 /\ j # 1
        <5>1. /\ i - 1 \in DOMAIN list /\ j - 1 \in DOMAIN list
              /\ list[i - 1].id = list[j - 1].id
          BY <2>4, <3>1, <4>4
        <5>2. i - 1 = j - 1
          BY <5>1 DEF ListOK, NoneTwice
        <5>3. QED
          BY <4>1, <5>2
      <4>5. QED
        BY <4>3, <4>4
    <3>2. QED
      BY <3>1 DEF NoneTwice
  <2>7. OnPage' = OnPage \cup {item}
    <3>1. OnPage' \subseteq OnPage \cup {item}
      BY <2>2, <2>4 DEF OnPage
    <3>2. \A i \in DOMAIN list : list[i] \in OnPage'
      BY <2>2, <2>3 DEF OnPage, ListOK
    <3>3. item \in OnPage'
      BY <2>2, <2>3 DEF OnPage, ListOK
    <3>4. QED
      BY <3>1, <3>2, <3>3 DEF OnPage
  <2>8. OnPage = {x \in OnPage : x.id # k}
    BY <2>5 DEF OnPage
  <2>9. QED
    BY <2>2, <2>6, <2>7, <2>8 DEF ListOK, item
<1>3. CASE k \in Listed
  <2>1. list' = [i \in DOMAIN list |-> IF list[i].id = k THEN item ELSE list[i]]
    BY <1>1, <1>3 DEF Upsert, item
  <2>2. /\ list' \in Seq(Items) /\ DOMAIN list' = DOMAIN list
        /\ \A i \in DOMAIN list : /\ list'[i].id = list[i].id
                                  /\ list[i].id = k => list'[i] = item
                                  /\ list[i].id # k => list'[i] = list[i]
    BY <1>1, <2>1 DEF ListOK, item
  <2>3. NoneTwice'
    BY <2>2 DEF NoneTwice, ListOK
  <2>4. PICK j \in DOMAIN list : list[j].id = k
    BY <1>3 DEF Listed
  <2>5. OnPage' = {x \in OnPage : x.id # k} \cup {item}
    <3>1. OnPage' \subseteq {x \in OnPage : x.id # k} \cup {item}
      BY <2>2 DEF OnPage
    <3>2. \A i \in DOMAIN list : list[i].id # k => list[i] \in OnPage'
      BY <2>2 DEF OnPage
    <3>3. item \in OnPage'
      BY <2>2, <2>4 DEF OnPage
    <3>4. QED
      BY <3>1, <3>2, <3>3 DEF OnPage
  <2>6. QED
    BY <2>2, <2>3, <2>5 DEF ListOK, item
<1>4. QED
  BY <1>2, <1>3

\* The answer to a load lists each contact it tells of once.
LEMMA LoadFacts ==
    ASSUME NEW result \in [Contacts -> {"none", "on", "off"}],
           list' \in SetToSeqs({Item(k, result[k]) :
                                   k \in {x \in Contacts : result[x] # "none"}})
    PROVE  /\ ListOK'
           /\ OnPage' = {Item(k, result[k]) :
                            k \in {x \in Contacts : result[x] # "none"}}
<1> DEFINE S == {Item(k, result[k]) : k \in {x \in Contacts : result[x] # "none"}}
           n == Cardinality(S)
<1>1. S \subseteq Items /\ \A x, y \in S : x.id = y.id => x = y
  BY DEF Item, Items
<1>2. IsFiniteSet(S)
  <2> DEFINE f == [x \in S |-> x.id]
  <2>1. f \in Injection(S, Contacts)
    BY <1>1 DEF Injection, IsInjective, Items
  <2>2. QED
    BY <2>1, FS_Injection, PageAssumption
<1> HIDE DEF S
<1>3. n \in Nat
  BY <1>2, FS_CardinalityType
<1>4. list' \in [1..n -> S] /\ \A i, j \in 1..n : i # j => list'[i] # list'[j]
  BY DEF SetToSeqs, S
<1>5. list' \in Surjection(1..n, S)
  <2>1. list' \in Injection(1..n, S)
    BY <1>4 DEF Injection, IsInjective
  <2>2. IsFiniteSet(1..n) /\ Cardinality(1..n) = n
    BY <1>3, FS_Interval
  <2>3. QED
    BY <1>2, <2>1, <2>2, FS_Injection
<1>6. list' \in Seq(Items) /\ DOMAIN list' = 1..n
  BY <1>1, <1>3, <1>4
<1>7. NoneTwice'
  BY <1>1, <1>4, <1>6 DEF NoneTwice
<1>8. OnPage' = S
  BY <1>4, <1>5, <1>6 DEF OnPage, Surjection
<1>9. QED
  BY <1>6, <1>7, <1>8 DEF ListOK, S

-----------------------------------------------------------------------------
(* The page's state                                                        *)

CallOK(c) ==
    call[c] # NoCall =>
        /\ call[c] \in CallTypes
        /\ call[c].kind = "load" <=> call[c].id = "all"
        /\ call[c].stage = "served" /\ call[c].kind # "load" =>
              call[c].result[call[c].id] \in {"on", "off"}

PageTypes ==
    /\ server \in [Contacts -> {"none", "on", "off"}]
    /\ open \in BOOLEAN /\ loading \in BOOLEAN
    /\ ListOK
    /\ marked \in Contacts \cup {"none"}
    /\ call = [c \in Calls |-> call[c]]
    /\ \A c \in Calls : CallOK(c)

\* The steps as the page sees them.
LEMMA PageSteps ==
    ASSUME FNext
    PROVE  \/ \E c \in Calls : \/ Serve(c) \/ Fail(c) \/ Answer(c) \/ OpenPage(c)
                               \/ \E k \in Contacts : Toggle(c, k) \/ AddContact(c, k)
                               \/ Unauthorized(c)
           \/ ClosePage("closed") \/ ClosePage("gone")
           \/ \E k \in Contacts : ChangeElsewhere(k)
           \/ UNCHANGED pvars
BY DEF FNext, PageNext, PageStep, LeavePage, Elsewhere, DocumentEnds, SessionNext

\* A request keeps what it asks for.
SameRequest(c) ==
    /\ call'[c].kind = call[c].kind /\ call'[c].id = call[c].id
    /\ call'[c].to = call[c].to

Unaffected(c) == \A d \in Calls \ {c} : call'[d] = call[d]

LEMMA ServeFacts ==
    ASSUME PageTypes, NEW c \in Calls, Serve(c)
    PROVE  /\ call' = [d \in Calls |-> call'[d]] /\ Unaffected(c) /\ SameRequest(c)
           /\ call'[c] # NoCall /\ CallOK(c)' /\ call'[c].from = call[c].from
           /\ call'[c].stage \in {"served", "failed"} /\ call[c].stage = "sent"
           /\ server' \in [Contacts -> {"none", "on", "off"}]
           /\ \A k \in Contacts : server'[k] # server[k] => c \in About(k)
           /\ \A k \in Contacts :
                 call'[c].stage = "served" /\ c \in About(k)
                     => call'[c].result[k] = server'[k]
<1> DEFINE x == call[c]
           result == [k \in Contacts |-> IF x.id \in {k, "all"} THEN server'[k]
                                         ELSE "none"]
<1>1. /\ x \in CallTypes /\ x # NoCall /\ x.stage = "sent"
      /\ x.kind = "load" <=> x.id = "all"
  BY DEF Serve, PageTypes, CallOK
<1>2. /\ server' \in [Contacts -> {"none", "on", "off"}]
      /\ \A k \in Contacts : server'[k] # server[k] => x.kind # "load" /\ x.id = k
      /\ x.kind # "load" => server'[x.id] = x.to
  BY <1>1 DEF Serve, PageTypes, CallTypes, Kinds
<1>3. result \in [Contacts -> {"none", "on", "off"}]
  BY <1>2
<1>4. CASE x.kind = "create" /\ server[x.id] = "on"
  <2>1. call' = [call EXCEPT ![c].stage = "failed"]
    BY <1>4 DEF Serve
  <2>2. call'[c] = [x EXCEPT !.stage = "failed"] /\ Unaffected(c)
    BY <2>1 DEF PageTypes, Unaffected
  <2>3. /\ call'[c] \in CallTypes /\ call'[c].stage = "failed" /\ SameRequest(c)
        /\ call'[c].from = x.from /\ call'[c] # NoCall
    BY <1>1, <2>2 DEF CallTypes, SameRequest, NoCall, Kinds
  <2>4. QED
    BY <1>1, <1>2, <2>1, <2>2, <2>3
       DEF CallOK, SameRequest, About, UnderWay, PageTypes
<1>5. CASE ~(x.kind = "create" /\ server[x.id] = "on")
  <2>1. call' = [call EXCEPT ![c].stage = "served", ![c].result = result]
    BY <1>5 DEF Serve
  <2> HIDE DEF result
  <2>2. /\ call'[c] = [x EXCEPT !.stage = "served", !.result = result]
        /\ Unaffected(c) /\ call' = [d \in Calls |-> call'[d]]
    BY <2>1 DEF PageTypes, Unaffected
  <2>3. /\ call'[c] \in CallTypes /\ call'[c].stage = "served" /\ SameRequest(c)
        /\ call'[c].from = x.from /\ call'[c] # NoCall /\ call'[c].result = result
    BY <1>1, <1>3, <2>2 DEF CallTypes, SameRequest, NoCall, Kinds
  <2>4. /\ x.kind # "load" => x.id \in Contacts /\ result[x.id] \in {"on", "off"}
        /\ \A k \in Contacts : c \in About(k) => result[k] = server'[k]
    BY <1>1, <1>2 DEF About, result, CallTypes
  <2>5. CallOK(c)'
    BY <1>1, <2>3, <2>4 DEF CallOK, SameRequest
  <2>6. \A k \in Contacts : server'[k] # server[k] => c \in About(k)
    BY <1>1, <1>2 DEF About, UnderWay
  <2>7. QED
    BY <1>1, <1>2, <2>2, <2>3, <2>4, <2>5, <2>6
<1>6. QED
  BY <1>4, <1>5

LEMMA FailFacts ==
    ASSUME PageTypes, NEW c \in Calls, Fail(c)
    PROVE  /\ call' = [d \in Calls |-> call'[d]] /\ Unaffected(c) /\ SameRequest(c)
           /\ call'[c] # NoCall /\ CallOK(c)' /\ call'[c].from = call[c].from
           /\ call'[c].stage = "failed" /\ call[c].stage # "failed"
<1>1. /\ call[c] \in CallTypes /\ call[c] # NoCall /\ call[c].stage # "failed"
      /\ call[c].kind = "load" <=> call[c].id = "all"
      /\ call' = [call EXCEPT ![c].stage = "failed", ![c].result = NoContacts]
  BY DEF Fail, PageTypes, CallOK
<1>2. /\ call'[c] = [call[c] EXCEPT !.stage = "failed", !.result = NoContacts]
      /\ Unaffected(c) /\ call' = [d \in Calls |-> call'[d]]
  BY <1>1 DEF PageTypes, Unaffected
<1>3. NoContacts \in [Contacts -> {"none", "on", "off"}]
  BY DEF NoContacts
<1>4. /\ call'[c] \in CallTypes /\ call'[c].stage = "failed" /\ SameRequest(c)
      /\ call'[c].from = call[c].from /\ call'[c] # NoCall
  BY <1>1, <1>2, <1>3 DEF CallTypes, SameRequest, NoCall, Kinds
<1>5. QED
  BY <1>1, <1>2, <1>4 DEF CallOK, SameRequest

LEMMA SendFacts ==
    ASSUME PageTypes, NEW c \in Calls, NEW v \in {"on", "off"},
           \/ Send(c, "load", "all", v)
           \/ \E kind \in {"create", "update"}, k \in Contacts : Send(c, kind, k, v)
    PROVE  /\ call' = [d \in Calls |-> call'[d]] /\ Unaffected(c)
           /\ call[c] = NoCall /\ call'[c] # NoCall /\ CallOK(c)'
           /\ call'[c].stage = "sent" /\ call'[c].from = "page"
<1>1. PICK kind \in Kinds, id \in Contacts \cup {"all"} :
          Send(c, kind, id, v) /\ (kind = "load" <=> id = "all")
  BY PageAssumption DEF Kinds
<1>2. /\ call[c] = NoCall /\ Unaffected(c) /\ call' = [d \in Calls |-> call'[d]]
      /\ call'[c] = [kind |-> kind, id |-> id, to |-> v, stage |-> "sent",
                     from |-> "page", result |-> NoContacts]
  BY <1>1 DEF Send, PageTypes, Unaffected
<1>3. NoContacts \in [Contacts -> {"none", "on", "off"}]
  BY DEF NoContacts
<1>4. /\ call'[c] \in CallTypes /\ call'[c].kind = kind /\ call'[c].id = id
      /\ call'[c].stage = "sent" /\ call'[c].from = "page"
  BY <1>2, <1>3 DEF CallTypes
<1>5. QED
  BY <1>1, <1>2, <1>4 DEF CallOK, NoCall, Kinds

\* The requests of a page that is closed are not lost, but their answers are.
LEMMA DetachedFacts ==
    ASSUME PageTypes, NEW from \in {"closed", "gone"}, NEW c \in Calls
    PROVE  /\ Detached(from)[c] = NoCall <=> call[c] = NoCall
           /\ call[c] # NoCall =>
                 /\ Detached(from)[c] \in CallTypes
                 /\ Detached(from)[c].kind = call[c].kind
                 /\ Detached(from)[c].id = call[c].id
                 /\ Detached(from)[c].to = call[c].to
                 /\ Detached(from)[c].stage = call[c].stage
                 /\ Detached(from)[c].result = call[c].result
                 /\ Detached(from)[c].from \in {"closed", "gone"}
                 /\ from = "gone" => Detached(from)[c].from = "gone"
                 /\ Detached(from)[c].from = "gone" <=>
                       (from = "gone" \/ call[c].from = "gone")
BY DEF PageTypes, CallOK, CallTypes, Detached, NoCall, Kinds

\* An answer changes the page it was asked for by, and in one of three ways.
LEMMA AnswerFacts ==
    ASSUME PageTypes, NEW c \in Calls, Answer(c)
    PROVE  /\ call[c] # NoCall /\ call'[c] = NoCall /\ Unaffected(c)
           /\ call' = [d \in Calls |-> call'[d]]
           /\ call[c] \in CallTypes /\ call[c].stage # "sent"
           /\ UNCHANGED <<server, open>>
           /\ loading' \in BOOLEAN /\ marked' \in Contacts \cup {"none"}
           /\ \/ call[c].from # "page" /\ UNCHANGED page
              \/ /\ call[c].from = "page" /\ call[c].stage = "failed"
                 /\ list' = list
                 /\ loading' = (loading /\ call[c].kind # "load")
              \/ /\ call[c].from = "page" /\ call[c].stage = "served"
                 /\ call[c].kind = "load" /\ ~loading'
                 /\ list' \in SetToSeqs({Item(k, call[c].result[k]) :
                        k \in {x \in Contacts : call[c].result[x] # "none"}})
              \/ /\ call[c].from = "page" /\ call[c].stage = "served"
                 /\ call[c].kind # "load" /\ loading' = loading
                 /\ list' = Upsert(Item(call[c].id, call[c].result[call[c].id]))
<1>1. /\ call[c] # NoCall /\ call[c].stage # "sent" /\ UNCHANGED server
      /\ call' = [call EXCEPT ![c] = NoCall]
  BY DEF Answer
<1>2. /\ call'[c] = NoCall /\ Unaffected(c) /\ call' = [d \in Calls |-> call'[d]]
      /\ call[c] \in CallTypes
  BY <1>1 DEF PageTypes, CallOK, Unaffected
<1>3. CASE call[c].from # "page"
  BY <1>1, <1>2, <1>3 DEF Answer, page, PageTypes
<1>4. CASE call[c].from = "page"
  <2>1. open' = open
    BY <1>4 DEF Answer
  <2>2. CASE call[c].stage = "served" /\ LoadAnswered(c)
    BY <1>1, <1>2, <1>4, <2>1, <2>2 DEF LoadAnswered, PageTypes
  <2>3. CASE call[c].stage = "served" /\ WriteAnswered(c)
    BY <1>1, <1>2, <1>4, <2>1, <2>3 DEF WriteAnswered, PageTypes
  <2>4. CASE call[c].stage = "failed" /\ ErrorAnswered(c)
    <3>1. /\ list' = list /\ marked' \in Contacts \cup {"none"}
          /\ loading' = (loading /\ call[c].kind # "load")
      BY <2>4 DEF ErrorAnswered, PageTypes
    <3>2. loading' \in BOOLEAN
      BY <3>1
    <3>3. QED
      BY <1>1, <1>2, <1>4, <2>1, <2>4, <3>1, <3>2
  <2>5. QED
    BY <1>4, <2>2, <2>3, <2>4 DEF Answer
<1>5. QED
  BY <1>3, <1>4

LEMMA PageTypesStep ==
    ASSUME PageTypes, FNext
    PROVE  PageTypes'
<1>1. ASSUME NEW c \in Calls, Serve(c) \/ Fail(c)
      PROVE  PageTypes'
  <2>1. /\ call' = [d \in Calls |-> call'[d]] /\ Unaffected(c) /\ CallOK(c)'
        /\ server' \in [Contacts -> {"none", "on", "off"}]
    BY <1>1, ServeFacts, FailFacts DEF Fail, PageTypes
  <2>2. UNCHANGED page
    BY <1>1 DEF Serve, Fail
  <2>3. \A d \in Calls : CallOK(d)'
    BY <2>1 DEF Unaffected, CallOK, PageTypes
  <2>4. QED
    BY <2>1, <2>2, <2>3 DEF page, PageTypes, ListOK, NoneTwice
<1>2. ASSUME NEW c \in Calls, Answer(c)
      PROVE  PageTypes'
  <2>1. /\ call' = [d \in Calls |-> call'[d]] /\ Unaffected(c) /\ call'[c] = NoCall
        /\ UNCHANGED <<server, open>>
        /\ loading' \in BOOLEAN /\ marked' \in Contacts \cup {"none"}
    BY <1>2, AnswerFacts
  <2>2. \A d \in Calls : CallOK(d)'
    BY <2>1 DEF Unaffected, CallOK, PageTypes
  <2>3. ListOK'
    <3>1. CASE list' = list
      BY <3>1 DEF PageTypes, ListOK, NoneTwice
    <3>2. CASE list' \in SetToSeqs({Item(k, call[c].result[k]) :
                        k \in {x \in Contacts : call[c].result[x] # "none"}})
      <4>1. call[c].result \in [Contacts -> {"none", "on", "off"}]
        BY <1>2, AnswerFacts DEF CallTypes
      <4>2. QED
        BY <3>2, <4>1, LoadFacts
    <3>3. CASE /\ call[c].kind # "load" /\ call[c].stage = "served"
               /\ list' = Upsert(Item(call[c].id, call[c].result[call[c].id]))
      <4>1. call[c].id \in Contacts /\ call[c].result[call[c].id] \in {"on", "off"}
        BY <1>2, <3>3, AnswerFacts DEF CallTypes, PageTypes, CallOK
      <4>2. QED
        BY <3>3, <4>1, UpsertFacts DEF PageTypes
    <3>4. QED
      BY <1>2, <3>1, <3>2, <3>3, AnswerFacts DEF page
  <2>4. QED
    BY <2>1, <2>2, <2>3 DEF PageTypes
<1>3. ASSUME NEW c \in Calls,
             OpenPage(c) \/ \E k \in Contacts : Toggle(c, k) \/ AddContact(c, k)
      PROVE  PageTypes'
  <2>1. /\ call' = [d \in Calls |-> call'[d]] /\ Unaffected(c) /\ CallOK(c)'
    BY <1>3, SendFacts DEF OpenPage, Toggle, AddContact
  <2>2. \A d \in Calls : CallOK(d)'
    BY <2>1 DEF Unaffected, CallOK, PageTypes
  <2>3. ListOK' /\ UNCHANGED server
    <3>1. (list' = list \/ list' = << >>) /\ UNCHANGED server
      BY <1>3 DEF OpenPage, Toggle, AddContact, page
    <3>2. CASE list' = << >>
      BY <3>1, <3>2 DEF ListOK, NoneTwice
    <3>3. CASE list' = list
      BY <3>1, <3>3 DEF PageTypes, ListOK, NoneTwice
    <3>4. QED
      BY <3>1, <3>2, <3>3
  <2>4. /\ open' \in BOOLEAN /\ loading' \in BOOLEAN
        /\ marked' \in Contacts \cup {"none"}
    BY <1>3 DEF OpenPage, Toggle, AddContact, page, PageTypes
  <2>5. QED
    BY <2>1, <2>2, <2>3, <2>4 DEF PageTypes
<1>4. ASSUME NEW from \in {"closed", "gone"}, open' = FALSE, loading' = TRUE,
             list' = << >>, marked' = "none", server' = server,
             \/ call' = Detached(from)
             \/ \E c \in Calls : call' = [Detached(from) EXCEPT ![c] = NoCall]
      PROVE  PageTypes'
  <2>1. call' = [d \in Calls |-> call'[d]]
    BY <1>4 DEF Detached
  <2>2. \A d \in Calls : call'[d] = NoCall \/ call'[d] = Detached(from)[d]
    <3>1. Detached(from) = [d \in Calls |-> Detached(from)[d]]
      BY DEF Detached
    <3>2. QED
      BY <1>4, <3>1
  <2>3. \A d \in Calls : CallOK(d)'
    BY <2>2, DetachedFacts DEF CallOK, PageTypes
  <2>4. ListOK'
    BY <1>4 DEF ListOK, NoneTwice
  <2>5. QED
    BY <1>4, <2>1, <2>3, <2>4 DEF PageTypes
<1>5. ASSUME NEW k \in Contacts, ChangeElsewhere(k)
      PROVE  PageTypes'
  BY <1>5 DEF ChangeElsewhere, page, PageTypes, ListOK, NoneTwice, CallOK
<1>6. CASE UNCHANGED pvars
  BY <1>6 DEF pvars, page, PageTypes, ListOK, NoneTwice, CallOK
<1>7. QED
  BY <1>1, <1>2, <1>3, <1>4, <1>5, <1>6, PageSteps DEF ClosePage, Unauthorized

-----------------------------------------------------------------------------
(* The tab and its storage                                                 *)

SessionInv ==
    /\ signins \in Sessions
    /\ stored \in 0..signins /\ pending \in 0..signins
    /\ memory \in 0..signins /\ callback \in 0..signins
    /\ expired \subseteq 1..signins
    /\ place \in Places
    /\ place = "exchange" <=> callback # 0
    /\ place = "exchange" => pending = callback
    /\ place = "app" => memory # 0
    /\ place # "away" => memory = stored

\* The requests under way when a document starts are of documents that are gone,
\* and none is sent before the session is set; those of this document were sent
\* with its session.
RequestsInv ==
    /\ token \in [Calls -> Sessions]
    /\ open => place = "app"
    /\ place \in {"away", "exchange"} => \A c \in UnderWay : call[c].from = "gone"
    /\ \A c \in UnderWay : call[c].from # "gone" /\ memory # 0 => token[c] = memory

TabInv == PageTypes /\ SessionInv /\ RequestsInv

LEMMA CallSteps ==
    ASSUME PageTypes, NEW c \in Calls, PageStep(c) \/ OpenPage(c),
           NEW d \in Calls, call'[d] # NoCall
    PROVE  \/ call[d] = NoCall /\ call'[d].from = "page" /\ (PageStep(c) => open)
           \/ call[d] # NoCall /\ call'[d].from = call[d].from
<1>1. CASE Serve(c) \/ Fail(c)
  BY <1>1, ServeFacts, FailFacts DEF Unaffected, Serve, Fail
<1>2. CASE Answer(c)
  BY <1>2, AnswerFacts DEF Unaffected
<1>3. CASE OpenPage(c) \/ \E k \in Contacts : Toggle(c, k) \/ AddContact(c, k)
  <2>1. Unaffected(c) /\ call[c] = NoCall /\ call'[c].from = "page"
    BY <1>3, SendFacts DEF OpenPage, Toggle, AddContact
  <2>2. PageStep(c) => open
    BY <2>1 DEF PageStep, Serve, Fail, Answer, Toggle, AddContact
  <2>3. QED
    BY <2>1, <2>2 DEF Unaffected
<1>4. QED
  BY <1>1, <1>2, <1>3 DEF PageStep

\* The session of a request is that of the page that sends it.
LEMMA TokenFacts ==
    ASSUME TabInv, TokenKept
    PROVE  /\ token' \in [Calls -> Sessions]
           /\ \A c \in Calls : call'[c] # NoCall =>
                 token'[c] = IF call[c] = NoCall THEN memory ELSE token[c]
<1>1. 0 \in Sessions /\ memory \in Sessions
  BY SignInsAssumption DEF TabInv, SessionInv, Sessions
<1>2. QED
  BY <1>1 DEF TokenKept, TabInv, RequestsInv

LEMMA PageNextTab ==
    ASSUME TabInv, PageTypes', PageNext
    PROVE  TabInv'
<1>1. PICK c \in Calls : PageStep(c) \/ (place = "app" /\ OpenPage(c))
  BY DEF PageNext
<1>2. TokenKept /\ UNCHANGED svars
  BY DEF PageNext
<1>3. SessionInv'
  BY <1>2 DEF svars, TabInv, SessionInv
<1>4. open' => place' = "app"
  BY <1>1, <1>2 DEF PageStep, OpenPage, Serve, Fail, Answer, Toggle, AddContact, page,
     svars, TabInv, RequestsInv
<1>5. \A d \in UnderWay' :
          \/ call[d] = NoCall /\ call'[d].from = "page" /\ place = "app"
          \/ d \in UnderWay /\ call'[d].from = call[d].from
  <2>1. PageStep(c) /\ open => place = "app"
    BY DEF TabInv, RequestsInv
  <2>2. ASSUME NEW d \in Calls, call'[d] # NoCall
        PROVE  \/ call[d] = NoCall /\ call'[d].from = "page" /\ (PageStep(c) => open)
               \/ call[d] # NoCall /\ call'[d].from = call[d].from
    BY <1>1, <2>2, CallSteps DEF TabInv
  <2>3. QED
    BY <1>1, <2>1, <2>2 DEF UnderWay
<1>6. \A d \in UnderWay' : call'[d].from # "gone" /\ memory # 0 => token'[d] = memory
  BY <1>2, <1>5, TokenFacts DEF UnderWay, TabInv, RequestsInv
<1>7. RequestsInv'
  BY <1>2, <1>4, <1>5, <1>6, TokenFacts DEF RequestsInv, TabInv, svars
<1>8. QED
  BY <1>3, <1>7 DEF TabInv

\* No request is under way after its page was left that was not before.
LEMMA DetachedTab ==
    ASSUME PageTypes, NEW from \in {"closed", "gone"}, call' = Detached(from)
    PROVE  /\ UnderWay' = UnderWay
           /\ \A c \in UnderWay : /\ from = "gone" => call'[c].from = "gone"
                                  /\ call'[c].from = "gone" <=>
                                        (from = "gone" \/ call[c].from = "gone")
BY DetachedFacts DEF UnderWay

LEMMA LeaveTab ==
    ASSUME TabInv, PageTypes', LeavePage \/ Elsewhere \/ DocumentEnds
    PROVE  TabInv'
<1>1. CASE Elsewhere
  BY <1>1 DEF Elsewhere, ChangeElsewhere, page, svars, TabInv, SessionInv, RequestsInv,
     UnderWay
<1>2. CASE LeavePage
  <2>1. open' = FALSE /\ call' = Detached("closed") /\ UNCHANGED <<token, svars>>
    BY <1>2 DEF LeavePage, ClosePage
  <2>2. QED
    BY <2>1, DetachedTab DEF svars, TabInv, SessionInv, RequestsInv
<1>3. CASE DocumentEnds
  <2>1. open' = FALSE /\ call' = Detached("gone") /\ token' = token
    BY <1>3 DEF DocumentEnds, ClosePage
  <2>2. SessionInv'
    <3>1. signins \in Nat
      BY SignInsAssumption DEF TabInv, SessionInv, Sessions
    <3>2. CASE Leave
      BY <3>1, <3>2 DEF Leave, TabInv, SessionInv, Places
    <3>3. CASE SignOut
      BY <3>1, <3>3 DEF SignOut, TabInv, SessionInv, Places
    <3>4. QED
      BY <1>3, <3>2, <3>3 DEF DocumentEnds
  <2>3. QED
    BY <2>1, <2>2, DetachedTab DEF TabInv, RequestsInv
<1>4. QED
  BY <1>1, <1>2, <1>3

LEMMA UnauthorizedTab ==
    ASSUME TabInv, PageTypes', NEW c \in Calls, Unauthorized(c)
    PROVE  TabInv'
<1>1. /\ MarkSessionExpired /\ TokenKept /\ open' = FALSE
      /\ c \in UnderWay /\ call[c].from # "gone"
  BY DEF Unauthorized, UnderWay
<1>2. place \notin {"away", "exchange"}
  BY <1>1 DEF TabInv, RequestsInv
<1>3. SessionInv'
  BY <1>1, <1>2 DEF MarkSessionExpired, TabInv, SessionInv, Places, Sessions
<1>4. place' \notin {"away", "exchange"} /\ memory' = 0
  BY <1>1, <1>2 DEF MarkSessionExpired
<1>5. QED
  BY <1>1, <1>3, <1>4, TokenFacts DEF TabInv, RequestsInv

LEMMA SessionNextTab ==
    ASSUME TabInv, PageTypes', SessionNext
    PROVE  TabInv'
<1>1. UNCHANGED <<open, call, token>>
  BY DEF SessionNext, pvars, page
<1>2. SessionInv'
  <2>1. signins \in Nat /\ SessionRead \in 0..signins /\ PendingRead \in 0..signins
    BY SignInsAssumption DEF TabInv, SessionInv, Sessions, SessionRead, PendingRead
  <2>2. CASE StartApp
    BY <2>1, <2>2 DEF StartApp, TabInv, SessionInv, Places
  <2>3. CASE StartCallbackError
    BY <2>1, <2>3 DEF StartCallbackError, TabInv, SessionInv, Places
  <2>4. ASSUME NEW n \in 1..signins, StartCallback(n)
        PROVE  SessionInv'
    BY <2>1, <2>4 DEF StartCallback, TabInv, SessionInv, Places
  <2>5. CASE Exchanged
    <3>1. /\ place = "exchange" /\ callback # 0 /\ stored' = callback
          /\ memory' = callback /\ pending' = 0 /\ place' = "app" /\ callback' = 0
          /\ UNCHANGED <<signins, expired>>
      BY <2>5 DEF Exchanged, TabInv, SessionInv
    <3>2. QED
      BY <2>1, <3>1 DEF TabInv, SessionInv, Places
  <2>6. CASE ExchangeFails
    BY <2>1, <2>6 DEF ExchangeFails, TabInv, SessionInv, Places
  <2>7. CASE SignIn
    BY <2>7, SignInsAssumption DEF SignIn, TabInv, SessionInv, Places, Sessions
  <2>8. CASE Expire
    BY <2>8 DEF Expire, TabInv, SessionInv, Places, Sessions
  <2>9. QED
    BY <2>2, <2>3, <2>4, <2>5, <2>6, <2>7, <2>8 DEF SessionNext
<1>3. UnderWay' = UnderWay
  BY <1>1 DEF UnderWay
<1>4. RequestsInv'
  <2>1. CASE StartApp \/ StartCallbackError \/ Exchanged
             \/ \E n \in 1..signins : StartCallback(n)
    <3>1. place \in {"away", "exchange"}
      BY <2>1 DEF StartApp, StartCallbackError, Exchanged, StartCallback
    <3>2. \A c \in UnderWay : call[c].from = "gone"
      BY <3>1 DEF TabInv, RequestsInv
    <3>3. ~open
      BY <3>1 DEF TabInv, RequestsInv, PageTypes
    <3>4. QED
      BY <1>1, <1>3, <3>2, <3>3 DEF TabInv, RequestsInv
  <2>2. CASE ExchangeFails \/ SignIn \/ Expire
    BY <1>1, <1>3, <2>2 DEF ExchangeFails, SignIn, Expire, TabInv, RequestsInv
  <2>3. QED
    BY <2>1, <2>2 DEF SessionNext
<1>5. QED
  BY <1>2, <1>4 DEF TabInv

LEMMA TabInvInit == FInit => TabInv
<1> SUFFICES ASSUME FInit PROVE TabInv
  OBVIOUS
<1>1. PageTypes
  <2>1. ListOK
    BY DEF FInit, PInit, ListOK, NoneTwice
  <2>2. call = [c \in Calls |-> call[c]] /\ \A c \in Calls : CallOK(c)
    BY DEF FInit, PInit, CallOK
  <2>3. QED
    BY <2>1, <2>2 DEF FInit, PInit, PageTypes
<1>2. SessionInv
  BY SignInsAssumption DEF FInit, SInit, SessionInv, Sessions, Places
<1>3. RequestsInv
  BY SignInsAssumption DEF FInit, PInit, SInit, RequestsInv, UnderWay, Sessions
<1>4. QED
  BY <1>1, <1>2, <1>3 DEF TabInv

LEMMA TabInvStep == TabInv /\ [FNext]_fvars => TabInv'
<1> SUFFICES ASSUME TabInv, [FNext]_fvars PROVE TabInv'
  OBVIOUS
<1>1. CASE UNCHANGED fvars
  BY <1>1 DEF fvars, pvars, page, svars, TabInv, PageTypes, ListOK, NoneTwice, CallOK,
     SessionInv, RequestsInv, UnderWay
<1>2. CASE FNext
  BY <1>2, PageTypesStep, PageNextTab, LeaveTab, UnauthorizedTab, SessionNextTab
     DEF FNext, TabInv
<1>3. QED
  BY <1>1, <1>2

LEMMA TabInvariant == FSpec => []TabInv
BY TabInvInit, TabInvStep, PTL DEF FSpec

-----------------------------------------------------------------------------
(* The sign-in begun last                                                  *)

BegunInv ==
    /\ spoilt \in BOOLEAN
    /\ pending = signins \/ spoilt \/ signins \in done

\* What the history notes of a step that begins no sign-in.
LEMMA SpoiltFacts ==
    ASSUME Noted, spoilt \in BOOLEAN, signins \in Nat, signins' = signins
    PROVE  /\ spoilt' \in BOOLEAN
           /\ spoilt => spoilt'
           /\ SignOut \/ MarkSessionExpired => spoilt'
           /\ place = "away" /\ place' # "away" =>
                 /\ stored \in expired => spoilt'
                 /\ place' = "error" /\ (\E n \in 1..(signins - 1) : StartCallback(n))
                       => spoilt'
           /\ done \subseteq done'
           /\ place = "exchange" /\ place' = "app" => callback \in done'
<1>1. /\ done \subseteq done'
      /\ place = "exchange" /\ place' = "app" => callback \in done'
  BY DEF Noted
<1> DEFINE Ended == SignOut \/ MarkSessionExpired
           Began == place = "away" /\ place' # "away"
           Earlier == \E n \in 1..(signins - 1) : StartCallback(n)
<1>2. ~(signins' > signins)
  OBVIOUS
<1>3. Ended => ~Began
  BY DEF SignOut, MarkSessionExpired
<1>4. spoilt' = CASE signins' > signins -> FALSE
                  [] Ended -> TRUE
                  [] Began -> \/ spoilt
                              \/ stored \in expired
                              \/ place' = "error" /\ Earlier
                  [] OTHER -> spoilt
  BY DEF Noted
<1> HIDE DEF Ended, Began, Earlier
<1>5. CASE Ended
  <2>1. spoilt' = TRUE
    BY <1>2, <1>3, <1>4, <1>5
  <2>2. QED
    BY <1>1, <2>1
<1>6. CASE Began
  <2>1. spoilt' = (spoilt \/ stored \in expired \/ (place' = "error" /\ Earlier))
    BY <1>2, <1>3, <1>4, <1>6
  <2>2. QED
    BY <1>1, <1>3, <1>6, <2>1 DEF Ended, Earlier
<1>7. CASE ~Ended /\ ~Began
  <2>1. spoilt' = spoilt
    BY <1>2, <1>4, <1>7
  <2>2. QED
    BY <1>1, <1>7, <2>1 DEF Ended, Began
<1>8. QED
  BY <1>5, <1>6, <1>7

\* A new document drops a pending sign-in only with an expired session.
LEMMA PendingFacts == PendingRead = pending \/ (PendingRead = 0 /\ stored \in expired)
BY DEF PendingRead, IsAlive

LEMMA BegunInvStep ==
    ASSUME TabInv, BegunInv, FNext
    PROVE  BegunInv'
<1>1. signins \in Nat /\ Noted /\ spoilt \in BOOLEAN
  BY SignInsAssumption DEF TabInv, SessionInv, Sessions, FNext, BegunInv
<1>2. CASE SignIn
  <2>1. signins' = signins + 1 /\ pending' = signins'
    BY <1>2 DEF SignIn
  <2>2. signins' > signins
    BY <1>1, <2>1
  <2>3. ~SignOut /\ ~MarkSessionExpired /\ ~(place = "away" /\ place' # "away")
    BY <1>1, <1>2, <2>1 DEF SignIn, SignOut, MarkSessionExpired
  <2>4. spoilt' = FALSE
    BY <1>1, <2>2, <2>3 DEF Noted
  <2>5. QED
    BY <2>1, <2>4 DEF BegunInv
<1>3. CASE SignOut \/ MarkSessionExpired
  <2>1. signins' = signins
    BY <1>3 DEF SignOut, MarkSessionExpired
  <2>2. QED
    BY <1>1, <1>3, <2>1, SpoiltFacts DEF BegunInv
<1>4. CASE pending' = pending /\ signins' = signins
  BY <1>1, <1>4, SpoiltFacts DEF BegunInv
<1>5. CASE StartApp \/ StartCallbackError
  <2>1. /\ place = "away" /\ place' # "away" /\ pending' = PendingRead
        /\ signins' = signins
    BY <1>5 DEF StartApp, StartCallbackError
  <2>2. QED
    BY <1>1, <2>1, PendingFacts, SpoiltFacts DEF BegunInv
<1>6. ASSUME NEW n \in 1..signins, StartCallback(n)
      PROVE  BegunInv'
  <2>1. place = "away" /\ place' # "away" /\ signins' = signins
    BY <1>6 DEF StartCallback
  <2>2. CASE PendingRead = n
    <3>1. pending' = pending
      BY <1>6, <2>2, PendingFacts DEF StartCallback
    <3>2. QED
      BY <2>1, <3>1, <1>4
  <2>3. CASE PendingRead # n
    <3>1. pending' = 0 /\ place' = "error"
      BY <1>6, <2>3 DEF StartCallback
    <3>2. CASE n = signins
      BY <1>1, <2>1, <2>3, <3>2, PendingFacts, SpoiltFacts DEF BegunInv
    <3>3. CASE n # signins
      <4>1. n \in 1..(signins - 1)
        BY <1>1, <3>3
      <4>2. QED
        BY <1>1, <1>6, <2>1, <3>1, <4>1, SpoiltFacts DEF BegunInv
    <3>4. QED
      BY <3>2, <3>3
  <2>4. QED
    BY <2>2, <2>3
<1>7. CASE Exchanged
  <2>1. /\ place = "exchange" /\ place' = "app" /\ signins' = signins
        /\ pending = callback
    BY <1>7 DEF Exchanged, TabInv, SessionInv
  <2>2. QED
    BY <1>1, <2>1, SpoiltFacts DEF BegunInv
<1>8. QED
  <2>1. CASE PageNext \/ LeavePage \/ Elsewhere \/ Leave \/ Expire \/ ExchangeFails
    BY <1>4, <2>1 DEF PageNext, LeavePage, Elsewhere, svars, Leave, Expire, ExchangeFails
  <2>2. QED
    BY <1>2, <1>3, <1>5, <1>6, <1>7, <2>1 DEF FNext, DocumentEnds, SessionNext,
       Unauthorized

LEMMA BegunInvariant == FSpec => []BegunInv
<1>1. FInit => BegunInv
  BY DEF FInit, SInit, BegunInv
<1>2. TabInv /\ BegunInv /\ [FNext]_fvars => BegunInv'
  <2>1. ASSUME BegunInv, UNCHANGED fvars
        PROVE  BegunInv'
    BY <2>1 DEF fvars, svars, history, BegunInv
  <2>2. QED
    BY <2>1, BegunInvStep
<1>3. QED
  BY <1>1, <1>2, TabInvariant, PTL DEF FSpec

-----------------------------------------------------------------------------
(* What the page shows                                                     *)

\* The one load of an open page is under way as long as it is loading.
PageLoads == {c \in UnderWay : call[c].kind = "load" /\ call[c].from = "page"}

LoadInv ==
    /\ \A c, d \in PageLoads : c = d
    /\ PageLoads # {} <=> open /\ loading

\* The page shows a contact as it is.
Current(k) == \A x \in Items : x.id = k => (x \in OnPage <=> x.value = server[k])

\* At most one request is about a contact that nothing has disturbed.  If the
\* page is open, it is the page's, and its answer will show the contact as it is;
\* when there is none, the page does.
ContactInv(k) ==
    /\ \A c, d \in About(k) : c = d
    /\ open => \A c \in About(k) :
                   /\ call[c].from = "page"
                   /\ call[c].stage # "failed"
                   /\ call[c].stage = "served" => call[c].result[k] = server[k]
    /\ open /\ ~loading /\ About(k) = {} => Current(k)

PageInv == LoadInv /\ \A k \in Contacts \ disturbed : ContactInv(k)

\* A contact is undisturbed after a step that starts a request for it alone, or
\* if it was and nothing happens to it.
LEMMA DisturbedFacts ==
    ASSUME Noted, NEW k \in Contacts \ disturbed'
    PROVE  /\ ~Misled(k)
           /\ Started(k) # {} => About(k) = {}
           /\ Started(k) = {} => k \notin disturbed
BY DEF Noted

\* A step in which no request starts and none is answered, as a request sees it.
Keeps(c) ==
    /\ call'[c] = NoCall <=> call[c] = NoCall
    /\ call[c] # NoCall => call'[c].kind = call[c].kind /\ call'[c].id = call[c].id

LEMMA KeepFacts ==
    ASSUME \A c \in Calls : Keeps(c), NEW k \in Contacts
    PROVE  About(k)' = About(k) /\ Started(k) = {} /\ UnderWay' = UnderWay
BY DEF Keeps, About, UnderWay, Started

LEMMA ClosedStep ==
    ASSUME PageTypes, PageInv, Noted, open' = FALSE,
           NEW from \in {"closed", "gone"},
           \/ call' = Detached(from)
           \/ \E c \in Calls : call' = [Detached(from) EXCEPT ![c] = NoCall]
    PROVE  PageInv'
<1>1. ASSUME NEW d \in Calls, call'[d] # NoCall
      PROVE  call[d] # NoCall /\ call'[d].id = call[d].id /\ call'[d].from # "page"
  <2>1. Detached(from) = [c \in Calls |-> Detached(from)[c]]
    BY DEF Detached
  <2>2. call'[d] = Detached(from)[d]
    BY <1>1, <2>1
  <2>3. QED
    BY <1>1, <2>2, DetachedFacts
<1>2. LoadInv'
  BY <1>1 DEF LoadInv, PageLoads, UnderWay
<1>3. ASSUME NEW k \in Contacts \ disturbed'
      PROVE  ContactInv(k)'
  <2>1. Started(k) = {} /\ About(k)' \subseteq About(k)
    BY <1>1 DEF Started, About, UnderWay
  <2>2. ContactInv(k)
    BY <2>1, DisturbedFacts DEF PageInv
  <2>3. QED
    BY <2>1, <2>2 DEF ContactInv
<1>4. QED
  BY <1>2, <1>3 DEF PageInv

\* A step that leaves the page alone and serves at most one request.
LEMMA ServeFailStep ==
    ASSUME PageTypes, PageInv, Noted, NEW c \in Calls, Serve(c) \/ Fail(c)
    PROVE  PageInv'
<1>1. /\ Unaffected(c) /\ SameRequest(c) /\ call'[c] # NoCall /\ call[c] # NoCall
      /\ call'[c].from = call[c].from /\ UNCHANGED page
      /\ \A k \in Contacts : server'[k] # server[k] => c \in About(k)
      /\ \A k \in Contacts : call'[c].stage = "served" /\ c \in About(k)
                                 => call'[c].result[k] = server'[k]
      /\ call'[c].stage = "failed" => call[c].stage # "failed"
  BY ServeFacts, FailFacts DEF Serve, Fail
<1>2. \A d \in Calls : Keeps(d)
  BY <1>1 DEF Keeps, Unaffected, SameRequest
<1>3. UnderWay' = UnderWay
  BY <1>2 DEF Keeps, UnderWay
<1>4. PageLoads' = PageLoads /\ UNCHANGED <<open, loading, list>>
  BY <1>1, <1>2, <1>3 DEF PageLoads, UnderWay, Keeps, Unaffected, page
<1>5. LoadInv'
  BY <1>4 DEF PageInv, LoadInv
<1>6. ASSUME NEW k \in Contacts \ disturbed'
      PROVE  ContactInv(k)'
  <2>1. About(k)' = About(k) /\ ContactInv(k) /\ ~Misled(k)
    BY <1>2, KeepFacts, DisturbedFacts DEF PageInv
  <2>2. CASE c \in About(k)
    <3>1. About(k) = {c}
      BY <2>1, <2>2 DEF ContactInv
    <3>2. call'[c].stage # "failed"
      BY <1>1, <2>1, <2>2 DEF Misled
    <3>3. QED
      BY <1>1, <1>4, <2>1, <3>1, <3>2 DEF ContactInv
  <2>3. CASE c \notin About(k)
    <3>1. server'[k] = server[k] /\ OnPage' = OnPage
      BY <1>1, <1>4, <2>3 DEF OnPage
    <3>2. \A d \in About(k) : call'[d] = call[d]
      BY <1>1, <2>3 DEF Unaffected, About, UnderWay
    <3>3. Current(k)' <=> Current(k)
      BY <3>1 DEF Current
    <3>4. QED
      BY <1>4, <2>1, <3>1, <3>2, <3>3 DEF ContactInv
  <2>4. QED
    BY <2>2, <2>3
<1>7. QED
  BY <1>5, <1>6 DEF PageInv

LEMMA ElsewhereStep ==
    ASSUME PageTypes, PageInv, Noted, NEW j \in Contacts, ChangeElsewhere(j)
    PROVE  PageInv'
<1>1. /\ UNCHANGED <<open, loading, list, call>> /\ OnPage' = OnPage
      /\ \A c \in Calls : Keeps(c)
  BY DEF ChangeElsewhere, page, Keeps, OnPage
<1>2. LoadInv'
  BY <1>1 DEF PageInv, LoadInv, PageLoads, UnderWay
<1>3. ASSUME NEW k \in Contacts \ disturbed'
      PROVE  ContactInv(k)'
  <2>1. About(k)' = About(k) /\ ContactInv(k) /\ server'[k] = server[k]
    BY <1>1, KeepFacts, DisturbedFacts DEF PageInv, Misled
  <2>2. QED
    BY <1>1, <2>1 DEF ContactInv, Current
<1>4. QED
  BY <1>2, <1>3 DEF PageInv

LEMMA StillStep ==
    ASSUME PageTypes, PageInv, Noted \/ disturbed' = disturbed, UNCHANGED pvars
    PROVE  PageInv'
<1>1. /\ UNCHANGED <<open, loading, list, call, server>> /\ OnPage' = OnPage
      /\ \A c \in Calls : Keeps(c)
  BY DEF pvars, page, Keeps, OnPage
<1>2. LoadInv'
  BY <1>1 DEF PageInv, LoadInv, PageLoads, UnderWay
<1>3. ASSUME NEW k \in Contacts \ disturbed'
      PROVE  ContactInv(k)'
  <2>1. About(k)' = About(k) /\ ContactInv(k)
    BY <1>1, KeepFacts, DisturbedFacts DEF PageInv
  <2>2. QED
    BY <1>1, <2>1 DEF ContactInv, Current
<1>4. QED
  BY <1>2, <1>3 DEF PageInv

LEMMA SendStep ==
    ASSUME PageTypes, PageInv, Noted, NEW c \in Calls,
           OpenPage(c) \/ \E k \in Contacts : Toggle(c, k) \/ AddContact(c, k)
    PROVE  PageInv'
<1>1. /\ Unaffected(c) /\ call[c] = NoCall /\ call'[c] # NoCall
      /\ call'[c].stage = "sent" /\ call'[c].from = "page"
      /\ UNCHANGED server
  BY SendFacts DEF OpenPage, Toggle, AddContact
<1>2. /\ open' /\ open' \in BOOLEAN
      /\ \/ ~open /\ loading' /\ call'[c].kind = "load"
         \/ open /\ loading' = loading /\ list' = list /\ call'[c].kind # "load"
  <2>1. ASSUME NEW kind, NEW id, NEW v, Send(c, kind, id, v)
        PROVE  call'[c].kind = kind
    BY <2>1 DEF Send, PageTypes
  <2>2. CASE OpenPage(c)
    BY <2>1, <2>2 DEF OpenPage, PageTypes
  <2>3. ASSUME NEW k \in Contacts, Toggle(c, k)
        PROVE  open' = open /\ open /\ loading' = loading /\ list' = list
               /\ call'[c].kind # "load"
    BY <2>1, <2>3 DEF Toggle
  <2>4. ASSUME NEW k \in Contacts, AddContact(c, k)
        PROVE  open' = open /\ open /\ loading' = loading /\ list' = list
               /\ call'[c].kind # "load"
    BY <2>1, <2>4 DEF AddContact, page
  <2>5. QED
    BY <2>2, <2>3, <2>4 DEF PageTypes
<1>3. UnderWay' = UnderWay \cup {c} /\ c \notin UnderWay
  BY <1>1 DEF UnderWay, Unaffected
<1>4. PageLoads' = IF call'[c].kind = "load" THEN PageLoads \cup {c} ELSE PageLoads
  BY <1>1, <1>3 DEF PageLoads, UnderWay, Unaffected
<1>5. LoadInv'
  BY <1>2, <1>4 DEF PageInv, LoadInv, PageTypes
<1>6. ASSUME NEW k \in Contacts \ disturbed'
      PROVE  ContactInv(k)'
  <2>1. CASE c \in About(k)'
    <3>1. c \in Started(k)
      BY <1>1, <2>1 DEF Started, About, UnderWay
    <3>2. About(k) = {}
      BY <3>1, DisturbedFacts
    <3>3. About(k)' = {c}
      BY <1>1, <2>1, <3>2 DEF About, UnderWay, Unaffected
    <3>4. QED
      BY <1>1, <3>3 DEF ContactInv
  <2>2. CASE c \notin About(k)'
    <3>1. About(k)' = About(k) /\ Started(k) = {}
      BY <1>1, <2>2 DEF Started, About, UnderWay, Unaffected
    <3>2. ContactInv(k)
      BY <3>1, DisturbedFacts DEF PageInv
    <3>3. \A d \in About(k) : call'[d] = call[d]
      BY <1>1 DEF About, UnderWay, Unaffected
    <3>4. call'[c].kind # "load"
      <4>1. CallOK(c)'
        BY SendFacts DEF OpenPage, Toggle, AddContact
      <4>2. call'[c].id # "all"
        BY <1>1, <2>2 DEF About, UnderWay
      <4>3. QED
        BY <1>1, <4>1, <4>2 DEF CallOK
    <3>5. QED
      BY <1>1, <1>2, <3>1, <3>2, <3>3, <3>4 DEF ContactInv, Current, OnPage
  <2>3. QED
    BY <2>1, <2>2
<1>7. QED
  BY <1>5, <1>6 DEF PageInv

\* An answer that the page takes shows what it tells of, and leaves the rest.
LEMMA AnswerShows ==
    ASSUME PageTypes, PageInv, NEW c \in Calls, Answer(c), call[c].from = "page",
           call[c].stage = "served", NEW k \in Contacts
    PROVE  /\ c \in About(k) /\ call[c].result[k] = server[k] => Current(k)'
           /\ c \notin About(k) /\ Current(k) => Current(k)'
<1>1. /\ call[c] \in CallTypes /\ call[c] # NoCall /\ server' = server
      /\ c \in About(k) <=> call[c].id \in {k, "all"}
  BY AnswerFacts DEF About, UnderWay
<1>2. CASE call[c].kind = "load"
  <2>1. call[c].id = "all" /\ call[c].result \in [Contacts -> {"none", "on", "off"}]
    BY <1>1, <1>2 DEF PageTypes, CallOK, CallTypes
  <2>2. OnPage' = {Item(j, call[c].result[j]) :
                      j \in {x \in Contacts : call[c].result[x] # "none"}}
    BY <1>2, <2>1, AnswerFacts, LoadFacts
  <2>3. ASSUME NEW x \in Items, x.id = k
        PROVE  x \in OnPage' <=> x.value = call[c].result[k]
    <3>1. x = Item(k, x.value) /\ x.value # "none"
      BY <2>3 DEF Items, Item
    <3>2. \A j \in Contacts, v \in {"none", "on", "off"} :
             Item(j, v) = x <=> j = k /\ v = x.value
      BY <3>1 DEF Item
    <3>3. QED
      BY <2>1, <2>2, <3>1, <3>2
  <2>4. QED
    BY <1>1, <2>1, <2>3 DEF Current
<1>3. CASE call[c].kind # "load"
  <2>1. /\ call[c].id \in Contacts /\ call[c].id # "all"
        /\ call[c].result[call[c].id] \in {"on", "off"}
    BY <1>1, <1>3 DEF PageTypes, CallOK, CallTypes
  <2>2. OnPage' = {x \in OnPage : x.id # call[c].id}
                      \cup {Item(call[c].id, call[c].result[call[c].id])}
    BY <1>3, <2>1, AnswerFacts, UpsertFacts DEF PageTypes
  <2>3. CASE call[c].id = k
    <3>1. ASSUME NEW x \in Items, x.id = k
          PROVE  x \in OnPage' <=> x.value = call[c].result[k]
      <4>1. x = Item(k, x.value)
        BY <3>1 DEF Items, Item
      <4>2. \A v : Item(k, v) = x <=> v = x.value
        BY <4>1 DEF Item
      <4>3. QED
        BY <2>2, <2>3, <3>1, <4>2
    <3>2. QED
      BY <1>1, <2>3, <3>1 DEF Current
  <2>4. CASE call[c].id # k
    <3>1. \A x \in Items : x.id = k => (x \in OnPage' <=> x \in OnPage)
      BY <2>2, <2>4 DEF Item
    <3>2. QED
      BY <1>1, <2>1, <2>4, <3>1 DEF Current
  <2>5. QED
    BY <2>3, <2>4
<1>4. QED
  BY <1>2, <1>3

LEMMA AnswerStep ==
    ASSUME PageTypes, PageInv, Noted, NEW c \in Calls, Answer(c)
    PROVE  PageInv'
<1>1. /\ Unaffected(c) /\ call'[c] = NoCall /\ call[c] # NoCall
      /\ call[c] \in CallTypes /\ call[c].stage # "sent"
      /\ UNCHANGED <<server, open>> /\ loading' \in BOOLEAN
      /\ \/ call[c].from # "page" /\ UNCHANGED page
         \/ /\ call[c].from = "page" /\ call[c].stage = "failed"
            /\ list' = list /\ loading' = (loading /\ call[c].kind # "load")
         \/ /\ call[c].from = "page" /\ call[c].stage = "served"
            /\ call[c].kind = "load" /\ ~loading'
         \/ /\ call[c].from = "page" /\ call[c].stage = "served"
            /\ call[c].kind # "load" /\ loading' = loading
  BY AnswerFacts
<1>2. UnderWay' = UnderWay \ {c}
  BY <1>1 DEF UnderWay, Unaffected
<1>3. PageLoads' = PageLoads \ {c}
  BY <1>1, <1>2 DEF PageLoads, UnderWay, Unaffected
<1>4. LoadInv'
  <2>1. CASE c \in PageLoads
    <3>1. PageLoads' = {}
      BY <1>3, <2>1 DEF PageInv, LoadInv
    <3>2. ~loading'
      BY <1>1, <2>1 DEF PageLoads
    <3>3. QED
      BY <3>1, <3>2 DEF LoadInv
  <2>2. CASE c \notin PageLoads
    <3>1. PageLoads' = PageLoads
      BY <1>3, <2>2
    <3>2. call[c].from # "page" \/ call[c].kind # "load"
      BY <1>1, <2>2 DEF PageLoads, UnderWay
    <3>3. loading' = loading
      BY <1>1, <3>2 DEF page, PageTypes
    <3>4. QED
      BY <1>1, <3>1, <3>3 DEF PageInv, LoadInv
  <2>3. QED
    BY <2>1, <2>2
<1>5. ASSUME NEW k \in Contacts \ disturbed'
      PROVE  ContactInv(k)'
  <2>1. About(k)' = About(k) \ {c} /\ Started(k) = {}
    BY <1>1, <1>2 DEF About, Started, UnderWay, Unaffected
  <2>2. ContactInv(k)
    BY <2>1, DisturbedFacts DEF PageInv
  <2>3. \A d \in About(k)' : call'[d] = call[d]
    BY <1>1, <2>1 DEF About, UnderWay, Unaffected
  <2>4. ASSUME open, ~loading', About(k)' = {}
        PROVE  Current(k)'
    <3>1. CASE c \in About(k)
      <4>1. call[c].from = "page" /\ call[c].stage = "served"
            /\ call[c].result[k] = server[k]
        BY <1>1, <2>2, <2>4, <3>1 DEF ContactInv, CallTypes
      <4>2. QED
        BY <3>1, <4>1, AnswerShows
    <3>2. CASE c \notin About(k)
      <4>1. About(k) = {}
        BY <2>1, <2>4, <3>2
      <4>2. call[c].kind # "load"
        BY <1>1, <3>2 DEF About, UnderWay, PageTypes, CallOK
      <4>3. loading' = loading
        BY <1>1, <4>2 DEF page, PageTypes
      <4>4. Current(k)
        BY <2>2, <2>4, <4>1, <4>3 DEF ContactInv, PageTypes
      <4>5. CASE call[c].from = "page" /\ call[c].stage = "served"
        BY <3>2, <4>4, <4>5, AnswerShows
      <4>6. CASE ~(call[c].from = "page" /\ call[c].stage = "served")
        <5>1. list' = list
          BY <1>1, <4>6 DEF page
        <5>2. QED
          BY <1>1, <4>4, <5>1 DEF Current, OnPage
      <4>7. QED
        BY <4>5, <4>6
    <3>3. QED
      BY <3>1, <3>2
  <2>5. QED
    BY <1>1, <2>1, <2>2, <2>3, <2>4 DEF ContactInv
<1>6. QED
  BY <1>4, <1>5 DEF PageInv

LEMMA PageInvariant == FSpec => []PageInv
<1>1. FInit => PageInv
  BY DEF FInit, PInit, PageInv, LoadInv, PageLoads, UnderWay, ContactInv, About
<1>2. TabInv /\ PageInv /\ [FNext]_fvars => PageInv'
  <2>1. ASSUME TabInv, PageInv, FNext
        PROVE  PageInv'
    <3>1. PageTypes /\ Noted
      BY <2>1 DEF TabInv, FNext
    <3>2. ASSUME ClosePage("closed") \/ ClosePage("gone")
                   \/ \E c \in Calls : Unauthorized(c)
          PROVE  PageInv'
      BY <2>1, <3>1, <3>2, ClosedStep DEF ClosePage, Unauthorized
    <3>3. QED
      BY <2>1, <3>1, <3>2, PageSteps, ServeFailStep, AnswerStep, SendStep,
         ElsewhereStep, StillStep
  <2>2. ASSUME TabInv, PageInv, UNCHANGED fvars
        PROVE  PageInv'
    BY <2>2, StillStep DEF TabInv, fvars, history
  <2>3. QED
    BY <2>1, <2>2
<1>3. QED
  BY <1>1, <1>2, TabInvariant, PTL DEF FSpec

-----------------------------------------------------------------------------
(* Theorems                                                                *)

\* Every variable keeps its type, and the page is shown only in a session.
THEOREM TypeCorrect == FSpec => []TypeOK
<1>1. TabInv => TypeOK
  <2> SUFFICES ASSUME TabInv PROVE TypeOK
    OBVIOUS
  <2>1. signins \in Nat /\ signins \in Sessions /\ 0..signins \subseteq Sessions
    BY SignInsAssumption DEF TabInv, SessionInv, Sessions
  <2>2. \A i \in DOMAIN list : list[i].id \in Contacts /\ list[i].value \in {"on", "off"}
    <3>1. \A i \in DOMAIN list : list[i] \in Items
      BY DEF TabInv, PageTypes, ListOK
    <3>2. QED
      BY <3>1 DEF Items
  <2>3. \A c \in Calls : call[c] = NoCall \/ call[c] \in CallTypes
    BY DEF TabInv, PageTypes, CallOK
  <2>4. open => place = "app" /\ memory # 0
    BY DEF TabInv, SessionInv, RequestsInv
  <2>5. QED
    BY <2>1, <2>2, <2>3, <2>4 DEF TabInv, PageTypes, SessionInv, RequestsInv, TypeOK
<1>2. QED
  BY <1>1, TabInvariant, PTL

\* However answers come in, no contact is listed twice.
THEOREM ListedOnce == FSpec => []NoneTwice
<1>1. TabInv => NoneTwice
  BY DEF TabInv, PageTypes, ListOK
<1>2. QED
  BY <1>1, TabInvariant, PTL

\* The tab and its storage agree on the session, and every request of the
\* document was sent with it, so that a late 401 ends no other session.
THEOREM OneSession == FSpec => []SessionsAgree
<1>1. TabInv => SessionsAgree
  BY DEF TabInv, SessionInv, RequestsInv, SessionsAgree
<1>2. QED
  BY <1>1, TabInvariant, PTL

\* A contact that no request is about is shown as it is, unless its requests have
\* overlapped or failed or it was changed elsewhere.
THEOREM ShownAsItIs == FSpec => []StaleOnlyByOverlap
<1>1. TabInv /\ PageInv => StaleOnlyByOverlap
  <2> SUFFICES ASSUME TabInv, PageInv,
                      NEW k \in Contacts \ disturbed, open, ~loading, About(k) = {}
               PROVE  IF server[k] = "none" THEN k \notin Listed
                      ELSE k \in Listed /\ ValueOf(k) = server[k]
    BY DEF StaleOnlyByOverlap
  <2>1. Current(k) /\ ListOK /\ server[k] \in {"none", "on", "off"}
    BY DEF PageInv, ContactInv, TabInv, PageTypes
  <2>2. CASE server[k] = "none"
    <3>1. ASSUME k \in Listed
          PROVE  FALSE
      <4>1. Item(k, ValueOf(k)) \in OnPage /\ OnPage \subseteq Items
        BY <2>1, <3>1, OnPageFacts
      <4>2. Item(k, ValueOf(k)).id = k /\ Item(k, ValueOf(k)).value # "none"
        BY <4>1 DEF Item, Items
      <4>3. QED
        BY <2>1, <2>2, <4>1, <4>2 DEF Current
    <3>2. QED
      BY <2>2, <3>1
  <2>3. CASE server[k] # "none"
    <3>1. Item(k, server[k]) \in Items /\ Item(k, server[k]).id = k
          /\ Item(k, server[k]).value = server[k]
      BY <2>1, <2>3 DEF Item, Items
    <3>2. Item(k, server[k]) \in OnPage
      BY <2>1, <3>1 DEF Current
    <3>3. QED
      BY <2>1, <2>3, <3>1, <3>2, OnPageFacts
  <2>4. QED
    BY <2>2, <2>3
<1>2. QED
  BY <1>1, TabInvariant, PageInvariant, PTL

\* The sign-in begun last can be completed when the Hosted UI returns from it,
\* unless something that is named has spoilt it.
THEOREM LastSignInWorks == FSpec => SignInCompletes
<1>1. ASSUME TabInv, BegunInv, FNext, place = "away", StartCallback(signins)
      PROVE  place' = "exchange" \/ spoilt' \/ signins \in done
  <2>1. signins \in Nat /\ signins' = signins /\ Noted /\ spoilt \in BOOLEAN
    BY <1>1, SignInsAssumption
       DEF StartCallback, TabInv, SessionInv, Sessions, FNext, BegunInv
  <2>2. CASE PendingRead = signins
    BY <1>1, <2>2 DEF StartCallback
  <2>3. CASE PendingRead # signins
    <3>1. place' = "error"
      BY <1>1, <2>3 DEF StartCallback
    <3>2. QED
      BY <1>1, <2>1, <2>3, <3>1, PendingFacts, SpoiltFacts DEF BegunInv
  <2>4. QED
    BY <2>2, <2>3
<1>2. TabInv /\ BegunInv /\ [FNext]_fvars =>
          [(place = "away" /\ StartCallback(signins)) =>
              \/ place' = "exchange"
              \/ spoilt' \/ signins \in done]_fvars
  BY <1>1
<1>3. QED
  BY <1>2, TabInvariant, BegunInvariant, PTL DEF FSpec, SignInCompletes

=============================================================================
