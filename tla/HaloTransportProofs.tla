-------------------------- MODULE HaloTransportProofs --------------------------
(***************************************************************************)
(* Proofs about a fetch, for every number of retries and every provider:   *)
(* which token it uses, and how much it asks for.                          *)
(***************************************************************************)
EXTENDS HaloTransport, TLAPS

(* The numbers of a fetch. *)
Counters ==
  /\ issued \in Nat /\ floor \in Nat /\ floor <= issued
  /\ sent \in Nat
  /\ attempt \in 0..(MaxRetries + 1)
  /\ pc \in {"idle", "token", "tickets"}

(* A token is on its way only during the token request, and is a new one.  *)
ExchangeInv ==
  /\ pc = "idle" => exchange = None /\ attempt = 0
  /\ exchange = Request => attempt > 0
  /\ exchange.kind = "token" =>
       pc = "token" /\ exchange.token \in {0} \cup (floor + 1)..issued

(* The requests of the first loop are its attempts, those of both loops at *)
(* most all attempts of the first and the attempts of the second; a token  *)
(* is issued at most once per request, after it was sent.                  *)
BudgetInv ==
  /\ pc = "token" =>
       /\ sent = attempt
       /\ issued - floor <= IF exchange = Request THEN attempt - 1 ELSE attempt
  /\ pc = "tickets" => sent <= MaxRetries + 1 + attempt
  /\ sent <= 2 * (MaxRetries + 1)
  /\ issued - floor <= MaxRetries + 1

IInv == Counters /\ ExchangeInv /\ TokenIsOfThisFetch /\ BudgetInv

(* The kind tells a request from everything else. *)
LEMMA Kinds ==
  /\ None.kind = "none" /\ Request.kind = "request" /\ None # Request
  /\ \A k \in Failures \cup Losses : Failure(k).kind = k /\ Failure(k) # Request
  /\ \A t : TokenAnswer(t).kind = "token" /\ TokenAnswer(t).token = t
            /\ TokenAnswer(t) # Request
  /\ \A p : PageAnswer(p).kind = "page" /\ PageAnswer(p) # Request
  <1>1. \A k \in Failures \cup Losses : Failure(k).kind = k /\ k # "request"
    BY DEF Failure, Failures, Losses
  <1>2. \A t : TokenAnswer(t).kind = "token" /\ TokenAnswer(t).token = t
    BY DEF TokenAnswer
  <1>3. \A p : PageAnswer(p).kind = "page"
    BY DEF PageAnswer
  <1>4. None.kind = "none" /\ Request.kind = "request"
    BY DEF None, Request
  <1> QED
    BY <1>1, <1>2, <1>3, <1>4

(* At most one token for each attempt. *)
LEMMA WithinBudget ==
  ASSUME NEW i \in Nat, NEW f \in Nat, NEW a \in Int, i - f <= a, a <= MaxRetries + 1
  PROVE  i - f <= MaxRetries + 1
  BY BoundsAssumption

LEMMA InitIInv == Init => IInv
  BY Kinds, BoundsAssumption
     DEF Init, IInv, Counters, ExchangeInv, TokenIsOfThisFetch, BudgetInv

(* A fetch that ends, in whatever way, leaves its numbers as they are. *)
LEMMA EndIInv ==
  ASSUME IInv, pc # "idle", NEW result, End(result) PROVE IInv'
  BY Kinds, BoundsAssumption
     DEF End, history, IInv, Counters, ExchangeInv, TokenIsOfThisFetch, BudgetInv

-----------------------------------------------------------------------------
(* One step per action; the actions that end a fetch share the lemma.      *)
LEMMA NextIInv == IInv /\ [Next]_vars => IInv'
  <1> SUFFICES ASSUME IInv, [Next]_vars PROVE IInv'
    OBVIOUS
  <1> USE Kinds, BoundsAssumption DEF client, history
  <1>1. CASE ProviderChanges
    BY <1>1 DEF ProviderChanges, IInv, Counters, ExchangeInv, TokenIsOfThisFetch, BudgetInv
  <1>2. CASE Fetch
    BY <1>2 DEF Fetch, IInv, Counters, ExchangeInv, TokenIsOfThisFetch, BudgetInv
  <1>3. CASE Send
    <2>1. exchange' = Request /\ exchange'.kind = "request" /\ pc' = pc /\ pc # "idle"
      BY <1>3 DEF Send
    <2>2. Counters' /\ ExchangeInv'
      BY <1>3, <2>1 DEF Send, IInv, Counters, ExchangeInv
    <2>3. TokenIsOfThisFetch' /\ BudgetInv'
      BY <1>3, <2>1 DEF Send, IInv, Counters, TokenIsOfThisFetch, BudgetInv
    <2> QED
      BY <2>2, <2>3 DEF IInv
  <1>4. CASE Retry
    BY <1>4 DEF Retry, Retried, IInv, Counters, ExchangeInv, TokenIsOfThisFetch, BudgetInv
  <1>5. CASE RetriesExhausted \/ Refused \/ Escapes \/ TokenMissing \/ TakePage \/ NoTicketList
    <2>1. pc # "idle"
      BY <1>5 DEF RetriesExhausted, Refused, Escapes, TokenMissing, TakePage, NoTicketList,
                  IInv, ExchangeInv
    <2>2. \E result : End(result)
      BY <1>5 DEF RetriesExhausted, Refused, Escapes, TokenMissing, TakePage, NoTicketList, Fail
    <2> QED
      BY <2>1, <2>2, EndIInv
  <1>6. CASE TakeToken
    <2>1. pc = "token" /\ token' > floor /\ pc' = "tickets" /\ exchange' = None
      BY <1>6 DEF TakeToken, IInv, Counters, ExchangeInv
    <2> QED
      BY <1>6, <2>1 DEF TakeToken, IInv, Counters, ExchangeInv, TokenIsOfThisFetch, BudgetInv
  <1>7. CASE ServeToken
    <2>1. PICK t \in {0, issued + 1} :
            /\ exchange' = TokenAnswer(t)
            /\ issued' = IF t = 0 THEN issued ELSE issued + 1
      BY <1>7 DEF ServeToken, IInv, Counters
    <2>2. Counters' /\ ExchangeInv'
      BY <1>7, <2>1 DEF ServeToken, IInv, Counters, ExchangeInv
    <2>3. TokenIsOfThisFetch' /\ BudgetInv'
      BY <1>7, <2>1 DEF ServeToken, IInv, Counters, TokenIsOfThisFetch, BudgetInv
    <2> QED
      BY <2>2, <2>3 DEF IInv
  <1>8. CASE ServePage
    BY <1>8 DEF ServePage, IInv, Counters, ExchangeInv, TokenIsOfThisFetch, BudgetInv
  <1>9. CASE ServeFailure
    <2>1. PICK k \in Failures : exchange' = Failure(k)
      BY <1>9 DEF ServeFailure
    <2>2. exchange' # Request /\ exchange'.kind \notin {"token", "request"} /\ pc # "idle"
      BY <1>9, <2>1 DEF ServeFailure, Failures, IInv, ExchangeInv
    <2>3. Counters' /\ ExchangeInv'
      BY <1>9, <2>2 DEF ServeFailure, IInv, Counters, ExchangeInv
    <2>4. exchange = Request /\ issued' \in {issued, IF pc = "token" THEN issued + 1 ELSE issued}
      BY <1>9 DEF ServeFailure
    <2>5. UNCHANGED <<token, floor, pc, attempt, sent>>
      BY <1>9 DEF ServeFailure
    <2>6. TokenIsOfThisFetch'
      BY <2>5 DEF IInv, TokenIsOfThisFetch
    <2>7. ASSUME pc = "token" PROVE issued' - floor <= attempt
      <3>1. issued - floor <= attempt - 1
        BY <2>4, <2>7 DEF IInv, BudgetInv
      <3>2. issued \in Nat /\ floor \in Nat /\ attempt \in Int
        BY DEF IInv, Counters
      <3>3. issued' = issued \/ issued' = issued + 1
        BY <2>4, <2>7, Zenon
      <3>4. CASE issued' = issued
        BY <3>1, <3>2, <3>4
      <3>5. CASE issued' = issued + 1
        BY <3>1, <3>2, <3>5
      <3> QED
        BY <3>3, <3>4, <3>5
    <2>8. pc # "token" => issued' = issued
      BY <2>4
    <2>9. pc' = "token" =>
            /\ sent' = attempt'
            /\ issued' - floor' <= IF exchange' = Request THEN attempt' - 1 ELSE attempt'
      BY <2>2, <2>5, <2>7 DEF IInv, BudgetInv
    <2>10. pc' = "tickets" => sent' <= MaxRetries + 1 + attempt'
      BY <2>5 DEF IInv, BudgetInv
    <2>11. sent' <= 2 * (MaxRetries + 1) /\ issued' - floor' <= MaxRetries + 1
      <3>1. CASE pc = "token"
        <4>1. sent' <= 2 * (MaxRetries + 1)
          BY <2>5 DEF IInv, BudgetInv
        <4>2. issued' \in Nat /\ floor \in Nat /\ attempt \in Int /\ attempt <= MaxRetries + 1
          BY <2>3 DEF IInv, Counters
        <4>3. issued' - floor <= MaxRetries + 1
          <5>1. issued' - floor <= attempt
            BY <2>7, <3>1
          <5> QED
            BY <4>2, <5>1, WithinBudget
        <4> QED
          BY <2>5, <4>1, <4>3
      <3>2. CASE pc # "token"
        BY <2>5, <2>8, <3>2 DEF IInv, BudgetInv
      <3> QED
        BY <3>1, <3>2
    <2>12. BudgetInv'
      BY <2>9, <2>10, <2>11 DEF BudgetInv
    <2> QED
      BY <2>3, <2>6, <2>12 DEF IInv
  <1>10. CASE ConnectionFails
    <2>1. PICK k \in Losses : exchange' = Failure(k)
      BY <1>10 DEF ConnectionFails
    <2>2. exchange' # Request /\ exchange'.kind \notin {"token", "request"} /\ pc # "idle"
      BY <1>10, <2>1 DEF ConnectionFails, Losses, IInv, ExchangeInv
    <2> QED
      BY <1>10, <2>2
         DEF ConnectionFails, IInv, Counters, ExchangeInv, TokenIsOfThisFetch, BudgetInv
  <1>11. CASE UNCHANGED vars
    BY <1>11 DEF vars, IInv, Counters, ExchangeInv, TokenIsOfThisFetch, BudgetInv
  <1> QED
    BY <1>1, <1>2, <1>3, <1>4, <1>5, <1>6, <1>7, <1>8, <1>9, <1>10, <1>11
       DEF Next, Proceed, Answered, Terminated

LEMMA Invariance == Spec => []IInv
  BY InitIInv, NextIInv, PTL DEF Spec

-----------------------------------------------------------------------------
(* What is answered was held by the provider during this fetch. *)
PageInv ==
  /\ pc # "idle" => provider \in offered
  /\ exchange.kind = "page" => exchange.page \in offered
  /\ FetchedPageWasOffered

LEMMA InitPageInv == Init => PageInv
  BY Kinds DEF Init, PageInv, FetchedPageWasOffered, NoOutcome

(* Only a page that is taken is a result with a page.                      *)
LEMMA EndPageInv ==
  ASSUME PageInv, NEW result, End(result),
         result.kind = "page" =>
           \E p \in offered \ {NoList} : result.page = Mappings(p)
  PROVE  PageInv'
  BY Kinds DEF End, history, PageInv, FetchedPageWasOffered

LEMMA NextPageInv == IInv /\ PageInv /\ [Next]_vars => PageInv'
  <1> SUFFICES ASSUME IInv, PageInv, [Next]_vars PROVE PageInv'
    OBVIOUS
  <1>1. CASE ProviderChanges
    BY <1>1 DEF ProviderChanges, client, PageInv, FetchedPageWasOffered
  <1>2. CASE Fetch
    BY <1>2, Kinds DEF Fetch, NoOutcome, IInv, ExchangeInv, PageInv, FetchedPageWasOffered
  <1>3. CASE Send \/ Retry
    BY <1>3, Kinds DEF Send, Retry, client, history, PageInv, FetchedPageWasOffered
  <1>4. CASE RetriesExhausted \/ Refused \/ Escapes \/ TokenMissing \/ NoTicketList
    <2>1. PICK kind \in {"failed", "escaped"} : End([kind |-> kind, page |-> <<>>])
      BY <1>4 DEF RetriesExhausted, Refused, Escapes, TokenMissing, NoTicketList, Fail
    <2> QED
      BY <2>1, EndPageInv
  <1>5. CASE TakePage
    <2>1. exchange.page \in offered \ {NoList}
      BY <1>5 DEF TakePage, PageInv
    <2>2. End([kind |-> "page", page |-> Mappings(exchange.page)])
      BY <1>5 DEF TakePage
    <2> QED
      BY <2>1, <2>2, EndPageInv
  <1>6. CASE TakeToken
    BY <1>6, Kinds DEF TakeToken, history, IInv, ExchangeInv, PageInv, FetchedPageWasOffered
  <1>7. CASE ServeToken
    BY <1>7, Kinds DEF ServeToken, client, history, PageInv, FetchedPageWasOffered
  <1>8. CASE ServePage
    <2>1. exchange'.kind = "page" /\ exchange'.page = provider
      BY <1>8 DEF ServePage, PageAnswer
    <2> QED
      BY <1>8, <2>1 DEF ServePage, client, history, PageInv, FetchedPageWasOffered
  <1>9. CASE ServeFailure \/ ConnectionFails
    <2>1. PICK k \in Failures \cup Losses : exchange' = Failure(k)
      BY <1>9 DEF ServeFailure, ConnectionFails
    <2>2. exchange'.kind # "page"
      BY <2>1, Kinds DEF Failures, Losses
    <2> QED
      BY <1>9, <2>2
         DEF ServeFailure, ConnectionFails, client, history, PageInv, FetchedPageWasOffered
  <1>10. CASE UNCHANGED vars
    BY <1>10 DEF vars, PageInv, FetchedPageWasOffered
  <1> QED
    BY <1>1, <1>2, <1>3, <1>4, <1>5, <1>6, <1>7, <1>8, <1>9, <1>10
       DEF Next, Proceed, Answered, Terminated

-----------------------------------------------------------------------------
(* What an exchange may be, for a number of tokens issued.                 *)
Exchanges(n) ==
  {None, Request} \cup {Failure(k) : k \in Failures \cup Losses}
    \cup {TokenAnswer(t) : t \in 0..n} \cup {PageAnswer(p) : p \in Pages}

(* The page of an exchange that has one is a page. *)
LEMMA ExchangedPage ==
  ASSUME NEW n \in Nat, NEW e \in Exchanges(n)
  PROVE  /\ e.kind = "page" => e.page \in Pages
         /\ e.kind = "token" => e.token \in 0..n
  <1>1. CASE e \in {None, Request} \/ e \in {Failure(k) : k \in Failures \cup Losses}
    BY <1>1, Kinds DEF Failures, Losses
  <1>2. CASE e \in {TokenAnswer(t) : t \in 0..n}
    BY <1>2 DEF TokenAnswer
  <1>3. CASE e \in {PageAnswer(p) : p \in Pages}
    BY <1>3 DEF PageAnswer
  <1> QED
    BY <1>1, <1>2, <1>3 DEF Exchanges

LEMMA InitTypes == Init => TypeOK
  BY BoundsAssumption DEF Init, TypeOK, NoOutcome, Outcomes

(* A fetch that ends as one of its kinds of outcome. *)
LEMMA EndTypes ==
  ASSUME TypeOK, NEW result \in Outcomes, End(result) PROVE TypeOK'
  BY BoundsAssumption DEF End, history, TypeOK

LEMMA NextTypes == IInv /\ TypeOK /\ [Next]_vars => TypeOK'
  <1> SUFFICES ASSUME IInv, TypeOK, [Next]_vars PROVE TypeOK'
    OBVIOUS
  <1> USE BoundsAssumption DEF client, history
  <1>0. exchange \in Exchanges(issued) /\ issued \in Nat /\ floor \in 0..issued
    BY DEF TypeOK, Exchanges
  <1>1. CASE ProviderChanges \/ Fetch
    <2>1. offered' \subseteq Pages /\ provider' \in Pages
      BY <1>1 DEF ProviderChanges, Fetch, TypeOK
    <2>2. exchange' = exchange /\ issued' = issued
      BY <1>1 DEF ProviderChanges, Fetch
    <2>3. NoOutcome \in Outcomes
      BY DEF NoOutcome, Outcomes
    <2> QED
      BY <1>1, <2>1, <2>2, <2>3 DEF ProviderChanges, Fetch, TypeOK
  <1>2. CASE Send
    BY <1>2 DEF Send, TypeOK
  <1>3. CASE Retry
    BY <1>3 DEF Retry, TypeOK
  <1>4. CASE RetriesExhausted \/ Refused \/ Escapes \/ TokenMissing \/ NoTicketList
    <2>1. PICK kind \in {"failed", "escaped"} : End([kind |-> kind, page |-> <<>>])
      BY <1>4 DEF RetriesExhausted, Refused, Escapes, TokenMissing, NoTicketList, Fail
    <2> QED
      BY <2>1, EndTypes DEF Outcomes
  <1>5. CASE TakePage
    <2>1. exchange.page \in Pages \ {NoList}
      BY <1>0, <1>5, ExchangedPage DEF TakePage
    <2>2. End([kind |-> "page", page |-> Mappings(exchange.page)])
      BY <1>5 DEF TakePage
    <2> QED
      BY <2>1, <2>2, EndTypes DEF Outcomes
  <1>6. CASE TakeToken
    <2>1. token' \in 0..issued
      BY <1>0, <1>6, ExchangedPage DEF TakeToken
    <2> QED
      BY <1>6, <2>1 DEF TakeToken, TypeOK
  <1>7. CASE ServeToken \/ ServePage \/ ServeFailure \/ ConnectionFails
    <2>1. issued' \in {issued, issued + 1}
      BY <1>7 DEF ServeToken, ServePage, ServeFailure, ConnectionFails
    <2>2. exchange' \in Exchanges(issued')
      <3>1. CASE ServeToken
        BY <1>0, <3>1 DEF ServeToken, Exchanges
      <3>2. CASE ServePage
        BY <1>0, <3>2 DEF ServePage, Exchanges, TypeOK
      <3>3. CASE ServeFailure \/ ConnectionFails
        BY <1>0, <3>3 DEF ServeFailure, ConnectionFails, Exchanges
      <3> QED
        BY <1>7, <3>1, <3>2, <3>3
    <2>3. token' \in 0..issued' /\ floor' \in 0..issued' /\ issued' \in Nat
      BY <1>0, <1>7, <2>1 DEF ServeToken, ServePage, ServeFailure, ConnectionFails, TypeOK
    <2> QED
      BY <1>7, <2>2, <2>3
         DEF ServeToken, ServePage, ServeFailure, ConnectionFails, TypeOK, Exchanges
  <1>8. CASE UNCHANGED vars
    BY <1>8 DEF vars, TypeOK
  <1> QED
    BY <1>1, <1>2, <1>3, <1>4, <1>5, <1>6, <1>7, <1>8
       DEF Next, Proceed, Answered, Terminated

-----------------------------------------------------------------------------
(* Every reachable state is well typed: no more attempts than the retries  *)
(* allow, tokens that were issued, and answers and results of the kinds    *)
(* fetch_tickets knows.                                                    *)
THEOREM TransportTypeCorrect == Spec => []TypeOK
  <1> QED
    BY Invariance, InitTypes, NextTypes, PTL DEF Spec

(* Tickets are asked for only with a token issued during the same fetch.   *)
THEOREM TokensAreFresh == Spec => []TokenIsOfThisFetch
  <1>1. IInv => TokenIsOfThisFetch
    BY DEF IInv
  <1> QED
    BY Invariance, <1>1, PTL

(* A fetch sends at most 2 * (MaxRetries + 1) requests, and has at most    *)
(* MaxRetries + 1 tokens issued, whatever is lost or fails.                *)
THEOREM RequestsStayBounded == Spec => []RequestsAreBounded
  <1>1. IInv => RequestsAreBounded
    BY DEF IInv, BudgetInv, RequestsAreBounded
  <1> QED
    BY Invariance, <1>1, PTL

(* What a fetch returns are the tickets of one page that the provider held *)
(* during that fetch.                                                      *)
THEOREM PagesAreOffered == Spec => []FetchedPageWasOffered
  <1>1. PageInv => FetchedPageWasOffered
    BY DEF PageInv
  <1> QED
    BY Invariance, InitPageInv, NextPageInv, <1>1, PTL DEF Spec
=============================================================================
