--------------------------- MODULE HaloTransport ---------------------------
(***************************************************************************)
(* HaloPsaHttpTransport.fetch_tickets: one request for a token, one for a  *)
(* page of tickets, each repeated up to max_retries times. The provider    *)
(* and the network answer as they like: late, not at all, with an error or *)
(* with something that is no answer; and the tickets change meanwhile.     *)
(***************************************************************************)
EXTENDS Integers, Sequences

CONSTANTS Tickets,     \* ticket objects of the provider
          Junk,        \* an item of a ticket list that is no JSON object
          NoList,      \* an answer without a ticket list
          Pages,       \* what the ticket endpoint may hold: lists, or NoList
          MaxRetries,  \* config.max_retries
          MaxFetches   \* bound: calls of fetch_tickets

ASSUME JunkAssumption == Junk \notin Tickets
ASSUME PagesAssumption == Pages \subseteq Seq(Tickets \cup {Junk}) \cup {NoList}
ASSUME NoListAssumption == NoList \notin Seq(Tickets \cup {Junk})
ASSUME BoundsAssumption == MaxRetries \in Nat /\ MaxFetches \in Nat

VARIABLES
  provider,  \* what the ticket endpoint holds now
  issued,    \* tokens the provider has issued, numbered from 1
  pc,        \* the request being made: idle, token or tickets
  attempt,   \* attempts of that request started so far
  exchange,  \* the HTTP exchange in progress
  token,     \* the access token of this fetch, 0 before it has one
  outcome,   \* what the last fetch came to
  fetches,   \* calls so far, for the bound
  sent,      \* history: requests sent by this fetch
  offered,   \* history: what the endpoint has held during this fetch
  floor      \* history: tokens issued before this fetch

client == <<pc, attempt, token, outcome, fetches>>
history == <<sent, offered, floor>>
vars == <<provider, issued, pc, attempt, exchange, token, outcome, fetches,
          sent, offered, floor>>

(* How an exchange stands, besides an answer that is a JSON object.        *)
None == [kind |-> "none"]
Request == [kind |-> "request"]
Failure(k) == [kind |-> k]
TokenAnswer(t) == [kind |-> "token", token |-> t]
PageAnswer(p) == [kind |-> "page", page |-> p]

(* rejected: a 4xx status. unavailable: any other error status. garbled:   *)
(* text that is no JSON. not object: JSON, but a list or a scalar. broken: *)
(* the connection ends before a whole answer, or the bytes are no UTF-8.   *)
Failures == {"rejected", "unavailable", "garbled", "not object"}
Losses == {"unreachable", "broken"}

(* HTTPError above 499, URLError, TimeoutError, JSONDecodeError. *)
Retried == {"unavailable", "garbled", "unreachable"}

(* The items of a list that are JSON objects. *)
Mappings(page) == SelectSeq(page, LAMBDA item : item \in Tickets)

Outcomes == [kind : {"none", "failed", "escaped"}, page : {<<>>}]
              \cup [kind : {"page"}, page : {Mappings(p) : p \in Pages \ {NoList}}]
NoOutcome == [kind |-> "none", page |-> <<>>]

End(result) ==
  /\ pc' = "idle"
  /\ attempt' = 0
  /\ exchange' = None
  /\ outcome' = result
  /\ UNCHANGED <<provider, issued, token, fetches, history>>

Fail == End([kind |-> "failed", page |-> <<>>])

-----------------------------------------------------------------------------
Init ==
  /\ provider \in Pages
  /\ issued = 0
  /\ pc = "idle"
  /\ attempt = 0
  /\ exchange = None
  /\ token = 0
  /\ outcome = NoOutcome
  /\ fetches = 0
  /\ sent = 0
  /\ offered = {}
  /\ floor = 0

(* The tickets of the provider change. *)
ProviderChanges ==
  /\ provider' \in Pages
  /\ offered' = IF pc = "idle" THEN offered ELSE offered \cup {provider'}
  /\ UNCHANGED <<issued, exchange, client, sent, floor>>

(* Fault: a token is kept from one fetch to the next. *)
FetchWithOldToken ==
  /\ pc = "idle"
  /\ fetches < MaxFetches
  /\ fetches' = fetches + 1
  /\ pc' = IF token = 0 THEN "token" ELSE "tickets"
  /\ outcome' = NoOutcome
  /\ sent' = 0
  /\ offered' = {provider}
  /\ floor' = issued
  /\ UNCHANGED <<provider, issued, attempt, exchange, token>>

(* fetch_tickets is called with a valid configuration. *)
Fetch ==
  /\ pc = "idle"
  /\ fetches < MaxFetches
  /\ fetches' = fetches + 1
  /\ pc' = "token"
  /\ token' = 0
  /\ outcome' = NoOutcome
  /\ sent' = 0
  /\ offered' = {provider}
  /\ floor' = issued
  /\ UNCHANGED <<provider, issued, attempt, exchange>>

(* Fault: range(max_retries + 2). *)
SendOnceMore ==
  /\ pc # "idle"
  /\ exchange = None
  /\ attempt <= MaxRetries + 1
  /\ attempt' = attempt + 1
  /\ exchange' = Request
  /\ sent' = sent + 1
  /\ UNCHANGED <<provider, issued, pc, token, outcome, fetches, offered, floor>>

(* Fault: `while True`: attempts are not counted, sent is a history only. *)
SendForEver ==
  /\ pc # "idle"
  /\ exchange = None
  /\ exchange' = Request
  /\ UNCHANGED <<provider, issued, client, history>>

(* The next attempt of the loop in _request_json. *)
Send ==
  /\ pc # "idle"
  /\ exchange = None
  /\ attempt <= MaxRetries
  /\ attempt' = attempt + 1
  /\ exchange' = Request
  /\ sent' = sent + 1
  /\ UNCHANGED <<provider, issued, pc, token, outcome, fetches, offered, floor>>

(* The provider answers a token request, with a token or without one.      *)
ServeToken ==
  /\ pc = "token"
  /\ exchange = Request
  /\ \/ issued' = issued + 1 /\ exchange' = TokenAnswer(issued + 1)
     \/ issued' = issued /\ exchange' = TokenAnswer(0)
  /\ UNCHANGED <<provider, client, history>>

ServePage ==
  /\ pc = "tickets"
  /\ exchange = Request
  /\ exchange' = PageAnswer(provider)
  /\ UNCHANGED <<provider, issued, client, history>>

(* Any other answer; a token may have been issued all the same. *)
ServeFailure ==
  /\ exchange = Request
  /\ \E k \in Failures : exchange' = Failure(k)
  /\ issued' \in {issued, IF pc = "token" THEN issued + 1 ELSE issued}
  /\ UNCHANGED <<provider, client, history>>

(* The request, or its answer, is lost, cut short or later than the        *)
(* timeout.                                                                *)
ConnectionFails ==
  /\ exchange.kind \in {"request", "token", "page"}
  /\ \E k \in Losses : exchange' = Failure(k)
  /\ UNCHANGED <<provider, issued, client, history>>

(* The exception is kept as last_error and the loop goes on. *)
Retry ==
  /\ exchange.kind \in Retried
  /\ exchange' = None
  /\ UNCHANGED <<provider, issued, client, history>>

(* The loop is over. *)
RetriesExhausted ==
  /\ pc # "idle"
  /\ exchange = None
  /\ attempt = MaxRetries + 1
  /\ Fail

(* A 4xx status and JSON that is no object are not tried again. *)
Refused ==
  /\ exchange.kind \in {"rejected", "not object"}
  /\ Fail

(* RemoteDisconnected, ConnectionResetError, IncompleteRead and            *)
(* UnicodeDecodeError are none of the exceptions of the except clauses.    *)
Escapes ==
  /\ exchange.kind = "broken"
  /\ End([kind |-> "escaped", page |-> <<>>])

TakeToken ==
  /\ exchange.kind = "token"
  /\ exchange.token # 0
  /\ token' = exchange.token
  /\ pc' = "tickets"
  /\ attempt' = 0
  /\ exchange' = None
  /\ UNCHANGED <<provider, issued, outcome, fetches, history>>

TokenMissing ==
  /\ exchange.kind = "token"
  /\ exchange.token = 0
  /\ Fail

(* Fault: the items are returned as they are. *)
TakePageUnfiltered ==
  /\ exchange.kind = "page"
  /\ exchange.page # NoList
  /\ End([kind |-> "page", page |-> exchange.page])

TakePage ==
  /\ exchange.kind = "page"
  /\ exchange.page # NoList
  /\ End([kind |-> "page", page |-> Mappings(exchange.page)])

NoTicketList ==
  /\ exchange.kind = "page"
  /\ exchange.page = NoList
  /\ Fail

-----------------------------------------------------------------------------
(* What the client does of itself, and how an exchange ends. *)
Proceed ==
  \/ Send \/ Retry \/ RetriesExhausted \/ Refused \/ Escapes
  \/ TakeToken \/ TokenMissing \/ TakePage \/ NoTicketList
Answered == ServeToken \/ ServePage \/ ServeFailure \/ ConnectionFails

Terminated ==
  /\ pc = "idle" /\ fetches = MaxFetches
  /\ UNCHANGED vars

Next == ProviderChanges \/ Fetch \/ Proceed \/ Answered \/ Terminated

(* The client goes on; an exchange that is not answered times out (urlopen *)
(* is given a timeout). Nothing makes the provider answer well.            *)
Fairness == WF_vars(Proceed) /\ WF_vars(Answered)

Spec == Init /\ [][Next]_vars
FairSpec == Spec /\ Fairness

-----------------------------------------------------------------------------
(* The types of the variables. *)
TypeOK ==
  /\ provider \in Pages
  /\ issued \in Nat
  /\ pc \in {"idle", "token", "tickets"}
  /\ attempt \in 0..(MaxRetries + 1)
  /\ exchange \in {None, Request} \cup {Failure(k) : k \in Failures \cup Losses}
                    \cup {TokenAnswer(t) : t \in 0..issued}
                    \cup {PageAnswer(p) : p \in Pages}
  /\ token \in 0..issued
  /\ outcome \in Outcomes
  /\ fetches \in 0..MaxFetches
  /\ sent \in Nat
  /\ offered \subseteq Pages
  /\ floor \in 0..issued

(* The provider is asked for tickets only with a token that it issued      *)
(* during the same fetch, however many token answers were lost before.     *)
TokenIsOfThisFetch == pc = "tickets" => token > floor

(* A fetch sends a bounded number of requests, and has the provider issue  *)
(* a bounded number of tokens, whatever is lost or fails in both loops.    *)
RequestsAreBounded ==
  /\ sent <= 2 * (MaxRetries + 1)
  /\ issued - floor <= MaxRetries + 1

(* What a fetch returns is one page the provider held during that fetch,   *)
(* without the items that are no objects: answers of several attempts are  *)
(* never mixed, and no answer of an earlier fetch comes back.              *)
FetchedPageWasOffered ==
  outcome.kind = "page" =>
    \E p \in offered \ {NoList} : outcome.page = Mappings(p)

(* Every fetch returns or raises. *)
EveryFetchEnds == pc # "idle" ~> pc = "idle"

(* HaloPsaHttpTransportError is "raised when the HaloPSA HTTP transport    *)
(* cannot complete safely" (halopsa_http_transport.py:16): no fetch ends   *)
(* with another exception.                                                 *)
FailuresAreTransportErrors == outcome.kind # "escaped"
=============================================================================
