--------------------------- MODULE InternetAccess ---------------------------
(***************************************************************************)
(* The internet tool: searches through one provider adapter with its       *)
(* retries, the ranking and the answer cache, and the content fetcher with *)
(* its redirects and address checks.  Calls overlap at every await; the    *)
(* name service may answer differently at every resolution.                *)
(***************************************************************************)
EXTENDS Naturals, Sequences, FiniteSets, SequencesExt

CONSTANTS
  Searches,      \* calls of the tool that search
  Categories,    \* "web" and "news"
  Keys,          \* queries as SearchCache._key normalises them
  Adapters,      \* of "searxng", "brave" and "ddgs", the ones configured
  RawAnswers,    \* what a provider may return: sequences of link, url, title, domain, score, fresh
  Most,          \* _MAX_PROVIDER_RESULTS
  Authoritative, \* SearchPolicy.authoritative_domains
  MaxResults,    \* SearchPolicy.max_results
  MaxRetries,    \* of an adapter; DDGS makes one attempt
  Ttl,           \* SearchPolicy.ttl_for, by category
  MaxDay,        \* bound on the clock
  Hosts,
  Addresses,     \* an address is the set of what ipaddress says of it
  AllowLocalhost, AllowPrivate,
  MaxRedirects,
  MaxBody,       \* max_response_bytes, in chunks
  NoHost

(* An IPv4-mapped IPv6 address has the attributes of both.                 *)
Attributes ==
  {"loopback", "private", "link_local", "multicast", "unspecified", "reserved", "metadata",
   "v6"}

(* A url is its place in the order of urls, as is a score.                 *)
Results ==
  [url : Nat, title : STRING, domain : STRING, score : Int, fresh : BOOLEAN,
   link : {"http", "other", "none"}]

ASSUME InternetAssumption ==
  /\ MaxResults \in Nat \ {0} /\ MaxRetries \in Nat /\ MaxRedirects \in Nat /\ MaxBody \in Nat
  /\ Ttl \in [Categories -> Nat] /\ AllowLocalhost \in BOOLEAN /\ AllowPrivate \in BOOLEAN
  /\ Addresses \subseteq SUBSET Attributes /\ NoHost \notin Hosts
  /\ RawAnswers \subseteq Seq(Results) /\ Most \in Nat /\ MaxDay \in Nat
  /\ Adapters \subseteq {"searxng", "brave", "ddgs"}

VARIABLES
  day,       \* the clock
  adapter,   \* the provider the tool was built with
  search,    \* each search: where it is, what it asked, its attempt
  answers,   \* the cache: <<category, key>> -> expiry and results
  served,    \* the last answer given: of which search, how old, from what
  fetch      \* the fetch under way

searchVars == <<adapter, search, answers, served>>
internetVars == <<day, searchVars, fetch>>

FailureKinds ==
  {"none", "configuration", "timeout", "offline", "rate_limit", "authentication", "http",
   "malformed", "empty"}

NoFetch ==
  [at |-> "idle", home |-> NoHost, host |-> NoHost, headers |-> FALSE, redirects |-> 0,
   address |-> NoHost, carried |-> FALSE, sent |-> 0, body |-> 0]
NothingServed ==
  [category |-> "none", key |-> "none", from |-> <<>>, raw |-> <<>>, ranked |-> <<>>,
   verdict |-> "unknown", age |-> 0]

InternetTypeOK ==
  /\ day \in 0..MaxDay
  /\ \A s \in Searches :
       /\ search[s].at \in {"idle", "asking", "backing off", "done", "failed"}
       /\ search[s].attempt \in 0..(IF adapter = "ddgs" THEN 0 ELSE MaxRetries)
       /\ search[s].failure \in FailureKinds
  /\ \A k \in DOMAIN answers : answers[k].expires >= answers[k].stored /\ answers[k].results # <<>>
  /\ fetch.at \in {"idle", "resolving", "sent", "ok", "failed"}
  /\ fetch.redirects \in 0..MaxRedirects + 1 /\ fetch.body \in 0..MaxBody + 1

InternetInit ==
  /\ day = 0
  /\ adapter \in Adapters
  /\ search = [s \in Searches |-> [at |-> "idle", category |-> "none", key |-> "none",
                                   attempt |-> 0, failure |-> "none"]]
  /\ answers = <<>> /\ served = NothingServed
  /\ fetch = NoFetch

-----------------------------------------------------------------------------
(* ResultRanker.rank: the first earlier result with the same url, or with  *)
(* the same title and domain, is the one a result is measured against.     *)
SameResult(p, q) == p.url = q.url \/ (p.title = q.title /\ p.domain = q.domain)
FirstDuplicate(selected, p) ==
  LET found == {i \in 1..Len(selected) : SameResult(selected[i], p)}
  IN  IF found = {} THEN 0 ELSE CHOOSE i \in found : \A j \in found : i <= j

(* Mutant: the later result wins.                                          *)
CollapsedLast(selected, p) ==
  LET i == FirstDuplicate(selected, p)
  IN  IF i = 0 THEN Append(selected, p) ELSE [selected EXCEPT ![i] = p]

Collapsed(selected, p) ==
  LET i == FirstDuplicate(selected, p)
  IN  CASE i = 0 -> Append(selected, p)
        [] i # 0 /\ p.score > selected[i].score -> [selected EXCEPT ![i] = p]
        [] OTHER -> selected
CollapsedAll(raw) ==
  LET seen[n \in 0..Len(raw)] == IF n = 0 THEN <<>> ELSE Collapsed(seen[n - 1], raw[n])
  IN  seen[Len(raw)]

(* The place of a result: by score, then by url; the sort is stable.       *)
Before(results, i, j) ==
  LET p == results[i] q == results[j]
  IN  \/ p.score > q.score
      \/ p.score = q.score /\ (p.url < q.url \/ (p.url = q.url /\ i < j))
Place(results, i) == Cardinality({j \in DOMAIN results : Before(results, j, i)}) + 1
Least(a, b) == IF a < b THEN a ELSE b
Ranked(raw) ==
  LET selected == CollapsedAll(raw)
  IN  [n \in 1..Least(Len(selected), MaxResults) |->
         selected[CHOOSE i \in DOMAIN selected : Place(selected, i) = n]]

(* SearchVerifier.verify: the titles are the claims, and the one whose     *)
(* sources weigh most dominates; max takes the first of equals.            *)
Claim(results, i) == {j \in 1..Len(results) : results[j].title = results[i].title}
Weight(results, i) ==
  Cardinality(Claim(results, i))
  + Cardinality({j \in Claim(results, i) : results[j].domain \in Authoritative})
Dominant(results) ==
  Claim(results, CHOOSE i \in 1..Len(results) : \A j \in 1..Len(results) :
                   \/ Weight(results, i) > Weight(results, j)
                   \/ Weight(results, i) = Weight(results, j) /\ i <= j)

(* Mutant: every result counts as a source of its own.                     *)
AgreeingResults(results) == Cardinality(Dominant(results))
Agreeing(results) == Cardinality({results[i].domain : i \in Dominant(results)})

(* _verdict                                                                *)
Confidence(results) ==
  LET d == Dominant(results)
  IN  CASE Len(results) = 1 -> "low"
        [] /\ Len(results) > 1 /\ Agreeing(results) >= 2
           /\ 10 * Cardinality(d) >= 6 * Len(results)
           /\ \E i \in d : results[i].domain \in Authoritative ->
             IF \A i \in d : results[i].fresh THEN "high" ELSE "medium"
        [] OTHER -> IF Cardinality(d) < Len(results) THEN "low" ELSE "medium"

(* SearchCache.get; an expired entry is dropped where it is met.           *)
(* Mutant: expiry is left to a sweep.                                      *)
LiveStored(k) == k \in DOMAIN answers
Live(k) == k \in DOMAIN answers /\ day <= answers[k].expires
Dropped(k) == [x \in DOMAIN answers \ {k} |-> answers[x]]
(* SearchCache.put                                                         *)
Stored(k, results) ==
  [x \in DOMAIN answers \cup {k} |->
     IF x = k THEN [stored |-> day, results |-> results, of |-> k,
                    expires |-> day + Ttl[k[1]]]
     ELSE answers[x]]

Moves(s, at) == search' = [search EXCEPT ![s].at = at]

(* InternetTool.run and _search, admitted by policy and permit: an answer  *)
(* from the cache is ranked again, or the adapter is asked.                *)
CacheKey(category, key) == <<category, key>>
SearchHits(s, category, key) ==
  LET k == CacheKey(category, key)
  IN  /\ search[s].at = "idle" /\ Live(k)
      /\ search' = [search EXCEPT ![s] = [at |-> "done", category |-> category,
                                          key |-> key, attempt |-> 0, failure |-> "none"]]
      /\ served' = [category |-> category, key |-> key, from |-> answers[k].of,
                    raw |-> answers[k].results, ranked |-> Ranked(answers[k].results),
                    verdict |-> Confidence(Ranked(answers[k].results)),
                    age |-> day - answers[k].stored]
      /\ UNCHANGED <<day, adapter, answers, fetch>>
SearchMisses(s, category, key) ==
  LET k == CacheKey(category, key)
  IN  /\ search[s].at = "idle" /\ ~Live(k)
      /\ search' = [search EXCEPT ![s] = [at |-> "asking", category |-> category,
                                          key |-> key, attempt |-> 0, failure |-> "none"]]
      /\ answers' = Dropped(k)
      /\ UNCHANGED <<day, adapter, served, fetch>>

(* How an adapter normalises what it was sent: SearXNG and DDGS keep the   *)
(* first few results with an http link, Brave every result with a link.    *)
WithLink(kept, p, links) == IF p.link \in links THEN Append(kept, p) ELSE kept
Linking(raw, links) ==
  LET kept[n \in 0..Len(raw)] == IF n = 0 THEN <<>> ELSE WithLink(kept[n - 1], raw[n], links)
  IN  kept[Len(raw)]
SearxngResults(raw) ==
  LET usable == Linking(raw, {"http"}) IN SubSeq(usable, 1, Least(Len(usable), Most))
DdgsResults(raw) == SearxngResults(raw)
BraveResults(raw) == Linking(raw, {"http", "other"})
Normalised(raw) ==
  CASE adapter = "searxng" -> SearxngResults(raw) [] adapter = "brave" -> BraveResults(raw)
    [] OTHER -> DdgsResults(raw)

(* The adapter's answer is ranked, stored and given.                       *)
Answered(s, found) ==
  LET k == CacheKey(search[s].category, search[s].key)
      raw == Normalised(found)
  IN  /\ search[s].at = "asking" /\ raw # <<>> /\ Moves(s, "done")
      /\ answers' = Stored(k, Ranked(raw))
      /\ served' = [category |-> search[s].category, key |-> search[s].key, from |-> k,
                    raw |-> raw, ranked |-> Ranked(raw),
                    verdict |-> Confidence(Ranked(raw)), age |-> 0]
      /\ UNCHANGED <<day, adapter, fetch>>

(* What each adapter makes of a reply that is not a list of results.  Only *)
(* SearXNG bounds the size of a reply.                                     *)
Replies == {"empty", "403", "404", "429", "500", "timeout", "network", "malformed", "oversize"}
SearxngFailure(reply) ==
  CASE reply = "403" -> "configuration" [] reply = "429" -> "rate_limit"
    [] reply \in {"404", "500"} -> "http" [] reply = "timeout" -> "timeout"
    [] reply = "network" -> "offline" [] reply = "empty" -> "empty" [] OTHER -> "malformed"
BraveFailure(reply) ==
  CASE reply = "403" -> "authentication" [] reply = "oversize" -> "none"
    [] OTHER -> SearxngFailure(reply)
DdgsMapped(reply) ==
  IF reply = "403" THEN "authentication" ELSE SearxngFailure(reply)
DdgsFailure(reply) ==
  CASE reply = "empty" -> "empty" [] reply = "oversize" -> "none" [] OTHER -> DdgsMapped(reply)
Failure(reply) ==
  CASE adapter = "searxng" -> SearxngFailure(reply) [] adapter = "brave" -> BraveFailure(reply)
    [] OTHER -> DdgsFailure(reply)

(* Mutant: the retryable statuses are looked up without the rate limit.    *)
RetryableStatus(reply) == adapter # "ddgs" /\ reply = "500"
Retryable(reply) == adapter # "ddgs" /\ reply \in {"429", "500"}

(* Mutant: one attempt more than max_retries.                              *)
RetriesOver(s) == search[s].attempt <= MaxRetries
Retries(s) == search[s].attempt < MaxRetries

(* The failure is told with its kind and nothing is stored.                *)
SearchFails(s, reply) ==
  /\ search[s].at = "asking" /\ Failure(reply) # "none"
  /\ ~(Retryable(reply) /\ Retries(s))
  /\ search' = [search EXCEPT ![s].at = "failed", ![s].failure = Failure(reply)]
  /\ UNCHANGED <<day, adapter, answers, served, fetch>>

(* HTTP 429 and the retryable statuses: after a pause, asked again.        *)
Throttled(s, reply) ==
  /\ search[s].at = "asking" /\ Retryable(reply) /\ Retries(s)
  /\ search' = [search EXCEPT ![s].at = "backing off", ![s].attempt = @ + 1]
  /\ UNCHANGED <<day, adapter, answers, served, fetch>>
AsksAgain(s) ==
  /\ search[s].at = "backing off" /\ Moves(s, "asking")
  /\ UNCHANGED <<day, adapter, answers, served, fetch>>

-----------------------------------------------------------------------------
(* ContentFetcher.fetch, one at a time: it shares nothing with the others. *)
(* What the name service says now; <<>> when it cannot resolve.            *)
Resolutions == {<<>>} \cup UNION {[1..n -> Addresses] : n \in 1..2}

(* _is_address_allowed                                                     *)
AddressAllowed(a) ==
  /\ "loopback" \in a => AllowLocalhost
  /\ "private" \in a => AllowPrivate
  /\ a \subseteq {"loopback", "private", "v6"}

(* _resolve_public_address: every address must be allowed.                 *)
(* Mutant: one allowed address is enough.                                  *)
ResolvesToSome(found) == \E i \in 1..Len(found) : AddressAllowed(found[i])
ResolvesAllowed(found) == found # <<>> /\ \A i \in 1..Len(found) : AddressAllowed(found[i])

(* ToolSecurityPolicy._is_address_allowed: as above, but no private IPv6   *)
(* address whatever the policy allows.                                     *)
PolicyAddressAllowed(a) == AddressAllowed(a) /\ ~({"v6", "private"} \subseteq a)

(* _validate_network, before the tool runs: the scheme, the host, the port *)
(* and the headers are within the policy, the url holds no credentials,    *)
(* and the name resolves to allowed addresses at that time.                *)
PolicyAdmits(url, found) ==
  /\ url = "within the policy" /\ found # <<>>
  /\ \A i \in 1..Len(found) : PolicyAddressAllowed(found[i])

Fetches(h, headers, url, found) ==
  /\ fetch.at = "idle" /\ PolicyAdmits(url, found)
  /\ fetch' = [NoFetch EXCEPT !.at = "resolving", !.home = h, !.host = h, !.headers = headers]
  /\ UNCHANGED <<day, searchVars>>

(* The first address is the one the request goes to; the name is not       *)
(* resolved again for the connection.                                      *)
Connects(found) ==
  /\ fetch.at = "resolving"
  /\ fetch' = IF ResolvesAllowed(found)
              THEN [fetch EXCEPT !.at = "sent", !.address = found[1], !.carried = fetch.headers,
                                 !.sent = @ + 1]
              ELSE [fetch EXCEPT !.at = "failed"]
  /\ UNCHANGED <<day, searchVars>>

(* Mutant: what the caller sent is sent on.                                *)
HeadersKept(next) == fetch.headers
(* The caller's headers are dropped at the first host that is not the      *)
(* first one, and do not come back.                                        *)
HeadersFor(next) == fetch.headers /\ next = fetch.home

(* Mutant: the limit is compared before the redirect is counted.           *)
TooManyLate == fetch.redirects > MaxRedirects
TooMany == fetch.redirects + 1 > MaxRedirects

(* A redirect without a location, to a refused url, or to a host that does *)
(* not resolve to allowed addresses, ends the fetch; else the next hop     *)
(* resolves once more before it connects.                                  *)
Redirected(next, valid, found) ==
  /\ fetch.at = "sent"
  /\ fetch' = IF ~TooMany /\ valid /\ ResolvesAllowed(found)
              THEN [fetch EXCEPT !.at = "resolving", !.host = next, !.redirects = @ + 1,
                                 !.headers = HeadersFor(next)]
              ELSE [fetch EXCEPT !.at = "failed", !.redirects = @ + 1]
  /\ UNCHANGED <<day, searchVars>>

(* _read_body_bounded stops after the chunk that crosses the limit; the    *)
(* content type decides whether there is an extractor.                     *)
ReadBounded(size) == IF size > MaxBody THEN MaxBody + 1 ELSE size
Arrives(size, supported) ==
  /\ fetch.at = "sent"
  /\ fetch' = [fetch EXCEPT !.at = IF supported THEN "ok" ELSE "failed",
                            !.body = ReadBounded(size)]
  /\ UNCHANGED <<day, searchVars>>

(* Another status, a timeout or a network failure.                         *)
FetchFails ==
  /\ fetch.at = "sent" /\ fetch' = [fetch EXCEPT !.at = "failed"]
  /\ UNCHANGED <<day, searchVars>>

DayPasses == day < MaxDay /\ day' = day + 1 /\ UNCHANGED <<searchVars, fetch>>

SearchNext ==
  \/ \E s \in Searches, c \in Categories, k \in Keys : SearchHits(s, c, k) \/ SearchMisses(s, c, k)
  \/ \E s \in Searches, raw \in RawAnswers : Answered(s, raw)
  \/ \E s \in Searches, reply \in Replies : SearchFails(s, reply) \/ Throttled(s, reply)
  \/ \E s \in Searches : AsksAgain(s)
  \/ DayPasses
FetchNext ==
  \/ \E h \in Hosts, headers \in BOOLEAN, url \in {"within the policy", "refused"},
        found \in Resolutions : Fetches(h, headers, url, found)
  \/ \E found \in Resolutions : Connects(found)
  \/ \E h \in Hosts, valid \in BOOLEAN, found \in Resolutions : Redirected(h, valid, found)
  \/ \E size \in 0..MaxBody + 2, supported \in BOOLEAN : Arrives(size, supported)
  \/ FetchFails

-----------------------------------------------------------------------------
(* No request of a fetch goes to an address outside the allowed ones, in   *)
(* any hop, whatever the name service answers from one resolution to the   *)
(* next.                                                                   *)
StaysOutside ==
  fetch.address # NoHost => fetch.address \subseteq
    ((IF AllowLocalhost THEN {"loopback"} ELSE {}) \cup (IF AllowPrivate THEN {"private"} ELSE {})
     \cup {"v6"})

(* The caller's headers reach no host but the one the caller named, through*)
(* any chain of redirects, also one that comes back.                       *)
HeadersStayHome == fetch.at = "sent" /\ fetch.carried => fetch.host = fetch.home

(* A fetch sends at most one request more than the redirects it allows.    *)
RedirectsBounded == fetch.sent <= MaxRedirects + 1

(* An answer is of the category and query asked, not older than what its   *)
(* category allows, and never empty, although searches that overlap store  *)
(* and drop the same entries.                                              *)
ServedIsCurrent ==
  served.category # "none" =>
    /\ served.from = <<served.category, served.key>>
    /\ served.age <= Ttl[served.category] /\ served.ranked # <<>>

(* The results that one is a duplicate of, directly or through others.     *)
Together(raw, p) ==
  {q \in ToSet(raw) :
     \A S \in SUBSET ToSet(raw) :
       /\ p \in S
       /\ \A x \in S, y \in ToSet(raw) : SameResult(x, y) => y \in S
       => q \in S}

(* The collapse of duplicates and the cut to max_results keep the best: of *)
(* a result and all its duplicates, one at least as good is kept, or the   *)
(* list is full of results at least as good.                               *)
BestSurvive ==
  \A p \in ToSet(served.raw) :
    \/ \E q \in ToSet(served.ranked) \cap Together(served.raw, p) : q.score >= p.score
    \/ /\ Len(served.ranked) = MaxResults
       /\ \A q \in ToSet(served.ranked) : q.score >= p.score

(* HIGH confidence rests on two domains that make the same claim, one of   *)
(* them authoritative, however many copies of it a single site has.        *)
HighIsCorroborated ==
  served.verdict = "high" =>
    \E p, q \in ToSet(served.raw) :
      p.title = q.title /\ p.domain # q.domain /\ p.domain \in Authoritative

(* A search gives up on a service that is throttled or failing only after  *)
(* all its retries (DDGS makes none).                                      *)
GivesUpLast ==
  \A s \in Searches :
    search[s].failure = "rate_limit" /\ adapter # "ddgs" => search[s].attempt = MaxRetries

(* A fetch never reaches an inner address or carries its headers to        *)
(* another host, redirects and retries end where they should, and what a   *)
(* search serves is current, best of its duplicates and as corroborated as *)
(* it claims.                                                              *)
InternetSafe ==
  /\ InternetTypeOK /\ StaysOutside /\ HeadersStayHome /\ RedirectsBounded
  /\ ServedIsCurrent /\ BestSurvive /\ HighIsCorroborated /\ GivesUpLast
=============================================================================
