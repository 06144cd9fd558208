------------------------------ MODULE LogPaging ------------------------------
(***************************************************************************)
(* Clients that page through GET /api/logs, of one chain or of all, of one  *)
(* topic or of all, while listeners add logs and the cache evicts others,  *)
(* with tokens that run out.                                               *)
(*                                                                         *)
(* In realtime mode each chain has one ChainListener, which hands its logs *)
(* over in (block_number, log_index) order; the writers of the cache are   *)
(* therefore the chains.                                                   *)
(***************************************************************************)
EXTENDS LogCache, AuthMiddleware, FiniteSets, TLC

CONSTANTS
  ChainOf,      (* the chain_id of a log, which is the writer that adds it   *)
  RankOf,       (* the place of a log in (block_number, log_index) order     *)
  TopicOf,      (* its first topic                                           *)
  Clients,      (* who calls GET /api/logs                                   *)
  Requested,    (* the page sizes asked for, by clients or within the program *)
  PageLimit,    (* 1000 in LogCache.query                                    *)
  DefaultSize   (* 100 in LogCache.query                                     *)

AnyChain == 0

ASSUME PagingAssumption ==
  /\ ChainOf \in [Logs -> Writers]
  /\ AnyChain \notin Writers
  /\ RankOf \in [Logs -> Nat]
  /\ DOMAIN TopicOf = Logs
  /\ \A l, m \in Logs : ChainOf[l] = ChainOf[m] /\ RankOf[l] = RankOf[m] => l = m
  /\ Requested \subseteq Nat
  /\ PageLimit \in Nat \ {0}
  /\ DefaultSize \in 1..PageLimit

VARIABLE client
  (* The paging each client is at.  seen: the logs of the pages got so far;  *)
  (* had (history): what was cached when the first page was cut.             *)

pvars == <<vars, client>>

-----------------------------------------------------------------------------
(* LogCache.query with or without a chain_id. *)

Lesser(m, n) == IF m < n THEN m ELSE n

OfChain(l, c) == c \in {ChainOf[l], AnyChain}

Cached == {cache[i] : i \in DOMAIN cache}

Found(c) == {l \in Cached : OfChain(l, c)}

AheadFault(m, l) ==
  \/ RankOf[m] < RankOf[l]
  \/ /\ RankOf[m] = RankOf[l]
     /\ \E i, j \in DOMAIN cache : i < j /\ cache[i] = m /\ cache[j] = l

(* Newest first; logs of two chains with the same block and index keep the *)
(* order of the deque, as Python's sort is stable.                         *)
Ahead(m, l) ==
  \/ RankOf[m] > RankOf[l]
  \/ /\ RankOf[m] = RankOf[l]
     /\ \E i, j \in DOMAIN cache : i < j /\ cache[i] = m /\ cache[j] = l

(* The matching logs in order.  The deque has no log twice. *)
Listing(c) ==
  LET found == Found(c)
  IN  [n \in 1..Cardinality(found) |->
         CHOOSE l \in found : Cardinality({m \in found : Ahead(m, l)}) = n - 1]

PageSize(n) == CASE n > PageLimit -> PageLimit [] n < 1 -> DefaultSize [] OTHER -> n

PageFault(c, p, n) ==
  LET listing == Listing(c)
  IN  SubSeq(listing, (p - 1) * n + 1, Lesser(p * n, Len(listing)))

(* Page p of the matching logs: a Python slice. *)
Page(c, p, n) ==
  LET listing == Listing(c)
  IN  SubSeq(listing, (p - 1) * PageSize(n) + 1, Lesser(p * PageSize(n), Len(listing)))

(* PaginatedResult.total_pages of the answer. *)
TotalPages(c, n) == (Cardinality(Found(c)) + PageSize(n) - 1) \div PageSize(n)

-----------------------------------------------------------------------------
Delivered == {accepted[i] : i \in DOMAIN accepted}

(* A listener hands over the next logs of its chain, blocks in order. *)
Deliver(c, batch) ==
  /\ \A i \in DOMAIN batch : ChainOf[batch[i]] = c
  /\ \A i, j \in DOMAIN batch : i < j => RankOf[batch[i]] < RankOf[batch[j]]
  /\ \A l \in Delivered, i \in DOMAIN batch :
       ChainOf[l] = c => RankOf[l] < RankOf[batch[i]]
  /\ AddMany(c, batch)
  /\ UNCHANGED client

CacheStep == (\E c \in Writers : Add(c)) /\ UNCHANGED client

Unused == [phase |-> "idle"]

(* The header with a token that has so many seconds to live; time is       *)
(* counted from the request, which is made at 0.                           *)
Bearer(left) == [form |-> "bearer", sound |-> TRUE, exp |-> left]

Lifetime == 1

AnyTopic == "any"
Topics   == {TopicOf[l] : l \in Logs}

Matches(l, topic) == topic \in {AnyTopic, TopicOf[l]}

(* A client decides to page through a chain; another page_size is answered *)
(* with 422.                                                               *)
Begin(k, c, n, topic) ==
  /\ client[k] = Unused
  /\ n \in 1..PageLimit
  /\ client' = [client EXCEPT ![k] = [phase |-> "paging", chain |-> c, size |-> n,
                                      topic |-> topic, left |-> Lifetime,
                                      page |-> 1, seen |-> {}, had |-> {}]]
  /\ UNCHANGED vars

(* Its token expires; it gets a new one. *)
Expire(k) ==
  /\ client[k].phase = "paging"
  /\ client[k].left > 0
  /\ client' = [client EXCEPT ![k].left = @ - 1]
  /\ UNCHANGED vars

Renew(k) ==
  /\ client[k].phase = "paging"
  /\ dispatch("/api/logs", Bearer(client[k].left), 0) = "refused"
  /\ client' = [client EXCEPT ![k].left = Lifetime]
  /\ UNCHANGED vars

(* GET /api/logs for the next page, which the middleware lets pass; the    *)
(* topic is looked at after the page is cut, and the client stops at       *)
(* total_pages.                                                            *)
GetPage(k) ==
  LET r    == client[k]
      page == Page(r.chain, r.page, r.size)
      got  == {page[i] : i \in {j \in DOMAIN page : Matches(page[j], r.topic)}}
      last == r.page >= TotalPages(r.chain, r.size)
  IN  /\ r.phase = "paging"
      /\ dispatch("/api/logs", Bearer(r.left), 0) = "user"
      /\ client' = [client EXCEPT ![k] =
           [r EXCEPT !.seen = @ \cup got,
                     !.phase = IF last THEN "done" ELSE @,
                     !.page = IF last THEN @ ELSE @ + 1,
                     !.had = IF r.page > 1 THEN @ ELSE Cached]]
      /\ UNCHANGED vars

PInit == Init /\ client = [k \in Clients |-> Unused]

PNext ==
  \/ \E c \in Writers, batch \in Batches : Deliver(c, batch)
  \/ CacheStep
  \/ Clear /\ UNCHANGED client
  \/ \E k \in Clients, c \in Writers \cup {AnyChain}, n \in Requested, t \in Topics \cup {AnyTopic} :
       Begin(k, c, n, t)
  \/ \E k \in Clients : GetPage(k) \/ Expire(k) \/ Renew(k)

PSpec == PInit /\ [][PNext]_pvars

-----------------------------------------------------------------------------
(* A client that pages a chain through sees every log that was cached from *)
(* its first page to its last and has its topic: adds and evictions        *)
(* between two pages shift the listing, but only away from the pages       *)
(* already got, and pages the topic leaves empty do not end it.  One that  *)
(* pages all chains through may miss such a log, but only below a log of   *)
(* another chain that was evicted meanwhile although its block is no       *)
(* older: the cache evicts by arrival and lists by block.                  *)
PagingMissesNothing ==
  \A k \in Clients : client[k].phase = "done" =>
    LET r == client[k]
    IN  \A l \in (r.had \cap Cached) \ r.seen :
          OfChain(l, r.chain) /\ Matches(l, r.topic) =>
            /\ r.chain = AnyChain
            /\ \E m \in r.had \ Cached : ChainOf[m] # ChainOf[l] /\ RankOf[m] >= RankOf[l]

(* The pages of one state partition the listing, whatever page size was    *)
(* asked for: clamping the size and rounding the page count up agree.      *)
PagesPartition ==
  \A c \in Writers \cup {AnyChain}, n \in Requested :
    LET listing == Listing(c)
        pages   == [p \in 1..TotalPages(c, n) |-> Page(c, p, n)]
    IN  /\ \A i \in DOMAIN listing :
             \E p \in DOMAIN pages :
               \E j \in DOMAIN pages[p] : /\ (p - 1) * PageSize(n) + j = i
                                         /\ pages[p][j] = listing[i]
        /\ \A p \in DOMAIN pages : Len(pages[p]) \in 1..PageSize(n)
=============================================================================
