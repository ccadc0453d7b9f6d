----------------------------- MODULE Onboarding -----------------------------
(***************************************************************************)
(* merchant_kit, mandates/keys.py and buyer/catalog.py: a merchant's       *)
(* product pages become a signed catalog on disk, and a buyer's program    *)
(* loads and verifies it.  A run is cli.run: it works through the URLs one *)
(* by one, loads or creates the key and writes three files.  It can die at *)
(* any point, a file or a snapshot half written.  One run is under way at  *)
(* a time.                                                                 *)
(*                                                                         *)
(* A live run is the merchant's; an offline one replays snapshots and is   *)
(* made by web_demo or interactive_buy, which load the result.             *)
(***************************************************************************)
EXTENDS Mandates, FiniteSets, SequencesExt

CONSTANTS
  Merchants,
  Urls,        \* REAL_MERCHANT_URLS: merchant |-> sequence of URLs
  Pages,       \* what a site can serve at a URL: URL |-> set of pages
  Redirects,   \* URL |-> set of BOOLEAN: whether another host may serve it
  CutShort,    \* page |-> what can be left of it when a crash cuts its snapshot
  RobotsFiles, \* what a request for robots.txt can come back with
  DerivedSku,  \* _derive_sku: URL |-> SKU
  Kids,        \* thumbprints of the keys that can be generated
  Torn,        \* what a half-written file holds
  MaxRuns,     \* bound: runs of the kit
  MaxLosses    \* bound: key files that are lost

\* A page, or what a crash has left of it; what can be stored for a URL.
LeftOf(page) == {page} \cup CutShort[page]
Storable(url) == UNION {LeftOf(page) : page \in Pages[url]}

\* A run has at least one URL, and the products of a page come in a sequence.
\* SKUs are naturals in the order of the code's strings.
ASSUME OnboardingAssumption ==
  /\ MaxRuns \in Nat /\ MaxLosses \in Nat /\ None \notin Kids /\ Torn \notin Kids
  /\ \A m \in Merchants : Urls[m] \in Seq(DOMAIN Pages) /\ Urls[m] # <<>>
  /\ \A url \in DOMAIN Pages : \A page \in Storable(url) :
       \A raws \in {page.structured, page.inferred} :
         /\ raws \in Seq(ToSet(raws))
         /\ \A raw \in ToSet(raws) : raw.sku \in Nat \cup {None}
  /\ \A url \in DOMAIN Pages : DerivedSku[url] \in Nat

VARIABLES
  snapshots, \* URL |-> the page stored for it
  key_file,  \* merchant |-> kid of merchant-key.json
  published, \* merchant |-> what is under .well-known; nobody reads the policy
  run,       \* the run under way, None outside
  cache,     \* ONBOARDED_CACHE: merchant |-> what the buyer has loaded
  used,      \* the kids generated so far
  runs, losses, \* counters of the bounds
  \* For the properties only:
  permitted, \* URL and page: the URL's host let the kit read it, and served it
  unasked    \* URL and page: its host did, but redirected to another, whose
             \* robots.txt nobody has read, and which served the page

read == <<permitted, unasked>>
disk == <<snapshots, key_file, published>>
onboardingVars == <<disk, run, cache, used, runs, losses, read>>

NoFiles == [catalog |-> None, keys |-> None]
NoCache == [m \in Merchants |-> None]

\* The repository comes with snapshots of pages it was allowed to read.
OnboardingInit ==
  /\ snapshots \in {f \in [DOMAIN Pages -> UNION {Pages[u] : u \in DOMAIN Pages}] :
                      \A u \in DOMAIN Pages : f[u] \in Pages[u]}
  /\ permitted = {<<u, snapshots[u]>> : u \in DOMAIN snapshots} /\ unasked = {}
  /\ key_file = [m \in Merchants |-> None]
  /\ published = [m \in Merchants |-> NoFiles]
  /\ run = None /\ cache = NoCache /\ used = {} /\ runs = 0 /\ losses = 0

-----------------------------------------------------------------------------
(* Pages and products. *)

\* Mistake to detect: a shop whose robots.txt fails is taken to consent.
RobotsFailOpen(robots) == robots.status = "2xx" => robots.can_fetch

\* robots.check: no file is consent, a failing one is not.
RobotsAllow(robots) ==
  \/ robots.status = "4xx"
  \/ robots.status = "2xx" /\ robots.can_fetch

\* What RFC 9309, quoted there, lets a crawler read.
Consents(robots) ==
  robots.status \in {"4xx", "2xx"} /\ (robots.status = "2xx" => robots.can_fetch)

\* normalize: raw products without title or price are rejected, an unknown
\* stock counts as none.
CatalogItem(raw, url) ==
  [sku |-> IF raw.sku = None THEN DerivedSku[url] ELSE raw.sku,
   price_paise |-> raw.price_paise, category |-> raw.category,
   attributes |-> raw.attributes, in_stock |-> raw.in_stock = TRUE]

Normalize(raws, url) ==
  LET items[n \in 0..Len(raws)] ==
        IF n = 0 THEN <<>>
        ELSE IF raws[n].title /\ raws[n].price_paise # None
        THEN Append(items[n - 1], CatalogItem(raws[n], url))
        ELSE items[n - 1]
  IN  items[Len(raws)]

\* extract_one: the structured data, or else what the model infers: it may
\* find the product or nothing.
Extractions(page) ==
  IF page.structured # <<>> THEN {page.structured} ELSE {page.inferred, <<>>}

SkusOf(items) == {items[i].sku : i \in DOMAIN items}

\* A SKU of the new items is already in the catalog.  Two new items are not
\* compared with each other.
Duplicates(items, more) == SkusOf(items) \cap SkusOf(more) # {}

-----------------------------------------------------------------------------
(* A run of the kit. *)

\* get_onboarded_merchant: a merchant in the cache is not onboarded again.
NeedsOnboarding(m) == cache[m] = None

StartRun(m, offline) ==
  /\ run = None /\ runs < MaxRuns
  /\ offline => NeedsOnboarding(m)
  /\ run' = [merchant |-> m, offline |-> offline, next |-> 1, items |-> <<>>,
             phase |-> "fetching", kid |-> None]
  /\ runs' = runs + 1
  /\ UNCHANGED <<disk, cache, used, losses, read>>

\* The run goes on with another page; without items nothing is written.  A
\* duplicate SKU is a SystemExit, which no handler of the web server catches:
\* an offline run takes the buyer's program with it.
WithPage(url, page) ==
  \E raws \in Extractions(page) :
    LET more  == Normalize(raws, url)
        items == run.items \o more
        last  == run.next = Len(Urls[run.merchant])
    IN  IF Duplicates(run.items, more)
        THEN run' = None /\ cache' = IF run.offline THEN NoCache ELSE cache
        ELSE /\ run' = [run EXCEPT
                          !.items = items, !.next = IF last THEN 1 ELSE @ + 1,
                          !.phase = IF ~last THEN "fetching"
                                    ELSE IF items # <<>> THEN "key" ELSE "written"]
             /\ UNCHANGED cache

CurrentUrl == Urls[run.merchant][run.next]

\* fetch, offline: the snapshot, whenever and however it was taken.
Replay ==
  /\ run # None /\ run.phase = "fetching" /\ run.offline
  /\ WithPage(CurrentUrl, snapshots[CurrentUrl])
  /\ UNCHANGED <<disk, used, runs, losses, read>>

\* The robots.txt of the URL's own host is asked, then redirects of the page
\* are followed wherever they lead.
Serves(page) ==
  \E robots \in RobotsFiles, elsewhere \in Redirects[CurrentUrl] :
    /\ RobotsAllow(robots)
    /\ permitted' = IF Consents(robots) /\ ~elsewhere
                    THEN permitted \cup {<<CurrentUrl, page>>} ELSE permitted
    /\ unasked' = IF Consents(robots) /\ elsewhere
                  THEN unasked \cup {<<CurrentUrl, page>>} ELSE unasked

\* fetch, live: whatever is served replaces the snapshot, an error page too.
FetchLive ==
  /\ run # None /\ run.phase = "fetching" /\ ~run.offline
  /\ \E page \in Pages[CurrentUrl] :
       /\ Serves(page)
       /\ snapshots' = [snapshots EXCEPT ![CurrentUrl] = page]
       /\ WithPage(CurrentUrl, page)
  /\ UNCHANGED <<key_file, published, used, runs, losses>>

\* Mistake to detect: every run makes a key.
CreatesAlways(m) == TRUE

\* load_or_create_keypair
CreatesKey(m) == key_file[m] = None

\* A key file that is torn raises.
ObtainKey ==
  /\ run # None /\ run.phase = "key"
  /\ IF CreatesKey(run.merchant)
     THEN \E kid \in Kids \ used :
            /\ key_file' = [key_file EXCEPT ![run.merchant] = kid]
            /\ used' = used \cup {kid}
            /\ run' = [run EXCEPT !.phase = "catalog", !.kid = kid]
     ELSE /\ run' = IF key_file[run.merchant] = Torn THEN None
                    ELSE [run EXCEPT !.phase = "catalog", !.kid = key_file[run.merchant]]
          /\ UNCHANGED <<key_file, used>>
  /\ UNCHANGED <<snapshots, published, cache, runs, losses, read>>

\* The payload of agent-catalog.json.
CatalogDocument(m, items) == [merchant_id |-> m, items |-> items]

\* emit: the catalog, then the policy, which no program of the repository
\* reads and the model leaves out, then the keys.
FileContents(file) ==
  IF file = "catalog" THEN SignMandate(CatalogDocument(run.merchant, run.items), run.kid)
  ELSE {run.kid}

WriteFile ==
  /\ run # None /\ run.phase \in {"catalog", "keys"}
  /\ published' = [published EXCEPT ![run.merchant][run.phase] = FileContents(run.phase)]
  /\ run' = [run EXCEPT !.phase = IF @ = "catalog" THEN "keys" ELSE "written"]
  /\ UNCHANGED <<snapshots, key_file, cache, used, runs, losses, read>>

-----------------------------------------------------------------------------
(* get_onboarded_merchant, after the run. *)

\* Mistake to detect: any key of the directory may have signed the catalog.
AnySigner(m) ==
  LET files == published[m]
  IN  \E kid \in files.keys : EnvelopeVerifies(files.catalog, files.keys, kid)

\* verify_envelope in load_verified_catalog, with the kid of the key file.
SignedByTheMerchant(m) ==
  EnvelopeVerifies(published[m].catalog, published[m].keys, key_file[m])

\* No SKU is published more than once, and every price is a whole number of
\* paise, not a negative one.
Unambiguous(items) == Cardinality(SkusOf(items)) = Len(items)
Priced(items) == \A i \in DOMAIN items : items[i].price_paise \in Nat

\* load_keypair, from_jwks and load_verified_catalog succeed on these files.
Loadable(m) ==
  /\ key_file[m] \in Kids
  /\ published[m].catalog \notin {None, Torn} /\ published[m].keys \notin {None, Torn}
  /\ SignedByTheMerchant(m)
  /\ published[m].catalog.payload.merchant_id = m
  /\ Unambiguous(published[m].catalog.payload.items)
  /\ Priced(published[m].catalog.payload.items)

\* The items by SKU.
BySku(items) ==
  [sku \in SkusOf(items) |-> items[CHOOSE i \in DOMAIN items : items[i].sku = sku]]

\* The files are loaded as they are, whether this run has written them or an
\* earlier one; a live run ends without.
FinishRun ==
  /\ run # None /\ run.phase = "written"
  /\ run' = None
  /\ cache' = IF run.offline /\ Loadable(run.merchant)
              THEN [cache EXCEPT ![run.merchant] =
                      [kid |-> key_file[run.merchant], keys |-> published[run.merchant].keys,
                       signed |-> published[run.merchant].catalog.signatures,
                       catalog |-> BySku(published[run.merchant].catalog.payload.items)]]
              ELSE cache
  /\ UNCHANGED <<disk, used, runs, losses, read>>

-----------------------------------------------------------------------------
(* What goes wrong. *)

\* The run raises (a page or its robots.txt refused, the network, the model)
\* or is killed, with the file it was writing half written and, offline, with
\* the buyer's program.
Crash ==
  /\ run # None /\ run.phase # "written"
  /\ run' = None
  /\ cache' \in IF run.offline THEN {cache, NoCache} ELSE {cache}
  /\ \/ UNCHANGED <<disk, read>>
     \/ /\ run.phase = "fetching" /\ ~run.offline
        /\ \E page \in Pages[CurrentUrl] : \E left \in CutShort[page] :
             Serves(page) /\ snapshots' = [snapshots EXCEPT ![CurrentUrl] = left]
        /\ UNCHANGED <<key_file, published>>
     \/ /\ run.phase = "key" /\ CreatesKey(run.merchant)
        /\ key_file' = [key_file EXCEPT ![run.merchant] = Torn]
        /\ UNCHANGED <<snapshots, published, read>>
     \/ /\ run.phase \in {"catalog", "keys"}
        /\ published' = [published EXCEPT ![run.merchant][run.phase] = Torn]
        /\ UNCHANGED <<snapshots, key_file, read>>
  /\ UNCHANGED <<used, runs, losses>>

\* The merchant's key file is lost or removed, as happened to the first one
\* interactive_buy speaks of.
LoseKey(m) ==
  /\ run = None /\ losses < MaxLosses /\ key_file[m] # None
  /\ key_file' = [key_file EXCEPT ![m] = None]
  /\ losses' = losses + 1
  /\ UNCHANGED <<snapshots, published, run, cache, used, runs, read>>

\* The buyer's program starts anew: its cache is in memory only.
BuyerRestarts ==
  /\ run = None /\ cache # NoCache
  /\ cache' = NoCache
  /\ UNCHANGED <<disk, run, used, runs, losses, read>>

OnboardingNext ==
  \/ \E m \in Merchants, offline \in BOOLEAN : StartRun(m, offline)
  \/ Replay \/ FetchLive \/ ObtainKey \/ WriteFile \/ FinishRun
  \/ Crash \/ (\E m \in Merchants : LoseKey(m)) \/ BuyerRestarts

-----------------------------------------------------------------------------
(* Properties. *)

(***************************************************************************)
(* The docstring of load_verified_catalog: a catalog the buyer works with  *)
(* is signed by the very key its driver will sign carts with, and that key *)
(* is in the published directory.  Crashes between the files of a run,     *)
(* lost keys and runs that write nothing leave files of different keys     *)
(* side by side.                                                           *)
(***************************************************************************)
EndpointCoherent ==
  \A m \in Merchants : cache[m] # None =>
    /\ cache[m].kid \in cache[m].keys
    /\ \E s \in cache[m].signed : s.kid = cache[m].kid
    /\ \A s \in cache[m].signed : s.over.merchant_id = m

(***************************************************************************)
(* No page is fetched for a URL whose own host has not consented, and      *)
(* every item a buyer sees, now or from a snapshot taken long ago, is as   *)
(* such a page of its merchant told it, or as the model read it there, or  *)
(* as the rest tells it that a crash has left of the page.  That is weaker *)
(* than what robots.py says of itself: a page reached by a redirect is     *)
(* read whatever the rules of the host are that serves it.                 *)
(***************************************************************************)
ItemsOn(page, url) ==
  ToSet(Normalize(page.structured, url)) \cup ToSet(Normalize(page.inferred, url))

OnlyConsentedUrls ==
  \A m \in Merchants : cache[m] # None =>
    \A sku \in DOMAIN cache[m].catalog :
      \E p \in permitted \cup unasked : \E page \in LeftOf(p[2]) :
        p[1] \in ToSet(Urls[m]) /\ cache[m].catalog[sku] \in ItemsOn(page, p[1])

(***************************************************************************)
(* The docstring of load_or_create_keypair: a merchant's key must survive  *)
(* across runs, "or every catalog it ever publishes is signed by a         *)
(* stranger".  As long as nobody loses a key file, whatever runs there     *)
(* were and wherever they died, the published files are all of one key,    *)
(* the one on file.                                                        *)
(***************************************************************************)
IdentitySurvives ==
  losses = 0 => \A m \in Merchants :
    /\ published[m].catalog \notin {None, Torn} =>
         \A s \in published[m].catalog.signatures : s.kid = key_file[m]
    /\ published[m].keys \notin {None, Torn} => published[m].keys = {key_file[m]}
=============================================================================
