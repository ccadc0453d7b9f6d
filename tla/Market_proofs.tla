---------------------------- MODULE Market_proofs ----------------------------
(***************************************************************************)
(* A merchant's key and files, through runs that die between any two       *)
(* writes.  The files are written in an order, the key first, and the      *)
(* proof says why that is enough: as long as no key file is lost, nothing  *)
(* is published before there is a key, and there is only ever one.         *)
(* Then what the files hold: everything kept anywhere, in a run, in a      *)
(* file, in the cache, is among what the pages told that the kit fetched   *)
(* for a URL whose host had consented, whole or cut short.  On that rest   *)
(* what a page of the web demo shows and what a comparison of merchants    *)
(* chooses.                                                                *)
(***************************************************************************)
EXTENDS Market, PolicyEngine_proofs, FiniteSetTheorems, SequenceTheorems, TLAPS

Writing == run # None /\ run.phase \in {"catalog", "keys"}

IsFile(contents) == contents \notin {None, Torn}

RunShape(r) ==
  /\ r.merchant \in Merchants
  /\ r = [merchant |-> r.merchant, offline |-> r.offline, next |-> r.next,
          items |-> r.items, phase |-> r.phase, kid |-> r.kid]

\* The functions are functions of merchants, and a run is of one of them.
Shaped ==
  /\ key_file \in [Merchants -> Kids \cup {None, Torn}]
  /\ cache = [m \in Merchants |-> cache[m]]
  /\ published = [m \in Merchants |-> [catalog |-> published[m].catalog,
                                       keys    |-> published[m].keys]]
  /\ run # None => RunShape(run)
  /\ losses \in Nat

\* A run that writes has read or made the key on file.
KeyInHand ==
  Writing => run.kid = key_file[run.merchant] /\ run.kid \in Kids

\* Nothing is published before there is a key on file.
KeyFirst ==
  losses = 0 => \A m \in Merchants :
    IsFile(published[m].catalog) \/ IsFile(published[m].keys) => key_file[m] \in Kids

IInv == Shaped /\ KeyInHand /\ KeyFirst /\ IdentitySurvives /\ EndpointCoherent

-----------------------------------------------------------------------------

LEMMA InitInv == ASSUME OnboardingAssumption, MarketInit PROVE IInv
<1>1. Shaped
  BY DEF MarketInit, OnboardingInit, NoCache, NoFiles, Shaped
<1>2. KeyInHand
  BY DEF MarketInit, OnboardingInit, KeyInHand, Writing
<1>3. KeyFirst /\ IdentitySurvives
  BY DEF MarketInit, OnboardingInit, NoFiles, KeyFirst, IdentitySurvives, IsFile
<1>4. EndpointCoherent
  BY DEF MarketInit, OnboardingInit, NoCache, EndpointCoherent
<1> QED BY <1>1, <1>2, <1>3, <1>4 DEF IInv

\* What the shops and the web server do leaves the disk and the cache alone.
LEMMA ShoppingIsReading ==
  MarketNext => OnboardingNext \/ UNCHANGED onboardingVars
BY DEF MarketNext, Onboards, Shop, WebNegotiate, WebExecute, Answered

WithKey(r, phase, kid) == [r EXCEPT !.phase = phase, !.kid = kid]

\* A change of phase and key keeps the shape of a run.
LEMMA RunGoesOn ==
  ASSUME NEW r, RunShape(r), NEW phase, NEW kid
  PROVE  /\ RunShape(WithKey(r, phase, kid))
         /\ WithKey(r, phase, kid).merchant = r.merchant
         /\ WithKey(r, phase, kid).items = r.items
         /\ WithKey(r, phase, kid).offline = r.offline
         /\ WithKey(r, phase, kid).phase = phase
         /\ WithKey(r, phase, kid).kid = kid
<1> DEFINE between == [r EXCEPT !.phase = phase]
           after == [between EXCEPT !.kid = kid]
<1>1. /\ between = [merchant |-> r.merchant, offline |-> r.offline, next |-> r.next,
                    items |-> r.items, phase |-> phase, kid |-> r.kid]
  BY DEF RunShape
<1> HIDE DEF between
<1>2. after = [merchant |-> r.merchant, offline |-> r.offline, next |-> r.next,
               items |-> r.items, phase |-> phase, kid |-> kid]
  BY <1>1
<1>3. r.merchant \in Merchants
  BY DEF RunShape
<1>4. WithKey(r, phase, kid) = after
  BY DEF WithKey, between
<1> HIDE DEF after
<1> QED BY <1>2, <1>3, <1>4 DEF RunShape

WithItems(r, items, next, phase) ==
  [r EXCEPT !.items = items, !.next = next, !.phase = phase]

\* The same of a run that has got some items.
LEMMA RunCollects ==
  ASSUME NEW r, RunShape(r), NEW items, NEW next, NEW phase, NEW after,
         after = WithItems(r, items, next, phase)
  PROVE  /\ RunShape(after)
         /\ after.merchant = r.merchant /\ after.offline = r.offline
         /\ after.items = items /\ after.next = next /\ after.phase = phase
<1> DEFINE first == [r EXCEPT !.items = items]
           second == [first EXCEPT !.next = next]
           third == [second EXCEPT !.phase = phase]
<1>1. first = [merchant |-> r.merchant, offline |-> r.offline, next |-> r.next,
               items |-> items, phase |-> r.phase, kid |-> r.kid]
  BY DEF RunShape
<1> HIDE DEF first
<1>2. second = [merchant |-> r.merchant, offline |-> r.offline, next |-> next,
                items |-> items, phase |-> r.phase, kid |-> r.kid]
  BY <1>1
<1> HIDE DEF second
<1>3. third = [merchant |-> r.merchant, offline |-> r.offline, next |-> next,
               items |-> items, phase |-> phase, kid |-> r.kid]
  BY <1>2
<1>4. r.merchant \in Merchants
  BY DEF RunShape
<1> HIDE DEF third
<1>5. /\ third.merchant = r.merchant /\ third.offline = r.offline
      /\ third.items = items /\ third.next = next /\ third.phase = phase
      /\ third.kid = r.kid
  BY <1>3
<1>6. RunShape(third)
  BY <1>3, <1>4, <1>5 DEF RunShape
<1>7. after = third
  BY DEF first, second, third, WithItems
<1> QED BY <1>5, <1>6, <1>7

\* The run that has got some items from a page and goes on.
GoesOnWith(raws, url) ==
  LET items == run.items \o Normalize(raws, url)
      last  == run.next = Len(Urls[run.merchant])
  IN  /\ RunShape(run')
      /\ run'.merchant = run.merchant /\ run'.offline = run.offline
      /\ run'.items = items
      /\ run'.next = IF last THEN 1 ELSE run.next + 1
      /\ run'.phase = IF ~last THEN "fetching" ELSE IF items # <<>> THEN "key" ELSE "written"

LEMMA PageRead ==
  ASSUME RunShape(run), NEW url, NEW page, WithPage(url, page)
  PROVE  /\ run' # None => \E raws \in Extractions(page) : GoesOnWith(raws, url)
         /\ cache' \in {cache, NoCache}
<1> DEFINE items(raws) == run.items \o Normalize(raws, url)
           last == run.next = Len(Urls[run.merchant])
           next == IF last THEN 1 ELSE run.next + 1
           phase(raws) == IF ~last THEN "fetching"
                          ELSE IF items(raws) # <<>> THEN "key" ELSE "written"
<1>1. PICK raws \in Extractions(page) :
        IF Duplicates(run.items, Normalize(raws, url))
        THEN run' = None /\ cache' = IF run.offline THEN NoCache ELSE cache
        ELSE /\ run' = [run EXCEPT !.items = items(raws), !.next = next, !.phase = phase(raws)]
             /\ UNCHANGED cache
  BY DEF WithPage
<1>2. CASE Duplicates(run.items, Normalize(raws, url))
  BY <1>1, <1>2
<1>3. CASE ~Duplicates(run.items, Normalize(raws, url))
  <2> HIDE DEF items, next, phase
  <2>1. /\ run' = [run EXCEPT !.items = items(raws), !.next = next, !.phase = phase(raws)]
        /\ cache' = cache
    BY <1>1, <1>3
  <2>2. run' = WithItems(run, items(raws), next, phase(raws))
    BY <2>1 DEF WithItems
  <2>3. /\ RunShape(run')
        /\ run'.merchant = run.merchant /\ run'.offline = run.offline
        /\ run'.items = items(raws) /\ run'.next = next /\ run'.phase = phase(raws)
    BY <2>2, RunCollects
  <2>4. GoesOnWith(raws, url)
    BY <2>3 DEF GoesOnWith, items, next, phase
  <2> QED BY <2>1, <2>4
<1> QED BY <1>2, <1>3

-----------------------------------------------------------------------------
(* Steps that leave keys and files alone. *)

\* Whatever else a step does, files and keys that stay as they are stay good.
LEMMA FilesKept ==
  ASSUME IInv, UNCHANGED <<key_file, published, losses>>
  PROVE  KeyFirst' /\ IdentitySurvives'
BY DEF IInv, KeyFirst, IdentitySurvives, IsFile

\* A cache that is kept or lost stays coherent.
LEMMA CacheKept ==
  ASSUME IInv, cache' \in {cache, NoCache}
  PROVE  EndpointCoherent' /\ cache' = [m \in Merchants |-> cache'[m]]
<1>1. CASE cache' = cache
  BY <1>1 DEF IInv, Shaped, EndpointCoherent
<1>2. CASE cache' = NoCache
  BY <1>2 DEF NoCache, EndpointCoherent
<1> QED BY <1>1, <1>2

LEMMA FetchInv ==
  ASSUME OnboardingAssumption, IInv, Replay \/ FetchLive PROVE IInv'
<1>1. UNCHANGED <<key_file, published, losses>> /\ run # None /\ RunShape(run)
  BY DEF Replay, FetchLive, disk, IInv, Shaped
<1>2. \E url, page : WithPage(url, page)
  BY DEF Replay, FetchLive
<1>3. /\ run' # None => RunShape(run') /\ run'.phase \notin {"catalog", "keys"}
      /\ cache' \in {cache, NoCache}
  BY <1>1, <1>2, PageRead DEF GoesOnWith
<1>4. Shaped' /\ KeyInHand'
  BY <1>1, <1>3, CacheKept DEF IInv, Shaped, KeyInHand, Writing
<1> QED BY <1>1, <1>3, <1>4, FilesKept, CacheKept DEF IInv

LEMMA StartInv ==
  ASSUME OnboardingAssumption, IInv, NEW m \in Merchants, NEW offline \in BOOLEAN,
         StartRun(m, offline)
  PROVE  IInv'
<1>1. UNCHANGED <<key_file, published, losses>> /\ cache' = cache
  BY DEF StartRun, disk
<1>2. RunShape(run') /\ run'.phase = "fetching"
  BY DEF StartRun, RunShape
<1>3. Shaped' /\ KeyInHand'
  BY <1>1, <1>2 DEF IInv, Shaped, KeyInHand, Writing
<1> QED BY <1>1, <1>3, FilesKept, CacheKept DEF IInv

LEMMA RestartInv ==
  ASSUME OnboardingAssumption, IInv, BuyerRestarts PROVE IInv'
<1>1. UNCHANGED <<key_file, published, losses>> /\ cache' = NoCache /\ run' = None
  BY DEF BuyerRestarts, disk
<1>2. Shaped' /\ KeyInHand'
  BY <1>1, CacheKept DEF IInv, Shaped, KeyInHand, Writing
<1> QED BY <1>1, <1>2, FilesKept, CacheKept DEF IInv

\* What Loadable accepts is coherent.
LEMMA LoadedIsCoherent ==
  ASSUME NEW m, Loadable(m)
  PROVE  /\ key_file[m] \in published[m].keys
         /\ \E s \in published[m].catalog.signatures : s.kid = key_file[m]
         /\ \A s \in published[m].catalog.signatures : s.over.merchant_id = m
BY DEF Loadable, SignedByTheMerchant, EnvelopeVerifies

LEMMA FinishInv ==
  ASSUME OnboardingAssumption, IInv, FinishRun PROVE IInv'
<1>1. UNCHANGED <<key_file, published, losses>> /\ run' = None
  BY DEF FinishRun, disk
<1>2. cache' = [n \in Merchants |-> cache'[n]] /\ EndpointCoherent'
  <2>1. CASE ~(run.offline /\ Loadable(run.merchant))
    BY <2>1, CacheKept DEF FinishRun
  <2>2. CASE run.offline /\ Loadable(run.merchant)
    <3> DEFINE m == run.merchant
               loaded == [kid |-> key_file[m], keys |-> published[m].keys,
                          signed |-> published[m].catalog.signatures,
                          catalog |-> BySku(published[m].catalog.payload.items)]
    <3>1. cache' = [cache EXCEPT ![m] = loaded]
      BY <2>2 DEF FinishRun
    <3>2. /\ loaded.kid \in loaded.keys
          /\ \E s \in loaded.signed : s.kid = loaded.kid
          /\ \A s \in loaded.signed : s.over.merchant_id = m
      BY <2>2, LoadedIsCoherent
    <3> HIDE DEF loaded, m
    <3>3. cache = [n \in Merchants |-> cache[n]]
      BY DEF IInv, Shaped
    <3>4. cache' = [n \in Merchants |-> IF n = m THEN loaded ELSE cache[n]]
      BY <3>1, <3>3
    <3> QED BY <3>2, <3>4 DEF IInv, EndpointCoherent
  <2> QED BY <2>1, <2>2
<1>3. Shaped' /\ KeyInHand'
  BY <1>1, <1>2 DEF IInv, Shaped, KeyInHand, Writing
<1> QED BY <1>1, <1>2, <1>3, FilesKept DEF IInv

-----------------------------------------------------------------------------
(* Steps that write. *)

\* A key that is made is the first one: nothing is published yet.
LEMMA KeyInv ==
  ASSUME OnboardingAssumption, IInv, ObtainKey PROVE IInv'
<1> DEFINE m == run.merchant
<1>1. run # None /\ RunShape(run) /\ m \in Merchants
  BY DEF ObtainKey, IInv, Shaped, RunShape
<1>2. UNCHANGED <<published, losses, cache>>
  BY DEF ObtainKey
<1>3. CASE CreatesKey(m)
  <2>1. PICK kid \in Kids :
          /\ key_file' = [key_file EXCEPT ![m] = kid]
          /\ run' = [run EXCEPT !.phase = "catalog", !.kid = kid]
    BY <1>3 DEF ObtainKey
  <2>2. RunShape(run') /\ run'.merchant = m /\ run'.kid = kid
    <3>1. run' = WithKey(run, "catalog", kid)
      BY <2>1 DEF WithKey
    <3> QED BY <1>1, <3>1, RunGoesOn
  <2> HIDE DEF m
  <2>3. key_file \in [Merchants -> Kids \cup {None, Torn}]
    BY DEF IInv, Shaped
  <2>4. key_file'[m] = kid /\ \A n \in Merchants \ {m} : key_file'[n] = key_file[n]
    BY <1>1, <2>1, <2>3
  <2>5. Shaped'
    BY <1>2, <2>1, <2>2, <2>3 DEF IInv, Shaped
  <2>6. KeyInHand'
    BY <2>2, <2>4 DEF KeyInHand
  <2>7. losses = 0 => ~IsFile(published[m].catalog) /\ ~IsFile(published[m].keys)
    BY <1>1, <1>3 DEF CreatesKey, IInv, KeyFirst, OnboardingAssumption
  <2>8. KeyFirst'
    BY <1>2, <2>4, <2>7 DEF IInv, KeyFirst, IsFile
  <2>9. IdentitySurvives'
    BY <1>2, <2>4, <2>7 DEF IInv, IdentitySurvives, IsFile
  <2> QED BY <1>2, <2>5, <2>6, <2>8, <2>9, CacheKept DEF IInv
<1>4. CASE ~CreatesKey(m) /\ key_file[m] = Torn
  <2>1. run' = None /\ key_file' = key_file
    BY <1>4 DEF ObtainKey
  <2>2. Shaped' /\ KeyInHand'
    BY <1>2, <2>1 DEF IInv, Shaped, KeyInHand, Writing
  <2> QED BY <1>2, <2>1, <2>2, FilesKept, CacheKept DEF IInv
<1>5. CASE ~CreatesKey(m) /\ key_file[m] # Torn
  <2>1. /\ run' = [run EXCEPT !.phase = "catalog", !.kid = key_file[m]]
        /\ key_file' = key_file
    BY <1>5 DEF ObtainKey
  <2>2. RunShape(run') /\ run'.merchant = m /\ run'.kid = key_file[m]
    <3>1. run' = WithKey(run, "catalog", key_file[m])
      BY <2>1 DEF WithKey
    <3> QED BY <1>1, <3>1, RunGoesOn
  <2>3. key_file[m] \in Kids
    BY <1>1, <1>5 DEF CreatesKey, IInv, Shaped
  <2> HIDE DEF m
  <2>4. Shaped' /\ KeyInHand'
    BY <1>2, <2>1, <2>2, <2>3 DEF IInv, Shaped, KeyInHand
  <2> QED BY <1>2, <2>1, <2>4, FilesKept, CacheKept DEF IInv
<1> QED BY <1>3, <1>4, <1>5

\* The published files with one of them written anew.
LEMMA OneFileWritten ==
  ASSUME Shaped, NEW m \in Merchants, NEW file \in {"catalog", "keys"}, NEW contents,
         published' = [published EXCEPT ![m][file] = contents]
  PROVE  /\ published' = [n \in Merchants |-> [catalog |-> published'[n].catalog,
                                               keys    |-> published'[n].keys]]
         /\ file = "catalog" => /\ published'[m].catalog = contents
                                /\ published'[m].keys = published[m].keys
         /\ file = "keys" => /\ published'[m].catalog = published[m].catalog
                             /\ published'[m].keys = contents
         /\ \A n \in Merchants \ {m} : published'[n] = published[n]
<1> DEFINE before(n) == [catalog |-> published[n].catalog, keys |-> published[n].keys]
           after == [before(m) EXCEPT ![file] = contents]
<1>1. published = [n \in Merchants |-> before(n)]
  BY DEF Shaped
<1>2. published' = [n \in Merchants |-> IF n = m THEN after ELSE before(n)]
  <2>1. published[m] = before(m)
    BY <1>1
  <2> HIDE DEF before
  <2> QED BY <1>1, <2>1
<1>3. after = [catalog |-> IF file = "catalog" THEN contents ELSE published[m].catalog,
               keys    |-> IF file = "keys" THEN contents ELSE published[m].keys]
  OBVIOUS
<1>4. /\ before(m).catalog = published[m].catalog /\ before(m).keys = published[m].keys
      /\ \A n \in Merchants : published[n] = before(n)
  BY <1>1
<1> HIDE DEF after
<1>5. published'[m] = after /\ \A n \in Merchants \ {m} : published'[n] = before(n)
  BY <1>2
<1>6. published' = [n \in Merchants |-> [catalog |-> published'[n].catalog,
                                         keys    |-> published'[n].keys]]
  BY <1>2, <1>3, <1>5
<1> QED BY <1>3, <1>4, <1>5, <1>6

\* A file that is written whole is of the key on file.
LEMMA WriteInv ==
  ASSUME OnboardingAssumption, IInv, WriteFile PROVE IInv'
<1> DEFINE m == run.merchant
           contents == FileContents(run.phase)
<1>1. /\ run # None /\ RunShape(run) /\ m \in Merchants /\ run.phase \in {"catalog", "keys"}
  BY DEF WriteFile, IInv, Shaped, RunShape
<1>2. UNCHANGED <<key_file, losses, cache>>
  BY DEF WriteFile
<1>3. run.kid = key_file[m] /\ key_file[m] \in Kids
  BY <1>1 DEF IInv, KeyInHand, Writing
<1>4. RunShape(run') /\ run'.merchant = m /\ run'.kid = run.kid
  <2>1. run' = [run EXCEPT !.phase = IF run.phase = "catalog" THEN "keys" ELSE "written"]
    BY DEF WriteFile
  <2> QED BY <1>1, <2>1 DEF RunShape
<1>5. published' = [published EXCEPT ![m][run.phase] = contents]
  BY DEF WriteFile
<1>6. /\ run.phase = "catalog" => \A s \in contents.signatures : s.kid = key_file[m]
      /\ run.phase = "keys" => contents = {key_file[m]}
  BY <1>3 DEF FileContents, SignMandate
<1> HIDE DEF m, contents
<1>7. Shaped
  BY DEF IInv
<1>8. /\ published' = [n \in Merchants |-> [catalog |-> published'[n].catalog,
                                            keys    |-> published'[n].keys]]
      /\ run.phase = "catalog" => /\ published'[m].catalog = contents
                                   /\ published'[m].keys = published[m].keys
      /\ run.phase = "keys" => /\ published'[m].catalog = published[m].catalog
                                /\ published'[m].keys = contents
      /\ \A n \in Merchants \ {m} : published'[n] = published[n]
  BY <1>1, <1>5, <1>7, OneFileWritten
<1>9. Shaped' /\ KeyInHand'
  BY <1>2, <1>3, <1>4, <1>7, <1>8 DEF Shaped, KeyInHand
<1>10. KeyFirst'
  BY <1>2, <1>3, <1>8 DEF IInv, KeyFirst, IsFile
<1>11. IdentitySurvives'
  <2> SUFFICES ASSUME losses = 0, NEW n \in Merchants
               PROVE  /\ IsFile(published'[n].catalog) =>
                           \A s \in published'[n].catalog.signatures : s.kid = key_file[n]
                      /\ IsFile(published'[n].keys) => published'[n].keys = {key_file[n]}
    BY <1>2 DEF IdentitySurvives, IsFile
  <2>1. /\ IsFile(published[n].catalog) =>
             \A s \in published[n].catalog.signatures : s.kid = key_file[n]
        /\ IsFile(published[n].keys) => published[n].keys = {key_file[n]}
    BY DEF IInv, IdentitySurvives, IsFile
  <2>2. CASE n # m
    BY <1>8, <2>1, <2>2
  <2>3. CASE n = m /\ run.phase = "catalog"
    BY <1>6, <1>8, <2>1, <2>3
  <2>4. CASE n = m /\ run.phase = "keys"
    BY <1>6, <1>8, <2>1, <2>4
  <2> QED BY <1>1, <2>2, <2>3, <2>4
<1> QED BY <1>2, <1>9, <1>10, <1>11, CacheKept DEF IInv

\* A file that is cut off is no file, and a key that is cut off was the first.
LEMMA CrashInv ==
  ASSUME OnboardingAssumption, IInv, Crash PROVE IInv'
<1> DEFINE m == run.merchant
<1>1. run # None /\ m \in Merchants /\ run' = None /\ losses' = losses
      /\ cache' \in {cache, NoCache}
  BY DEF Crash, IInv, Shaped, RunShape
<1>2. CASE UNCHANGED <<key_file, published>>
  <2>1. Shaped' /\ KeyInHand'
    BY <1>1, <1>2, CacheKept DEF IInv, Shaped, KeyInHand, Writing
  <2> QED BY <1>1, <1>2, <2>1, FilesKept, CacheKept DEF IInv
<1>3. CASE /\ CreatesKey(m) /\ key_file' = [key_file EXCEPT ![m] = Torn]
           /\ UNCHANGED published
  <2> HIDE DEF m
  <2>1. key_file \in [Merchants -> Kids \cup {None, Torn}]
    BY DEF IInv, Shaped
  <2>2. \A n \in Merchants \ {m} : key_file'[n] = key_file[n]
    BY <1>3, <2>1
  <2>3. losses = 0 => ~IsFile(published[m].catalog) /\ ~IsFile(published[m].keys)
    BY <1>1, <1>3 DEF CreatesKey, IInv, KeyFirst, OnboardingAssumption
  <2>4. Shaped' /\ KeyInHand'
    BY <1>1, <1>3, <2>1, CacheKept DEF IInv, Shaped, KeyInHand, Writing
  <2>5. KeyFirst' /\ IdentitySurvives'
    BY <1>1, <1>3, <2>2, <2>3 DEF IInv, KeyFirst, IdentitySurvives, IsFile
  <2> QED BY <1>1, <2>4, <2>5, CacheKept DEF IInv
<1>4. CASE /\ run.phase \in {"catalog", "keys"}
           /\ published' = [published EXCEPT ![m][run.phase] = Torn]
           /\ UNCHANGED key_file
  <2> HIDE DEF m
  <2>1. Shaped
    BY DEF IInv
  <2>2. /\ published' = [n \in Merchants |-> [catalog |-> published'[n].catalog,
                                              keys    |-> published'[n].keys]]
        /\ run.phase = "catalog" => /\ published'[m].catalog = Torn
                                     /\ published'[m].keys = published[m].keys
        /\ run.phase = "keys" => /\ published'[m].catalog = published[m].catalog
                                  /\ published'[m].keys = Torn
        /\ \A n \in Merchants \ {m} : published'[n] = published[n]
    BY <1>1, <1>4, <2>1, OneFileWritten
  <2>3. Shaped' /\ KeyInHand'
    BY <1>1, <1>4, <2>1, <2>2, CacheKept DEF Shaped, KeyInHand, Writing
  <2>4. KeyFirst'
    BY <1>1, <1>4, <2>2 DEF IInv, KeyFirst, IsFile
  <2>5. IdentitySurvives'
    BY <1>1, <1>4, <2>2 DEF IInv, IdentitySurvives
  <2> QED BY <1>1, <2>3, <2>4, <2>5, CacheKept DEF IInv
<1> QED BY <1>2, <1>3, <1>4 DEF Crash, disk

LEMMA LoseInv ==
  ASSUME OnboardingAssumption, IInv, NEW m \in Merchants, LoseKey(m) PROVE IInv'
<1>1. /\ UNCHANGED <<published, cache>> /\ run' = None /\ losses' = losses + 1
      /\ key_file' = [key_file EXCEPT ![m] = None]
  BY DEF LoseKey
<1>2. losses \in Nat /\ losses' # 0
  BY <1>1 DEF IInv, Shaped
<1>3. Shaped' /\ KeyInHand'
  BY <1>1, <1>2 DEF IInv, Shaped, KeyInHand, Writing
<1> QED BY <1>1, <1>2, <1>3, CacheKept DEF IInv, KeyFirst, IdentitySurvives

-----------------------------------------------------------------------------

LEMMA StepInv ==
  ASSUME OnboardingAssumption, IInv, [MarketNext]_marketVars PROVE IInv'
<1>1. CASE OnboardingNext
  BY <1>1, StartInv, FetchInv, KeyInv, WriteInv, FinishInv, CrashInv, LoseInv, RestartInv
     DEF OnboardingNext
<1>2. CASE UNCHANGED onboardingVars
  BY <1>2, FilesKept, CacheKept DEF onboardingVars, disk, IInv, Shaped, KeyInHand, Writing
<1> QED BY <1>1, <1>2, ShoppingIsReading DEF marketVars

\* The strengthened invariant is one: the key comes before the files.
THEOREM Invariance == ASSUME OnboardingAssumption PROVE Spec => []IInv
<1>1. MarketInit => IInv
  BY InitInv
<1>2. IInv /\ [MarketNext]_marketVars => IInv'
  BY StepInv
<1> QED BY <1>1, <1>2, PTL DEF Spec

\* As long as no key file is lost, what a merchant has published is of one
\* key, wherever its runs died.
THEOREM OneIdentity == ASSUME OnboardingAssumption PROVE Spec => []IdentitySurvives
BY Invariance, PTL DEF IInv

\* A catalog that is loaded is signed by the key that will sign the carts,
\* lost keys and half-written files or not.
THEOREM CoherentEndpoints == ASSUME OnboardingAssumption PROVE Spec => []EndpointCoherent
BY Invariance, PTL DEF IInv

-----------------------------------------------------------------------------
(* Normalize, product by product. *)

\* The items that the first n products leave.
IsKeptUpTo(f, raws, url, n) ==
  f = [k \in 0..n |->
         IF k = 0 THEN <<>>
         ELSE IF raws[k].title /\ raws[k].price_paise # None
         THEN Append(f[k - 1], CatalogItem(raws[k], url))
         ELSE f[k - 1]]

\* They can be collected up to every n.
LEMMA KeptExists ==
  ASSUME NEW raws, NEW url, NEW n \in Nat
  PROVE  \E f : IsKeptUpTo(f, raws, url, n)
<1> DEFINE Bad == {k \in Nat : ~ \E f : IsKeptUpTo(f, raws, url, k)}
           Complete(k) == raws[k].title /\ raws[k].price_paise # None
           item(k) == CatalogItem(raws[k], url)
<1>1. SUFFICES ASSUME Bad # {} PROVE FALSE
  OBVIOUS
<1>2. PICK m \in Bad : \A k \in Bad : m <= k
  BY <1>1, LeastNat
<1>3. m # 0
  <2>1. IsKeptUpTo([k \in 0..0 |-> <<>>], raws, url, 0)
    BY DEF IsKeptUpTo
  <2>2. QED
    BY <2>1
<1>4. m - 1 \in Nat /\ m \in Nat /\ m - 1 \notin Bad
  BY <1>2, <1>3
<1>5. PICK f : IsKeptUpTo(f, raws, url, m - 1)
  BY <1>4
<1> DEFINE last == IF Complete(m) THEN Append(f[m - 1], item(m)) ELSE f[m - 1]
           g == [k \in 0..m |-> IF k = m THEN last ELSE f[k]]
<1> HIDE DEF Complete, item
<1>6. ASSUME NEW k \in 0..m
      PROVE  g[k] = IF k = 0 THEN <<>>
                    ELSE IF Complete(k) THEN Append(g[k - 1], item(k)) ELSE g[k - 1]
  <2>1. CASE k = m
    <3>1. m - 1 \in 0..m /\ m - 1 # m /\ m \in 0..m
      BY <1>4
    <3>2. g[m] = last /\ g[m - 1] = f[m - 1]
      BY <3>1
    <3>3. QED
      BY <1>3, <2>1, <3>2
  <2>2. CASE k # m
    <3>1. k \in 0..(m - 1)
      BY <1>4, <2>2
    <3>2. f[k] = IF k = 0 THEN <<>>
                 ELSE IF Complete(k) THEN Append(f[k - 1], item(k)) ELSE f[k - 1]
      BY <1>5, <3>1 DEF IsKeptUpTo, Complete, item
    <3>3. g[k] = f[k] /\ (k # 0 => g[k - 1] = f[k - 1])
      BY <1>4, <2>2, <3>1
    <3>4. QED
      BY <3>2, <3>3
  <2>3. QED
    BY <2>1, <2>2
<1>7. IsKeptUpTo(g, raws, url, m)
  <2> HIDE DEF g
  <2>1. g = [k \in 0..m |-> g[k]]
    BY DEF g
  <2>2. QED
    BY <1>6, <2>1 DEF IsKeptUpTo, Complete, item
<1>8. QED
  BY <1>2, <1>7

\* What Normalize keeps is the item of one product or another, with the SKU of
\* the product or the one derived.
LEMMA NormalizedItems ==
  ASSUME NEW raws, NEW url, Len(raws) \in Nat
  PROVE  \E I : /\ Normalize(raws, url) \in Seq(I)
                /\ \A item \in I : \E k \in 1..Len(raws) : item = CatalogItem(raws[k], url)
<1> DEFINE n == Len(raws)
           I == {CatalogItem(raws[k], url) : k \in 1..n}
           IsKept(f) ==
             f = [k \in 0..n |->
                    IF k = 0 THEN <<>>
                    ELSE IF raws[k].title /\ raws[k].price_paise # None
                    THEN Append(f[k - 1], CatalogItem(raws[k], url))
                    ELSE f[k - 1]]
           kept == CHOOSE f : IsKept(f)
<1>1. \E f : IsKept(f)
  <2>1. PICK f : IsKeptUpTo(f, raws, url, n)
    BY KeptExists
  <2>2. IsKept(f)
    BY <2>1 DEF IsKeptUpTo
  <2>3. QED
    BY <2>2
<1>2. IsKept(kept)
  <2> HIDE DEF IsKept
  <2>1. QED
    BY <1>1
<1>3. Normalize(raws, url) = kept[n]
  BY DEF Normalize
<1> HIDE DEF kept
<1>4. \A k \in 0..n : kept[k] \in Seq(I)
  <2> DEFINE Bad == {k \in Nat : k <= n /\ kept[k] \notin Seq(I)}
  <2>1. SUFFICES ASSUME Bad # {} PROVE FALSE
    <3>1. \A k \in 0..n : k \in Nat /\ k <= n
      OBVIOUS
    <3> HIDE DEF n, I
    <3>2. QED
      BY <3>1
  <2>2. PICK m \in Bad : \A k \in Bad : m <= k
    <3>1. Bad \subseteq Nat
      OBVIOUS
    <3> HIDE DEF Bad
    <3>2. QED
      BY <2>1, <3>1, LeastNat
  <2>3. m \in Nat /\ m <= n /\ kept[m] \notin Seq(I)
    BY <2>2
  <2>4. m # 0
    BY <1>2, <2>3
  <2>5. kept[m - 1] \in Seq(I)
    <3>1. m - 1 \in Nat /\ m - 1 <= n /\ m - 1 \notin Bad
      BY <2>2, <2>3, <2>4
    <3>2. QED
      BY <3>1
  <2>6. m \in 0..n /\ CatalogItem(raws[m], url) \in I
    BY <2>3, <2>4
  <2>7. kept[m] = Append(kept[m - 1], CatalogItem(raws[m], url)) \/ kept[m] = kept[m - 1]
    BY <1>2, <2>4, <2>6
  <2>8. kept[m] \in Seq(I)
    <3> DEFINE before == kept[m - 1]
               item == CatalogItem(raws[m], url)
    <3>1. before \in Seq(I) /\ item \in I
      BY <2>5, <2>6
    <3> HIDE DEF before, item, I
    <3>2. Append(before, item) \in Seq(I)
      BY <3>1, AppendProperties
    <3>3. QED
      BY <2>7, <3>1, <3>2 DEF before, item
  <2>9. QED
    BY <2>3, <2>8
<1>5. Normalize(raws, url) \in Seq(I)
  BY <1>3, <1>4
<1>6. QED
  BY <1>5

-----------------------------------------------------------------------------
(* What a merchant's pages have told. *)

\* The pages fetched, for URLs whose host consented.
Fetched == permitted \cup unasked

\* What a page tells, or what a crash leaves of it.
Told(p) == UNION {ItemsOn(page, p[1]) : page \in LeftOf(p[2])}

Seen(m) == UNION {Told(p) : p \in {q \in Fetched : q[1] \in ToSet(Urls[m])}}

\* A catalog by SKU, of some items.
IsCatalog(entries, items) ==
  /\ IsFiniteSet(DOMAIN entries)
  /\ \A sku \in DOMAIN entries :
       /\ entries[sku] \in items
       /\ sku \in Nat /\ entries[sku].sku = sku /\ entries[sku].price_paise \in Nat

PermittedInv ==
  /\ \A p \in Fetched : p[1] \in DOMAIN Pages /\ p[2] \in Pages[p[1]]
  /\ DOMAIN snapshots = DOMAIN Pages
  /\ \A url \in DOMAIN Pages : \E page \in Pages[url] :
       <<url, page>> \in Fetched /\ snapshots[url] \in LeftOf(page)

\* A run under way has got its items from what has been fetched.
RunInv ==
  run # None =>
    /\ run.items \in Seq(Seen(run.merchant))
    /\ run.phase = "fetching" => run.next \in 1..Len(Urls[run.merchant])

PublishedInv ==
  \A m \in Merchants : IsFile(published[m].catalog) =>
    published[m].catalog.payload.items \in Seq(Seen(m))

CatalogInv ==
  \A m \in Merchants : cache[m] # None => IsCatalog(cache[m].catalog, Seen(m))

ProvenanceInv == PermittedInv /\ RunInv /\ PublishedInv /\ CatalogInv


LEMMA ItemsOfASequence ==
  ASSUME NEW s, NEW I, s \in Seq(I)
  PROVE  /\ ToSet(s) \subseteq I /\ s \in Seq(ToSet(s))
         /\ \A T : ToSet(s) \subseteq T => s \in Seq(T)
<1>1. s \in [1..Len(s) -> I] /\ Len(s) \in Nat /\ DOMAIN s = 1..Len(s)
  OBVIOUS
<1>2. ToSet(s) \subseteq I
  BY <1>1 DEF ToSet
<1>3. ASSUME NEW T, ToSet(s) \subseteq T PROVE s \in Seq(T)
  <2>1. \A k \in 1..Len(s) : s[k] \in T
    BY <1>1, <1>3 DEF ToSet
  <2>2. s \in [1..Len(s) -> T]
    BY <1>1, <2>1
  <2>3. QED
    BY <1>1, <2>2
<1>4. s \in Seq(ToSet(s))
  BY <1>3
<1>5. QED
  BY <1>2, <1>3, <1>4

LEMMA NormalizedIsSeen ==
  ASSUME OnboardingAssumption, NEW url \in DOMAIN Pages, NEW page \in Storable(url),
         NEW raws \in {page.structured, page.inferred}
  PROVE  /\ Normalize(raws, url) \in Seq(ToSet(Normalize(raws, url)))
         /\ \A item \in ToSet(Normalize(raws, url)) : item.sku \in Nat
<1>1. /\ raws \in Seq(ToSet(raws))
      /\ \A raw \in ToSet(raws) : raw.sku \in Nat \cup {None}
      /\ DerivedSku[url] \in Nat
  BY DEF OnboardingAssumption
<1>2. Len(raws) \in Nat /\ \A k \in 1..Len(raws) : raws[k] \in ToSet(raws)
  BY <1>1
<1>3. PICK I : /\ Normalize(raws, url) \in Seq(I)
               /\ \A item \in I : \E k \in 1..Len(raws) : item = CatalogItem(raws[k], url)
  BY <1>2, NormalizedItems
<1>4. ASSUME NEW item \in I PROVE item.sku \in Nat
  <2>1. PICK k \in 1..Len(raws) : item = CatalogItem(raws[k], url)
    BY <1>3
  <2>2. raws[k].sku \in Nat \cup {None}
    BY <1>1, <1>2
  <2>3. item.sku = IF raws[k].sku = None THEN DerivedSku[url] ELSE raws[k].sku
    BY <2>1 DEF CatalogItem
  <2>4. QED
    BY <1>1, <2>2, <2>3
<1>5. QED
  BY <1>3, <1>4, ItemsOfASequence

\* Whatever is extracted from a page, and none of it, is among what the page
\* tells.
LEMMA ExtractedIsSeen ==
  ASSUME OnboardingAssumption, NEW url \in DOMAIN Pages, NEW page \in Storable(url)
  PROVE  /\ \A raws \in Extractions(page) : Normalize(raws, url) \in Seq(ItemsOn(page, url))
         /\ \A item \in ItemsOn(page, url) : item.sku \in Nat
<1>1. ASSUME NEW raws \in {page.structured, page.inferred}
      PROVE  Normalize(raws, url) \in Seq(ItemsOn(page, url))
  <2>1. Normalize(raws, url) \in Seq(ToSet(Normalize(raws, url)))
    BY NormalizedIsSeen
  <2>2. ToSet(Normalize(raws, url)) \subseteq ItemsOn(page, url)
    BY DEF ItemsOn
  <2>3. QED
    BY <2>1, <2>2, ItemsOfASequence
<1>2. Normalize(<<>>, url) \in Seq(ItemsOn(page, url))
  <2>1. PICK I : /\ Normalize(<<>>, url) \in Seq(I)
                 /\ \A item \in I : \E k \in 1..Len(<<>>) : item = CatalogItem(<<>>[k], url)
    BY NormalizedItems
  <2>2. I \subseteq ItemsOn(page, url)
    BY <2>1
  <2>3. QED
    BY <2>1, <2>2, ItemsOfASequence
<1>3. \A item \in ItemsOn(page, url) : item.sku \in Nat
  BY NormalizedIsSeen DEF ItemsOn
<1>4. QED
  BY <1>1, <1>2, <1>3 DEF Extractions

\* What has been seen stays seen.
LEMMA SeenGrows ==
  ASSUME Fetched \subseteq Fetched', NEW m
  PROVE  Seen(m) \subseteq Seen(m)'
BY DEF Seen

LEMMA SeenHasSkus ==
  ASSUME OnboardingAssumption, PermittedInv, NEW m, NEW item \in Seen(m)
  PROVE  item.sku \in Nat
<1>1. PICK p \in Fetched : item \in Told(p)
  BY DEF Seen
<1>2. PICK page \in LeftOf(p[2]) : item \in ItemsOn(page, p[1])
  BY <1>1 DEF Told
<1>3. p[1] \in DOMAIN Pages /\ page \in Storable(p[1])
  BY <1>2 DEF PermittedInv, Storable
<1>4. QED
  BY <1>2, <1>3, ExtractedIsSeen

LEMMA CatalogOfSeen ==
  ASSUME NEW entries, NEW items, NEW more, items \subseteq more, IsCatalog(entries, items)
  PROVE  IsCatalog(entries, more)
BY DEF IsCatalog

\* The items of a file, by SKU.
LEMMA LoadedIsCatalog ==
  ASSUME OnboardingAssumption, PermittedInv, NEW m, NEW items \in Seq(Seen(m)), Priced(items)
  PROVE  IsCatalog(BySku(items), Seen(m))
<1>1. DOMAIN BySku(items) = SkusOf(items)
  BY DEF BySku
<1>2. IsFiniteSet(SkusOf(items))
  <2>1. DOMAIN items = 1..Len(items) /\ Len(items) \in Nat
    OBVIOUS
  <2>2. IsFiniteSet(DOMAIN items)
    BY <2>1, FS_Interval
  <2> DEFINE sku == [i \in DOMAIN items |-> items[i].sku]
  <2>3. sku \in Surjection(DOMAIN items, SkusOf(items))
    BY DEF Surjection, SkusOf
  <2>4. QED
    BY <2>2, <2>3, FS_Surjection
<1>3. ASSUME NEW sku \in SkusOf(items)
      PROVE  /\ BySku(items)[sku] \in Seen(m) /\ sku \in Nat
             /\ BySku(items)[sku].sku = sku /\ BySku(items)[sku].price_paise \in Nat
  <2> DEFINE i == CHOOSE k \in DOMAIN items : items[k].sku = sku
  <2>1. i \in DOMAIN items /\ items[i].sku = sku
    BY DEF SkusOf
  <2>2. BySku(items)[sku] = items[i]
    BY DEF BySku
  <2> HIDE DEF i
  <2>3. items[i] \in Seen(m)
    BY <2>1
  <2>4. QED
    BY <2>1, <2>2, <2>3, SeenHasSkus DEF Priced
<1>4. QED
  BY <1>1, <1>2, <1>3 DEF IsCatalog


-----------------------------------------------------------------------------
(* Where items come from, step by step. *)

\* Steps that read no page.
NothingRead == UNCHANGED <<permitted, unasked, snapshots>>

LEMMA SeenKept ==
  ASSUME PermittedInv, NothingRead
  PROVE  PermittedInv' /\ \A m : Seen(m)' = Seen(m)
BY DEF NothingRead, PermittedInv, Seen, Fetched

LEMMA CatalogsKept ==
  ASSUME CatalogInv, Fetched \subseteq Fetched', cache' \in {cache, NoCache}
  PROVE  CatalogInv'
<1>1. CASE cache' = NoCache
  BY <1>1 DEF NoCache, CatalogInv
<1>2. CASE cache' = cache
  <2>1. ASSUME NEW m \in Merchants, cache[m] # None
        PROVE  IsCatalog(cache[m].catalog, Seen(m)')
    <3>1. Seen(m) \subseteq Seen(m)'
      BY SeenGrows
    <3>2. IsCatalog(cache[m].catalog, Seen(m))
      BY <2>1 DEF CatalogInv
    <3>3. QED
      BY <3>1, <3>2, CatalogOfSeen
  <2>2. QED
    BY <1>2, <2>1 DEF CatalogInv
<1>3. QED
  BY <1>1, <1>2

LEMMA PublishedKept ==
  ASSUME PublishedInv, Fetched \subseteq Fetched', UNCHANGED published
  PROVE  PublishedInv'
<1>1. ASSUME NEW m \in Merchants, IsFile(published[m].catalog)
      PROVE  published[m].catalog.payload.items \in Seq(Seen(m)')
  <2>1. Seen(m) \subseteq Seen(m)'
    BY SeenGrows
  <2>2. published[m].catalog.payload.items \in Seq(Seen(m))
    BY <1>1 DEF PublishedInv
  <2>3. QED
    BY <2>1, <2>2, ItemsOfASequence
<1>2. QED
  BY <1>1 DEF PublishedInv

LEMMA ProvenanceInit ==
  ASSUME OnboardingAssumption, MarketInit PROVE ProvenanceInv
<1>1. PermittedInv
  <2>1. /\ DOMAIN snapshots = DOMAIN Pages
        /\ \A u \in DOMAIN Pages : snapshots[u] \in Pages[u]
        /\ Fetched = {<<u, snapshots[u]>> : u \in DOMAIN snapshots}
    BY DEF MarketInit, OnboardingInit, Fetched
  <2>2. QED
    BY <2>1 DEF PermittedInv, LeftOf
<1>2. RunInv /\ PublishedInv /\ CatalogInv
  BY DEF MarketInit, OnboardingInit, NoCache, NoFiles, RunInv, PublishedInv, CatalogInv, IsFile
<1>3. QED
  BY <1>1, <1>2 DEF ProvenanceInv

LEMMA ProvenanceStart ==
  ASSUME OnboardingAssumption, ProvenanceInv, NEW m \in Merchants, NEW offline \in BOOLEAN,
         StartRun(m, offline)
  PROVE  ProvenanceInv'
<1>1. NothingRead /\ UNCHANGED <<published, cache>>
  BY DEF StartRun, disk, read, NothingRead
<1>2. run'.merchant = m /\ run'.items = <<>> /\ run'.next = 1
  BY DEF StartRun
<1>3. 1 \in 1..Len(Urls[m])
  BY DEF OnboardingAssumption
<1>4. RunInv'
  BY <1>2, <1>3 DEF RunInv
<1>5. Fetched \subseteq Fetched' /\ cache' \in {cache, NoCache}
  BY <1>1 DEF NothingRead, Fetched
<1>6. QED
  BY <1>1, <1>4, <1>5, SeenKept, CatalogsKept, PublishedKept DEF ProvenanceInv

\* Reading a page of the merchant's that was fetched, or what is left of it.
LEMMA ProvenanceRead ==
  ASSUME OnboardingAssumption, IInv, ProvenanceInv, run # None, run.phase = "fetching",
         NEW whole \in Pages[CurrentUrl], NEW page \in LeftOf(whole),
         WithPage(CurrentUrl, page),
         Fetched \subseteq Fetched', <<CurrentUrl, whole>> \in Fetched'
  PROVE  /\ CurrentUrl \in DOMAIN Pages
         /\ RunInv' /\ CatalogInv'
<1>1. run.merchant \in Merchants /\ RunShape(run)
  BY DEF IInv, Shaped, RunShape
<1> PICK m \in Merchants : m = run.merchant
  BY <1>1
<1> PICK url : url = CurrentUrl
  OBVIOUS
<1>2. run.next \in 1..Len(Urls[m]) /\ run.items \in Seq(Seen(m))
  BY DEF ProvenanceInv, RunInv
<1>3. Urls[m] \in Seq(DOMAIN Pages)
  BY <1>1 DEF OnboardingAssumption
<1>4. url \in DOMAIN Pages /\ url \in ToSet(Urls[m])
  BY <1>2, <1>3 DEF CurrentUrl, ToSet
<1>5. /\ run' # None => \E raws \in Extractions(page) : GoesOnWith(raws, url)
      /\ cache' \in {cache, NoCache}
  BY <1>1, PageRead
<1>6. ItemsOn(page, url) \subseteq Seen(m)'
  <2>1. <<url, whole>> \in {q \in Fetched' : q[1] \in ToSet(Urls[m])}
    BY <1>4
  <2>2. ItemsOn(page, url) \subseteq Told(<<url, whole>>)
    BY DEF Told
  <2>3. QED
    BY <2>1, <2>2 DEF Seen
<1>7. RunInv'
  <2> SUFFICES ASSUME run' # None PROVE RunInv'
    BY DEF RunInv
  <2>1. PICK raws \in Extractions(page) : GoesOnWith(raws, url)
    BY <1>5
  <2>2. /\ run'.merchant = m /\ run'.items = run.items \o Normalize(raws, url)
        /\ run'.next = IF run.next = Len(Urls[m]) THEN 1 ELSE run.next + 1
    BY <2>1 DEF GoesOnWith
  <2>3. Seen(m) \subseteq Seen(m)'
    BY SeenGrows
  <2>4. run.items \in Seq(Seen(m)')
    BY <1>2, <2>3, ItemsOfASequence
  <2>5. Normalize(raws, url) \in Seq(Seen(m)')
    <3>1. page \in Storable(url)
      BY DEF Storable
    <3>2. Normalize(raws, url) \in Seq(ItemsOn(page, url))
      BY <1>4, <3>1, ExtractedIsSeen
    <3>3. QED
      BY <1>6, <3>2, ItemsOfASequence
  <2>6. run'.items \in Seq(Seen(m)')
    BY <2>2, <2>4, <2>5
  <2>7. run'.next \in 1..Len(Urls[m])
    BY <1>2, <1>3, <2>2
  <2>8. QED
    BY <2>2, <2>6, <2>7 DEF RunInv
<1>8. CatalogInv'
  BY <1>5, CatalogsKept DEF ProvenanceInv
<1>9. QED
  BY <1>4, <1>7, <1>8

\* A page that is served is read because robots.txt of the URL's host allows
\* it, and what it allows the host consents to.
LEMMA ServedIsFetched ==
  ASSUME NEW page, Serves(page)
  PROVE  Fetched' = Fetched \cup {<<CurrentUrl, page>>}
<1>1. PICK robots \in RobotsFiles, elsewhere \in Redirects[CurrentUrl] :
        /\ RobotsAllow(robots)
        /\ permitted' = IF Consents(robots) /\ ~elsewhere
                        THEN permitted \cup {<<CurrentUrl, page>>} ELSE permitted
        /\ unasked' = IF Consents(robots) /\ elsewhere
                      THEN unasked \cup {<<CurrentUrl, page>>} ELSE unasked
  BY DEF Serves
<1>2. Consents(robots)
  BY <1>1 DEF RobotsAllow, Consents
<1>3. QED
  BY <1>1, <1>2 DEF Fetched

\* The page that is asked for next is one of the merchant's.
LEMMA CurrentIsKnown ==
  ASSUME OnboardingAssumption, IInv, ProvenanceInv, run # None, run.phase = "fetching"
  PROVE  CurrentUrl \in DOMAIN Pages
<1>1. run.merchant \in Merchants
  BY DEF IInv, Shaped, RunShape
<1>2. run.next \in 1..Len(Urls[run.merchant]) /\ Urls[run.merchant] \in Seq(DOMAIN Pages)
  BY <1>1 DEF ProvenanceInv, RunInv, OnboardingAssumption
<1>3. QED
  BY <1>2 DEF CurrentUrl

\* Whatever is left of a page that is served, it takes the snapshot's place.
LEMMA SnapshotTaken ==
  ASSUME PermittedInv, CurrentUrl \in DOMAIN Pages,
         NEW page \in Pages[CurrentUrl], NEW left \in LeftOf(page), Serves(page),
         snapshots' = [snapshots EXCEPT ![CurrentUrl] = left]
  PROVE  PermittedInv' /\ Fetched \subseteq Fetched'
<1> PICK url : url = CurrentUrl
  OBVIOUS
<1>1. Fetched' = Fetched \cup {<<url, page>>}
  BY ServedIsFetched
<1>2. snapshots' = [snapshots EXCEPT ![url] = left]
  OBVIOUS
<1>3. ASSUME NEW u \in DOMAIN Pages
      PROVE  \E p \in Pages[u] : <<u, p>> \in Fetched' /\ snapshots'[u] \in LeftOf(p)
  <2>1. CASE u = url
    BY <1>1, <1>2, <2>1 DEF PermittedInv
  <2>2. CASE u # url
    BY <1>1, <1>2, <2>2 DEF PermittedInv
  <2>3. QED
    BY <2>1, <2>2
<1>4. QED
  BY <1>1, <1>2, <1>3 DEF PermittedInv

\* A snapshot is of a page that was fetched when it was taken.
LEMMA ProvenanceFetch ==
  ASSUME OnboardingAssumption, IInv, ProvenanceInv, Replay \/ FetchLive
  PROVE  ProvenanceInv'
<1>1. run # None /\ run.phase = "fetching" /\ published' = published
  BY DEF Replay, FetchLive, disk
<1> PICK url : url = CurrentUrl
  OBVIOUS
<1>2. url \in DOMAIN Pages
  BY <1>1, CurrentIsKnown
<1>3. PermittedInv
  BY DEF ProvenanceInv
<1>4. CASE Replay
  <2>1. NothingRead
    BY <1>4 DEF Replay, disk, read, NothingRead
  <2>2. PICK whole \in Pages[url] :
          <<url, whole>> \in Fetched /\ snapshots[url] \in LeftOf(whole)
    BY <1>2, <1>3 DEF PermittedInv
  <2>3. Fetched' = Fetched
    BY <2>1 DEF NothingRead, Fetched
  <2>4. WithPage(url, snapshots[url])
    BY <1>4 DEF Replay
  <2>5. RunInv' /\ CatalogInv'
    BY <1>1, <2>2, <2>3, <2>4, ProvenanceRead
  <2>6. QED
    BY <1>1, <1>3, <2>1, <2>3, <2>5, SeenKept, PublishedKept DEF ProvenanceInv
<1>5. CASE FetchLive
  <2>1. PICK page \in Pages[url] :
          /\ Serves(page)
          /\ snapshots' = [snapshots EXCEPT ![url] = page]
          /\ WithPage(url, page)
    BY <1>5 DEF FetchLive
  <2>2. page \in LeftOf(page)
    BY DEF LeftOf
  <2>3. PermittedInv' /\ Fetched \subseteq Fetched'
    BY <1>2, <1>3, <2>1, <2>2, SnapshotTaken
  <2>4. <<url, page>> \in Fetched'
    BY <2>1, ServedIsFetched
  <2>5. RunInv' /\ CatalogInv'
    BY <1>1, <2>1, <2>2, <2>3, <2>4, ProvenanceRead
  <2>6. PublishedInv'
    BY <1>1, <2>3, PublishedKept DEF ProvenanceInv
  <2>7. QED
    BY <2>3, <2>5, <2>6 DEF ProvenanceInv
<1>6. QED
  BY <1>4, <1>5

LEMMA ProvenanceKey ==
  ASSUME OnboardingAssumption, IInv, ProvenanceInv, ObtainKey PROVE ProvenanceInv'
<1>1. NothingRead /\ UNCHANGED <<published, cache>> /\ RunShape(run) /\ run # None
  BY DEF ObtainKey, read, NothingRead, IInv, Shaped
<1>2. run' = None \/ \E kid : run' = WithKey(run, "catalog", kid)
  BY DEF ObtainKey, WithKey
<1>3. run' # None => /\ run'.merchant = run.merchant /\ run'.items = run.items
                     /\ run'.phase = "catalog"
  BY <1>1, <1>2, RunGoesOn
<1>4. RunInv'
  BY <1>1, <1>3, SeenKept DEF ProvenanceInv, RunInv
<1>5. Fetched \subseteq Fetched' /\ cache' \in {cache, NoCache}
  BY <1>1 DEF NothingRead, Fetched
<1>6. QED
  BY <1>1, <1>4, <1>5, SeenKept, CatalogsKept, PublishedKept DEF ProvenanceInv

LEMMA ProvenanceWrite ==
  ASSUME OnboardingAssumption, IInv, ProvenanceInv, WriteFile PROVE ProvenanceInv'
<1> DEFINE m == run.merchant
           contents == FileContents(run.phase)
<1>1. /\ NothingRead /\ cache' = cache /\ RunShape(run) /\ run # None /\ m \in Merchants
      /\ run.phase \in {"catalog", "keys"} /\ Shaped
  BY DEF WriteFile, read, NothingRead, IInv, Shaped, RunShape
<1>2. /\ run'.merchant = m /\ run'.items = run.items /\ run'.phase # "fetching"
  <2>1. run' = [run EXCEPT !.phase = IF run.phase = "catalog" THEN "keys" ELSE "written"]
    BY DEF WriteFile
  <2>2. QED
    BY <1>1, <2>1 DEF RunShape
<1>3. published' = [published EXCEPT ![m][run.phase] = contents]
  BY DEF WriteFile
<1>4. run.phase = "catalog" => contents.payload.items = run.items
  BY DEF FileContents, SignMandate, CatalogDocument
<1>5. run.items \in Seq(Seen(m))
  BY <1>1 DEF ProvenanceInv, RunInv
<1> HIDE DEF m, contents
<1>6. RunInv'
  BY <1>1, <1>2, <1>5, SeenKept DEF ProvenanceInv, RunInv
<1>7. PublishedInv'
  <2>1. /\ run.phase = "catalog" => published'[m].catalog = contents
        /\ run.phase = "keys" => published'[m].catalog = published[m].catalog
        /\ \A n \in Merchants \ {m} : published'[n] = published[n]
    BY <1>1, <1>3, OneFileWritten
  <2>2. \A n \in Merchants : Seen(n)' = Seen(n)
    BY <1>1, SeenKept DEF ProvenanceInv
  <2>3. ASSUME NEW n \in Merchants, IsFile(published'[n].catalog)
        PROVE  published'[n].catalog.payload.items \in Seq(Seen(n))
    BY <1>1, <1>4, <1>5, <2>1, <2>3 DEF ProvenanceInv, PublishedInv
  <2>4. QED
    BY <2>2, <2>3 DEF PublishedInv
<1>8. Fetched \subseteq Fetched' /\ cache' \in {cache, NoCache}
  BY <1>1 DEF NothingRead, Fetched
<1>9. QED
  BY <1>1, <1>6, <1>7, <1>8, SeenKept, CatalogsKept DEF ProvenanceInv

\* The end of a run: the cache as it is, or with one merchant's files loaded.
LEMMA CacheAfterRun ==
  ASSUME IInv, FinishRun
  PROVE  \/ cache' = cache
         \/ /\ run.offline /\ Loadable(run.merchant) /\ run.merchant \in Merchants
            /\ cache'[run.merchant] # None =>
                 cache'[run.merchant].catalog =
                   BySku(published[run.merchant].catalog.payload.items)
            /\ \A n \in Merchants \ {run.merchant} : cache'[n] = cache[n]
            /\ cache' = [n \in Merchants |-> cache'[n]]
<1> DEFINE m == run.merchant
           loaded == [kid |-> key_file[m], keys |-> published[m].keys,
                      signed |-> published[m].catalog.signatures,
                      catalog |-> BySku(published[m].catalog.payload.items)]
<1>1. CASE ~(run.offline /\ Loadable(m))
  BY <1>1 DEF FinishRun
<1>2. CASE run.offline /\ Loadable(m)
  <2>1. cache' = [cache EXCEPT ![m] = loaded]
    BY <1>2 DEF FinishRun
  <2>2. loaded.catalog = BySku(published[m].catalog.payload.items)
    OBVIOUS
  <2>3. m \in Merchants /\ cache = [n \in Merchants |-> cache[n]]
    BY DEF FinishRun, IInv, Shaped, RunShape
  <2> HIDE DEF loaded, m
  <2>4. cache' = [n \in Merchants |-> IF n = m THEN loaded ELSE cache[n]]
    BY <2>1, <2>3
  <2>5. /\ cache'[m] = loaded /\ \A n \in Merchants \ {m} : cache'[n] = cache[n]
        /\ cache' = [n \in Merchants |-> cache'[n]]
    BY <2>3, <2>4
  <2>6. QED
    BY <1>2, <2>2, <2>3, <2>5 DEF m
<1>3. QED
  BY <1>1, <1>2

LEMMA ProvenanceFinish ==
  ASSUME OnboardingAssumption, IInv, ProvenanceInv, FinishRun PROVE ProvenanceInv'
<1> DEFINE m == run.merchant
<1>1. NothingRead /\ UNCHANGED published /\ run' = None
  BY DEF FinishRun, disk, read, NothingRead
<1>2. RunInv'
  BY <1>1 DEF RunInv
<1>3. Fetched \subseteq Fetched'
  BY <1>1 DEF NothingRead, Fetched
<1>4. CatalogInv'
  <2>1. CASE cache' = cache
    BY <1>3, <2>1, CatalogsKept DEF ProvenanceInv
  <2>2. CASE cache' # cache
    <3>1. /\ Loadable(m) /\ m \in Merchants
          /\ cache'[m] # None =>
               cache'[m].catalog = BySku(published[m].catalog.payload.items)
          /\ \A n \in Merchants \ {m} : cache'[n] = cache[n]
      BY <2>2, CacheAfterRun
    <3> HIDE DEF m
    <3>2. /\ published[m].catalog.payload.items \in Seq(Seen(m))
          /\ Priced(published[m].catalog.payload.items)
      BY <3>1 DEF Loadable, ProvenanceInv, PublishedInv, IsFile
    <3>3. PermittedInv
      BY DEF ProvenanceInv
    <3>4. IsCatalog(BySku(published[m].catalog.payload.items), Seen(m))
      BY <3>2, <3>3, LoadedIsCatalog
    <3>5. \A n \in Merchants : Seen(n)' = Seen(n)
      BY <1>1, <3>3, SeenKept
    <3>6. \A n \in Merchants : cache'[n] # None => IsCatalog(cache'[n].catalog, Seen(n))
      BY <3>1, <3>4 DEF ProvenanceInv, CatalogInv
    <3>7. QED
      BY <3>5, <3>6 DEF CatalogInv
  <2>3. QED
    BY <2>1, <2>2
<1>5. QED
  BY <1>1, <1>2, <1>3, <1>4, SeenKept, PublishedKept DEF ProvenanceInv

LEMMA ProvenanceCrash ==
  ASSUME OnboardingAssumption, IInv, ProvenanceInv, Crash PROVE ProvenanceInv'
<1> DEFINE m == run.merchant
<1>1. /\ run # None /\ run' = None /\ cache' \in {cache, NoCache}
      /\ m \in Merchants /\ Shaped
  BY DEF Crash, IInv, Shaped, RunShape
<1>2. PermittedInv' /\ Fetched \subseteq Fetched'
  <2>1. CASE NothingRead
    <3>1. Fetched' = Fetched
      BY <2>1 DEF NothingRead, Fetched
    <3>2. QED
      BY <2>1, <3>1, SeenKept DEF ProvenanceInv
  <2>2. CASE /\ run.phase = "fetching"
             /\ \E page \in Pages[CurrentUrl] : \E left \in CutShort[page] :
                  Serves(page) /\ snapshots' = [snapshots EXCEPT ![CurrentUrl] = left]
    <3>1. CurrentUrl \in DOMAIN Pages
      BY <1>1, <2>2, CurrentIsKnown
    <3>2. PICK page \in Pages[CurrentUrl] : \E left \in CutShort[page] :
            Serves(page) /\ snapshots' = [snapshots EXCEPT ![CurrentUrl] = left]
      BY <2>2
    <3>3. PICK left \in CutShort[page] :
            Serves(page) /\ snapshots' = [snapshots EXCEPT ![CurrentUrl] = left]
      BY <3>2
    <3>4. left \in LeftOf(page)
      BY DEF LeftOf
    <3>5. QED
      BY <3>1, <3>3, <3>4, SnapshotTaken DEF ProvenanceInv
  <2>3. QED
    BY <2>1, <2>2 DEF Crash, disk, read, NothingRead
<1>3. RunInv'
  BY <1>1 DEF RunInv
<1>4. PublishedInv'
  <2>1. CASE published' = published
    BY <1>2, <2>1, PublishedKept DEF ProvenanceInv
  <2>2. CASE published' # published
    <3>1. /\ run.phase \in {"catalog", "keys"}
          /\ published' = [published EXCEPT ![m][run.phase] = Torn]
          /\ NothingRead
      BY <2>2 DEF Crash, disk, read, NothingRead
    <3> HIDE DEF m
    <3>2. /\ published'[m].catalog \in {Torn, published[m].catalog}
          /\ \A n \in Merchants \ {m} : published'[n] = published[n]
      BY <1>1, <3>1, OneFileWritten
    <3>3. \A n \in Merchants : Seen(n)' = Seen(n)
      BY <3>1, SeenKept DEF ProvenanceInv
    <3>4. ASSUME NEW n \in Merchants, IsFile(published'[n].catalog)
          PROVE  published'[n].catalog.payload.items \in Seq(Seen(n))
      BY <3>2, <3>4 DEF ProvenanceInv, PublishedInv, IsFile
    <3>5. QED
      BY <3>3, <3>4 DEF PublishedInv
  <2>3. QED
    BY <2>1, <2>2
<1>5. QED
  BY <1>1, <1>2, <1>3, <1>4, CatalogsKept DEF ProvenanceInv

LEMMA ProvenanceElse ==
  ASSUME OnboardingAssumption, ProvenanceInv,
         \/ \E m \in Merchants : LoseKey(m)
         \/ BuyerRestarts
         \/ UNCHANGED onboardingVars
  PROVE  ProvenanceInv'
<1>1. NothingRead /\ UNCHANGED <<published, run>> /\ cache' \in {cache, NoCache}
  BY DEF LoseKey, BuyerRestarts, onboardingVars, disk, read, NothingRead
<1>2. Fetched \subseteq Fetched'
  BY <1>1 DEF NothingRead, Fetched
<1>3. RunInv'
  BY <1>1, SeenKept DEF ProvenanceInv, RunInv
<1>4. QED
  BY <1>1, <1>2, <1>3, SeenKept, CatalogsKept, PublishedKept DEF ProvenanceInv

LEMMA ProvenanceStep ==
  ASSUME OnboardingAssumption, IInv, ProvenanceInv, [MarketNext]_marketVars
  PROVE  ProvenanceInv'
<1>1. CASE OnboardingNext
  BY <1>1, ProvenanceStart, ProvenanceFetch, ProvenanceKey, ProvenanceWrite,
     ProvenanceFinish, ProvenanceCrash, ProvenanceElse DEF OnboardingNext
<1>2. CASE UNCHANGED onboardingVars
  BY <1>2, ProvenanceElse
<1>3. QED
  BY <1>1, <1>2, ShoppingIsReading DEF marketVars

\* Every item, wherever it is kept, in a run, a file or the cache, is as a page
\* told it, whole or cut short, that was fetched for a URL of its merchant whose
\* own host let the kit read it; by a redirect, it may be another host's page.
THEOREM Provenance == ASSUME OnboardingAssumption PROVE Spec => []ProvenanceInv
<1>1. MarketInit => ProvenanceInv
  BY ProvenanceInit
<1>2. IInv /\ ProvenanceInv /\ [MarketNext]_marketVars => ProvenanceInv'
  BY ProvenanceStep
<1>3. QED
  BY <1>1, <1>2, Invariance, PTL DEF Spec

\* A buyer sees only what pages told that were fetched, now or when the snapshot
\* was taken, for URLs of the merchant whose own host let the kit read them.
\* The host a redirect leads to is not asked, and the statement says nothing of it.
THEOREM ItemsOfConsentedUrls == ASSUME OnboardingAssumption PROVE Spec => []OnlyConsentedUrls
<1>1. ASSUME ProvenanceInv
      PROVE  OnlyConsentedUrls
  <2> SUFFICES ASSUME NEW m \in Merchants, cache[m] # None,
                      NEW sku \in DOMAIN cache[m].catalog
               PROVE  \E p \in permitted \cup unasked : \E page \in LeftOf(p[2]) :
                        p[1] \in ToSet(Urls[m]) /\ cache[m].catalog[sku] \in ItemsOn(page, p[1])
    BY DEF OnlyConsentedUrls
  <2>1. cache[m].catalog[sku] \in Seen(m)
    BY <1>1 DEF ProvenanceInv, CatalogInv, IsCatalog
  <2>2. PICK p \in Fetched : p[1] \in ToSet(Urls[m]) /\ cache[m].catalog[sku] \in Told(p)
    BY <2>1 DEF Seen
  <2>3. PICK page \in LeftOf(p[2]) : cache[m].catalog[sku] \in ItemsOn(page, p[1])
    BY <2>2 DEF Told
  <2>4. QED
    BY <2>2, <2>3 DEF Fetched
<1>2. QED
  BY <1>1, Provenance, PTL

-----------------------------------------------------------------------------
(* Items in the order of price and SKU. *)

\* The entries of a catalog can be compared.
Comparable(entries) ==
  \A sku \in DOMAIN entries : sku \in Nat /\ entries[sku].price_paise \in Nat

LEMMA LeastPrice ==
  ASSUME NEW entries, Comparable(entries), NEW S, S \subseteq DOMAIN entries, S # {}
  PROVE  \E x \in S : \A y \in S : entries[x].price_paise <= entries[y].price_paise
<1> DEFINE prices == {entries[x].price_paise : x \in S}
<1>1. prices \subseteq Nat /\ prices # {}
  BY DEF Comparable
<1>2. PICK p \in prices : \A q \in prices : p <= q
  BY <1>1, LeastNat
<1>3. QED
  BY <1>2

LEMMA CheapestIsOne ==
  ASSUME NEW endpoint, Comparable(endpoint.entries),
         NEW S, S \subseteq DOMAIN endpoint.entries, S # {}
  PROVE  Agent(endpoint, 1)!Cheapest(S) \in S
<1> DEFINE entries == endpoint.entries
<1>1. PICK p \in S : \A y \in S : entries[p].price_paise <= entries[y].price_paise
  BY LeastPrice
<1> DEFINE T == {x \in S : entries[x].price_paise = entries[p].price_paise}
<1>2. T \subseteq Nat /\ T # {}
  BY DEF Comparable
<1>3. PICK x \in T : \A y \in T : x <= y
  BY <1>2, LeastNat
<1>4. \A y \in S : ~Agent(endpoint, 1)!CheaperFirst(y, x)
  BY <1>1, <1>2, <1>3 DEF Comparable, Agent!CheaperFirst
<1>5. QED
  BY <1>3, <1>4 DEF Agent!Cheapest

\* An upsell, when there is one, is dearer.
LEMMA PremiumIsDearer ==
  ASSUME NEW endpoint, Comparable(endpoint.entries), NEW primary,
         Agent(endpoint, 1)!PremiumCandidates(primary) # {}
  PROVE  endpoint.entries[Agent(endpoint, 1)!PremiumSubstitute(primary)].price_paise
           > endpoint.entries[primary].price_paise
<1> DEFINE candidates == Agent(endpoint, 1)!PremiumCandidates(primary)
<1>1. candidates \subseteq DOMAIN endpoint.entries /\ candidates # {}
  BY DEF Agent!PremiumCandidates
<1>2. \E x \in candidates : \A y \in candidates :
        endpoint.entries[x].price_paise <= endpoint.entries[y].price_paise
  <2> HIDE DEF candidates
  <2>1. QED
    BY <1>1, LeastPrice
<1>3. Agent(endpoint, 1)!PremiumSubstitute(primary) \in candidates
  BY <1>2 DEF Agent!PremiumSubstitute
<1>4. QED
  BY <1>3 DEF Agent!PremiumCandidates

\* The driver's first alternative is another item than the one of its cart.
LEMMA AlternativeIsAnother ==
  ASSUME NEW endpoint, Comparable(endpoint.entries), NEW intent,
         Agent(endpoint, 1)!MatchingItems(intent) # {},
         Agent(endpoint, 1)!AlternativeItems(intent, FALSE) # <<>>
  PROVE  /\ 1 \in DOMAIN Agent(endpoint, 1)!AlternativeItems(intent, FALSE)
         /\ Agent(endpoint, 1)!AlternativeItems(intent, FALSE)[1]
              # Agent(endpoint, 1)!ProposedLine(intent, FALSE).sku
<1> DEFINE primary == Agent(endpoint, 1)!Primary(intent)
           further == Agent(endpoint, 1)!FurtherItems(intent)
           others == Agent(endpoint, 1)!MatchingItems(intent) \ {primary}
<1>1. further = <<>> \/ (others # {} /\ further = <<Agent(endpoint, 1)!Cheapest(others)>>)
  BY DEF Agent!FurtherItems
<1>2. CASE Agent(endpoint, 1)!MakesOffer(intent, FALSE)
  <2>1. Agent(endpoint, 1)!AlternativeItems(intent, FALSE) = <<primary>> \o further
    BY <1>2 DEF Agent!AlternativeItems
  <2>2. Agent(endpoint, 1)!ProposedLine(intent, FALSE).sku
          = Agent(endpoint, 1)!PremiumSubstitute(primary)
    BY <1>2 DEF Agent!ProposedLine, Agent!ItemLine
  <2>3. Agent(endpoint, 1)!PremiumCandidates(primary) # {}
    BY <1>2 DEF Agent!MakesOffer
  <2> HIDE DEF primary, further
  <2>4. Agent(endpoint, 1)!PremiumSubstitute(primary) # primary
    <3>1. endpoint.entries[Agent(endpoint, 1)!PremiumSubstitute(primary)].price_paise
            > endpoint.entries[primary].price_paise
      BY <2>3, PremiumIsDearer
    <3>2. SUFFICES ASSUME Agent(endpoint, 1)!PremiumSubstitute(primary) = primary PROVE FALSE
      OBVIOUS
    <3>3. primary \in DOMAIN endpoint.entries
      BY CheapestIsOne DEF primary, Agent!Primary, Agent!MatchingItems
    <3>4. endpoint.entries[primary].price_paise \in Nat
      BY <3>3 DEF Comparable
    <3>5. QED
      BY <3>1, <3>2, <3>4
  <2>5. (<<primary>> \o further)[1] = primary /\ 1 \in DOMAIN (<<primary>> \o further)
    <3>1. further = <<>> \/ \E x : further = <<x>>
      BY <1>1
    <3>2. QED
      BY <3>1
  <2>6. QED
    BY <2>1, <2>2, <2>4, <2>5
<1>3. CASE ~Agent(endpoint, 1)!MakesOffer(intent, FALSE)
  <2>1. Agent(endpoint, 1)!AlternativeItems(intent, FALSE) = further
    BY <1>3 DEF Agent!AlternativeItems
  <2>2. Agent(endpoint, 1)!ProposedLine(intent, FALSE).sku = primary
    BY <1>3 DEF Agent!ProposedLine, Agent!ItemLine
  <2>3. others \subseteq DOMAIN endpoint.entries
    BY DEF Agent!MatchingItems
  <2>4. others # {} /\ further = <<Agent(endpoint, 1)!Cheapest(others)>>
    BY <1>1, <2>1
  <2>5. Agent(endpoint, 1)!Cheapest(others) \in others
    <3> HIDE DEF others
    <3>1. QED
      BY <2>3, <2>4, CheapestIsOne
  <2>6. further[1] = Agent(endpoint, 1)!Cheapest(others) /\ 1 \in DOMAIN further
    <3> HIDE DEF further
    <3>1. QED
      BY <2>4
  <2>7. QED
    BY <2>1, <2>2, <2>5, <2>6
<1>4. QED
  BY <1>2, <1>3

\* The alternatives are numbered from one.
LEMMA AlternativesAreNumbered ==
  ASSUME NEW endpoint, NEW intent
  PROVE  DOMAIN Agent(endpoint, 1)!AlternativeItems(intent, FALSE) \subseteq Nat \ {0}
<1> DEFINE primary == Agent(endpoint, 1)!Primary(intent)
           further == Agent(endpoint, 1)!FurtherItems(intent)
           others == Agent(endpoint, 1)!MatchingItems(intent) \ {primary}
<1>1. further = <<>> \/ \E x : further = <<x>>
  BY DEF Agent!FurtherItems
<1>2. Agent(endpoint, 1)!AlternativeItems(intent, FALSE) \in {further, <<primary>> \o further}
  BY DEF Agent!AlternativeItems
<1> HIDE DEF further, primary
<1>3. PICK S : further \in Seq(S) /\ primary \in S
  <2>1. CASE further = <<>>
    <3>1. further \in Seq({primary})
      BY <2>1
    <3>2. QED
      BY <3>1
  <2>2. CASE \E x : further = <<x>>
    <3>1. PICK x : further = <<x>>
      BY <2>2
    <3>2. further \in Seq({primary, x})
      BY <3>1
    <3>3. QED
      BY <3>2
  <2>3. QED
    BY <1>1, <2>1, <2>2
<1>4. <<primary>> \o further \in Seq(S)
  BY <1>3
<1>5. \A s \in Seq(S) : DOMAIN s \subseteq Nat \ {0}
  OBVIOUS
<1>6. QED
  BY <1>2, <1>3, <1>4, <1>5

-----------------------------------------------------------------------------
(* The carts of a page. *)

\* Every line is at the price the merchant publishes for its SKU.
AsPublished(cart, m) ==
  \A line \in LinesOf(cart) : line.unit_price_paise = cache[m].catalog[line.sku].price_paise

IsItemLine(m, line, x) ==
  \E upsell : line = Agent(EndpointOf(m), 1)!ItemLine(x, upsell)

LEMMA ItemLineIsAsPublished ==
  ASSUME NEW m, NEW x, NEW line, IsItemLine(m, line, x)
  PROVE  /\ line.sku = x
         /\ line.unit_price_paise = cache[m].catalog[x].price_paise
BY DEF IsItemLine, EndpointOf, Agent!ItemLine

\* A cart the driver signs, of one line.
IsCartOf(endpoint, intent, envelope, line) ==
  \E id : envelope = Agent(endpoint, 1)!SignedCart(line, intent, Now, id)

LEMMA OneLineCart ==
  ASSUME NEW endpoint, NEW intent, NEW envelope, NEW line,
         IsCartOf(endpoint, intent, envelope, line)
  PROVE  LinesOf(envelope.payload) = {line}
<1>1. envelope.payload.lines = <<line>>
  BY DEF IsCartOf, Agent!SignedCart, Agent!SignMandate
<1>2. QED
  BY <1>1 DEF LinesOf

LEMMA OneItemCart ==
  ASSUME NEW m, NEW envelope, NEW line, NEW x,
         LinesOf(envelope.payload) = {line}, IsItemLine(m, line, x)
  PROVE  AsPublished(envelope.payload, m) /\ SkusIn(envelope) = {x}
<1>1. line.sku = x /\ line.unit_price_paise = cache[m].catalog[x].price_paise
  BY ItemLineIsAsPublished
<1>2. QED
  BY <1>1 DEF AsPublished, SkusIn

LEMMA ServerCartLines ==
  ASSUME NEW endpoint, NEW lines, NEW intentHash
  PROVE  LinesOf(ServerCart(endpoint, lines, intentHash).payload)
           = {lines[i] : i \in DOMAIN lines}
BY DEF ServerCart, SignMandate, LinesOf

\* The driver's cart and its alternatives.
LEMMA ProposalOfAPage ==
  ASSUME NEW m, NEW intent
  PROVE  LET agent == Agent(EndpointOf(m), 1)!Proposal(intent, FALSE, Now, 0)
             others == Agent(EndpointOf(m), 1)!AlternativeItems(intent, FALSE)
         IN  /\ LinesOf(agent.cart_envelope.payload)
                  = {Agent(EndpointOf(m), 1)!ProposedLine(intent, FALSE)}
             /\ DOMAIN agent.alternative_envelopes = DOMAIN others
             /\ \A k \in DOMAIN others :
                  LinesOf(agent.alternative_envelopes[k].payload)
                    = {Agent(EndpointOf(m), 1)!ItemLine(others[k], FALSE)}
<1> DEFINE agent == Agent(EndpointOf(m), 1)!Proposal(intent, FALSE, Now, 0)
           others == Agent(EndpointOf(m), 1)!AlternativeItems(intent, FALSE)
<1>1. IsCartOf(EndpointOf(m), intent, agent.cart_envelope,
               Agent(EndpointOf(m), 1)!ProposedLine(intent, FALSE))
  BY DEF Agent!Proposal, IsCartOf
<1>2. /\ DOMAIN agent.alternative_envelopes = DOMAIN others
      /\ \A k \in DOMAIN others :
           IsCartOf(EndpointOf(m), intent, agent.alternative_envelopes[k],
                    Agent(EndpointOf(m), 1)!ItemLine(others[k], FALSE))
  BY DEF Agent!Proposal, IsCartOf
<1> HIDE DEF agent, others
<1>3. /\ LinesOf(agent.cart_envelope.payload)
           = {Agent(EndpointOf(m), 1)!ProposedLine(intent, FALSE)}
      /\ \A k \in DOMAIN others :
           LinesOf(agent.alternative_envelopes[k].payload)
             = {Agent(EndpointOf(m), 1)!ItemLine(others[k], FALSE)}
  BY <1>1, <1>2, OneLineCart
<1>4. QED
  BY <1>2, <1>3 DEF agent, others

\* What is approved at published prices is what a page may promise.
LEMMA ApprovedFits ==
  ASSUME NEW m, NEW intent, NEW envelope, AsPublished(envelope.payload, m),
         VerdictOn(EndpointOf(m), intent, envelope, Now).outcome = "APPROVED"
  PROVE  FitsThePage(envelope, m, intent)
<1> DEFINE cart == envelope.payload
           ctx == ContextFor(EndpointOf(m), intent, envelope)
<1>1. Evaluate(intent, cart, PermissivePolicy, ctx, Now).outcome = "APPROVED"
  BY DEF VerdictOn
<1>2. /\ WithinBudget(intent, cart) /\ WithinPerItemCap(intent, cart)
      /\ HardConstraintsMet(intent, cart) /\ CartShapeSane(cart)
  <2> HIDE DEF cart, ctx
  <2>1. QED
    BY <1>1, NotRejectedMeans
<1>3. cart.lines # <<>>
  BY <1>2 DEF CartShapeSane
<1>4. cart.total_paise <= intent.total_paise
  BY <1>2 DEF WithinBudget
<1>5. ASSUME NEW line \in LinesOf(cart)
      PROVE  /\ line.unit_price_paise = cache[m].catalog[line.sku].price_paise
             /\ line.unit_price_paise <= intent.per_item_paise
             /\ line.is_upsell \/ intent.category \in {None, line.category}
  BY <1>2, <1>5 DEF AsPublished, WithinPerItemCap, HardConstraintsMet
<1>6. QED
  BY <1>3, <1>4, <1>5 DEF FitsThePage

\* Whatever takes the place of the cart, and whatever stands beside it, is
\* at published prices, and an alternative is one.
LEMMA PageIsTrue ==
  ASSUME NEW m \in Merchants, cache[m] # None, Comparable(cache[m].catalog),
         NEW intent, NEW asksItems \in BOOLEAN, NEW skus, skus # {} => asksItems,
         Agent(EndpointOf(m), 1)!MatchingItems(intent) # {},
         NEW page, page = Page(m, intent, asksItems, skus)
  PROVE  /\ page.kind = "page" /\ page.merchant = m /\ page.intent = intent
         /\ page.outcome = "APPROVED" => FitsThePage(page.cart, m, intent)
         /\ page.alternative # None =>
              /\ ~(SkusIn(page.alternative) \subseteq SkusIn(page.cart))
              /\ page.alternative_outcome = "APPROVED" =>
                   FitsThePage(page.alternative, m, intent)
<1> DEFINE endpoint == EndpointOf(m)
           agent == Agent(endpoint, 1)!Proposal(intent, FALSE, Now, 0)
           items == Agent(endpoint, 1)!AlternativeItems(intent, FALSE)
           basket == ServerCart(endpoint, BasketLines(endpoint, skus), Digest(intent))
           envelope == IF asksItems THEN basket ELSE agent.cart_envelope
           others == IF asksItems /\ skus = {} THEN <<>> ELSE agent.alternative_envelopes
           other == AlternativeTo(envelope, others, asksItems)
<1>1. page = [kind |-> "page", merchant |-> m, intent |-> intent, cart |-> envelope,
              outcome |-> Judged(endpoint, intent, envelope, agent.cart_envelope),
              alternative |-> other,
              alternative_outcome |->
                IF other = None THEN None
                ELSE Judged(endpoint, intent, other, agent.cart_envelope)]
  BY DEF Page
<1>2. /\ LinesOf(agent.cart_envelope.payload)
           = {Agent(endpoint, 1)!ProposedLine(intent, FALSE)}
      /\ DOMAIN agent.alternative_envelopes = DOMAIN items
      /\ \A k \in DOMAIN items : LinesOf(agent.alternative_envelopes[k].payload)
                                   = {Agent(endpoint, 1)!ItemLine(items[k], FALSE)}
  BY ProposalOfAPage
<1>3. AsPublished(agent.cart_envelope.payload, m)
  <2>1. \E x : IsItemLine(m, Agent(endpoint, 1)!ProposedLine(intent, FALSE), x)
    BY DEF Agent!ProposedLine, IsItemLine
  <2> HIDE DEF agent
  <2>2. QED
    BY <1>2, <2>1, OneItemCart
<1>4. ASSUME NEW k \in DOMAIN items
      PROVE  /\ AsPublished(agent.alternative_envelopes[k].payload, m)
             /\ SkusIn(agent.alternative_envelopes[k]) = {items[k]}
  <2>1. PICK line : line = Agent(endpoint, 1)!ItemLine(items[k], FALSE)
    OBVIOUS
  <2>2. IsItemLine(m, line, items[k])
    BY <2>1 DEF IsItemLine
  <2> HIDE DEF agent, items, endpoint
  <2>3. LinesOf(agent.alternative_envelopes[k].payload) = {line}
    BY <1>2, <2>1
  <2>4. QED
    BY <2>2, <2>3, OneItemCart
<1>5. AsPublished(basket.payload, m)
  <2> DEFINE lines == BasketLines(endpoint, skus)
  <2>1. LinesOf(basket.payload) = {lines[i] : i \in DOMAIN lines}
    BY ServerCartLines
  <2>2. \A i \in DOMAIN lines : \E x : IsItemLine(m, lines[i], x)
    BY DEF BasketLines, IsItemLine
  <2> HIDE DEF basket, lines
  <2>3. QED
    BY <2>1, <2>2, ItemLineIsAsPublished DEF AsPublished
<1>6. AsPublished(envelope.payload, m)
  <2> HIDE DEF agent, basket
  <2>1. QED
    BY <1>3, <1>5
<1>7. others = <<>> \/ others = agent.alternative_envelopes
  OBVIOUS
<1>8. ASSUME other # None
      PROVE  /\ \E k \in DOMAIN items : other = agent.alternative_envelopes[k]
             /\ ~(SkusIn(other) \subseteq SkusIn(envelope))
  <2> DEFINE fresh == {k \in DOMAIN others :
                         asksItems => ~(SkusIn(others[k]) \subseteq SkusIn(envelope))}
  <2>1. other = IF fresh = {} THEN None ELSE others[Min(fresh)]
    BY DEF AlternativeTo
  <2>2. fresh # {} /\ other = others[Min(fresh)]
    <3> HIDE DEF fresh, other
    <3>1. QED
      BY <1>8, <2>1
  <2>3. others = agent.alternative_envelopes
    <3>1. others # <<>>
      <4> HIDE DEF others
      <4>1. SUFFICES ASSUME others = <<>> PROVE FALSE
        OBVIOUS
      <4>2. DOMAIN others = {}
        BY <4>1
      <4>3. QED
        BY <2>2, <4>2
    <3> HIDE DEF others
    <3>2. QED
      BY <1>7, <3>1
  <2>4. fresh \subseteq DOMAIN items
    <3> HIDE DEF others, agent, envelope
    <3>1. QED
      BY <1>2, <2>3
  <2>5. DOMAIN items \subseteq Nat \ {0}
    BY AlternativesAreNumbered
  <2>6. Min(fresh) \in fresh /\ \A k \in fresh : Min(fresh) <= k
    <3> HIDE DEF fresh, items
    <3>1. fresh \subseteq Nat
      BY <2>4, <2>5
    <3>2. QED
      BY <2>2, <3>1, LeastNat DEF Min
  <2>7. CASE asksItems
    BY <2>2, <2>3, <2>4, <2>6, <2>7
  <2>8. CASE ~asksItems
    <3>1. fresh = DOMAIN items /\ envelope = agent.cart_envelope
      <4> HIDE DEF agent, items
      <4>1. QED
        BY <1>2, <2>8
    <3>2. items # <<>>
      <4> HIDE DEF items, fresh
      <4>1. QED
        BY <2>2, <3>1
    <3>3. Comparable(endpoint.entries)
      BY DEF EndpointOf
    <3>4. /\ 1 \in DOMAIN items
          /\ items[1] # Agent(endpoint, 1)!ProposedLine(intent, FALSE).sku
      <4> HIDE DEF endpoint
      <4>1. QED
        BY <3>2, <3>3, AlternativeIsAnother DEF endpoint
    <3>5. SkusIn(envelope) = {Agent(endpoint, 1)!ProposedLine(intent, FALSE).sku}
      <4> HIDE DEF agent, items, envelope
      <4>1. QED
        BY <1>2, <3>1 DEF SkusIn
    <3>6. \A k \in DOMAIN items : items[k] \in SkusIn(agent.alternative_envelopes[k])
      <4> HIDE DEF agent, items
      <4>1. QED
        BY <1>4
    <3>7. Min(fresh) = 1
      <4>1. 1 \in fresh
        BY <3>1, <3>4
      <4> HIDE DEF fresh, items
      <4>2. Min(fresh) \in Nat \ {0}
        BY <2>4, <2>5, <2>6
      <4>3. QED
        BY <2>6, <4>1, <4>2
    <3>8. QED
      BY ZenonT(60), <2>2, <2>3, <3>4, <3>5, <3>6, <3>7
  <2>9. QED
    BY <2>7, <2>8
<1>9. ASSUME other # None PROVE AsPublished(other.payload, m)
  <2> HIDE DEF other, agent, items
  <2>1. QED
    BY <1>4, <1>8, <1>9
<1> HIDE DEF envelope, other, agent
<1>10. /\ page.cart = envelope /\ page.alternative = other
       /\ page.kind = "page" /\ page.merchant = m /\ page.intent = intent
       /\ page.outcome = VerdictOn(endpoint, intent, envelope, Now).outcome
       /\ other # None =>
            page.alternative_outcome = VerdictOn(endpoint, intent, other, Now).outcome
  BY <1>1 DEF Judged
<1>11. page.outcome = "APPROVED" => FitsThePage(page.cart, m, intent)
  BY <1>6, <1>10, ApprovedFits
<1>12. other # None /\ page.alternative_outcome = "APPROVED" => FitsThePage(other, m, intent)
  BY <1>9, <1>10, ApprovedFits
<1>13. QED
  BY <1>8, <1>10, <1>11, <1>12


-----------------------------------------------------------------------------
(* What the server has shown. *)

PricesOf(entries) == [sku \in DOMAIN entries |-> entries[sku].price_paise]

\* An offline run is for a merchant that is not in the cache, so a catalog
\* that has been shown is not replaced.
ShownInv ==
  /\ run # None /\ run.offline => cache[run.merchant] = None
  /\ DOMAIN shown = Merchants
  /\ \A m \in Merchants : shown[m] # None =>
       cache[m] # None /\ shown[m] = PricesOf(cache[m].catalog)

\* A step of the kit leaves the cache as it is or empty, or loads one more
\* merchant.
LEMMA CacheAfterAll ==
  ASSUME IInv, OnboardingNext
  PROVE  \/ cache' \in {cache, NoCache}
         \/ /\ run # None /\ run.offline /\ run' = None
            /\ \A n \in Merchants \ {run.merchant} : cache'[n] = cache[n]
<1>1. CASE FinishRun
  <2>1. cache' = cache \/ (run.offline /\ \A n \in Merchants \ {run.merchant} : cache'[n] = cache[n])
    BY <1>1, CacheAfterRun
  <2>2. QED
    BY <1>1, <2>1 DEF FinishRun
<1>2. CASE Replay \/ FetchLive
  <2>1. run # None /\ RunShape(run) /\ \E url, page : WithPage(url, page)
    BY <1>2 DEF Replay, FetchLive, IInv, Shaped
  <2>2. QED
    BY <2>1, PageRead
<1>3. CASE ObtainKey \/ WriteFile
  BY <1>3 DEF ObtainKey, WriteFile
<1>4. CASE Crash
  BY <1>4 DEF Crash
<1>5. CASE BuyerRestarts \/ \E m \in Merchants : LoseKey(m)
  BY <1>5 DEF BuyerRestarts, LoseKey
<1>6. CASE \E m \in Merchants, offline \in BOOLEAN : StartRun(m, offline)
  BY <1>6 DEF StartRun
<1>7. QED
  BY <1>1, <1>2, <1>3, <1>4, <1>5, <1>6 DEF OnboardingNext

\* The run under way is of one merchant and of one kind to its end.
LEMMA RunAfterAll ==
  ASSUME IInv, OnboardingNext
  PROVE  \/ run' = None
         \/ /\ run # None /\ run'.merchant = run.merchant /\ run'.offline = run.offline
            /\ cache' = cache
         \/ /\ run'.offline => cache[run'.merchant] = None
            /\ cache' = cache
<1>1. CASE \E m \in Merchants, offline \in BOOLEAN : StartRun(m, offline)
  BY <1>1 DEF StartRun, NeedsOnboarding
<1>2. CASE Replay \/ FetchLive
  <2>1. run # None /\ RunShape(run)
    BY <1>2 DEF Replay, FetchLive, IInv, Shaped
  <2>2. PICK url, page : WithPage(url, page)
    BY <1>2 DEF Replay, FetchLive
  <2>3. run' # None => \E raws \in Extractions(page) : GoesOnWith(raws, url)
    BY <2>1, <2>2, PageRead
  <2>4. run' # None => cache' = cache
    BY <2>2 DEF WithPage
  <2>5. QED
    BY <2>1, <2>3, <2>4 DEF GoesOnWith
<1>3. CASE ObtainKey
  <2>1. run # None /\ RunShape(run) /\ cache' = cache
    BY <1>3 DEF ObtainKey, IInv, Shaped
  <2>2. run' = None \/ \E kid : run' = WithKey(run, "catalog", kid)
    BY <1>3 DEF ObtainKey, WithKey
  <2>3. QED
    BY <2>1, <2>2, RunGoesOn
<1>4. CASE WriteFile
  <2>1. /\ run # None /\ RunShape(run) /\ cache' = cache
        /\ run' = [run EXCEPT !.phase = IF run.phase = "catalog" THEN "keys" ELSE "written"]
    BY <1>4 DEF WriteFile, IInv, Shaped
  <2>2. QED
    BY <2>1 DEF RunShape
<1>5. CASE FinishRun \/ Crash \/ BuyerRestarts \/ \E m \in Merchants : LoseKey(m)
  BY <1>5 DEF FinishRun, Crash, BuyerRestarts, LoseKey
<1>6. QED
  BY <1>1, <1>2, <1>3, <1>4, <1>5 DEF OnboardingNext

LEMMA ShownOnboards ==
  ASSUME IInv, ShownInv, Onboards PROVE ShownInv'
<1>1. /\ OnboardingNext
      /\ shown' = IF cache' = NoCache THEN [m \in Merchants |-> None] ELSE shown
  BY DEF Onboards
<1>2. run' # None /\ run'.offline => cache'[run'.merchant] = None
  BY <1>1, RunAfterAll DEF ShownInv
<1>3. CASE cache' = NoCache
  BY <1>1, <1>2, <1>3 DEF ShownInv
<1>4. CASE cache' # NoCache
  <2>1. shown' = shown
    BY <1>1, <1>4
  <2>2. ASSUME NEW m \in Merchants, shown[m] # None PROVE cache'[m] = cache[m]
    BY <1>1, <1>4, <2>2, CacheAfterAll DEF ShownInv
  <2>3. QED
    BY <1>2, <2>1, <2>2 DEF ShownInv
<1>5. QED
  BY <1>3, <1>4


LEMMA CachedIsComparable ==
  ASSUME CatalogInv, NEW m \in Merchants, cache[m] # None
  PROVE  Comparable(cache[m].catalog) /\ IsFiniteSet(DOMAIN cache[m].catalog)
BY DEF CatalogInv, IsCatalog, Comparable

LEMMA NegotiateIsTrue ==
  ASSUME CatalogInv, ShownInv, NEW m \in Merchants, NEW intent, NEW asksItems \in BOOLEAN,
         NEW skus, WebNegotiate(m, intent, asksItems, skus)
  PROVE  ShownInv' /\ WebTellsTheTruth'
<1>1. /\ cache[m] # None /\ cache' = cache /\ run = None /\ run' = None
      /\ skus # {} => asksItems
  BY DEF WebNegotiate, Idle, onboardingVars
<1>2. CASE Agent(EndpointOf(m), 1)!MatchingItems(intent) = {}
  <2>1. result' = [kind |-> "error"] /\ shown' = shown
    BY <1>2 DEF WebNegotiate
  <2>2. QED
    BY <1>1, <2>1 DEF ShownInv, WebTellsTheTruth
<1>3. CASE Agent(EndpointOf(m), 1)!MatchingItems(intent) # {}
  <2>1. /\ result' = Page(m, intent, asksItems, skus)
        /\ shown' = [shown EXCEPT ![m] = PricesOf(cache[m].catalog)]
    BY <1>3 DEF WebNegotiate, PricesOf
  <2>2. ShownInv'
    BY <1>1, <2>1 DEF ShownInv
  <2>3. /\ result'.kind = "page" /\ result'.merchant = m /\ result'.intent = intent
        /\ result'.outcome = "APPROVED" => FitsThePage(result'.cart, m, intent)
        /\ result'.alternative # None =>
             /\ ~(SkusIn(result'.alternative) \subseteq SkusIn(result'.cart))
             /\ result'.alternative_outcome = "APPROVED" =>
                  FitsThePage(result'.alternative, m, intent)
    BY <1>1, <1>3, <2>1, CachedIsComparable, PageIsTrue
  <2>4. \A envelope : FitsThePage(envelope, m, intent)' <=> FitsThePage(envelope, m, intent)
    BY <1>1 DEF FitsThePage
  <2>5. WebTellsTheTruth'
    BY <2>3, <2>4 DEF WebTellsTheTruth
  <2>6. QED
    BY <2>2, <2>5
<1>4. QED
  BY <1>2, <1>3

\* The elements of a finite set, in a sequence.
LEMMA SetToSeqElements ==
  ASSUME NEW S, IsFiniteSet(S)
  PROVE  /\ DOMAIN SetToSeq(S) = 1..Cardinality(S)
         /\ \A i \in DOMAIN SetToSeq(S) : SetToSeq(S)[i] \in S
         /\ \A i, j \in DOMAIN SetToSeq(S) : SetToSeq(S)[i] = SetToSeq(S)[j] => i = j
         /\ Cardinality(S) \in Nat
<1>1. PICK f \in Bijection(1..Cardinality(S), S) : TRUE
  BY FS_CardinalityType DEF ExistsBijection
<1>2. f \in [1..Cardinality(S) -> S] /\ IsInjective(f)
  BY <1>1 DEF Bijection, Injection, IsInjective
<1>3. SetToSeq(S) \in [1..Cardinality(S) -> S] /\ IsInjective(SetToSeq(S))
  BY <1>2 DEF SetToSeq
<1>4. QED
  BY <1>3, FS_CardinalityType DEF IsInjective

LEMMA ExecuteIsTrue ==
  ASSUME CatalogInv, ShownInv, NEW m \in Merchants, NEW selected, WebExecute(m, selected)
  PROVE  ShownInv' /\ WebTellsTheTruth'
<1> DEFINE endpoint == EndpointOf(m)
           lines == SelectedLines(endpoint, selected)
           known == DOMAIN selected \cap DOMAIN endpoint.entries
           found == SetToSeq(known)
<1>1. cache[m] # None /\ cache' = cache /\ run' = run /\ shown' = shown
  BY DEF WebExecute, onboardingVars
<1>2. ShownInv'
  BY <1>1 DEF ShownInv
<1>3. endpoint.entries = cache[m].catalog
  BY DEF EndpointOf
<1>4. \A i \in DOMAIN found : found[i] \in DOMAIN cache[m].catalog
  <2>1. IsFiniteSet(known)
    BY <1>1, <1>3, CachedIsComparable, FS_Subset
  <2> HIDE DEF known
  <2>2. \A i \in DOMAIN found : found[i] \in known
    BY <2>1, SetToSeqElements
  <2>3. QED
    BY <1>3, <2>2 DEF known
<1>5. ASSUME NEW i \in DOMAIN lines
      PROVE  /\ lines[i].sku \in DOMAIN cache[m].catalog
             /\ lines[i].unit_price_paise = cache[m].catalog[lines[i].sku].price_paise
  <2>1. /\ i \in DOMAIN found
        /\ lines[i] = [Agent(endpoint, 1)!ItemLine(found[i], FALSE)
                         EXCEPT !.quantity = selected[found[i]]]
    BY DEF SelectedLines
  <2> HIDE DEF found, lines
  <2>2. lines[i].sku = found[i] /\ lines[i].unit_price_paise = endpoint.entries[found[i]].price_paise
    BY <2>1 DEF Agent!ItemLine
  <2>3. QED
    BY <1>3, <1>4, <2>1, <2>2
<1>6. CASE lines = <<>>
  <2>1. result' = [kind |-> "error"]
    BY <1>6 DEF WebExecute
  <2>2. QED
    BY <1>2, <2>1 DEF WebTellsTheTruth
<1>7. CASE lines # <<>>
  <2>1. result' = [kind |-> "executed", merchant |-> m,
                   cart |-> ServerCart(endpoint, lines, "exec-hash")]
    BY <1>7 DEF WebExecute
  <2> HIDE DEF lines, endpoint
  <2>2. /\ result'.kind = "executed" /\ result'.merchant = m
        /\ LinesOf(result'.cart.payload) = {lines[i] : i \in DOMAIN lines}
    BY <2>1, ServerCartLines
  <2>3. \A line \in LinesOf(result'.cart.payload) :
          /\ line.sku \in DOMAIN cache[m].catalog
          /\ line.unit_price_paise = cache[m].catalog[line.sku].price_paise
    BY <1>5, <2>2
  <2>4. shown[m] # None => shown[m] = PricesOf(cache[m].catalog)
    BY DEF ShownInv
  <2>5. shown[m] # None => \A sku \in DOMAIN cache[m].catalog :
          sku \in DOMAIN shown[m] /\ shown[m][sku] = cache[m].catalog[sku].price_paise
    BY <2>4 DEF PricesOf
  <2>6. WebTellsTheTruth'
    BY <1>1, <2>2, <2>3, <2>5 DEF WebTellsTheTruth
  <2>7. QED
    BY <1>2, <2>6
<1>8. QED
  BY <1>6, <1>7

LEMMA WebInit == ASSUME MarketInit PROVE ShownInv /\ WebTellsTheTruth
BY DEF MarketInit, OnboardingInit, ShownInv, WebTellsTheTruth

LEMMA WebStep ==
  ASSUME IInv, CatalogInv, ShownInv, WebTellsTheTruth, [MarketNext]_marketVars
  PROVE  ShownInv' /\ WebTellsTheTruth'
<1>1. CASE Onboards
  <2>1. result' = None
    BY <1>1 DEF Onboards
  <2>2. QED
    BY <1>1, <2>1, ShownOnboards DEF WebTellsTheTruth
<1>2. CASE \E intent \in Drafts : Shop(intent)
  <2>1. /\ result'.kind = "shopped" /\ UNCHANGED <<run, cache, shown>>
    BY <1>2 DEF Shop, onboardingVars
  <2>2. QED
    BY <2>1 DEF ShownInv, WebTellsTheTruth
<1>3. CASE \E m \in Onboarded : \E intent \in IntentsOf(m), asksItems \in BOOLEAN,
             skus \in SUBSET DOMAIN cache[m].catalog : WebNegotiate(m, intent, asksItems, skus)
  BY <1>3, NegotiateIsTrue DEF Onboarded
<1>4. CASE \E m \in Onboarded, skus \in SUBSET UNION {DOMAIN cache[n].catalog : n \in Onboarded} :
             \E selected \in [skus -> Quantities] : WebExecute(m, selected)
  BY <1>4, ExecuteIsTrue DEF Onboarded
<1>5. CASE Answered
  BY <1>5 DEF Answered, onboardingVars, ShownInv, WebTellsTheTruth
<1>6. CASE UNCHANGED marketVars
  <2>1. UNCHANGED <<run, cache, shown, result>>
    BY <1>6 DEF marketVars, onboardingVars
  <2>2. QED
    BY <2>1 DEF ShownInv, WebTellsTheTruth, FitsThePage
<1>7. QED
  BY <1>1, <1>2, <1>3, <1>4, <1>5, <1>6 DEF MarketNext

\* What a page calls approved costs what the merchant publishes and fits the
\* intent, an alternative is one, and a payment is of the prices shown.
THEOREM PagesTellTheTruth == ASSUME OnboardingAssumption PROVE Spec => []WebTellsTheTruth
<1>1. MarketInit => ShownInv /\ WebTellsTheTruth
  BY WebInit
<1>2. IInv /\ ProvenanceInv /\ ShownInv /\ WebTellsTheTruth /\ [MarketNext]_marketVars
        => ShownInv' /\ WebTellsTheTruth'
  BY WebStep DEF ProvenanceInv
<1>3. QED
  BY <1>1, <1>2, Invariance, Provenance, PTL DEF Spec

-----------------------------------------------------------------------------
(* Scores are fractions, and the order of the ranking is one. *)

\* A product with a factor that is not negative keeps the order.
LEMMA TimesKeepsOrder ==
  ASSUME NEW a \in Int, NEW b \in Int, NEW c \in Int, a <= b, 0 <= c
  PROVE  a * c <= b * c
OBVIOUS

LEMMA TimesKeepsStrictOrder ==
  ASSUME NEW a \in Int, NEW b \in Int, NEW c \in Int, 0 < c
  PROVE  a < b <=> a * c < b * c
OBVIOUS

LEMMA Swapped ==
  ASSUME NEW a \in Int, NEW b \in Int, NEW c \in Int
  PROVE  (a * b) * c = (a * c) * b /\ (a * b) * c = (b * c) * a
OBVIOUS

\* Fractions are transitively ordered, strictly if either step is strict.
LEMMA FractionsAreOrdered ==
  ASSUME NEW a \in Int, NEW b \in Int, NEW c \in Int,
         NEW p \in Int, NEW q \in Int, NEW r \in Int, 0 < p, 0 < q, 0 < r,
         a * q >= b * p, b * r >= c * q
  PROVE  /\ a * r >= c * p
         /\ a * q > b * p \/ b * r > c * q => a * r > c * p
<1>1. (a * q) * r >= (b * p) * r /\ (a * q > b * p => (a * q) * r > (b * p) * r)
  BY TimesKeepsOrder, TimesKeepsStrictOrder
<1>2. (b * r) * p >= (c * q) * p /\ (b * r > c * q => (b * r) * p > (c * q) * p)
  BY TimesKeepsOrder, TimesKeepsStrictOrder
<1>3. /\ (a * q) * r = (a * r) * q /\ (b * p) * r = (b * r) * p
      /\ (c * q) * p = (c * p) * q
  BY Swapped
<1>4. (a * r) * q >= (c * p) * q
      /\ (a * q > b * p \/ b * r > c * q => (a * r) * q > (c * p) * q)
  <2> DEFINE u == (a * q) * r
             v == (b * p) * r
             w == (c * q) * p
  <2>1. u \in Int /\ v \in Int /\ w \in Int
    OBVIOUS
  <2>2. u >= v /\ v >= w /\ (a * q > b * p => u > v) /\ (b * r > c * q => v > w)
    BY <1>1, <1>2, <1>3
  <2>3. u = (a * r) * q /\ w = (c * p) * q
    BY <1>3
  <2> HIDE DEF u, v, w
  <2>4. u >= w /\ (a * q > b * p \/ b * r > c * q => u > w)
    BY <2>1, <2>2
  <2>5. QED
    BY <2>3, <2>4
<1>5. a * r \in Int /\ c * p \in Int
  OBVIOUS
<1>6. QED
  BY <1>4, <1>5, TimesKeepsOrder, TimesKeepsStrictOrder

\* A target, a candidate the ranking can compare, and its price.
HasTerms(intent) == intent.target_price_paise \in Nat \cup {None}

IsRanked(c) == c.total_paise \in Nat /\ c.sku \in Nat /\ c.in_stock = TRUE

TargetOf(intent) == IF HasTarget(intent) THEN intent.target_price_paise ELSE 1

\* The price a score is made of, on top of the reference price.
ScalePrice(c) == Reference + GreaterOf(c.total_paise, 1)

NearPoints(c, intent) ==
  IF HasTarget(intent) THEN 30 * Nearness(c.total_paise, TargetOf(intent)) ELSE 0

Whole(c, intent) == IF BrandMatches(c, intent) THEN 70 ELSE 20

LEMMA ScoreParts ==
  ASSUME NEW c, NEW intent, IsRanked(c), HasTerms(intent)
  PROVE  /\ Score(c, intent)[1] =
              (Whole(c, intent) * TargetOf(intent) + NearPoints(c, intent)) * ScalePrice(c)
                + 5 * Reference * TargetOf(intent)
         /\ Score(c, intent)[2] = TargetOf(intent) * ScalePrice(c)
         /\ TargetOf(intent) \in Nat \ {0}
         /\ ScalePrice(c) \in Nat /\ ScalePrice(c) > Reference
         /\ NearPoints(c, intent) \in 0..(30 * TargetOf(intent))
<1>1. TargetOf(intent) \in Nat \ {0}
  BY DEF TargetOf, HasTarget, HasTerms
<1>2. GreaterOf(c.total_paise, 1) \in Nat \ {0}
  BY DEF GreaterOf, IsRanked
<1>3. ScalePrice(c) \in Nat /\ ScalePrice(c) > Reference
  BY <1>2, ShoppingAssumption DEF ScalePrice
<1>4. NearPoints(c, intent) \in 0..(30 * TargetOf(intent))
  <2>1. c.total_paise \in Nat
    BY DEF IsRanked
  <2>2. Nearness(c.total_paise, TargetOf(intent)) \in 0..TargetOf(intent)
    <3> DEFINE t == TargetOf(intent)
               p == c.total_paise
    <3> HIDE DEF t, p
    <3>1. t \in Nat /\ p \in Nat
      BY <1>1, <2>1 DEF t, p
    <3>2. Distance(p, t) \in Nat
      BY <3>1 DEF Distance
    <3>3. Nearness(p, t) \in 0..t
      BY <3>1, <3>2 DEF Nearness, GreaterOf
    <3>4. QED
      BY <3>3 DEF t, p
  <2> HIDE DEF IsRanked
  <2>3. QED
    BY <1>1, <2>2 DEF NearPoints
<1>5. Whole(c, intent) = (IF BrandMatches(c, intent) THEN 50 ELSE 0)
                           + (IF c.in_stock THEN 20 ELSE 0)
  BY DEF Whole, IsRanked
<1>6. NearPoints(c, intent) =
        IF HasTarget(intent) THEN 30 * Nearness(c.total_paise, TargetOf(intent)) ELSE 0
  BY DEF NearPoints
<1>7. Score(c, intent) =
        << (Whole(c, intent) * TargetOf(intent) + NearPoints(c, intent)) * ScalePrice(c)
             + 5 * Reference * TargetOf(intent),
           TargetOf(intent) * ScalePrice(c) >>
  BY <1>5, <1>6, Zenon DEF Score, TargetOf, ScalePrice
<1>8. QED
  BY <1>1, <1>3, <1>4, <1>7


\* The cross-multiplied scores of two candidates; RankedBefore compares them.
Cross(c, d, intent) == Score(c, intent)[1] * Score(d, intent)[2]

LEMMA ScoresAreNumbers ==
  ASSUME NEW c, NEW intent, IsRanked(c), HasTerms(intent)
  PROVE  Score(c, intent)[1] \in Int /\ Score(c, intent)[2] \in Nat \ {0}
<1> DEFINE w == Whole(c, intent)
           t == TargetOf(intent)
           n == NearPoints(c, intent)
           s == ScalePrice(c)
<1>1. w \in Nat
  BY DEF Whole
<1>2. /\ Score(c, intent)[1] = (w * t + n) * s + 5 * Reference * t
      /\ Score(c, intent)[2] = t * s
      /\ t \in Nat \ {0} /\ s \in Nat \ {0} /\ n \in Nat
  BY ScoreParts, ShoppingAssumption
<1> HIDE DEF w, t, n, s
<1>3. (w * t + n) * s + 5 * Reference * t \in Int
  BY <1>1, <1>2, ShoppingAssumption
<1>4. t * s \in Nat \ {0}
  BY <1>2
<1>5. QED
  BY <1>2, <1>3, <1>4

LEMMA RankedMeans ==
  ASSUME NEW c, NEW d, NEW intent
  PROVE  RankedBefore(c, d, intent) <=>
           \/ Cross(c, d, intent) > Cross(d, c, intent)
           \/ /\ Cross(c, d, intent) = Cross(d, c, intent)
              /\ \/ c.total_paise < d.total_paise
                 \/ c.total_paise = d.total_paise /\ c.sku < d.sku
BY DEF RankedBefore, Cross

LEMMA CrossIsANumber ==
  ASSUME NEW c, NEW d, NEW intent, IsRanked(c), IsRanked(d), HasTerms(intent)
  PROVE  Cross(c, d, intent) \in Int
BY ScoresAreNumbers DEF Cross

\* No candidate is ranked before itself.
LEMMA NotBeforeItself ==
  ASSUME NEW c, NEW intent, IsRanked(c), HasTerms(intent)
  PROVE  ~RankedBefore(c, c, intent)
<1>1. Cross(c, c, intent) \in Int /\ c.total_paise \in Nat /\ c.sku \in Nat
  BY CrossIsANumber DEF IsRanked
<1>2. /\ ~(Cross(c, c, intent) > Cross(c, c, intent))
      /\ ~(c.total_paise < c.total_paise) /\ ~(c.sku < c.sku)
  BY <1>1
<1>3. QED
  BY <1>2, RankedMeans

LEMMA RankingIsTransitive ==
  ASSUME NEW c, NEW d, NEW e, NEW intent, IsRanked(c), IsRanked(d), IsRanked(e),
         HasTerms(intent), RankedBefore(c, d, intent), RankedBefore(d, e, intent)
  PROVE  RankedBefore(c, e, intent)
<1>1. /\ Cross(c, d, intent) \in Int /\ Cross(d, c, intent) \in Int
      /\ Cross(d, e, intent) \in Int /\ Cross(e, d, intent) \in Int
      /\ Cross(c, e, intent) \in Int /\ Cross(e, c, intent) \in Int
  BY CrossIsANumber
<1>2. /\ Cross(c, d, intent) >= Cross(d, c, intent)
      /\ Cross(d, e, intent) >= Cross(e, d, intent)
  BY <1>1, RankedMeans
<1>3. /\ Cross(c, e, intent) >= Cross(e, c, intent)
      /\ Cross(c, d, intent) > Cross(d, c, intent) \/ Cross(d, e, intent) > Cross(e, d, intent)
           => Cross(c, e, intent) > Cross(e, c, intent)
  <2>1. /\ Score(c, intent)[1] \in Int /\ Score(c, intent)[2] \in Int /\ 0 < Score(c, intent)[2]
        /\ Score(d, intent)[1] \in Int /\ Score(d, intent)[2] \in Int /\ 0 < Score(d, intent)[2]
        /\ Score(e, intent)[1] \in Int /\ Score(e, intent)[2] \in Int /\ 0 < Score(e, intent)[2]
    BY ScoresAreNumbers
  <2> DEFINE a == Score(c, intent)[1]
             b == Score(d, intent)[1]
             f == Score(e, intent)[1]
             p == Score(c, intent)[2]
             q == Score(d, intent)[2]
             r == Score(e, intent)[2]
  <2>2. a * q >= b * p /\ b * r >= f * q
    BY <1>2 DEF Cross
  <2>3. a \in Int /\ b \in Int /\ f \in Int /\ p \in Int /\ q \in Int /\ r \in Int
        /\ 0 < p /\ 0 < q /\ 0 < r
    BY <2>1
  <2> HIDE DEF a, b, f, p, q, r
  <2>4. /\ a * r >= f * p
        /\ a * q > b * p \/ b * r > f * q => a * r > f * p
    BY <2>2, <2>3, FractionsAreOrdered
  <2>5. QED
    BY <2>4 DEF Cross, a, b, f, p, q, r
<1>4. c.total_paise \in Nat /\ d.total_paise \in Nat /\ e.total_paise \in Nat
      /\ c.sku \in Nat /\ d.sku \in Nat /\ e.sku \in Nat
  BY DEF IsRanked
<1>5. CASE Cross(c, e, intent) > Cross(e, c, intent)
  BY <1>5, RankedMeans
<1>6. CASE ~(Cross(c, e, intent) > Cross(e, c, intent))
  <2>1. Cross(c, e, intent) = Cross(e, c, intent)
    BY <1>1, <1>3, <1>6
  <2>2. /\ Cross(c, d, intent) = Cross(d, c, intent)
        /\ Cross(d, e, intent) = Cross(e, d, intent)
    BY <1>1, <1>2, <1>3, <1>6
  <2>3. /\ c.total_paise < d.total_paise \/ (c.total_paise = d.total_paise /\ c.sku < d.sku)
        /\ d.total_paise < e.total_paise \/ (d.total_paise = e.total_paise /\ d.sku < e.sku)
    BY <1>1, <2>2, RankedMeans
  <2>4. c.total_paise < e.total_paise \/ (c.total_paise = e.total_paise /\ c.sku < e.sku)
    BY <1>4, <2>3
  <2>5. QED
    BY <2>1, <2>4, RankedMeans
<1>7. QED
  BY <1>5, <1>6

\* The preferred brand outweighs nearness and cheapness together.
LEMMA BrandDecides ==
  ASSUME NEW c, NEW d, NEW intent, IsRanked(c), IsRanked(d), HasTerms(intent),
         BrandMatches(c, intent), ~BrandMatches(d, intent)
  PROVE  RankedBefore(c, d, intent)
<1> DEFINE t == TargetOf(intent)
           m == NearPoints(c, intent)
           n == NearPoints(d, intent)
           a == ScalePrice(c)
           b == ScalePrice(d)
<1>1. /\ Score(c, intent)[1] = (70 * t + m) * a + 5 * Reference * t
      /\ Score(c, intent)[2] = t * a
  BY ScoreParts DEF Whole
<1>2. /\ Score(d, intent)[1] = (20 * t + n) * b + 5 * Reference * t
      /\ Score(d, intent)[2] = t * b
  BY ScoreParts DEF Whole
<1>3. /\ t \in Nat \ {0} /\ a \in Nat /\ a > Reference /\ b \in Nat /\ b > Reference
      /\ m \in Nat /\ n \in 0..(30 * t)
  BY ScoreParts
<1> HIDE DEF t, m, n, a, b
<1>4. Reference \in Nat \ {0}
  BY ShoppingAssumption
<1>5. ((70 * t + m) * a + 5 * Reference * t) * b > ((20 * t + n) * b + 5 * Reference * t) * a
  <2> DEFINE p == a * b
  <2>1. p \in Nat /\ a * b = p /\ b * a = p
    BY <1>3
  <2>2. ((70 * t + m) * a) * b = (70 * t + m) * p /\ ((20 * t + n) * b) * a = (20 * t + n) * p
    BY <1>3
  <2>3. (70 * t + m) * p >= (70 * t) * p /\ (50 * t) * p >= (20 * t + n) * p
    <3>1. p \in Int /\ 0 <= p
      BY <2>1
    <3> HIDE DEF p
    <3>2. 70 * t \in Int /\ 70 * t + m \in Int /\ 50 * t \in Int /\ 20 * t + n \in Int
          /\ 70 * t <= 70 * t + m /\ 20 * t + n <= 50 * t
      BY <1>3
    <3>3. (70 * t) * p <= (70 * t + m) * p
      BY <3>1, <3>2, TimesKeepsOrder
    <3>4. (20 * t + n) * p <= (50 * t) * p
      BY <3>1, <3>2, TimesKeepsOrder
    <3>5. (70 * t) * p \in Int /\ (70 * t + m) * p \in Int /\ (20 * t + n) * p \in Int
          /\ (50 * t) * p \in Int
      BY <3>1, <3>2
    <3>6. QED
      BY <3>3, <3>4, <3>5
  <2>4. (20 * t) * p > (5 * Reference * t) * a
    <3>1. p >= (Reference + 1) * a
      <4>1. Reference + 1 \in Int /\ Reference + 1 <= b
        BY <1>3, <1>4
      <4>2. (Reference + 1) * a <= b * a
        BY <1>3, <4>1, TimesKeepsOrder
      <4>3. QED
        BY <1>3, <1>4, <4>2
    <3>2. (Reference + 1) * a > Reference * a
      BY <1>3, <1>4
    <3>3. p > Reference * a /\ Reference * a \in Nat
      BY <1>3, <1>4, <2>1, <3>1, <3>2
    <3> DEFINE q == Reference * a
    <3>4. (5 * Reference * t) * a = (5 * t) * q
      BY <1>3, <1>4
    <3> HIDE DEF p, q
    <3>5. (5 * t) * q <= (5 * t) * p
      BY <1>3, <2>1, <3>3 DEF q
    <3>6. (5 * t) * p < (20 * t) * p
      BY <1>3, <2>1, <3>3 DEF q
    <3>7. QED
      BY <1>3, <2>1, <3>3, <3>4, <3>5, <3>6 DEF q
  <2>5. (70 * t) * p = (50 * t) * p + (20 * t) * p
    BY <1>3, <2>1
  <2>6. (5 * Reference * t) * b \in Nat /\ (5 * Reference * t) * a \in Nat
    BY <1>3, <1>4
  <2>7. /\ ((70 * t + m) * a + 5 * Reference * t) * b
             = ((70 * t + m) * a) * b + (5 * Reference * t) * b
        /\ ((20 * t + n) * b + 5 * Reference * t) * a
             = ((20 * t + n) * b) * a + (5 * Reference * t) * a
    BY <1>3, <1>4
  <2> HIDE DEF p
  <2>8. /\ (70 * t + m) * p \in Int /\ (20 * t + n) * p \in Int
        /\ (70 * t) * p \in Int /\ (50 * t) * p \in Int /\ (20 * t) * p \in Int
    BY <1>3, <2>1
  <2>9. QED
    BY <2>2, <2>3, <2>4, <2>5, <2>6, <2>7, <2>8
<1>6. Cross(c, d, intent) > Cross(d, c, intent)
  <2> DEFINE x == (70 * t + m) * a + 5 * Reference * t
             y == (20 * t + n) * b + 5 * Reference * t
  <2>1. x \in Int /\ y \in Int
    BY <1>3, <1>4
  <2>2. x * b > y * a
    BY <1>5
  <2> HIDE DEF x, y
  <2>3. x * b \in Int /\ y * a \in Int
    BY <1>3, <2>1
  <2>4. (y * a) * t < (x * b) * t
    BY <1>3, <2>2, <2>3, TimesKeepsStrictOrder
  <2>5. x * (t * b) = (x * b) * t /\ y * (t * a) = (y * a) * t
    BY <1>3, <2>1
  <2>6. QED
    BY <1>1, <1>2, <2>4, <2>5 DEF Cross, x, y
<1>7. QED
  BY <1>6, RankedMeans

\* Of two with as much of the brand, one that is cheaper and no further from
\* the target is ranked first.
LEMMA CheaperDecides ==
  ASSUME NEW c, NEW d, NEW intent, IsRanked(c), IsRanked(d), HasTerms(intent),
         BrandMatches(c, intent) <=> BrandMatches(d, intent),
         c.total_paise < d.total_paise,
         NearPoints(c, intent) >= NearPoints(d, intent)
  PROVE  RankedBefore(c, d, intent)
<1> DEFINE w == Whole(c, intent)
           t == TargetOf(intent)
           m == NearPoints(c, intent)
           n == NearPoints(d, intent)
           a == ScalePrice(c)
           b == ScalePrice(d)
<1>1. w \in Nat /\ Whole(d, intent) = w
  BY DEF Whole
<1>2. /\ Score(c, intent)[1] = (w * t + m) * a + 5 * Reference * t
      /\ Score(c, intent)[2] = t * a
      /\ Score(d, intent)[1] = (w * t + n) * b + 5 * Reference * t
      /\ Score(d, intent)[2] = t * b
  BY <1>1, ScoreParts
<1>3. /\ t \in Nat \ {0} /\ a \in Nat /\ b \in Nat /\ m \in Nat /\ n \in Nat /\ m >= n
  BY ScoreParts
<1>4. a <= b
  BY ShoppingAssumption DEF ScalePrice, GreaterOf, IsRanked
<1> HIDE DEF w, t, m, n, a, b
<1>5. Reference \in Nat \ {0}
  BY ShoppingAssumption
<1> DEFINE u == w * t + m
           v == w * t + n
           k == 5 * Reference * t
<1>6. u \in Nat /\ v \in Nat /\ v <= u /\ k \in Nat
  BY <1>1, <1>3, <1>5
<1>7. Score(c, intent)[1] = u * a + k /\ Score(d, intent)[1] = v * b + k
  BY <1>2
<1> HIDE DEF u, v, k
<1>8. (u * a + k) * b >= (v * b + k) * a
  <2>1. v * (a * b) <= u * (a * b)
    <3>1. a * b \in Int /\ 0 <= a * b
      BY <1>3
    <3>2. QED
      BY <1>6, <3>1, TimesKeepsOrder
  <2>2. a * k <= b * k
    BY <1>3, <1>4, <1>6, TimesKeepsOrder
  <2>3. (u * a + k) * b = u * (a * b) + b * k /\ (v * b + k) * a = v * (a * b) + a * k
    BY <1>3, <1>6
  <2>4. u * (a * b) \in Int /\ v * (a * b) \in Int /\ a * k \in Int /\ b * k \in Int
    BY <1>3, <1>6
  <2>5. QED
    BY <2>1, <2>2, <2>3, <2>4
<1>9. Cross(c, d, intent) >= Cross(d, c, intent)
  <2> DEFINE x == u * a + k
             y == v * b + k
  <2>1. x \in Int /\ y \in Int /\ x * b >= y * a
    BY <1>3, <1>6, <1>8
  <2> HIDE DEF x, y
  <2>2. x * b \in Int /\ y * a \in Int
    BY <1>3, <2>1
  <2>3. (y * a) * t <= (x * b) * t
    BY <1>3, <2>1, <2>2, TimesKeepsOrder
  <2>4. x * (t * b) = (x * b) * t /\ y * (t * a) = (y * a) * t
    BY <1>3, <2>1
  <2>5. QED
    BY <1>2, <1>7, <2>3, <2>4 DEF Cross, x, y
<1>10. QED
  BY <1>9, CrossIsANumber, RankedMeans


\* A least element of a finite, non-empty set of numbered candidates: one with
\* as few as can be before it.
LEMMA SomeAreFirst ==
  ASSUME NEW candidates, NEW intent, HasTerms(intent),
         IsFiniteSet(DOMAIN candidates), DOMAIN candidates # {},
         \A i \in DOMAIN candidates : IsRanked(candidates[i])
  PROVE  \E i \in DOMAIN candidates : \A j \in DOMAIN candidates :
           ~RankedBefore(candidates[j], candidates[i], intent)
<1> DEFINE D == DOMAIN candidates
           before(i) == {j \in D : RankedBefore(candidates[j], candidates[i], intent)}
           counts == {Cardinality(before(i)) : i \in D}
<1>1. \A i \in D : IsFiniteSet(before(i)) /\ Cardinality(before(i)) \in Nat
  BY FS_Subset, FS_CardinalityType
<1>2. counts \subseteq Nat /\ counts # {}
  BY <1>1
<1>3. PICK n \in counts : \A k \in counts : n <= k
  <2> HIDE DEF counts
  <2>1. QED
    BY <1>2, LeastNat
<1>4. PICK i \in D : Cardinality(before(i)) = n
  BY <1>3
<1>5. ASSUME NEW j \in D, RankedBefore(candidates[j], candidates[i], intent) PROVE FALSE
  <2>1. before(j) \subseteq before(i)
    <3>1. ASSUME NEW k \in D, RankedBefore(candidates[k], candidates[j], intent)
          PROVE  RankedBefore(candidates[k], candidates[i], intent)
      BY <1>5, <3>1, RankingIsTransitive
    <3>2. QED
      BY <3>1
  <2>2. j \in before(i) /\ j \notin before(j)
    BY <1>5, NotBeforeItself
  <2>3. Cardinality(before(j)) <= Cardinality(before(i))
        /\ Cardinality(before(j)) # Cardinality(before(i))
    <3>1. IsFiniteSet(before(i)) /\ before(j) \in SUBSET before(i) /\ before(j) # before(i)
      BY <1>1, <2>1, <2>2
    <3> HIDE DEF before
    <3>2. QED
      BY <3>1, FS_Subset
  <2>4. Cardinality(before(j)) \in counts /\ Cardinality(before(j)) \in Nat
    BY <1>1
  <2>5. n <= Cardinality(before(j)) /\ n \in Nat
    BY <1>2, <1>3, <2>4
  <2> HIDE DEF before, counts
  <2>6. QED
    BY <1>4, <2>3, <2>4, <2>5
<1>6. QED
  BY <1>5

\* The one ranked first is among the candidates, and none is before it.
LEMMA TopIsFirst ==
  ASSUME NEW candidates, NEW intent, HasTerms(intent), DOMAIN candidates \subseteq Nat,
         IsFiniteSet(DOMAIN candidates), DOMAIN candidates # {},
         \A i \in DOMAIN candidates : IsRanked(candidates[i])
  PROVE  \E i \in DOMAIN candidates :
           /\ TopRanked(candidates, intent) = candidates[i]
           /\ \A j \in DOMAIN candidates :
                ~RankedBefore(candidates[j], candidates[i], intent)
<1> DEFINE tops == {i \in DOMAIN candidates :
                      \A j \in DOMAIN candidates :
                        ~RankedBefore(candidates[j], candidates[i], intent)}
<1>1. tops # {} /\ tops \subseteq Nat
  BY SomeAreFirst
<1>2. Min(tops) \in tops
  <2> HIDE DEF tops
  <2>1. QED
    BY <1>1, LeastNat DEF Min
<1>3. TopRanked(candidates, intent) = candidates[Min(tops)]
  BY DEF TopRanked
<1>4. QED
  BY <1>2, <1>3

\* RowOf finds it again: merchants are told apart.
LEMMA RowOfFinds ==
  ASSUME NEW candidates, DOMAIN candidates \subseteq Nat, NEW i \in DOMAIN candidates,
         \A j, k \in DOMAIN candidates :
           candidates[j].merchant_id = candidates[k].merchant_id => j = k
  PROVE  RowOf(candidates, candidates[i]) = i
<1> DEFINE same == {j \in DOMAIN candidates :
                      /\ candidates[j].merchant_id = candidates[i].merchant_id
                      /\ candidates[j].sku = candidates[i].sku}
<1>1. same = {i}
  OBVIOUS
<1>2. Min({i}) = i
  BY DEF Min
<1>3. QED
  BY <1>1, <1>2 DEF RowOf

-----------------------------------------------------------------------------
(* The rows of shop_around. *)

\* The cart of an offer has one line, of an item, at its price or a paisa more.
LEMMA OfferedCart ==
  ASSUME NEW m, NEW intent, NEW envelope \in Offers(m, intent), envelope # None
  PROVE  \E x, line :
           /\ envelope.payload.lines = <<line>>
           /\ envelope.payload.total_paise = line.unit_price_paise * 1
                \/ envelope.payload.total_paise = line.unit_price_paise
           /\ line.sku = x /\ line.is_upsell = FALSE
           /\ line.unit_price_paise = cache[m].catalog[x].price_paise
                \/ line.unit_price_paise = cache[m].catalog[x].price_paise + 1
<1> DEFINE endpoint == EndpointOf(m)
           honest == HonestOffer(endpoint, intent)
           x == Agent(endpoint, 0)!Primary(intent)
           line == Agent(endpoint, 0)!ItemLine(x, FALSE)
<1>1. honest # None /\ envelope \in {honest, SurchargedOffer(endpoint, intent)}
  BY DEF Offers
<1>2. honest = Agent(endpoint, 0)!Proposal(intent, TRUE, Now, 0).cart_envelope
  BY <1>1 DEF HonestOffer
<1>3. Agent(endpoint, 0)!ProposedLine(intent, TRUE) = line
  BY DEF Agent!ProposedLine, Agent!MakesOffer
<1>4. honest = Agent(endpoint, 0)!SignedCart(line, intent, Now, 0 + 1)
  BY <1>2, <1>3 DEF Agent!Proposal
<1>5. line = [sku |-> x, category |-> endpoint.entries[x].category,
              unit_price_paise |-> endpoint.entries[x].price_paise, quantity |-> 1,
              attributes |-> endpoint.entries[x].attributes,
              is_substitute |-> FALSE, is_upsell |-> FALSE, provenance |-> "signed"]
  BY DEF Agent!ItemLine
<1> DEFINE cart == honest.payload
<1>6. cart = [mandate_id |-> 0 + 1, issued_at |-> Now, expires_at |-> Now + CartValidity,
              merchant_id |-> endpoint.merchant_id, merchant_kid |-> endpoint.kid,
              intent_hash |-> Agent(endpoint, 0)!Digest(intent), lines |-> <<line>>,
              subtotal_paise |-> line.unit_price_paise * line.quantity,
              tax_paise |-> 0, shipping_paise |-> 0,
              total_paise |-> line.unit_price_paise * line.quantity]
  <2> HIDE DEF line, honest
  <2>1. QED
    BY <1>4 DEF Agent!SignedCart, Agent!SignMandate
<1>7. endpoint.entries = cache[m].catalog
  BY DEF EndpointOf
<1>8. CASE envelope = honest
  <2>1. envelope.payload.lines = <<line>> /\ envelope.payload.total_paise = line.unit_price_paise * 1
    <3>1. cart.lines = <<line>> /\ cart.total_paise = line.unit_price_paise * line.quantity
      <4> HIDE DEF cart, line
      <4>1. QED
        BY <1>6
    <3> HIDE DEF line, x
    <3>2. line.quantity = 1
      BY <1>5
    <3>3. QED
      BY <1>8, <3>1, <3>2
  <2> HIDE DEF line, x
  <2>2. /\ line.sku = x /\ line.is_upsell = FALSE
        /\ line.unit_price_paise = cache[m].catalog[x].price_paise
    BY <1>5, <1>7
  <2>3. QED
    BY <2>1, <2>2
<1>9. CASE envelope = SurchargedOffer(endpoint, intent)
  <2> DEFINE dear == [cart.lines[1] EXCEPT !.unit_price_paise = @ + 1]
  <2>1. SurchargedOffer(endpoint, intent) =
          SignMandate([cart EXCEPT !.lines = <<dear>>,
                                   !.subtotal_paise = dear.unit_price_paise,
                                   !.total_paise = dear.unit_price_paise], endpoint.kid)
    BY DEF SurchargedOffer
  <2>2. cart.lines[1] = line
    <3> HIDE DEF cart, line
    <3>1. cart.lines = <<line>>
      BY <1>6
    <3>2. QED
      BY <3>1
  <2>3. dear.sku = x /\ dear.is_upsell = FALSE
        /\ dear.unit_price_paise = cache[m].catalog[x].price_paise + 1
    <3>1. dear = [line EXCEPT !.unit_price_paise = @ + 1]
      BY <2>2
    <3> HIDE DEF dear, line, x
    <3>2. QED
      BY <1>5, <1>7, <3>1
  <2>4. envelope.payload.lines = <<dear>> /\ envelope.payload.total_paise = dear.unit_price_paise
    <3> HIDE DEF dear, cart, line
    <3> DEFINE new == [cart EXCEPT !.lines = <<dear>>,
                                   !.subtotal_paise = dear.unit_price_paise,
                                   !.total_paise = dear.unit_price_paise]
    <3>1. new.lines = <<dear>> /\ new.total_paise = dear.unit_price_paise
      BY <1>6
    <3>2. envelope.payload = new
      BY <1>9, <2>1 DEF SignMandate
    <3> HIDE DEF new
    <3>3. QED
      BY <3>1, <3>2
  <2> HIDE DEF dear
  <2>5. QED
    BY <2>3, <2>4
<1>10. QED
  BY <1>1, <1>8, <1>9


\* What a row that is approved has: the cart of one item of the merchant's own
\* catalog, within the intent and the published prices.
LEMMA ApprovedRow ==
  ASSUME CatalogInv, NEW m \in Merchants, cache[m] # None, NEW intent,
         NEW envelope \in Offers(m, intent), NEW row,
         row = Row(EndpointOf(m), intent, envelope, Now), row.outcome = "APPROVED"
  PROVE  /\ row.merchant_id = m /\ row.envelope = envelope
         /\ Candidate(row).merchant_id = m /\ IsRanked(Candidate(row))
         /\ envelope.payload.merchant_id = m /\ MerchantAuthorized(intent, envelope.payload)
         /\ envelope.payload.total_paise <= intent.total_paise
         /\ \A line \in LinesOf(envelope.payload) :
              line.unit_price_paise <= cache[m].catalog[line.sku].price_paise
<1> DEFINE endpoint == EndpointOf(m)
           cart == envelope.payload
           ctx == ContextFor(endpoint, intent, envelope)
<1>1. row.merchant_id = m /\ row.envelope = envelope
      /\ row.outcome = IF envelope = None THEN "declined"
                       ELSE VerdictOn(endpoint, intent, envelope, Now).outcome
  BY DEF Row, EndpointOf
<1>2. envelope # None /\ VerdictOn(endpoint, intent, envelope, Now).outcome = "APPROVED"
  BY <1>1
<1>3. Evaluate(intent, cart, PermissivePolicy, ctx, Now).outcome = "APPROVED"
  BY <1>2 DEF VerdictOn
<1>4. /\ WithinBudget(intent, cart) /\ MerchantAuthorized(intent, cart)
      /\ CatalogPricesHonoured(cart, ctx) /\ CatalogItemsKnown(cart, ctx)
  <2> HIDE DEF cart, ctx
  <2>1. QED
    BY <1>3, NotRejectedMeans
<1>5. ctx.merchant_catalog.merchant_id = m /\ ctx.merchant_catalog.entries = cache[m].catalog
  BY DEF ContextFor, EndpointOf
<1> HIDE DEF ctx
<1>6. cart.merchant_id = m
  BY <1>4, <1>5 DEF CatalogItemsKnown, CatalogUsable
<1>7. \A line \in LinesOf(cart) :
        /\ line.sku \in DOMAIN cache[m].catalog
        /\ line.unit_price_paise <= cache[m].catalog[line.sku].price_paise
  BY <1>4, <1>5 DEF CatalogPricesHonoured, CatalogItemsKnown, Published
<1>8. PICK x, line :
        /\ cart.lines = <<line>>
        /\ cart.total_paise = line.unit_price_paise * 1
             \/ cart.total_paise = line.unit_price_paise
        /\ line.sku = x /\ line.is_upsell = FALSE
        /\ line.unit_price_paise = cache[m].catalog[x].price_paise
             \/ line.unit_price_paise = cache[m].catalog[x].price_paise + 1
  BY ZenonT(60), <1>2, OfferedCart
<1>9. x \in DOMAIN cache[m].catalog
  BY <1>7, <1>8 DEF LinesOf
<1>10. x \in Nat /\ cache[m].catalog[x].price_paise \in Nat
  BY <1>9, CachedIsComparable DEF Comparable
<1>11. cart.total_paise \in Nat
  BY <1>8, <1>10
<1>12. Candidate(row) = [merchant_id |-> m, sku |-> line.sku, attributes |-> line.attributes,
                         in_stock |-> TRUE, total_paise |-> cart.total_paise]
  <2> DEFINE lines == row.envelope.payload.lines
             plain == {i \in DOMAIN lines : ~lines[i].is_upsell}
             primary == IF plain = {} THEN lines[1] ELSE lines[Min(plain)]
  <2>1. Candidate(row) =
          [merchant_id |-> row.merchant_id, sku |-> primary.sku,
           attributes |-> primary.attributes, in_stock |-> TRUE,
           total_paise |-> row.envelope.payload.total_paise]
    BY DEF Candidate
  <2>2. lines = <<line>>
    BY <1>1, <1>8
  <2>3. plain = {1} /\ lines[1] = line
    <3> HIDE DEF lines
    <3>1. DOMAIN lines = {1} /\ lines[1] = line
      BY <2>2
    <3>2. QED
      BY <1>8, <3>1
  <2>4. Min({1}) = 1
    BY DEF Min
  <2>5. primary = line
    <3> HIDE DEF plain, lines
    <3>1. QED
      BY <2>3, <2>4
  <2> HIDE DEF primary
  <2>6. QED
    BY <1>1, <2>1, <2>5
<1>13. Candidate(row).merchant_id = m /\ IsRanked(Candidate(row))
  <2>1. /\ Candidate(row).merchant_id = m /\ Candidate(row).sku = line.sku
        /\ Candidate(row).in_stock = TRUE /\ Candidate(row).total_paise = cart.total_paise
    BY <1>12
  <2>2. QED
    BY <1>8, <1>10, <1>11, <2>1 DEF IsRanked
<1>14. QED
  BY <1>1, <1>4, <1>6, <1>7, <1>13 DEF WithinBudget

\* What a row of the comparison shows: what one onboarded merchant's cart came to.
IsRowFor(row, intent) ==
  \E m \in Onboarded : \E envelope \in Offers(m, intent) :
    row = Row(EndpointOf(m), intent, envelope, Now)

\* The row w is the winner's, and no approved row is ranked before it.
IsFirstRow(shopped, intent, w) ==
  /\ w \in DOMAIN shopped.rows
  /\ shopped.winner = shopped.rows[w] /\ shopped.rows[w].outcome = "APPROVED"
  /\ \A i \in DOMAIN shopped.rows : shopped.rows[i].outcome = "APPROVED" =>
       /\ IsRowFor(shopped.rows[i], intent)
       /\ ~RankedBefore(Candidate(shopped.rows[i]), Candidate(shopped.rows[w]), intent)

\* The winner, of the candidate no other is ranked before.
LEMMA WinnerIsFirst ==
  ASSUME OnboardingAssumption, MarketAssumption, CatalogInv, Onboarded # {},
         NEW intent \in Drafts,
         NEW envelopes, \A m \in Onboarded : envelopes[m] \in Offers(m, intent),
         NEW endpoints,
         endpoints = [i \in 1..Cardinality(Onboarded) |-> EndpointOf(SetToSeq(Onboarded)[i])],
         NEW shopped, shopped = ShopAround(endpoints, intent, envelopes, Now),
         shopped.winner # None
  PROVE  \E w : IsFirstRow(shopped, intent, w)
<1> DEFINE order == SetToSeq(Onboarded)
           rows == [i \in Tried(endpoints, intent) |->
                      Row(endpoints[i], intent, envelopes[endpoints[i].merchant_id], Now)]
           approved == {i \in DOMAIN rows : rows[i].outcome = "APPROVED"}
           candidates == [i \in approved |-> Candidate(rows[i])]
           best == TopRanked(candidates, intent)
<1>1. IsFiniteSet(Onboarded)
  <2>1. IsFiniteSet(Merchants) /\ Onboarded \in SUBSET Merchants
    BY DEF MarketAssumption, Onboarded
  <2>2. QED
    BY <2>1, FS_Subset
<1>2. /\ DOMAIN order = 1..Cardinality(Onboarded) /\ Cardinality(Onboarded) \in Nat
      /\ \A i \in DOMAIN order : order[i] \in Onboarded
      /\ \A i, j \in DOMAIN order : order[i] = order[j] => i = j
  BY <1>1, SetToSeqElements
<1>3. /\ shopped.rows = rows
      /\ shopped.winner = IF approved = {} THEN None ELSE rows[RowOf(candidates, best)]
  BY DEF ShopAround
<1> HIDE DEF order
<1>4. \A i \in DOMAIN order : endpoints[i] = EndpointOf(order[i])
                               /\ endpoints[i].merchant_id = order[i]
  BY <1>2 DEF order, EndpointOf
<1>5. Tried(endpoints, intent) \subseteq DOMAIN order
  BY <1>2 DEF Tried
<1>6. DOMAIN rows = Tried(endpoints, intent)
  OBVIOUS
<1>7. \A i \in DOMAIN rows :
        /\ i \in DOMAIN order
        /\ rows[i] = Row(EndpointOf(order[i]), intent, envelopes[order[i]], Now)
  BY <1>4, <1>5
<1> HIDE DEF rows
<1>8. ASSUME NEW i \in approved
      PROVE  /\ order[i] \in Onboarded /\ envelopes[order[i]] \in Offers(order[i], intent)
             /\ rows[i] = Row(EndpointOf(order[i]), intent, envelopes[order[i]], Now)
             /\ candidates[i] = Candidate(rows[i])
             /\ candidates[i].merchant_id = order[i] /\ IsRanked(candidates[i])
  <2>1. i \in DOMAIN rows /\ rows[i].outcome = "APPROVED" /\ candidates[i] = Candidate(rows[i])
    OBVIOUS
  <2>2. PICK m : m = order[i]
    OBVIOUS
  <2>3. m \in Onboarded /\ m \in Merchants /\ cache[m] # None
    BY <1>2, <1>7, <2>1, <2>2 DEF Onboarded
  <2>4. envelopes[m] \in Offers(m, intent) /\ rows[i] = Row(EndpointOf(m), intent, envelopes[m], Now)
    BY <1>7, <2>1, <2>2, <2>3
  <2>5. Candidate(rows[i]).merchant_id = m /\ IsRanked(Candidate(rows[i]))
    BY <2>1, <2>3, <2>4, ApprovedRow
  <2>6. QED
    BY <2>1, <2>2, <2>3, <2>4, <2>5
<1>9. approved # {} /\ shopped.winner = rows[RowOf(candidates, best)]
  <2> HIDE DEF approved, candidates, best
  <2>1. QED
    BY <1>3
<1>10. DOMAIN candidates = approved /\ approved \subseteq Nat /\ IsFiniteSet(approved)
  <2>1. approved \subseteq 1..Cardinality(Onboarded)
    BY <1>2, <1>7
  <2>2. IsFiniteSet(1..Cardinality(Onboarded))
    BY <1>2, FS_Interval
  <2>3. QED
    BY <1>2, <2>1, <2>2, FS_Subset
<1>11. HasTerms(intent)
  BY DEF MarketAssumption, HasTerms
<1>12. PICK w \in approved :
         /\ best = candidates[w]
         /\ \A j \in approved : ~RankedBefore(candidates[j], candidates[w], intent)
  <2>1. \A i \in DOMAIN candidates : IsRanked(candidates[i])
    BY <1>8, <1>10
  <2> HIDE DEF candidates, approved
  <2>2. QED
    BY <1>9, <1>10, <1>11, <2>1, TopIsFirst DEF best
<1>13. RowOf(candidates, candidates[w]) = w
  <2>1. \A j, k \in DOMAIN candidates :
          candidates[j].merchant_id = candidates[k].merchant_id => j = k
    <3>1. ASSUME NEW j \in approved, NEW k \in approved,
                 candidates[j].merchant_id = candidates[k].merchant_id
          PROVE  j = k
      <4>1. j \in DOMAIN order /\ k \in DOMAIN order
        BY <1>7
      <4>2. candidates[j].merchant_id = order[j] /\ candidates[k].merchant_id = order[k]
        BY <1>8
      <4> HIDE DEF candidates, approved
      <4>3. QED
        BY <1>2, <3>1, <4>1, <4>2
    <3> HIDE DEF candidates, approved
    <3>2. QED
      BY <1>10, <3>1
  <2> HIDE DEF candidates
  <2>2. QED
    BY <1>10, <2>1, RowOfFinds
<1>14. shopped.winner = rows[w]
  <2> HIDE DEF candidates, best, approved
  <2>1. QED
    BY <1>9, <1>12, <1>13
<1>15. ASSUME NEW i \in DOMAIN rows, rows[i].outcome = "APPROVED"
       PROVE  /\ IsRowFor(rows[i], intent)
              /\ ~RankedBefore(Candidate(rows[i]), Candidate(rows[w]), intent)
  <2>1. i \in approved
    BY <1>15
  <2>2. /\ order[i] \in Onboarded /\ envelopes[order[i]] \in Offers(order[i], intent)
        /\ rows[i] = Row(EndpointOf(order[i]), intent, envelopes[order[i]], Now)
        /\ candidates[i] = Candidate(rows[i]) /\ candidates[w] = Candidate(rows[w])
    BY <1>8, <2>1
  <2>3. IsRowFor(rows[i], intent)
    <3> HIDE DEF candidates, approved
    <3>1. QED
      BY <2>2 DEF IsRowFor
  <2> HIDE DEF candidates, approved
  <2>4. QED
    BY <1>12, <2>1, <2>2, <2>3
<1>16. w \in DOMAIN rows /\ rows[w].outcome = "APPROVED"
  OBVIOUS
<1> HIDE DEF candidates, best, approved
<1>17. IsFirstRow(shopped, intent, w)
  BY <1>3, <1>14, <1>15, <1>16 DEF IsFirstRow
<1>18. QED
  BY <1>17


LEMMA ShopChooses ==
  ASSUME OnboardingAssumption, MarketAssumption, CatalogInv, NEW intent \in Drafts,
         Shop(intent)
  PROVE  WinnerDeserves'
<1>1. cache' = cache /\ Onboarded # {}
  BY DEF Shop, onboardingVars
<1>2. PICK envelopes \in [Onboarded -> UNION {Offers(m, intent) : m \in Onboarded}] :
        /\ \A m \in Onboarded : envelopes[m] \in Offers(m, intent)
        /\ LET endpoints == [i \in 1..Cardinality(Onboarded) |-> EndpointOf(SetToSeq(Onboarded)[i])]
           IN  result' = [kind |-> "shopped", intent |-> intent,
                          shopped |-> ShopAround(endpoints, intent, envelopes, Now)]
  BY DEF Shop
<1>3. PICK endpoints :
        endpoints = [i \in 1..Cardinality(Onboarded) |-> EndpointOf(SetToSeq(Onboarded)[i])]
  OBVIOUS
<1>4. PICK shopped : shopped = ShopAround(endpoints, intent, envelopes, Now)
  OBVIOUS
<1>5. result'.intent = intent /\ result'.shopped = shopped
  BY <1>2, <1>3, <1>4
<1> SUFFICES ASSUME shopped.winner # None PROVE WinnerDeserves'
  BY <1>5 DEF WinnerDeserves
<1>6. PICK w : IsFirstRow(shopped, intent, w)
  <2>1. \A m \in Onboarded : envelopes[m] \in Offers(m, intent)
    BY <1>2
  <2>2. QED
    BY <1>1, <1>3, <1>4, <2>1, WinnerIsFirst
<1> DEFINE approved == {row \in Range(shopped.rows) : row.outcome = "APPROVED"}
           winner == shopped.winner
           cart == winner.envelope.payload
<1>7. winner \in approved
  BY <1>6 DEF Range, IsFirstRow
<1>8. ASSUME NEW row \in approved
      PROVE  /\ IsRowFor(row, intent)
             /\ ~RankedBefore(Candidate(row), Candidate(winner), intent)
             /\ row.outcome = "APPROVED"
  BY <1>6 DEF Range, IsFirstRow
<1> HIDE DEF approved, winner
<1>9. ASSUME NEW row \in approved PROVE IsRanked(Candidate(row))
  BY <1>8, ApprovedRow DEF Onboarded, IsRowFor
<1>10. /\ intent.allowed_merchants # None => cart.merchant_id \in intent.allowed_merchants
       /\ cart.total_paise <= intent.total_paise
       /\ \A line \in LinesOf(cart) :
            line.unit_price_paise <= cache[cart.merchant_id].catalog[line.sku].price_paise
  <2> PICK m \in Onboarded : \E envelope \in Offers(m, intent) :
         winner = Row(EndpointOf(m), intent, envelope, Now)
    BY <1>7, <1>8 DEF IsRowFor
  <2>1. PICK envelope \in Offers(m, intent) : winner = Row(EndpointOf(m), intent, envelope, Now)
    OBVIOUS
  <2>2. m \in Merchants /\ cache[m] # None /\ winner.outcome = "APPROVED"
    BY <1>7, <1>8 DEF Onboarded
  <2>3. /\ winner.envelope = envelope /\ envelope.payload.merchant_id = m
        /\ MerchantAuthorized(intent, envelope.payload)
        /\ envelope.payload.total_paise <= intent.total_paise
        /\ \A line \in LinesOf(envelope.payload) :
             line.unit_price_paise <= cache[m].catalog[line.sku].price_paise
    BY <2>1, <2>2, ApprovedRow
  <2>4. QED
    BY <2>3 DEF MerchantAuthorized
<1>11. HasTerms(intent)
  BY DEF MarketAssumption, HasTerms
<1>12. ASSUME NEW row \in approved
       PROVE  /\ BrandMatches(Candidate(row), intent) => BrandMatches(Candidate(winner), intent)
              /\ AtLeastAsGood(row, winner, intent) => AtLeastAsGood(winner, row, intent)
  <2> DEFINE c == Candidate(row)
             d == Candidate(winner)
  <2>1. IsRanked(c) /\ IsRanked(d) /\ ~RankedBefore(c, d, intent)
    BY <1>7, <1>8, <1>9
  <2> HIDE DEF c, d
  <2>2. BrandMatches(c, intent) => BrandMatches(d, intent)
    BY <1>11, <2>1, BrandDecides
  <2>3. ASSUME AtLeastAsGood(row, winner, intent) PROVE AtLeastAsGood(winner, row, intent)
    <3>1. /\ BrandMatches(d, intent) => BrandMatches(c, intent)
          /\ c.total_paise <= d.total_paise
          /\ HasTarget(intent) =>
               Nearness(c.total_paise, intent.target_price_paise)
                 >= Nearness(d.total_paise, intent.target_price_paise)
      BY <2>3 DEF AtLeastAsGood, c, d
    <3>2. c.total_paise \in Nat /\ d.total_paise \in Nat
      BY <2>1 DEF IsRanked
    <3>3. c.total_paise = d.total_paise
      <4>1. SUFFICES ASSUME c.total_paise < d.total_paise PROVE FALSE
        BY <3>1, <3>2
      <4>2. NearPoints(c, intent) >= NearPoints(d, intent)
        <5>1. CASE ~HasTarget(intent)
          BY <5>1 DEF NearPoints
        <5>2. CASE HasTarget(intent)
          <6> DEFINE x == Nearness(c.total_paise, intent.target_price_paise)
                     y == Nearness(d.total_paise, intent.target_price_paise)
          <6>1. intent.target_price_paise \in Nat
            BY <1>11, <5>2 DEF HasTerms, HasTarget
          <6>2. x \in Int /\ y \in Int
            BY <3>2, <6>1 DEF Nearness, Distance, GreaterOf
          <6>3. x >= y
            BY <3>1, <5>2
          <6>4. NearPoints(c, intent) = 30 * x /\ NearPoints(d, intent) = 30 * y
            BY <5>2 DEF NearPoints, TargetOf
          <6> HIDE DEF x, y
          <6>5. QED
            BY <6>2, <6>3, <6>4
        <5>3. QED
          BY <5>1, <5>2
      <4>3. RankedBefore(c, d, intent)
        BY <1>11, <2>1, <2>2, <3>1, <4>1, <4>2, CheaperDecides
      <4>4. QED
        BY <2>1, <4>3
    <3>4. HasTarget(intent) =>
            Nearness(d.total_paise, intent.target_price_paise)
              >= Nearness(c.total_paise, intent.target_price_paise)
      BY <3>1, <3>3
    <3>5. QED
      BY <2>2, <3>2, <3>3, <3>4 DEF AtLeastAsGood, c, d
  <2>4. QED
    BY <2>2, <2>3 DEF c, d
<1>13. QED
  BY <1>1, <1>5, <1>7, <1>10, <1>12 DEF WinnerDeserves, approved, winner

LEMMA WinnerStep ==
  ASSUME OnboardingAssumption, MarketAssumption, CatalogInv, WinnerDeserves,
         [MarketNext]_marketVars
  PROVE  WinnerDeserves'
<1>1. CASE Onboards
  BY <1>1 DEF Onboards, WinnerDeserves
<1>2. CASE \E intent \in Drafts : Shop(intent)
  BY <1>2, ShopChooses
<1>3. CASE \E m \in Onboarded : \E intent \in IntentsOf(m), asksItems \in BOOLEAN,
             skus \in SUBSET DOMAIN cache[m].catalog : WebNegotiate(m, intent, asksItems, skus)
  <2>1. result'.kind \in {"error", "page"}
    <3>1. PICK m, intent, asksItems, skus : WebNegotiate(m, intent, asksItems, skus)
      BY <1>3
    <3>2. Page(m, intent, asksItems, skus).kind = "page"
      BY DEF Page
    <3> HIDE DEF Page
    <3>3. QED
      BY <3>1, <3>2 DEF WebNegotiate
  <2>2. QED
    BY <2>1 DEF WinnerDeserves
<1>4. CASE \E m \in Onboarded, skus \in SUBSET UNION {DOMAIN cache[n].catalog : n \in Onboarded} :
             \E selected \in [skus -> Quantities] : WebExecute(m, selected)
  <2>1. result'.kind \in {"error", "executed"}
    BY <1>4 DEF WebExecute
  <2>2. QED
    BY <2>1 DEF WinnerDeserves
<1>5. CASE Answered
  BY <1>5 DEF Answered, WinnerDeserves
<1>6. CASE UNCHANGED marketVars
  <2>1. UNCHANGED <<cache, result>>
    BY <1>6 DEF marketVars, onboardingVars
  <2>2. QED
    BY <2>1 DEF WinnerDeserves
<1>7. QED
  BY <1>1, <1>2, <1>3, <1>4, <1>5, <1>6 DEF MarketNext

\* The winner of a comparison is a cart within the mandate at no more than the
\* published prices, and no approved cart of another row is the better one by
\* the preferences the user signed.
THEOREM BestCartWins ==
  ASSUME OnboardingAssumption, MarketAssumption PROVE Spec => []WinnerDeserves
<1>1. MarketInit => WinnerDeserves
  BY DEF MarketInit, WinnerDeserves
<1>2. ProvenanceInv /\ WinnerDeserves /\ [MarketNext]_marketVars => WinnerDeserves'
  BY WinnerStep DEF ProvenanceInv
<1>3. QED
  BY <1>1, <1>2, Provenance, PTL DEF Spec
=============================================================================
