-------------------------- MODULE BuySession_proofs --------------------------
(***************************************************************************)
(* For every catalog, request and answer of the review: what the driver's  *)
(* proposals have in common, the session's types and order, that it        *)
(* implements SpendingAuthority, and what is ordered and at which price.   *)
(***************************************************************************)
EXTENDS BuySession, PolicyEngine_proofs, FiniteSetTheorems, SequenceTheorems

-----------------------------------------------------------------------------
(***************************************************************************)
(* What the driver's proposals have in common, for every catalog and every *)
(* intent that something in the catalog matches.                           *)
(***************************************************************************)

\* Some item of a set is the cheapest.
LEMMA LeastPrice ==
  ASSUME NEW S, S \subseteq DOMAIN Catalog, S # {}
  PROVE  \E x \in S : \A y \in S : Catalog[x].price_paise <= Catalog[y].price_paise
<1> DEFINE T == {Catalog[x].price_paise : x \in S}
<1>1. T \subseteq Nat /\ T # {}
  BY CatalogAssumption
<1>2. PICK m \in T : \A n \in T : m <= n
  BY <1>1, LeastNat
<1>3. QED
  BY <1>2

\* The first item in the driver's order costs the least.
LEMMA CheapestIsLeast ==
  ASSUME NEW S, S \subseteq DOMAIN Catalog, S # {}
  PROVE  /\ Cheapest(S) \in S
         /\ \A y \in S : Catalog[Cheapest(S)].price_paise <= Catalog[y].price_paise
<1>1. PICK p \in S : \A y \in S : Catalog[p].price_paise <= Catalog[y].price_paise
  BY LeastPrice
<1> DEFINE T == {x \in S : Catalog[x].price_paise = Catalog[p].price_paise}
<1>2. T \subseteq Nat /\ T # {}
  BY CatalogAssumption
<1>3. PICK x \in T : \A y \in T : x <= y
  BY <1>2, LeastNat
<1>4. \A y \in S : ~CheaperFirst(y, x)
  BY <1>1, <1>2, <1>3, CatalogAssumption DEF CheaperFirst
<1>5. Cheapest(S) \in S /\ \A y \in S : ~CheaperFirst(y, Cheapest(S))
  BY <1>3, <1>4 DEF Cheapest
<1>6. QED
  BY <1>5, CatalogAssumption DEF CheaperFirst

\* An upsell, when there is one, is a dearer item of the catalog.
LEMMA PremiumIsDearer ==
  ASSUME NEW primary, PremiumCandidates(primary) # {}
  PROVE  /\ PremiumSubstitute(primary) \in DOMAIN Catalog
         /\ Catalog[PremiumSubstitute(primary)].price_paise > Catalog[primary].price_paise
<1>1. PremiumCandidates(primary) \subseteq DOMAIN Catalog
  BY DEF PremiumCandidates
<1>2. PremiumSubstitute(primary) \in PremiumCandidates(primary)
  BY <1>1, LeastPrice DEF PremiumSubstitute
<1>3. QED
  BY <1>2 DEF PremiumCandidates

LEMMA PrimaryMatches ==
  ASSUME NEW mandate, MatchingItems(mandate) # {}
  PROVE  Primary(mandate) \in DOMAIN Catalog
  BY CheapestIsLeast DEF Primary, MatchingItems

\* The alternatives are items of the catalog, too.
LEMMA AlternativesAreItems ==
  ASSUME NEW mandate, NEW offerMade, MatchingItems(mandate) # {}
  PROVE  AlternativeItems(mandate, offerMade) \in Seq(DOMAIN Catalog)
<1> DEFINE others == MatchingItems(mandate) \ {Primary(mandate)}
<1>1. others # {} => Cheapest(others) \in DOMAIN Catalog
  BY CheapestIsLeast DEF MatchingItems
<1>2. \A x \in DOMAIN Catalog : <<x>> \in Seq(DOMAIN Catalog)
  OBVIOUS
<1>3. FurtherItems(mandate) \in Seq(DOMAIN Catalog)
  <2>1. FurtherItems(mandate) = <<>> \/
          (others # {} /\ FurtherItems(mandate) = <<Cheapest(others)>>)
    BY DEF FurtherItems
  <2>2. <<>> \in Seq(DOMAIN Catalog)
    OBVIOUS
  <2> HIDE DEF others
  <2>3. QED
    BY <1>1, <1>2, <2>1, <2>2
<1>4. <<Primary(mandate)>> \in Seq(DOMAIN Catalog)
  BY PrimaryMatches
<1>5. <<Primary(mandate)>> \o FurtherItems(mandate) \in Seq(DOMAIN Catalog)
  BY <1>3, <1>4
<1>6. QED
  BY <1>3, <1>5 DEF AlternativeItems

\* Every cart of a proposal binds the intent and costs a natural amount.
LEMMA ProposalCarts ==
  ASSUME NEW mandate, NEW offerMade, NEW now, NEW id, MatchingItems(mandate) # {}
  PROVE  LET proposal == Proposal(mandate, offerMade, now, id)
             others   == proposal.alternative_envelopes
         IN  /\ proposal.cart_envelope.payload.total_paise =
                  ProposedLine(mandate, offerMade).unit_price_paise
             /\ proposal.cart_envelope.payload.total_paise \in Nat
             /\ proposal.cart_envelope.payload.intent_hash = Digest(mandate)
             /\ \A k \in DOMAIN others :
                  /\ others[k].payload.total_paise \in Nat
                  /\ others[k].payload.intent_hash = Digest(mandate)
<1>1. \A x \in DOMAIN Catalog, isUpsell \in BOOLEAN :
        /\ ItemLine(x, isUpsell).unit_price_paise \in Nat
        /\ ItemLine(x, isUpsell).quantity = 1
  BY CatalogAssumption DEF ItemLine
<1>2. \E x \in DOMAIN Catalog, isUpsell \in BOOLEAN :
        ProposedLine(mandate, offerMade) = ItemLine(x, isUpsell)
  BY PrimaryMatches, PremiumIsDearer DEF ProposedLine, MakesOffer
<1>3. ASSUME NEW x \in DOMAIN Catalog, NEW isUpsell \in BOOLEAN, NEW i
      PROVE  LET made == SignedCart(ItemLine(x, isUpsell), mandate, now, i).payload
             IN  /\ made.total_paise = ItemLine(x, isUpsell).unit_price_paise
                 /\ made.total_paise \in Nat
                 /\ made.intent_hash = Digest(mandate)
  <2> DEFINE line == ItemLine(x, isUpsell)
  <2>1. /\ SignedCart(line, mandate, now, i).payload.total_paise =
             line.unit_price_paise * line.quantity
        /\ SignedCart(line, mandate, now, i).payload.intent_hash = Digest(mandate)
    BY DEF SignedCart, SignMandate
  <2>2. line.unit_price_paise \in Nat /\ line.quantity = 1
    BY <1>1
  <2> HIDE DEF line
  <2>3. line.unit_price_paise * line.quantity = line.unit_price_paise
    BY <2>2
  <2>4. QED
    BY <2>1, <2>2, <2>3 DEF line
<1> DEFINE proposal == Proposal(mandate, offerMade, now, id)
           others   == AlternativeItems(mandate, offerMade)
<1>4. /\ proposal.cart_envelope =
           SignedCart(ProposedLine(mandate, offerMade), mandate, now, id + 1)
      /\ DOMAIN proposal.alternative_envelopes = DOMAIN others
      /\ \A k \in DOMAIN others :
           proposal.alternative_envelopes[k] =
             SignedCart(ItemLine(others[k], FALSE), mandate, now, id + 1 + k)
  BY DEF Proposal
<1>5. \A k \in DOMAIN others : others[k] \in DOMAIN Catalog
  BY AlternativesAreItems
<1> HIDE DEF proposal, others
<1>6. /\ proposal.cart_envelope.payload.total_paise =
           ProposedLine(mandate, offerMade).unit_price_paise
      /\ proposal.cart_envelope.payload.total_paise \in Nat
      /\ proposal.cart_envelope.payload.intent_hash = Digest(mandate)
  BY <1>2, <1>3, <1>4
<1>7. ASSUME NEW k \in DOMAIN proposal.alternative_envelopes
      PROVE  /\ proposal.alternative_envelopes[k].payload.total_paise \in Nat
             /\ proposal.alternative_envelopes[k].payload.intent_hash = Digest(mandate)
  <2>1. /\ others[k] \in DOMAIN Catalog
        /\ proposal.alternative_envelopes[k] =
             SignedCart(ItemLine(others[k], FALSE), mandate, now, id + 1 + k)
    BY <1>4, <1>5
  <2>2. \E x \in DOMAIN Catalog, isUpsell \in BOOLEAN : \E i :
          proposal.alternative_envelopes[k] =
            SignedCart(ItemLine(x, isUpsell), mandate, now, i)
    BY <2>1
  <2>3. QED
    BY <1>1, <1>3, <2>2
<1>8. QED
  BY <1>6, <1>7 DEF proposal

\* The second proposal of a session to the same constraints costs no more
\* than the first: the only thing that changes is that the offer is used up.
LEMMA OfferIsMadeOnce ==
  ASSUME NEW mandate, NEW offerMade \in BOOLEAN, MatchingItems(mandate) # {}
  PROVE  ProposedLine(mandate, offerMade \/ MakesOffer(mandate, offerMade)).unit_price_paise
           <= ProposedLine(mandate, offerMade).unit_price_paise
<1>1. CASE MakesOffer(mandate, offerMade)
  <2>1. ProposedLine(mandate, offerMade \/ MakesOffer(mandate, offerMade))
          = ItemLine(Primary(mandate), FALSE)
    BY <1>1 DEF ProposedLine, MakesOffer
  <2>2. ProposedLine(mandate, offerMade)
          = ItemLine(PremiumSubstitute(Primary(mandate)), TRUE)
    BY <1>1 DEF ProposedLine
  <2>3. QED
    BY <1>1, <2>1, <2>2, PremiumIsDearer, PrimaryMatches, CatalogAssumption
       DEF ItemLine, MakesOffer
<1>2. CASE ~MakesOffer(mandate, offerMade)
  <2>1. ProposedLine(mandate, offerMade \/ MakesOffer(mandate, offerMade))
          = ItemLine(Primary(mandate), FALSE)
    BY <1>2 DEF ProposedLine, MakesOffer
  <2>2. ProposedLine(mandate, offerMade) = ItemLine(Primary(mandate), FALSE)
    BY <1>2 DEF ProposedLine
  <2>3. QED
    BY <2>1, <2>2, PrimaryMatches, CatalogAssumption DEF ItemLine
<1>3. QED
  BY <1>1, <1>2

\* Minted ids are numbers.
LEMMA MintedNat ==
  ASSUME NEW mandate, NEW offerMade, MatchingItems(mandate) # {}
  PROVE  Minted(mandate, offerMade) \in Nat
  BY AlternativesAreItems DEF Minted

\* An amendment of an intent that leaves the driver's fields alone changes
\* nothing for the driver.
LEMMA SameFieldsSameAnswer ==
  ASSUME NEW i, NEW j, NEW offerMade,
         i.category = j.category, i.required_attributes = j.required_attributes,
         i.excluded_categories = j.excluded_categories
  PROVE  /\ MatchingItems(i) = MatchingItems(j)
         /\ MakesOffer(i, offerMade) = MakesOffer(j, offerMade)
<1>1. MatchingItems(i) = MatchingItems(j)
  BY DEF MatchingItems, Satisfies
<1>2. QED
  BY <1>1 DEF MakesOffer, Primary

\* Short sequences.
LEMMA ShortSequences ==
  ASSUME NEW S, NEW a \in S, NEW b \in S
  PROVE  /\ <<>> \in Seq(S) /\ <<a>> \in Seq(S) /\ <<a, b>> \in Seq(S)
         /\ <<a>> \o <<>> = <<a>> /\ <<a>> \o <<b>> = <<a, b>>
<1>1. <<>> \in Seq(S) /\ <<a>> \in Seq(S) /\ <<b>> \in Seq(S) /\ <<a, b>> \in Seq(S)
  OBVIOUS
<1>2. <<a>> \o <<>> = <<a>>
  OBVIOUS
<1>3. <<a>> \o <<b>> = <<a, b>>
  <2> DEFINE s == <<a>> \o <<b>>
             t == <<a, b>>
  <2>1. s \in Seq(S) /\ Len(s) = 2 /\ s[1] = a /\ s[2] = b
    OBVIOUS
  <2>2. t \in Seq(S) /\ Len(t) = 2 /\ t[1] = a /\ t[2] = b
    OBVIOUS
  <2> HIDE DEF s, t
  <2>3. s = t
    BY <2>1, <2>2, SeqEqual
  <2>4. QED
    BY <2>3 DEF s, t
<1>4. QED
  BY <1>1, <1>2, <1>3

\* The alternatives of a proposal are matching items, the cheapest one first,
\* and none of them is cheaper than the clean primary.
LEMMA AlternativesAreSorted ==
  ASSUME NEW mandate, NEW offerMade, MatchingItems(mandate) # {}
  PROVE  LET others == AlternativeItems(mandate, offerMade)
         IN  /\ others \in Seq(MatchingItems(mandate))
             /\ \A j, k \in DOMAIN others :
                  j <= k => Catalog[others[j]].price_paise <= Catalog[others[k]].price_paise
             /\ \A k \in DOMAIN others :
                  Catalog[Primary(mandate)].price_paise <= Catalog[others[k]].price_paise
<1> DEFINE matching == MatchingItems(mandate)
           p == Primary(mandate)
           q == Cheapest(matching \ {p})
           others == AlternativeItems(mandate, offerMade)
<1>1. /\ matching \subseteq DOMAIN Catalog
      /\ p \in matching
      /\ \A y \in matching : Catalog[p].price_paise <= Catalog[y].price_paise
      /\ \A y \in matching : Catalog[y].price_paise \in Nat
  BY CheapestIsLeast, CatalogAssumption DEF Primary, MatchingItems
<1>2. matching \ {p} # {} => q \in matching
  BY <1>1, CheapestIsLeast
<1>3. \/ others = <<>>
      \/ others = <<p>>
      \/ others = <<q>> /\ q \in matching
      \/ others = <<p, q>> /\ q \in matching
  <2>1. \/ FurtherItems(mandate) = <<>>
        \/ FurtherItems(mandate) = <<q>> /\ q \in matching
    BY <1>2 DEF FurtherItems
  <2> HIDE DEF q, p, matching
  <2>2. <<p>> \o <<>> = <<p>> /\ (q \in matching => <<p>> \o <<q>> = <<p, q>>)
    BY <1>1, ShortSequences
  <2>3. QED
    BY <2>1, <2>2 DEF AlternativeItems, p
<1> HIDE DEF q, p, matching, others
<1>4. others \in Seq(matching)
  BY <1>1, <1>3, ShortSequences
<1>5. \A k \in DOMAIN others :
        /\ others[k] \in matching
        /\ Catalog[p].price_paise <= Catalog[others[k]].price_paise
  BY <1>1, <1>4
<1>6. ASSUME NEW j \in DOMAIN others, NEW k \in DOMAIN others, j <= k
      PROVE  Catalog[others[j]].price_paise <= Catalog[others[k]].price_paise
  <2>1. CASE j = k
    BY <1>1, <1>5, <2>1
  <2>2. CASE j # k
    <3>1. others = <<p, q>> /\ j = 1
      BY <1>3, <1>6, <2>2
    <3>2. QED
      BY <1>5, <3>1
  <2>3. QED
    BY <2>1, <2>2
<1>7. QED
  BY <1>4, <1>5, <1>6 DEF others, matching, p

\* The terms of a cart of one item.
LEMMA OneItemCart ==
  ASSUME NEW line, NEW i, NEW id, line.unit_price_paise \in Nat, line.quantity = 1
  PROVE  LET envelope == SignedCart(line, i, Start, id)
             c        == envelope.payload
         IN  /\ LinesOf(c) = {line} /\ c.lines = <<line>> /\ c.total_paise = line.unit_price_paise
             /\ c.merchant_id = MerchantId /\ c.merchant_kid = MerchantKid
             /\ c.expires_at = Start + CartValidity
             /\ ArithmeticConsistent(c) /\ ChainIntact(i, c)
             /\ envelope.signatures = {[kid |-> MerchantKid, over |-> c]}
<1> DEFINE envelope == SignedCart(line, i, Start, id)
           c        == envelope.payload
<1>1. /\ c.lines = <<line>>
      /\ c.total_paise = line.unit_price_paise * line.quantity
      /\ c.subtotal_paise = line.unit_price_paise * line.quantity
      /\ c.tax_paise = 0 /\ c.shipping_paise = 0
      /\ c.merchant_id = MerchantId /\ c.merchant_kid = MerchantKid
      /\ c.expires_at = Start + CartValidity
      /\ c.intent_hash = Digest(i)
      /\ envelope.signatures = {[kid |-> MerchantKid, over |-> c]}
  BY DEF SignedCart, SignMandate
<1> HIDE DEF envelope
<1>2. LinesOf(c) = {line}
  BY <1>1 DEF LinesOf
<1>3. LinesSubtotal(<<line>>) = line.unit_price_paise
  <2> DEFINE lines == <<line>>
  <2>1. Len(lines) = 1 /\ lines[1] = line
    OBVIOUS
  <2> HIDE DEF lines
  <2>2. PICK sum : /\ LinesSubtotal(lines) = sum[Len(lines)]
                   /\ sum[0] = 0
                   /\ \A k \in 1..Len(lines) :
                        sum[k] = sum[k - 1] + lines[k].unit_price_paise * lines[k].quantity
    BY <2>1, SubtotalIsASum
  <2>3. sum[1] = sum[1 - 1] + line.unit_price_paise * line.quantity
    BY <2>1, <2>2
  <2>4. QED
    BY <2>1, <2>2, <2>3 DEF lines
<1>4. /\ c.total_paise = line.unit_price_paise
      /\ c.subtotal_paise = line.unit_price_paise
  BY <1>1
<1>5. ArithmeticConsistent(c)
  BY <1>1, <1>3, <1>4 DEF ArithmeticConsistent, ComputedSubtotal
<1>6. ChainIntact(i, c)
  BY <1>1 DEF ChainIntact
<1>7. QED
  BY <1>1, <1>2, <1>4, <1>5, <1>6 DEF envelope

\* An envelope of the driver's for one item.
CartOf(envelope, x, isUpsell, i) ==
  \E id \in Int : envelope = SignedCart(ItemLine(x, isUpsell), i, Start, id)

\* Of two carts the driver signs for one intent, the one of a matching item
\* that costs no more does no worse: what the other passes it passes.
LEMMA CheaperDoesNoWorse ==
  ASSUME NEW i, NEW e, NEW ce, NEW de,
         NEW x \in MatchingItems(i), CartOf(ce, x, FALSE, i),
         NEW y \in DOMAIN Catalog, NEW isUpsell \in BOOLEAN, CartOf(de, y, isUpsell, i),
         Catalog[x].price_paise <= Catalog[y].price_paise,
         i.total_paise \in Int, i.per_item_paise \in Int, i.escalate_above_paise \in Int
  PROVE  LET OutcomeOf(envelope) ==
               Evaluate(i, envelope.payload, Policy, Context(e, envelope), Start).outcome
         IN  /\ OutcomeOf(de) # "REJECTED" => OutcomeOf(ce) # "REJECTED"
             /\ OutcomeOf(de) = "APPROVED" => OutcomeOf(ce) = "APPROVED"
<1> DEFINE cl == ItemLine(x, FALSE)
           dl == ItemLine(y, isUpsell)
           c  == ce.payload
           d  == de.payload
           cx == Context(e, ce)
           dx == Context(e, de)
           px == Catalog[x].price_paise
           py == Catalog[y].price_paise
<1>1. PICK id \in Int, other \in Int :
        ce = SignedCart(cl, i, Start, id) /\ de = SignedCart(dl, i, Start, other)
  BY DEF CartOf
<1>2. x \in DOMAIN Catalog /\ px \in Nat /\ py \in Nat /\ px <= py
  BY CatalogAssumption DEF MatchingItems
<1>3. /\ cl.sku = x /\ cl.category = Catalog[x].category /\ cl.unit_price_paise = px
      /\ cl.quantity = 1 /\ cl.attributes = Catalog[x].attributes
      /\ cl.is_substitute = FALSE /\ cl.is_upsell = FALSE /\ cl.provenance = "signed"
      /\ dl.unit_price_paise = py /\ dl.quantity = 1
  BY DEF ItemLine
<1> HIDE DEF cl, dl, px, py
<1>4. /\ LinesOf(c) = {cl} /\ c.lines = <<cl>> /\ c.total_paise = px
      /\ c.merchant_id = MerchantId /\ c.merchant_kid = MerchantKid
      /\ c.expires_at = Start + CartValidity
      /\ ArithmeticConsistent(c) /\ ChainIntact(i, c)
      /\ ce.signatures = {[kid |-> MerchantKid, over |-> c]}
  BY <1>1, <1>2, <1>3, OneItemCart
<1>5. /\ LinesOf(d) = {dl} /\ d.total_paise = py
      /\ d.merchant_id = MerchantId /\ d.expires_at = Start + CartValidity
  BY <1>1, <1>2, <1>3, OneItemCart
<1>6. /\ cx.key_directory = {HumanKid, MerchantKid} /\ dx.key_directory = {HumanKid, MerchantKid}
      /\ cx.intent_envelope = e /\ dx.intent_envelope = e
      /\ cx.cart_envelope = ce
      /\ cx.require_agent_identity = FALSE /\ cx.low_confidence_interpretation = FALSE
      /\ cx.merchant_catalog = dx.merchant_catalog
      /\ cx.merchant_catalog = [merchant_id |-> MerchantId, entries |-> Catalog]
  BY DEF Context
<1> HIDE DEF cx, dx
<1>7. ASSUME PassesHardGates(i, d, Policy, dx, Start)
      PROVE  PassesHardGates(i, c, Policy, cx, Start)
  <2> USE <1>7
  <2>1. ~EngineRaises(i, c) /\ PricesSigned(c)
    BY <1>3, <1>4 DEF EngineRaises, PricesSigned
  <2>2. NotExpired(i, c, Start) /\ MerchantAuthorized(i, c)
    <3>1. c.expires_at = d.expires_at /\ c.merchant_id = d.merchant_id
      BY <1>4, <1>5
    <3>2. NotExpired(i, d, Start) /\ MerchantAuthorized(i, d)
      BY DEF PassesHardGates
    <3>3. QED
      BY <3>1, <3>2 DEF NotExpired, IsExpired, MerchantAuthorized
  <2>3. SignaturesValid(i, c, cx)
    <3>1. SignaturesValid(i, d, dx)
      BY DEF PassesHardGates
    <3>2. EnvelopeVerifies(cx.intent_envelope, cx.key_directory, i.principal_kid)
      BY <1>6, <3>1 DEF SignaturesValid
    <3>3. EnvelopeVerifies(ce, {HumanKid, MerchantKid}, MerchantKid)
      BY <1>4 DEF EnvelopeVerifies
    <3>4. QED
      BY <1>4, <1>6, <3>2, <3>3 DEF SignaturesValid
  <2>4. AgentIdentified(cx) /\ ArithmeticConsistent(c) /\ ChainIntact(i, c)
    BY <1>4, <1>6 DEF AgentIdentified
  <2>5. HardConstraintsMet(i, c) /\ NoExcludedCategory(i, c)
    BY <1>3, <1>4 DEF HardConstraintsMet, NoExcludedCategory, MatchingItems, Satisfies
  <2>6. dl.unit_price_paise <= i.per_item_paise /\ dl.quantity <= i.max_quantity
    BY <1>5 DEF PassesHardGates, WithinPerItemCap, WithinQuantityCap
  <2>7. WithinPerItemCap(i, c) /\ WithinQuantityCap(i, c)
    BY <1>2, <1>3, <1>4, <2>6 DEF WithinPerItemCap, WithinQuantityCap
  <2>8. WithinBudget(i, c) /\ SubstitutesInTolerance(i, c, Policy)
    BY <1>2, <1>3, <1>4, <1>5
       DEF PassesHardGates, WithinBudget, SubstitutesInTolerance
  <2>9. py <= Policy.max_order_value_paise /\ dl.quantity <= Policy.max_quantity_per_sku
    BY <1>5 DEF PassesHardGates, MerchantPolicyMet
  <2>10. MerchantPolicyMet(c, Policy)
    BY <1>2, <1>3, <1>4, <2>9, SessionAssumption DEF MerchantPolicyMet
  <2>11. CatalogUsable(c, cx)
    <3>1. dx.merchant_catalog # None
      BY DEF PassesHardGates, CatalogItemsKnown, CatalogUsable
    <3>2. cx.merchant_catalog.merchant_id = MerchantId
      BY <1>6
    <3>3. QED
      BY <1>4, <1>6, <3>1, <3>2 DEF CatalogUsable
  <2>12. CatalogPricesHonoured(c, cx) /\ CatalogItemsKnown(c, cx)
    <3>1. cx.merchant_catalog.entries = Catalog
      BY <1>6
    <3>2. QED
      BY <1>2, <1>3, <1>4, <2>11, <3>1
         DEF CatalogPricesHonoured, CatalogItemsKnown, Published, px
  <2>13. CartShapeSane(c)
    <3>1. /\ Len(c.lines) = 1 /\ DOMAIN c.lines = {1} /\ c.lines[1] = cl
      BY <1>4
    <3>2. {k \in DOMAIN c.lines : c.lines[k].is_upsell} = {}
      BY <1>3, <3>1
    <3>3. Cardinality({}) = 0
      BY FS_EmptySet
    <3>4. Len(c.lines) \in 1..MaxCartLines
      BY <3>1, ShapeBoundsAssumption
    <3>5. Cardinality({k \in DOMAIN c.lines : c.lines[k].is_upsell}) <= MaxUpsellLines
      <4> DEFINE upsells == {k \in DOMAIN c.lines : c.lines[k].is_upsell}
      <4>1. upsells = {}
        BY <3>2
      <4> HIDE DEF upsells
      <4>2. Cardinality(upsells) <= MaxUpsellLines
        BY <3>3, <4>1, ShapeBoundsAssumption
      <4>3. QED
        BY <4>2 DEF upsells
    <3>6. \A j, k \in DOMAIN c.lines : c.lines[j].sku = c.lines[k].sku => j = k
      BY <3>1
    <3>7. QED
      BY <3>4, <3>5, <3>6 DEF CartShapeSane
  <2>14. QED
    BY <2>1, <2>2, <2>3, <2>4, <2>5, <2>7, <2>8, <2>10, <2>12, <2>13 DEF PassesHardGates
<1>8. Evaluate(i, d, Policy, dx, Start).outcome # "REJECTED" =>
        Evaluate(i, c, Policy, cx, Start).outcome # "REJECTED"
  BY <1>7, RejectedUnlessPassing
<1>9. ASSUME Evaluate(i, d, Policy, dx, Start).outcome = "APPROVED"
      PROVE  Evaluate(i, c, Policy, cx, Start).outcome = "APPROVED"
  <2>1. PassesHardGates(i, c, Policy, cx, Start)
    BY <1>7, <1>9, RejectedUnlessPassing
  <2>2. BelowEscalationThreshold(i, d, Policy)
    BY <1>9, ApprovalMeans
  <2>3. BelowEscalationThreshold(i, c, Policy)
    BY <1>2, <1>4, <1>5, <2>2, SessionAssumption
       DEF BelowEscalationThreshold, EscalationThreshold, LesserOf
  <2>4. SubstitutionSettled(i, c) /\ ConfidentInterpretation(cx)
    BY <1>3, <1>4, <1>6 DEF SubstitutionSettled, ConfidentInterpretation
  <2>5. QED
    BY <2>1, <2>3, <2>4, ApprovedWhen
<1>10. QED
  BY <1>8, <1>9 DEF cx, dx

-----------------------------------------------------------------------------
(* The inductive invariant. *)

\* A budget a human may sign: the tripwire is not above the hard limit.
LegalBudget(i) ==
  /\ {"total_paise", "escalate_above_paise"} \subseteq DOMAIN i
  /\ i.total_paise \in Nat
  /\ i.escalate_above_paise \in Int
  /\ i.escalate_above_paise <= i.total_paise

\* A cart that answers the intent.
AnswersTo(c, i) == c.total_paise \in Nat /\ c.intent_hash = Digest(i)

\* The stages at which the session holds a cart that answers its intent.
CartStages ==
  {"evaluating", "rejected", "escalated", "suggesting", "choosing", "executing",
   "reconciling", "unanswered", "ordered"}

\* The stages at which that cart has been approved.
ApprovedStages == {"suggesting", "choosing", "executing"}

Types ==
  /\ stage \in Stages \ {"refused"}
  /\ offer_made \in BOOLEAN
  /\ minted \in Nat
  /\ clock \in Start..MaxClock

\* The session works with the mandate signed last; between the human's yes
\* and the recovery of the cart that mandate is still in the resolution.
Mandate ==
  /\ HasSigned => /\ LegalBudget(intent) /\ LegalBudget(signed)
                  /\ granted.escalate_above_paise \in Int
  /\ stage \in CartStages \cup {"negotiating"} => signed = intent
  /\ stage \in {"resolving", "recovering"} => resolution.amended_intent = signed

\* The carts in hand answer the intent in force.
Carts ==
  /\ stage \in CartStages =>
       /\ AnswersTo(cart, intent)
       /\ \A k \in DOMAIN alternatives : AnswersTo(alternatives[k].payload, intent)
  /\ stage \in {"resolving", "recovering"} => cart.total_paise \in Nat
  /\ stage = "choosing" /\ suggestion # None => AnswersTo(suggestion, intent)

\* What the latest verdict implies for the stages that rest on it.  At
\* "recovering" the verdict is about a cart that is gone; what the driver
\* will propose next cannot cost more.
Verdicts ==
  /\ stage = "escalated" => cart.total_paise <= intent.total_paise
  /\ stage = "recovering" =>
       /\ resolution.final_decision.outcome = "APPROVED"
       /\ ProposedLine(signed, offer_made).unit_price_paise
            <= signed.escalate_above_paise
  /\ stage \in ApprovedStages =>
       /\ decision.outcome = "APPROVED"
       /\ cart.total_paise <= intent.escalate_above_paise

\* The tripwire in force is at most the first one or an amount agreed to.
Consent ==
  /\ \A c \in agreed : c.total_paise \in Nat
  /\ HasSigned =>
       \/ signed.escalate_above_paise <= granted.escalate_above_paise
       \/ \E c \in agreed : signed.escalate_above_paise <= c.total_paise

\* An order is for the cart in hand, under the tripwire in force.
Orders ==
  /\ stage \notin {"reconciling", "unanswered", "ordered"} => orders = {}
  /\ \A o \in orders :
       /\ o.amount_paise \in Nat
       /\ o.amount_paise <= signed.escalate_above_paise
       /\ o.intent_hash = Digest(signed)
       /\ o.cart_hash = Digest(cart)

IInv == Types /\ Mandate /\ Carts /\ Verdicts /\ Consent /\ Orders

-----------------------------------------------------------------------------
(* Lemmas on the helpers of the session. *)

\* A stage after a verdict: approved carts go on, rejected ones do not.
LEMMA StageAfterMeans ==
  ASSUME NEW i, NEW c, NEW policy, NEW ctx, NEW now
  PROVE  LET verdict == Evaluate(i, c, policy, ctx, now)
         IN  /\ StageAfter(verdict) \in {"suggesting", "escalated", "rejected"}
             /\ StageAfter(verdict) = "suggesting" => verdict.outcome = "APPROVED"
             /\ StageAfter(verdict) # "rejected" => verdict.outcome # "REJECTED"
<1> DEFINE verdict == Evaluate(i, c, policy, ctx, now)
<1>1. verdict.outcome \in {"APPROVED", "REQUIRES_HUMAN_APPROVAL", "REJECTED"}
  BY OutcomeMeaning
<1> HIDE DEF verdict
<1>2. QED
  BY <1>1 DEF StageAfter, verdict

\* An approved cart is under the tripwire of its intent, and a cart that is
\* not rejected under its hard limit.
LEMMA VerdictBoundsAmount ==
  ASSUME NEW i, NEW c, NEW ctx, LegalBudget(i), c.total_paise \in Nat
  PROVE  LET verdict == Evaluate(i, c, Policy, ctx, Start)
         IN  /\ verdict.outcome = "APPROVED" => c.total_paise <= i.escalate_above_paise
             /\ verdict.outcome # "REJECTED" => c.total_paise <= i.total_paise
<1>1. ASSUME Evaluate(i, c, Policy, ctx, Start).outcome = "APPROVED"
      PROVE  c.total_paise <= i.escalate_above_paise
  <2>1. BelowEscalationThreshold(i, c, Policy)
    BY <1>1, ApprovalMeans
  <2>2. QED
    BY <2>1, SessionAssumption
       DEF BelowEscalationThreshold, EscalationThreshold, LesserOf, LegalBudget
<1>2. ASSUME Evaluate(i, c, Policy, ctx, Start).outcome # "REJECTED"
      PROVE  c.total_paise <= i.total_paise
  BY <1>2, NotRejectedMeans DEF WithinBudget
<1>3. QED
  BY <1>1, <1>2

\* interpret and the review make a legal budget of every request.
LEMMA DraftIsLegal ==
  ASSUME NEW request \in Requests, NEW answers \in ReviewAnswers
  PROVE  LegalBudget(ApplyReviewAnswers(Draft(request), answers))
<1> DEFINE draft == Draft(request)
           i     == ApplyReviewAnswers(draft, answers)
<1>1. /\ request.total_paise \in Nat
      /\ answers.escalate_above_paise \in Int \cup {None}
  BY SessionAssumption
<1>2. /\ draft.total_paise = request.total_paise
      /\ draft.escalate_above_paise = request.total_paise
      /\ {"total_paise", "escalate_above_paise"} \subseteq DOMAIN draft
  BY DEF Draft
<1> HIDE DEF draft
<1>3. /\ i.total_paise = draft.total_paise
      /\ {"total_paise", "escalate_above_paise"} \subseteq DOMAIN i
      /\ i.escalate_above_paise =
           IF answers.escalate_above_paise = None THEN draft.escalate_above_paise
           ELSE LesserOf(answers.escalate_above_paise, draft.total_paise)
  BY <1>2 DEF ApplyReviewAnswers
<1> HIDE DEF i
<1>4. LegalBudget(i)
  BY <1>1, <1>2, <1>3 DEF LegalBudget, LesserOf
<1>5. QED
  BY <1>4 DEF i, draft

\* The amended intent: same hard limit, and the tripwire is the one before
\* or the total of the cart the human saw.
LEMMA AmendedBudget ==
  ASSUME NEW i, NEW d, NEW c, NEW id, LegalBudget(i),
         c.total_paise \in Nat, c.total_paise <= i.total_paise
  PROVE  LET amended == BuildAmendedIntent(i, d, c, Start, id)
         IN  /\ LegalBudget(amended)
             /\ amended.total_paise = i.total_paise
             /\ amended.escalate_above_paise \in {i.escalate_above_paise, c.total_paise}
<1> DEFINE amended == BuildAmendedIntent(i, d, c, Start, id)
           over    == "ESCALATION_THRESHOLD" \in d.failed
<1>1. /\ {"total_paise", "escalate_above_paise"} \subseteq DOMAIN amended
      /\ amended.total_paise =
           IF over THEN GreaterOf(i.total_paise, c.total_paise) ELSE i.total_paise
      /\ amended.escalate_above_paise =
           IF over THEN c.total_paise ELSE i.escalate_above_paise
  BY DEF BuildAmendedIntent, LegalBudget
<1> HIDE DEF amended, over
<1>2. amended.total_paise = i.total_paise
  BY <1>1 DEF GreaterOf, LegalBudget
<1>3. LegalBudget(amended)
  BY <1>1, <1>2 DEF LegalBudget
<1>4. QED
  BY <1>1, <1>2, <1>3 DEF amended

-----------------------------------------------------------------------------
(* The invariant is inductive. *)

LEMMA InitInv == Init => IInv
<1> SUFFICES ASSUME Init PROVE IInv
  OBVIOUS
<1>1. stage = "interpreting" /\ orders = {} /\ agreed = {}
  BY DEF Init
<1>2. Types
  <2>1. offer_made \in BOOLEAN
    BY DEF Init
  <2>2. stage \in Stages \ {"refused"}
    BY <1>1 DEF Stages
  <2>3. minted \in Nat /\ clock \in Start..MaxClock
    BY SessionAssumption DEF Init, Start
  <2>4. QED
    BY <2>1, <2>2, <2>3 DEF Types
<1>3. Mandate /\ Carts /\ Verdicts
  BY <1>1 DEF Mandate, Carts, Verdicts, CartStages, ApprovedStages, HasSigned
<1>4. Consent /\ Orders
  BY <1>1 DEF Consent, Orders, HasSigned
<1>5. QED
  BY <1>2, <1>3, <1>4 DEF IInv

\* The steps that only move the session on keep what the invariant says.
LEMMA BookkeepingKeepsInv ==
  ASSUME IInv,
         \/ NothingToSign \/ MerchantDeclines \/ NoFallBack \/ HumanDeclines
         \/ CancelPurchase \/ BuyPrimary \/ ClientRaises \/ Reconcile
         \/ HumanThinks \/ UNCHANGED vars
  PROVE  IInv'
<1> USE DEF IInv, Types, Mandate, Carts, Verdicts, Consent, Orders, Stages,
            CartStages, ApprovedStages, HasSigned, world, session, outcomes, history
<1>1. CASE NothingToSign
  BY <1>1 DEF NothingToSign
<1>2. CASE MerchantDeclines
  BY <1>2 DEF MerchantDeclines
<1>3. CASE NoFallBack
  BY <1>3 DEF NoFallBack
<1>4. CASE HumanDeclines
  BY <1>4 DEF HumanDeclines
<1>5. CASE CancelPurchase
  BY <1>5 DEF CancelPurchase
<1>6. CASE BuyPrimary
  BY <1>6 DEF BuyPrimary
<1>7. CASE ClientRaises
  BY <1>7 DEF ClientRaises
<1>8. CASE Reconcile
  BY <1>8 DEF Reconcile
<1>9. CASE HumanThinks
  BY <1>9, SessionAssumption DEF HumanThinks, Start
<1>10. CASE UNCHANGED vars
  BY <1>10 DEF vars
<1>11. QED
  BY <1>1, <1>2, <1>3, <1>4, <1>5, <1>6, <1>7, <1>8, <1>9, <1>10

LEMMA SignIntentKeepsInv ==
  ASSUME IInv, SignIntent
  PROVE  IInv'
<1>1. LegalBudget(intent') /\ signed' = intent' /\ granted' = intent'
  BY DraftIsLegal DEF SignIntent
<1>2. QED
  BY <1>1
     DEF SignIntent, IInv, Types, Mandate, Carts, Verdicts, Consent, Orders, Stages,
         CartStages, ApprovedStages, HasSigned, LegalBudget, outcomes

\* A negotiation brings carts that answer the intent, and the ids it draws
\* and the flag it sets keep their types.
LEMMA NegotiationKeeps ==
  ASSUME NEW i, Types, Proposed(i)
  PROVE  /\ offer_made' \in BOOLEAN /\ minted' \in Nat
         /\ AnswersTo(ProposalFor(i).cart_envelope.payload, i)
         /\ ProposalFor(i).cart_envelope.payload.total_paise =
              ProposedLine(i, offer_made).unit_price_paise
         /\ \A k \in DOMAIN ProposalFor(i).alternative_envelopes :
              AnswersTo(ProposalFor(i).alternative_envelopes[k].payload, i)
         /\ ProposedLine(i, offer_made').unit_price_paise
              <= ProposedLine(i, offer_made).unit_price_paise
<1>1. MatchingItems(i) # {}
  BY DEF Proposed
<1>2. offer_made' \in BOOLEAN
  BY DEF Proposed, MakesOffer, Types
<1>3. minted' \in Nat
  <2>1. Minted(i, offer_made) \in Nat
    BY <1>1, MintedNat
  <2>2. QED
    BY <2>1 DEF Proposed, Types
<1>4. ProposedLine(i, offer_made').unit_price_paise
        <= ProposedLine(i, offer_made).unit_price_paise
  BY <1>1, OfferIsMadeOnce DEF Proposed, Types
<1>5. QED
  BY <1>1, <1>2, <1>3, <1>4, ProposalCarts DEF ProposalFor, AnswersTo

LEMMA NegotiateKeepsInv ==
  ASSUME IInv, Negotiate
  PROVE  IInv'
<1>1. /\ offer_made' \in BOOLEAN /\ minted' \in Nat
      /\ AnswersTo(cart', intent)
      /\ \A k \in DOMAIN alternatives' : AnswersTo(alternatives'[k].payload, intent)
  BY NegotiationKeeps DEF Negotiate, IInv
<1>2. QED
  BY <1>1
     DEF Negotiate, IInv, Types, Mandate, Carts, Verdicts, Consent, Orders, Stages,
         CartStages, ApprovedStages, HasSigned, AnswersTo, world, outcomes, history

LEMMA EvaluatePrimaryKeepsInv ==
  ASSUME IInv, EvaluatePrimary
  PROVE  IInv'
<1>1. /\ stage' \in {"suggesting", "escalated", "rejected"}
      /\ stage' = "suggesting" => /\ decision'.outcome = "APPROVED"
                                  /\ cart.total_paise <= intent.escalate_above_paise
      /\ stage' = "escalated" => cart.total_paise <= intent.total_paise
  <2>1. LegalBudget(intent) /\ cart.total_paise \in Nat
    BY DEF EvaluatePrimary, IInv, Mandate, Carts, CartStages, HasSigned, AnswersTo
  <2>2. QED
    BY <2>1, StageAfterMeans, VerdictBoundsAmount DEF EvaluatePrimary, Verdict
<1>2. QED
  BY <1>1
     DEF EvaluatePrimary, IInv, Types, Mandate, Carts, Verdicts, Consent, Orders,
         Stages, CartStages, ApprovedStages, HasSigned, Evaluated, world, outcomes

LEMMA FallBackKeepsInv ==
  ASSUME IInv, FallBack
  PROVE  IInv'
<1>1. PICK k \in DOMAIN alternatives : cart' = alternatives[k].payload
  BY DEF FallBack
<1>2. AnswersTo(cart', intent)
  BY <1>1 DEF FallBack, IInv, Carts, CartStages
<1>3. /\ stage' \in {"suggesting", "escalated", "rejected"}
      /\ stage' = "suggesting" => /\ decision'.outcome = "APPROVED"
                                  /\ cart'.total_paise <= intent.escalate_above_paise
      /\ stage' = "escalated" => cart'.total_paise <= intent.total_paise
  <2>1. LegalBudget(intent) /\ cart'.total_paise \in Nat
    BY <1>2 DEF FallBack, IInv, Mandate, HasSigned, AnswersTo
  <2>2. QED
    BY <2>1, StageAfterMeans, VerdictBoundsAmount DEF FallBack, Verdict
<1>4. QED
  BY <1>2, <1>3
     DEF FallBack, IInv, Types, Mandate, Carts, Verdicts, Consent, Orders, Stages,
         CartStages, ApprovedStages, HasSigned, Evaluated, world, outcomes

LEMMA HumanAgreesKeepsInv ==
  ASSUME IInv, HumanAgrees
  PROVE  /\ IInv'
         /\ signed'.total_paise = signed.total_paise
         /\ signed'.escalate_above_paise
              \in {signed.escalate_above_paise, cart.total_paise}
<1>1. /\ LegalBudget(intent) /\ signed = intent
      /\ cart.total_paise \in Nat /\ cart.total_paise <= intent.total_paise
  BY DEF HumanAgrees, IInv, Mandate, Carts, Verdicts, CartStages, HasSigned, AnswersTo
<1>2. /\ LegalBudget(signed') /\ signed' = resolution'.amended_intent
      /\ signed'.total_paise = signed.total_paise
      /\ signed'.escalate_above_paise
           \in {signed.escalate_above_paise, cart.total_paise}
  BY <1>1, AmendedBudget DEF HumanAgrees
<1>3. Consent'
  BY <1>1, <1>2 DEF HumanAgrees, IInv, Mandate, Consent, HasSigned, LegalBudget
<1>4. (Types /\ Mandate /\ Carts /\ Verdicts /\ Orders)'
  BY <1>1, <1>2
     DEF HumanAgrees, IInv, Types, Mandate, Carts, Verdicts, Orders, Stages,
         CartStages, ApprovedStages, HasSigned, world, session, outcomes
<1>5. QED
  BY <1>2, <1>3, <1>4 DEF IInv

\* The re-evaluated cart is gone when the verdict is used, but the cart that
\* takes its place costs no more: the driver's offer has been used up.
LEMMA ReevaluateKeepsInv ==
  ASSUME IInv, Reevaluate
  PROVE  IInv'
<1> DEFINE amended  == resolution.amended_intent
           envelope == ProposalFor(amended).cart_envelope
           context  == ResolvedContext(Context(intent_envelope, cart_envelope),
                                       resolution.amended_envelope, envelope)
           verdict  == Evaluate(amended, envelope.payload, Policy, context, Start)
<1>1. LegalBudget(amended) /\ amended = signed
  BY DEF Reevaluate, IInv, Mandate, HasSigned
<1>2. /\ offer_made' \in BOOLEAN /\ minted' \in Nat
      /\ envelope.payload.total_paise \in Nat
      /\ envelope.payload.total_paise = ProposedLine(amended, offer_made).unit_price_paise
      /\ ProposedLine(amended, offer_made').unit_price_paise
           <= ProposedLine(amended, offer_made).unit_price_paise
      /\ ProposedLine(amended, offer_made').unit_price_paise \in Nat
  <2>1. Proposed(amended)
    BY DEF Reevaluate
  <2>2. MatchingItems(amended) # {}
    BY <2>1 DEF Proposed
  <2>3. ProposedLine(amended, offer_made').unit_price_paise \in Nat
    <3>1. Proposal(amended, offer_made', Start, minted).cart_envelope.payload.total_paise
            = ProposedLine(amended, offer_made').unit_price_paise
      BY <2>2, ProposalCarts
    <3>2. QED
      BY <2>2, <3>1, ProposalCarts
  <2>4. QED
    BY <2>1, <2>3, NegotiationKeeps DEF IInv, AnswersTo
<1>3. verdict.outcome = "APPROVED" =>
        envelope.payload.total_paise <= amended.escalate_above_paise
  BY <1>1, <1>2, VerdictBoundsAmount
<1>4. /\ stage' \in {"recovering", "ended"}
      /\ stage' = "recovering" => verdict.outcome = "APPROVED"
      /\ resolution'.amended_intent = amended
      /\ resolution'.final_decision = verdict
      /\ UNCHANGED <<world, session, suggestion, outcomes, clock, granted, signed, agreed>>
  BY DEF Reevaluate, Evaluated
<1> HIDE DEF verdict, context, envelope
<1>5. Verdicts'
  <2>1. ASSUME stage' = "recovering"
        PROVE  ProposedLine(signed, offer_made').unit_price_paise
                 <= signed.escalate_above_paise
    BY <1>1, <1>2, <1>3, <1>4, <2>1 DEF LegalBudget
  <2>2. QED
    BY <1>4, <2>1 DEF Verdicts, ApprovedStages
<1> HIDE DEF amended
<1>6. (Types /\ Mandate /\ Carts /\ Consent /\ Orders)'
  BY <1>1, <1>2, <1>4
     DEF Reevaluate, IInv, Types, Mandate, Carts, Consent, Orders, Stages,
         CartStages, HasSigned, world, session, outcomes
<1>7. QED
  BY <1>5, <1>6 DEF IInv

LEMMA RecoverCartKeepsInv ==
  ASSUME IInv, RecoverCart
  PROVE  IInv'
<1>1. /\ intent' = signed /\ LegalBudget(intent')
      /\ resolution.final_decision.outcome = "APPROVED"
      /\ ProposedLine(signed, offer_made).unit_price_paise <= signed.escalate_above_paise
  BY DEF RecoverCart, AdoptResolution, IInv, Mandate, Verdicts, HasSigned
<1>2. resolution.amended_intent = signed
  BY DEF RecoverCart, IInv, Mandate
<1>3. /\ offer_made' \in BOOLEAN /\ minted' \in Nat
      /\ AnswersTo(cart', intent')
      /\ cart'.total_paise <= intent'.escalate_above_paise
      /\ \A k \in DOMAIN alternatives' : AnswersTo(alternatives'[k].payload, intent')
  BY <1>1, <1>2, NegotiationKeeps DEF RecoverCart, AdoptResolution, IInv
<1>4. QED
  BY <1>1, <1>3
     DEF RecoverCart, AdoptResolution, IInv, Types, Mandate, Carts, Verdicts, Consent, Orders, Stages,
         CartStages, ApprovedStages, HasSigned, outcomes, history

LEMMA SuggestKeepsInv ==
  ASSUME IInv, Suggest
  PROVE  IInv'
<1>1. suggestion' # None => AnswersTo(suggestion', intent)
  BY DEF Suggest, IInv, Carts, CartStages
<1>2. QED
  BY <1>1
     DEF Suggest, IInv, Types, Mandate, Carts, Verdicts, Consent, Orders, Stages,
         CartStages, ApprovedStages, HasSigned, world, session, outcomes, history

LEMMA BuySuggestionKeepsInv ==
  ASSUME IInv, BuySuggestion
  PROVE  IInv'
<1>1. /\ AnswersTo(cart', intent)
      /\ decision'.outcome = "APPROVED"
      /\ cart'.total_paise <= intent.escalate_above_paise
  <2>1. /\ LegalBudget(intent) /\ AnswersTo(suggestion, intent)
        /\ AnswersTo(cart, intent) /\ decision.outcome = "APPROVED"
        /\ cart.total_paise <= intent.escalate_above_paise
    BY DEF BuySuggestion, IInv, Mandate, Carts, Verdicts, CartStages, ApprovedStages,
           HasSigned
  <2>2. CASE Verdict(suggestion, alternatives[1]).outcome = "APPROVED"
    BY <2>1, <2>2, VerdictBoundsAmount DEF BuySuggestion, SuggestionIfApproved, Verdict, AnswersTo
  <2>3. CASE Verdict(suggestion, alternatives[1]).outcome # "APPROVED"
    BY <2>1, <2>3 DEF BuySuggestion, SuggestionIfApproved
  <2>4. QED
    BY <2>2, <2>3
<1>2. QED
  BY <1>1
     DEF BuySuggestion, IInv, Types, Mandate, Carts, Verdicts, Consent, Orders, Stages,
         CartStages, ApprovedStages, HasSigned, world, outcomes

\* An order is asked for once, and under the tripwire in force.
LEMMA OrderingKeepsInv ==
  ASSUME IInv, Execute \/ AnswerLost
  PROVE  /\ IInv'
         /\ orders = {} /\ orders' = {NewOrder}
         /\ NewOrder.amount_paise = cart.total_paise
         /\ cart.total_paise \in Nat /\ cart.total_paise <= signed.escalate_above_paise
<1>1. /\ orders = {} /\ signed = intent /\ decision.outcome = "APPROVED"
      /\ cart.total_paise \in Nat /\ cart.total_paise <= signed.escalate_above_paise
  BY DEF Execute, AnswerLost, IInv, Mandate, Carts, Verdicts, Orders, CartStages,
         ApprovedStages, AnswersTo
<1>2. /\ orders' = {NewOrder} /\ stage' \in {"reconciling", "unanswered"}
      /\ UNCHANGED <<world, offer_made, session, resolution, suggestion, artifact,
                     minted, clock, history>>
  BY <1>1 DEF Execute, AnswerLost
<1>3. /\ NewOrder.amount_paise = cart.total_paise
      /\ NewOrder.intent_hash = Digest(intent) /\ NewOrder.cart_hash = Digest(cart)
  BY DEF NewOrder
<1>4. Orders'
  BY <1>1, <1>2, <1>3 DEF Orders, session, world, history
<1>5. (Types /\ Mandate /\ Carts /\ Verdicts /\ Consent)'
  BY <1>2
     DEF Execute, AnswerLost, IInv, Types, Mandate, Carts, Verdicts, Consent, Stages,
         CartStages, ApprovedStages, HasSigned, session, world, history
<1>6. QED
  BY <1>1, <1>2, <1>3, <1>4, <1>5 DEF IInv

LEMMA NextInv ==
  ASSUME IInv, [Next]_vars
  PROVE  IInv'
  BY BookkeepingKeepsInv, SignIntentKeepsInv, NegotiateKeepsInv,
     EvaluatePrimaryKeepsInv, FallBackKeepsInv, HumanAgreesKeepsInv,
     ReevaluateKeepsInv, RecoverCartKeepsInv, SuggestKeepsInv,
     BuySuggestionKeepsInv, OrderingKeepsInv
     DEF Next, Ended

THEOREM Invariance == Spec => []IInv
<1>1. Init => IInv
  BY InitInv
<1>2. IInv /\ [Next]_vars => IInv'
  BY NextInv
<1>3. QED
  BY <1>1, <1>2, PTL DEF Spec

-----------------------------------------------------------------------------
(* What follows from the invariant. *)

\* In every session the variables keep their types and the mandates and
\* carts of main have amounts whenever main reads them.
THEOREM TypeCorrect == Spec => []TypeOK
<1>1. IInv => TypeOK
  BY DEF IInv, TypeOK, Types, Mandate, Carts, Orders, Stages, CartStages, HasSigned,
         LegalBudget, AnswersTo
<1>2. QED
  BY <1>1, Invariance, PTL

\* main never calls execute on anything but an approval: the ExecutionRefused
\* of execute.py is unreachable, whatever the merchant's catalog and policy.
THEOREM ExecuteNeverRefuses == Spec => []NeverRefused
<1>1. IInv => NeverRefused
  BY DEF IInv, Types, NeverRefused
<1>2. QED
  BY <1>1, Invariance, PTL

\* The notes of an order, written by execute, bind the mandate the human
\* signed last to a cart that answers it, for every path of main to it.
THEOREM OrderBindsItsChain == Spec => []OrderBindsTheChain
<1>1. IInv => OrderBindsTheChain
  BY DEF IInv, OrderBindsTheChain, Mandate, Carts, Orders, CartStages, AnswersTo
<1>2. QED
  BY <1>1, Invariance, PTL

\* No order is above the tripwire granted first unless the human agreed to a
\* cart of that amount or more, although resolve_escalation evaluates one
\* cart and main orders another.
THEOREM TripwireIsHonoured == Spec => []TripwireHonoured
<1>1. IInv => TripwireHonoured
  <2> SUFFICES ASSUME IInv, NEW o \in orders
               PROVE  \/ o.amount_paise <= granted.escalate_above_paise
                      \/ \E c \in agreed : o.amount_paise <= c.total_paise
    BY DEF TripwireHonoured
  <2>1. HasSigned
    BY DEF IInv, Orders, HasSigned
  <2>2. /\ o.amount_paise \in Nat /\ o.amount_paise <= signed.escalate_above_paise
        /\ signed.escalate_above_paise \in Int /\ granted.escalate_above_paise \in Int
    BY <2>1 DEF IInv, Orders, Mandate, LegalBudget
  <2>3. CASE signed.escalate_above_paise <= granted.escalate_above_paise
    BY <2>2, <2>3
  <2>4. CASE \E c \in agreed : signed.escalate_above_paise <= c.total_paise
    BY <2>2, <2>4 DEF IInv, Consent
  <2>5. QED
    BY <2>1, <2>3, <2>4 DEF IInv, Consent
<1>2. QED
  BY <1>1, Invariance, PTL

-----------------------------------------------------------------------------
(* The session implements SpendingAuthority. *)

LEMMA AuthorityInit == Init => Authority!Init
  BY DEF Init, Authority!Init, HasSigned

\* Every step but four leaves the authority alone.
LEMMA AuthorityStutters ==
  ASSUME [Next]_vars, ~SignIntent, ~HumanAgrees, ~Execute, ~AnswerLost
  PROVE  UNCHANGED Authority!vars
<1>1. UNCHANGED <<signed, agreed, orders>>
  BY DEF Next, vars, world, session, outcomes, history, NothingToSign, Negotiate,
         MerchantDeclines, EvaluatePrimary, Evaluated, FallBack, NoFallBack,
         HumanDeclines, Reevaluate, RecoverCart, Suggest, CancelPurchase, BuyPrimary,
         BuySuggestion, ClientRaises, Reconcile, HumanThinks, Ended
<1>2. CASE EvaluatePrimary \/ FallBack
  <2>1. /\ stage \in {"evaluating", "rejected"}
        /\ stage' \in {"suggesting", "escalated", "rejected"}
    BY <1>2, StageAfterMeans DEF EvaluatePrimary, FallBack, Verdict
  <2>2. QED
    BY <1>1, <2>1 DEF HasSigned, Authority!vars
<1>3. CASE ~EvaluatePrimary /\ ~FallBack
  <2>1. \/ stage' = stage
        \/ stage = "interpreting" /\ stage' = "unsigned"
        \/ HasSigned /\ HasSigned'
    BY <1>3
       DEF Next, vars, HasSigned, NothingToSign, Negotiate, MerchantDeclines,
           NoFallBack, HumanDeclines, Reevaluate, RecoverCart, Suggest,
           CancelPurchase, BuyPrimary, BuySuggestion, ClientRaises, Reconcile,
           HumanThinks, Ended
  <2>2. QED
    BY <1>1, <2>1 DEF HasSigned, Authority!vars
<1>4. QED
  BY <1>2, <1>3

\* The first signature grants.
LEMMA AuthorityGrants ==
  ASSUME IInv, SignIntent
  PROVE  Authority!Grant
<1>1. LegalBudget(signed')
  BY DraftIsLegal DEF SignIntent
<1>2. ~HasSigned /\ HasSigned' /\ agreed' = agreed /\ orders' = orders
  BY DEF SignIntent, HasSigned, outcomes
<1>3. QED
  BY <1>1, <1>2 DEF Authority!Grant, LegalBudget

\* A yes at the prompt agrees to the total of the cart on the screen.
LEMMA AuthorityAgrees ==
  ASSUME IInv, HumanAgrees
  PROVE  Authority!Agree
<1> DEFINE amount  == cart.total_paise
           amounts == {c.total_paise : c \in agreed}
<1>1. HasSigned /\ HasSigned' /\ orders = {} /\ orders' = {}
  BY DEF HumanAgrees, IInv, Orders, HasSigned, outcomes
<1>2. /\ amount \in Nat /\ amount <= signed.total_paise
      /\ agreed' = agreed \cup {cart}
  BY DEF HumanAgrees, IInv, Mandate, Carts, Verdicts, CartStages, AnswersTo
<1>3. /\ signed'.total_paise = signed.total_paise
      /\ signed'.escalate_above_paise \in {signed.escalate_above_paise, amount}
  BY HumanAgreesKeepsInv
<1>4. {c.total_paise : c \in agreed'} = amounts \cup {amount}
  BY <1>2
<1> HIDE DEF amount, amounts
<1>5. QED
  BY <1>1, <1>2, <1>3, <1>4 DEF Authority!Agree, amounts

\* Asking for an order spends, whether or not its answer arrives.
LEMMA AuthoritySpends ==
  ASSUME IInv, Execute \/ AnswerLost
  PROVE  Authority!Spend
<1>1. /\ orders = {} /\ orders' = {NewOrder} /\ signed' = signed /\ agreed' = agreed
      /\ cart.total_paise \in Nat /\ cart.total_paise <= signed.escalate_above_paise
  BY OrderingKeepsInv DEF Execute, AnswerLost, history
<1>2. HasSigned /\ HasSigned'
  BY <1>1, OrderingKeepsInv DEF Execute, AnswerLost, HasSigned, IInv, Orders
<1>3. {o.amount_paise : o \in orders'} = {cart.total_paise}
  BY <1>1, OrderingKeepsInv
<1>4. QED
  BY <1>1, <1>2, <1>3 DEF Authority!Spend

\* The session spends at most once, within the mandate signed last, whose
\* hard limit never moves and whose tripwire rises only to an amount the
\* human agreed to: every run of main is a run of SpendingAuthority.
THEOREM SessionImplementsAuthority == Spec => ImplementsSpendingAuthority
<1>1. Init => Authority!Init
  BY AuthorityInit
<1>2. IInv /\ [Next]_vars => [Authority!Next]_(Authority!vars)
  BY AuthorityStutters, AuthorityGrants, AuthorityAgrees, AuthoritySpends
     DEF Authority!Next
<1>3. QED
  BY <1>1, <1>2, Invariance, PTL DEF Spec, ImplementsSpendingAuthority, Authority!Spec

-----------------------------------------------------------------------------
(* What the promise amounts to, for the session and whoever keeps it. *)

Limit == IF HasSigned THEN signed.total_paise ELSE 0
Tripwire == IF HasSigned THEN signed.escalate_above_paise ELSE 0
Spent == {o.amount_paise : o \in orders}

\* The tripwire is never above the limit and holds what is spent.
AuthorityInv ==
  /\ Limit \in Nat /\ Tripwire \in Int /\ Tripwire <= Limit
  /\ ~HasSigned => Spent = {}
  /\ Spent # {} => \E amount \in Nat : Spent = {amount} /\ amount <= Tripwire

\* The promise alone implies one payment at most, within the hard limit.
LEMMA AuthorityPaysOnce == Authority!Spec => []Authority!SpentWithinLimit
<1> USE DEF Limit, Tripwire, Spent
<1>1. Authority!Init => AuthorityInv
  BY DEF Authority!Init, AuthorityInv
<1>2. ASSUME AuthorityInv, [Authority!Next]_(Authority!vars)
      PROVE  AuthorityInv'
  <2>1. CASE Authority!Grant
    BY <1>2, <2>1 DEF Authority!Grant, AuthorityInv
  <2>2. CASE Authority!Agree
    BY <1>2, <2>2 DEF Authority!Agree, AuthorityInv
  <2>3. CASE Authority!Spend
    BY <1>2, <2>3 DEF Authority!Spend, AuthorityInv
  <2>4. CASE UNCHANGED Authority!vars
    BY <1>2, <2>4 DEF Authority!vars, AuthorityInv
  <2>5. QED
    BY <1>2, <2>1, <2>2, <2>3, <2>4 DEF Authority!Next
<1>3. AuthorityInv => Authority!SpentWithinLimit
  BY DEF AuthorityInv, Authority!SpentWithinLimit
<1>4. QED
  BY <1>1, <1>2, <1>3, PTL DEF Authority!Spec

\* Money leaves the account once, within the hard limit of the Budget the
\* human signed: the session inherits it from the promise it implements.
THEOREM PaysOnceWithinLimit == Spec => []Authority!SpentWithinLimit
  BY SessionImplementsAuthority, AuthorityPaysOnce, PTL DEF ImplementsSpendingAuthority

-----------------------------------------------------------------------------
(***************************************************************************)
(* What is ordered, and what it costs: a second invariant, on what the     *)
(* driver has proposed and what the evaluations said of it.                *)
(***************************************************************************)

\* The fields the driver reads of an intent, which no amendment touches, and
\* the cap the policy engine holds its items against.
DriverTerms == {"category", "required_attributes", "excluded_categories"}

HasTerms(i) == DriverTerms \cup {"per_item_paise"} \subseteq DOMAIN i /\ i.per_item_paise \in Int

\* Once the driver has answered an intent it makes no offer for it any more:
\* its offer has been made, or there is none for what the intent asks for.
OfferSettled ==
  /\ HasSigned => HasTerms(signed)
  /\ stage \in CartStages \cup {"resolving", "recovering"} =>
       ~MakesOffer(signed, offer_made)

\* Some evaluation approved this content under the mandate in force.
ContentApproved(content) ==
  \E e \in evaluated :
    e.outcome = "APPROVED" /\ e.intent = signed /\ Content(e.cart) = content

\* What is approved is the content in hand; at "recovering", where there is
\* none in hand, the content the driver is about to propose.
ApprovalStands ==
  /\ stage \in ApprovedStages \cup {"reconciling", "unanswered", "ordered"} =>
       ContentApproved(Content(cart))
  /\ stage = "recovering" =>
       ContentApproved(Content(ProposalFor(signed).cart_envelope.payload))

\* The alternatives are items that match, the cheapest one first.
IsMenu(envelopes, i) ==
  /\ \E n \in Nat : DOMAIN envelopes = 1..n
  /\ \A k \in DOMAIN envelopes : \E x \in MatchingItems(i) : CartOf(envelopes[k], x, FALSE, i)
  /\ \A j, k \in DOMAIN envelopes :
       j <= k => envelopes[j].payload.total_paise <= envelopes[k].payload.total_paise

\* The session holds carts of this driver's.
DriversCarts ==
  stage \in {"evaluating", "rejected", "suggesting", "choosing"} =>
    /\ cart = cart_envelope.payload
    /\ \E y \in DOMAIN Catalog, isUpsell \in BOOLEAN : CartOf(cart_envelope, y, isUpsell, intent)
    /\ IsMenu(alternatives, intent)

\* The first alternative, cheaper than the cart in hand, would be approved.
FirstIsApproved ==
  /\ 1 \in DOMAIN alternatives
  /\ alternatives[1].payload.total_paise < cart.total_paise
  /\ Verdict(alternatives[1].payload, alternatives[1]).outcome = "APPROVED"

\* A cheaper suggestion than the cart in hand is one that will be approved,
\* so that no pick of the human's ends in paying more than its price.
CheaperIsApproved ==
  /\ stage = "suggesting" =>
       \/ \A k \in DOMAIN alternatives :
            cart.total_paise <= alternatives[k].payload.total_paise
       \/ FirstIsApproved
  /\ stage = "choosing" /\ suggestion # None =>
       \/ cart.total_paise <= suggestion.total_paise
       \/ FirstIsApproved /\ suggestion = alternatives[1].payload
  /\ stage \in {"executing", "reconciling", "unanswered", "ordered"} =>
       cart.total_paise <= picked.total_paise
  /\ \A o \in orders : o.amount_paise = cart.total_paise

PurchaseInv == OfferSettled /\ ApprovalStands /\ DriversCarts /\ CheaperIsApproved

\* The intent of a request carries the fields the driver reads, and an
\* amendment takes them over.
LEMMA DraftHasTerms ==
  ASSUME NEW request \in Requests, NEW answers \in ReviewAnswers
  PROVE  HasTerms(ApplyReviewAnswers(Draft(request), answers))
<1> DEFINE draft == Draft(request)
           i     == ApplyReviewAnswers(draft, answers)
<1>1. DriverTerms \cup {"per_item_paise"} \subseteq DOMAIN draft
  BY DEF Draft, DriverTerms
<1>2. draft.per_item_paise =
        IF request.per_item_paise \in {None, 0} THEN request.total_paise
        ELSE LesserOf(request.per_item_paise, request.total_paise)
  BY DEF Draft
<1>3. draft.per_item_paise \in Int
  BY <1>2, SessionAssumption DEF LesserOf
<1> HIDE DEF draft
<1>4. DOMAIN i = DOMAIN draft /\ i.per_item_paise = draft.per_item_paise
  BY <1>1 DEF ApplyReviewAnswers
<1> HIDE DEF i
<1>5. HasTerms(i)
  BY <1>1, <1>3, <1>4 DEF HasTerms
<1>6. QED
  BY <1>5 DEF i, draft

LEMMA AmendedTerms ==
  ASSUME NEW i, NEW d, NEW c, NEW id, HasTerms(i)
  PROVE  LET amended == BuildAmendedIntent(i, d, c, Start, id)
         IN  /\ HasTerms(amended)
             /\ amended.category = i.category
             /\ amended.required_attributes = i.required_attributes
             /\ amended.excluded_categories = i.excluded_categories
<1> DEFINE amended == BuildAmendedIntent(i, d, c, Start, id)
<1>1. /\ DOMAIN amended = DOMAIN i
      /\ \A field \in DriverTerms \cup {"per_item_paise"} : amended[field] = i[field]
  BY DEF BuildAmendedIntent, HasTerms, DriverTerms
<1> HIDE DEF amended
<1>2. HasTerms(amended)
  BY <1>1 DEF HasTerms
<1>3. QED
  BY <1>1, <1>2 DEF DriverTerms, amended

\* A negotiation settles the offer for the intent it is about.
LEMMA OfferIsSettled ==
  ASSUME NEW i, Types, Proposed(i)
  PROVE  ~MakesOffer(i, offer_made')
  BY DEF Types, Proposed, MakesOffer

\* A proposal is a cart of one item with a menu of alternatives, and its
\* content depends on its line only.
LEMMA ProposalIsTheDrivers ==
  ASSUME NEW i, NEW offerMade, NEW id \in Nat, MatchingItems(i) # {}
  PROVE  LET proposal == Proposal(i, offerMade, Start, id)
         IN  /\ \E y \in DOMAIN Catalog, isUpsell \in BOOLEAN :
                  CartOf(proposal.cart_envelope, y, isUpsell, i)
             /\ IsMenu(proposal.alternative_envelopes, i)
             /\ ~MakesOffer(i, offerMade) =>
                  \A k \in DOMAIN proposal.alternative_envelopes :
                    proposal.cart_envelope.payload.total_paise <=
                      proposal.alternative_envelopes[k].payload.total_paise
<1> DEFINE proposal == Proposal(i, offerMade, Start, id)
           others   == AlternativeItems(i, offerMade)
           menu     == proposal.alternative_envelopes
<1>1. /\ proposal.cart_envelope = SignedCart(ProposedLine(i, offerMade), i, Start, id + 1)
      /\ DOMAIN menu = DOMAIN others
      /\ \A k \in DOMAIN others :
           menu[k] = SignedCart(ItemLine(others[k], FALSE), i, Start, id + 1 + k)
  BY DEF Proposal
<1>2. /\ others \in Seq(MatchingItems(i))
      /\ \A j, k \in DOMAIN others :
           j <= k => Catalog[others[j]].price_paise <= Catalog[others[k]].price_paise
      /\ \A k \in DOMAIN others :
           Catalog[Primary(i)].price_paise <= Catalog[others[k]].price_paise
  BY AlternativesAreSorted
<1>3. \E y \in DOMAIN Catalog, isUpsell \in BOOLEAN :
        ProposedLine(i, offerMade) = ItemLine(y, isUpsell)
  BY PrimaryMatches, PremiumIsDearer DEF ProposedLine, MakesOffer
<1> HIDE DEF proposal, others
<1>4. \E y \in DOMAIN Catalog, isUpsell \in BOOLEAN :
        CartOf(proposal.cart_envelope, y, isUpsell, i)
  <2>1. id + 1 \in Int
    OBVIOUS
  <2>2. QED
    BY <1>1, <1>3, <2>1 DEF CartOf
<1>5. \A k \in DOMAIN menu :
        /\ others[k] \in MatchingItems(i)
        /\ CartOf(menu[k], others[k], FALSE, i)
  <2>1. \A k \in DOMAIN others : k \in Nat /\ others[k] \in MatchingItems(i)
    BY <1>2
  <2>2. \A k \in DOMAIN others : id + 1 + k \in Int
    BY <2>1
  <2>3. QED
    BY <1>1, <2>1, <2>2 DEF CartOf
<1>6. \A k \in DOMAIN menu : menu[k].payload.total_paise = Catalog[others[k]].price_paise
  <2> TAKE k \in DOMAIN menu
  <2> DEFINE line == ItemLine(others[k], FALSE)
  <2>1. others[k] \in DOMAIN Catalog
    BY <1>5 DEF MatchingItems
  <2>2. /\ line.unit_price_paise = Catalog[others[k]].price_paise
        /\ line.unit_price_paise \in Nat /\ line.quantity = 1
    BY <2>1, CatalogAssumption DEF ItemLine
  <2>3. menu[k] = SignedCart(line, i, Start, id + 1 + k)
    BY <1>1
  <2> HIDE DEF line
  <2>4. QED
    BY <2>2, <2>3, OneItemCart
<1>7. IsMenu(menu, i)
  <2>1. \E n \in Nat : DOMAIN menu = 1..n
    BY <1>1, <1>2
  <2>2. \A k \in DOMAIN menu : \E x \in MatchingItems(i) : CartOf(menu[k], x, FALSE, i)
    BY <1>5
  <2>3. \A j, k \in DOMAIN menu :
          j <= k => menu[j].payload.total_paise <= menu[k].payload.total_paise
    BY <1>1, <1>2, <1>6
  <2> HIDE DEF menu
  <2>4. QED
    BY <2>1, <2>2, <2>3 DEF IsMenu
<1>8. ASSUME ~MakesOffer(i, offerMade), NEW k \in DOMAIN menu
      PROVE  proposal.cart_envelope.payload.total_paise <= menu[k].payload.total_paise
  <2>1. proposal.cart_envelope.payload.total_paise =
          ProposedLine(i, offerMade).unit_price_paise
    BY ProposalCarts DEF proposal
  <2>2. ProposedLine(i, offerMade).unit_price_paise = Catalog[Primary(i)].price_paise
    BY <1>8 DEF ProposedLine, ItemLine
  <2>3. QED
    BY <1>1, <1>2, <1>6, <2>1, <2>2
<1>9. QED
  BY <1>4, <1>7, <1>8 DEF proposal

LEMMA ContentOfProposal ==
  ASSUME NEW i, NEW offerMade, NEW id, NEW j, NEW other, NEW flag,
         ProposedLine(i, offerMade) = ProposedLine(j, flag)
  PROVE  Content(Proposal(i, offerMade, Start, id).cart_envelope.payload) =
           Content(Proposal(j, flag, Start, other).cart_envelope.payload)
<1> DEFINE line == ProposedLine(i, offerMade)
           c == SignedCart(line, i, Start, id + 1).payload
           d == SignedCart(line, j, Start, other + 1).payload
<1>1. /\ Proposal(i, offerMade, Start, id).cart_envelope.payload = c
      /\ Proposal(j, flag, Start, other).cart_envelope.payload = d
  BY DEF Proposal
<1> HIDE DEF line
<1>2. c.lines = d.lines /\ c.total_paise = d.total_paise /\ c.merchant_id = d.merchant_id
  BY DEF SignedCart, SignMandate
<1> HIDE DEF c, d
<1>3. QED
  BY <1>1, <1>2 DEF Content

-----------------------------------------------------------------------------
(* The second invariant is kept by every step. *)

LEMMA PurchaseInit == Init => PurchaseInv
  BY DEF Init, PurchaseInv, OfferSettled, ApprovalStands, DriversCarts, CheaperIsApproved,
         CartStages, ApprovedStages, HasSigned

LEMMA BookkeepingKeepsPurchase ==
  ASSUME PurchaseInv,
         \/ NothingToSign \/ MerchantDeclines \/ NoFallBack \/ HumanDeclines
         \/ CancelPurchase \/ ClientRaises \/ Reconcile \/ HumanThinks
         \/ UNCHANGED vars
  PROVE  PurchaseInv'
<1>1. UNCHANGED <<intent, intent_envelope, offer_made, cart_envelope, cart, alternatives,
                  suggestion, orders, minted, signed, evaluated, picked>>
  BY DEF NothingToSign, MerchantDeclines, NoFallBack, HumanDeclines, CancelPurchase,
         ClientRaises, Reconcile, HumanThinks, vars, world, session, outcomes, history
<1>2. \/ stage' = stage
      \/ stage' \in {"ended", "unsigned"}
      \/ stage = "reconciling" /\ stage' = "ordered"
  BY DEF NothingToSign, MerchantDeclines, NoFallBack, HumanDeclines, CancelPurchase,
         ClientRaises, Reconcile, HumanThinks, vars
<1>3. HasSigned' => HasSigned
  BY DEF NothingToSign, MerchantDeclines, NoFallBack, HumanDeclines, CancelPurchase,
         ClientRaises, Reconcile, HumanThinks, vars, HasSigned
<1>4. OfferSettled'
  BY <1>1, <1>2, <1>3 DEF PurchaseInv, OfferSettled, CartStages
<1>5. ApprovalStands'
  BY <1>1, <1>2
     DEF PurchaseInv, ApprovalStands, ApprovedStages, ContentApproved, ProposalFor
<1>6. DriversCarts'
  BY <1>1, <1>2 DEF PurchaseInv, DriversCarts
<1>7. CheaperIsApproved'
  BY <1>1, <1>2 DEF PurchaseInv, CheaperIsApproved, FirstIsApproved, Verdict
<1>8. QED
  BY <1>4, <1>5, <1>6, <1>7 DEF PurchaseInv

LEMMA SignIntentKeepsPurchase ==
  ASSUME IInv, PurchaseInv, SignIntent
  PROVE  PurchaseInv'
<1>1. HasTerms(signed')
  BY DraftHasTerms DEF SignIntent
<1>2. orders' = {} /\ stage' = "negotiating"
  BY DEF SignIntent, IInv, Orders, outcomes
<1>3. QED
  BY <1>1, <1>2
     DEF PurchaseInv, OfferSettled, ApprovalStands, DriversCarts, CheaperIsApproved,
         CartStages, ApprovedStages

LEMMA NegotiateKeepsPurchase ==
  ASSUME IInv, PurchaseInv, Negotiate
  PROVE  PurchaseInv'
<1>1. ~MakesOffer(signed', offer_made') /\ HasTerms(signed')
  BY OfferIsSettled
     DEF Negotiate, IInv, Mandate, PurchaseInv, OfferSettled, HasSigned, history
<1>2. /\ \E y \in DOMAIN Catalog, isUpsell \in BOOLEAN : CartOf(cart_envelope', y, isUpsell, intent)
      /\ IsMenu(alternatives', intent)
  BY ProposalIsTheDrivers DEF Negotiate, Proposed, ProposalFor, IInv, Types
<1>3. /\ stage' = "evaluating" /\ orders' = {} /\ intent' = intent
      /\ cart' = cart_envelope'.payload
  BY DEF Negotiate, IInv, Orders, outcomes, world
<1>4. QED
  BY <1>1, <1>2, <1>3
     DEF PurchaseInv, OfferSettled, ApprovalStands, DriversCarts, CheaperIsApproved,
         ApprovedStages

\* A cart of the driver's costs the published price of its item.
LEMMA CartPrice ==
  ASSUME NEW envelope, NEW x \in DOMAIN Catalog, NEW isUpsell \in BOOLEAN, NEW i,
         CartOf(envelope, x, isUpsell, i)
  PROVE  /\ envelope.payload.total_paise = Catalog[x].price_paise
         /\ envelope.payload.total_paise \in Nat
<1> DEFINE line == ItemLine(x, isUpsell)
<1>1. PICK id \in Int : envelope = SignedCart(line, i, Start, id)
  BY DEF CartOf
<1>2. /\ line.unit_price_paise = Catalog[x].price_paise
      /\ line.unit_price_paise \in Nat /\ line.quantity = 1
  BY CatalogAssumption DEF ItemLine
<1> HIDE DEF line
<1>3. QED
  BY <1>1, <1>2, OneItemCart

\* The policy engine on two of the driver's carts for the intent in force.
LEMMA CheaperAlternative ==
  ASSUME IInv, HasSigned, HasTerms(intent),
         NEW envelope, NEW x \in MatchingItems(intent), CartOf(envelope, x, FALSE, intent),
         NEW dearer, NEW y \in DOMAIN Catalog, NEW isUpsell \in BOOLEAN,
         CartOf(dearer, y, isUpsell, intent),
         envelope.payload.total_paise <= dearer.payload.total_paise
  PROVE  /\ Verdict(dearer.payload, dearer).outcome # "REJECTED" =>
              Verdict(envelope.payload, envelope).outcome # "REJECTED"
         /\ Verdict(dearer.payload, dearer).outcome = "APPROVED" =>
              Verdict(envelope.payload, envelope).outcome = "APPROVED"
<1>1. /\ intent.total_paise \in Int /\ intent.per_item_paise \in Int
      /\ intent.escalate_above_paise \in Int
  BY DEF IInv, Mandate, LegalBudget, HasTerms
<1>2. x \in DOMAIN Catalog
  BY DEF MatchingItems
<1>3. Catalog[x].price_paise <= Catalog[y].price_paise
  <2>1. /\ dearer.payload.total_paise = Catalog[y].price_paise
        /\ dearer.payload.total_paise \in Nat
    BY CartPrice
  <2>2. FALSE \in BOOLEAN
    OBVIOUS
  <2>3. /\ envelope.payload.total_paise = Catalog[x].price_paise
        /\ envelope.payload.total_paise \in Nat
    BY <1>2, <2>2, CartPrice, Zenon
  <2>4. QED
    BY <2>1, <2>3
<1>4. QED
  BY <1>1, <1>3, CheaperDoesNoWorse DEF Verdict

\* An approved cart of the driver's is the cheapest on the menu, or else the
\* first of the menu would be approved as well.
LEMMA ApprovedOrCheaper ==
  ASSUME IInv, HasSigned, HasTerms(intent), IsMenu(alternatives, intent),
         NEW envelope, NEW y \in DOMAIN Catalog, NEW isUpsell \in BOOLEAN,
         CartOf(envelope, y, isUpsell, intent),
         Verdict(envelope.payload, envelope).outcome = "APPROVED"
  PROVE  \/ \A k \in DOMAIN alternatives :
              envelope.payload.total_paise <= alternatives[k].payload.total_paise
         \/ /\ 1 \in DOMAIN alternatives
            /\ alternatives[1].payload.total_paise < envelope.payload.total_paise
            /\ Verdict(alternatives[1].payload, alternatives[1]).outcome = "APPROVED"
<1>1. PICK n \in Nat : DOMAIN alternatives = 1..n
  BY DEF IsMenu
<1>2. envelope.payload.total_paise \in Nat
  BY CartPrice
<1>3. \A k \in DOMAIN alternatives :
        \E x \in MatchingItems(intent) : CartOf(alternatives[k], x, FALSE, intent)
  BY DEF IsMenu
<1>4. \A k \in DOMAIN alternatives : alternatives[k].payload.total_paise \in Nat
  <2> TAKE k \in DOMAIN alternatives
  <2>1. PICK x \in MatchingItems(intent) : CartOf(alternatives[k], x, FALSE, intent)
    BY <1>3
  <2>2. x \in DOMAIN Catalog /\ FALSE \in BOOLEAN
    BY DEF MatchingItems
  <2>3. QED
    BY <2>1, <2>2, CartPrice, Zenon
<1>5. CASE n = 0
  BY <1>1, <1>5
<1>6. CASE n # 0 /\ envelope.payload.total_paise <= alternatives[1].payload.total_paise
  <2>1. 1 \in DOMAIN alternatives
    BY <1>1, <1>6
  <2>2. \A k \in DOMAIN alternatives :
          alternatives[1].payload.total_paise <= alternatives[k].payload.total_paise
    BY <1>1, <2>1 DEF IsMenu
  <2>3. QED
    BY <1>2, <1>4, <1>6, <2>1, <2>2
<1>7. CASE n # 0 /\ ~(envelope.payload.total_paise <= alternatives[1].payload.total_paise)
  <2>1. 1 \in DOMAIN alternatives
    BY <1>1, <1>7
  <2>2. alternatives[1].payload.total_paise < envelope.payload.total_paise
    BY <1>2, <1>4, <1>7, <2>1
  <2>3. PICK x \in MatchingItems(intent) : CartOf(alternatives[1], x, FALSE, intent)
    BY <1>3, <2>1
  <2>4. alternatives[1].payload.total_paise <= envelope.payload.total_paise
    BY <1>2, <1>4, <2>1, <2>2
  <2>5. Verdict(alternatives[1].payload, alternatives[1]).outcome = "APPROVED"
    BY <2>3, <2>4, CheaperAlternative
  <2>6. QED
    BY <2>1, <2>2, <2>5
<1>8. QED
  BY <1>5, <1>6, <1>7

LEMMA EvaluatePrimaryKeepsPurchase ==
  ASSUME IInv, PurchaseInv, EvaluatePrimary
  PROVE  PurchaseInv'
<1>1. /\ HasSigned /\ HasTerms(intent) /\ signed = intent
      /\ ~MakesOffer(signed, offer_made)
      /\ orders = {} /\ cart = cart_envelope.payload
      /\ \E y \in DOMAIN Catalog, isUpsell \in BOOLEAN : CartOf(cart_envelope, y, isUpsell, intent)
      /\ IsMenu(alternatives, intent)
  BY DEF EvaluatePrimary, IInv, Mandate, Orders, PurchaseInv, OfferSettled, DriversCarts,
         CartStages, HasSigned
<1>2. /\ UNCHANGED <<intent, intent_envelope, offer_made, cart_envelope, cart, alternatives,
                     suggestion, orders, signed>>
      /\ decision' = Verdict(cart, cart_envelope)
      /\ [intent |-> intent, cart |-> cart, outcome |-> decision'.outcome] \in evaluated'
  BY DEF EvaluatePrimary, Evaluated, world, outcomes
<1>3. /\ stage' \in {"suggesting", "escalated", "rejected"}
      /\ stage' = "suggesting" => decision'.outcome = "APPROVED"
  BY StageAfterMeans DEF EvaluatePrimary, Verdict
<1>4. OfferSettled'
  BY <1>1, <1>2 DEF OfferSettled
<1>5. ApprovalStands'
  BY <1>1, <1>2, <1>3 DEF ApprovalStands, ApprovedStages, ContentApproved
<1>6. DriversCarts'
  BY <1>1, <1>2 DEF DriversCarts
<1>7. CheaperIsApproved'
  <2>1. ASSUME stage' = "suggesting"
        PROVE  \/ \A k \in DOMAIN alternatives :
                    cart.total_paise <= alternatives[k].payload.total_paise
               \/ FirstIsApproved
    BY <1>1, <1>2, <1>3, <2>1, ApprovedOrCheaper DEF FirstIsApproved
  <2>2. QED
    BY <1>1, <1>2, <1>3, <2>1 DEF CheaperIsApproved, FirstIsApproved, Verdict
<1>8. QED
  BY <1>4, <1>5, <1>6, <1>7 DEF PurchaseInv

\* Were a later alternative taken, the first would be dearer: it was refused.
LEMMA FallBackTakesTheFirst ==
  ASSUME IInv, HasSigned, HasTerms(intent), IsMenu(alternatives, intent),
         NEW k \in DOMAIN alternatives, IsFirst(k, Acceptable)
  PROVE  \A j \in DOMAIN alternatives :
           alternatives[k].payload.total_paise <= alternatives[j].payload.total_paise
<1>1. PICK n \in Nat : DOMAIN alternatives = 1..n
  BY DEF IsMenu
<1>2. \A j \in DOMAIN alternatives :
        \E x \in MatchingItems(intent) : CartOf(alternatives[j], x, FALSE, intent)
  BY DEF IsMenu
<1>3. /\ Verdict(alternatives[k].payload, alternatives[k]).outcome # "REJECTED"
      /\ \A j \in 1..(k - 1) : Verdict(alternatives[j].payload, alternatives[j]).outcome = "REJECTED"
  BY DEF IsFirst, Acceptable
<1>4. k = 1
  <2>1. SUFFICES ASSUME k # 1 PROVE FALSE
    OBVIOUS
  <2>2. 1 \in DOMAIN alternatives /\ 1 \in 1..(k - 1) /\ 1 <= k
    BY <1>1, <2>1
  <2>3. PICK x \in MatchingItems(intent) : CartOf(alternatives[1], x, FALSE, intent)
    BY <1>2, <2>2
  <2>4. PICK y \in MatchingItems(intent) : CartOf(alternatives[k], y, FALSE, intent)
    BY <1>2
  <2>5. y \in DOMAIN Catalog /\ FALSE \in BOOLEAN
    BY DEF MatchingItems
  <2>6. alternatives[1].payload.total_paise <= alternatives[k].payload.total_paise
    BY <2>2 DEF IsMenu
  <2>7. Verdict(alternatives[1].payload, alternatives[1]).outcome # "REJECTED"
    BY <1>3, <2>3, <2>4, <2>5, <2>6, CheaperAlternative, Zenon
  <2>8. QED
    BY <1>3, <2>2, <2>7
<1>5. QED
  BY <1>1, <1>4 DEF IsMenu

LEMMA FallBackKeepsPurchase ==
  ASSUME IInv, PurchaseInv, FallBack
  PROVE  PurchaseInv'
<1>1. /\ HasSigned /\ HasTerms(intent) /\ signed = intent
      /\ ~MakesOffer(signed, offer_made) /\ orders = {}
      /\ IsMenu(alternatives, intent)
  BY DEF FallBack, IInv, Mandate, Orders, PurchaseInv, OfferSettled, DriversCarts,
         CartStages, HasSigned
<1>2. PICK k \in DOMAIN alternatives :
        /\ IsFirst(k, Acceptable)
        /\ cart_envelope' = alternatives[k] /\ cart' = alternatives[k].payload
  BY DEF FallBack
<1>3. /\ UNCHANGED <<intent, intent_envelope, offer_made, alternatives, suggestion, orders,
                     signed>>
      /\ [intent |-> intent, cart |-> cart', outcome |-> decision'.outcome] \in evaluated'
  BY DEF FallBack, Evaluated, world, outcomes
<1>4. /\ stage' \in {"suggesting", "escalated", "rejected"}
      /\ stage' = "suggesting" => decision'.outcome = "APPROVED"
  BY StageAfterMeans DEF FallBack, Verdict
<1>5. OfferSettled'
  BY <1>1, <1>3 DEF OfferSettled
<1>6. ApprovalStands'
  BY <1>1, <1>3, <1>4 DEF ApprovalStands, ApprovedStages, ContentApproved
<1>7. DriversCarts'
  <2>1. PICK x \in MatchingItems(intent) : CartOf(alternatives[k], x, FALSE, intent)
    BY <1>1 DEF IsMenu
  <2>2. x \in DOMAIN Catalog /\ FALSE \in BOOLEAN
    BY DEF MatchingItems
  <2>3. \E y \in DOMAIN Catalog, isUpsell \in BOOLEAN : CartOf(alternatives[k], y, isUpsell, intent)
    BY <2>1, <2>2, Zenon
  <2>4. QED
    BY <1>1, <1>2, <1>3, <2>3 DEF DriversCarts
<1>8. CheaperIsApproved'
  <2>1. \A j \in DOMAIN alternatives :
          cart'.total_paise <= alternatives[j].payload.total_paise
    BY <1>1, <1>2, FallBackTakesTheFirst
  <2>2. QED
    BY <1>1, <1>3, <1>4, <2>1 DEF CheaperIsApproved
<1>9. QED
  BY <1>5, <1>6, <1>7, <1>8 DEF PurchaseInv

\* The amended intent asks the driver for the same.
LEMMA HumanAgreesKeepsPurchase ==
  ASSUME IInv, PurchaseInv, HumanAgrees
  PROVE  PurchaseInv'
<1>1. /\ HasTerms(intent) /\ ~MakesOffer(intent, offer_made) /\ orders = {}
  BY DEF HumanAgrees, IInv, Mandate, Orders, PurchaseInv, OfferSettled, CartStages, HasSigned
<1>2. /\ signed' = BuildAmendedIntent(intent, decision, cart, Start, minted + 1)
      /\ stage' = "resolving" /\ orders' = orders /\ offer_made' = offer_made
  BY DEF HumanAgrees, outcomes
<1>3. /\ HasTerms(signed')
      /\ MakesOffer(signed', offer_made) = MakesOffer(intent, offer_made)
  BY <1>1, <1>2, AmendedTerms, SameFieldsSameAnswer
<1>4. OfferSettled'
  BY <1>1, <1>2, <1>3 DEF OfferSettled
<1>5. QED
  BY <1>1, <1>2, <1>4
     DEF PurchaseInv, ApprovalStands, DriversCarts, CheaperIsApproved, ApprovedStages

\* The verdict outlives its cart; the content it is about is the content of
\* what the driver proposes next.
LEMMA ReevaluateKeepsPurchase ==
  ASSUME IInv, PurchaseInv, Reevaluate
  PROVE  PurchaseInv'
<1> DEFINE reviewed == ProposalFor(signed).cart_envelope.payload
<1>1. /\ resolution.amended_intent = signed /\ HasTerms(signed)
      /\ ~MakesOffer(signed, offer_made) /\ orders = {}
  BY DEF Reevaluate, IInv, Mandate, Orders, PurchaseInv, OfferSettled, HasSigned
<1>2. Proposed(signed) /\ UNCHANGED <<signed, orders>>
  BY <1>1 DEF Reevaluate, Evaluated, outcomes
<1>3. ~MakesOffer(signed, offer_made')
  BY <1>2, OfferIsSettled DEF IInv
<1>4. PICK outcome : /\ stage' = IF outcome = "APPROVED" THEN "recovering" ELSE "ended"
                     /\ [intent |-> signed, cart |-> reviewed, outcome |-> outcome] \in evaluated'
  BY <1>1 DEF Reevaluate, Evaluated
<1>5. Content(ProposalFor(signed)'.cart_envelope.payload) = Content(reviewed)
  <2>1. ProposedLine(signed, offer_made') = ProposedLine(signed, offer_made)
    BY <1>1, <1>3 DEF ProposedLine
  <2>2. QED
    BY <1>2, <2>1, ContentOfProposal DEF ProposalFor
<1> HIDE DEF reviewed
<1>6. stage' = "recovering" => ContentApproved(Content(ProposalFor(signed).cart_envelope.payload))'
  <2> DEFINE e == [intent |-> signed, cart |-> reviewed, outcome |-> "APPROVED"]
  <2>1. ASSUME stage' = "recovering" PROVE e \in evaluated'
    BY <1>4, <2>1
  <2>2. e.outcome = "APPROVED" /\ e.intent = signed /\ Content(e.cart) = Content(reviewed)
    OBVIOUS
  <2> HIDE DEF e
  <2>3. QED
    BY <1>2, <1>5, <2>1, <2>2 DEF ContentApproved
<1>7. QED
  BY <1>1, <1>2, <1>3, <1>4, <1>6
     DEF PurchaseInv, OfferSettled, ApprovalStands, DriversCarts, CheaperIsApproved,
         ApprovedStages

LEMMA RecoverCartKeepsPurchase ==
  ASSUME IInv, PurchaseInv, RecoverCart
  PROVE  PurchaseInv'
<1>1. /\ resolution.amended_intent = signed /\ HasTerms(signed)
      /\ ~MakesOffer(signed, offer_made) /\ orders = {} /\ minted \in Nat
      /\ ContentApproved(Content(ProposalFor(signed).cart_envelope.payload))
  BY DEF RecoverCart, IInv, Types, Mandate, Orders, PurchaseInv, OfferSettled,
         ApprovalStands, HasSigned
<1>2. /\ Proposed(signed) /\ UNCHANGED <<signed, evaluated, orders>> /\ intent' = signed
      /\ stage' = "suggesting"
      /\ cart_envelope' = ProposalFor(signed).cart_envelope
      /\ cart' = cart_envelope'.payload
      /\ alternatives' = ProposalFor(signed).alternative_envelopes
  BY <1>1 DEF RecoverCart, AdoptResolution, history, outcomes
<1>3. ~MakesOffer(signed, offer_made')
  BY <1>2, OfferIsSettled DEF IInv
<1>4. /\ \E y \in DOMAIN Catalog, isUpsell \in BOOLEAN : CartOf(cart_envelope', y, isUpsell, signed)
      /\ IsMenu(alternatives', signed)
      /\ \A k \in DOMAIN alternatives' :
           cart'.total_paise <= alternatives'[k].payload.total_paise
  <2>1. MatchingItems(signed) # {}
    BY <1>2 DEF Proposed
  <2>2. QED
    BY <1>1, <1>2, <2>1, ProposalIsTheDrivers DEF ProposalFor
<1>5. OfferSettled' /\ DriversCarts'
  BY <1>1, <1>2, <1>3, <1>4 DEF OfferSettled, DriversCarts
<1>6. ApprovalStands'
  BY <1>1, <1>2 DEF ApprovalStands, ApprovedStages, ContentApproved
<1>7. CheaperIsApproved'
  BY <1>1, <1>2, <1>4 DEF CheaperIsApproved
<1>8. QED
  BY <1>5, <1>6, <1>7 DEF PurchaseInv

\* The loop over the alternatives stops at the first of them when that one is
\* cheaper than the cart in hand: it is well within one and a half budgets.
LEMMA SuggestKeepsPurchase ==
  ASSUME IInv, PurchaseInv, Suggest
  PROVE  PurchaseInv'
<1>1. /\ stage = "suggesting" /\ stage' = "choosing" /\ orders = {}
      /\ UNCHANGED <<intent, intent_envelope, offer_made, cart_envelope, cart, alternatives,
                     orders, signed, evaluated>>
  BY DEF Suggest, IInv, Orders, world, session, outcomes, history
<1>2. (OfferSettled /\ ApprovalStands /\ DriversCarts)'
  BY <1>1
     DEF PurchaseInv, OfferSettled, ApprovalStands, DriversCarts, ContentApproved,
         CartStages, ApprovedStages, HasSigned
<1>3. ASSUME suggestion' # None
      PROVE  \/ cart.total_paise <= suggestion'.total_paise
             \/ FirstIsApproved /\ suggestion' = alternatives[1].payload
  <2>1. PICK k \in DOMAIN alternatives :
          IsFirst(k, Suggestible) /\ suggestion' = alternatives[k].payload
    BY <1>3 DEF Suggest
  <2>2. CASE \A j \in DOMAIN alternatives :
               cart.total_paise <= alternatives[j].payload.total_paise
    BY <2>1, <2>2
  <2>3. CASE FirstIsApproved
    <3>1. PICK n \in Nat : DOMAIN alternatives = 1..n
      BY <1>1 DEF PurchaseInv, DriversCarts, IsMenu
    <3>2. /\ 1 \in DOMAIN alternatives /\ cart = cart_envelope.payload
          /\ alternatives[1].payload.total_paise < cart.total_paise
          /\ alternatives[1].payload.total_paise \in Nat /\ cart.total_paise \in Nat
          /\ cart.total_paise <= intent.escalate_above_paise
          /\ intent.total_paise \in Nat /\ intent.escalate_above_paise \in Int
          /\ intent.escalate_above_paise <= intent.total_paise
      BY <1>1, <2>3
         DEF FirstIsApproved, PurchaseInv, DriversCarts, IInv, Mandate, Carts, Verdicts,
             LegalBudget, AnswersTo, CartStages, ApprovedStages, HasSigned
    <3>3. Suggestible(alternatives[1])
      <4>1. alternatives[1].payload # cart_envelope.payload
        BY <3>2
      <4>2. 2 * alternatives[1].payload.total_paise <= 3 * intent.total_paise
        BY <3>2
      <4>3. QED
        BY <4>1, <4>2 DEF Suggestible
    <3>4. ~(1 \in 1..(k - 1))
      BY <2>1, <3>3 DEF IsFirst
    <3>5. k = 1
      BY <3>1, <3>4
    <3>6. QED
      BY <2>1, <2>3, <3>5
  <2>4. QED
    BY <1>1, <2>2, <2>3 DEF PurchaseInv, CheaperIsApproved
<1>4. CheaperIsApproved'
  BY <1>1, <1>3 DEF CheaperIsApproved, FirstIsApproved, Verdict
<1>5. QED
  BY <1>2, <1>4 DEF PurchaseInv

LEMMA BuyPrimaryKeepsPurchase ==
  ASSUME IInv, PurchaseInv, BuyPrimary
  PROVE  PurchaseInv'
<1>1. /\ stage = "choosing" /\ stage' = "executing" /\ orders = {} /\ picked' = cart
      /\ cart.total_paise \in Nat
      /\ UNCHANGED <<intent, intent_envelope, offer_made, cart_envelope, cart, alternatives,
                     orders, signed, evaluated>>
  BY DEF BuyPrimary, IInv, Orders, Carts, CartStages, AnswersTo, world, session, outcomes
<1>2. QED
  BY <1>1
     DEF PurchaseInv, OfferSettled, ApprovalStands, DriversCarts, CheaperIsApproved,
         ContentApproved, CartStages, ApprovedStages, HasSigned

\* Choice "2" ends in the suggestion, or in a cart that costs no more.
LEMMA BuySuggestionKeepsPurchase ==
  ASSUME IInv, PurchaseInv, BuySuggestion
  PROVE  PurchaseInv'
<1> DEFINE outcome == Verdict(suggestion, alternatives[1]).outcome
<1>1. /\ stage = "choosing" /\ stage' = "executing" /\ orders = {}
      /\ suggestion # None /\ picked' = suggestion /\ suggestion.total_paise \in Nat
      /\ signed = intent
      /\ UNCHANGED <<intent, intent_envelope, offer_made, alternatives, orders, signed>>
      /\ evaluated' = evaluated \cup {[intent |-> intent, cart |-> suggestion,
                                      outcome |-> outcome]}
  BY DEF BuySuggestion, IInv, Mandate, Orders, Carts, CartStages, AnswersTo, world, outcomes
<1>2. IF outcome = "APPROVED" THEN cart' = suggestion ELSE cart' = cart
  BY DEF BuySuggestion, SuggestionIfApproved
<1>3. cart'.total_paise <= picked'.total_paise
  <2>1. CASE outcome = "APPROVED"
    BY <1>1, <1>2, <2>1
  <2>2. CASE outcome # "APPROVED"
    BY <1>1, <1>2, <2>2 DEF PurchaseInv, CheaperIsApproved, FirstIsApproved
  <2>3. QED
    BY <2>1, <2>2
<1>4. ContentApproved(Content(cart))'
  <2>1. CASE outcome = "APPROVED"
    <3> DEFINE e == [intent |-> intent, cart |-> suggestion, outcome |-> outcome]
    <3>1. /\ e.outcome = "APPROVED" /\ e.intent = signed'
          /\ Content(e.cart) = Content(suggestion)
      BY <1>1, <2>1
    <3>2. e \in evaluated' /\ cart' = suggestion
      BY <1>1, <1>2, <2>1
    <3> HIDE DEF e
    <3>3. QED
      BY <3>1, <3>2 DEF ContentApproved
  <2>2. CASE outcome # "APPROVED"
    BY <1>1, <1>2, <2>2 DEF PurchaseInv, ApprovalStands, ApprovedStages, ContentApproved
  <2>3. QED
    BY <2>1, <2>2
<1> HIDE DEF outcome
<1>5. OfferSettled'
  BY <1>1 DEF PurchaseInv, OfferSettled, CartStages, HasSigned
<1>6. QED
  BY <1>1, <1>3, <1>4, <1>5
     DEF PurchaseInv, ApprovalStands, DriversCarts, CheaperIsApproved

LEMMA OrderingKeepsPurchase ==
  ASSUME IInv, PurchaseInv, Execute \/ AnswerLost
  PROVE  PurchaseInv'
<1>1. /\ orders' = {NewOrder} /\ NewOrder.amount_paise = cart.total_paise
  BY OrderingKeepsInv
<1>2. stage = "executing" /\ stage' \in {"reconciling", "unanswered"}
  <2>1. decision.outcome = "APPROVED"
    BY DEF Execute, AnswerLost, IInv, Verdicts, ApprovedStages
  <2>2. QED
    BY <2>1 DEF Execute, AnswerLost
<1>3. UNCHANGED <<intent, intent_envelope, offer_made, cart, alternatives, suggestion,
                  signed, evaluated, picked>>
  BY DEF Execute, AnswerLost, world, session, history
<1>4. QED
  BY <1>1, <1>2, <1>3
     DEF PurchaseInv, OfferSettled, ApprovalStands, DriversCarts, CheaperIsApproved,
         ContentApproved, CartStages, ApprovedStages, HasSigned

LEMMA NextPurchase ==
  ASSUME IInv, PurchaseInv, [Next]_vars
  PROVE  PurchaseInv'
  BY BookkeepingKeepsPurchase, SignIntentKeepsPurchase, NegotiateKeepsPurchase,
     EvaluatePrimaryKeepsPurchase, FallBackKeepsPurchase, HumanAgreesKeepsPurchase,
     ReevaluateKeepsPurchase, RecoverCartKeepsPurchase, SuggestKeepsPurchase,
     BuyPrimaryKeepsPurchase, BuySuggestionKeepsPurchase, OrderingKeepsPurchase
     DEF Next, Ended

THEOREM PurchaseInvariance == Spec => []PurchaseInv
<1>1. Init => PurchaseInv
  BY PurchaseInit
<1>2. IInv /\ PurchaseInv /\ [Next]_vars => PurchaseInv'
  BY NextPurchase
<1>3. QED
  BY <1>1, <1>2, Invariance, PTL DEF Spec

\* Every order is for a content that an evaluation approved under the mandate
\* signed last.  resolve_escalation drops the cart it has evaluated and main
\* negotiates anew: that this brings the same content back is the driver's
\* doing, who has by then no offer left to make.
THEOREM OrderedWasApproved == Spec => []OrderedContentApproved
<1>1. IInv /\ PurchaseInv => OrderedContentApproved
  BY DEF IInv, Orders, PurchaseInv, ApprovalStands, ContentApproved, OrderedContentApproved
<1>2. QED
  BY <1>1, Invariance, PurchaseInvariance, PTL

\* Nobody pays more than the option picked on the buy screen: a suggestion
\* that does not pass its evaluation is replaced by the primary, and one that
\* is cheaper than the primary does pass.
THEOREM PickIsNeverExceeded == Spec => []PaysAtMostThePick
<1>1. IInv /\ PurchaseInv => PaysAtMostThePick
  BY DEF IInv, Orders, PurchaseInv, CheaperIsApproved, PaysAtMostThePick
<1>2. QED
  BY <1>1, Invariance, PurchaseInvariance, PTL

-----------------------------------------------------------------------------
(***************************************************************************)
(* How far the session may be from what the documentation says of it: two  *)
(* of the runs show a violation, and it is confined to the path they take. *)
(***************************************************************************)

BoughtStages == {"executing", "reconciling", "unanswered", "ordered"}

\* The cart in hand is the suggestion, next to the first alternative's envelope.
SuggestionTaken ==
  suggestion # None /\ cart = suggestion /\ cart_envelope = alternatives[1]

\* What the artifact may hold besides EvidenceIsTheOrderedCart.
EvidenceExceptForSuggestion ==
  artifact # None =>
    \A o \in artifact.orders :
      /\ o.amount_paise = artifact.signed_amount_paise
      /\ \/ o.cart_hash = Digest(artifact.cart_envelope.payload)
         \/ /\ suggestion # None /\ o.cart_hash = Digest(suggestion)
            /\ artifact.cart_envelope = alternatives[1]

\* OrderedMandateEvaluated, as long as no human was asked to approve a cart.
EvaluatedUnlessAgreed == agreed = {} => OrderedMandateEvaluated

CartEvaluated == \E e \in evaluated : e.outcome = "APPROVED" /\ e.cart = cart

PathInv ==
  /\ stage \in BoughtStages => cart = cart_envelope.payload \/ SuggestionTaken
  /\ artifact # None =>
       /\ stage = "ordered"
       /\ artifact.cart_envelope = cart_envelope
       /\ artifact.signed_amount_paise = cart.total_paise
       /\ artifact.orders = orders
  /\ stage \in {"resolving", "recovering"} => agreed # {}
  /\ stage \in {"suggesting", "choosing"} \cup BoughtStages =>
       agreed # {} \/ CartEvaluated

\* A verdict that leads to the buy screen is kept with the cart it is about.
LEMMA ApprovedIsKept ==
  ASSUME PathInv, NEW c, NEW ctx, cart' = c,
         Evaluated(intent, c, Evaluate(intent, c, Policy, ctx, Start)),
         stage' = StageAfter(Evaluate(intent, c, Policy, ctx, Start)),
         stage \in {"evaluating", "rejected"}, UNCHANGED artifact
  PROVE  PathInv'
<1> DEFINE verdict == Evaluate(intent, c, Policy, ctx, Start)
           e == [intent |-> intent, cart |-> c, outcome |-> verdict.outcome]
<1>1. /\ StageAfter(verdict) \in {"suggesting", "escalated", "rejected"}
      /\ StageAfter(verdict) = "suggesting" => verdict.outcome = "APPROVED"
  BY StageAfterMeans
<1>2. stage' = StageAfter(verdict) /\ Evaluated(intent, c, verdict)
  OBVIOUS
<1> HIDE DEF verdict
<1>3. e \in evaluated' /\ e.cart = cart' /\ e.outcome = verdict.outcome
  BY <1>2 DEF Evaluated
<1> HIDE DEF e
<1>4. stage' = "suggesting" => CartEvaluated'
  BY <1>1, <1>2, <1>3 DEF CartEvaluated
<1>5. artifact' = None
  BY DEF PathInv
<1>6. QED
  BY <1>1, <1>2, <1>4, <1>5 DEF PathInv, BoughtStages

\* Most steps leave the cart, its envelope and the evidence alone.
LEMMA QuietKeepsPath ==
  ASSUME PathInv, IInv,
         \/ NothingToSign \/ MerchantDeclines \/ NoFallBack \/ HumanDeclines
         \/ CancelPurchase \/ ClientRaises \/ HumanThinks \/ UNCHANGED vars
  PROVE  PathInv'
<1>1. UNCHANGED <<cart, cart_envelope, alternatives, suggestion, orders, artifact, evaluated, agreed>>
  BY DEF NothingToSign, MerchantDeclines, NoFallBack, HumanDeclines, CancelPurchase,
         ClientRaises, HumanThinks, vars, world, session, outcomes, history
<1>2. \/ stage' = stage
      \/ stage' \in {"ended", "unsigned"} /\ artifact = None
      \/ stage = "reconciling" /\ stage' = "ordered"
  BY DEF NothingToSign, MerchantDeclines, NoFallBack, HumanDeclines, CancelPurchase,
         ClientRaises, HumanThinks, vars, PathInv
<1>3. QED
  BY <1>1, <1>2 DEF PathInv, CartEvaluated, BoughtStages, SuggestionTaken

\* Until a pick is made the cart is the one of its envelope.
LEMMA BuyPrimaryKeepsPath ==
  ASSUME PathInv, PurchaseInv, BuyPrimary
  PROVE  PathInv'
<1>1. /\ stage = "choosing" /\ stage' = "executing"
      /\ UNCHANGED <<cart, cart_envelope, artifact, evaluated, agreed>>
  BY DEF BuyPrimary, world, session, outcomes
<1>2. cart = cart_envelope.payload
  BY <1>1 DEF PurchaseInv, DriversCarts
<1>3. QED
  BY <1>1, <1>2 DEF PathInv, CartEvaluated, BoughtStages

\* Choice "2" takes the suggestion over once it has been approved.
LEMMA BuySuggestionKeepsPath ==
  ASSUME PathInv, PurchaseInv, BuySuggestion
  PROVE  PathInv'
<1> DEFINE outcome == Verdict(suggestion, alternatives[1]).outcome
           e == [intent |-> intent, cart |-> suggestion, outcome |-> outcome]
<1>1. /\ stage = "choosing" /\ stage' = "executing" /\ suggestion # None
      /\ UNCHANGED <<alternatives, suggestion, artifact, agreed>>
      /\ evaluated' = evaluated \cup {e}
  BY DEF BuySuggestion, outcomes
<1>2. IF outcome = "APPROVED" THEN cart' = suggestion /\ cart_envelope' = alternatives[1]
      ELSE UNCHANGED <<cart, cart_envelope>>
  BY DEF BuySuggestion, SuggestionIfApproved
<1>3. e.cart = suggestion /\ e.outcome = outcome
  OBVIOUS
<1> HIDE DEF e, outcome
<1>4. artifact' = None
  BY <1>1 DEF PathInv
<1>5. CASE outcome = "APPROVED"
  <2>1. SuggestionTaken'
    BY <1>1, <1>2, <1>5 DEF SuggestionTaken
  <2>2. CartEvaluated'
    BY <1>1, <1>2, <1>3, <1>5 DEF CartEvaluated
  <2>3. QED
    BY <1>1, <1>4, <2>1, <2>2 DEF PathInv
<1>6. CASE outcome # "APPROVED"
  <2>1. cart = cart_envelope.payload
    BY <1>1 DEF PurchaseInv, DriversCarts
  <2>2. agreed' # {} \/ CartEvaluated'
    BY <1>1, <1>2, <1>6 DEF PathInv, CartEvaluated
  <2>3. QED
    BY <1>1, <1>2, <1>4, <1>6, <2>1, <2>2 DEF PathInv
<1>7. QED
  BY <1>5, <1>6

LEMMA NextPath ==
  ASSUME IInv, PurchaseInv, PathInv, [Next]_vars
  PROVE  PathInv'
<1>1. CASE SignIntent \/ Negotiate
  BY <1>1 DEF SignIntent, Negotiate, PathInv, outcomes, BoughtStages
<1>2. CASE EvaluatePrimary
  BY <1>2, ApprovedIsKept DEF EvaluatePrimary, Verdict, outcomes
<1>3. CASE FallBack
  BY <1>3, ApprovedIsKept DEF FallBack, Verdict, outcomes
<1>4. CASE HumanAgrees \/ Reevaluate \/ RecoverCart
  BY <1>4 DEF HumanAgrees, Reevaluate, RecoverCart, PathInv, outcomes, history, Evaluated,
              BoughtStages
<1>5. CASE Suggest
  BY <1>5 DEF Suggest, session, outcomes, history, PathInv, CartEvaluated, BoughtStages
<1>6. CASE Execute \/ AnswerLost
  <2>1. /\ stage = "executing" /\ stage' \in {"reconciling", "unanswered"}
        /\ UNCHANGED <<cart, cart_envelope, alternatives, suggestion, artifact, evaluated, agreed>>
    <3>1. decision.outcome = "APPROVED" \/ stage # "executing"
      BY DEF IInv, Verdicts, ApprovedStages
    <3>2. QED
      BY <1>6, <3>1 DEF Execute, AnswerLost, session, history
  <2>2. QED
    BY <2>1 DEF PathInv, CartEvaluated, BoughtStages, SuggestionTaken
<1>7. CASE Reconcile
  <2>1. /\ stage = "reconciling" /\ stage' = "ordered"
        /\ artifact' = [cart_envelope |-> cart_envelope,
                        signed_amount_paise |-> cart.total_paise, orders |-> orders]
        /\ UNCHANGED <<cart, cart_envelope, alternatives, suggestion, orders, evaluated, agreed>>
    BY <1>7 DEF Reconcile, session, history
  <2>2. QED
    BY <2>1 DEF PathInv, CartEvaluated, BoughtStages, SuggestionTaken
<1>8. QED
  BY <1>1, <1>2, <1>3, <1>4, <1>5, <1>6, <1>7, QuietKeepsPath, BuyPrimaryKeepsPath,
     BuySuggestionKeepsPath DEF Next, Ended

LEMMA PathInvariance == Spec => []PathInv
<1>1. Init => PathInv
  BY DEF Init, PathInv, BoughtStages
<1>2. IInv /\ PurchaseInv /\ PathInv /\ [Next]_vars => PathInv'
  BY NextPath
<1>3. QED
  BY <1>1, <1>2, Invariance, PurchaseInvariance, PTL DEF Spec

\* reconcile_capture: an artifact carries the mandate that was ordered and the
\* amount that was ordered, except after choice "2", where it may carry the
\* first alternative next to the order of the suggestion.
THEOREM EvidenceAsOrdered == Spec => []EvidenceExceptForSuggestion
<1>1. IInv /\ PurchaseInv /\ PathInv => EvidenceExceptForSuggestion
  BY DEF IInv, Orders, PurchaseInv, CheaperIsApproved, PathInv, EvidenceExceptForSuggestion,
         BoughtStages, SuggestionTaken
<1>2. QED
  BY <1>1, Invariance, PurchaseInvariance, PathInvariance, PTL

\* execute.py's "no order without a passing evaluate()" holds of the very
\* mandate that is ordered in every session in which nobody was asked to
\* approve a cart, with any fallback and any pick on the buy screen.
THEOREM OrderedAsEvaluated == Spec => []EvaluatedUnlessAgreed
<1>1. IInv /\ PathInv => EvaluatedUnlessAgreed
  BY DEF IInv, Orders, PathInv, EvaluatedUnlessAgreed, OrderedMandateEvaluated, CartEvaluated,
         BoughtStages
<1>2. QED
  BY <1>1, Invariance, PathInvariance, PTL
=============================================================================
