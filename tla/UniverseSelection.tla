-------------------------- MODULE UniverseSelection --------------------------
(***************************************************************************)
(* How the weekly refresh of services/universe_manager.py picks the        *)
(* symbols of one category: discovery, the shortlist before price bars,    *)
(* the prefilter on them, the dossiers and the final selection.            *)
(*                                                                         *)
(* A symbol stands for the row discovery has of it; what the filters and   *)
(* scores compute of a row's numbers is given by constants.  Rows have no  *)
(* ISIN (_normalize_search_row leaves it blank): _dedupe_by_isin passes    *)
(* them through.                                                           *)
(***************************************************************************)
EXTENDS Naturals, FiniteSets, SequencesExt

CONSTANTS
  Symbols,             \* tickers discovery or an operator may name
  Clean,               \* those that pass _passes_cheap_filter
  Liquid,              \* those that pass _passes_liquidity_prefilter on their bars
  CheapScore,          \* _cheap_prefilter_score: 0 of every row without fundamentals
  Score,               \* _candidate_prefilter_score of a row with its bars
  NameRank,            \* the alphabetical rank of a ticker
  Required,            \* weekly_universe_stocks, weekly_universe_crypto
  ShortlistSize,       \* universe_stock_shortlist, universe_crypto_shortlist
  Batch,               \* STOCK_BATCH_SIZE, CRYPTO_BATCH_SIZE
  PrefilterMultiplier,
  DossierMultiplier,
  DossierFloor         \* 18 dossiers for stocks, 12 for crypto

Categories == {"STOCK", "CRYPTO"}

ASSUME SymbolAssumption ==
  /\ IsFiniteSet(Symbols)
  /\ Clean \subseteq Symbols /\ Liquid \subseteq Symbols
  /\ CheapScore \in [Symbols -> Nat] /\ Score \in [Symbols -> Nat \ {0}]
  /\ NameRank \in [Symbols -> Nat]
  /\ \A s, t \in Symbols : NameRank[s] = NameRank[t] => s = t
ASSUME SizeAssumption ==
  /\ Required \in [Categories -> Nat] /\ ShortlistSize \in [Categories -> Nat]
  /\ Batch \in [Categories -> Nat \ {0}] /\ PrefilterMultiplier \in [Categories -> Nat]
  /\ DossierMultiplier \in [Categories -> Nat] /\ DossierFloor \in [Categories -> Nat]

Least(m, n)    == IF m < n THEN m ELSE n
Greatest(m, n) == IF m > n THEN m ELSE n
Take(list, n)  == SubSeq(list, 1, Least(n, Len(list)))

\* The entries of a list at some of its places, in their order.
At(list, P) ==
  [k \in 1..Cardinality(P) |-> list[CHOOSE i \in P : Cardinality({j \in P : j < i}) = k - 1]]

Within(list, S)  == At(list, {i \in DOMAIN list : list[i] \in S})
Without(list, S) == At(list, {i \in DOMAIN list : list[i] \notin S})

\* A list without the repetitions of what it already has.
Deduped(list) ==
  At(list, {i \in DOMAIN list : \A j \in DOMAIN list : j < i => list[j] # list[i]})
DistinctSymbols(list) == \A i, j \in DOMAIN list : i # j => list[i] # list[j]

\* Rows in descending order of a rank, then of their ticker.
RanksBefore(rank, s, t) ==
  rank[s] > rank[t] \/ (rank[s] = rank[t] /\ NameRank[s] > NameRank[t])
ByRank(rank, S) ==
  [k \in 1..Cardinality(S) |->
     CHOOSE s \in S : Cardinality({t \in S : RanksBefore(rank, t, s)}) = k - 1]

\* (mutant) incumbents are ranked like the others
PinnedByRank(list, incumbents, rank, newcomers) ==
  ByRank(rank, newcomers \cup (ToSet(list) \cap incumbents))

\* Incumbents go first, in the order discovery has them, and pass every filter.
PinnedFirst(list, incumbents, rank, newcomers) ==
  Within(list, incumbents) \o ByRank(rank, newcomers \ incumbents)

CheapShortlist(c, list, incumbents) ==
  LET rows == Deduped(list) IN
  Take(PinnedFirst(rows, incumbents, CheapScore, ToSet(rows) \cap Clean),
       Greatest(ShortlistSize[c], Cardinality(ToSet(rows) \cap incumbents)))

\* A row whose bars did not arrive has no metric to be rejected on, and a score of 0.
\* The rank puts what passes the liquidity filter before what does not.
BarRank(priced) ==
  LET top == 1 + Score[CHOOSE s \in Symbols : \A t \in Symbols : Score[t] <= Score[s]]
  IN  [s \in Symbols |-> IF s \notin priced THEN top
                         ELSE Score[s] + IF s \in Liquid THEN top ELSE 0]

PrefilterLimit(c, available) ==
  Least(available, Greatest(Batch[c] * 3, Required[c] * PrefilterMultiplier[c]))
Prefiltered(c, list, incumbents, priced) ==
  Take(PinnedFirst(list, incumbents, BarRank(priced), ToSet(list)),
       PrefilterLimit(c, Len(list)))

DossierCandidates(c, list) ==
  Take(list, Least(Len(list), Greatest(Required[c] * DossierMultiplier[c], DossierFloor[c])))

\* The answer of the model without repetitions and without symbols nobody offered.
Sanitized(picks, valid) == Within(Deduped(picks), valid)

\* (mutant) the symbols already selected are taken again
TopUpAgain(c, selected, ordered) == Take(selected \o ordered, Required[c])

TopUp(c, selected, ordered) ==
  Take(selected \o Without(ordered, ToSet(selected)), Required[c])

\* (mutant) a short selection is not completed from the rows without dossiers
SelectCategoryShort(c, list, answered, picks) ==
  IF Required[c] = 0 \/ answered = {} THEN TopUp(c, <<>>, list)
  ELSE TopUp(c, Sanitized(picks, answered), Within(DossierCandidates(c, list), answered))

\* _select_category_universe: dossiers came back for the symbols of answered, and the
\* final request answered picks (nothing when it failed).
SelectCategory(c, list, answered, picks) ==
  LET chosen == TopUp(c, Sanitized(picks, answered), Within(DossierCandidates(c, list), answered))
  IN  IF Required[c] = 0 THEN <<>>
      ELSE IF answered = {} THEN TopUp(c, <<>>, list)
      ELSE IF Len(chosen) >= Required[c] THEN chosen
      ELSE TopUp(c, chosen, list)
=============================================================================
