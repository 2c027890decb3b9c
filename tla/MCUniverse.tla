------------------------------ MODULE MCUniverse ------------------------------
(***************************************************************************)
(* A small universe: two stocks to pick of four offered, one of them       *)
(* unfit, a listed ETF, one coin of two, and numbers small enough for      *)
(* every limit to cut something off.                                       *)
(***************************************************************************)
EXTENDS Universe

CONSTANTS sa, sb, sc, sd, se, cx, cy, zz

PerCategory(stock, coin) == [k \in Categories |-> IF k = "STOCK" THEN stock ELSE coin]
Row(stocks, coins) == PerCategory(stocks, coins)

Alphabet  == <<sa, sb, sc, sd, se, cx, cy>>
MCName    == [s \in Symbols |-> CHOOSE i \in DOMAIN Alphabet : Alphabet[i] = s]
MCCheap   == [s \in Symbols |-> 0]
MCScore   == [s \in Symbols |-> IF s \in {sb, cy} THEN 2 ELSE 1]
MCEtfs    == <<se>>
MCOffers  == PerCategory({<<sa, sb, sc, sd>>, <<sd, sb, sd>>}, {<<cx, cy>>})
MCPicks   == {<<zz, sd, sd>>, <<sb, sa, sc, cx>>}
MCFirst   == {NoFile, Row(<<sa, se, sc>>, <<cx>>)}
MCRequests == {[op |-> "add", category |-> "STOCK", symbol |-> sb],
               [op |-> "remove", category |-> "STOCK", symbol |-> se],
               [op |-> "remove", category |-> "CRYPTO", symbol |-> cx]}
MCRequired == PerCategory(2, 1)
MCShortlist == PerCategory(3, 1)
MCBatch     == PerCategory(1, 1)
MCPrefilter == PerCategory(1, 1)
MCDossiers  == PerCategory(1, 1)
MCFloor     == PerCategory(1, 1)

\* The lists written out in UniverseSelection are those of the library's operators.
ShortLists == UNION {[1..n -> {sa, sb, sc}] : n \in 0..4}
ASSUME ListReference ==
  /\ \A list \in ShortLists, S \in SUBSET {sa, sb, sc} :
       /\ Within(list, S)  = SelectSeq(list, LAMBDA s : s \in S)
       /\ Without(list, S) = SelectSeq(list, LAMBDA s : s \notin S)
       /\ Sanitized(list, S) =
            FoldLeft(LAMBDA picked, s : IF s \in S \ ToSet(picked) THEN Append(picked, s)
                                      ELSE picked, <<>>, list)
  /\ \A S \in SUBSET Symbols, priced \in SUBSET {sa, sb, cx} :
       ByRank(BarRank(priced), S) =
         SetToSortSeq(S, LAMBDA s, t : RanksBefore(BarRank(priced), s, t))
=============================================================================
