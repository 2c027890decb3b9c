--------------------------- MODULE ExitRulesProofs ---------------------------
(***************************************************************************)
(* Theorems about ExitRules, for every entry price, levels, payloads,      *)
(* proposals, operators and prices.                                        *)
(***************************************************************************)
EXTENDS ExitRules, TLAPS

USE PriceAssumption, LevelAssumption, EditAssumption

TrailingLevels == [Trailing -> Positive \cup {None}]

-----------------------------------------------------------------------------
(* The rules themselves: what triggers are, and that they rise with the mark. *)

LEMMA ScaledMonotone ==
  ASSUME NEW a \in Int, NEW b \in Int, a <= b
  PROVE  Scaled(a) \in Int /\ Scaled(b) \in Int /\ Scaled(a) <= Scaled(b)
<1>1. Scale \in Nat /\ b - a \in Nat
  BY DEF Positive
<1>2. (b - a) * Scale \in Nat
  BY <1>1
<1>3. (b - a) * Scale = b * Scale - a * Scale
  BY <1>1
<1>. QED  BY <1>1, <1>2, <1>3 DEF Scaled

LEMMA TriggerTypes ==
  ASSUME NEW m \in Positive, NEW l \in TrailingLevels
  PROVE  /\ TrailingStop(m, l) \in Int \cup {None}
         /\ TrailingTakeProfit(m, l) \in Int \cup {None}
         /\ Floor \in Int
<1>1. Floor \in Int
  BY DEF Floor, Positive
<1>2. TrailingStop(m, l) \in Int \cup {None}
  BY DEF TrailingStop, TrailingLevels, Trailing, Positive
<1>3. CASE Armed(m, l)
  <2>1. m - l["dist"] \in Int
    BY <1>3 DEF Armed, TrailingLevels, Trailing, Positive
  <2>2. Scaled(m - l["dist"]) \in Int
    BY <2>1 DEF Scaled, Positive
  <2>. QED  BY <1>1, <1>2, <2>2 DEF TrailingTakeProfit, Higher
<1>4. CASE ~Armed(m, l)
  BY <1>1, <1>2, <1>4 DEF TrailingTakeProfit
<1>. QED  BY <1>3, <1>4

LEMMA TriggersRise ==
  ASSUME NEW a \in Positive, NEW b \in Positive, a <= b, NEW l \in TrailingLevels
  PROVE  /\ TrailingStop(a, l) # None =>
              TrailingStop(b, l) # None /\ TrailingStop(b, l) >= TrailingStop(a, l)
         /\ TrailingTakeProfit(a, l) # None =>
              /\ TrailingTakeProfit(b, l) # None
              /\ TrailingTakeProfit(b, l) >= TrailingTakeProfit(a, l)
<1>0. a \in Int /\ b \in Int /\ Floor \in Int
  BY TriggerTypes DEF Positive
<1>1. TrailingStop(a, l) # None =>
        TrailingStop(b, l) # None /\ TrailingStop(b, l) >= TrailingStop(a, l)
  BY <1>0 DEF TrailingStop, TrailingLevels, Trailing, Positive
<1>2. ASSUME TrailingTakeProfit(a, l) # None
      PROVE  TrailingTakeProfit(b, l) # None /\ TrailingTakeProfit(b, l) >= TrailingTakeProfit(a, l)
  <2>1. Armed(a, l)
    BY <1>2 DEF TrailingTakeProfit
  <2>2. l["dist"] \in Int /\ l["act"] \in Int
    BY <2>1 DEF Armed, TrailingLevels, Trailing, Positive
  <2>3. Scaled(a) \in Int /\ Scaled(b) \in Int /\ Scaled(a) <= Scaled(b)
    BY <1>0, ScaledMonotone
  <2>4. Entry * (Scale + l["act"]) \in Int
    BY <2>2 DEF Positive
  <2>5. Armed(b, l)
    BY <2>1, <2>3, <2>4 DEF Armed
  <2>6. /\ Scaled(a - l["dist"]) \in Int /\ Scaled(b - l["dist"]) \in Int
        /\ Scaled(a - l["dist"]) <= Scaled(b - l["dist"])
    BY <1>0, <2>2, ScaledMonotone
  <2>7. /\ TrailingTakeProfit(a, l) = Higher(Scaled(a - l["dist"]), Floor)
        /\ TrailingTakeProfit(b, l) = Higher(Scaled(b - l["dist"]), Floor)
    BY <2>1, <2>5 DEF TrailingTakeProfit
  <2>8. Higher(Scaled(b - l["dist"]), Floor) >= Higher(Scaled(a - l["dist"]), Floor)
    BY <1>0, <2>6 DEF Higher
  <2>9. Higher(Scaled(b - l["dist"]), Floor) \in Int
    BY <1>0, <2>6 DEF Higher
  <2>. QED  BY <2>7, <2>8, <2>9
<1>. QED  BY <1>1, <1>2

-----------------------------------------------------------------------------
(* The inductive invariant.                                                *)

ReadInv == pc \in {"mark", "review"} => seen.hwm = hwm

DraftInv == \A o \in Operators : draft[o] # None => PositiveOrNone(draft[o])

IInv == TypeOK /\ TriggersFollowTop /\ ReadInv /\ DraftInv

LEMMA InitIInv == Init => IInv
<1>. SUFFICES ASSUME Init PROVE IInv
  OBVIOUS
<1>1. market \in Positive /\ Higher(Entry, market) \in Positive
  BY DEF Init, Higher
<1>2. basis \in TrailingLevels
  BY DEF Init, TrailingLevels, Levels, Trailing, Fields
<1>3. ts \in Int \cup {None} /\ ttp \in Int \cup {None}
  BY <1>1, <1>2, TriggerTypes DEF Init
<1>4. TypeOK
  BY <1>1, <1>2, <1>3 DEF Init, TypeOK, TrailingLevels
<1>5. TriggersFollowTop
  BY DEF Init, TriggersFollowTop
<1>6. ReadInv /\ DraftInv
  BY DEF Init, ReadInv, DraftInv
<1>. QED  BY <1>4, <1>5, <1>6 DEF IInv

LEMMA EditedType ==
  ASSUME NEW l \in Levels, NEW d \in Payloads, PositiveOrNone(d)
  PROVE  Edited(l, d) \in Levels
<1>1. PICK F \in SUBSET Fields : d \in [F -> Raw]
  OBVIOUS
<1>2. \A f \in F : d[f] \in Positive \cup {None}
  BY <1>1 DEF Raw, Positive, PositiveOrNone
<1>. QED  BY <1>1, <1>2 DEF Edited, Levels

LEMMA MarkStep ==
  ASSUME IInv, NEW price \in Positive, Mark(price)
  PROVE  IInv' /\ hwm <= hwm' /\ hwm' \in Positive
<1>1. seen \in Seen /\ seen.hwm = hwm /\ hwm = top /\ hwm \in Positive
  BY DEF IInv, TypeOK, ReadInv, TriggersFollowTop, Mark
<1>2. hwm' = Higher(hwm, price) /\ top' = hwm' /\ hwm' \in Positive /\ hwm <= hwm'
  BY <1>1 DEF Mark, HighMark, Higher, Positive
<1>3. seen.levels \in Levels
  BY <1>1 DEF Seen
<1>4. basis' \in TrailingLevels
  BY <1>3 DEF Mark, TrailingLevels, Levels, Trailing, Fields
<1>5. ts' = TrailingStop(hwm', basis') /\ ttp' = TrailingTakeProfit(hwm', basis')
  BY <1>1, <1>2 DEF Mark
<1>6. ts' \in Int \cup {None} /\ ttp' \in Int \cup {None}
  BY <1>2, <1>4, <1>5, TriggerTypes
<1>7. TypeOK'
  BY <1>1, <1>2, <1>4, <1>6 DEF IInv, TypeOK, Mark, TrailingLevels
<1>8. TriggersFollowTop'
  BY <1>2, <1>5 DEF TriggersFollowTop
<1>9. ReadInv' /\ DraftInv'
  BY DEF IInv, ReadInv, DraftInv, Mark
<1>. QED  BY <1>2, <1>7, <1>8, <1>9 DEF IInv

LEMMA ReviewStep ==
  ASSUME IInv, NEW p \in Proposals, Review(p)
  PROVE  IInv'
<1>1. seen.hwm = hwm /\ hwm = top /\ hwm \in Positive /\ hwm' = hwm /\ top' = top
  BY DEF IInv, TypeOK, ReadInv, TriggersFollowTop, Review
<1>2. p["dist"] \in Positive \cup {None} /\ p["act"] \in Positive \cup {None}
  BY DEF Review, Sound
<1>3. levels' \in Levels
  BY <1>2 DEF IInv, TypeOK, Review, Levels
<1>4. basis' \in TrailingLevels
  BY <1>2 DEF IInv, TypeOK, Review, TrailingLevels
<1>5. ttp' = TrailingTakeProfit(top', basis') /\ ttp' \in Int \cup {None}
  BY <1>1, <1>4, TriggerTypes DEF Review
<1>6. ts' = TrailingStop(top', basis')
  <2>1. ts' = TrailingStop(top, basis)
    BY DEF IInv, TriggersFollowTop, Review
  <2>2. basis'["stop_dist"] = basis["stop_dist"]
    BY DEF IInv, TypeOK, Review, Trailing
  <2>. QED  BY <1>1, <2>1, <2>2 DEF TrailingStop
<1>7. TypeOK'
  BY <1>3, <1>4, <1>5 DEF IInv, TypeOK, Review, TrailingLevels
<1>8. TriggersFollowTop'
  BY <1>1, <1>5, <1>6 DEF TriggersFollowTop
<1>9. ReadInv' /\ DraftInv'
  BY DEF IInv, ReadInv, DraftInv, Review
<1>. QED  BY <1>7, <1>8, <1>9 DEF IInv

LEMMA DecideStep == ASSUME IInv, Decide PROVE IInv'
<1>1. asked' \in Reasons \cup {None}
  BY DEF Decide, CloseReason, Downside, Reasons
<1>2. TypeOK'
  BY <1>1 DEF IInv, TypeOK, Decide, row
<1>3. TriggersFollowTop' /\ ReadInv' /\ DraftInv'
  BY DEF IInv, TriggersFollowTop, ReadInv, DraftInv, Decide, row
<1>. QED  BY <1>2, <1>3 DEF IInv

LEMMA NextIInv == IInv /\ [Next]_vars => IInv'
<1>. SUFFICES ASSUME IInv, [Next]_vars PROVE IInv'
  OBVIOUS
<1>. USE DEF IInv, row
<1>1. ASSUME NEW label \in {"mark", "review"}, Read(label) PROVE IInv'
  <2>1. seen' \in Seen /\ seen'.hwm = hwm /\ hwm' = hwm
    BY <1>1 DEF Read, TypeOK, Seen
  <2>2. TypeOK'
    BY <1>1, <2>1 DEF Read, TypeOK
  <2>3. TriggersFollowTop' /\ DraftInv'
    BY <1>1 DEF Read, TriggersFollowTop, DraftInv
  <2>. QED  BY <2>1, <2>2, <2>3 DEF ReadInv
<1>2. ASSUME Mark(market) PROVE IInv'
  <2>1. market \in Positive
    BY DEF TypeOK
  <2>. QED  BY <1>2, <2>1, MarkStep
<1>3. ASSUME Mark(seen.current) PROVE IInv'
  <2>1. seen.current \in Positive
    BY <1>3 DEF Mark, TypeOK, Seen
  <2>. QED  BY <1>3, <2>1, MarkStep
<1>4. CASE Decide
  BY <1>4, DecideStep
<1>5. CASE JobStops
  BY <1>5 DEF JobStops, TypeOK, TriggersFollowTop, ReadInv, DraftInv
<1>6. ASSUME NEW p \in Proposals, Review(p) PROVE IInv'
  BY <1>6, ReviewStep
<1>7. ASSUME NEW o \in Operators, Write(o) PROVE IInv'
  <2>1. levels' \in Levels
    BY <1>7, EditedType DEF Write, TypeOK, DraftInv
  <2>. QED  BY <1>7, <2>1 DEF Write, TypeOK, TriggersFollowTop, ReadInv, DraftInv
<1>8. ASSUME NEW o \in Operators, NEW d \in Payloads, Check(o, d) PROVE IInv'
  BY <1>8 DEF Check, TypeOK, TriggersFollowTop, ReadInv, DraftInv
<1>9. ASSUME NEW price \in Prices, Quote(price) PROVE IInv'
  BY <1>9 DEF Quote, TypeOK, TriggersFollowTop, ReadInv, DraftInv
<1>10. CASE UNCHANGED vars
  BY <1>10 DEF vars, TypeOK, TriggersFollowTop, ReadInv, DraftInv
<1>. QED  BY <1>1, <1>2, <1>3, <1>4, <1>5, <1>6, <1>7, <1>8, <1>9, <1>10 DEF Next

LEMMA Invariant == Spec => []IInv
BY InitIInv, NextIInv, PTL DEF Spec

\* Every variable stays in its range: whatever is requested or proposed, no
\* level that is neither positive nor absent reaches the row.
THEOREM TypeCorrect == Spec => []TypeOK
<1>1. IInv => TypeOK
  BY DEF IInv
<1>. QED  BY <1>1, Invariant, PTL

\* The stored mark and triggers are always those of the highest price seen.
THEOREM TriggersAreOfTheTop == Spec => []TriggersFollowTop
<1>1. IInv => TriggersFollowTop
  BY DEF IInv
<1>. QED  BY <1>1, Invariant, PTL

Ratchet ==
  basis' = basis =>
    /\ ts # None => ts' # None /\ ts' >= ts
    /\ ttp # None => ttp' # None /\ ttp' >= ttp

LEMMA StepRatchets == IInv /\ [Next]_vars => Ratchet
<1>. SUFFICES ASSUME IInv, [Next]_vars, basis' = basis PROVE Ratchet
  BY DEF Ratchet
<1>1. /\ basis \in TrailingLevels /\ hwm \in Positive
      /\ ts = TrailingStop(hwm, basis) /\ ttp = TrailingTakeProfit(hwm, basis)
      /\ ts \in Int \cup {None} /\ ttp \in Int \cup {None}
  BY DEF IInv, TypeOK, TriggersFollowTop, TrailingLevels
<1>2. /\ hwm' \in Positive
      /\ ts' = TrailingStop(hwm', basis) /\ ttp' = TrailingTakeProfit(hwm', basis)
  BY NextIInv DEF IInv, TypeOK, TriggersFollowTop
<1>3. hwm <= hwm'
  <2>1. ASSUME NEW price \in Positive, Mark(price) PROVE hwm <= hwm'
    BY <2>1, MarkStep
  <2>2. Mark(market) => hwm <= hwm'
    BY <2>1 DEF IInv, TypeOK
  <2>3. Mark(seen.current) => hwm <= hwm'
    <3>1. Mark(seen.current) => seen.current \in Positive
      BY DEF IInv, TypeOK, Mark, Seen
    <3>. QED  BY <2>1, <3>1
  <2>4. ~Mark(market) /\ ~Mark(seen.current) => hwm' = hwm
    BY DEF Next, Read, Decide, JobStops, Review, Write, Check, Quote, vars, row
  <2>5. hwm <= hwm
    BY <1>1 DEF Positive
  <2>. QED  BY <2>2, <2>3, <2>4, <2>5
<1>. QED  BY <1>1, <1>2, <1>3, TriggersRise DEF Ratchet

\* A trailing trigger only ever rises while its levels stay, for any prices.
THEOREM TriggersOnlyRise == Spec => TriggersRatchet
<1>1. IInv /\ [Next]_vars => [Ratchet]_vars
  BY StepRatchets
<1>2. [][Ratchet]_vars => TriggersRatchet
  BY PTL DEF TriggersRatchet, Ratchet
<1>. QED  BY <1>1, <1>2, Invariant, PTL DEF Spec
=============================================================================
