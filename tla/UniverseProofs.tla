---------------------------- MODULE UniverseProofs ----------------------------
(***************************************************************************)
(* Theorems about the universe file: answered edits stand until something  *)
(* supersedes them, and a refresh selects what it may, as much as it must, *)
(* and while it has a broker empties no category, whatever the models say. *)
(***************************************************************************)
EXTENDS Universe, FiniteSetTheorems, TLAPS

-----------------------------------------------------------------------------
(* The inductive invariants.                                               *)

\* The refresh never stands where a request reads.
TypeInv == TypeOK /\ pc[Job] # "read"

\* What a category had when the refresh read it, and what the listed ETFs add to it.
Had(c)    == ToSet(base[Job][c])
Listed(c) == IF c = "STOCK" THEN ToSet(Etfs) ELSE {}

\* The symbols of had come first in a list, which leaves out some of those in all only
\* when it has nothing else.
HadFirst(list, had, all) ==
  /\ \A i, j \in DOMAIN list : i < j /\ list[j] \in had => list[i] \in had
  /\ all \cap had \subseteq ToSet(list) \/ ToSet(list) \subseteq had

\* The rows the refresh considers: offered, each once, fit unless the category had them,
\* and those it had first.
RowsFit ==
  \A c \in Categories :
    /\ DistinctSymbols(payload[c])
    /\ ToSet(payload[c]) \subseteq ToSet(offered[c]) \cap (Had(c) \cup Clean)
    /\ HadFirst(payload[c], Had(c), ToSet(offered[c]))

\* Where the refresh is once it has selected a category.
Selecting(c) == IF c = "STOCK" THEN {"crypto"} ELSE {}
Chosen(c) == Selecting(c) \cup {"inject", "write", "replace"}

\* A category is kept only once it has been the turn of its selection.
KeptInTurn == \A c \in kept : pc[Job] \in {"idle"} \cup Chosen(c)

\* A kept category has what it had, and the ETFs.
KeptWhole ==
  pc[Job] # "idle" =>
    \A c \in kept : Had(c) \subseteq ToSet(got[c]) /\ ToSet(got[c]) \subseteq Had(c) \cup Listed(c)

\* Any category that has been selected is sound, and filled as it must be while there is
\* a broker; a category selected anew had those it had reviewed first.
Choice(c) ==
  /\ ToSet(got[c]) \subseteq Had(c) \cup (ToSet(offered[c]) \cap Clean) \cup Listed(c)
  /\ DistinctSymbols(base[Job][c]) => DistinctSymbols(got[c])
  /\ connected /\ Required[c] > 0 /\ base[Job][c] # <<>> => got[c] # <<>>
  /\ c \notin kept =>
       /\ reviewed[c] \subseteq Had(c) \/ ToSet(offered[c]) \cap Had(c) \subseteq reviewed[c]
       /\ pc[Job] \in Selecting(c) \cup {"inject"} =>
            Len(got[c]) = Least(Required[c], Len(payload[c]))
ChoicesSound == \A c \in Categories : pc[Job] \in Chosen(c) => Choice(c)

SelectInv == RowsFit /\ KeptInTurn /\ KeptWhole /\ ChoicesSound

\* An edit stands since a version the file has reached.
StandsReached ==
  \A c \in Categories, s \in Symbols : stands[c][s].op # "free" => stands[c][s].at <= version

\* What a writer has read, holds the edits answered by then; if nothing was published
\* since, it is what the file has.
Reading(w) == pc[w] \notin {"idle", "read"}
HoldsRead(w) ==
  Reading(w) =>
    /\ baseAt[w] <= version
    /\ baseAt[w] = version => base[w] = ReadFile
    /\ \A c \in Categories, s \in Symbols :
         stands[c][s].op # "free" /\ stands[c][s].at <= baseAt[w]
           => Holds(base[w], stands[c][s].op, c, s)
ReadersAgree == \A w \in Writers : HoldsRead(w)

\* A writer publishes what it has prepared.
TempsReady ==
  /\ \A t \in Threads : pc[t] = "replace" => temp[t] = Edited(base[t], edit[t])
  /\ pc[Job] = "replace" => temp[Job] = got

StandInv == StandsReached /\ ReadersAgree /\ TempsReady /\ StandingEdits

-----------------------------------------------------------------------------
(* Enumerations: the k-th element of a finite set is the one that k - 1    *)
(* elements come before.                                                   *)

\* In a finite total order every place is taken, by one element.
LEMMA Places ==
  ASSUME NEW S, IsFiniteSet(S), NEW before \in [S -> SUBSET S],
         \A s \in S : s \notin before[s],
         \A s, t \in S : s = t \/ s \in before[t] \/ t \in before[s],
         \A s, t \in S : s \in before[t] => before[s] \subseteq before[t]
  PROVE  /\ Cardinality(S) \in Nat
         /\ \A k \in 1..Cardinality(S) : \E s \in S : Cardinality(before[s]) = k - 1
         /\ \A s \in S : Cardinality(before[s]) + 1 \in 1..Cardinality(S)
         /\ \A s, t \in S : Cardinality(before[s]) = Cardinality(before[t]) => s = t
<1> DEFINE n == Cardinality(S)
           place == [s \in S |-> Cardinality(before[s])]
<1>0. n \in Nat
  BY FS_CardinalityType
<1>1. ASSUME NEW s \in S, NEW t \in S, s \in before[t]
      PROVE  /\ Cardinality(before[s]) \in Nat /\ Cardinality(before[t]) \in Nat
             /\ Cardinality(before[s]) < Cardinality(before[t])
  <2>1. before[t] \in SUBSET S /\ before[s] \in SUBSET before[t] /\ before[s] # before[t]
    BY <1>1
  <2>2. IsFiniteSet(before[t]) /\ IsFiniteSet(before[s])
    BY <2>1, FS_Subset
  <2>3. /\ Cardinality(before[s]) <= Cardinality(before[t])
        /\ Cardinality(before[t]) # Cardinality(before[s])
    BY <2>1, <2>2, FS_Subset
  <2> QED
    BY <2>2, <2>3, FS_CardinalityType
<1>2. ASSUME NEW s \in S PROVE Cardinality(before[s]) \in 0..(n - 1)
  <2>1. before[s] \in SUBSET S /\ before[s] # S
    BY DEF n
  <2>2. IsFiniteSet(before[s])
    BY <2>1, FS_Subset
  <2>3. Cardinality(before[s]) <= n /\ n # Cardinality(before[s])
    BY <2>1, FS_Subset
  <2> QED
    BY <2>2, <2>3, <1>0, FS_CardinalityType
<1>3. ASSUME NEW s \in S, NEW t \in S, s # t
      PROVE  Cardinality(before[s]) # Cardinality(before[t])
  <2>1. CASE s \in before[t]
    BY <2>1, <1>1
  <2>2. CASE t \in before[s]
    BY <2>2, <1>1
  <2> QED
    BY <2>1, <2>2, <1>3
<1>4. place \in Injection(S, 0..(n - 1))
  BY <1>2, <1>3 DEF Injection, IsInjective
<1>5. IsFiniteSet(0..(n - 1)) /\ Cardinality(0..(n - 1)) = n
  BY <1>0, FS_Interval
<1>6. place \in Surjection(S, 0..(n - 1))
  BY <1>4, <1>5, FS_Injection
<1>7. ASSUME NEW k \in 1..n PROVE \E s \in S : Cardinality(before[s]) = k - 1
  <2>1. k - 1 \in 0..(n - 1)
    BY <1>0
  <2>2. \E s \in S : place[s] = k - 1
    BY <2>1, <1>6 DEF Surjection
  <2> QED
    BY <2>2
<1>8. ASSUME NEW s \in S PROVE Cardinality(before[s]) + 1 \in 1..n
  BY <1>0, <1>2
<1> QED
  BY <1>0, <1>3, <1>7, <1>8

-----------------------------------------------------------------------------
(* Lists.                                                                  *)

\* The entries of a list at some of its places, in a list of their own.
LEMMA AtFacts ==
  ASSUME NEW X, NEW list \in Seq(X), NEW P \in SUBSET DOMAIN list
  PROVE  /\ At(list, P) \in Seq(X)
         /\ Cardinality(P) \in Nat /\ Len(At(list, P)) = Cardinality(P)
         /\ ToSet(At(list, P)) = {list[i] : i \in P}
         /\ (\A i, j \in P : i # j => list[i] # list[j]) => DistinctSymbols(At(list, P))
<1> DEFINE before == [i \in P |-> {j \in P : j < i}]
           n == Cardinality(P)
           pick == [k \in 1..n |-> CHOOSE i \in P : Cardinality({j \in P : j < i}) = k - 1]
<1>0. IsFiniteSet(P) /\ P \in SUBSET Nat /\ \A i \in P : list[i] \in X
  <2>1. IsFiniteSet(1..Len(list)) /\ P \in SUBSET (1..Len(list))
    BY FS_Interval
  <2> QED
    BY <2>1, FS_Subset
<1>1. /\ n \in Nat
      /\ \A k \in 1..n : \E i \in P : Cardinality(before[i]) = k - 1
      /\ \A i \in P : Cardinality(before[i]) + 1 \in 1..n
      /\ \A i, j \in P : Cardinality(before[i]) = Cardinality(before[j]) => i = j
  <2>1. before \in [P -> SUBSET P] /\ \A i \in P : i \notin before[i]
    BY <1>0
  <2>2. /\ \A i, j \in P : i = j \/ i \in before[j] \/ j \in before[i]
        /\ \A i, j \in P : i \in before[j] => before[i] \subseteq before[j]
    BY <1>0
  <2> HIDE DEF before
  <2> QED
    BY <1>0, <2>1, <2>2, Places
<1>2. ASSUME NEW k \in 1..n
      PROVE  pick[k] \in P /\ Cardinality(before[pick[k]]) = k - 1
  <2> DEFINE place == CHOOSE i \in P : Cardinality({j \in P : j < i}) = k - 1
  <2>1. \E i \in P : Cardinality({j \in P : j < i}) = k - 1
    BY <1>1
  <2>2. place \in P /\ Cardinality({j \in P : j < place}) = k - 1
    BY <2>1, Zenon
  <2>3. pick[k] = place
    BY Zenon
  <2> QED
    BY <2>2, <2>3, Zenon
<1>3. At(list, P) = [k \in 1..n |-> list[pick[k]]]
  BY DEF At
<1> HIDE DEF pick, before, n
<1>4. ASSUME NEW k \in 1..n, NEW l \in 1..n, k # l PROVE pick[k] # pick[l]
  <2>1. Cardinality(before[pick[k]]) = k - 1 /\ Cardinality(before[pick[l]]) = l - 1
    BY <1>2, Zenon
  <2>2. k - 1 # l - 1
    BY <1>1, <1>4
  <2> QED
    BY <2>1, <2>2, Zenon
<1>5. ASSUME NEW i \in P PROVE \E k \in 1..n : pick[k] = i
  <2>1. PICK k \in 1..n : k = Cardinality(before[i]) + 1
    BY <1>1
  <2>2. pick[k] \in P /\ Cardinality(before[pick[k]]) = k - 1
    BY <1>2, Zenon
  <2>3. Cardinality(before[i]) \in Nat => k - 1 = Cardinality(before[i])
    BY <2>1
  <2>4. IsFiniteSet(before[i])
    BY <1>0, FS_Subset DEF before
  <2> QED
    BY <2>2, <2>3, <2>4, <1>1, FS_CardinalityType
<1>6. At(list, P) \in Seq(X) /\ Len(At(list, P)) = n /\ DOMAIN At(list, P) = 1..n
  BY <1>0, <1>1, <1>2, <1>3
<1>7. ToSet(At(list, P)) = {list[i] : i \in P}
  <2>1. ToSet(At(list, P)) = {list[pick[k]] : k \in 1..n}
    BY <1>3, <1>6 DEF ToSet
  <2> QED
    BY <2>1, <1>2, <1>5, Zenon
<1>8. (\A i, j \in P : i # j => list[i] # list[j]) => DistinctSymbols(At(list, P))
  BY <1>2, <1>3, <1>4, <1>6 DEF DistinctSymbols
<1> QED
  BY <1>1, <1>6, <1>7, <1>8 DEF n

\* What lies inside a set, what lies outside it, and what is not repeated.
LEMMA WithinFacts ==
  ASSUME NEW X, NEW list \in Seq(X), NEW S
  PROVE  /\ Within(list, S) \in Seq(X) /\ Without(list, S) \in Seq(X)
         /\ ToSet(Within(list, S)) = ToSet(list) \cap S
         /\ ToSet(Without(list, S)) = ToSet(list) \ S
         /\ DistinctSymbols(list) => /\ DistinctSymbols(Within(list, S))
                                     /\ DistinctSymbols(Without(list, S))
<1> DEFINE I == {i \in DOMAIN list : list[i] \in S}
           O == {i \in DOMAIN list : list[i] \notin S}
<1>1. I \in SUBSET DOMAIN list /\ O \in SUBSET DOMAIN list
  OBVIOUS
<1>2. /\ {list[i] : i \in I} = ToSet(list) \cap S
      /\ {list[i] : i \in O} = ToSet(list) \ S
  BY DEF ToSet
<1>3. Within(list, S) = At(list, I) /\ Without(list, S) = At(list, O)
  BY DEF Within, Without
<1>4. DistinctSymbols(list) => /\ \A i, j \in I : i # j => list[i] # list[j]
                               /\ \A i, j \in O : i # j => list[i] # list[j]
  BY DEF DistinctSymbols
<1> HIDE DEF I, O
<1> QED
  BY <1>1, <1>2, <1>3, <1>4, AtFacts

\* A finite set of numbers has a least and a greatest element.
LEMMA Extremes ==
  ASSUME NEW S \in SUBSET Nat, IsFiniteSet(S), S # {}
  PROVE  (\E x \in S : \A y \in S : x <= y) /\ \E x \in S : \A y \in S : y <= x
<1> DEFINE before == [x \in S |-> {y \in S : y < x}]
           n == Cardinality(S)
<1>1. /\ n \in Nat
      /\ \A k \in 1..n : \E x \in S : Cardinality(before[x]) = k - 1
  <2>1. before \in [S -> SUBSET S] /\ \A x \in S : x \notin before[x]
    OBVIOUS
  <2>2. \A x, y \in S : x = y \/ x \in before[y] \/ y \in before[x]
    OBVIOUS
  <2>3. ASSUME NEW x \in S, NEW y \in S, x \in before[y]
        PROVE  before[x] \subseteq before[y]
    <3>1. before[x] = {z \in S : z < x} /\ before[y] = {z \in S : z < y} /\ x < y
      BY <2>3
    <3>2. \A z \in S : z < x => z < y
      BY <3>1
    <3> QED
      BY <3>1, <3>2, Zenon
  <2> HIDE DEF before
  <2>4. \A x, y \in S : x \in before[y] => before[x] \subseteq before[y]
    BY <2>3, Zenon
  <2>5. /\ Cardinality(S) \in Nat
        /\ \A k \in 1..Cardinality(S) : \E x \in S : Cardinality(before[x]) = k - 1
        /\ \A x \in S : Cardinality(before[x]) + 1 \in 1..Cardinality(S)
        /\ \A x, y \in S : Cardinality(before[x]) = Cardinality(before[y]) => x = y
    BY <2>1, <2>2, <2>4, Places
  <2> QED
    BY <2>5
<1>2. 1 \in 1..n /\ n \in 1..n
  BY <1>1, FS_EmptySet
<1>3. ASSUME NEW x \in S PROVE IsFiniteSet(before[x])
  BY FS_Subset
<1>4. PICK x \in S : Cardinality(before[x]) = 1 - 1
  BY <1>1, <1>2, Zenon
<1>5. before[x] = {}
  BY <1>3, <1>4, FS_EmptySet
<1>6. PICK z \in S : Cardinality(before[z]) = n - 1
  BY <1>1, <1>2, Zenon
<1>7. before[z] = S \ {z}
  <2>1. IsFiniteSet(S \ {z}) /\ Cardinality(S \ {z}) = n - 1
    BY FS_RemoveElement
  <2>2. before[z] \in SUBSET (S \ {z})
    OBVIOUS
  <2> QED
    BY <2>1, <2>2, <1>6, FS_Subset
<1>8. \A y \in S : x <= y
  BY <1>5
<1>9. \A y \in S : y <= z
  BY <1>7
<1> QED
  BY <1>8, <1>9

\* Dropping repetitions loses no entry.
LEMMA DedupedFacts ==
  ASSUME NEW X, NEW list \in Seq(X)
  PROVE  /\ Deduped(list) \in Seq(X) /\ ToSet(Deduped(list)) = ToSet(list)
         /\ DistinctSymbols(Deduped(list))
<1> DEFINE D == DOMAIN list
           P == {i \in D : \A j \in D : j < i => list[j] # list[i]}
<1>1. P \in SUBSET D /\ \A i, j \in P : i # j => list[i] # list[j]
  OBVIOUS
<1>2. ASSUME NEW i \in D PROVE \E j \in P : list[j] = list[i]
  <2> DEFINE Same == {j \in D : list[j] = list[i]}
  <2>1. Same \in SUBSET Nat /\ Same \in SUBSET D /\ i \in Same
    OBVIOUS
  <2>2. IsFiniteSet(Same)
    BY <2>1, FS_Interval, FS_Subset
  <2>3. PICK j \in Same : \A k \in Same : j <= k
    BY <2>1, <2>2, Extremes
  <2>4. j \in P
    BY <2>3
  <2> QED
    BY <2>3, <2>4
<1>3. {list[i] : i \in P} = ToSet(list)
  BY <1>1, <1>2 DEF ToSet
<1>4. Deduped(list) = At(list, P)
  BY DEF Deduped
<1> HIDE DEF P
<1> QED
  BY <1>1, <1>3, <1>4, AtFacts

\* The answer of the model names symbols that may be chosen, each once.
LEMMA SanitizedFacts ==
  ASSUME NEW X, NEW picks \in Seq(X), NEW valid
  PROVE  /\ Sanitized(picks, valid) \in Seq(X \cap valid)
         /\ DistinctSymbols(Sanitized(picks, valid))
<1>1. /\ Sanitized(picks, valid) \in Seq(X)
      /\ ToSet(Sanitized(picks, valid)) = ToSet(Deduped(picks)) \cap valid
      /\ DistinctSymbols(Sanitized(picks, valid))
  BY DedupedFacts, WithinFacts DEF Sanitized
<1> QED
  BY <1>1 DEF ToSet

\* A list without repetitions is as long as it has entries.
LEMMA DistinctLength ==
  ASSUME NEW X, NEW list \in Seq(X)
  PROVE  /\ IsFiniteSet(ToSet(list)) /\ Cardinality(ToSet(list)) \in Nat
         /\ Cardinality(ToSet(list)) <= Len(list)
         /\ DistinctSymbols(list) => Cardinality(ToSet(list)) = Len(list)
<1> DEFINE D == 1..Len(list)
<1>1. IsFiniteSet(D) /\ Cardinality(D) = Len(list)
  <2>1. Len(list) \in Nat
    OBVIOUS
  <2>2. IsFiniteSet(D) /\ Cardinality(D) = IF 1 > Len(list) THEN 0 ELSE Len(list) - 1 + 1
    BY <2>1, FS_Interval
  <2> QED
    BY <2>1, <2>2
<1>2. list \in Surjection(D, ToSet(list))
  BY DEF Surjection, ToSet
<1>3. DistinctSymbols(list) => list \in Injection(D, ToSet(list))
  BY <1>2 DEF DistinctSymbols, Injection, IsInjective, Surjection
<1> QED
  BY <1>1, <1>2, <1>3, FS_Surjection, FS_CardinalityType

\* A prefix of a list.
LEMMA TakeFacts ==
  ASSUME NEW X, NEW list \in Seq(X), NEW n \in Nat
  PROVE  /\ Take(list, n) \in Seq(X) /\ Len(Take(list, n)) = Least(n, Len(list))
         /\ \A i \in 1..Len(Take(list, n)) : i \in 1..Len(list) /\ Take(list, n)[i] = list[i]
         /\ ToSet(Take(list, n)) \subseteq ToSet(list)
         /\ DistinctSymbols(list) => DistinctSymbols(Take(list, n))
<1> DEFINE m == Least(n, Len(list))
<1>1. m \in 0..Len(list) /\ Len(list) \in Nat
  BY DEF Least
<1> HIDE DEF m
<1>2. Take(list, n) = SubSeq(list, 1, m)
  BY DEF Take, m
<1>3. /\ SubSeq(list, 1, m) \in Seq(X) /\ Len(SubSeq(list, 1, m)) = m
      /\ \A i \in 1..m : SubSeq(list, 1, m)[i] = list[i]
  BY <1>1
<1>4. \A i \in 1..m : i \in 1..Len(list)
  BY <1>1
<1>5. DOMAIN Take(list, n) = 1..m /\ DOMAIN list = 1..Len(list)
  BY <1>2, <1>3
<1>6. ToSet(Take(list, n)) \subseteq ToSet(list)
  BY <1>2, <1>3, <1>4, <1>5 DEF ToSet
<1>7. DistinctSymbols(list) => DistinctSymbols(Take(list, n))
  BY <1>2, <1>3, <1>4, <1>5 DEF DistinctSymbols
<1> QED
  BY <1>2, <1>3, <1>4, <1>6, <1>7 DEF m

\* One list after another.
LEMMA ConcatFacts ==
  ASSUME NEW X, NEW a \in Seq(X), NEW b \in Seq(X)
  PROVE  /\ a \o b \in Seq(X) /\ Len(a \o b) = Len(a) + Len(b)
         /\ \A i \in 1..Len(a) : (a \o b)[i] = a[i]
         /\ \A i \in (Len(a) + 1)..Len(a \o b) : (a \o b)[i] \in ToSet(b)
         /\ ToSet(a \o b) = ToSet(a) \cup ToSet(b)
         /\ DistinctSymbols(a) /\ DistinctSymbols(b) /\ ToSet(a) \cap ToSet(b) = {}
              => DistinctSymbols(a \o b)
<1>1. /\ a \o b \in Seq(X) /\ Len(a \o b) = Len(a) + Len(b)
      /\ Len(a) \in Nat /\ Len(b) \in Nat
      /\ \A i \in 1..Len(a) : (a \o b)[i] = a[i]
      /\ \A i \in 1..Len(b) : (a \o b)[Len(a) + i] = b[i]
  OBVIOUS
<1>2. ASSUME NEW i \in (Len(a) + 1)..Len(a \o b)
      PROVE  i - Len(a) \in 1..Len(b) /\ (a \o b)[i] = b[i - Len(a)]
  <2>1. i - Len(a) \in 1..Len(b) /\ Len(a) + (i - Len(a)) = i
    BY <1>1
  <2> QED
    BY <2>1, <1>1
<1>3. /\ DOMAIN a = 1..Len(a) /\ DOMAIN b = 1..Len(b)
      /\ DOMAIN (a \o b) = 1..(Len(a) + Len(b))
  BY <1>1
<1>4. \A i \in 1..(Len(a) + Len(b)) : i \in 1..Len(a) \/ i \in (Len(a) + 1)..Len(a \o b)
  BY <1>1
<1>5. /\ \A i \in 1..Len(a) : i \in 1..(Len(a) + Len(b))
      /\ \A i \in 1..Len(b) : Len(a) + i \in 1..(Len(a) + Len(b))
  BY <1>1
<1>6. ToSet(a \o b) = ToSet(a) \cup ToSet(b)
  <2>1. ASSUME NEW x \in ToSet(a \o b) PROVE x \in ToSet(a) \cup ToSet(b)
    BY <1>1, <1>2, <1>3, <1>4 DEF ToSet
  <2>2. ASSUME NEW x \in ToSet(a) PROVE x \in ToSet(a \o b)
    BY <1>1, <1>3, <1>5 DEF ToSet
  <2>3. ASSUME NEW x \in ToSet(b) PROVE x \in ToSet(a \o b)
    <3>1. PICK i \in 1..Len(b) : x = b[i]
      BY <1>3 DEF ToSet
    <3>2. Len(a) + i \in DOMAIN (a \o b) /\ (a \o b)[Len(a) + i] = x
      BY <3>1, <1>1, <1>3, <1>5
    <3> QED
      BY <3>2, Zenon DEF ToSet
  <2> QED
    BY <2>1, <2>2, <2>3
<1>7. \A i \in (Len(a) + 1)..Len(a \o b) : (a \o b)[i] \in ToSet(b)
  BY <1>2, <1>3 DEF ToSet
<1>8. ASSUME DistinctSymbols(a), DistinctSymbols(b), ToSet(a) \cap ToSet(b) = {},
             NEW i \in DOMAIN (a \o b), NEW j \in DOMAIN (a \o b), i # j
      PROVE  (a \o b)[i] # (a \o b)[j]
  <2>1. CASE i \in 1..Len(a) /\ j \in 1..Len(a)
    BY <2>1, <1>1, <1>3, <1>8 DEF DistinctSymbols
  <2>2. CASE i \in (Len(a) + 1)..Len(a \o b) /\ j \in (Len(a) + 1)..Len(a \o b)
    <3>1. i - Len(a) # j - Len(a)
      BY <2>2, <1>1, <1>8
    <3> QED
      BY <3>1, <2>2, <1>2, <1>3, <1>8 DEF DistinctSymbols
  <2>3. \A k \in 1..Len(a) : (a \o b)[k] \in ToSet(a)
    BY <1>1, <1>3 DEF ToSet
  <2>4. CASE i \in 1..Len(a) /\ j \in (Len(a) + 1)..Len(a \o b)
    BY <2>3, <2>4, <1>7, <1>8
  <2>5. CASE j \in 1..Len(a) /\ i \in (Len(a) + 1)..Len(a \o b)
    BY <2>3, <2>5, <1>7, <1>8
  <2> QED
    BY <2>1, <2>2, <2>4, <2>5, <1>3, <1>4, <1>8
<1> QED
  BY <1>1, <1>6, <1>7, <1>8 DEF DistinctSymbols

\* The k-th symbol of a ranking is the one that k - 1 others rank before.
LEMMA RankedPlaces ==
  ASSUME NEW rank \in [Symbols -> Nat], NEW S \in SUBSET Symbols
  PROVE  LET before == [s \in S |-> {t \in S : RanksBefore(rank, t, s)}] IN
         /\ Cardinality(S) \in Nat /\ DOMAIN ByRank(rank, S) = 1..Cardinality(S)
         /\ \A s \in S : Cardinality(before[s]) + 1 \in 1..Cardinality(S)
         /\ \A s, t \in S : Cardinality(before[s]) = Cardinality(before[t]) => s = t
         /\ \A k \in 1..Cardinality(S) :
              /\ ByRank(rank, S)[k] \in S
              /\ Cardinality(before[ByRank(rank, S)[k]]) = k - 1
<1> DEFINE before == [s \in S |-> {t \in S : RanksBefore(rank, t, s)}]
           n == Cardinality(S)
<1>0. IsFiniteSet(S)
  BY SymbolAssumption, FS_Subset
<1>a. /\ \A s \in S : rank[s] \in Nat /\ NameRank[s] \in Nat
      /\ \A s, t \in S : NameRank[s] = NameRank[t] => s = t
  BY SymbolAssumption
<1>1. /\ n \in Nat
      /\ \A k \in 1..n : \E s \in S : Cardinality(before[s]) = k - 1
      /\ \A s \in S : Cardinality(before[s]) + 1 \in 1..n
      /\ \A s, t \in S : Cardinality(before[s]) = Cardinality(before[t]) => s = t
  <2>1. before \in [S -> SUBSET S] /\ \A s \in S : s \notin before[s]
    BY <1>a DEF RanksBefore
  <2>2. ASSUME NEW s \in S, NEW t \in S PROVE s = t \/ s \in before[t] \/ t \in before[s]
    BY <1>a DEF RanksBefore
  <2>3. ASSUME NEW s \in S, NEW t \in S, s \in before[t]
        PROVE  before[s] \subseteq before[t]
    <3>1. \A r \in S : RanksBefore(rank, r, s) => RanksBefore(rank, r, t)
      BY <2>3, <1>a DEF RanksBefore
    <3> QED
      BY <3>1
  <2> HIDE DEF before
  <2>4. /\ \A s, t \in S : s = t \/ s \in before[t] \/ t \in before[s]
        /\ \A s, t \in S : s \in before[t] => before[s] \subseteq before[t]
    BY <2>2, <2>3, Zenon
  <2> QED
    BY <1>0, <2>1, <2>4, Places
<1>2. ASSUME NEW k \in 1..n
      PROVE  ByRank(rank, S)[k] \in S /\ Cardinality(before[ByRank(rank, S)[k]]) = k - 1
  <2> DEFINE pick == CHOOSE s \in S : Cardinality({t \in S : RanksBefore(rank, t, s)}) = k - 1
  <2>1. \E s \in S : Cardinality({t \in S : RanksBefore(rank, t, s)}) = k - 1
    BY <1>1
  <2>2. pick \in S /\ Cardinality({t \in S : RanksBefore(rank, t, pick)}) = k - 1
    BY <2>1, Zenon
  <2>3. ByRank(rank, S)[k] = pick
    BY Zenon DEF ByRank
  <2> QED
    BY <2>2, <2>3, Zenon
<1>3. DOMAIN ByRank(rank, S) = 1..n
  BY DEF ByRank
<1> HIDE DEF before
<1> QED
  BY <1>1, <1>2, <1>3 DEF before

\* Ranking lists a set of symbols, each once.
LEMMA ByRankFacts ==
  ASSUME NEW rank \in [Symbols -> Nat], NEW S \in SUBSET Symbols
  PROVE  /\ ByRank(rank, S) \in Seq(S) /\ ToSet(ByRank(rank, S)) = S
         /\ DistinctSymbols(ByRank(rank, S))
<1> DEFINE before == [s \in S |-> {t \in S : RanksBefore(rank, t, s)}]
           n == Cardinality(S)
<1>0. IsFiniteSet(S)
  BY SymbolAssumption, FS_Subset
<1>1. /\ n \in Nat
      /\ \A s \in S : Cardinality(before[s]) + 1 \in 1..n
      /\ \A s, t \in S : Cardinality(before[s]) = Cardinality(before[t]) => s = t
  BY RankedPlaces
<1>2. ASSUME NEW k \in 1..n
      PROVE  ByRank(rank, S)[k] \in S /\ Cardinality(before[ByRank(rank, S)[k]]) = k - 1
  BY RankedPlaces
<1>3. ByRank(rank, S) = [k \in 1..n |-> ByRank(rank, S)[k]]
  <2> DEFINE at(k) == CHOOSE s \in S : Cardinality({t \in S : RanksBefore(rank, t, s)}) = k - 1
             list == ByRank(rank, S)
  <2>1. list = [k \in 1..n |-> at(k)]
    BY Zenon DEF ByRank
  <2> HIDE DEF at, list, n
  <2>2. list = [k \in 1..n |-> list[k]]
    BY <2>1
  <2> QED
    BY <2>2 DEF list
<1> HIDE DEF before, n
<1>4. ASSUME NEW k \in 1..n, NEW l \in 1..n, k # l
      PROVE  ByRank(rank, S)[k] # ByRank(rank, S)[l]
  <2>1. k - 1 # l - 1
    BY <1>1, <1>4
  <2> QED
    BY <2>1, <1>2, Zenon
<1>5. ASSUME NEW s \in S PROVE \E k \in 1..n : ByRank(rank, S)[k] = s
  <2>1. PICK k \in 1..n : k = Cardinality(before[s]) + 1
    BY <1>1
  <2>2. IsFiniteSet(before[s])
    BY <1>0, FS_Subset DEF before
  <2>3. k - 1 = Cardinality(before[s])
    BY <2>1, <2>2, FS_CardinalityType
  <2> QED
    BY <2>3, <1>1, <1>2
<1>6. ByRank(rank, S) \in Seq(S) /\ DOMAIN ByRank(rank, S) = 1..n
  <2>1. ByRank(rank, S) \in [1..n -> S]
    BY <1>2, <1>3
  <2> QED
    BY <2>1, <1>1
<1>7. ToSet(ByRank(rank, S)) = S
  BY <1>2, <1>5, <1>6, Zenon DEF ToSet
<1>8. DistinctSymbols(ByRank(rank, S))
  BY <1>4, <1>6 DEF DistinctSymbols
<1> QED
  BY <1>6, <1>7, <1>8

\* Ranking sorts: of two symbols it lists, the one that ranks before the other comes
\* first.
THEOREM RankingSorts ==
  ASSUME NEW rank \in [Symbols -> Nat], NEW S \in SUBSET Symbols
  PROVE  LET list == ByRank(rank, S) IN
         \A k, l \in DOMAIN list : k < l => RanksBefore(rank, list[k], list[l])
<1> DEFINE list == ByRank(rank, S)
           before == [s \in S |-> {t \in S : RanksBefore(rank, t, s)}]
           n == Cardinality(S)
<1>1. /\ list \in Seq(S) /\ DistinctSymbols(list) /\ DOMAIN list = 1..n /\ n \in Nat
      /\ \A k \in 1..n : list[k] \in S /\ Cardinality(before[list[k]]) = k - 1
  BY RankedPlaces, ByRankFacts
<1>2. IsFiniteSet(S)
  BY SymbolAssumption, FS_Subset
<1> HIDE DEF list, n
<1>3. ASSUME NEW k \in 1..n, NEW l \in 1..n, k < l
      PROVE  RanksBefore(rank, list[k], list[l])
  <2> DEFINE x == list[k]
             y == list[l]
  <2>1. /\ x \in S /\ y \in S /\ x # y
        /\ Cardinality(before[x]) = k - 1 /\ Cardinality(before[y]) = l - 1
    <3>1. k # l
      BY <1>1, <1>3
    <3>2. x # y
      BY <1>1, <3>1 DEF DistinctSymbols
    <3> QED
      BY <1>1, <3>2, Zenon
  <2>2. /\ \A s \in S : rank[s] \in Nat /\ NameRank[s] \in Nat
        /\ \A s, t \in S : NameRank[s] = NameRank[t] => s = t
    BY SymbolAssumption
  <2> HIDE DEF x, y
  <2>3. SUFFICES ASSUME RanksBefore(rank, y, x) PROVE FALSE
    BY <2>1, <2>2 DEF RanksBefore, x, y
  <2>4. \A t \in S : RanksBefore(rank, t, y) => RanksBefore(rank, t, x)
    BY <2>1, <2>2, <2>3 DEF RanksBefore
  <2>5. before[y] \in SUBSET before[x] /\ before[x] \in SUBSET S
    BY <2>1, <2>4
  <2>6. IsFiniteSet(before[x])
    BY <1>2, <2>5, FS_Subset
  <2>7. Cardinality(before[y]) <= Cardinality(before[x])
    BY <2>5, <2>6, FS_Subset
  <2> QED
    BY <2>1, <2>7, <1>1, <1>3
<1> QED
  BY <1>1, <1>3 DEF list

\* The rank by bars is a number.
LEMMA BarRankFacts ==
  ASSUME NEW priced
  PROVE  BarRank(priced) \in [Symbols -> Nat]
<1> DEFINE Scores == {Score[s] : s \in Symbols}
           best == CHOOSE s \in Symbols : \A t \in Symbols : Score[t] <= Score[s]
<1>1. CASE Symbols = {}
  BY <1>1 DEF BarRank
<1>2. CASE Symbols # {}
  <2>1. /\ Scores \in SUBSET Nat /\ Scores # {} /\ \A s \in Symbols : Score[s] \in Nat
    BY <1>2, SymbolAssumption
  <2>2. Score \in Surjection(Symbols, Scores)
    BY SymbolAssumption DEF Surjection
  <2>3. IsFiniteSet(Scores)
    BY <2>2, SymbolAssumption, FS_Surjection
  <2> HIDE DEF Scores
  <2>4. \E x \in Scores : \A y \in Scores : y <= x
    BY <2>1, <2>3, Extremes
  <2>5. \E s \in Symbols : \A t \in Symbols : Score[t] <= Score[s]
    BY <2>4 DEF Scores
  <2>6. best \in Symbols
    BY <2>5, Zenon
  <2>7. Score[best] \in Nat
    BY <2>1, <2>6, Zenon
  <2> HIDE DEF best
  <2>8. BarRank(priced) = [s \in Symbols |->
          IF s \notin priced THEN 1 + Score[best]
          ELSE Score[s] + IF s \in Liquid THEN 1 + Score[best] ELSE 0]
    BY Zenon DEF BarRank, best
  <2> QED
    BY <2>1, <2>7, <2>8
<1> QED
  BY <1>1, <1>2

-----------------------------------------------------------------------------
(* The selection of one category.                                          *)

\* A prefix takes what the category has before anything else, too.
LEMMA TakeHadFirst ==
  ASSUME NEW X, NEW list \in Seq(X), NEW n \in Nat, NEW had, NEW all,
         HadFirst(list, had, all)
  PROVE  HadFirst(Take(list, n), had, all)
<1> DEFINE head == Take(list, n)
<1>1. /\ head \in Seq(X) /\ Len(head) = Least(n, Len(list))
      /\ \A i \in 1..Len(head) : i \in 1..Len(list) /\ head[i] = list[i]
      /\ ToSet(head) \subseteq ToSet(list)
  BY TakeFacts
<1> HIDE DEF head
<1>2. DOMAIN head = 1..Len(head) /\ DOMAIN list = 1..Len(list)
  BY <1>1
<1>3. \A i, j \in DOMAIN head : i < j /\ head[j] \in had => head[i] \in had
  BY <1>1, <1>2 DEF HadFirst
<1>4. CASE ToSet(head) \subseteq had
  BY <1>3, <1>4 DEF HadFirst, head
<1>5. CASE ~(ToSet(head) \subseteq had)
  <2>1. PICK i \in 1..Len(head) : head[i] \notin had
    BY <1>2, <1>5 DEF ToSet
  <2>2. all \cap had \subseteq ToSet(list)
    BY <1>1, <1>5 DEF HadFirst
  <2>3. ASSUME NEW s \in all \cap had PROVE s \in ToSet(head)
    <3>1. PICK j \in 1..Len(list) : list[j] = s
      BY <2>2, <1>2 DEF ToSet
    <3>2. ~(i < j) /\ i \in 1..Len(list) /\ i # j
      BY <2>1, <3>1, <1>1, <1>2 DEF HadFirst
    <3>3. j \in 1..Len(head)
      BY <3>2, <2>1, <1>1
    <3> QED
      BY <3>1, <3>3, <1>1, <1>2 DEF ToSet
  <2> QED
    BY <2>3, <1>3 DEF HadFirst, head
<1> QED
  BY <1>4, <1>5

\* Rows of the category first, then the newcomers.
LEMMA PinnedFacts ==
  ASSUME NEW list \in Seq(Symbols), NEW had, NEW rank \in [Symbols -> Nat],
         NEW newcomers \in SUBSET Symbols
  PROVE  LET pinned == PinnedFirst(list, had, rank, newcomers) IN
         /\ pinned \in Seq(Symbols)
         /\ ToSet(pinned) = (ToSet(list) \cap had) \cup (newcomers \ had)
         /\ DistinctSymbols(list) => DistinctSymbols(pinned)
         /\ HadFirst(pinned, had, ToSet(list))
<1> DEFINE a == Within(list, had)
           b == ByRank(rank, newcomers \ had)
<1>1. /\ a \in Seq(Symbols) /\ ToSet(a) = ToSet(list) \cap had
      /\ DistinctSymbols(list) => DistinctSymbols(a)
  BY WithinFacts
<1>2. /\ b \in Seq(newcomers \ had) /\ ToSet(b) = newcomers \ had /\ DistinctSymbols(b)
  BY ByRankFacts
<1>3. b \in Seq(Symbols)
  BY <1>2
<1>4. PinnedFirst(list, had, rank, newcomers) = a \o b
  BY DEF PinnedFirst
<1> HIDE DEF a, b
<1>5. /\ a \o b \in Seq(Symbols) /\ Len(a \o b) = Len(a) + Len(b)
      /\ \A i \in 1..Len(a) : (a \o b)[i] = a[i]
      /\ \A i \in (Len(a) + 1)..Len(a \o b) : (a \o b)[i] \in ToSet(b)
      /\ ToSet(a \o b) = ToSet(a) \cup ToSet(b)
      /\ DistinctSymbols(a) => DistinctSymbols(a \o b)
  <2>1. ToSet(a) \cap ToSet(b) = {}
    BY <1>1, <1>2
  <2> QED
    BY <1>1, <1>2, <1>3, <2>1, ConcatFacts
<1>6. ASSUME NEW i \in DOMAIN (a \o b), NEW j \in DOMAIN (a \o b), i < j,
             (a \o b)[j] \in had
      PROVE  (a \o b)[i] \in had
  <2>1. j \notin (Len(a) + 1)..Len(a \o b) /\ i \in 1..Len(a \o b) /\ j \in 1..Len(a \o b)
    BY <1>2, <1>5, <1>6
  <2>2. i \in 1..Len(a)
    BY <2>1, <1>1, <1>5, <1>6
  <2>3. a[i] \in ToSet(a)
    BY <2>2, <1>1 DEF ToSet
  <2> QED
    BY <2>2, <2>3, <1>1, <1>5
<1>7. HadFirst(a \o b, had, ToSet(list))
  BY <1>1, <1>5, <1>6 DEF HadFirst
<1> QED
  BY <1>1, <1>2, <1>4, <1>5, <1>7

\* The shortlist before bars: what discovery offered, fit or had, each once.
LEMMA ShortlistFacts ==
  ASSUME NEW c \in Categories, NEW list \in Seq(Symbols), NEW had
  PROVE  LET rows == CheapShortlist(c, list, had) IN
         /\ rows \in Seq(Symbols) /\ DistinctSymbols(rows)
         /\ ToSet(rows) \subseteq ToSet(list) \cap (had \cup Clean)
         /\ HadFirst(rows, had, ToSet(list))
<1> DEFINE d == Deduped(list)
           fit == ToSet(d) \cap Clean
           p == PinnedFirst(d, had, CheapScore, fit)
           n == Greatest(ShortlistSize[c], Cardinality(ToSet(d) \cap had))
<1>1. d \in Seq(Symbols) /\ ToSet(d) = ToSet(list) /\ DistinctSymbols(d)
  BY DedupedFacts
<1>2. CheapShortlist(c, list, had) = Take(p, n)
  BY DEF CheapShortlist
<1> HIDE DEF d
<1>3. fit \in SUBSET Symbols /\ CheapScore \in [Symbols -> Nat]
  BY SymbolAssumption
<1> HIDE DEF fit
<1>4. /\ p \in Seq(Symbols) /\ DistinctSymbols(p) /\ HadFirst(p, had, ToSet(list))
      /\ ToSet(p) = (ToSet(d) \cap had) \cup ((ToSet(d) \cap Clean) \ had)
  <2>1. /\ p \in Seq(Symbols) /\ HadFirst(p, had, ToSet(d))
        /\ ToSet(p) = (ToSet(d) \cap had) \cup (fit \ had)
        /\ DistinctSymbols(d) => DistinctSymbols(p)
    BY <1>1, <1>3, PinnedFacts
  <2> QED
    BY <2>1, <1>1 DEF fit
<1>5. n \in Nat
  <2>1. IsFiniteSet(ToSet(d) \cap had)
    <3>1. IsFiniteSet(ToSet(d)) /\ ToSet(d) \cap had \in SUBSET ToSet(d)
      BY <1>1, DistinctLength
    <3> QED
      BY <3>1, FS_Subset
  <2>2. Cardinality(ToSet(d) \cap had) \in Nat
    BY <2>1, FS_CardinalityType
  <2> QED
    BY <2>2, SizeAssumption DEF Greatest
<1> HIDE DEF p, n
<1>6. /\ Take(p, n) \in Seq(Symbols) /\ DistinctSymbols(Take(p, n))
      /\ ToSet(Take(p, n)) \subseteq ToSet(p)
  BY <1>4, <1>5, TakeFacts
<1>7. HadFirst(Take(p, n), had, ToSet(list))
  BY <1>4, <1>5, TakeHadFirst
<1> QED
  BY <1>1, <1>2, <1>4, <1>6, <1>7

\* The prefilter only drops rows.
LEMMA PrefilterFacts ==
  ASSUME NEW c \in Categories, NEW list \in Seq(Symbols), DistinctSymbols(list),
         NEW had, NEW all, NEW priced, HadFirst(list, had, all)
  PROVE  LET rows == Prefiltered(c, list, had, priced) IN
         /\ rows \in Seq(Symbols) /\ DistinctSymbols(rows)
         /\ ToSet(rows) \subseteq ToSet(list)
         /\ HadFirst(rows, had, all)
<1> DEFINE p == PinnedFirst(list, had, BarRank(priced), ToSet(list))
           n == PrefilterLimit(c, Len(list))
<1>1. Prefiltered(c, list, had, priced) = Take(p, n)
  BY DEF Prefiltered
<1>2. ToSet(list) \in SUBSET Symbols
  BY DEF ToSet
<1>3. /\ p \in Seq(Symbols) /\ DistinctSymbols(p) /\ HadFirst(p, had, ToSet(list))
      /\ ToSet(p) = ToSet(list)
  <2>1. BarRank(priced) \in [Symbols -> Nat]
    BY BarRankFacts
  <2>2. /\ p \in Seq(Symbols) /\ DistinctSymbols(p) /\ HadFirst(p, had, ToSet(list))
        /\ ToSet(p) = (ToSet(list) \cap had) \cup (ToSet(list) \ had)
    BY <1>2, <2>1, PinnedFacts
  <2> QED
    BY <2>2
<1>4. n \in Nat
  BY SizeAssumption DEF PrefilterLimit, Least, Greatest
<1> HIDE DEF p, n
<1>5. HadFirst(p, had, all)
  BY <1>3 DEF HadFirst
<1>6. /\ Take(p, n) \in Seq(Symbols) /\ DistinctSymbols(Take(p, n))
      /\ ToSet(Take(p, n)) \subseteq ToSet(p)
  BY <1>3, <1>4, TakeFacts
<1>7. HadFirst(Take(p, n), had, all)
  BY <1>3, <1>4, <1>5, TakeHadFirst
<1> QED
  BY <1>1, <1>3, <1>6, <1>7

\* A selection is completed from a list of other candidates as far as it is needed.
LEMMA TopUpFacts ==
  ASSUME NEW c \in Categories, NEW selected \in Seq(Symbols), NEW ordered \in Seq(Symbols),
         DistinctSymbols(selected), DistinctSymbols(ordered)
  PROVE  LET list == TopUp(c, selected, ordered) IN
         /\ list \in Seq(Symbols) /\ DistinctSymbols(list)
         /\ ToSet(list) \subseteq ToSet(selected) \cup ToSet(ordered)
         /\ Cardinality(ToSet(selected) \cup ToSet(ordered)) \in Nat
         /\ Len(list) = Least(Required[c], Cardinality(ToSet(selected) \cup ToSet(ordered)))
<1> DEFINE rest == Without(ordered, ToSet(selected))
           all == selected \o rest
<1>1. /\ rest \in Seq(Symbols) /\ ToSet(rest) = ToSet(ordered) \ ToSet(selected)
      /\ DistinctSymbols(rest)
  BY WithinFacts
<1>2. TopUp(c, selected, ordered) = Take(all, Required[c]) /\ Required[c] \in Nat
  BY SizeAssumption DEF TopUp
<1> HIDE DEF rest
<1>3. all \in Seq(Symbols) /\ DistinctSymbols(all) /\ ToSet(all) = ToSet(selected) \cup ToSet(rest)
  <2>1. ToSet(selected) \cap ToSet(rest) = {}
    BY <1>1
  <2> QED
    BY <1>1, <2>1, ConcatFacts
<1> HIDE DEF all
<1>4. ToSet(all) = ToSet(selected) \cup ToSet(ordered)
  BY <1>1, <1>3
<1>5. Cardinality(ToSet(all)) \in Nat /\ Len(all) = Cardinality(ToSet(all))
  BY <1>3, DistinctLength
<1>6. /\ Take(all, Required[c]) \in Seq(Symbols) /\ DistinctSymbols(Take(all, Required[c]))
      /\ ToSet(Take(all, Required[c])) \subseteq ToSet(all)
      /\ Len(Take(all, Required[c])) = Least(Required[c], Len(all))
  BY <1>2, <1>3, TakeFacts
<1> QED
  BY <1>2, <1>4, <1>5, <1>6

\* The rows that get a dossier.
LEMMA DossierFacts ==
  ASSUME NEW c \in Categories, NEW list \in Seq(Symbols), DistinctSymbols(list),
         NEW had, NEW all, HadFirst(list, had, all)
  PROVE  LET asked == DossierCandidates(c, list) IN
         /\ asked \in Seq(Symbols) /\ DistinctSymbols(asked)
         /\ ToSet(asked) \subseteq ToSet(list)
         /\ ToSet(asked) \subseteq had \/ all \cap had \subseteq ToSet(asked)
<1> DEFINE n == Least(Len(list), Greatest(Required[c] * DossierMultiplier[c], DossierFloor[c]))
<1>1. DossierCandidates(c, list) = Take(list, n)
  BY DEF DossierCandidates
<1>2. n \in Nat
  BY SizeAssumption DEF Least, Greatest
<1> HIDE DEF n
<1>3. /\ Take(list, n) \in Seq(Symbols) /\ DistinctSymbols(Take(list, n))
      /\ ToSet(Take(list, n)) \subseteq ToSet(list)
  BY <1>2, TakeFacts
<1>4. HadFirst(Take(list, n), had, all)
  BY <1>2, TakeHadFirst
<1> QED
  BY <1>1, <1>3, <1>4 DEF HadFirst

\* Whatever dossiers come back and whatever the final request answers, the selection
\* takes rows of the list, each once, and as many as are required or there are.
LEMMA SelectFacts ==
  ASSUME NEW c \in Categories, NEW list \in Seq(Symbols), DistinctSymbols(list),
         NEW answered \in SUBSET ToSet(DossierCandidates(c, list)), NEW X, NEW picks \in Seq(X)
  PROVE  LET selection == SelectCategory(c, list, answered, picks) IN
         /\ selection \in Seq(Symbols) /\ DistinctSymbols(selection)
         /\ ToSet(selection) \subseteq ToSet(list)
         /\ Len(selection) = Least(Required[c], Len(list))
<1> DEFINE asked == DossierCandidates(c, list)
           named == Sanitized(picks, answered)
           rest == Within(asked, answered)
           chosen == TopUp(c, named, rest)
           full == TopUp(c, chosen, list)
           fallback == TopUp(c, <<>>, list)
           selection == SelectCategory(c, list, answered, picks)
<1>0. Required[c] \in Nat /\ Len(list) \in Nat
  BY SizeAssumption
<1>1. /\ asked \in Seq(Symbols) /\ DistinctSymbols(asked)
      /\ ToSet(asked) \subseteq ToSet(list)
  <2>1. HadFirst(list, {}, {})
    BY DEF HadFirst
  <2> QED
    BY <2>1, DossierFacts
<1>2. ToSet(list) \in SUBSET Symbols
  BY DEF ToSet
<1> HIDE DEF asked
<1>3. named \in Seq(Symbols) /\ DistinctSymbols(named) /\ ToSet(named) \subseteq ToSet(list)
  <2>1. named \in Seq(X \cap answered) /\ DistinctSymbols(named)
    BY SanitizedFacts
  <2>2. X \cap answered \subseteq ToSet(list)
    BY <1>1 DEF asked
  <2> HIDE DEF named
  <2>3. named \in Seq(ToSet(list))
    BY <2>1, <2>2
  <2> QED
    BY <2>1, <2>3, <1>2 DEF ToSet
<1>4. rest \in Seq(Symbols) /\ DistinctSymbols(rest) /\ ToSet(rest) \subseteq ToSet(list)
  BY <1>1, WithinFacts
<1> HIDE DEF named, rest
<1>5. Cardinality(ToSet(list)) = Len(list) /\ IsFiniteSet(ToSet(list))
  BY DistinctLength
<1>6. /\ chosen \in Seq(Symbols) /\ DistinctSymbols(chosen)
      /\ ToSet(chosen) \subseteq ToSet(list)
      /\ Len(chosen) <= Least(Required[c], Len(list)) /\ Len(chosen) \in Nat
  <2> DEFINE U == ToSet(named) \cup ToSet(rest)
  <2>1. /\ chosen \in Seq(Symbols) /\ DistinctSymbols(chosen) /\ ToSet(chosen) \subseteq U
        /\ Cardinality(U) \in Nat /\ Len(chosen) = Least(Required[c], Cardinality(U))
    BY <1>3, <1>4, TopUpFacts
  <2>2. U \in SUBSET ToSet(list)
    BY <1>3, <1>4
  <2>3. Cardinality(U) <= Len(list)
    BY <2>2, <1>5, FS_Subset
  <2> HIDE DEF U, chosen
  <2> QED
    BY <2>1, <2>2, <2>3, <1>0 DEF Least
<1> HIDE DEF chosen
<1>7. /\ full \in Seq(Symbols) /\ DistinctSymbols(full) /\ ToSet(full) \subseteq ToSet(list)
      /\ Len(full) = Least(Required[c], Len(list))
  <2>1. ToSet(chosen) \cup ToSet(list) = ToSet(list)
    BY <1>6
  <2>2. /\ full \in Seq(Symbols) /\ DistinctSymbols(full)
        /\ ToSet(full) \subseteq ToSet(chosen) \cup ToSet(list)
        /\ Len(full) = Least(Required[c], Cardinality(ToSet(chosen) \cup ToSet(list)))
    BY <1>6, TopUpFacts
  <2> QED
    BY <2>1, <2>2, <1>5
<1>8. /\ fallback \in Seq(Symbols) /\ DistinctSymbols(fallback)
      /\ ToSet(fallback) \subseteq ToSet(list)
      /\ Len(fallback) = Least(Required[c], Len(list))
  <2>1. <<>> \in Seq(Symbols) /\ DistinctSymbols(<<>>) /\ ToSet(<<>>) = {}
    BY DEF DistinctSymbols, ToSet
  <2>2. {} \cup ToSet(list) = ToSet(list)
    OBVIOUS
  <2>3. /\ fallback \in Seq(Symbols) /\ DistinctSymbols(fallback)
        /\ ToSet(fallback) \subseteq ToSet(<<>>) \cup ToSet(list)
        /\ Len(fallback) = Least(Required[c], Cardinality(ToSet(<<>>) \cup ToSet(list)))
    BY <2>1, TopUpFacts
  <2> QED
    BY <2>1, <2>2, <2>3, <1>5
<1>9. selection = IF Required[c] = 0 THEN <<>>
                  ELSE IF answered = {} THEN fallback
                  ELSE IF Len(chosen) >= Required[c] THEN chosen
                  ELSE full
  BY Zenon DEF SelectCategory, chosen, full, fallback, named, rest, asked
<1> HIDE DEF full, fallback, selection
<1>10. CASE Required[c] = 0
  <2>1. selection = <<>> /\ Least(Required[c], Len(list)) = 0
    BY <1>0, <1>9, <1>10 DEF Least
  <2> QED
    BY <2>1 DEF selection, DistinctSymbols, ToSet
<1>11. CASE Required[c] # 0 /\ answered = {}
  BY <1>8, <1>9, <1>11 DEF selection
<1>12. CASE Required[c] # 0 /\ answered # {} /\ Len(chosen) >= Required[c]
  BY <1>0, <1>6, <1>9, <1>12 DEF selection, Least
<1>13. CASE Required[c] # 0 /\ answered # {} /\ ~(Len(chosen) >= Required[c])
  BY <1>7, <1>9, <1>13 DEF selection
<1> QED
  BY <1>10, <1>11, <1>12, <1>13

-----------------------------------------------------------------------------
(* Types.                                                                  *)

\* An edit changes what it names and nothing else.
LEMMA EditedFacts ==
  ASSUME NEW u \in Contents, NEW e \in Edits
  PROVE  /\ Edited(u, e) \in Contents
         /\ Holds(Edited(u, e), e.op, e.category, e.symbol)
         /\ \A c \in Categories, s \in Symbols : ~(c = e.category /\ s = e.symbol) =>
              (s \in ToSet(Edited(u, e)[c]) <=> s \in ToSet(u[c]))
<1>1. /\ e.op \in {"add", "remove"} /\ e.category \in Categories /\ e.symbol \in Symbols
      /\ \A c \in Categories : u[c] \in Seq(Symbols)
  BY DEF Edits, Contents
<1> DEFINE l == u[e.category]
<1>2. CASE e.op = "add"
  <2>1. Edited(u, e) = [u EXCEPT ![e.category] = Append(l, e.symbol)]
    BY <1>2 DEF Edited, Added
  <2>2. /\ Append(l, e.symbol) \in Seq(Symbols) /\ DOMAIN Append(l, e.symbol) = 1..(Len(l) + 1)
        /\ DOMAIN l = 1..Len(l) /\ Len(l) \in Nat
        /\ Append(l, e.symbol)[Len(l) + 1] = e.symbol
        /\ \A i \in 1..Len(l) : Append(l, e.symbol)[i] = l[i]
    BY <1>1
  <2> HIDE DEF l
  <2>3. ToSet(Append(l, e.symbol)) = ToSet(l) \cup {e.symbol}
    <3>1. 1..(Len(l) + 1) = 1..Len(l) \cup {Len(l) + 1}
      BY <2>2
    <3> QED
      BY <3>1, <2>2 DEF ToSet
  <2>4. Edited(u, e) \in Contents
    BY <1>1, <2>1, <2>2 DEF Contents
  <2>5. ToSet(Edited(u, e)[e.category]) = ToSet(l) \cup {e.symbol}
    BY <1>1, <2>1, <2>3 DEF Contents
  <2>6. \A c \in Categories : c # e.category => Edited(u, e)[c] = u[c]
    BY <1>1, <2>1 DEF Contents
  <2> QED
    BY <1>1, <1>2, <2>4, <2>5, <2>6 DEF Holds, l
<1>3. CASE e.op = "remove"
  <2>1. Edited(u, e) = [u EXCEPT ![e.category] = Without(l, {e.symbol})]
    BY <1>3 DEF Edited, Removed
  <2>2. /\ Without(l, {e.symbol}) \in Seq(Symbols)
        /\ ToSet(Without(l, {e.symbol})) = ToSet(l) \ {e.symbol}
    BY <1>1, WithinFacts
  <2> HIDE DEF l
  <2>4. Edited(u, e) \in Contents
    BY <1>1, <2>1, <2>2 DEF Contents
  <2>5. ToSet(Edited(u, e)[e.category]) = ToSet(l) \ {e.symbol}
    BY <1>1, <2>1, <2>2 DEF Contents
  <2>6. \A c \in Categories : c # e.category => Edited(u, e)[c] = u[c]
    BY <1>1, <2>1 DEF Contents
  <2> QED
    BY <1>1, <1>3, <2>4, <2>5, <2>6 DEF Holds, l
<1> QED
  BY <1>1, <1>2, <1>3

\* What a list names are symbols.
LEMMA ReadFileType == TypeOK => ReadFile \in Contents
<1>1. NoSymbols \in Contents
  BY DEF NoSymbols, Contents
<1> QED
  BY <1>1 DEF TypeOK, ReadFile

LEMMA TypeInit == Init => TypeInv
<1> SUFFICES ASSUME Init PROVE TypeInv
  OBVIOUS
<1>1. NoSymbols \in Contents /\ Nothing \in [Categories -> SUBSET Symbols]
  BY DEF NoSymbols, Contents, Nothing
<1>2. (CHOOSE e \in Requests : TRUE) \in Edits
  BY WriterAssumption
<1>3. Free \in [op : {"free", "add", "remove"}, at : Nat]
  BY DEF Free
<1>4. file \in Contents \cup {NoFile}
  BY WriterAssumption DEF Init
<1> USE DEF Init
<1>5. pc \in [Writers -> {"idle", "read", "write", "replace"} \cup Stages]
      /\ \A w \in Writers : pc[w] = "idle"
  OBVIOUS
<1>6. edit \in [Threads -> Edits]
  BY <1>2
<1>7. stands \in [Categories -> [Symbols -> [op : {"free", "add", "remove"}, at : Nat]]]
  BY <1>3
<1>8. "idle" \notin Stages /\ Job \in Writers /\ Threads \subseteq Writers
  BY DEF Stages, Writers
<1>9. base \in [Writers -> Contents] /\ baseAt \in [Writers -> Nat]
  BY <1>1
<1>10. temp \in [Writers -> Contents \cup {NoFile}]
  OBVIOUS
<1> QED
  BY <1>1, <1>4, <1>5, <1>6, <1>7, <1>8, <1>9, <1>10 DEF TypeOK, TypeInv

\* The requests and the refresh are the writers.
LEMMA WriterKinds ==
  /\ Threads \subseteq Writers /\ Job \in Writers /\ Job \notin Threads
  /\ \A w \in Writers : w = Job \/ w \in Threads
BY WriterAssumption DEF Writers

LEMMA CategoryKinds == "STOCK" \in Categories /\ "CRYPTO" \in Categories
BY DEF Categories

\* Writing the temporary file and replacing the old one keep the types.
LEMMA WriteTempTypes ==
  ASSUME TypeInv, NEW w \in Writers, NEW u \in Contents, WriteTemp(w, u)
  PROVE  TypeInv'
<1>1. temp' \in [Writers -> Contents \cup {NoFile}] /\ temp'[w] = u
  BY DEF WriteTemp, TypeInv, TypeOK
<1>2. /\ pc' \in [Writers -> {"idle", "read", "write", "replace"} \cup Stages]
      /\ pc'[w] = "replace" /\ \A v \in Writers : v # w => pc'[v] = pc[v] /\ temp'[v] = temp[v]
  BY DEF WriteTemp, TypeInv, TypeOK
<1>3. /\ file' = file /\ version' = version /\ stands' = stands /\ base' = base
      /\ baseAt' = baseAt /\ edit' = edit /\ offered' = offered /\ payload' = payload
      /\ reviewed' = reviewed /\ got' = got /\ kept' = kept /\ started' = started
      /\ connected' = connected
  BY DEF WriteTemp, store, refresh
<1>4. \A t \in Threads : pc'[t] \notin Stages
  BY <1>2, WriterKinds DEF TypeInv, TypeOK, Stages
<1>5. pc'[Job] # "read"
  BY <1>2, WriterKinds DEF TypeInv
<1>6. \A v \in Writers : pc'[v] = "replace" => temp'[v] \in Contents
  BY <1>1, <1>2 DEF TypeInv, TypeOK
<1> QED
  BY <1>1, <1>2, <1>3, <1>4, <1>5, <1>6 DEF TypeInv, TypeOK

LEMMA ReplaceTypes ==
  ASSUME TypeInv, NEW w \in Writers, pc[w] = "replace", ReplaceFile(w),
         stands' \in [Categories -> [Symbols -> [op : {"free", "add", "remove"}, at : Nat]]],
         UNCHANGED <<base, baseAt, edit, refresh, started, connected>>
  PROVE  TypeInv'
<1>1. temp' \in [Writers -> Contents \cup {NoFile}] /\ temp[w] \in Contents
  BY DEF ReplaceFile, TypeInv, TypeOK
<1>2. /\ pc' \in [Writers -> {"idle", "read", "write", "replace"} \cup Stages]
      /\ pc'[w] = "idle" /\ \A v \in Writers : v # w => pc'[v] = pc[v] /\ temp'[v] = temp[v]
  BY DEF ReplaceFile, TypeInv, TypeOK
<1>3. file' \in Contents \cup {NoFile} /\ version' \in Nat
  BY <1>1 DEF ReplaceFile, TypeInv, TypeOK
<1>4. /\ base' = base /\ baseAt' = baseAt /\ edit' = edit /\ offered' = offered
      /\ payload' = payload /\ reviewed' = reviewed /\ got' = got /\ kept' = kept
      /\ started' = started /\ connected' = connected
  BY DEF refresh
<1>5. \A t \in Threads : pc'[t] \notin Stages
  BY <1>2, WriterKinds DEF TypeInv, TypeOK, Stages
<1>6. pc'[Job] # "read"
  BY <1>2, WriterKinds DEF TypeInv
<1>7. \A v \in Writers : pc'[v] = "replace" => temp'[v] \in Contents
  BY <1>2 DEF TypeInv, TypeOK
<1> QED
  BY <1>1, <1>2, <1>3, <1>4, <1>5, <1>6, <1>7 DEF TypeInv, TypeOK

\* An addition or removal keeps the types.
LEMMA EditTypes ==
  ASSUME TypeInv, NEW t \in Threads, EditStep(t)
  PROVE  TypeInv'
<1>0. t \in Writers /\ t # Job /\ TypeOK /\ edit[t] \in Edits
  BY WriterKinds DEF TypeInv, TypeOK
<1>1. /\ edit[t].op \in {"add", "remove"} /\ edit[t].category \in Categories
      /\ edit[t].symbol \in Symbols
  BY <1>0 DEF Edits
<1>2. ASSUME NEW e \in Requests, AskEdit(t, e) PROVE TypeInv'
  <2>1. e \in Edits
    BY WriterAssumption
  <2>2. /\ pc' \in [Writers -> {"idle", "read", "write", "replace"} \cup Stages]
        /\ pc'[t] = "read" /\ \A v \in Writers : v # t => pc'[v] = pc[v]
    BY <1>0, <1>2 DEF AskEdit, TypeOK
  <2>3. edit' \in [Threads -> Edits] /\ started' \in Nat
    BY <1>0, <1>2, <2>1 DEF AskEdit, TypeOK
  <2>4. /\ file' = file /\ version' = version /\ stands' = stands /\ temp' = temp
        /\ base' = base /\ baseAt' = baseAt /\ offered' = offered /\ payload' = payload
        /\ reviewed' = reviewed /\ got' = got /\ kept' = kept /\ connected' = connected
    BY <1>2 DEF AskEdit, store, refresh
  <2>5. /\ \A v \in Threads : pc'[v] \notin Stages
        /\ pc'[Job] # "read"
        /\ \A v \in Writers : pc'[v] = "replace" => temp'[v] \in Contents
    BY <1>0, <2>2, <2>4, WriterKinds DEF TypeInv, TypeOK, Stages
  <2> QED
    BY <1>0, <2>2, <2>3, <2>4, <2>5 DEF TypeInv, TypeOK
<1>3. ASSUME ReadForEdit(t) PROVE TypeInv'
  <2>1. ReadFile \in Contents
    BY <1>0, ReadFileType
  <2>2. /\ pc' \in [Writers -> {"idle", "read", "write", "replace"} \cup Stages]
        /\ pc'[t] \in {"idle", "write"} /\ \A v \in Writers : v # t => pc'[v] = pc[v]
    BY <1>0, <1>3 DEF ReadForEdit, TypeOK
  <2>3. base' \in [Writers -> Contents] /\ baseAt' \in [Writers -> Nat]
    BY <1>0, <1>3, <2>1 DEF ReadForEdit, TypeOK
  <2>4. stands' \in [Categories -> [Symbols -> [op : {"free", "add", "remove"}, at : Nat]]]
    <3>1. [op |-> edit[t].op, at |-> version] \in [op : {"free", "add", "remove"}, at : Nat]
      BY <1>0, <1>1 DEF TypeOK
    <3>2. \/ stands' = stands
          \/ stands' = [stands EXCEPT ![edit[t].category][edit[t].symbol] =
                          [op |-> edit[t].op, at |-> version]]
      BY <1>3, Zenon DEF ReadForEdit
    <3> DEFINE c == edit[t].category
               stand == [op |-> edit[t].op, at |-> version]
               Stand == [op : {"free", "add", "remove"}, at : Nat]
    <3>3. stands \in [Categories -> [Symbols -> Stand]] /\ stand \in Stand
      BY <1>0, <3>1 DEF TypeOK
    <3>4. \/ stands' = stands
          \/ stands' = [stands EXCEPT ![c] = [stands[c] EXCEPT ![edit[t].symbol] = stand]]
      BY <3>2
    <3>5. c \in Categories /\ edit[t].symbol \in Symbols
      BY <1>1
    <3> HIDE DEF stand, c, Stand
    <3>6. [stands[c] EXCEPT ![edit[t].symbol] = stand] \in [Symbols -> Stand]
      BY <3>3, <3>5
    <3>7. stands' \in [Categories -> [Symbols -> Stand]]
      BY <3>3, <3>4, <3>5, <3>6
    <3> QED
      BY <3>7 DEF Stand
  <2>5. /\ file' = file /\ version' = version /\ temp' = temp /\ edit' = edit
        /\ started' = started /\ offered' = offered /\ payload' = payload
        /\ reviewed' = reviewed /\ got' = got /\ kept' = kept /\ connected' = connected
    BY <1>3 DEF ReadForEdit, refresh
  <2>6. /\ \A v \in Threads : pc'[v] \notin Stages
        /\ pc'[Job] # "read"
        /\ \A v \in Writers : pc'[v] = "replace" => temp'[v] \in Contents
    BY <1>0, <2>2, <2>5, WriterKinds DEF TypeInv, TypeOK, Stages
  <2> QED
    BY <1>0, <2>2, <2>3, <2>4, <2>5, <2>6 DEF TypeInv, TypeOK
<1>4. ASSUME WriteEdit(t) PROVE TypeInv'
  <2>1. base[t] \in Contents
    BY <1>0 DEF TypeOK
  <2>2. Edited(base[t], edit[t]) \in Contents
    BY <1>0, <2>1, EditedFacts
  <2> QED
    BY <1>0, <1>4, <2>2, WriteTempTypes DEF WriteEdit
<1>5. ASSUME ReplaceByEdit(t) PROVE TypeInv'
  <2> DEFINE new(c, s) == IF c = edit[t].category /\ s = edit[t].symbol
                          THEN [op |-> edit[t].op, at |-> version + 1]
                          ELSE IF stands[c][s].at <= baseAt[t] THEN stands[c][s] ELSE Free
  <2>1. ASSUME NEW c \in Categories, NEW s \in Symbols
        PROVE  new(c, s) \in [op : {"free", "add", "remove"}, at : Nat]
    <3>1. stands[c][s] \in [op : {"free", "add", "remove"}, at : Nat]
      BY <1>0 DEF TypeOK
    <3>2. [op |-> edit[t].op, at |-> version + 1] \in [op : {"free", "add", "remove"}, at : Nat]
      BY <1>0, <1>1 DEF TypeOK
    <3>3. Free \in [op : {"free", "add", "remove"}, at : Nat]
      BY DEF Free
    <3> QED
      BY <3>1, <3>2, <3>3
  <2>2. stands' = [c \in Categories |-> [s \in Symbols |-> new(c, s)]]
    BY <1>5, Zenon DEF ReplaceByEdit
  <2> HIDE DEF new
  <2>3. stands' \in [Categories -> [Symbols -> [op : {"free", "add", "remove"}, at : Nat]]]
    BY <2>1, <2>2
  <2> QED
    BY <1>0, <1>5, <2>3, ReplaceTypes DEF ReplaceByEdit
<1> QED
  BY <1>2, <1>3, <1>4, <1>5 DEF EditStep

-----------------------------------------------------------------------------
(* The refresh.                                                            *)

\* A stage of the refresh leaves the requests and the file alone.
LEMMA StageTypes ==
  ASSUME TypeInv, NEW next \in Stages \cup {"write"}, pc' = [pc EXCEPT ![Job] = next],
         UNCHANGED <<store, temp, edit, connected>>,
         base' \in [Writers -> Contents], baseAt' \in [Writers -> Nat], started' \in Nat,
         offered' \in Contents, payload' \in Contents, got' \in Contents,
         reviewed' \in [Categories -> SUBSET Symbols], kept' \subseteq Categories
  PROVE  TypeInv' /\ pc'[Job] = next
<1>1. /\ pc' \in [Writers -> {"idle", "read", "write", "replace"} \cup Stages]
      /\ pc'[Job] = next /\ \A v \in Writers : v # Job => pc'[v] = pc[v]
  BY WriterKinds DEF TypeInv, TypeOK
<1>2. /\ file' = file /\ version' = version /\ stands' = stands /\ temp' = temp
      /\ edit' = edit /\ connected' = connected
  BY DEF store
<1>3. next \notin {"read", "replace"}
  BY DEF Stages
<1>4. \A t \in Threads : pc'[t] \notin Stages
  BY <1>1, WriterKinds DEF TypeInv, TypeOK
<1>5. \A v \in Writers : pc'[v] = "replace" => temp'[v] \in Contents
  BY <1>1, <1>2, <1>3 DEF TypeInv, TypeOK
<1> QED
  BY <1>1, <1>2, <1>3, <1>4, <1>5 DEF TypeInv, TypeOK

\* What the invariants of the refresh are about does not change with the requests.
LEMMA EditFrame ==
  ASSUME TypeInv, NEW t \in Threads, EditStep(t)
  PROVE  pc'[Job] = pc[Job] /\ base'[Job] = base[Job] /\ UNCHANGED <<refresh, connected>>
<1>0. t # Job /\ t \in Writers /\ Job \in Writers
  BY WriterKinds
<1>1. ASSUME NEW e \in Requests, AskEdit(t, e)
      PROVE  pc'[Job] = pc[Job] /\ base'[Job] = base[Job] /\ UNCHANGED <<refresh, connected>>
  BY <1>0, <1>1 DEF AskEdit, TypeInv, TypeOK
<1>2. CASE ReadForEdit(t)
  BY <1>0, <1>2 DEF ReadForEdit, TypeInv, TypeOK
<1>3. CASE WriteEdit(t)
  BY <1>0, <1>3 DEF WriteEdit, WriteTemp, TypeInv, TypeOK
<1>4. CASE ReplaceByEdit(t)
  <2>1. pc'[Job] = pc[Job]
    BY <1>0, <1>4 DEF ReplaceByEdit, ReplaceFile, TypeInv, TypeOK
  <2>2. base' = base /\ UNCHANGED <<refresh, connected>>
    BY <1>4, Zenon DEF ReplaceByEdit
  <2> QED
    BY <2>1, <2>2
<1> QED
  BY <1>1, <1>2, <1>3, <1>4 DEF EditStep

\* The invariants of the refresh hold when nothing they are about has changed but that it
\* moved on without a selection, or stopped.
LEMMA SelectFrame ==
  ASSUME SelectInv, base'[Job] = base[Job], UNCHANGED refresh,
         connected' = connected \/ pc'[Job] = "idle",
         \/ pc'[Job] = pc[Job] \/ pc'[Job] = "idle"
         \/ pc[Job] \in {"write", "replace"} /\ pc'[Job] \in {"write", "replace"}
  PROVE  SelectInv'
<1>1. /\ offered' = offered /\ payload' = payload /\ reviewed' = reviewed
      /\ got' = got /\ kept' = kept
  BY DEF refresh
<1>2. RowsFit'
  BY <1>1 DEF SelectInv, RowsFit, Had
<1>3. KeptInTurn'
  BY <1>1 DEF SelectInv, KeptInTurn, Chosen, Selecting
<1>4. KeptWhole'
  BY <1>1 DEF SelectInv, KeptWhole, Had, Listed
<1>5. ASSUME NEW c \in Categories, pc'[Job] \in Chosen(c) PROVE Choice(c)'
  <2>1. pc[Job] \in Chosen(c)
    BY <1>5 DEF Chosen, Selecting
  <2>2. Choice(c)
    BY <2>1 DEF SelectInv, ChoicesSound
  <2>3. /\ pc'[Job] \in Selecting(c) \cup {"inject"} => pc[Job] \in Selecting(c) \cup {"inject"}
        /\ connected' = connected
    BY <1>5 DEF Chosen, Selecting
  <2> QED
    BY <1>1, <2>2, <2>3 DEF Choice, Had, Listed
<1> QED
  BY <1>2, <1>3, <1>4, <1>5 DEF SelectInv, ChoicesSound, Chosen, Selecting

LEMMA SelectInit == Init => SelectInv
<1> SUFFICES ASSUME Init PROVE SelectInv
  OBVIOUS
<1>1. /\ pc[Job] = "idle" /\ kept = {} /\ base[Job] = NoSymbols
      /\ payload = NoSymbols /\ offered = NoSymbols
  BY WriterKinds DEF Init
<1>2. ASSUME NEW c \in Categories
      PROVE  NoSymbols[c] = <<>> /\ ToSet(<<>>) = {} /\ DistinctSymbols(<<>>)
  BY DEF NoSymbols, ToSet, DistinctSymbols
<1>3. RowsFit
  BY <1>1, <1>2 DEF RowsFit, HadFirst, Had
<1> QED
  BY <1>1, <1>3 DEF SelectInv, KeptInTurn, KeptWhole, ChoicesSound, Chosen, Selecting

\* A refresh starts with nothing.
LEMMA StartKeeps ==
  ASSUME TypeInv, SelectInv, StartRefresh
  PROVE  TypeInv' /\ SelectInv'
<1>1. NoSymbols \in Contents /\ Nothing \in [Categories -> SUBSET Symbols]
  BY DEF NoSymbols, Contents, Nothing
<1>2. ReadFile \in Contents
  BY ReadFileType DEF TypeInv
<1> DEFINE next == IF connected THEN "discover" ELSE "inject"
<1>3. TypeInv' /\ pc'[Job] = next
  <2>1. base' \in [Writers -> Contents] /\ baseAt' \in [Writers -> Nat] /\ started' \in Nat
    <3>1. base \in [Writers -> Contents] /\ baseAt \in [Writers -> Nat]
          /\ version \in Nat /\ started \in Nat
      BY DEF TypeInv, TypeOK
    <3>2. /\ base' = [base EXCEPT ![Job] = ReadFile]
          /\ baseAt' = [baseAt EXCEPT ![Job] = version] /\ started' = started + 1
      BY Zenon DEF StartRefresh
    <3>3. base' \in [Writers -> Contents]
      BY <1>2, <3>1, <3>2, Zenon
    <3>4. baseAt' \in [Writers -> Nat]
      BY <3>1, <3>2, Zenon
    <3> QED
      BY <3>1, <3>2, <3>3, <3>4
  <2>2. /\ offered' \in Contents /\ payload' \in Contents /\ got' \in Contents
        /\ reviewed' \in [Categories -> SUBSET Symbols] /\ kept' \subseteq Categories
    BY <1>1 DEF StartRefresh
  <2>3. next \in Stages \cup {"write"}
    BY DEF Stages
  <2>4. pc' = [pc EXCEPT ![Job] = next] /\ UNCHANGED <<store, temp, edit, connected>>
    BY Zenon DEF StartRefresh
  <2> HIDE DEF next
  <2> QED
    BY <2>1, <2>2, <2>3, <2>4, StageTypes
<1>4. /\ payload' = NoSymbols /\ got' = NoSymbols /\ kept' = {} /\ reviewed' = Nothing
      /\ connected' = connected
  BY DEF StartRefresh
<1>5. ASSUME NEW c \in Categories
      PROVE  /\ payload'[c] = <<>> /\ got'[c] = <<>> /\ reviewed'[c] = {}
             /\ ToSet(<<>>) = {} /\ DistinctSymbols(<<>>)
  BY <1>4 DEF NoSymbols, Nothing, ToSet, DistinctSymbols
<1>6. RowsFit'
  BY <1>5 DEF RowsFit, HadFirst
<1>7. ASSUME NEW c \in Categories, pc'[Job] \in Chosen(c) PROVE Choice(c)'
  <2>1. ~connected
    BY <1>3, <1>7 DEF Chosen, Selecting
  <2>2. Len(<<>>) = Least(Required[c], Len(<<>>))
    BY SizeAssumption DEF Least
  <2>3. ToSet(got'[c]) = {} /\ DistinctSymbols(got'[c]) /\ reviewed'[c] = {}
    BY <1>5
  <2>4. Len(got'[c]) = Least(Required[c], Len(payload'[c]))
    BY <1>5, <2>2
  <2> QED
    BY <1>4, <2>1, <2>3, <2>4 DEF Choice
<1>8. ChoicesSound'
  BY <1>7 DEF ChoicesSound, Chosen, Selecting
<1> QED
  BY <1>3, <1>4, <1>6, <1>8 DEF SelectInv, KeptInTurn, KeptWhole

\* Before the first selection nothing is kept and nothing chosen.
LEMMA EarlyStage ==
  ASSUME RowsFit', kept' = {}, pc'[Job] \in {"discover", "enrich", "stock"}
  PROVE  SelectInv'
BY DEF SelectInv, KeptInTurn, KeptWhole, ChoicesSound, Chosen, Selecting

LEMMA DiscoverKeeps ==
  ASSUME TypeInv, SelectInv, Discover
  PROVE  TypeInv' /\ SelectInv'
<1>0. /\ pc[Job] = "discover" /\ pc' = [pc EXCEPT ![Job] = "enrich"]
      /\ UNCHANGED <<store, temp, base, baseAt, edit, reviewed, got, kept, started, connected>>
      /\ payload' = [c \in Categories |-> CheapShortlist(c, offered'[c], ToSet(base[Job][c]))]
  BY Zenon DEF Discover
<1>1. offered' \in Contents
  <2>1. PICK stocks \in Discovered("STOCK"), coins \in Discovered("CRYPTO") :
          offered' = [c \in Categories |-> IF c = "STOCK" THEN stocks ELSE coins]
    BY Zenon DEF Discover
  <2>2. Discovered("STOCK") \subseteq Seq(Symbols) /\ Discovered("CRYPTO") \subseteq Seq(Symbols)
    <3>1. Offers \in [Categories -> SUBSET Seq(Symbols)]
      BY WriterAssumption
    <3>2. <<>> \in Seq(Symbols)
      OBVIOUS
    <3> QED
      BY <3>1, <3>2, CategoryKinds DEF Discovered
  <2> QED
    BY <2>1, <2>2 DEF Contents
<1>2. ASSUME NEW c \in Categories
      PROVE  /\ payload'[c] \in Seq(Symbols) /\ DistinctSymbols(payload'[c])
             /\ ToSet(payload'[c]) \subseteq ToSet(offered'[c]) \cap (Had(c)' \cup Clean)
             /\ HadFirst(payload'[c], Had(c)', ToSet(offered'[c]))
  <2>1. Had(c)' = ToSet(base[Job][c])
    BY <1>0 DEF Had
  <2>2. payload'[c] = CheapShortlist(c, offered'[c], Had(c)')
    BY <1>0, <2>1
  <2>3. offered'[c] \in Seq(Symbols)
    BY <1>1 DEF Contents
  <2> QED
    BY <2>2, <2>3, ShortlistFacts
<1>3. payload' \in Contents
  BY <1>0, <1>2 DEF Contents
<1>4. TypeInv' /\ pc'[Job] = "enrich"
  <2>1. "enrich" \in Stages \cup {"write"}
    BY DEF Stages
  <2>2. /\ base' \in [Writers -> Contents] /\ baseAt' \in [Writers -> Nat] /\ started' \in Nat
        /\ got' \in Contents /\ reviewed' \in [Categories -> SUBSET Symbols]
        /\ kept' \subseteq Categories
    BY <1>0 DEF TypeInv, TypeOK
  <2> QED
    BY <1>0, <1>1, <1>3, <2>1, <2>2, StageTypes
<1>5. kept' = {}
  BY <1>0 DEF SelectInv, KeptInTurn, Chosen, Selecting
<1>6. RowsFit'
  BY <1>2 DEF RowsFit
<1> QED
  BY <1>4, <1>5, <1>6, EarlyStage

LEMMA EnrichKeeps ==
  ASSUME TypeInv, SelectInv, Enrich
  PROVE  TypeInv' /\ SelectInv'
<1>0. /\ pc[Job] = "enrich" /\ pc' = [pc EXCEPT ![Job] = "stock"]
      /\ UNCHANGED <<store, temp, base, baseAt, edit, offered, reviewed, got, kept, started, connected>>
  BY Zenon DEF Enrich
<1>1. PICK priced \in BarsArrive :
        payload' = [c \in Categories |->
                      Prefiltered(c, payload[c], ToSet(base[Job][c]), priced)]
  BY Zenon DEF Enrich
<1>2. ASSUME NEW c \in Categories
      PROVE  /\ payload'[c] \in Seq(Symbols) /\ DistinctSymbols(payload'[c])
             /\ ToSet(payload'[c]) \subseteq ToSet(offered'[c]) \cap (Had(c)' \cup Clean)
             /\ HadFirst(payload'[c], Had(c)', ToSet(offered'[c]))
  <2>1. Had(c) = ToSet(base[Job][c]) /\ Had(c)' = Had(c) /\ offered' = offered
    BY <1>0 DEF Had
  <2>2. payload'[c] = Prefiltered(c, payload[c], Had(c), priced)
    BY <1>1, <2>1
  <2>3. /\ payload[c] \in Seq(Symbols) /\ DistinctSymbols(payload[c])
        /\ ToSet(payload[c]) \subseteq ToSet(offered[c]) \cap (Had(c) \cup Clean)
        /\ HadFirst(payload[c], Had(c), ToSet(offered[c]))
    BY DEF TypeInv, TypeOK, Contents, SelectInv, RowsFit
  <2>4. /\ payload'[c] \in Seq(Symbols) /\ DistinctSymbols(payload'[c])
        /\ ToSet(payload'[c]) \subseteq ToSet(payload[c])
        /\ HadFirst(payload'[c], Had(c), ToSet(offered[c]))
    BY <2>2, <2>3, PrefilterFacts
  <2> QED
    BY <2>1, <2>3, <2>4
<1>3. payload' \in Contents
  BY <1>1, <1>2 DEF Contents
<1>4. TypeInv' /\ pc'[Job] = "stock"
  <2>1. "stock" \in Stages \cup {"write"}
    BY DEF Stages
  <2>2. /\ base' \in [Writers -> Contents] /\ baseAt' \in [Writers -> Nat] /\ started' \in Nat
        /\ got' \in Contents /\ reviewed' \in [Categories -> SUBSET Symbols]
        /\ kept' \subseteq Categories /\ offered' \in Contents
    BY <1>0 DEF TypeInv, TypeOK
  <2> QED
    BY <1>0, <1>3, <2>1, <2>2, StageTypes
<1>5. kept' = {}
  BY <1>0 DEF SelectInv, KeptInTurn, Chosen, Selecting
<1>6. RowsFit'
  BY <1>2 DEF RowsFit
<1> QED
  BY <1>4, <1>5, <1>6, EarlyStage

\* A category that keeps its symbols, and one that is selected anew.
LEMMA KeptChoice ==
  ASSUME TypeInv, NEW c \in Categories, KeepCategory(c)
  PROVE  /\ got'[c] = base[Job][c] /\ got' = [got EXCEPT ![c] = base[Job][c]]
         /\ kept' = kept \cup {c} /\ reviewed' = reviewed
<1>1. got' = [got EXCEPT ![c] = base[Job][c]] /\ kept' = kept \cup {c} /\ reviewed' = reviewed
  BY Zenon DEF KeepCategory
<1> QED
  BY <1>1 DEF TypeInv, TypeOK, Contents

LEMMA NewChoice ==
  ASSUME TypeInv, SelectInv, NEW c \in Categories, ChooseCategory(c)
  PROVE  /\ got'[c] \in Seq(Symbols) /\ got' = [got EXCEPT ![c] = got'[c]]
         /\ DistinctSymbols(got'[c])
         /\ ToSet(got'[c]) \subseteq Had(c) \cup (ToSet(offered[c]) \cap Clean)
         /\ Len(got'[c]) = Least(Required[c], Len(payload[c]))
         /\ Required[c] > 0 => got'[c] # <<>>
         /\ kept' = kept
         /\ reviewed'[c] \subseteq Symbols
         /\ reviewed' = [reviewed EXCEPT ![c] = reviewed'[c]]
         /\ reviewed'[c] \subseteq Had(c) \/ ToSet(offered[c]) \cap Had(c) \subseteq reviewed'[c]
<1> DEFINE list == payload[c]
           asked == DossierCandidates(c, list)
<1>1. /\ list \in Seq(Symbols) /\ list # <<>> /\ DistinctSymbols(list)
      /\ ToSet(list) \subseteq ToSet(offered[c]) \cap (Had(c) \cup Clean)
      /\ HadFirst(list, Had(c), ToSet(offered[c]))
  BY DEF ChooseCategory, TypeInv, TypeOK, Contents, SelectInv, RowsFit
<1>2. PICK answered \in SUBSET ToSet(asked), picks \in FinalAnswers :
        got' = [got EXCEPT ![c] = SelectCategory(c, list, answered, picks)]
  BY Zenon DEF ChooseCategory, DossierAnswers
<1>3. kept' = kept /\ reviewed' = [reviewed EXCEPT ![c] = ToSet(asked)]
  BY Zenon DEF ChooseCategory
<1>4. picks \in Seq(ToSet(picks))
  <2>1. CASE picks \in Picks
    BY <2>1, WriterAssumption
  <2>2. CASE picks = <<>>
    BY <2>2
  <2> QED
    BY <2>1, <2>2 DEF FinalAnswers
<1> DEFINE selection == SelectCategory(c, list, answered, picks)
<1>5. /\ asked \in Seq(Symbols) /\ ToSet(asked) \subseteq ToSet(list)
      /\ ToSet(asked) \subseteq Had(c) \/ ToSet(offered[c]) \cap Had(c) \subseteq ToSet(asked)
  BY <1>1, DossierFacts
<1>6. /\ selection \in Seq(Symbols) /\ DistinctSymbols(selection)
      /\ ToSet(selection) \subseteq ToSet(list)
      /\ Len(selection) = Least(Required[c], Len(list))
  <2> HIDE DEF list
  <2> QED
    BY <1>1, <1>4, SelectFacts
<1> HIDE DEF selection, asked
<1>7. got'[c] = selection /\ reviewed'[c] = ToSet(asked)
  BY <1>2, <1>3 DEF TypeInv, TypeOK, Contents, selection
<1>8. got' = [got EXCEPT ![c] = selection]
  BY <1>2 DEF selection
<1>9. Required[c] > 0 => selection # <<>>
  <2>1. Required[c] \in Nat /\ Len(list) \in Nat /\ Len(list) # 0
    BY <1>1, SizeAssumption
  <2> QED
    BY <1>6, <2>1 DEF Least
<1>10. ToSet(asked) \subseteq Symbols
  BY <1>5 DEF ToSet
<1> QED
  BY <1>1, <1>3, <1>5, <1>6, <1>7, <1>8, <1>9, <1>10

\* The selection of a category.
LEMMA SelectKeeps ==
  ASSUME TypeInv, SelectInv, NEW c, NEW at, NEW next, Select(c, at, next),
         \/ c = "STOCK" /\ at = "stock" /\ next = "crypto"
         \/ c = "CRYPTO" /\ at = "crypto" /\ next = "inject"
  PROVE  TypeInv' /\ SelectInv'
<1>0. /\ c \in Categories /\ pc[Job] = at /\ pc' = [pc EXCEPT ![Job] = next]
      /\ UNCHANGED <<store, temp, base, baseAt, edit, offered, payload, started, connected>>
      /\ KeepCategory(c) \/ ChooseCategory(c)
      /\ next \in Stages \cup {"write"}
  <2>1. c \in Categories /\ next \in Stages \cup {"write"}
    BY CategoryKinds DEF Stages
  <2> QED
    BY <2>1, Zenon DEF Select
<1>1. c \notin kept
  BY <1>0 DEF SelectInv, KeptInTurn, Chosen, Selecting
<1>2. /\ got'[c] \in Seq(Symbols) /\ got' = [got EXCEPT ![c] = got'[c]]
      /\ kept' \in {kept, kept \cup {c}}
      /\ reviewed'[c] \subseteq Symbols /\ reviewed' = [reviewed EXCEPT ![c] = reviewed'[c]]
  <2>1. CASE KeepCategory(c)
    <3>1. got'[c] = base[Job][c] /\ base[Job][c] \in Seq(Symbols)
      BY <1>0, <2>1, KeptChoice, WriterKinds DEF TypeInv, TypeOK, Contents
    <3>2. reviewed \in [Categories -> SUBSET Symbols]
      BY DEF TypeInv, TypeOK
    <3> QED
      BY <1>0, <2>1, <3>1, <3>2, KeptChoice
  <2>2. CASE ChooseCategory(c)
    BY <1>0, <2>2, NewChoice
  <2> QED
    BY <1>0, <2>1, <2>2
<1>3. /\ got' \in Contents /\ reviewed' \in [Categories -> SUBSET Symbols]
      /\ kept' \subseteq Categories
  <2>1. got \in [Categories -> Seq(Symbols)] /\ reviewed \in [Categories -> SUBSET Symbols]
        /\ kept \subseteq Categories
    BY DEF TypeInv, TypeOK, Contents
  <2>2. got' \in [Categories -> Seq(Symbols)]
    BY <1>0, <1>2, <2>1, Zenon
  <2>3. reviewed' \in [Categories -> SUBSET Symbols]
    BY <1>0, <1>2, <2>1, Zenon
  <2> QED
    BY <1>0, <1>2, <2>1, <2>2, <2>3 DEF Contents
<1>4. \A d \in Categories : d # c => got'[d] = got[d] /\ reviewed'[d] = reviewed[d]
  <2>1. got \in [Categories -> Seq(Symbols)] /\ reviewed \in [Categories -> SUBSET Symbols]
    BY DEF TypeInv, TypeOK, Contents
  <2> QED
    BY <1>0, <1>2, <2>1
<1>5. TypeInv' /\ pc'[Job] = next
  <2>1. /\ base' \in [Writers -> Contents] /\ baseAt' \in [Writers -> Nat] /\ started' \in Nat
        /\ offered' \in Contents /\ payload' \in Contents
    BY <1>0 DEF TypeInv, TypeOK
  <2> QED
    BY <1>0, <1>3, <2>1, StageTypes
<1>6. \A d \in Categories : Had(d)' = Had(d)
  BY <1>0 DEF Had
<1>7. RowsFit'
  BY <1>0, <1>6 DEF SelectInv, RowsFit
<1>8. KeptInTurn'
  <2>1. next \in Chosen(c)
    BY DEF Chosen, Selecting
  <2>2. \A d \in kept : next \in {"idle"} \cup Chosen(d)
    BY <1>0 DEF SelectInv, KeptInTurn, Chosen, Selecting
  <2> QED
    BY <1>2, <1>5, <2>1, <2>2 DEF KeptInTurn, Chosen, Selecting
<1>9. pc[Job] # "idle"
  BY <1>0
<1>10. KeptWhole'
  <2>1. ASSUME NEW d \in kept', d # c
        PROVE  Had(d) \subseteq ToSet(got'[d]) /\ ToSet(got'[d]) \subseteq Had(d) \cup Listed(d)
    BY <1>0, <1>2, <1>4, <1>9, <2>1 DEF SelectInv, KeptWhole, TypeInv, TypeOK
  <2>2. ASSUME c \in kept'
        PROVE  Had(c) \subseteq ToSet(got'[c]) /\ ToSet(got'[c]) \subseteq Had(c) \cup Listed(c)
    <3>1. KeepCategory(c)
      BY <1>0, <1>1, <2>2, NewChoice
    <3> QED
      BY <1>0, <3>1, KeptChoice DEF Had
  <2>3. \A d \in kept' : /\ Had(d) \subseteq ToSet(got'[d])
                         /\ ToSet(got'[d]) \subseteq Had(d) \cup Listed(d)
    BY <2>1, <2>2
  <2> QED
    BY <2>3, <1>3, <1>6 DEF KeptWhole, Listed
<1>11. ASSUME NEW d \in Categories, next \in Chosen(d), d # c PROVE Choice(d)'
  <2>1. at \in Chosen(d) /\ at \in Selecting(d) \cup {"inject"}
    BY <1>11 DEF Chosen, Selecting, Categories
  <2>2. Choice(d)
    BY <1>0, <2>1 DEF SelectInv, ChoicesSound
  <2>3. d \in kept' <=> d \in kept
    BY <1>2, <1>11
  <2>4. got'[d] = got[d] /\ reviewed'[d] = reviewed[d]
    BY <1>4, <1>11
  <2> QED
    BY <1>0, <1>6, <2>1, <2>2, <2>3, <2>4 DEF Choice, Listed, Selecting
<1>12. Choice(c)'
  <2>1. CASE KeepCategory(c)
    <3>1. got'[c] = base[Job][c] /\ c \in kept' /\ base' = base
      BY <1>0, <2>1, KeptChoice
    <3> QED
      BY <3>1, <1>6 DEF Choice, Had
  <2>2. CASE ChooseCategory(c)
    <3>1. /\ DistinctSymbols(got'[c])
          /\ ToSet(got'[c]) \subseteq Had(c) \cup (ToSet(offered[c]) \cap Clean)
          /\ Len(got'[c]) = Least(Required[c], Len(payload[c]))
          /\ Required[c] > 0 => got'[c] # <<>>
          /\ reviewed'[c] \subseteq Had(c) \/ ToSet(offered[c]) \cap Had(c) \subseteq reviewed'[c]
      BY <1>0, <2>2, NewChoice
    <3> QED
      BY <1>0, <1>6, <3>1 DEF Choice
  <2> QED
    BY <1>0, <2>1, <2>2
<1>13. ChoicesSound'
  BY <1>5, <1>11, <1>12 DEF ChoicesSound, Chosen, Selecting
<1> QED
  BY <1>5, <1>7, <1>8, <1>10, <1>13 DEF SelectInv

\* A failure keeps both categories.
LEMMA GiveUpKeeps ==
  ASSUME TypeInv, SelectInv, GiveUp
  PROVE  TypeInv' /\ SelectInv'
<1>0. /\ pc' = [pc EXCEPT ![Job] = "inject"] /\ got' = base[Job] /\ kept' = Categories
      /\ UNCHANGED <<store, temp, base, baseAt, edit, offered, payload, reviewed, started, connected>>
  BY Zenon DEF GiveUp
<1>1. base[Job] \in Contents
  BY WriterKinds DEF TypeInv, TypeOK
<1>2. TypeInv' /\ pc'[Job] = "inject"
  <2>1. /\ base' \in [Writers -> Contents] /\ baseAt' \in [Writers -> Nat] /\ started' \in Nat
        /\ offered' \in Contents /\ payload' \in Contents
        /\ reviewed' \in [Categories -> SUBSET Symbols]
    BY <1>0 DEF TypeInv, TypeOK
  <2>2. "inject" \in Stages \cup {"write"}
    BY DEF Stages
  <2> QED
    BY <1>0, <1>1, <2>1, <2>2, StageTypes
<1>3. \A c \in Categories : Had(c)' = Had(c) /\ got'[c] = base'[Job][c]
  BY <1>0 DEF Had
<1>4. RowsFit'
  BY <1>0, <1>3 DEF SelectInv, RowsFit
<1>5. KeptInTurn' /\ KeptWhole'
  BY <1>0, <1>2, <1>3 DEF KeptInTurn, KeptWhole, Chosen, Had
<1>6. ASSUME NEW c \in Categories PROVE Choice(c)'
  BY <1>0, <1>3 DEF Choice, Had
<1> QED
  BY <1>2, <1>4, <1>5, <1>6 DEF SelectInv, ChoicesSound

\* The listed ETFs are put behind the stocks.
LEMMA InjectKeeps ==
  ASSUME TypeInv, SelectInv, InjectEtfs
  PROVE  TypeInv' /\ SelectInv'
<1>0. /\ pc[Job] = "inject" /\ pc' = [pc EXCEPT ![Job] = "write"]
      /\ UNCHANGED <<store, temp, base, baseAt, edit, offered, payload, reviewed, kept, started, connected>>
  BY Zenon DEF InjectEtfs
<1>1. PICK unknown \in UnknownEtfs :
        got' = [got EXCEPT !["STOCK"] = @ \o Without(Etfs, unknown \cup ToSet(@))]
  BY Zenon DEF InjectEtfs
<1> DEFINE old == got["STOCK"]
           add == Without(Etfs, unknown \cup ToSet(old))
<1>2. /\ got \in [Categories -> Seq(Symbols)] /\ old \in Seq(Symbols)
  BY CategoryKinds DEF TypeInv, TypeOK, Contents
<1>3. /\ add \in Seq(Symbols) /\ DistinctSymbols(add)
      /\ ToSet(add) = ToSet(Etfs) \ (unknown \cup ToSet(old))
  BY WriterAssumption, WithinFacts
<1>4. got' = [got EXCEPT !["STOCK"] = old \o add]
  BY <1>1
<1> HIDE DEF old, add
<1>5. /\ old \o add \in Seq(Symbols) /\ Len(old \o add) = Len(old) + Len(add)
      /\ ToSet(old \o add) = ToSet(old) \cup ToSet(add)
      /\ DistinctSymbols(old) => DistinctSymbols(old \o add)
  <2>1. ToSet(old) \cap ToSet(add) = {}
    BY <1>3
  <2> QED
    BY <1>2, <1>3, <2>1, ConcatFacts
<1>6. /\ got'["STOCK"] = old \o add /\ got' \in Contents
      /\ \A c \in Categories : c # "STOCK" => got'[c] = got[c]
  <2>1. got' \in [Categories -> Seq(Symbols)]
    BY <1>2, <1>4, <1>5, Zenon
  <2> QED
    BY <1>2, <1>4, <2>1, CategoryKinds DEF Contents
<1>7. TypeInv' /\ pc'[Job] = "write"
  <2>1. /\ base' \in [Writers -> Contents] /\ baseAt' \in [Writers -> Nat] /\ started' \in Nat
        /\ offered' \in Contents /\ payload' \in Contents
        /\ reviewed' \in [Categories -> SUBSET Symbols] /\ kept' \subseteq Categories
    BY <1>0 DEF TypeInv, TypeOK
  <2> QED
    BY <1>0, <1>6, <2>1, StageTypes
<1>8. \A c \in Categories : Had(c)' = Had(c)
  BY <1>0 DEF Had
<1>9. RowsFit'
  BY <1>0, <1>8 DEF SelectInv, RowsFit
<1>10. KeptInTurn'
  BY <1>0, <1>7 DEF KeptInTurn, Chosen
<1>11. KeptWhole'
  <2>1. \A c \in kept : /\ c \in Categories /\ Had(c) \subseteq ToSet(got[c])
                        /\ ToSet(got[c]) \subseteq Had(c) \cup Listed(c)
    BY <1>0 DEF SelectInv, KeptWhole, TypeInv, TypeOK
  <2>2. ASSUME NEW c \in kept
        PROVE  Had(c) \subseteq ToSet(got'[c]) /\ ToSet(got'[c]) \subseteq Had(c) \cup Listed(c)
    BY <2>1, <1>3, <1>5, <1>6 DEF old, Listed
  <2> QED
    BY <2>1, <2>2, <1>0, <1>8 DEF KeptWhole, Listed
<1>12. ASSUME NEW c \in Categories PROVE Choice(c)'
  <2>1. Choice(c)
    BY <1>0 DEF SelectInv, ChoicesSound, Chosen
  <2>2. CASE c # "STOCK"
    BY <2>1, <2>2, <1>0, <1>6, <1>7, <1>8 DEF Choice, Listed, Selecting
  <2>3. CASE c = "STOCK"
    <3>1. ToSet(got'[c]) \subseteq ToSet(got[c]) \cup Listed(c)
      BY <2>3, <1>3, <1>5, <1>6 DEF old, Listed
    <3>2. DistinctSymbols(got[c]) => DistinctSymbols(got'[c])
      BY <2>3, <1>5, <1>6 DEF old
    <3>3. got[c] # <<>> => got'[c] # <<>>
      <4>1. Len(old) \in Nat /\ Len(add) \in Nat /\ (old # <<>> => Len(old) # 0)
        BY <1>2, <1>3
      <4>2. old # <<>> => Len(old \o add) # 0
        BY <4>1, <1>5
      <4> QED
        BY <2>3, <4>2, <1>6 DEF old
    <3>4. pc'[Job] \notin Selecting(c) \cup {"inject"}
      BY <1>7 DEF Selecting
    <3> QED
      BY <2>1, <3>1, <3>2, <3>3, <3>4, <1>0, <1>8 DEF Choice, Listed
  <2> QED
    BY <2>2, <2>3
<1> QED
  BY <1>7, <1>9, <1>10, <1>11, <1>12 DEF SelectInv, ChoicesSound

\* Publishing the selection.
LEMMA PublishKeeps ==
  ASSUME TypeInv, SelectInv, WriteRefresh \/ ReplaceByRefresh
  PROVE  TypeInv' /\ SelectInv'
<1>1. CASE WriteRefresh
  <2>1. TypeInv'
    BY <1>1, WriteTempTypes, WriterKinds DEF WriteRefresh, TypeInv, TypeOK
  <2>2. base'[Job] = base[Job] /\ UNCHANGED <<refresh, connected>>
    BY <1>1, Zenon DEF WriteRefresh, WriteTemp
  <2>3. pc[Job] = "write" /\ pc'[Job] = "replace"
    BY <1>1, WriterKinds DEF WriteRefresh, WriteTemp, TypeInv, TypeOK
  <2> QED
    BY <2>1, <2>2, <2>3, SelectFrame
<1>2. CASE ReplaceByRefresh
  <2> DEFINE Stand == [op : {"free", "add", "remove"}, at : Nat]
  <2>1. stands' \in [Categories -> [Symbols -> Stand]]
    <3>1. stands' = [c \in Categories |-> [s \in Symbols |->
                       IF Preserved(c, s) THEN stands[c][s] ELSE Free]]
      BY <1>2, Zenon DEF ReplaceByRefresh
    <3>2. Free \in Stand /\ stands \in [Categories -> [Symbols -> Stand]]
      BY DEF Free, TypeInv, TypeOK
    <3> HIDE DEF Stand
    <3> QED
      BY <3>1, <3>2
  <2>2. /\ pc[Job] = "replace" /\ ReplaceFile(Job)
        /\ UNCHANGED <<base, baseAt, edit, refresh, started, connected>>
    BY <1>2, Zenon DEF ReplaceByRefresh
  <2>3. TypeInv'
    BY <2>1, <2>2, ReplaceTypes, WriterKinds
  <2>4. pc'[Job] = "idle"
    BY <2>2, WriterKinds DEF ReplaceFile, TypeInv, TypeOK
  <2> QED
    BY <2>2, <2>3, <2>4, SelectFrame
<1> QED
  BY <1>1, <1>2

\* A restart forgets whoever was at work.
LEMMA RestartKeeps ==
  ASSUME TypeInv, SelectInv, Restart
  PROVE  TypeInv' /\ SelectInv'
<1>1. /\ pc' = [w \in Writers |-> "idle"] /\ temp' = [w \in Writers |-> NoFile]
      /\ connected' \in BOOLEAN /\ UNCHANGED <<store, base, baseAt, edit, refresh, started>>
  BY Zenon DEF Restart
<1>2. \A w \in Writers : pc'[w] = "idle"
  BY <1>1
<1>3. TypeInv'
  <2>1. /\ file' = file /\ version' = version /\ stands' = stands /\ base' = base
        /\ baseAt' = baseAt /\ edit' = edit /\ started' = started /\ offered' = offered
        /\ payload' = payload /\ reviewed' = reviewed /\ got' = got /\ kept' = kept
    BY <1>1 DEF store, refresh
  <2>2. "idle" \notin Stages
    BY DEF Stages
  <2>3. /\ temp' \in [Writers -> Contents \cup {NoFile}]
        /\ pc' \in [Writers -> {"idle", "read", "write", "replace"} \cup Stages]
    BY <1>1
  <2>4. pc'[Job] # "read" /\ \A t \in Threads : pc'[t] \notin Stages
    BY <1>2, <2>2, WriterKinds
  <2>5. \A w \in Writers : pc'[w] = "replace" => temp'[w] \in Contents
    BY <1>2
  <2> QED
    BY <1>1, <2>1, <2>3, <2>4, <2>5 DEF TypeInv, TypeOK
<1> QED
  BY <1>1, <1>2, <1>3, SelectFrame, WriterKinds

\* Every step keeps the invariants of the refresh.
LEMMA RefreshKeeps == TypeInv /\ SelectInv /\ [Next]_vars => TypeInv' /\ SelectInv'
<1> SUFFICES ASSUME TypeInv, SelectInv, [Next]_vars PROVE TypeInv' /\ SelectInv'
  OBVIOUS
<1>1. ASSUME NEW t \in Threads, EditStep(t) PROVE TypeInv' /\ SelectInv'
  BY <1>1, EditTypes, EditFrame, SelectFrame
<1>2. CASE StartRefresh
  BY <1>2, StartKeeps
<1>3. CASE Discover
  BY <1>3, DiscoverKeeps
<1>4. CASE Enrich
  BY <1>4, EnrichKeeps
<1>5. CASE SelectStocks
  BY <1>5, SelectKeeps, Zenon DEF SelectStocks
<1>6. CASE SelectCoins
  BY <1>6, SelectKeeps, Zenon DEF SelectCoins
<1>7. CASE GiveUp
  BY <1>7, GiveUpKeeps
<1>8. CASE InjectEtfs
  BY <1>8, InjectKeeps
<1>9. CASE WriteRefresh \/ ReplaceByRefresh
  BY <1>9, PublishKeeps
<1>10. CASE Restart
  BY <1>10, RestartKeeps
<1>11. CASE UNCHANGED vars
  <2>1. UNCHANGED <<store, temp, pc, base, baseAt, edit, refresh, started, connected>>
    BY <1>11, Zenon DEF vars
  <2>2. TypeInv'
    BY <2>1 DEF TypeInv, TypeOK, store, refresh
  <2> QED
    BY <2>1, <2>2, SelectFrame
<1> QED
  BY <1>1, <1>2, <1>3, <1>4, <1>5, <1>6, <1>7, <1>8, <1>9, <1>10, <1>11 DEF Next, RefreshStep

LEMMA RefreshInvariant == Spec => [](TypeInv /\ SelectInv)
<1>1. Init => TypeInv /\ SelectInv
  BY TypeInit, SelectInit
<1> QED
  BY <1>1, RefreshKeeps, PTL DEF Spec

\* Every variable of the universe has its type: in particular a writer that is about to
\* replace the file has a temporary file of its own with a universe in it, whoever else
\* writes and whenever the process restarts.
THEOREM TypeCorrect == Spec => []TypeOK
<1>1. TypeInv => TypeOK
  BY DEF TypeInv
<1> QED
  BY <1>1, RefreshInvariant, PTL

\* Whatever discovery and the models answer and whichever requests fail, a refresh
\* selects only what was offered, what the category had, or listed ETFs, each once.
THEOREM SelectionsAreSound == Spec => []SelectionSound
<1>1. TypeInv /\ SelectInv => SelectionSound
  BY DEF SelectInv, ChoicesSound, Choice, Chosen, SelectionSound, Selected, Had, Listed
<1> QED
  BY <1>1, RefreshInvariant, PTL

\* A category selected anew gets the required number of symbols or all its rows.
THEOREM SelectionsAreFull == Spec => []SelectionFills
<1>1. TypeInv /\ SelectInv => SelectionFills
  BY DEF SelectInv, ChoicesSound, Choice, Chosen, SelectionFills
<1> QED
  BY <1>1, RefreshInvariant, PTL

\* Symbols the category has and discovery still offers are reviewed before any other.
THEOREM IncumbentsComeFirst == Spec => []IncumbentsFirst
<1>1. TypeInv /\ SelectInv => IncumbentsFirst
  BY DEF SelectInv, ChoicesSound, Choice, Chosen, IncumbentsFirst, Selected, Had
<1> QED
  BY <1>1, RefreshInvariant, PTL

-----------------------------------------------------------------------------
(* Edits that stand.                                                       *)

\* What an edit promises depends on who is in the category only.
LEMMA HoldsSame ==
  ASSUME NEW u, NEW v, NEW op, NEW c, NEW s, s \in ToSet(u[c]) <=> s \in ToSet(v[c]),
         Holds(u, op, c, s)
  PROVE  Holds(v, op, c, s)
BY DEF Holds

LEMMA StandInit == Init => StandInv
<1> SUFFICES ASSUME Init PROVE StandInv
  OBVIOUS
<1>1. \A w \in Writers : pc[w] = "idle"
  BY DEF Init
<1>2. \A c \in Categories, s \in Symbols : stands[c][s].op = "free"
  BY DEF Init, Free
<1>3. TempsReady
  BY <1>1, WriterKinds DEF TempsReady
<1> QED
  BY <1>1, <1>2, <1>3 DEF StandInv, StandsReached, ReadersAgree, HoldsRead, Reading, StandingEdits

\* What a writer knows stays true while the file and the edits stay, and it stays where
\* it is, or stops, or goes on with what it has read.
LEMMA ReaderFrame ==
  ASSUME NEW w \in Writers, HoldsRead(w), UNCHANGED store, base'[w] = base[w],
         baseAt'[w] = baseAt[w], Reading(w)' => Reading(w)
  PROVE  HoldsRead(w)'
BY DEF HoldsRead, store, ReadFile

\* A writer that has just read knows what the file has.
LEMMA FreshReader ==
  ASSUME TypeInv, StandInv, NEW w \in Writers, UNCHANGED store, base'[w] = ReadFile,
         baseAt'[w] = version
  PROVE  HoldsRead(w)'
<1>1. version \in Nat
  BY DEF TypeInv, TypeOK
<1> QED
  BY <1>1 DEF HoldsRead, StandInv, StandingEdits, store, ReadFile

\* Steps that leave the file and the standing edits alone.
LEMMA StandFrame ==
  ASSUME StandInv, UNCHANGED store, ReadersAgree', TempsReady'
  PROVE  StandInv'
BY DEF StandInv, StandsReached, StandingEdits, store, ReadFile

\* A writer prepares its temporary file.
LEMMA WriteTempStands ==
  ASSUME TypeInv, StandInv, NEW w \in Writers, NEW u, pc[w] = "write", WriteTemp(w, u),
         \/ w \in Threads /\ u = Edited(base[w], edit[w])
         \/ w = Job /\ u = got
  PROVE  StandInv'
<1>1. /\ temp' = [temp EXCEPT ![w] = u] /\ pc' = [pc EXCEPT ![w] = "replace"]
      /\ UNCHANGED <<store, base, baseAt, edit, refresh, started, connected>>
  BY Zenon DEF WriteTemp
<1>2. /\ temp'[w] = u /\ pc'[w] = "replace"
      /\ \A v \in Writers : v # w => temp'[v] = temp[v] /\ pc'[v] = pc[v]
  BY <1>1 DEF TypeInv, TypeOK
<1>3. ReadersAgree'
  <2>1. ASSUME NEW v \in Writers PROVE HoldsRead(v)'
    <3>1. HoldsRead(v)
      BY DEF StandInv, ReadersAgree
    <3>2. Reading(v)' => Reading(v)
      BY <1>2 DEF Reading
    <3> QED
      BY <1>1, <3>1, <3>2, ReaderFrame
  <2> QED
    BY <2>1 DEF ReadersAgree
<1>4. TempsReady'
  <2>1. got' = got /\ base' = base /\ edit' = edit
    BY <1>1 DEF refresh
  <2> QED
    BY <2>1, <1>2, WriterKinds DEF StandInv, TempsReady
<1> QED
  BY <1>1, <1>3, <1>4, StandFrame

\* A writer replaces the file: edits it has read are in what it publishes, unless its
\* own supersedes them, and nobody else has read what it publishes.
LEMMA ReplaceStands ==
  ASSUME TypeInv, StandInv, NEW w \in Writers, pc[w] = "replace", ReplaceFile(w),
         UNCHANGED <<base, baseAt, edit, refresh, started, connected>>,
         \A c \in Categories, s \in Symbols : stands'[c][s].op # "free" =>
           /\ Holds(temp[w], stands'[c][s].op, c, s)
           /\ stands'[c][s].at = version + 1
                \/ (stands'[c][s] = stands[c][s] /\ stands[c][s].at <= version)
  PROVE  StandInv'
<1>0. /\ file' = temp[w] /\ version' = version + 1 /\ version \in Nat
      /\ baseAt \in [Writers -> Nat]
  BY DEF ReplaceFile, TypeInv, TypeOK
<1>1. /\ pc'[w] = "idle"
      /\ \A v \in Writers : v # w => pc'[v] = pc[v] /\ temp'[v] = temp[v]
  BY DEF ReplaceFile, TypeInv, TypeOK
<1>2. ReadFile' = temp[w]
  <2>1. temp[w] \in Contents /\ NoFile \notin Contents
    BY WriterAssumption DEF TypeInv, TypeOK
  <2> QED
    BY <1>0, <2>1 DEF ReadFile
<1>3. StandingEdits'
  BY <1>2 DEF StandingEdits
<1>4. StandsReached'
  <2>1. ASSUME NEW c \in Categories, NEW s \in Symbols, stands'[c][s].op # "free"
        PROVE  stands'[c][s].at <= version'
    <3>1. stands[c][s].at \in Nat
      BY DEF TypeInv, TypeOK
    <3>2. CASE stands'[c][s].at = version + 1
      BY <1>0, <3>2
    <3>3. CASE stands'[c][s] = stands[c][s] /\ stands[c][s].at <= version
      <4>1. stands'[c][s].at = stands[c][s].at
        BY <3>3
      <4> QED
        BY <1>0, <3>1, <3>3, <4>1
    <3> QED
      BY <2>1, <3>2, <3>3
  <2> QED
    BY <2>1 DEF StandsReached
<1>5. ASSUME NEW v \in Writers, Reading(v)' PROVE HoldsRead(v)'
  <2>1. v # w /\ Reading(v)
    BY <1>1, <1>5 DEF Reading
  <2>2. /\ baseAt[v] <= version /\ baseAt[v] \in Nat
        /\ \A c \in Categories, s \in Symbols :
             stands[c][s].op # "free" /\ stands[c][s].at <= baseAt[v]
               => Holds(base[v], stands[c][s].op, c, s)
    BY <1>0, <2>1 DEF StandInv, ReadersAgree, HoldsRead
  <2>3. baseAt'[v] = baseAt[v] /\ base'[v] = base[v] /\ baseAt[v] < version'
    BY <1>0, <2>2
  <2>4. ASSUME NEW c \in Categories, NEW s \in Symbols, stands'[c][s].op # "free",
               stands'[c][s].at <= baseAt[v]
        PROVE  Holds(base[v], stands'[c][s].op, c, s)
    <3>1. stands'[c][s] = stands[c][s]
      BY <1>0, <2>2, <2>4
    <3> QED
      BY <2>2, <2>4, <3>1
  <2> QED
    BY <2>2, <2>3, <2>4, <1>0 DEF HoldsRead
<1>6. ReadersAgree'
  BY <1>5 DEF ReadersAgree, HoldsRead
<1>7. TempsReady'
  <2>1. got' = got
    BY DEF refresh
  <2> QED
    BY <1>1, <2>1, WriterKinds DEF StandInv, TempsReady
<1> QED
  BY <1>3, <1>4, <1>6, <1>7 DEF StandInv

\* Additions and removals.
LEMMA EditStands ==
  ASSUME TypeInv, StandInv, NEW t \in Threads, EditStep(t)
  PROVE  StandInv'
<1>0. /\ t \in Writers /\ t # Job /\ edit[t] \in Edits /\ version \in Nat
      /\ edit[t].op \in {"add", "remove"} /\ edit[t].category \in Categories
      /\ edit[t].symbol \in Symbols
  BY WriterKinds DEF TypeInv, TypeOK, Edits
<1>1. ASSUME NEW e \in Requests, AskEdit(t, e) PROVE StandInv'
  <2>1. /\ pc[t] = "idle" /\ pc' = [pc EXCEPT ![t] = "read"]
        /\ edit' = [edit EXCEPT ![t] = e] /\ UNCHANGED <<store, temp, base, baseAt, refresh>>
    BY <1>1, Zenon DEF AskEdit
  <2>2. pc'[t] = "read" /\ \A v \in Writers : v # t => pc'[v] = pc[v]
    BY <1>0, <2>1 DEF TypeInv, TypeOK
  <2>3. ReadersAgree'
    <3>1. ASSUME NEW v \in Writers PROVE HoldsRead(v)'
      <4>1. HoldsRead(v)
        BY DEF StandInv, ReadersAgree
      <4>2. Reading(v)' => Reading(v)
        BY <2>2 DEF Reading
      <4> QED
        BY <2>1, <4>1, <4>2, ReaderFrame
    <3> QED
      BY <3>1 DEF ReadersAgree
  <2>4. TempsReady'
    <3>1. got' = got /\ base' = base /\ temp' = temp
      BY <2>1 DEF refresh
    <3>2. \A v \in Threads : v # t => edit'[v] = edit[v]
      BY <2>1 DEF TypeInv, TypeOK
    <3> QED
      BY <3>1, <3>2, <2>2, WriterKinds DEF StandInv, TempsReady
  <2> QED
    BY <2>1, <2>3, <2>4, StandFrame
<1>2. ASSUME ReadForEdit(t) PROVE StandInv'
  <2> DEFINE e == edit[t]
  <2>1. /\ pc[t] = "read" /\ UNCHANGED <<file, version, temp, edit, refresh, started, connected>>
    BY <1>2, Zenon DEF ReadForEdit
  <2>2. ReadFile' = ReadFile /\ file' = file /\ version' = version /\ got' = got
        /\ temp' = temp /\ edit' = edit
    BY <2>1 DEF ReadFile, refresh
  <2>3. CASE Holds(ReadFile, e.op, e.category, e.symbol)
    <3>1. /\ stands' = [stands EXCEPT ![e.category][e.symbol] = [op |-> e.op, at |-> version]]
          /\ pc' = [pc EXCEPT ![t] = "idle"] /\ base' = base /\ baseAt' = baseAt
      BY <1>2, <2>3, Zenon DEF ReadForEdit
    <3>2. pc'[t] = "idle" /\ \A v \in Writers : v # t => pc'[v] = pc[v]
      BY <1>0, <3>1 DEF TypeInv, TypeOK
    <3>3. ASSUME NEW c \in Categories, NEW s \in Symbols
          PROVE  stands'[c][s] = IF c = e.category /\ s = e.symbol
                                 THEN [op |-> e.op, at |-> version] ELSE stands[c][s]
      BY <1>0, <3>1 DEF TypeInv, TypeOK
    <3>4. StandsReached'
      <4>1. \A c \in Categories, s \in Symbols :
              stands[c][s].op # "free" => stands[c][s].at <= version
        BY DEF StandInv, StandsReached
      <4> QED
        BY <1>0, <2>2, <3>3, <4>1 DEF StandsReached
    <3>5. StandingEdits'
      <4>1. \A c \in Categories, s \in Symbols :
              stands[c][s].op # "free" => Holds(ReadFile, stands[c][s].op, c, s)
        BY DEF StandInv, StandingEdits
      <4> QED
        BY <2>2, <2>3, <3>3, <4>1 DEF StandingEdits
    <3>6. ASSUME NEW v \in Writers, Reading(v)' PROVE HoldsRead(v)'
      <4>1. v # t /\ Reading(v)
        BY <3>2, <3>6 DEF Reading
      <4>2. /\ baseAt[v] <= version /\ baseAt[v] \in Nat
            /\ baseAt[v] = version => base[v] = ReadFile
            /\ \A c \in Categories, s \in Symbols :
                 stands[c][s].op # "free" /\ stands[c][s].at <= baseAt[v]
                   => Holds(base[v], stands[c][s].op, c, s)
        BY <4>1 DEF StandInv, ReadersAgree, HoldsRead, TypeInv, TypeOK
      <4>3. ASSUME NEW c \in Categories, NEW s \in Symbols, stands'[c][s].op # "free",
                   stands'[c][s].at <= baseAt[v]
            PROVE  Holds(base[v], stands'[c][s].op, c, s)
        <5>1. CASE c = e.category /\ s = e.symbol
          <6>1. stands'[c][s] = [op |-> e.op, at |-> version]
            BY <3>3, <5>1
          <6>2. baseAt[v] = version
            BY <4>2, <4>3, <6>1, <1>0
          <6> QED
            BY <4>2, <5>1, <6>1, <6>2, <2>3
        <5>2. CASE ~(c = e.category /\ s = e.symbol)
          BY <3>3, <4>2, <4>3, <5>2
        <5> QED
          BY <5>1, <5>2
      <4> QED
        BY <2>2, <3>1, <4>2, <4>3 DEF HoldsRead
    <3>7. ReadersAgree'
      BY <3>6 DEF ReadersAgree, HoldsRead
    <3>8. TempsReady'
      BY <2>2, <3>1, <3>2, WriterKinds DEF StandInv, TempsReady
    <3> QED
      BY <3>4, <3>5, <3>7, <3>8 DEF StandInv
  <2>4. CASE ~Holds(ReadFile, e.op, e.category, e.symbol)
    <3>1. /\ base' = [base EXCEPT ![t] = ReadFile] /\ baseAt' = [baseAt EXCEPT ![t] = version]
          /\ pc' = [pc EXCEPT ![t] = "write"] /\ stands' = stands
      BY <1>2, <2>4, Zenon DEF ReadForEdit
    <3>2. /\ pc'[t] = "write" /\ base'[t] = ReadFile /\ baseAt'[t] = version
          /\ \A v \in Writers : v # t =>
               pc'[v] = pc[v] /\ base'[v] = base[v] /\ baseAt'[v] = baseAt[v]
      BY <1>0, <3>1 DEF TypeInv, TypeOK
    <3>3. UNCHANGED store
      BY <2>2, <3>1 DEF store
    <3>4. ReadersAgree'
      <4>1. ASSUME NEW v \in Writers, v # t PROVE HoldsRead(v)'
        <5>1. HoldsRead(v)
          BY DEF StandInv, ReadersAgree
        <5>2. Reading(v)' => Reading(v)
          BY <3>2, <4>1 DEF Reading
        <5> QED
          BY <3>2, <3>3, <4>1, <5>1, <5>2, ReaderFrame
      <4>2. HoldsRead(t)'
        BY <1>0, <3>2, <3>3, FreshReader
      <4> QED
        BY <4>1, <4>2 DEF ReadersAgree
    <3>5. TempsReady'
      BY <2>2, <3>2, WriterKinds DEF StandInv, TempsReady
    <3> QED
      BY <3>3, <3>4, <3>5, StandFrame
  <2> QED
    BY <2>3, <2>4
<1>3. ASSUME WriteEdit(t) PROVE StandInv'
  BY <1>0, <1>3, WriteTempStands DEF WriteEdit
<1>4. ASSUME ReplaceByEdit(t) PROVE StandInv'
  <2> DEFINE e == edit[t]
  <2>1. /\ pc[t] = "replace" /\ ReplaceFile(t)
        /\ UNCHANGED <<base, baseAt, edit, refresh, started, connected>>
    BY <1>4, Zenon DEF ReplaceByEdit
  <2>2. stands' = [c \in Categories |-> [s \in Symbols |->
          IF c = e.category /\ s = e.symbol THEN [op |-> e.op, at |-> version + 1]
          ELSE IF stands[c][s].at <= baseAt[t] THEN stands[c][s] ELSE Free]]
    BY <1>4, Zenon DEF ReplaceByEdit
  <2>3. /\ temp[t] = Edited(base[t], e) /\ base[t] \in Contents
        /\ baseAt[t] <= version /\ baseAt[t] \in Nat
        /\ \A c \in Categories, s \in Symbols :
             stands[c][s].op # "free" /\ stands[c][s].at <= baseAt[t]
               => Holds(base[t], stands[c][s].op, c, s)
    BY <1>0, <2>1 DEF StandInv, TempsReady, ReadersAgree, HoldsRead, Reading, TypeInv, TypeOK
  <2>4. /\ Holds(temp[t], e.op, e.category, e.symbol)
        /\ \A c \in Categories, s \in Symbols : ~(c = e.category /\ s = e.symbol) =>
             (s \in ToSet(temp[t][c]) <=> s \in ToSet(base[t][c]))
    BY <1>0, <2>3, EditedFacts
  <2>5. ASSUME NEW c \in Categories, NEW s \in Symbols, stands'[c][s].op # "free"
        PROVE  /\ Holds(temp[t], stands'[c][s].op, c, s)
               /\ stands'[c][s].at = version + 1
                    \/ (stands'[c][s] = stands[c][s] /\ stands[c][s].at <= version)
    <3>1. CASE c = e.category /\ s = e.symbol
      <4>1. stands'[c][s] = [op |-> e.op, at |-> version + 1]
        BY <2>2, <3>1
      <4>2. stands'[c][s].op = e.op /\ stands'[c][s].at = version + 1
        BY <4>1
      <4>3. Holds(temp[t], e.op, c, s)
        <5> HIDE DEF e
        <5> QED
          BY <2>4, <3>1
      <4>4. Holds(temp[t], stands'[c][s].op, c, s)
        BY <4>2, <4>3, Zenon
      <4> QED
        BY <4>2, <4>4
    <3>2. CASE ~(c = e.category /\ s = e.symbol)
      <4>1. stands'[c][s] = IF stands[c][s].at <= baseAt[t] THEN stands[c][s] ELSE Free
        BY <2>2, <3>2
      <4>2. stands[c][s].at <= baseAt[t] /\ stands'[c][s] = stands[c][s]
        BY <2>5, <4>1 DEF Free
      <4>3. Holds(base[t], stands'[c][s].op, c, s)
        BY <2>3, <2>5, <4>2
      <4>4. Holds(temp[t], stands'[c][s].op, c, s)
        BY <2>4, <3>2, <4>3, HoldsSame
      <4>5. stands[c][s].at \in Nat
        BY DEF TypeInv, TypeOK
      <4> QED
        BY <1>0, <2>3, <4>2, <4>4, <4>5
    <3> QED
      BY <3>1, <3>2
  <2> QED
    BY <1>0, <2>1, <2>5, ReplaceStands
<1> QED
  BY <1>1, <1>2, <1>3, <1>4 DEF EditStep

\* The refresh publishes what it kept, and nobody's edit of what it selected anew.
LEMMA RefreshStands ==
  ASSUME TypeInv, SelectInv, StandInv, ReplaceByRefresh
  PROVE  StandInv'
<1>1. /\ pc[Job] = "replace" /\ ReplaceFile(Job)
      /\ UNCHANGED <<base, baseAt, edit, refresh, started, connected>>
      /\ stands' = [c \in Categories |-> [s \in Symbols |->
                      IF Preserved(c, s) THEN stands[c][s] ELSE Free]]
  BY Zenon DEF ReplaceByRefresh
<1>2. /\ temp[Job] = got /\ baseAt[Job] <= version /\ baseAt[Job] \in Nat /\ version \in Nat
      /\ \A c \in Categories, s \in Symbols :
           stands[c][s].op # "free" /\ stands[c][s].at <= baseAt[Job]
             => Holds(base[Job], stands[c][s].op, c, s)
  BY <1>1, WriterKinds
     DEF StandInv, TempsReady, ReadersAgree, HoldsRead, Reading, TypeInv, TypeOK
<1>3. ASSUME NEW c \in Categories, NEW s \in Symbols, stands'[c][s].op # "free"
      PROVE  /\ Holds(temp[Job], stands'[c][s].op, c, s)
             /\ stands'[c][s] = stands[c][s] /\ stands[c][s].at <= version
  <2>1. stands'[c][s] = IF Preserved(c, s) THEN stands[c][s] ELSE Free
    BY <1>1
  <2>2. Preserved(c, s) /\ stands'[c][s] = stands[c][s]
    BY <1>3, <2>1 DEF Free
  <2>3. /\ c \in kept /\ stands[c][s].at <= baseAt[Job] /\ stands[c][s].at \in Nat
        /\ stands[c][s].op = "remove" => s \notin Listed(c)
        /\ stands[c][s].op \in {"free", "add", "remove"}
    <3>1. stands[c][s] \in [op : {"free", "add", "remove"}, at : Nat]
      BY DEF TypeInv, TypeOK
    <3> QED
      BY <2>2, <3>1 DEF Preserved, Listed
  <2>4. Holds(base[Job], stands[c][s].op, c, s)
    BY <1>2, <1>3, <2>2, <2>3
  <2>5. Had(c) \subseteq ToSet(got[c]) /\ ToSet(got[c]) \subseteq Had(c) \cup Listed(c)
    BY <1>1, <2>3 DEF SelectInv, KeptWhole
  <2>6. Holds(got, stands[c][s].op, c, s)
    BY <1>3, <2>2, <2>3, <2>4, <2>5 DEF Holds, Had
  <2> QED
    BY <1>2, <2>2, <2>3, <2>6
<1> QED
  BY <1>1, <1>3, ReplaceStands, WriterKinds

\* The other stages of the refresh leave the file and the standing edits alone.
LEMMA StageStands ==
  ASSUME TypeInv, StandInv, NEW next \in Stages \cup {"write"},
         pc' = [pc EXCEPT ![Job] = next], UNCHANGED <<store, temp, edit>>,
         \/ UNCHANGED <<base, baseAt>> /\ Reading(Job)
         \/ /\ base' = [base EXCEPT ![Job] = ReadFile]
            /\ baseAt' = [baseAt EXCEPT ![Job] = version]
  PROVE  StandInv'
<1>1. /\ pc'[Job] = next /\ \A v \in Writers : v # Job => pc'[v] = pc[v]
      /\ \A v \in Writers : v # Job => base'[v] = base[v] /\ baseAt'[v] = baseAt[v]
  BY WriterKinds DEF TypeInv, TypeOK
<1>2. ASSUME NEW v \in Writers, v # Job PROVE HoldsRead(v)'
  <2>1. HoldsRead(v) /\ (Reading(v)' => Reading(v))
    BY <1>1, <1>2 DEF StandInv, ReadersAgree, Reading
  <2> QED
    BY <1>1, <1>2, <2>1, ReaderFrame
<1>3. HoldsRead(Job)'
  <2>1. CASE UNCHANGED <<base, baseAt>> /\ Reading(Job)
    <3>1. HoldsRead(Job)
      BY WriterKinds DEF StandInv, ReadersAgree
    <3> QED
      BY <2>1, <3>1, ReaderFrame, WriterKinds
  <2>2. CASE /\ base' = [base EXCEPT ![Job] = ReadFile]
             /\ baseAt' = [baseAt EXCEPT ![Job] = version]
    <3>1. base'[Job] = ReadFile /\ baseAt'[Job] = version
      BY <2>2, WriterKinds DEF TypeInv, TypeOK
    <3> QED
      BY <3>1, FreshReader, WriterKinds
  <2> QED
    BY <2>1, <2>2
<1>4. ReadersAgree'
  BY <1>2, <1>3 DEF ReadersAgree
<1>5. TempsReady'
  <2>1. next # "replace"
    BY DEF Stages
  <2> QED
    BY <1>1, <2>1, WriterKinds DEF StandInv, TempsReady
<1> QED
  BY <1>4, <1>5, StandFrame

LEMMA StandsKeep ==
  TypeInv /\ SelectInv /\ StandInv /\ [Next]_vars => StandInv'
<1> SUFFICES ASSUME TypeInv, SelectInv, StandInv, [Next]_vars PROVE StandInv'
  OBVIOUS
<1>1. ASSUME NEW t \in Threads, EditStep(t) PROVE StandInv'
  BY <1>1, EditStands
<1>2. CASE StartRefresh
  <2> DEFINE next == IF connected THEN "discover" ELSE "inject"
  <2>1. /\ pc' = [pc EXCEPT ![Job] = next] /\ UNCHANGED <<store, temp, edit>>
        /\ base' = [base EXCEPT ![Job] = ReadFile]
        /\ baseAt' = [baseAt EXCEPT ![Job] = version]
    BY <1>2, Zenon DEF StartRefresh
  <2>2. next \in Stages \cup {"write"}
    BY DEF Stages
  <2> HIDE DEF next
  <2> QED
    BY <2>1, <2>2, StageStands
<1>3. CASE Discover \/ Enrich \/ SelectStocks \/ SelectCoins \/ GiveUp \/ InjectEtfs
  <2>1. /\ pc[Job] \in Stages /\ UNCHANGED <<store, temp, base, baseAt, edit>>
        /\ \E next \in Stages \cup {"write"} : pc' = [pc EXCEPT ![Job] = next]
    <3>1. {"discover", "enrich", "stock", "crypto", "inject"} = Stages
      BY DEF Stages
    <3>2. CASE Discover
      BY <3>1, <3>2, Zenon DEF Discover
    <3>3. CASE Enrich
      BY <3>1, <3>3, Zenon DEF Enrich
    <3>4. CASE SelectStocks
      BY <3>1, <3>4, Zenon DEF SelectStocks, Select
    <3>5. CASE SelectCoins
      BY <3>1, <3>5, Zenon DEF SelectCoins, Select
    <3>6. CASE GiveUp
      BY <3>1, <3>6, Zenon DEF GiveUp
    <3>7. CASE InjectEtfs
      BY <3>1, <3>7, Zenon DEF InjectEtfs
    <3> QED
      BY <1>3, <3>2, <3>3, <3>4, <3>5, <3>6, <3>7
  <2>2. Reading(Job)
    BY <2>1 DEF Reading, Stages
  <2> QED
    BY <2>1, <2>2, StageStands
<1>4. CASE WriteRefresh
  BY <1>4, WriteTempStands, WriterKinds DEF WriteRefresh
<1>5. CASE ReplaceByRefresh
  BY <1>5, RefreshStands
<1>6. CASE Restart
  <2>1. pc' = [w \in Writers |-> "idle"] /\ UNCHANGED store
    BY <1>6, Zenon DEF Restart
  <2>2. \A w \in Writers : pc'[w] = "idle"
    BY <2>1
  <2>3. ReadersAgree' /\ TempsReady'
    BY <2>2, WriterKinds DEF ReadersAgree, HoldsRead, Reading, TempsReady
  <2> QED
    BY <2>1, <2>3, StandFrame
<1>7. CASE UNCHANGED vars
  <2>1. UNCHANGED <<store, temp, pc, base, baseAt, edit, refresh, started, connected>>
    BY <1>7, Zenon DEF vars
  <2>2. ReadersAgree'
    BY <2>1 DEF StandInv, ReadersAgree, HoldsRead, Reading, store, ReadFile
  <2>3. TempsReady'
    BY <2>1 DEF StandInv, TempsReady, refresh
  <2> QED
    BY <2>1, <2>2, <2>3, StandFrame
<1> QED
  BY <1>1, <1>2, <1>3, <1>4, <1>5, <1>6, <1>7 DEF Next, RefreshStep

LEMMA StandInvariant == Spec => [](TypeInv /\ SelectInv /\ StandInv)
<1>1. Init => TypeInv /\ SelectInv /\ StandInv
  BY TypeInit, SelectInit, StandInit
<1>2. TypeInv /\ SelectInv /\ StandInv /\ [Next]_vars => (TypeInv /\ SelectInv /\ StandInv)'
  BY RefreshKeeps, StandsKeep
<1> QED
  BY <1>1, <1>2, PTL DEF Spec

\* An answered edit stays in effect in the file until something supersedes it, however
\* requests, the refresh and restarts overlap.
THEOREM EditsStand == Spec => []StandingEdits
<1>1. StandInv => StandingEdits
  BY DEF StandInv
<1> QED
  BY <1>1, StandInvariant, PTL

\* Only the refresh itself ends its publication by changing the file, and what it
\* publishes is a selection: it never empties a category that was filled.
LEMMA PublicationFills ==
  ASSUME TypeInv, SelectInv, StandInv, [Next]_vars, NEW c \in Categories,
         pc[Job] = "replace", pc'[Job] = "idle", file' # file, Required[c] > 0,
         connected, base[Job][c] # <<>>
  PROVE  file'[c] # <<>>
<1>1. ReplaceByRefresh
  <2>1. ~UNCHANGED store
    BY DEF store
  <2>2. ASSUME NEW t \in Threads, EditStep(t) PROVE FALSE
    BY <2>2, EditFrame
  <2>3. ~(StartRefresh \/ Discover \/ Enrich \/ SelectStocks \/ SelectCoins \/ InjectEtfs)
    BY DEF StartRefresh, Discover, Enrich, SelectStocks, SelectCoins, Select, InjectEtfs
  <2>4. ~GiveUp
    BY DEF GiveUp, Stages
  <2>5. ~WriteRefresh
    BY DEF WriteRefresh
  <2>6. ~Restart
    BY <2>1, Zenon DEF Restart
  <2>7. ~UNCHANGED vars
    BY DEF vars, store
  <2> QED
    BY <2>2, <2>3, <2>4, <2>5, <2>6, <2>7 DEF Next, RefreshStep
<1>2. file' = got
  BY <1>1 DEF ReplaceByRefresh, ReplaceFile, StandInv, TempsReady
<1>3. Choice(c)
  BY DEF SelectInv, ChoicesSound, Chosen
<1> QED
  BY <1>2, <1>3 DEF Choice

\* While there is a broker, a refresh never publishes an empty category where it read a
\* filled one, although discovery may answer nothing and any request may fail.
THEOREM CategoriesSurvive == Spec => NeverWiped
<1>1. TypeInv /\ SelectInv /\ StandInv /\ [Next]_vars =>
        [\A c \in Categories :
           connected /\ pc[Job] = "replace" /\ pc'[Job] = "idle" /\ file' # file
               /\ Required[c] > 0
             => (base[Job][c] # <<>> => file'[c] # <<>>)]_vars
  BY PublicationFills
<1> QED
  BY <1>1, StandInvariant, PTL DEF Spec, NeverWiped
=============================================================================
