--------------------------- MODULE DeliveryProofs ---------------------------
(* Theorems about Delivery, for any users, chats, paths and limits.          *)
EXTENDS Delivery, FiniteSetTheorems, WellFoundedInduction, TLAPS

-----------------------------------------------------------------------------
(* Sequences filtered                                                        *)

\* A set of natural numbers that is not empty has a least element.
LEMMA LeastNumber ==
    ASSUME NEW S \in SUBSET Nat, S # {}
    PROVE  Min(S) \in S /\ \A y \in S : Min(S) <= y
<1> DEFINE R == OpToRel(<, Nat)
<1>1. IsWellFoundedOn(R, Nat)
  BY NatLessThanWellFounded
<1>2. \A x, y \in Nat : y < x => <<y, x>> \in R
  BY SMT DEF OpToRel
<1> HIDE DEF R
<1>3. PICK x \in S : \A y \in S : ~(<<y, x>> \in R)
  BY <1>1, WFMin
<1>4. \A y \in S : ~(y < x)
  BY <1>2, <1>3
<1>5. \A y \in S : x <= y
  BY <1>4
<1> QED BY <1>3, <1>5 DEF Min

\* f is what Only makes of the first 0, 1, ..., m elements of s.
Filters(f, s, S, m) ==
    f = [i \in 0 .. m |-> IF i = 0 THEN <<>>
                          ELSE IF s[i] \in S THEN Append(f[i - 1], s[i]) ELSE f[i - 1]]

LEMMA FilterExtends ==
    ASSUME NEW s, NEW S, NEW m \in Nat, NEW f, Filters(f, s, S, m)
    PROVE  \E g : Filters(g, s, S, m + 1)
<1> DEFINE next == IF s[m + 1] \in S THEN Append(f[m], s[m + 1]) ELSE f[m]
           g == [i \in 0 .. m + 1 |-> IF i = m + 1 THEN next ELSE f[i]]
<1>1. \A i \in 0 .. m : g[i] = f[i]
  OBVIOUS
<1>2. g[m + 1] = next /\ g[m] = f[m]
  OBVIOUS
<1>3. \A i \in 0 .. m : f[i] = IF i = 0 THEN <<>>
                               ELSE IF s[i] \in S THEN Append(f[i - 1], s[i]) ELSE f[i - 1]
  BY DEF Filters
<1>4. DOMAIN g = 0 .. m + 1 /\ g = [i \in DOMAIN g |-> g[i]]
  OBVIOUS
<1>5. ASSUME NEW i \in 0 .. m + 1
      PROVE  g[i] = IF i = 0 THEN <<>>
                    ELSE IF s[i] \in S THEN Append(g[i - 1], s[i]) ELSE g[i - 1]
  <2>1. CASE i = m + 1
    <3>1. i # 0 /\ i - 1 = m
      BY <2>1
    <3> HIDE DEF g
    <3> QED BY <1>2, <2>1, <3>1
  <2>2. CASE i = 0
    <3> HIDE DEF g
    <3> QED BY <1>1, <1>3, <2>2
  <2>3. CASE i \in 1 .. m
    <3>1. i - 1 \in 0 .. m /\ i # 0 /\ i \in 0 .. m
      BY <2>3
    <3> HIDE DEF g
    <3> QED BY <1>1, <1>3, <3>1
  <2> QED BY <2>1, <2>2, <2>3
<1> HIDE DEF g
<1> QED BY <1>4, <1>5 DEF Filters

LEMMA FilterExists ==
    ASSUME NEW s, NEW S, NEW n \in Nat
    PROVE  \E f : Filters(f, s, S, n)
<1> DEFINE bad == {m \in Nat : ~\E f : Filters(f, s, S, m)}
<1>1. ASSUME bad # {} PROVE FALSE
  <2>1. PICK m \in bad : \A k \in bad : m <= k
    BY <1>1, LeastNumber
  <2>2. m # 0
    <3> DEFINE f == [i \in 0 .. 0 |-> <<>>]
    <3>1. Filters(f, s, S, 0)
      BY DEF Filters
    <3> HIDE DEF f
    <3> QED BY <2>1, <3>1
  <2>3. m - 1 \in Nat /\ m - 1 \notin bad
    BY <2>1, <2>2
  <2>4. PICK f : Filters(f, s, S, m - 1)
    BY <2>3
  <2>5. \E g : Filters(g, s, S, (m - 1) + 1)
    BY <2>3, <2>4, FilterExtends
  <2> QED BY <2>1, <2>2, <2>5
<1> QED BY <1>1

\* r is a subsequence of s: the place at[i] in s is the place of r[i].
Embeds(r, s, at) ==
    /\ at \in [1 .. Len(r) -> 1 .. Len(s)]
    /\ \A i, j \in 1 .. Len(r) : i < j => at[i] < at[j]
    /\ \A i \in 1 .. Len(r) : r[i] = s[at[i]]

\* What a filter of the first m elements of s has.
Kept(r, s, S, m) ==
    /\ r \in Seq(Nat) /\ Len(r) <= m
    /\ \A i \in 1 .. Len(r) : r[i] \in S
    /\ \A k \in 1 .. m : s[k] \in S => \E i \in 1 .. Len(r) : r[i] = s[k]
    /\ \E at : /\ Embeds(r, s, at)
               /\ \A i \in 1 .. Len(r) : at[i] <= m

LEMMA KeptNext ==
    ASSUME NEW s \in Seq(Nat), NEW S, NEW m \in 1 .. Len(s), NEW p, Kept(p, s, S, m - 1),
           NEW r, r = IF s[m] \in S THEN Append(p, s[m]) ELSE p
    PROVE  Kept(r, s, S, m)
<1>1. CASE s[m] \notin S
  <2>1. r = p
    BY <1>1
  <2>2. \A k \in 1 .. m : s[k] \in S => k \in 1 .. m - 1
    BY <1>1
  <2>3. PICK at : Embeds(p, s, at) /\ \A i \in 1 .. Len(p) : at[i] <= m - 1
    BY DEF Kept
  <2>4. \A i \in 1 .. Len(p) : at[i] <= m
    <3> SUFFICES ASSUME NEW i \in 1 .. Len(p) PROVE at[i] <= m
      OBVIOUS
    <3>1. at[i] \in 1 .. Len(s) /\ at[i] <= m - 1
      BY <2>3 DEF Embeds
    <3> QED BY <3>1
  <2>5. p \in Seq(Nat) /\ Len(p) <= m
    BY DEF Kept
  <2> QED BY <2>1, <2>2, <2>3, <2>4, <2>5 DEF Kept
<1>2. CASE s[m] \in S
  <2>1. r = Append(p, s[m]) /\ p \in Seq(Nat) /\ s[m] \in Nat
    BY <1>2 DEF Kept
  <2>2. /\ r \in Seq(Nat) /\ Len(r) = Len(p) + 1 /\ r[Len(r)] = s[m]
        /\ \A i \in 1 .. Len(p) : r[i] = p[i]
    BY <2>1
  <2>3. PICK at : Embeds(p, s, at) /\ \A i \in 1 .. Len(p) : at[i] <= m - 1
    BY DEF Kept
  <2> DEFINE put == [i \in 1 .. Len(r) |-> IF i = Len(r) THEN m ELSE at[i]]
  <2>4. \A i \in 1 .. Len(p) : put[i] = at[i]
    BY <2>2
  <2>5. put[Len(r)] = m
    BY <2>2
  <2>6. put \in [1 .. Len(r) -> 1 .. Len(s)]
    BY <2>2, <2>3 DEF Embeds
  <2> HIDE DEF put
  <2>7. \A i \in 1 .. Len(r) : i \in 1 .. Len(p) \/ i = Len(r)
    BY <2>2
  <2>8. \A i, j \in 1 .. Len(r) : i < j => put[i] < put[j]
    <3> SUFFICES ASSUME NEW i \in 1 .. Len(r), NEW j \in 1 .. Len(r), i < j
                 PROVE  put[i] < put[j]
      OBVIOUS
    <3>1. i \in 1 .. Len(p)
      BY <2>2
    <3>2. CASE j \in 1 .. Len(p)
      BY <2>3, <2>4, <3>1, <3>2 DEF Embeds
    <3>3. CASE j = Len(r)
      <4>1. at[i] \in 1 .. Len(s) /\ at[i] <= m - 1
        BY <2>3, <3>1 DEF Embeds
      <4> QED BY <2>4, <2>5, <3>1, <3>3, <4>1
    <3> QED BY <2>7, <3>2, <3>3
  <2>9. \A i \in 1 .. Len(r) : r[i] = s[put[i]]
    BY <2>2, <2>3, <2>4, <2>5, <2>7 DEF Embeds
  <2>10. Embeds(r, s, put)
    BY <2>6, <2>8, <2>9 DEF Embeds
  <2>11. \A i \in 1 .. Len(r) : put[i] <= m
    <3>1. ASSUME NEW i \in 1 .. Len(p) PROVE put[i] <= m
      <4>1. at[i] \in 1 .. Len(s) /\ at[i] <= m - 1
        BY <2>3 DEF Embeds
      <4> QED BY <2>4, <4>1
    <3> QED BY <2>5, <2>7, <3>1
  <2>12. \A i \in 1 .. Len(r) : r[i] \in S
    <3>1. \A i \in 1 .. Len(p) : p[i] \in S
      BY DEF Kept
    <3> QED BY <1>2, <2>2, <2>7, <3>1
  <2>13. ASSUME NEW k \in 1 .. m, s[k] \in S PROVE \E i \in 1 .. Len(r) : r[i] = s[k]
    <3>1. CASE k = m
      <4>1. Len(r) \in 1 .. Len(r) /\ r[Len(r)] = s[k]
        BY <2>1, <2>2, <3>1
      <4> QED BY <4>1
    <3>2. CASE k # m
      <4>1. k \in 1 .. m - 1
        BY <3>2
      <4>2. PICK i \in 1 .. Len(p) : p[i] = s[k]
        BY <2>13, <4>1 DEF Kept
      <4> QED BY <2>2, <4>2
    <3> QED BY <3>1, <3>2
  <2>14. Len(r) <= m
    BY <2>2 DEF Kept
  <2> QED BY <2>2, <2>10, <2>11, <2>12, <2>13, <2>14 DEF Kept
<1> QED BY <1>1, <1>2

LEMMA FilterKeeps ==
    ASSUME NEW s \in Seq(Nat), NEW S, NEW f, Filters(f, s, S, Len(s))
    PROVE  Kept(f[Len(s)], s, S, Len(s))
<1> DEFINE bad == {m \in 0 .. Len(s) : ~Kept(f[m], s, S, m)}
<1>1. ASSUME bad # {} PROVE FALSE
  <2>1. bad \in SUBSET Nat
    OBVIOUS
  <2>2. PICK m \in bad : \A k \in bad : m <= k
    BY <1>1, <2>1, LeastNumber
  <2>3. m # 0
    <3>1. f[0] = <<>>
      BY DEF Filters
    <3>2. Embeds(<<>>, s, <<>>)
      BY DEF Embeds
    <3>3. Kept(<<>>, s, S, 0)
      BY <3>2 DEF Kept
    <3> QED BY <2>2, <3>1, <3>3
  <2>4. m \in 1 .. Len(s) /\ Kept(f[m - 1], s, S, m - 1)
    BY <2>2, <2>3
  <2>5. f[m] = IF s[m] \in S THEN Append(f[m - 1], s[m]) ELSE f[m - 1]
    <3>1. m \in 0 .. Len(s) /\ m # 0
      BY <2>4
    <3> QED BY <3>1 DEF Filters
  <2>6. Kept(f[m], s, S, m)
    BY <2>4, <2>5, KeptNext
  <2> QED BY <2>2, <2>6
<1> QED BY <1>1

\* Only keeps, in their order, the elements in S and no other.
LEMMA OnlyKeeps ==
    ASSUME NEW s \in Seq(Nat), NEW S
    PROVE  /\ Only(s, S) \in Seq(Nat) /\ Len(Only(s, S)) <= Len(s)
           /\ ToSet(Only(s, S)) = ToSet(s) \cap S
           /\ \E at : Embeds(Only(s, S), s, at)
<1> DEFINE kept == CHOOSE f : Filters(f, s, S, Len(s))
           r == Only(s, S)
<1>1. r = kept[Len(s)]
  BY DEF Only, Filters
<1>2. Len(s) \in Nat
  OBVIOUS
<1>3. Filters(kept, s, S, Len(s))
  BY <1>2, FilterExists
<1> HIDE DEF kept
<1>4. Kept(r, s, S, Len(s))
  BY <1>1, <1>3, FilterKeeps
<1> HIDE DEF r
<1>5. ToSet(r) \subseteq ToSet(s) \cap S
  <2>1. PICK at : Embeds(r, s, at)
    BY <1>4 DEF Kept
  <2>2. ASSUME NEW i \in 1 .. Len(r) PROVE r[i] \in ToSet(s) /\ r[i] \in S
    <3>1. at[i] \in 1 .. Len(s) /\ r[i] = s[at[i]]
      BY <2>1 DEF Embeds
    <3>2. r[i] \in S
      BY <1>4 DEF Kept
    <3>3. at[i] \in DOMAIN s
      BY <3>1
    <3> QED BY <3>1, <3>2, <3>3 DEF ToSet
  <2>3. r \in Seq(Nat)
    BY <1>4 DEF Kept
  <2> QED BY <2>2, <2>3 DEF ToSet
<1>6. ToSet(s) \cap S \subseteq ToSet(r)
  BY <1>4 DEF Kept, ToSet
<1>7. r = Only(s, S)
  BY DEF r
<1> QED BY <1>4, <1>5, <1>6, <1>7 DEF Kept

-----------------------------------------------------------------------------
(* A chat's receipts, and the answers since                                  *)

\* order has an event's later answers; s is the chat's receipts.
Ordered(order) == \A n \in DOMAIN order : order[n] \subseteq Nat /\ IsFiniteSet(order[n])

\* The receipts are of different events, and one of an event in order stands
\* before those of its later answers only.
Lined(s, order) ==
    /\ s \in Seq(Nat) /\ Len(s) <= MaxPerChat
    /\ \A i, j \in 1 .. Len(s) : s[i] = s[j] => i = j
    /\ \A i, j \in 1 .. Len(s) : i < j /\ s[i] \in DOMAIN order => s[j] \in order[s[i]]

Pushed(order, n) == Cardinality(order[n]) >= MaxPerChat

LEMMA OnlyLined ==
    ASSUME NEW s, NEW order, Lined(s, order), NEW S, NEW r, r = Only(s, S)
    PROVE  Lined(r, order) /\ ToSet(r) = ToSet(s) \cap S
<1>1. /\ r \in Seq(Nat) /\ Len(r) <= Len(s) /\ ToSet(r) = ToSet(s) \cap S
      /\ \E at : Embeds(r, s, at)
  BY OnlyKeeps DEF Lined
<1>2. PICK at : Embeds(r, s, at)
  BY <1>1
<1>3. \A i \in 1 .. Len(r) : at[i] \in 1 .. Len(s) /\ r[i] = s[at[i]]
  BY <1>2 DEF Embeds
<1>4. \A i, j \in 1 .. Len(r) : i < j => at[i] < at[j]
  BY <1>2 DEF Embeds
<1>5. Len(r) <= MaxPerChat
  <2>1. Len(r) <= Len(s) /\ Len(s) <= MaxPerChat /\ Len(r) \in Nat /\ Len(s) \in Nat /\ MaxPerChat \in Nat
    BY <1>1, DeliveryAssumption DEF Lined
  <2> QED BY <2>1
<1>6. ASSUME NEW i \in 1 .. Len(r), NEW j \in 1 .. Len(r), r[i] = r[j] PROVE i = j
  <2>1. at[i] = at[j]
    <3>1. /\ at[i] \in 1 .. Len(s) /\ at[j] \in 1 .. Len(s)
          /\ s[at[i]] = s[at[j]]
      BY <1>3, <1>6
    <3> QED BY <3>1 DEF Lined
  <2>2. ~(i < j) /\ ~(j < i)
    BY <1>3, <1>4, <2>1
  <2> QED BY <2>2
<1>7. ASSUME NEW i \in 1 .. Len(r), NEW j \in 1 .. Len(r), i < j, r[i] \in DOMAIN order
      PROVE  r[j] \in order[r[i]]
  <2>1. at[i] \in 1 .. Len(s) /\ at[j] \in 1 .. Len(s) /\ r[i] = s[at[i]] /\ r[j] = s[at[j]]
    BY <1>3
  <2>2. at[i] < at[j]
    BY <1>4, <1>7
  <2> QED BY <1>7, <2>1, <2>2 DEF Lined
<1> QED BY <1>1, <1>5, <1>6, <1>7 DEF Lined

\* less is order without some events.
Restricts(less, order) == DOMAIN less \subseteq DOMAIN order /\ \A n \in DOMAIN less : less[n] = order[n]

LEMMA FewerLined ==
    ASSUME NEW s, NEW order, Lined(s, order), Ordered(order), NEW less, Restricts(less, order)
    PROVE  Lined(s, less) /\ Ordered(less)
BY DEF Lined, Ordered, Restricts

LEMMA AfterOrdered ==
    ASSUME NEW order, Ordered(order), NEW n \in Nat
    PROVE  Ordered(After(order, n))
<1> SUFFICES ASSUME NEW m \in DOMAIN After(order, n)
             PROVE  After(order, n)[m] \subseteq Nat /\ IsFiniteSet(After(order, n)[m])
  BY DEF Ordered
<1>1. CASE m = n
  BY <1>1, FS_EmptySet DEF After
<1>2. CASE m # n
  <2>1. m \in DOMAIN order /\ After(order, n)[m] = order[m] \cup {n}
    BY <1>2 DEF After
  <2>2. IsFiniteSet(order[m]) /\ order[m] \subseteq Nat
    BY <2>1 DEF Ordered
  <2> QED BY <2>1, <2>2, FS_AddElement
<1> QED BY <1>1, <1>2

LEMMA AfterPushed ==
    ASSUME NEW order, Ordered(order), NEW n \in Nat, NEW m \in DOMAIN order, m # n, Pushed(order, m)
    PROVE  Pushed(After(order, n), m)
<1>1. After(order, n)[m] = order[m] \cup {n}
  BY DEF After
<1>2. IsFiniteSet(order[m] \cup {n}) /\ Cardinality(order[m]) \in Nat /\ Cardinality(order[m] \cup {n}) \in Nat
  BY FS_AddElement, FS_CardinalityType DEF Ordered
<1>3. Cardinality(order[m]) <= Cardinality(order[m] \cup {n})
  BY <1>2, FS_Subset
<1> QED BY <1>1, <1>2, <1>3, DeliveryAssumption DEF Pushed

\* A sequence of different elements of a finite set is no longer than it.
LEMMA NoLonger ==
    ASSUME NEW t \in Seq(Nat), NEW T, IsFiniteSet(T), \A i \in 1 .. Len(t) : t[i] \in T,
           \A i, j \in 1 .. Len(t) : t[i] = t[j] => i = j
    PROVE  Len(t) <= Cardinality(T)
<1>1. t \in [1 .. Len(t) -> T]
  OBVIOUS
<1>2. t \in Injection(1 .. Len(t), T)
  BY <1>1 DEF Injection, IsInjective
<1>3. Cardinality(1 .. Len(t)) <= Cardinality(T)
  BY <1>2, FS_Injection
<1>4. Cardinality(1 .. Len(t)) = Len(t)
  <2>1. 1 \in Int /\ Len(t) \in Int /\ Len(t) >= 0
    OBVIOUS
  <2>2. Cardinality(1 .. Len(t)) = IF 1 > Len(t) THEN 0 ELSE Len(t) - 1 + 1
    BY <2>1, FS_Interval
  <2> QED BY <2>1, <2>2
<1> QED BY <1>3, <1>4

\* The receipts s and one for n, which had none: the oldest goes when they are full.
Remembered(s, n) == IF Len(Append(s, n)) > MaxPerChat THEN Tail(Append(s, n)) ELSE Append(s, n)

LEMMA RememberLined ==
    ASSUME NEW s, NEW order, Lined(s, order), Ordered(order), NEW n \in Nat, n \notin ToSet(s),
           NEW r, r = Remembered(s, n)
    PROVE  /\ Lined(r, After(order, n))
           /\ ToSet(r) \subseteq ToSet(s) \cup {n} /\ n \in ToSet(r)
           /\ \A m \in DOMAIN order \cap ToSet(s) : m \in ToSet(r) \/ Pushed(After(order, n), m)
<1> DEFINE all == Append(s, n)
           new == After(order, n)
<1>1. /\ all \in Seq(Nat) /\ Len(all) = Len(s) + 1 /\ all[Len(all)] = n
      /\ \A i \in 1 .. Len(s) : all[i] = s[i]
  BY DEF Lined
<1>2. \A i \in 1 .. Len(all) : i \in 1 .. Len(s) \/ i = Len(all)
  BY <1>1 DEF Lined
<1>3. \A i \in 1 .. Len(s) : s[i] # n
  BY DEF ToSet, Lined
<1>4. \A i, j \in 1 .. Len(all) : all[i] = all[j] => i = j
  BY <1>1, <1>2, <1>3 DEF Lined
<1>5. ASSUME NEW i \in 1 .. Len(all), NEW j \in 1 .. Len(all), i < j, all[i] \in DOMAIN new
      PROVE  all[j] \in new[all[i]]
  <2>1. i \in 1 .. Len(s) /\ all[i] = s[i] /\ s[i] # n
    BY <1>1, <1>2, <1>3, <1>5 DEF Lined
  <2>2. s[i] \in DOMAIN order /\ new[s[i]] = order[s[i]] \cup {n}
    BY <1>5, <2>1 DEF After
  <2>3. CASE j = Len(all)
    BY <1>1, <2>1, <2>2, <2>3
  <2>4. CASE j \in 1 .. Len(s)
    BY <1>1, <1>5, <2>1, <2>2, <2>4 DEF Lined
  <2> QED BY <1>2, <2>3, <2>4
<1>6. ToSet(all) = ToSet(s) \cup {n}
  <2>1. ToSet(all) = {all[i] : i \in 1 .. Len(all)} /\ ToSet(s) = {s[i] : i \in 1 .. Len(s)}
    <3>1. DOMAIN all = 1 .. Len(all) /\ DOMAIN s = 1 .. Len(s)
      BY <1>1 DEF Lined
    <3> HIDE DEF all
    <3> QED BY <3>1 DEF ToSet
  <2> HIDE DEF all
  <2>2. ToSet(s) \subseteq ToSet(all)
    BY <1>1, <2>1 DEF Lined
  <2>3. n \in ToSet(all)
    BY <1>1, <2>1 DEF Lined
  <2>4. ToSet(all) \subseteq ToSet(s) \cup {n}
    BY <1>1, <1>2, <2>1
  <2> QED BY <2>2, <2>3, <2>4
<1>7. r = IF Len(all) > MaxPerChat THEN Tail(all) ELSE all
  BY DEF Remembered
<1> HIDE DEF all, new
<1>8. CASE Len(all) <= MaxPerChat
  <2>1. r = all
    BY <1>1, <1>7, <1>8, DeliveryAssumption
  <2>2. Lined(r, new)
    BY <1>1, <1>4, <1>5, <1>8, <2>1 DEF Lined
  <2> QED BY <1>6, <2>1, <2>2 DEF new
<1>9. CASE Len(all) > MaxPerChat
  <2>1. r = Tail(all) /\ Len(s) = MaxPerChat
    BY <1>1, <1>7, <1>9, DeliveryAssumption DEF Lined
  <2>2. /\ r \in Seq(Nat) /\ Len(r) = Len(s) /\ Len(r) = MaxPerChat
        /\ \A i \in 1 .. Len(r) : r[i] = all[i + 1] /\ i + 1 \in 1 .. Len(all)
    BY <1>1, <2>1 DEF Lined
  <2>3. ASSUME NEW i \in 1 .. Len(r), NEW j \in 1 .. Len(r), r[i] = r[j] PROVE i = j
    <3>1. all[i + 1] = all[j + 1] /\ i + 1 \in 1 .. Len(all) /\ j + 1 \in 1 .. Len(all)
      BY <2>2, <2>3
    <3>2. i + 1 = j + 1
      BY <1>4, <3>1
    <3> QED BY <3>2
  <2>4. ASSUME NEW i \in 1 .. Len(r), NEW j \in 1 .. Len(r), i < j, r[i] \in DOMAIN new
        PROVE  r[j] \in new[r[i]]
    <3>1. /\ i + 1 \in 1 .. Len(all) /\ j + 1 \in 1 .. Len(all)
          /\ r[i] = all[i + 1] /\ r[j] = all[j + 1]
      BY <2>2
    <3>2. i + 1 < j + 1
      BY <2>4
    <3> QED BY <1>5, <2>4, <3>1, <3>2
  <2>5. Lined(r, new)
    BY <2>2, <2>3, <2>4, DeliveryAssumption DEF Lined
  <2>6. \A k \in 1 .. Len(all) : k = 1 \/ (k - 1 \in 1 .. Len(r) /\ r[k - 1] = all[k])
    <3> SUFFICES ASSUME NEW k \in 1 .. Len(all), k # 1
                 PROVE  k - 1 \in 1 .. Len(r) /\ r[k - 1] = all[k]
      OBVIOUS
    <3>1. k - 1 \in 1 .. Len(r)
      BY <1>1, <2>2
    <3> QED BY <2>2, <3>1
  <2>7. ToSet(r) = {r[i] : i \in 1 .. Len(r)} /\ ToSet(all) = {all[i] : i \in 1 .. Len(all)}
    <3>1. DOMAIN all = 1 .. Len(all) /\ DOMAIN r = 1 .. Len(r)
      BY <1>1, <2>2
    <3> QED BY <3>1 DEF ToSet
  <2>8. ToSet(r) \subseteq ToSet(all)
    BY <2>2, <2>7
  <2>9. n \in ToSet(r)
    <3>1. Len(all) # 1 /\ Len(all) \in 1 .. Len(all)
      BY <1>1, <1>9, DeliveryAssumption
    <3> QED BY <1>1, <2>6, <2>7, <3>1
  <2>10. ASSUME NEW m \in DOMAIN order \cap ToSet(s), m \notin ToSet(r)
         PROVE  Pushed(new, m)
    <3>1. m # n /\ m \in ToSet(all)
      BY <1>6, <2>9, <2>10
    <3>2. m = all[1]
      <4>1. PICK k \in 1 .. Len(all) : all[k] = m
        BY <2>7, <3>1
      <4>2. ASSUME k # 1 PROVE FALSE
        <5>1. k - 1 \in 1 .. Len(r) /\ r[k - 1] = m
          BY <2>6, <4>1, <4>2
        <5> QED BY <2>7, <2>10, <5>1
      <4> QED BY <4>1, <4>2
    <3>3. m \in DOMAIN new /\ Ordered(new)
      BY <3>1, AfterOrdered DEF new, After
    <3>4. \A i \in 1 .. Len(r) : r[i] \in new[m]
      BY <1>1, <1>5, <2>2, <3>2, <3>3
    <3>5. Len(r) <= Cardinality(new[m])
      BY <2>2, <2>3, <3>3, <3>4, NoLonger DEF Ordered
    <3>6. Cardinality(new[m]) \in Nat
      BY <3>3, FS_CardinalityType DEF Ordered
    <3> QED BY <2>2, <3>5, <3>6, DeliveryAssumption DEF Pushed
  <2> QED BY <1>6, <2>5, <2>8, <2>9, <2>10 DEF new
<1> QED BY <1>1, <1>8, <1>9, DeliveryAssumption

-----------------------------------------------------------------------------
(* The inductive invariant                                                   *)

Busy == {"run", "sending", "ack", "revokedSync", "blockedSync", "blockedAck"}
Path == {"none", "direct"} \cup Backup
Job == [step : Busy, receipts : Seq(Nat), closed : SUBSET Nat, messages : SUBSET Nat, via : Path]
Read == [step : {"install"}, free : SUBSET Chat, receipts : [Chat -> Seq(Nat)],
         found : [Chat -> SUBSET Nat]]

Counted ==
    /\ published \in 0 .. MaxPublished /\ aged \in 0 .. published
    /\ faults \in 0 .. MaxFaults /\ moves \in 0 .. MaxMoves

Routed == current \in Path /\ bound \in Path /\ (cycle.step = "set" => cycle.next \in Path)

Typed ==
    /\ answered \in [Chat -> SUBSET (1 .. published)]
    /\ confirmed \in [Chat -> SUBSET Nat]
    /\ sent \in [Chat -> Seq(Nat)] /\ DOMAIN since = Chat
    /\ job \in [Chat -> Job \cup {NoJob}]
    /\ poll.step = "install" => poll \in Read

\* What watchd holds, in memory or in its file: events that were published, the
\* waiting ones unacknowledged; every acknowledgement it answered OK for, and
\* none of what Telegram did not answer for.
Sound(m, pub, an, co) ==
    /\ DOMAIN m = {"listed", "recent", "queue", "closed"}
    /\ m.recent \subseteq 1 .. pub
    /\ m.queue \in [Chat -> SUBSET (1 .. pub)] /\ m.closed \in [Chat -> SUBSET Nat]
    /\ \A c \in Chat : /\ m.queue[c] \cap m.closed[c] = {}
                      /\ co[c] \subseteq m.closed[c] /\ m.closed[c] \subseteq an[c]

Stores == Sound(store, published, answered, confirmed) /\ Sound(disk, published, answered, confirmed)

\* What a chat was answered for: receipts and acknowledgements are of that only.
Answers(s, order, an, co) ==
    /\ co \subseteq an /\ ToSet(s) \subseteq an /\ DOMAIN order \subseteq an
    /\ Ordered(order) /\ Lined(s, order)

\* An event answered for has its receipt, or watchd its acknowledgement, unless
\* the receipt was pushed out; and the chat may have it but for its age.
Receipted(s, order, co, ag) ==
    \A n \in DOMAIN order : n > ag => n \in ToSet(s) \/ n \in co \/ Pushed(order, n)

Listed(order, list, c) == \A n \in DOMAIN order : Lists(list, c, n)

\* A worker with the receipts rs before it and cl behind it does not send m again.
Covered(m, rs, cl, s, order, ag) ==
    /\ m \in ToSet(s) => m \in cl \cup ToSet(rs)
    /\ m \in DOMAIN order /\ m > ag => m \in cl \cup ToSet(rs) \/ Pushed(order, m)

Undone(j) == IF j.step = "ack" THEN j.messages \ {Min(j.messages)} ELSE j.messages

Working(j, s, order, an, ag, pub) ==
    j.step # "none" =>
        /\ j.messages \subseteq 1 .. pub /\ ToSet(j.receipts) \subseteq an
        /\ j.step # "run" => j.receipts = <<>> /\ j.messages # {}
        /\ j.step \in {"ack", "blockedSync", "blockedAck"} => Min(j.messages) \in an
        /\ j.step \in {"run", "sending", "ack"} =>
              \A m \in Undone(j) : Covered(m, j.receipts, j.closed, s, order, ag)
        /\ j.step = "sending" => /\ Min(j.messages) \notin j.closed
                                 /\ Min(j.messages) \in DOMAIN order => Pushed(order, Min(j.messages))

\* What the poll has read for chat c, and will make a job of.
Found(p, c, j, s, order, an, ag, pub) ==
    p.step = "install" /\ c \in p.free =>
        /\ j.step = "none" /\ p.found[c] \subseteq 1 .. pub /\ ToSet(p.receipts[c]) \subseteq an
        /\ \A m \in p.found[c] : Covered(m, p.receipts[c], {}, s, order, ag)

Delivering(p, c, j, s, order, an, co, ag, pub, list) ==
    /\ Answers(s, order, an, co) /\ Receipted(s, order, co, ag) /\ Listed(order, list, c)
    /\ Working(j, s, order, an, ag, pub) /\ Found(p, c, j, s, order, an, ag, pub)

Chats ==
    \A c \in Chat : Delivering(poll, c, job[c], sent[c], since[c], answered[c], confirmed[c],
                               aged, published, ActiveRecipients)

IInv == Counted /\ Routed /\ Typed /\ Stores /\ Chats

-----------------------------------------------------------------------------
(* What a chat loses                                                         *)

LEMMA Fades ==
    ASSUME NEW m \in Nat, NEW rs, NEW cl, NEW s, NEW order, NEW ag \in Nat, Covered(m, rs, cl, s, order, ag),
           NEW s2, NEW less, NEW ag2 \in Nat,
           ToSet(s2) \subseteq ToSet(s), Restricts(less, order), ag <= ag2
    PROVE  Covered(m, rs, cl, s2, less, ag2)
BY DEF Covered, Restricts, Pushed

LEMMA ChatFades ==
    ASSUME NEW p, NEW c, NEW j \in Job \cup {NoJob}, NEW s, NEW order, NEW an, NEW an2, NEW ag \in Nat, NEW ag2 \in Nat,
           NEW pub \in Nat, NEW pub2 \in Nat,
           Working(j, s, order, an, ag, pub), Found(p, c, j, s, order, an, ag, pub),
           NEW s2, NEW less, ToSet(s2) \subseteq ToSet(s), Restricts(less, order),
           an \subseteq an2, ag <= ag2, pub <= pub2
    PROVE  Working(j, s2, less, an2, ag2, pub2) /\ Found(p, c, j, s2, less, an2, ag2, pub2)
<1>1. 1 .. pub \subseteq 1 .. pub2 /\ 1 .. pub \subseteq Nat
  OBVIOUS
<1>2. Working(j, s2, less, an2, ag2, pub2)
  <2> SUFFICES ASSUME j.step # "none" PROVE Working(j, s2, less, an2, ag2, pub2)
    BY DEF Working
  <2>1. /\ j.messages \subseteq 1 .. pub2 /\ ToSet(j.receipts) \subseteq an2
        /\ j.step # "run" => j.receipts = <<>> /\ j.messages # {}
        /\ j.step \in {"ack", "blockedSync", "blockedAck"} => Min(j.messages) \in an2
        /\ j.step = "sending" => Min(j.messages) \notin j.closed
    BY <1>1 DEF Working
  <2>2. ASSUME j.step \in {"run", "sending", "ack"}, NEW m \in Undone(j)
        PROVE  Covered(m, j.receipts, j.closed, s2, less, ag2)
    <3>1. m \in Nat
      BY <1>1, <2>2 DEF Undone, Working
    <3>2. Covered(m, j.receipts, j.closed, s, order, ag)
      BY <2>2 DEF Working
    <3> QED BY <3>1, <3>2, Fades
  <2>3. j.step = "sending" /\ Min(j.messages) \in DOMAIN less => Pushed(less, Min(j.messages))
    BY DEF Working, Restricts, Pushed
  <2> QED BY <2>1, <2>2, <2>3 DEF Working
<1>3. Found(p, c, j, s2, less, an2, ag2, pub2)
  <2> SUFFICES ASSUME p.step = "install", c \in p.free
               PROVE  Found(p, c, j, s2, less, an2, ag2, pub2)
    BY DEF Found
  <2>1. j.step = "none" /\ p.found[c] \subseteq 1 .. pub2 /\ ToSet(p.receipts[c]) \subseteq an2
    BY <1>1 DEF Found
  <2>2. ASSUME NEW m \in p.found[c] PROVE Covered(m, p.receipts[c], {}, s2, less, ag2)
    <3>1. m \in Nat
      BY <1>1 DEF Found
    <3>2. Covered(m, p.receipts[c], {}, s, order, ag)
      BY DEF Found
    <3> QED BY <3>1, <3>2, Fades
  <2> QED BY <2>1, <2>2 DEF Found
<1> QED BY <1>2, <1>3

-----------------------------------------------------------------------------
(* The first state                                                           *)

LEMMA Apart ==
    ASSUME NEW j, j \in Job \cup {NoJob}
    PROVE  /\ j.step # "none" => j \in Job
           /\ j.step = "none" => j = NoJob
BY DEF Job, NoJob, Busy

LEMMA Initially == Init => IInv
<1> SUFFICES ASSUME Init PROVE IInv
  OBVIOUS
<1> USE DEF Init
<1>1. Counted
  BY DeliveryAssumption DEF Counted
<1>2. Routed
  BY DEF Routed, Path, NoCycle
<1>3. Typed
  BY DEF Typed, NoPoll
<1>4. Stores
  <2>1. Sound(Blank, published, answered, confirmed)
    BY DEF Blank, Sound
  <2> QED BY <2>1 DEF Stores
<1>5. ASSUME NEW c \in Chat
      PROVE  Delivering(poll, c, job[c], sent[c], since[c], answered[c], confirmed[c],
                        aged, published, ActiveRecipients)
  <2> DEFINE none == [n \in {} |-> {}]
  <2>1. sent[c] = <<>> /\ since[c] = none /\ DOMAIN none = {} /\ answered[c] = {}
        /\ confirmed[c] = {} /\ job[c] = NoJob /\ poll = NoPoll
    BY <1>5
  <2> HIDE DEF none
  <2>2. ToSet(<<>>) = {} /\ Len(<<>>) = 0 /\ <<>> \in Seq(Nat)
    BY DEF ToSet
  <2>3. Answers(sent[c], since[c], answered[c], confirmed[c])
    <3>1. Lined(<<>>, none) /\ Ordered(none)
      BY <2>1, <2>2, DeliveryAssumption DEF Lined, Ordered
    <3> QED BY <2>1, <2>2, <3>1 DEF Answers
  <2>4. Receipted(sent[c], since[c], confirmed[c], aged) /\ Listed(since[c], ActiveRecipients, c)
    BY <2>1 DEF Receipted, Listed
  <2>5. Working(job[c], sent[c], since[c], answered[c], aged, published)
    BY <2>1 DEF Working, NoJob
  <2>6. Found(poll, c, job[c], sent[c], since[c], answered[c], aged, published)
    BY <2>1 DEF Found, NoPoll
  <2> QED BY <2>3, <2>4, <2>5, <2>6 DEF Delivering
<1> QED BY <1>1, <1>2, <1>3, <1>4, <1>5 DEF IInv, Chats

-----------------------------------------------------------------------------
(* The steps                                                                 *)

\* What goes of a chat's receipts is too old or acknowledged.
Accounted(s, s2, order, co, ag) ==
    \A n \in DOMAIN order : n \in ToSet(s) => n \in ToSet(s2) \/ n <= ag \/ n \in co

LEMMA RecordKeeps ==
    ASSUME NEW s, NEW order, NEW an, NEW co, NEW ag \in Nat,
           Answers(s, order, an, co), Receipted(s, order, co, ag), DOMAIN order \subseteq Nat,
           NEW s2, NEW less, NEW an2, NEW co2, NEW ag2 \in Nat,
           Lined(s2, order), ToSet(s2) \subseteq ToSet(s), Restricts(less, order), an \subseteq an2,
           ag <= ag2, co \subseteq co2, co2 \subseteq an2,
           Accounted(s, s2, less, co2, ag2)
    PROVE  Answers(s2, less, an2, co2) /\ Receipted(s2, less, co2, ag2)
<1>1. Lined(s2, less) /\ Ordered(less)
  BY FewerLined DEF Answers
<1>2. DOMAIN less \subseteq DOMAIN order
  BY DEF Restricts
<1>3. Answers(s2, less, an2, co2)
  BY <1>1, <1>2 DEF Answers
<1>4. ASSUME NEW n \in DOMAIN less, n > ag2
      PROVE  n \in ToSet(s2) \/ n \in co2 \/ Pushed(less, n)
  <2>1. n \in Nat /\ n > ag /\ ~(n <= ag2) /\ n \in DOMAIN order
    BY <1>2, <1>4
  <2>2. CASE n \in ToSet(s)
    BY <1>4, <2>1, <2>2 DEF Accounted
  <2>3. CASE n \in co
    BY <2>3
  <2>4. CASE Pushed(order, n)
    BY <2>4 DEF Pushed, Restricts
  <2> QED BY <2>1, <2>2, <2>3, <2>4 DEF Receipted
<1> QED BY <1>3, <1>4 DEF Receipted

LEMMA SameRecipients ==
    ASSUME users' = users
    PROVE  ActiveRecipients' = ActiveRecipients
BY DEF ActiveRecipients, RecipientsOf

LEMMA NewRecipients == ActiveRecipients' = RecipientsOf(users')
BY DEF ActiveRecipients, RecipientsOf

\* The invariant of one chat, spelled out.
LEMMA OfChat ==
    ASSUME IInv, NEW c \in Chat
    PROVE  /\ Answers(sent[c], since[c], answered[c], confirmed[c])
           /\ Receipted(sent[c], since[c], confirmed[c], aged)
           /\ Listed(since[c], ActiveRecipients, c)
           /\ Working(job[c], sent[c], since[c], answered[c], aged, published)
           /\ Found(poll, c, job[c], sent[c], since[c], answered[c], aged, published)
           /\ aged \in Nat /\ published \in Nat /\ aged <= published
           /\ answered[c] \subseteq 1 .. published /\ DOMAIN since[c] \subseteq Nat
           /\ job[c] \in Job \cup {NoJob} /\ sent[c] \in Seq(Nat)
<1>1. Delivering(poll, c, job[c], sent[c], since[c], answered[c], confirmed[c],
                 aged, published, ActiveRecipients)
  BY DEF IInv, Chats
<1>2. aged \in Nat /\ published \in Nat /\ aged <= published
  BY DeliveryAssumption DEF IInv, Counted
<1>3. /\ answered[c] \subseteq 1 .. published
      /\ job[c] \in Job \cup {NoJob} /\ sent[c] \in Seq(Nat)
  BY DEF IInv, Typed
<1>4. DOMAIN since[c] \subseteq answered[c]
  BY <1>1 DEF Delivering, Answers
<1> QED BY <1>1, <1>2, <1>3, <1>4 DEF Delivering

\* watchd keeps what it holds; time passes and Telegram answers.
LEMMA SoundStays ==
    ASSUME NEW m, NEW pub \in Nat, NEW an, NEW co, Sound(m, pub, an, co),
           NEW pub2 \in Nat, pub <= pub2, NEW an2, \A c \in Chat : an[c] \subseteq an2[c]
    PROVE  Sound(m, pub2, an2, co)
<1>1. 1 .. pub \subseteq 1 .. pub2
  OBVIOUS
<1>2. m.queue \in [Chat -> SUBSET (1 .. pub2)]
  BY <1>1 DEF Sound
<1> QED BY <1>1, <1>2 DEF Sound

LEMMA StoresStay ==
    ASSUME IInv, UNCHANGED <<store, disk, confirmed>>, published' \in Nat, published <= published',
           \A c \in Chat : answered[c] \subseteq answered'[c]
    PROVE  Stores'
<1>1. published \in Nat
  BY DeliveryAssumption DEF IInv, Counted
<1>2. Sound(store, published, answered, confirmed) /\ Sound(disk, published, answered, confirmed)
  BY DEF IInv, Stores
<1>3. Sound(store, published', answered', confirmed) /\ Sound(disk, published', answered', confirmed)
  BY <1>1, <1>2, SoundStays
<1> QED BY <1>3 DEF Stores

\* A step that leaves receipts, answers and jobs alone.
LEMMA StepIdle ==
    ASSUME IInv, UNCHANGED <<published, aged, users, sent, job, history>>,
           poll' = poll \/ poll'.step # "install", Counted', Routed', Stores'
    PROVE  IInv'
<1>1. ActiveRecipients' = ActiveRecipients
  BY SameRecipients
<1>2. Typed'
  BY DEF IInv, Typed, history
<1>3. ASSUME NEW c \in Chat
      PROVE  Delivering(poll', c, job'[c], sent'[c], since'[c], answered'[c], confirmed'[c],
                        aged', published', ActiveRecipients')
  <2>1. Found(poll', c, job[c], sent[c], since[c], answered[c], aged, published)
    BY OfChat DEF Found
  <2> QED BY <1>1, <2>1, OfChat DEF Delivering, history
<1> QED BY <1>2, <1>3 DEF IInv, Chats

\* One that leaves watchd alone as well.
LEMMA StepStill ==
    ASSUME IInv, UNCHANGED <<published, aged, store, disk, users, sent, job, history>>,
           poll' = poll \/ poll'.step # "install", Counted', Routed'
    PROVE  IInv'
<1>1. published' \in Nat /\ published <= published'
  BY DeliveryAssumption DEF IInv, Counted
<1>2. Stores'
  BY <1>1, StoresStay DEF history
<1> QED BY <1>2, StepIdle

LEMMA StepPath ==
    ASSUME IInv, SelectProbe \/ SelectSet \/ PathsChange
    PROVE  IInv'
<1>1. /\ UNCHANGED <<published, aged, store, disk, users, sent, job, history, poll, faults>>
      /\ moves' = moves \/ Move
  BY DEF SelectProbe, SelectSet, PathsChange, watchd, history
<1>2. Counted'
  BY <1>1, DeliveryAssumption DEF IInv, Counted, Move
<1>3. Routed'
  <2>1. CASE SelectProbe
    <3>1. PICK next \in selectPath :
            /\ bound' = next /\ current' = current
            /\ cycle' = IF next = current THEN NoCycle ELSE [step |-> "set", next |-> next]
      BY <2>1 DEF SelectProbe
    <3>2. next \in Path
      BY <3>1 DEF selectPath, Path
    <3>3. CASE next = current
      BY <3>1, <3>2, <3>3 DEF IInv, Routed, NoCycle
    <3>4. CASE next # current
      BY <3>1, <3>2, <3>4 DEF IInv, Routed
    <3> QED BY <3>3, <3>4
  <2>2. CASE SelectSet
    BY <2>2 DEF IInv, Routed, SelectSet, NoCycle
  <2>3. CASE PathsChange
    BY <2>3 DEF IInv, Routed, PathsChange
  <2> QED BY <2>1, <2>2, <2>3
<1> QED BY <1>1, <1>2, <1>3, StepStill

LEMMA SoundAppended ==
    ASSUME NEW m, NEW pub \in Nat, NEW an \in [Chat -> SUBSET (1 .. pub)], NEW co, Sound(m, pub, an, co)
    PROVE  Sound(Appended(m, pub + 1), pub + 1, an, co)
<1> DEFINE n == pub + 1
           fits(c) == {k \in {n} : Lists(m.listed, c, k)}
           queue == [c \in Chat |-> Newest(m.queue[c] \cup fits(c))]
           recent == Newest(m.recent \cup {n})
           new == [m EXCEPT !.recent = recent, !.queue = queue]
<1>1. 1 .. n = (1 .. pub) \cup {n} /\ n \notin 1 .. pub
  OBVIOUS
<1>2. \A c \in Chat : queue[c] \subseteq m.queue[c] \cup {n}
  BY DEF Newest
<1>3. recent \subseteq m.recent \cup {n}
  BY DEF Newest
<1>4. queue = [c \in Chat |-> queue[c]]
  OBVIOUS
<1>5. Appended(m, n) = new
  BY DEF Appended
<1> HIDE DEF fits, queue, recent, n
<1>6. \A c \in Chat : n \notin m.closed[c]
  BY <1>1 DEF Sound
<1>7. /\ DOMAIN new = {"listed", "recent", "queue", "closed"}
      /\ new.recent = recent /\ new.queue = queue /\ new.closed = m.closed
  BY DEF Sound
<1> HIDE DEF new
<1>8. \A c \in Chat : queue[c] \in SUBSET (1 .. n)
  BY <1>1, <1>2 DEF Sound
<1>9. queue \in [Chat -> SUBSET (1 .. n)]
  BY <1>4, <1>8
<1>10. recent \subseteq 1 .. n
  BY <1>1, <1>3 DEF Sound
<1>11. \A c \in Chat : queue[c] \cap m.closed[c] = {}
  BY <1>2, <1>6 DEF Sound
<1>12. Sound(new, n, an, co)
  BY <1>7, <1>9, <1>10, <1>11 DEF Sound
<1> QED BY <1>5, <1>12 DEF n

LEMMA SoundReplaced ==
    ASSUME NEW m, NEW pub, NEW an, NEW co, Sound(m, pub, an, co), NEW list
    PROVE  Sound(Replaced(m, list), pub, an, co)
<1> DEFINE kept(c) == {n \in (m.queue[c] \cup m.recent) \ m.closed[c] : Lists(list, c, n)}
           queue == [c \in Chat |-> Newest(kept(c))]
           new == [m EXCEPT !.listed = list, !.queue = queue]
<1>1. \A c \in Chat : queue[c] \subseteq (m.queue[c] \cup m.recent) \ m.closed[c]
  BY DEF Newest
<1>2. queue = [c \in Chat |-> queue[c]]
  OBVIOUS
<1>3. Replaced(m, list) = new
  BY DEF Replaced
<1> HIDE DEF kept, queue
<1>4. /\ DOMAIN new = {"listed", "recent", "queue", "closed"}
      /\ new.recent = m.recent /\ new.queue = queue /\ new.closed = m.closed
  BY DEF Sound
<1> HIDE DEF new
<1>5. \A c \in Chat : queue[c] \in SUBSET (1 .. pub)
  BY <1>1 DEF Sound
<1>6. queue \in [Chat -> SUBSET (1 .. pub)]
  BY <1>2, <1>5
<1>7. Sound(new, pub, an, co)
  BY <1>1, <1>4, <1>6 DEF Sound
<1> QED BY <1>3, <1>7

\* What watchd does by itself: it applies a list after all, or saves.
LEMMA StepQuiet ==
    ASSUME IInv, ApplyLate \/ WatchdSave
    PROVE  IInv'
<1>1. UNCHANGED <<published, aged, users, sent, job, poll, history, paths, faults, moves>>
  BY DEF ApplyLate, WatchdSave
<1>2. Counted' /\ Routed'
  BY <1>1 DEF IInv, Counted, Routed, paths
<1>3. Sound(store, published, answered, confirmed) /\ Sound(disk, published, answered, confirmed)
  BY DEF IInv, Stores
<1>4. /\ store' = store \/ store' = Replaced(store, late)
      /\ disk' = disk \/ disk' = store'
  BY DEF ApplyLate, WatchdSave
<1>5. Sound(store', published, answered, confirmed)
  BY <1>3, <1>4, SoundReplaced
<1>6. Stores'
  BY <1>1, <1>3, <1>4, <1>5 DEF Stores, history
<1> QED BY <1>1, <1>2, <1>6, StepIdle

\* Time passes, or watchd forgets what it has not saved.
LEMMA StepTime ==
    ASSUME IInv, Publish \/ Age \/ WatchdRestart
    PROVE  IInv'
<1>1. /\ UNCHANGED <<confirmed, users, sent, job, poll, history, paths>>
      /\ published <= published' /\ aged <= aged' /\ aged' <= published'
      /\ published' \in Nat /\ aged' \in Nat
  BY DeliveryAssumption DEF IInv, Counted, Publish, Age, WatchdRestart, watchd, history
<1>2. Counted'
  BY DeliveryAssumption DEF IInv, Counted, Publish, Age, WatchdRestart, watchd, Move, Fault
<1>3. Routed'
  BY <1>1 DEF IInv, Routed, paths
<1>4. Typed'
  <2>1. \A c \in Chat : answered'[c] \subseteq 1 .. published'
    <3> SUFFICES ASSUME NEW c \in Chat PROVE answered'[c] \subseteq 1 .. published'
      OBVIOUS
    <3>1. answered'[c] \subseteq 1 .. published /\ published \in Nat
      BY <1>1, OfChat DEF history
    <3> QED BY <1>1, <3>1
  <2>2. answered' = [c \in Chat |-> answered'[c]]
    BY <1>1 DEF IInv, Typed, history
  <2>3. answered' \in [Chat -> SUBSET (1 .. published')]
    BY <2>1, <2>2
  <2> QED BY <1>1, <2>3 DEF IInv, Typed, history
<1>5. ActiveRecipients' = ActiveRecipients
  BY <1>1, SameRecipients
<1>6. Stores'
  <2>1. /\ Sound(store, published, answered, confirmed) /\ Sound(disk, published, answered, confirmed)
        /\ answered \in [Chat -> SUBSET (1 .. published)] /\ published \in Nat
        /\ answered' = answered /\ confirmed' = confirmed
    BY <1>1, DeliveryAssumption DEF IInv, Stores, Typed, Counted, history
  <2>2. CASE Publish
    <3>1. published' = published + 1 /\ store' = Appended(store, published + 1) /\ disk' \in {disk, store'}
      BY <2>2 DEF Publish
    <3>2. Sound(store', published', answered, confirmed)
      BY <2>1, <3>1, SoundAppended
    <3>3. Sound(disk, published', answered, confirmed)
      BY <1>1, <2>1, SoundStays
    <3> QED BY <2>1, <3>1, <3>2, <3>3 DEF Stores
  <2>3. CASE Age \/ WatchdRestart
    <3>1. published' = published /\ disk' = disk /\ store' \in {store, disk}
      BY <2>3 DEF Age, WatchdRestart, watchd
    <3> QED BY <2>1, <3>1 DEF Stores
  <2> QED BY <2>2, <2>3
<1>7. ASSUME NEW c \in Chat
      PROVE  Delivering(poll', c, job'[c], sent'[c], since'[c], answered'[c], confirmed'[c],
                        aged', published', ActiveRecipients')
  <2>1. Lined(sent[c], since[c]) /\ Restricts(since[c], since[c]) /\ confirmed[c] \subseteq answered[c]
    BY OfChat DEF Answers, Restricts
  <2>2. /\ Answers(sent[c], since[c], answered[c], confirmed[c])
        /\ Receipted(sent[c], since[c], confirmed[c], aged')
    <3>1. Accounted(sent[c], sent[c], since[c], confirmed[c], aged')
      BY DEF Accounted
    <3> QED BY <1>1, <2>1, <3>1, OfChat, RecordKeeps
  <2>3. /\ Working(job[c], sent[c], since[c], answered[c], aged', published')
        /\ Found(poll, c, job[c], sent[c], since[c], answered[c], aged', published')
    BY <1>1, <2>1, OfChat, ChatFades
  <2> QED BY <1>1, <1>5, <2>2, <2>3, OfChat DEF Delivering, history
<1> QED BY <1>2, <1>3, <1>4, <1>6, <1>7 DEF IInv, Chats

\* The users change, or a list is gone by: what a chat may not have is forgotten.
LEMMA Outlasting ==
    ASSUME NEW list, Outlasts(list), NEW c \in Chat
    PROVE  /\ Restricts(since'[c], since[c]) /\ Listed(since'[c], list, c)
           /\ DOMAIN since' = Chat
<1> DEFINE left == {m \in DOMAIN since[c] : Lists(list, c, m)}
<1>1. since'[c] = [n \in left |-> since[c][n]] /\ DOMAIN since' = Chat
  BY DEF Outlasts
<1>2. \A n \in left : n \in DOMAIN since[c] /\ Lists(list, c, n)
  OBVIOUS
<1> HIDE DEF left
<1>3. DOMAIN since'[c] = left /\ \A n \in left : since'[c][n] = since[c][n]
  BY <1>1
<1> QED BY <1>1, <1>2, <1>3 DEF Restricts, Listed

LEMMA StepUsers ==
    ASSUME IInv,
           (\E u \in User, c \in Chat : Interact(u, c)) \/ (\E u \in User : SetInactive(u))
    PROVE  IInv'
<1>1. /\ UNCHANGED <<published, aged, store, disk, confirmed, sent, job, poll, answered, paths, faults>>
      /\ Move /\ Outlasts(RecipientsOf(users'))
  BY DEF Interact, SetInactive, watchd
<1>2. Counted' /\ Routed'
  BY <1>1, DeliveryAssumption DEF IInv, Counted, Routed, paths, Move
<1>3. Typed'
  <2>1. DOMAIN since' = Chat
    BY <1>1 DEF Outlasts
  <2> QED BY <1>1, <2>1 DEF IInv, Typed
<1>4. Stores'
  BY <1>1 DEF IInv, Stores
<1>5. ASSUME NEW c \in Chat
      PROVE  Delivering(poll', c, job'[c], sent'[c], since'[c], answered'[c], confirmed'[c],
                        aged', published', ActiveRecipients')
  <2>1. Restricts(since'[c], since[c]) /\ Listed(since'[c], ActiveRecipients', c)
    BY <1>1, Outlasting, NewRecipients
  <2>2. Lined(sent[c], since[c]) /\ confirmed[c] \subseteq answered[c]
    BY OfChat DEF Answers
  <2>3. /\ Answers(sent[c], since'[c], answered[c], confirmed[c])
        /\ Receipted(sent[c], since'[c], confirmed[c], aged)
    <3>1. Accounted(sent[c], sent[c], since'[c], confirmed[c], aged)
      BY DEF Accounted
    <3>2. aged <= aged /\ aged \in Nat /\ DOMAIN since[c] \subseteq Nat
      BY OfChat
    <3>3. /\ Answers(sent[c], since[c], answered[c], confirmed[c])
          /\ Receipted(sent[c], since[c], confirmed[c], aged)
      BY OfChat
    <3> QED BY <2>1, <2>2, <3>1, <3>2, <3>3, RecordKeeps
  <2>4. /\ Working(job[c], sent[c], since'[c], answered[c], aged, published)
        /\ Found(poll, c, job[c], sent[c], since'[c], answered[c], aged, published)
    <3>1. aged <= aged /\ published <= published /\ aged \in Nat /\ published \in Nat
      BY OfChat
    <3>2. /\ Working(job[c], sent[c], since[c], answered[c], aged, published)
          /\ Found(poll, c, job[c], sent[c], since[c], answered[c], aged, published)
          /\ job[c] \in Job \cup {NoJob}
      BY OfChat
    <3> QED BY <2>1, <3>1, <3>2, ChatFades
  <2> QED BY <1>1, <2>1, <2>3, <2>4 DEF Delivering
<1> QED BY <1>2, <1>3, <1>4, <1>5 DEF IInv, Chats

\* A sync goes by the list it read, which may be stale: receipts and history
\* lose the same events, so what is left of the history keeps its receipts.
LEMMA Pruned ==
    ASSUME IInv, NEW c \in Chat, NEW list, sent' = Prune(sent, list), Outlasts(list)
    PROVE  /\ Lined(sent'[c], since[c]) /\ ToSet(sent'[c]) \subseteq ToSet(sent[c])
           /\ sent'[c] \in Seq(Nat) /\ DOMAIN sent' = Chat
           /\ Accounted(sent[c], sent'[c], since'[c], {}, aged)
<1> DEFINE S == {n \in ToSet(sent[c]) : n > aged /\ Lists(list, c, n)}
<1>1. sent'[c] = Only(sent[c], S) /\ DOMAIN sent' = Chat
  BY DEF Prune
<1>2. \A n \in ToSet(sent[c]) : n > aged /\ Lists(list, c, n) => n \in S
  OBVIOUS
<1> HIDE DEF S
<1>3. Lined(sent'[c], since[c]) /\ ToSet(sent'[c]) = ToSet(sent[c]) \cap S
  BY <1>1, OfChat, OnlyLined DEF Answers
<1>4. Restricts(since'[c], since[c]) /\ Listed(since'[c], list, c)
  BY Outlasting
<1>5. ASSUME NEW n \in DOMAIN since'[c], n \in ToSet(sent[c]) PROVE n \in ToSet(sent'[c]) \/ n <= aged
  <2>1. n \in Nat /\ aged \in Nat /\ Lists(list, c, n)
    BY <1>4, OfChat DEF Listed, Restricts
  <2>2. CASE n > aged
    BY <1>2, <1>3, <1>5, <2>1, <2>2
  <2>3. CASE ~(n > aged)
    BY <2>1, <2>3
  <2> QED BY <2>2, <2>3
<1> QED BY <1>1, <1>3, <1>5 DEF Lined, Accounted

LEMMA StepPrune ==
    ASSUME IInv, PruneSync
    PROVE  IInv'
<1> DEFINE list == syncing.list
<1>1. /\ UNCHANGED <<published, aged, store, disk, confirmed, answered, users, job, poll, paths, faults, moves>>
      /\ sent' = Prune(sent, list) /\ Outlasts(list)
  BY DEF PruneSync, watchd
<1> HIDE DEF list
<1>2. Counted' /\ Routed'
  BY <1>1 DEF IInv, Counted, Routed, paths
<1>3. ActiveRecipients' = ActiveRecipients
  BY <1>1, SameRecipients
<1>4. Typed'
  <2>1. DOMAIN sent' = Chat /\ sent' = [c \in Chat |-> sent'[c]] /\ DOMAIN since' = Chat
    BY <1>1 DEF Prune, Outlasts
  <2>2. \A c \in Chat : sent'[c] \in Seq(Nat)
    BY <1>1, Pruned
  <2>3. sent' \in [Chat -> Seq(Nat)]
    BY <2>1, <2>2
  <2> QED BY <1>1, <2>1, <2>3 DEF IInv, Typed
<1>5. Stores'
  BY <1>1 DEF IInv, Stores
<1>6. ASSUME NEW c \in Chat
      PROVE  Delivering(poll', c, job'[c], sent'[c], since'[c], answered'[c], confirmed'[c],
                        aged', published', ActiveRecipients')
  <2>1. Restricts(since'[c], since[c]) /\ confirmed[c] \subseteq answered[c]
    BY <1>1, Outlasting, OfChat DEF Answers
  <2>2. /\ Lined(sent'[c], since[c]) /\ ToSet(sent'[c]) \subseteq ToSet(sent[c])
        /\ Accounted(sent[c], sent'[c], since'[c], confirmed[c], aged)
    BY <1>1, Pruned DEF Accounted
  <2>3. /\ aged <= aged /\ published <= published /\ aged \in Nat /\ published \in Nat
        /\ DOMAIN since[c] \subseteq Nat
        /\ answered[c] \subseteq answered[c] /\ confirmed[c] \subseteq confirmed[c]
    BY OfChat
  <2>4. /\ Answers(sent'[c], since'[c], answered[c], confirmed[c])
        /\ Receipted(sent'[c], since'[c], confirmed[c], aged)
    <3>1. /\ Answers(sent[c], since[c], answered[c], confirmed[c])
          /\ Receipted(sent[c], since[c], confirmed[c], aged)
      BY OfChat
    <3> QED BY <2>1, <2>2, <2>3, <3>1, RecordKeeps
  <2>5. Listed(since'[c], ActiveRecipients, c)
    BY <2>1, OfChat DEF Listed, Restricts
  <2>6. /\ Working(job[c], sent'[c], since'[c], answered[c], aged, published)
        /\ Found(poll, c, job[c], sent'[c], since'[c], answered[c], aged, published)
    <3>1. /\ Working(job[c], sent[c], since[c], answered[c], aged, published)
          /\ Found(poll, c, job[c], sent[c], since[c], answered[c], aged, published)
          /\ job[c] \in Job \cup {NoJob}
      BY OfChat
    <3> QED BY <2>1, <2>2, <2>3, <3>1, ChatFades
  <2> QED BY <1>1, <1>3, <2>4, <2>5, <2>6 DEF Delivering
<1> QED BY <1>2, <1>4, <1>5, <1>6 DEF IInv, Chats

LEMMA StepSync ==
    ASSUME IInv, UpdateSync \/ PollSync \/ (\E c \in Chat : WorkSync(c))
    PROVE  IInv'
<1>1. /\ UNCHANGED <<published, aged, store, disk, users, sent, job, history, paths, faults, moves>>
      /\ poll' = poll \/ poll'.step # "install"
  BY DEF UpdateSync, PollSync, WorkSync, watchd
<1>2. Counted' /\ Routed'
  BY <1>1 DEF IInv, Counted, Routed, paths
<1> QED BY <1>1, <1>2, StepStill

LEMMA StepEndSync ==
    ASSUME IInv, EndSync
    PROVE  IInv'
<1>1. /\ UNCHANGED <<published, aged, users, sent, history, paths, moves>>
      /\ poll' = poll \/ poll'.step # "install"
      /\ faults' = faults \/ Fault
      /\ store' = store \/ store' = Replaced(store, syncing.list)
      /\ disk' = disk \/ disk' = store'
  BY DEF EndSync, AfterSync
<1>2. Counted' /\ Routed'
  BY <1>1, DeliveryAssumption DEF IInv, Counted, Routed, paths, Fault
<1>3. ActiveRecipients' = ActiveRecipients
  BY <1>1, SameRecipients
<1>4. /\ DOMAIN job' = Chat /\ job' = [c \in Chat |-> job'[c]]
      /\ \A c \in Chat : \/ job'[c] = job[c] \/ job'[c] = NoJob
                         \/ /\ job[c].step = "blockedSync"
                            /\ job'[c] = [job[c] EXCEPT !.step = "blockedAck"]
  BY DEF EndSync, AfterSync
<1>5. ASSUME NEW c \in Chat
      PROVE  /\ job'[c] \in Job \cup {NoJob}
             /\ Working(job'[c], sent[c], since[c], answered[c], aged, published)
             /\ job[c].step = "none" => job'[c].step = "none"
  <2>1. CASE job'[c] = job[c]
    BY <2>1, OfChat
  <2>2. CASE job'[c] = NoJob
    BY <2>2 DEF Working, NoJob
  <2>3. CASE job[c].step = "blockedSync" /\ job'[c] = [job[c] EXCEPT !.step = "blockedAck"]
    <3>1. job[c] \in Job
      BY <2>3, OfChat, Apart
    <3>2. /\ job'[c] \in Job /\ job'[c].step = "blockedAck" /\ job'[c].messages = job[c].messages
          /\ job'[c].receipts = job[c].receipts
      BY <2>3, <3>1 DEF Job, Busy
    <3> QED BY <2>3, <3>2, OfChat DEF Working
  <2> QED BY <1>4, <2>1, <2>2, <2>3
<1>6. Typed'
  <2>1. job' \in [Chat -> Job \cup {NoJob}]
    BY <1>4, <1>5
  <2> QED BY <1>1, <2>1 DEF IInv, Typed, history
<1>7. ASSUME NEW c \in Chat
      PROVE  Delivering(poll', c, job'[c], sent'[c], since'[c], answered'[c], confirmed'[c],
                        aged', published', ActiveRecipients')
  <2>1. Found(poll', c, job'[c], sent[c], since[c], answered[c], aged, published)
    BY <1>1, <1>5, OfChat DEF Found
  <2> QED BY <1>1, <1>3, <1>5, <2>1, OfChat DEF Delivering, history
<1>8. Stores'
  <2>1. Sound(store, published, answered, confirmed) /\ Sound(disk, published, answered, confirmed)
    BY DEF IInv, Stores
  <2>2. Sound(store', published, answered, confirmed)
    BY <1>1, <2>1, SoundReplaced
  <2> QED BY <1>1, <2>1, <2>2 DEF Stores, history
<1> QED BY <1>2, <1>6, <1>7, <1>8 DEF IInv, Chats

LEMMA StepRestart ==
    ASSUME IInv, BotRestart
    PROVE  IInv'
<1> DEFINE none == [n \in {} |-> {}]
<1>1. /\ UNCHANGED <<published, aged, store, disk, confirmed, users, answered, moves>> /\ Fault
      /\ poll' = NoPoll /\ cycle' = NoCycle /\ current' = "none" /\ bound' = "none"
      /\ sent' = [c \in Chat |-> <<>>] /\ job' = [c \in Chat |-> NoJob] /\ since' = [c \in Chat |-> none]
  BY DEF BotRestart, watchd
<1>2. DOMAIN none = {}
  OBVIOUS
<1> HIDE DEF none
<1>3. Counted' /\ Routed'
  BY <1>1, DeliveryAssumption DEF IInv, Counted, Routed, Fault, Path, NoCycle
<1>4. Typed'
  BY <1>1 DEF IInv, Typed, NoPoll
<1>5. ASSUME NEW c \in Chat
      PROVE  Delivering(poll', c, job'[c], sent'[c], since'[c], answered'[c], confirmed'[c],
                        aged', published', ActiveRecipients')
  <2>1. sent'[c] = <<>> /\ since'[c] = none /\ job'[c] = NoJob
    BY <1>1
  <2>2. ToSet(<<>>) = {} /\ Len(<<>>) = 0 /\ <<>> \in Seq(Nat)
    BY DEF ToSet
  <2>3. Lined(<<>>, none) /\ Ordered(none)
    BY <1>2, <2>2, DeliveryAssumption DEF Lined, Ordered
  <2>4. Answers(<<>>, none, answered[c], confirmed[c])
    BY <1>2, <2>2, <2>3, OfChat DEF Answers
  <2>5. Receipted(<<>>, none, confirmed[c], aged) /\ Listed(none, ActiveRecipients', c)
    BY <1>2 DEF Receipted, Listed
  <2>6. Working(NoJob, <<>>, none, answered[c], aged, published)
    BY DEF Working, NoJob
  <2>7. Found(NoPoll, c, NoJob, <<>>, none, answered[c], aged, published)
    BY DEF Found, NoPoll
  <2> QED BY <1>1, <2>1, <2>4, <2>5, <2>6, <2>7 DEF Delivering
<1>6. Stores'
  BY <1>1 DEF IInv, Stores
<1> QED BY <1>3, <1>4, <1>5, <1>6 DEF IInv, Chats

\* A read of a store of which no more is known than what Mailbox promises:
\* what it offers has been published and has no acknowledgement answered OK.
OpenOffers == {offers \in [Chat -> SUBSET (1 .. published)] : \A c \in Chat : offers[c] \cap confirmed[c] = {}}

ReadAny == \E offers \in OpenOffers : ReadFrom(offers)

LEMMA PendingIsOpen ==
    ASSUME IInv, PollRead
    PROVE  ReadAny
<1> DEFINE offers == [c \in Chat |-> Pending(c)]
<1>1. Sound(store, published, answered, confirmed)
  BY DEF IInv, Stores
<1>2. \A c \in Chat : Pending(c) \subseteq store.queue[c]
  BY DEF Pending
<1>3. \A c \in Chat : Pending(c) \in SUBSET (1 .. published) /\ Pending(c) \cap confirmed[c] = {}
  BY <1>1, <1>2 DEF Sound
<1>4. offers \in OpenOffers
  BY <1>3 DEF OpenOffers
<1> QED BY <1>4 DEF PollRead, ReadAny

\* What is offered has no acknowledgement, so its receipt is what covers it.
LEMMA StepRead ==
    ASSUME IInv, ReadAny
    PROVE  IInv'
<1> PICK offers \in OpenOffers : ReadFrom(offers)
  BY DEF ReadAny
<1>1. /\ UNCHANGED <<published, aged, store, disk, confirmed, users, sent, job, history, paths, moves>>
      /\ faults' = faults \/ Fault
  BY DEF ReadFrom, watchd, history
<1>2. Counted' /\ Routed'
  BY <1>1, DeliveryAssumption DEF IInv, Counted, Routed, paths, Fault
<1>3. ActiveRecipients' = ActiveRecipients
  BY <1>1, SameRecipients
<1>4. \A c \in Chat : offers[c] \subseteq (1 .. published) \ confirmed[c]
  BY DEF OpenOffers
<1> DEFINE free == {c \in Chat : job[c] = NoJob}
           receipts == [c \in Chat |-> IF job[c] = NoJob THEN sent[c] ELSE <<>>]
           offered(got) == [c \in Chat |-> IF got THEN {n \in offers[c] : Allowed(c, n)} ELSE {}]
<1>5. PICK got \in BOOLEAN : poll' = [step |-> "install", free |-> free, receipts |-> receipts,
                                      found |-> offered(got)]
  BY DEF ReadFrom
<1> DEFINE found == offered(got)
<1>6. \A c \in Chat : found[c] \subseteq (1 .. published) \ confirmed[c]
  BY <1>4
<1>7. \A c \in free : c \in Chat /\ receipts[c] = sent[c] /\ job[c] = NoJob
  OBVIOUS
<1>8. \A c \in Chat : receipts[c] = sent[c] \/ receipts[c] = <<>>
  OBVIOUS
<1>9. DOMAIN receipts = Chat /\ receipts = [c \in Chat |-> receipts[c]] /\ found = [c \in Chat |-> found[c]]
  OBVIOUS
<1>10. free \in SUBSET Chat
  OBVIOUS
<1>11. /\ poll' = [step |-> "install", free |-> free, receipts |-> receipts, found |-> found]
  BY <1>5
<1> HIDE DEF free, receipts, found, offered
<1>12. Typed'
  <2>1. \A c \in Chat : receipts[c] \in Seq(Nat)
    <3> SUFFICES ASSUME NEW c \in Chat PROVE receipts[c] \in Seq(Nat)
      OBVIOUS
    <3>1. sent[c] \in Seq(Nat) /\ <<>> \in Seq(Nat)
      BY OfChat
    <3> QED BY <1>8, <3>1
  <2>2. receipts \in [Chat -> Seq(Nat)]
    BY <1>9, <2>1
  <2>3. \A c \in Chat : found[c] \in SUBSET Nat
    BY <1>6, OfChat
  <2>4. found \in [Chat -> SUBSET Nat]
    BY <1>9, <2>3
  <2>5. poll' \in Read
    BY <1>10, <1>11, <2>2, <2>4 DEF Read
  <2> QED BY <1>1, <2>5 DEF IInv, Typed, history
<1>13. ASSUME NEW c \in Chat
       PROVE  Delivering(poll', c, job'[c], sent'[c], since'[c], answered'[c], confirmed'[c],
                         aged', published', ActiveRecipients')
  <2>1. ASSUME c \in free
        PROVE  Found(poll', c, job[c], sent[c], since[c], answered[c], aged, published)
    <3>1. job[c].step = "none" /\ receipts[c] = sent[c]
      BY <1>7, <2>1 DEF NoJob
    <3>2. found[c] \subseteq 1 .. published /\ ToSet(sent[c]) \subseteq answered[c]
      BY <1>6, OfChat DEF Answers
    <3>3. ASSUME NEW m \in found[c] PROVE Covered(m, sent[c], {}, sent[c], since[c], aged)
      <4>1. m \notin confirmed[c]
        BY <1>6
      <4>2. Receipted(sent[c], since[c], confirmed[c], aged)
        BY OfChat
      <4> QED BY <4>1, <4>2 DEF Covered, Receipted
    <3> QED BY <1>11, <3>1, <3>2, <3>3 DEF Found
  <2>2. Found(poll', c, job[c], sent[c], since[c], answered[c], aged, published)
    BY <1>11, <2>1 DEF Found
  <2> QED BY <1>1, <1>3, <2>2, OfChat DEF Delivering, history
<1>14. Stores'
  BY <1>1 DEF IInv, Stores, history
<1> QED BY <1>2, <1>12, <1>13, <1>14 DEF IInv, Chats

LEMMA StepInstall ==
    ASSUME IInv, PollInstall
    PROVE  IInv'
<1>1. /\ UNCHANGED <<published, aged, store, disk, confirmed, users, sent, history, paths, faults, moves>>
      /\ poll.step = "install" /\ poll' = NoPoll /\ poll \in Read
  BY DEF PollInstall, watchd, history, IInv, Typed
<1>2. Counted' /\ Routed'
  BY <1>1 DEF IInv, Counted, Routed, paths
<1>3. ActiveRecipients' = ActiveRecipients
  BY <1>1, SameRecipients
<1> DEFINE new(c) == [step |-> "run", receipts |-> poll.receipts[c], closed |-> {}, messages |-> poll.found[c],
                  via |-> "none"]
<1>4. /\ job' = [c \in Chat |-> job'[c]]
      /\ \A c \in Chat : job'[c] = job[c] \/ (c \in poll.free /\ job'[c] = new(c))
  BY DEF PollInstall, Installable
<1>5. ASSUME NEW c \in Chat
      PROVE  /\ job'[c] \in Job \cup {NoJob}
             /\ Working(job'[c], sent[c], since[c], answered[c], aged, published)
  <2>1. CASE job'[c] = job[c]
    BY <2>1, OfChat
  <2>2. CASE c \in poll.free /\ job'[c] = new(c)
    <3>1. poll.receipts[c] \in Seq(Nat) /\ poll.found[c] \in SUBSET Nat
      BY <1>1 DEF Read
    <3>2. job'[c] \in Job
      BY <2>2, <3>1 DEF Job, Busy, Path
    <3>3. Found(poll, c, job[c], sent[c], since[c], answered[c], aged, published)
      BY OfChat
    <3>4. Undone(new(c)) = poll.found[c]
      BY DEF Undone
    <3> DEFINE j == new(c)
    <3>5. /\ j.step = "run" /\ j.receipts = poll.receipts[c] /\ j.closed = {}
          /\ j.messages = poll.found[c] /\ Undone(j) = poll.found[c] /\ job'[c] = j
      BY <2>2, <3>4
    <3> HIDE DEF new
    <3>6. Working(j, sent[c], since[c], answered[c], aged, published)
      BY <1>1, <2>2, <3>3, <3>5 DEF Working, Found
    <3> QED BY <3>2, <3>5, <3>6
  <2> QED BY <1>4, <2>1, <2>2
<1>6. Typed'
  <2>1. job' \in [Chat -> Job \cup {NoJob}]
    BY <1>4, <1>5
  <2> QED BY <1>1, <2>1 DEF IInv, Typed, history, NoPoll
<1>7. ASSUME NEW c \in Chat
      PROVE  Delivering(poll', c, job'[c], sent'[c], since'[c], answered'[c], confirmed'[c],
                        aged', published', ActiveRecipients')
  <2>1. Found(poll', c, job'[c], sent[c], since[c], answered[c], aged, published)
    BY <1>1 DEF Found, NoPoll
  <2> QED BY <1>1, <1>3, <1>5, <2>1, OfChat DEF Delivering, history
<1>8. Stores'
  BY <1>1 DEF IInv, Stores, history
<1> QED BY <1>2, <1>6, <1>7, <1>8 DEF IInv, Chats

-----------------------------------------------------------------------------
(* A worker's steps                                                          *)

ButFor(c, f, g) == \A d \in Chat : d # c => g[d] = f[d]

\* A worker changes only what its chat has.
LEMMA StepOf ==
    ASSUME IInv, NEW c \in Chat, job[c].step # "none", UNCHANGED <<published, aged, users, poll>>,
           ButFor(c, sent, sent'), ButFor(c, since, since'), ButFor(c, answered, answered'),
           ButFor(c, confirmed, confirmed'), ButFor(c, job, job'),
           Counted', Routed', Typed', Stores',
           Answers(sent'[c], since'[c], answered'[c], confirmed'[c]),
           Receipted(sent'[c], since'[c], confirmed'[c], aged),
           Listed(since'[c], ActiveRecipients, c),
           Working(job'[c], sent'[c], since'[c], answered'[c], aged, published)
    PROVE  IInv'
<1>1. ActiveRecipients' = ActiveRecipients
  BY SameRecipients
<1>2. ASSUME NEW d \in Chat
      PROVE  Delivering(poll', d, job'[d], sent'[d], since'[d], answered'[d], confirmed'[d],
                        aged', published', ActiveRecipients')
  <2>1. CASE d = c
    <3>1. Found(poll, c, job'[c], sent'[c], since'[c], answered'[c], aged, published)
      BY OfChat DEF Found
    <3> QED BY <1>1, <2>1, <3>1 DEF Delivering
  <2>2. CASE d # c
    <3>1. /\ sent'[d] = sent[d] /\ since'[d] = since[d] /\ answered'[d] = answered[d]
          /\ confirmed'[d] = confirmed[d] /\ job'[d] = job[d]
      BY <2>2 DEF ButFor
    <3> QED BY <1>1, <3>1, OfChat DEF Delivering
  <2> QED BY <2>1, <2>2
<1> QED BY <1>2 DEF IInv, Chats

\* The same, of a chat a worker has a step of.
LEMMA WorkKeeps ==
    ASSUME IInv, NEW c \in Chat, NEW s2, Lined(s2, since[c]), ToSet(s2) \subseteq ToSet(sent[c]),
           NEW an2, answered[c] \subseteq an2, NEW co2, confirmed[c] \subseteq co2,
           co2 \subseteq an2, Accounted(sent[c], s2, since[c], co2, aged)
    PROVE  Answers(s2, since[c], an2, co2) /\ Receipted(s2, since[c], co2, aged)
<1>1. Answers(sent[c], since[c], answered[c], confirmed[c])
  BY OfChat
<1>2. Answers(s2, since[c], an2, co2)
  BY <1>1 DEF Answers
<1>3. ASSUME NEW n \in DOMAIN since[c], n > aged
      PROVE  n \in ToSet(s2) \/ n \in co2 \/ Pushed(since[c], n)
  <2>1. n \in Nat /\ aged \in Nat /\ ~(n <= aged)
    BY <1>3, OfChat
  <2>2. n \in ToSet(sent[c]) \/ n \in confirmed[c] \/ Pushed(since[c], n)
    BY <1>3, OfChat DEF Receipted
  <2> QED BY <2>1, <2>2 DEF Accounted
<1> QED BY <1>2, <1>3 DEF Receipted

LEMMA HeadTail ==
    ASSUME NEW s \in Seq(Nat), s # <<>>
    PROVE  /\ Head(s) \in Nat /\ Tail(s) \in Seq(Nat)
           /\ ToSet(s) = {Head(s)} \cup ToSet(Tail(s))
<1> DEFINE t == Tail(s)
<1>1. /\ t \in Seq(Nat) /\ Len(s) \in Nat \ {0} /\ Len(t) = Len(s) - 1 /\ Head(s) = s[1]
      /\ Head(s) \in Nat /\ \A i \in 1 .. Len(t) : t[i] = s[i + 1]
  OBVIOUS
<1>2. DOMAIN s = 1 .. Len(s) /\ DOMAIN t = 1 .. Len(t)
  BY <1>1
<1> HIDE DEF t
<1>3. \A i \in 1 .. Len(s) : i = 1 \/ (i - 1 \in 1 .. Len(t) /\ t[i - 1] = s[i])
  <2> SUFFICES ASSUME NEW i \in 1 .. Len(s), i # 1
               PROVE  i - 1 \in 1 .. Len(t) /\ t[i - 1] = s[i]
    OBVIOUS
  <2>1. i - 1 \in 1 .. Len(t)
    BY <1>1
  <2> QED BY <1>1, <2>1
<1>4. \A i \in 1 .. Len(t) : i + 1 \in 1 .. Len(s)
  BY <1>1
<1>5. ToSet(s) \subseteq {Head(s)} \cup ToSet(t)
  <2> SUFFICES ASSUME NEW i \in 1 .. Len(s) PROVE s[i] \in {Head(s)} \cup ToSet(t)
    BY <1>2 DEF ToSet
  <2>1. CASE i = 1
    BY <1>1, <2>1
  <2>2. CASE i # 1
    BY <1>2, <1>3, <2>2 DEF ToSet
  <2> QED BY <2>1, <2>2
<1>6. {Head(s)} \subseteq ToSet(s)
  <2>1. 1 \in DOMAIN s
    BY <1>1, <1>2
  <2> QED BY <1>1, <2>1 DEF ToSet
<1>7. ToSet(t) \subseteq ToSet(s)
  <2> SUFFICES ASSUME NEW i \in 1 .. Len(t) PROVE t[i] \in ToSet(s)
    BY <1>2 DEF ToSet
  <2>1. i + 1 \in DOMAIN s /\ s[i + 1] = t[i]
    BY <1>1, <1>2, <1>4
  <2> QED BY <2>1 DEF ToSet
<1> QED BY <1>1, <1>5, <1>6, <1>7 DEF t

LEMMA SoundAcked ==
    ASSUME NEW m, NEW pub, NEW an, NEW co \in [Chat -> SUBSET Nat], Sound(m, pub, an, co),
           NEW c \in Chat, NEW n \in Nat, n \in an[c]
    PROVE  /\ Sound(Acked(m, c, n), pub, an, co)
           /\ Sound(Acked(m, c, n), pub, an, [co EXCEPT ![c] = @ \cup {n}])
<1> DEFINE queue == [m.queue EXCEPT ![c] = @ \ {n}]
           closed == [m.closed EXCEPT ![c] = @ \cup {n}]
           more == [co EXCEPT ![c] = @ \cup {n}]
           new == Acked(m, c, n)
<1>1. DOMAIN m = {"listed", "recent", "queue", "closed"}
  BY DEF Sound
<1>2. /\ DOMAIN new = {"listed", "recent", "queue", "closed"}
      /\ new.recent = m.recent /\ new.queue = queue /\ new.closed = closed
  BY <1>1 DEF Acked
<1> HIDE DEF new
<1>3. m.queue \in [Chat -> SUBSET (1 .. pub)] /\ m.closed \in [Chat -> SUBSET Nat]
  BY DEF Sound
<1>4. queue \in [Chat -> SUBSET (1 .. pub)] /\ closed \in [Chat -> SUBSET Nat]
  BY <1>3
<1>5. \A d \in Chat : /\ queue[d] = IF d = c THEN m.queue[d] \ {n} ELSE m.queue[d]
                      /\ closed[d] = IF d = c THEN m.closed[d] \cup {n} ELSE m.closed[d]
                      /\ more[d] = IF d = c THEN co[d] \cup {n} ELSE co[d]
  BY <1>3
<1> HIDE DEF queue, closed, more
<1>6. ASSUME NEW d \in Chat
      PROVE  /\ queue[d] \cap closed[d] = {} /\ closed[d] \subseteq an[d]
             /\ co[d] \subseteq closed[d] /\ more[d] \subseteq closed[d]
  <2>1. /\ m.queue[d] \cap m.closed[d] = {}
        /\ co[d] \subseteq m.closed[d] /\ m.closed[d] \subseteq an[d]
    BY DEF Sound
  <2>2. CASE d = c
    BY <1>5, <2>1, <2>2
  <2>3. CASE d # c
    BY <1>5, <2>1, <2>3
  <2> QED BY <2>2, <2>3
<1>7. new.recent \subseteq 1 .. pub
  BY <1>2 DEF Sound
<1>8. Sound(new, pub, an, co) /\ Sound(new, pub, an, more)
  BY <1>2, <1>4, <1>6, <1>7 DEF Sound
<1> QED BY <1>8 DEF new, more

\* What acknowledging an event answered for may change.
Recorded(c) ==
    /\ confirmed' \in [Chat -> SUBSET Nat] /\ ButFor(c, confirmed, confirmed')
    /\ confirmed[c] \subseteq confirmed'[c] /\ confirmed'[c] \subseteq answered[c]
    /\ Stores' /\ (faults' = faults \/ Fault)

LEMMA Acknowledges ==
    ASSUME IInv, UNCHANGED <<published, answered>>,
           NEW c \in Chat, NEW n \in answered[c], NEW ok \in BOOLEAN, AckCall(c, n, ok)
    PROVE  Recorded(c) /\ (ok => n \in confirmed'[c])
<1> DEFINE more == [confirmed EXCEPT ![c] = @ \cup {n}]
<1>1. confirmed \in [Chat -> SUBSET Nat] /\ n \in Nat /\ confirmed[c] \subseteq answered[c]
  BY OfChat DEF IInv, Typed, Answers
<1>2. more \in [Chat -> SUBSET Nat] /\ ButFor(c, confirmed, more) /\ more[c] = confirmed[c] \cup {n}
  BY <1>1 DEF ButFor
<1>3. Sound(store, published, answered, confirmed) /\ Sound(disk, published, answered, confirmed)
  BY DEF IInv, Stores
<1>4. Sound(Acked(store, c, n), published, answered, confirmed)
      /\ Sound(Acked(store, c, n), published, answered, more)
  BY <1>1, <1>3, SoundAcked
<1>5. /\ ok => store' = Acked(store, c, n) /\ disk' = store' /\ confirmed' = more /\ faults' = faults
      /\ ~ok => /\ store' \in {store, Acked(store, c, n)} /\ disk' \in {disk, store'}
                /\ confirmed' = confirmed /\ Fault
  BY DEF AckCall
<1> HIDE DEF more
<1>6. CASE ok
  <2>1. Stores'
    BY <1>4, <1>5, <1>6 DEF Stores
  <2> QED BY <1>1, <1>2, <1>5, <1>6, <2>1 DEF Recorded
<1>7. CASE ~ok
  <2>1. Sound(store', published, answered, confirmed) /\ Sound(disk', published, answered, confirmed)
    BY <1>3, <1>4, <1>5, <1>7
  <2>2. Stores'
    BY <1>5, <1>7, <2>1 DEF Stores
  <2>3. ButFor(c, confirmed, confirmed)
    BY DEF ButFor
  <2> QED BY <1>1, <1>5, <1>7, <2>2, <2>3 DEF Recorded
<1> QED BY <1>6, <1>7

\* The receipt for n goes.
LEMMA Forgets ==
    ASSUME IInv, NEW c \in Chat, NEW n, sent' = forget(c, n)
    PROVE  /\ sent' \in [Chat -> Seq(Nat)] /\ ButFor(c, sent, sent')
           /\ Lined(sent'[c], since[c]) /\ ToSet(sent'[c]) = ToSet(sent[c]) \ {n}
<1> DEFINE S == ToSet(sent[c]) \ {n}
           r == Only(sent[c], S)
<1>1. sent \in [Chat -> Seq(Nat)]
  BY DEF IInv, Typed
<1>2. sent' = [sent EXCEPT ![c] = r]
  BY DEF forget
<1>3. Lined(r, since[c]) /\ ToSet(r) = ToSet(sent[c]) \cap S
  <2> HIDE DEF S
  <2> QED BY OfChat, OnlyLined DEF Answers
<1>4. ToSet(r) = ToSet(sent[c]) \ {n}
  BY <1>3
<1>5. r \in Seq(Nat)
  BY <1>3 DEF Lined
<1> HIDE DEF r
<1> QED BY <1>1, <1>2, <1>3, <1>4, <1>5 DEF ButFor

LEMMA Remains ==
    ASSUME IInv, NEW c \in Chat, sent' = sent
    PROVE  /\ sent' \in [Chat -> Seq(Nat)] /\ ButFor(c, sent, sent')
           /\ Lined(sent'[c], since[c]) /\ ToSet(sent'[c]) = ToSet(sent[c])
BY OfChat DEF IInv, Typed, ButFor, Answers

LEMMA StepReceipt ==
    ASSUME IInv, NEW c \in Chat, WorkReceipt(c)
    PROVE  IInv'
<1> DEFINE rs == job[c].receipts
           n == Head(rs)
           rest == [job[c] EXCEPT !.receipts = Tail(@)]
<1>1. /\ job[c].step = "run" /\ rs # <<>>
      /\ UNCHANGED <<published, aged, users, poll, answered, since, paths, moves>>
  BY DEF WorkReceipt
<1>2. job[c] \in Job /\ rs \in Seq(Nat)
  BY <1>1, OfChat, Apart DEF Job
<1>3. n \in Nat /\ Tail(rs) \in Seq(Nat) /\ ToSet(rs) = {n} \cup ToSet(Tail(rs))
  BY <1>1, <1>2, HeadTail
<1>4. /\ job[c].messages \subseteq 1 .. published /\ ToSet(rs) \subseteq answered[c]
      /\ \A m \in job[c].messages : Covered(m, rs, job[c].closed, sent[c], since[c], aged)
  BY <1>1, OfChat DEF Working, Undone
<1>5. n \in answered[c]
  BY <1>3, <1>4
<1>6. /\ rest \in Job /\ rest.step = "run" /\ rest.receipts = Tail(rs)
      /\ rest.closed = job[c].closed /\ rest.messages = job[c].messages
  BY <1>1, <1>2, <1>3 DEF Job
<1> DEFINE done == [rest EXCEPT !.closed = @ \cup {n}]
<1>7. /\ done \in Job /\ done.step = "run" /\ done.receipts = Tail(rs)
      /\ done.closed = job[c].closed \cup {n} /\ done.messages = job[c].messages
  <2> HIDE DEF rest, n
  <2> QED BY <1>3, <1>6 DEF Job
<1>8. \/ /\ ~Allowed(c, n)
         /\ sent' = forget(c, n) /\ job' = [job EXCEPT ![c] = rest]
         /\ UNCHANGED <<store, disk, confirmed, faults>>
      \/ /\ Allowed(c, n)
         /\ \E ok \in BOOLEAN :
             /\ AckCall(c, n, ok)
             /\ sent' = IF ok THEN forget(c, n) ELSE sent
         /\ job' = [job EXCEPT ![c] = done]
  BY DEF WorkReceipt
<1> HIDE DEF rest, done, n, rs
<1>9. /\ job' \in [Chat -> Job \cup {NoJob}] /\ ButFor(c, job, job')
      /\ job'[c] \in {rest, done} /\ (job'[c] = rest => ~Allowed(c, n) \/ rest = done)
  <2>1. job \in [Chat -> Job \cup {NoJob}]
    BY DEF IInv, Typed
  <2> QED BY <1>6, <1>7, <1>8, <2>1 DEF ButFor
<1>10. sent' \in {sent, forget(c, n)}
  BY <1>8
<1>11. /\ sent' \in [Chat -> Seq(Nat)] /\ ButFor(c, sent, sent') /\ Lined(sent'[c], since[c])
       /\ ToSet(sent'[c]) \subseteq ToSet(sent[c])
       /\ \A m \in ToSet(sent[c]) : m \in ToSet(sent'[c]) \/ m = n
       /\ sent' = forget(c, n) => n \notin ToSet(sent'[c])
  <2>1. CASE sent' = forget(c, n)
    <3>1. /\ sent' \in [Chat -> Seq(Nat)] /\ ButFor(c, sent, sent')
          /\ Lined(sent'[c], since[c]) /\ ToSet(sent'[c]) = ToSet(sent[c]) \ {n}
      BY <2>1, Forgets
    <3> QED BY <3>1
  <2>2. CASE sent' = sent /\ sent' # forget(c, n)
    BY <2>2, Remains
  <2> QED BY <1>10, <2>1, <2>2
<1>12. Recorded(c) /\ (sent' = sent \/ ~Allowed(c, n) \/ n \in confirmed'[c])
  <2>1. CASE ~Allowed(c, n) /\ UNCHANGED <<store, disk, confirmed, faults>>
    <3>1. Stores'
      BY <1>1, <2>1 DEF IInv, Stores, history
    <3> QED BY <2>1, <3>1, OfChat DEF IInv, Typed, ButFor, Answers, Recorded
  <2>2. ASSUME NEW ok \in BOOLEAN, AckCall(c, n, ok), sent' = IF ok THEN forget(c, n) ELSE sent
        PROVE  Recorded(c) /\ (sent' = sent \/ n \in confirmed'[c])
    <3>1. published' = published /\ answered' = answered
      BY <1>1
    <3> QED BY <1>5, <2>2, <3>1, Acknowledges
  <2> QED BY <1>8, <2>1, <2>2
<1>13. \A m \in DOMAIN since[c] : m = n /\ ~Allowed(c, n) => m <= aged
  BY <1>3, OfChat DEF Allowed, Listed
<1>14. Accounted(sent[c], sent'[c], since[c], confirmed'[c], aged)
  <2> SUFFICES ASSUME NEW m \in DOMAIN since[c], m \in ToSet(sent[c]), m \notin ToSet(sent'[c])
               PROVE  m <= aged \/ m \in confirmed'[c]
    BY DEF Accounted
  <2>1. m = n /\ sent' # sent
    BY <1>11
  <2> QED BY <1>12, <1>13, <2>1
<1>15. /\ Answers(sent'[c], since[c], answered[c], confirmed'[c])
       /\ Receipted(sent'[c], since[c], confirmed'[c], aged)
  <2>1. confirmed[c] \subseteq confirmed'[c] /\ confirmed'[c] \subseteq answered[c]
    BY <1>12 DEF Recorded
  <2>2. Lined(sent'[c], since[c]) /\ ToSet(sent'[c]) \subseteq ToSet(sent[c])
    BY <1>11
  <2> QED BY <1>14, <2>1, <2>2, WorkKeeps
<1>16. Working(job'[c], sent'[c], since[c], answered[c], aged, published)
  <2>1. /\ job'[c].step = "run" /\ job'[c].receipts = Tail(rs) /\ job'[c].messages = job[c].messages
        /\ job[c].closed \subseteq job'[c].closed
        /\ n \in job'[c].closed \/ ~Allowed(c, n)
    BY <1>6, <1>7, <1>9
  <2>2. ToSet(Tail(rs)) \subseteq answered[c]
    BY <1>3, <1>4
  <2>3. ~Allowed(c, n) => sent' = forget(c, n)
    BY <1>8
  <2>4. ASSUME NEW m \in job[c].messages
        PROVE  Covered(m, Tail(rs), job'[c].closed, sent'[c], since[c], aged)
    <3>1. Covered(m, rs, job[c].closed, sent[c], since[c], aged) /\ m \in Nat /\ aged \in Nat
      BY <1>4, <2>4, OfChat
    <3>2. CASE m # n \/ n \in job'[c].closed
      BY <1>3, <1>11, <2>1, <3>1, <3>2 DEF Covered
    <3>3. CASE m = n /\ ~Allowed(c, n)
      <4>1. m \notin ToSet(sent'[c])
        BY <1>11, <2>3, <3>3
      <4>2. m \in DOMAIN since[c] => ~(m > aged)
        BY <1>13, <3>1, <3>3
      <4> QED BY <4>1, <4>2 DEF Covered
    <3> QED BY <2>1, <3>2, <3>3
  <2> QED BY <1>4, <2>1, <2>2, <2>4 DEF Working, Undone
<1>17. Counted' /\ Routed'
  BY <1>1, <1>12, DeliveryAssumption DEF IInv, Counted, Routed, paths, Fault, Recorded
<1>18. Typed'
  BY <1>1, <1>9, <1>11, <1>12 DEF IInv, Typed, Recorded
<1>19. ButFor(c, since, since') /\ ButFor(c, answered, answered')
  BY <1>1 DEF ButFor
<1>20. since' = since /\ answered' = answered /\ Listed(since[c], ActiveRecipients, c)
  BY <1>1, OfChat
<1> QED
  BY <1>1, <1>9, <1>11, <1>12, <1>15, <1>16, <1>17, <1>18, <1>19, <1>20, StepOf DEF Recorded

\* A step that changes a worker's job alone.
LEMMA StepJob ==
    ASSUME IInv, NEW c \in Chat, job[c].step # "none",
           UNCHANGED <<published, aged, store, disk, users, sent, poll, history>>,
           NEW j \in Job \cup {NoJob}, job' = [job EXCEPT ![c] = j],
           Working(j, sent[c], since[c], answered[c], aged, published), Counted', Routed'
    PROVE  IInv'
<1>1. job \in [Chat -> Job \cup {NoJob}]
  BY DEF IInv, Typed
<1>2. job' \in [Chat -> Job \cup {NoJob}] /\ job'[c] = j /\ ButFor(c, job, job')
  BY <1>1 DEF ButFor
<1>3. Typed'
  BY <1>2 DEF IInv, Typed, history
<1>4. /\ ButFor(c, sent, sent') /\ ButFor(c, since, since') /\ ButFor(c, answered, answered')
      /\ ButFor(c, confirmed, confirmed')
  BY DEF ButFor, history
<1>5. sent' = sent /\ since' = since /\ answered' = answered /\ confirmed' = confirmed
  BY DEF history
<1>6. Stores'
  BY DEF IInv, Stores, history
<1> QED BY <1>2, <1>3, <1>4, <1>5, <1>6, OfChat, StepOf

LEMMA StepMessage ==
    ASSUME IInv, NEW c \in Chat, WorkMessage(c)
    PROVE  IInv'
<1> DEFINE n == Message(c)
           less == [job[c] EXCEPT !.messages = @ \ {n}]
           next == [job[c] EXCEPT !.step = "sending", !.via = bound]
<1>1. /\ job[c].step = "run" /\ job[c].receipts = <<>>
      /\ UNCHANGED <<published, aged, store, disk, confirmed, users, sent, poll, history, paths, faults, moves>>
  BY DEF WorkMessage, watchd, history
<1>2. /\ job[c] \in Job /\ Working(job[c], sent[c], since[c], answered[c], aged, published)
      /\ \A m \in job[c].messages : Covered(m, <<>>, job[c].closed, sent[c], since[c], aged)
      /\ aged \in Nat /\ published \in Nat
  BY <1>1, OfChat, Apart DEF Working, Undone
<1>3. Counted' /\ Routed'
  BY <1>1 DEF IInv, Counted, Routed, paths
<1>4. \/ job' = [job EXCEPT ![c] = NoJob]
      \/ job' = [job EXCEPT ![c] = less]
      \/ /\ job' = [job EXCEPT ![c] = next]
         /\ job[c].messages # {} /\ n \notin job[c].closed /\ Allowed(c, n)
  <2> DEFINE after == IF job[c].messages = {} THEN NoJob
                      ELSE IF n \in job[c].closed \/ ~Allowed(c, n) THEN less
                      ELSE IF current = "none" THEN NoJob ELSE next
  <2>1. job' = [job EXCEPT ![c] = after]
    BY DEF WorkMessage
  <2>2. \/ after = NoJob \/ after = less
        \/ after = next /\ job[c].messages # {} /\ n \notin job[c].closed /\ Allowed(c, n)
    <3> HIDE DEF n, less, next
    <3> QED OBVIOUS
  <2> HIDE DEF after, n, less, next
  <2> QED BY <2>1, <2>2
<1>5. n = Min(job[c].messages)
  BY DEF Message
<1>6. /\ less \in Job /\ less.step = "run" /\ less.receipts = <<>> /\ less.closed = job[c].closed
      /\ less.messages = job[c].messages \ {n}
      /\ next \in Job /\ next.step = "sending" /\ next.receipts = <<>> /\ next.closed = job[c].closed
      /\ next.messages = job[c].messages
  <2>1. bound \in Path
    BY DEF IInv, Routed
  <2> HIDE DEF n
  <2> QED BY <1>1, <1>2, <2>1 DEF Job, Busy
<1> HIDE DEF n, less, next
<1>7. CASE job' = [job EXCEPT ![c] = NoJob]
  <2>1. Working(NoJob, sent[c], since[c], answered[c], aged, published)
    BY DEF Working, NoJob
  <2> QED BY <1>1, <1>3, <1>7, <2>1, StepJob
<1>8. CASE job' = [job EXCEPT ![c] = less]
  <2>1. Working(less, sent[c], since[c], answered[c], aged, published)
    BY <1>1, <1>2, <1>6 DEF Working, Undone
  <2> QED BY <1>1, <1>3, <1>6, <1>8, <2>1, StepJob
<1>9. CASE /\ job' = [job EXCEPT ![c] = next]
           /\ job[c].messages # {} /\ n \notin job[c].closed /\ Allowed(c, n)
  <2>1. n \in job[c].messages
    <3>1. job[c].messages \in SUBSET Nat
      BY <1>2 DEF Job
    <3> QED BY <1>5, <1>9, <3>1, LeastNumber
  <2>2. Covered(n, <<>>, job[c].closed, sent[c], since[c], aged) /\ n > aged
    BY <1>2, <1>9, <2>1 DEF Allowed
  <2>3. ToSet(<<>>) = {}
    BY DEF ToSet
  <2>4. n \in DOMAIN since[c] => Pushed(since[c], n)
    BY <1>9, <2>2, <2>3 DEF Covered
  <2>5. Working(next, sent[c], since[c], answered[c], aged, published)
    BY <1>1, <1>2, <1>5, <1>6, <1>9, <2>4 DEF Working, Undone
  <2> QED BY <1>1, <1>3, <1>6, <1>9, <2>5, StepJob
<1> QED BY <1>4, <1>7, <1>8, <1>9

LEMMA StepFails ==
    ASSUME IInv, NEW c \in Chat, SendFails(c) \/ SendRevoked(c)
    PROVE  IInv'
<1> DEFINE revoked == [job[c] EXCEPT !.step = "revokedSync", !.via = "none"]
<1>1. /\ job[c].step = "sending"
      /\ UNCHANGED <<published, aged, store, disk, confirmed, users, sent, poll, history, current, bound, moves>>
      /\ faults' = faults \/ Fault
      /\ cycle' = cycle \/ cycle'.step = "probe"
      /\ job' = [job EXCEPT ![c] = NoJob] \/ job' = [job EXCEPT ![c] = revoked]
  <2>1. \A path : ReportFailure(path) = cycle \/ ReportFailure(path).step = "probe"
    BY DEF ReportFailure
  <2>2. CASE SendFails(c)
    BY <2>1, <2>2 DEF SendFails, watchd, history
  <2>3. CASE SendRevoked(c)
    BY <2>3 DEF SendRevoked, watchd, paths, history
  <2> QED BY <2>2, <2>3
<1>2. job[c] \in Job /\ Working(job[c], sent[c], since[c], answered[c], aged, published)
  BY <1>1, OfChat, Apart
<1>3. Counted' /\ Routed'
  BY <1>1, DeliveryAssumption DEF IInv, Counted, Routed, Fault
<1>4. /\ revoked \in Job /\ revoked.step = "revokedSync" /\ revoked.receipts = job[c].receipts
      /\ revoked.messages = job[c].messages
  BY <1>2 DEF Job, Busy, Path
<1> HIDE DEF revoked
<1>5. Working(NoJob, sent[c], since[c], answered[c], aged, published)
  BY DEF Working, NoJob
<1>6. Working(revoked, sent[c], since[c], answered[c], aged, published)
  BY <1>1, <1>2, <1>4 DEF Working
<1> QED BY <1>1, <1>3, <1>4, <1>5, <1>6, StepJob

\* The event a worker with one in hand has in hand.
LEMMA InHand ==
    ASSUME IInv, NEW c \in Chat, job[c].step \notin {"none", "run"}
    PROVE  /\ job[c] \in Job /\ job[c].receipts = <<>>
           /\ Message(c) \in job[c].messages /\ Message(c) \in 1 .. published /\ Message(c) \in Nat
           /\ Message(c) = Min(job[c].messages) /\ published \in Nat /\ job[c].messages \subseteq 1 .. published
<1>1. job[c] \in Job /\ job[c].receipts = <<>> /\ job[c].messages # {} /\ job[c].messages \subseteq 1 .. published
  BY OfChat, Apart DEF Working
<1>2. job[c].messages \in SUBSET Nat /\ published \in Nat
  BY <1>1, OfChat DEF Job
<1> QED BY <1>1, <1>2, LeastNumber DEF Message

\* Telegram answers: a receipt is kept while the chat may have the event.
LEMMA StepAnswered ==
    ASSUME IInv, NEW c \in Chat, SendAnswered(c)
    PROVE  IInv'
<1> DEFINE n == Message(c)
           j2 == [job[c] EXCEPT !.step = "ack", !.via = "none"]
           an2 == answered[c] \cup {n}
<1>1. /\ job[c].step = "sending"
      /\ UNCHANGED <<published, aged, store, disk, confirmed, users, poll, paths, faults, moves>>
      /\ job' = [job EXCEPT ![c] = j2] /\ answered' = [answered EXCEPT ![c] = an2]
      /\ sent' = IF Allowed(c, n) THEN remember(c, n) ELSE sent
      /\ since' = IF Allowed(c, n) THEN [since EXCEPT ![c] = After(@, n)] ELSE since
  BY DEF SendAnswered, watchd
<1>2. /\ job[c] \in Job /\ job[c].receipts = <<>> /\ n \in job[c].messages /\ n \in 1 .. published
      /\ n \in Nat /\ n = Min(job[c].messages) /\ published \in Nat
      /\ job[c].messages \subseteq 1 .. published
  BY <1>1, InHand
<1>3. /\ n \notin job[c].closed
      /\ \A m \in job[c].messages : Covered(m, <<>>, job[c].closed, sent[c], since[c], aged)
  BY <1>1, <1>2, OfChat DEF Working, Undone
<1>4. Counted' /\ Routed'
  BY <1>1 DEF IInv, Counted, Routed, paths
<1>5. /\ j2 \in Job /\ j2.step = "ack" /\ j2.receipts = <<>> /\ j2.closed = job[c].closed
      /\ j2.messages = job[c].messages
  BY <1>1, <1>2 DEF Job, Busy, Path
<1> HIDE DEF n, j2
<1>6. ToSet(<<>>) = {}
  BY DEF ToSet
<1>7. n \notin ToSet(sent[c])
  BY <1>2, <1>3, <1>6 DEF Covered
<1>8. /\ job' \in [Chat -> Job \cup {NoJob}] /\ job'[c] = j2 /\ ButFor(c, job, job')
      /\ answered' \in [Chat -> SUBSET (1 .. published)] /\ answered'[c] = an2 /\ ButFor(c, answered, answered')
  <2>1. job \in [Chat -> Job \cup {NoJob}] /\ answered \in [Chat -> SUBSET (1 .. published)]
    BY DEF IInv, Typed
  <2>2. an2 \in SUBSET (1 .. published)
    BY <1>2, <2>1
  <2> HIDE DEF an2
  <2> QED BY <1>1, <1>5, <2>1, <2>2 DEF ButFor
<1>9. ButFor(c, confirmed, confirmed')
  BY <1>1 DEF ButFor
<1>10. answered[c] \subseteq an2 /\ n \in an2
  OBVIOUS
<1> HIDE DEF an2
<1>11. Stores'
  <2>1. \A d \in Chat : answered[d] \subseteq answered'[d]
    BY <1>8, <1>10 DEF ButFor
  <2> QED BY <1>1, <1>2, <2>1, StoresStay
<1>12. CASE Allowed(c, n)
  <2> DEFINE s2 == Remembered(sent[c], n)
             new == After(since[c], n)
  <2>1. /\ sent \in [Chat -> Seq(Nat)] /\ DOMAIN since = Chat
        /\ Lined(sent[c], since[c]) /\ Ordered(since[c])
    BY OfChat DEF IInv, Typed, Answers
  <2>2. sent' = [sent EXCEPT ![c] = s2] /\ since' = [since EXCEPT ![c] = new]
    BY <1>1, <1>7, <1>12 DEF remember, Remembered
  <2>3. /\ Lined(s2, new)
        /\ ToSet(s2) \subseteq ToSet(sent[c]) \cup {n} /\ n \in ToSet(s2)
        /\ \A m \in DOMAIN since[c] \cap ToSet(sent[c]) : m \in ToSet(s2) \/ Pushed(new, m)
    BY <1>2, <1>7, <2>1, RememberLined
  <2>4. Ordered(new)
    BY <1>2, <2>1, AfterOrdered
  <2>5. DOMAIN new = DOMAIN since[c] \cup {n}
    BY DEF After
  <2>6. \A m \in DOMAIN since[c] : m # n /\ Pushed(since[c], m) => Pushed(new, m)
    BY <1>2, <2>1, AfterPushed
  <2>7. s2 \in Seq(Nat)
    BY <2>3 DEF Lined
  <2> HIDE DEF s2, new
  <2>8. /\ sent' \in [Chat -> Seq(Nat)] /\ sent'[c] = s2 /\ ButFor(c, sent, sent')
        /\ DOMAIN since' = Chat /\ since'[c] = new /\ ButFor(c, since, since')
    BY <2>1, <2>2, <2>7 DEF ButFor
  <2>9. Typed'
    BY <1>1, <1>8, <2>8 DEF IInv, Typed
  <2>10. Answers(s2, new, an2, confirmed[c])
    BY <1>10, <2>3, <2>4, <2>5, OfChat DEF Answers
  <2>11. Receipted(s2, new, confirmed[c], aged)
    <3> SUFFICES ASSUME NEW m \in DOMAIN new, m > aged
                 PROVE  m \in ToSet(s2) \/ m \in confirmed[c] \/ Pushed(new, m)
      BY DEF Receipted
    <3>1. CASE m = n
      BY <2>3, <3>1
    <3>2. CASE m # n
      <4>1. m \in DOMAIN since[c]
        BY <2>5, <3>2
      <4>2. m \in ToSet(sent[c]) \/ m \in confirmed[c] \/ Pushed(since[c], m)
        BY <4>1, OfChat DEF Receipted
      <4> QED BY <2>3, <2>6, <3>2, <4>1, <4>2
    <3> QED BY <3>1, <3>2
  <2>12. Listed(new, ActiveRecipients, c)
    BY <1>12, <2>5, OfChat DEF Listed, Allowed
  <2>13. Working(j2, s2, new, an2, aged, published)
    <3>1. Undone(j2) = job[c].messages \ {n}
      BY <1>2, <1>5 DEF Undone
    <3>2. ASSUME NEW m \in Undone(j2) PROVE Covered(m, <<>>, job[c].closed, s2, new, aged)
      <4>1. m # n /\ Covered(m, <<>>, job[c].closed, sent[c], since[c], aged)
        BY <1>3, <3>1, <3>2
      <4>2. m \in ToSet(s2) => m \in job[c].closed
        BY <1>6, <2>3, <4>1 DEF Covered
      <4>3. m \in DOMAIN new /\ m > aged => m \in job[c].closed \/ Pushed(new, m)
        BY <1>6, <2>5, <2>6, <4>1 DEF Covered
      <4> QED BY <4>2, <4>3 DEF Covered
    <3> QED BY <1>2, <1>5, <1>6, <1>10, <3>2 DEF Working
  <2> QED BY <1>1, <1>4, <1>8, <1>9, <1>11, <2>8, <2>9, <2>10, <2>11, <2>12, <2>13, StepOf
<1>13. CASE ~Allowed(c, n)
  <2>1. sent' = sent /\ since' = since
    BY <1>1, <1>13
  <2>2. ButFor(c, sent, sent') /\ ButFor(c, since, since')
    BY <2>1 DEF ButFor
  <2>3. Typed'
    BY <1>1, <1>8, <2>1 DEF IInv, Typed
  <2>4. /\ Answers(sent[c], since[c], an2, confirmed[c])
        /\ Receipted(sent[c], since[c], confirmed[c], aged)
    BY <1>10, OfChat DEF Answers
  <2>5. Working(j2, sent[c], since[c], an2, aged, published)
    <3>1. Undone(j2) \subseteq job[c].messages
      BY <1>5 DEF Undone
    <3> QED BY <1>2, <1>3, <1>5, <1>6, <1>10, <3>1 DEF Working
  <2> QED BY <1>1, <1>4, <1>8, <1>9, <1>11, <2>1, <2>2, <2>3, <2>4, <2>5, OfChat, StepOf
<1> QED BY <1>12, <1>13

\* 403: the users of the chat, and with them what every chat may have, change.
LEMMA StepForbidden ==
    ASSUME IInv, NEW c \in Chat, SendForbidden(c)
    PROVE  IInv'
<1> DEFINE n == Message(c)
           j2 == [job[c] EXCEPT !.step = "blockedSync", !.via = "none"]
           an2 == answered[c] \cup {n}
<1>1. /\ job[c].step = "sending" /\ Fault /\ Outlasts(RecipientsOf(users'))
      /\ UNCHANGED <<published, aged, store, disk, confirmed, sent, poll, paths, moves>>
      /\ job' = [job EXCEPT ![c] = j2] /\ answered' = [answered EXCEPT ![c] = an2]
  BY DEF SendForbidden, watchd
<1>2. /\ job[c] \in Job /\ job[c].receipts = <<>> /\ n \in job[c].messages /\ n \in 1 .. published
      /\ n = Min(job[c].messages) /\ job[c].messages \subseteq 1 .. published
  BY <1>1, InHand
<1>3. Counted' /\ Routed'
  BY <1>1, DeliveryAssumption DEF IInv, Counted, Routed, paths, Fault
<1>4. /\ j2 \in Job /\ j2.step = "blockedSync" /\ j2.receipts = <<>> /\ j2.messages = job[c].messages
  BY <1>1, <1>2 DEF Job, Busy, Path
<1> HIDE DEF n, j2
<1>5. /\ job' \in [Chat -> Job \cup {NoJob}] /\ job'[c] = j2 /\ ButFor(c, job, job')
      /\ answered' \in [Chat -> SUBSET (1 .. published)] /\ answered'[c] = an2 /\ ButFor(c, answered, answered')
  <2>1. job \in [Chat -> Job \cup {NoJob}] /\ answered \in [Chat -> SUBSET (1 .. published)]
    BY DEF IInv, Typed
  <2>2. an2 \in SUBSET (1 .. published)
    BY <1>2, <2>1
  <2> HIDE DEF an2
  <2> QED BY <1>1, <1>4, <2>1, <2>2 DEF ButFor
<1>6. answered[c] \subseteq an2 /\ n \in an2
  OBVIOUS
<1> HIDE DEF an2
<1>7. Typed'
  <2>1. DOMAIN since' = Chat
    BY <1>1 DEF Outlasts
  <2> QED BY <1>1, <1>5, <2>1 DEF IInv, Typed
<1>8. ASSUME NEW d \in Chat
      PROVE  Delivering(poll', d, job'[d], sent'[d], since'[d], answered'[d], confirmed'[d],
                        aged', published', ActiveRecipients')
  <2>1. Restricts(since'[d], since[d]) /\ Listed(since'[d], ActiveRecipients', d)
    BY <1>1, Outlasting, NewRecipients
  <2>2. Lined(sent[d], since[d]) /\ confirmed[d] \subseteq answered[d]
    BY OfChat DEF Answers
  <2>3. answered[d] \subseteq answered'[d]
    BY <1>5, <1>6 DEF ButFor
  <2>4. /\ Answers(sent[d], since'[d], answered'[d], confirmed[d])
        /\ Receipted(sent[d], since'[d], confirmed[d], aged)
    <3>1. Accounted(sent[d], sent[d], since'[d], confirmed[d], aged)
      BY DEF Accounted
    <3>2. aged <= aged /\ aged \in Nat /\ DOMAIN since[d] \subseteq Nat
      BY OfChat
    <3>3. /\ Answers(sent[d], since[d], answered[d], confirmed[d])
          /\ Receipted(sent[d], since[d], confirmed[d], aged)
      BY OfChat
    <3>4. confirmed[d] \subseteq answered'[d]
      BY <2>2, <2>3
    <3> QED BY <2>1, <2>2, <2>3, <3>1, <3>2, <3>3, <3>4, RecordKeeps
  <2>5. /\ Working(job[d], sent[d], since'[d], answered'[d], aged, published)
        /\ Found(poll, d, job[d], sent[d], since'[d], answered'[d], aged, published)
    <3>1. aged <= aged /\ published <= published /\ aged \in Nat /\ published \in Nat
      BY OfChat
    <3>2. /\ Working(job[d], sent[d], since[d], answered[d], aged, published)
          /\ Found(poll, d, job[d], sent[d], since[d], answered[d], aged, published)
          /\ job[d] \in Job \cup {NoJob}
      BY OfChat
    <3> QED BY <2>1, <2>3, <3>1, <3>2, ChatFades
  <2>6. /\ Working(job'[d], sent[d], since'[d], answered'[d], aged, published)
        /\ Found(poll, d, job'[d], sent[d], since'[d], answered'[d], aged, published)
    <3>1. CASE d # c
      BY <1>5, <2>5, <3>1 DEF ButFor
    <3>2. CASE d = c
      <4>1. ToSet(<<>>) = {}
        BY DEF ToSet
      <4>2. Working(j2, sent[c], since'[c], answered'[c], aged, published)
        BY <1>2, <1>4, <1>5, <1>6, <4>1 DEF Working
      <4>3. Found(poll, c, j2, sent[c], since'[c], answered'[c], aged, published)
        BY <1>1, OfChat DEF Found
      <4> QED BY <1>5, <3>2, <4>2, <4>3
    <3> QED BY <3>1, <3>2
  <2> QED BY <1>1, <2>1, <2>4, <2>6 DEF Delivering
<1>9. Stores'
  <2>1. \A d \in Chat : answered[d] \subseteq answered'[d]
    BY <1>5, <1>6 DEF ButFor
  <2>2. published' \in Nat /\ published <= published'
    BY <1>1, DeliveryAssumption DEF IInv, Counted
  <2> QED BY <1>1, <2>1, <2>2, StoresStay
<1> QED BY <1>3, <1>7, <1>8, <1>9 DEF IInv, Chats

LEMMA StepAck ==
    ASSUME IInv, NEW c \in Chat, WorkAck(c)
    PROVE  IInv'
<1> DEFINE n == Message(c)
           next == [job[c] EXCEPT !.step = "run", !.messages = @ \ {n}]
<1>1. /\ job[c].step \in {"ack", "blockedAck"}
      /\ UNCHANGED <<published, aged, users, poll, answered, since, paths, moves>>
      /\ job' = [job EXCEPT ![c] = IF job[c].step = "blockedAck" THEN NoJob ELSE next]
  BY DEF WorkAck
<1>2. PICK ok \in BOOLEAN : AckCall(c, n, ok) /\ sent' = IF ok THEN forget(c, n) ELSE sent
  BY DEF WorkAck
<1>3. /\ job[c] \in Job /\ job[c].receipts = <<>> /\ n \in job[c].messages /\ n \in 1 .. published
      /\ n = Min(job[c].messages) /\ job[c].messages \subseteq 1 .. published
  BY <1>1, InHand
<1>4. n \in answered[c]
  BY <1>1, <1>3, OfChat DEF Working
<1>5. /\ next \in Job /\ next.step = "run" /\ next.receipts = <<>> /\ next.closed = job[c].closed
      /\ next.messages = job[c].messages \ {n}
  <2> HIDE DEF n
  <2> QED BY <1>1, <1>3 DEF Job, Busy
<1> HIDE DEF n, next
<1>6. Recorded(c) /\ (ok => n \in confirmed'[c])
  <2>1. published' = published /\ answered' = answered
    BY <1>1
  <2> QED BY <1>2, <1>4, <2>1, Acknowledges
<1>7. /\ sent' \in [Chat -> Seq(Nat)] /\ ButFor(c, sent, sent') /\ Lined(sent'[c], since[c])
      /\ ToSet(sent'[c]) \subseteq ToSet(sent[c])
      /\ \A m \in ToSet(sent[c]) : m \in ToSet(sent'[c]) \/ (m = n /\ ok)
  <2>1. CASE ok
    <3>1. sent' = forget(c, n)
      BY <1>2, <2>1
    <3>2. /\ sent' \in [Chat -> Seq(Nat)] /\ ButFor(c, sent, sent')
          /\ Lined(sent'[c], since[c]) /\ ToSet(sent'[c]) = ToSet(sent[c]) \ {n}
      BY <3>1, Forgets
    <3> QED BY <2>1, <3>2
  <2>2. CASE ~ok
    BY <1>2, <2>2, Remains
  <2> QED BY <2>1, <2>2
<1>8. /\ Answers(sent'[c], since[c], answered[c], confirmed'[c])
      /\ Receipted(sent'[c], since[c], confirmed'[c], aged)
  <2>1. Accounted(sent[c], sent'[c], since[c], confirmed'[c], aged)
    BY <1>6, <1>7 DEF Accounted
  <2>2. confirmed[c] \subseteq confirmed'[c] /\ confirmed'[c] \subseteq answered[c]
    BY <1>6 DEF Recorded
  <2>3. Lined(sent'[c], since[c]) /\ ToSet(sent'[c]) \subseteq ToSet(sent[c])
    BY <1>7
  <2> QED BY <2>1, <2>2, <2>3, WorkKeeps
<1>9. /\ job' \in [Chat -> Job \cup {NoJob}] /\ ButFor(c, job, job')
      /\ job'[c] = NoJob \/ (job'[c] = next /\ job[c].step = "ack")
  <2>1. job \in [Chat -> Job \cup {NoJob}]
    BY DEF IInv, Typed
  <2> QED BY <1>1, <1>5, <2>1 DEF ButFor
<1>10. Working(job'[c], sent'[c], since[c], answered[c], aged, published)
  <2>1. CASE job'[c] = NoJob
    BY <2>1 DEF Working, NoJob
  <2>2. CASE job'[c] = next /\ job[c].step = "ack"
    <3>1. Undone(next) = next.messages /\ Undone(job[c]) = next.messages
      BY <1>3, <1>5, <2>2 DEF Undone
    <3>2. ASSUME NEW m \in next.messages
          PROVE  Covered(m, <<>>, job[c].closed, sent'[c], since[c], aged)
      <4>1. Covered(m, <<>>, job[c].closed, sent[c], since[c], aged)
        BY <1>3, <2>2, <3>1, <3>2, OfChat DEF Working
      <4> QED BY <1>7, <4>1 DEF Covered
    <3>3. ToSet(<<>>) = {}
      BY DEF ToSet
    <3> QED BY <1>3, <1>5, <2>2, <3>1, <3>2, <3>3 DEF Working
  <2> QED BY <1>9, <2>1, <2>2
<1>11. Counted' /\ Routed'
  BY <1>1, <1>6, DeliveryAssumption DEF IInv, Counted, Routed, paths, Fault, Recorded
<1>12. Typed'
  BY <1>1, <1>6, <1>7, <1>9 DEF IInv, Typed, Recorded
<1>13. ButFor(c, since, since') /\ ButFor(c, answered, answered')
  BY <1>1 DEF ButFor
<1>14. since' = since /\ answered' = answered /\ Listed(since[c], ActiveRecipients, c)
  BY <1>1, OfChat
<1>15. job[c].step # "none" /\ ButFor(c, confirmed, confirmed') /\ Stores'
  BY <1>1, <1>6 DEF Recorded
<1> QED BY <1>1, <1>7, <1>8, <1>9, <1>10, <1>11, <1>12, <1>13, <1>14, <1>15, StepOf

-----------------------------------------------------------------------------
(* The theorems                                                              *)

\* The bot and any store that keeps Mailbox's promise.
SpecAny == Init /\ [][Next \/ ReadAny]_vars

LEMMA Inductive ==
    ASSUME IInv, [Next \/ ReadAny]_vars
    PROVE  IInv'
<1>1. CASE ReadAny
  BY <1>1, StepRead
<1>2. CASE Next \/ UNCHANGED vars
  <2>1. CASE Next
    <3>1. CASE Publish \/ Age \/ WatchdRestart
      BY <3>1, StepTime
    <3>2. CASE ApplyLate \/ WatchdSave
      BY <3>2, StepQuiet
    <3>3. CASE (\E u \in User, c \in Chat : Interact(u, c)) \/ (\E u \in User : SetInactive(u))
      BY <3>3, StepUsers
    <3>4. CASE UpdateSync \/ PollSync
      BY <3>4, StepSync
    <3>5. CASE EndSync
      BY <3>5, StepEndSync
    <3>6. CASE PollRead
      BY <3>6, PendingIsOpen, StepRead
    <3>7. CASE PollInstall
      BY <3>7, StepInstall
    <3>8. CASE SelectProbe \/ SelectSet \/ PathsChange
      BY <3>8, StepPath
    <3>9. CASE BotRestart
      BY <3>9, StepRestart
    <3>10. CASE PruneSync
      BY <3>10, StepPrune
    <3>11. ASSUME NEW c \in Chat, Work(c) PROVE IInv'
      <4>1. CASE WorkReceipt(c)
        BY <4>1, StepReceipt
      <4>2. CASE WorkMessage(c)
        BY <4>2, StepMessage
      <4>3. CASE SendAnswered(c)
        BY <4>3, StepAnswered
      <4>4. CASE SendFails(c) \/ SendRevoked(c)
        BY <4>4, StepFails
      <4>5. CASE SendForbidden(c)
        BY <4>5, StepForbidden
      <4>6. CASE WorkSync(c)
        BY <4>6, StepSync
      <4>7. CASE WorkAck(c)
        BY <4>7, StepAck
      <4> QED BY <3>11, <4>1, <4>2, <4>3, <4>4, <4>5, <4>6, <4>7 DEF Work
    <3> QED BY <2>1, <3>1, <3>2, <3>3, <3>4, <3>5, <3>6, <3>7, <3>8, <3>9, <3>11, <3>10 DEF Next
  <2>2. CASE UNCHANGED vars
    <3>1. /\ UNCHANGED <<published, aged, store, disk, users, sent, job, history, paths, faults, moves>>
          /\ poll' = poll
      BY <2>2 DEF vars, watchd
    <3>2. Counted' /\ Routed'
      BY <3>1 DEF IInv, Counted, Routed, paths
    <3> QED BY <3>1, <3>2, StepStill
  <2> QED BY <1>2, <2>1, <2>2
<1> QED BY <1>1, <1>2

\* The bookkeeping of both sides - what watchd remembers and has saved, the bot's
\* receipts and jobs, and the path in use - holds in every reachable state.
THEOREM Invariance == Spec => []IInv
<1>1. ASSUME IInv, [Next]_vars PROVE IInv'
  BY <1>1, Inductive
<1> QED BY <1>1, Initially, PTL DEF Spec

\* A chat's receipts never outgrow notificationMaxPerChat, acknowledgements are
\* of published events, and the path chosen and the one in use are real ones or
\* none.
THEOREM TypeCorrect == Spec => []TypeOK
<1>1. IInv => TypeOK
  <2> SUFFICES ASSUME IInv PROVE TypeOK
    OBVIOUS
  <2>1. ASSUME NEW c \in Chat PROVE Len(sent[c]) <= MaxPerChat /\ store.closed[c] \subseteq 1 .. published
    <3>1. store.closed[c] \subseteq answered[c] /\ answered[c] \subseteq 1 .. published
      BY OfChat DEF IInv, Stores, Sound
    <3> QED BY <3>1, OfChat DEF Answers, Lined
  <2>2. {current, bound} \subseteq {"none", "direct"} \cup Backup
    BY DEF IInv, Routed, Path
  <2> QED BY <2>1, <2>2 DEF TypeOK, IInv, Counted
<1> QED BY <1>1, Invariance, PTL

LEMMA Answered == IInv => ClosedWasAnswered
BY DEF ClosedWasAnswered, IInv, Stores, Sound

\* An event is acknowledged only after Telegram gave a final answer for it.
THEOREM AckedAfterAnswer == Spec => []ClosedWasAnswered
BY Answered, Invariance, PTL

LEMMA Pushes == IInv => NoRepeat
<1> SUFFICES ASSUME IInv, NEW c \in Chat, job[c].step = "sending", Message(c) \in DOMAIN since[c]
             PROVE  Cardinality(since[c][Message(c)]) >= MaxPerChat
  BY DEF NoRepeat
<1> QED BY OfChat DEF Working, Message, Pushed

\* No event Telegram answered for is sent again while the bot runs and the chat
\* may have it - by its users at every moment and by the list of every sync at the
\* moment it prunes, which may be stale - unless a whole queue of later answers
\* pushed its receipt out.
THEOREM NotRepeated == Spec => []NoRepeat
BY Pushes, Invariance, PTL

\* Neither rests on what watchd offers beyond Mailbox's promise, which
\* NotificationStore implements: with any store that never offers what it
\* answered OK for, the bot acknowledges and repeats no more than with this one.
THEOREM AnyStore == SpecAny => [](ClosedWasAnswered /\ NoRepeat)
<1>1. ASSUME IInv, [Next \/ ReadAny]_vars PROVE IInv'
  BY <1>1, Inductive
<1>2. IInv => ClosedWasAnswered /\ NoRepeat
  BY Answered, Pushes
<1> QED BY <1>1, <1>2, Initially, PTL DEF SpecAny
=============================================================================
