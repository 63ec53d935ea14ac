---------------------------- MODULE RulesetProofs ----------------------------
(***************************************************************************)
(* Lemmas about the firewall rules and the scripts that install and remove  *)
(* them, for every list of excluded networks, every configuration and every *)
(* ruleset a killed daemon may have left.                                   *)
(***************************************************************************)
EXTENDS Ruleset, WellFoundedInduction, SequenceTheorems, TLAPS
-----------------------------------------------------------------------------

LEMMA LeastOf ==
  ASSUME NEW S \in SUBSET Nat, S # {}
  PROVE  Min(S) \in S /\ \A n \in S : Min(S) <= n
<1> DEFINE less == OpToRel(<, Nat)
<1>1. IsWellFoundedOn(less, Nat)
  BY NatLessThanWellFounded
<1>2. ASSUME NEW a \in Nat, NEW b \in Nat, a < b PROVE <<a, b>> \in less
  <2>1. <<a, b>> \in Nat \X Nat /\ <<a, b>>[1] < <<a, b>>[2]
    BY <1>2
  <2>2. less = {ss \in Nat \X Nat : ss[1] < ss[2]}
    BY Zenon DEF OpToRel
  <2> QED
    BY <2>1, <2>2, Zenon
<1> HIDE DEF less
<1>3. PICK least \in S : \A n \in S : ~ (<<n, least>> \in less)
  BY <1>1, WFMin
<1>4. ASSUME NEW n \in S PROVE least <= n
  <2>1. n \in Nat /\ least \in Nat
    OBVIOUS
  <2>2. ~ (n < least)
    BY <1>2, <1>3, <2>1
  <2> QED
    BY <2>1, <2>2
<1> QED
  BY <1>4 DEF Min

-----------------------------------------------------------------------------
(* A list: its elements under the numbers from 1 to its length.              *)
List(s) == Len(s) \in Nat /\ s = [k \in 1..Len(s) |-> s[k]]

LEMMA ListOf ==
  ASSUME NEW S, NEW s \in Seq(S)
  PROVE  List(s) /\ DOMAIN s = 1..Len(s) /\ \A k \in 1..Len(s) : s[k] \in S
  BY DEF List

LEMMA ListIn ==
  ASSUME NEW S, NEW s, List(s), \A k \in 1..Len(s) : s[k] \in S
  PROVE  s \in Seq(S)
  BY DEF List

LEMMA ListMade ==
  ASSUME NEW n \in Nat, NEW e(_)
  PROVE  LET s == [k \in 1..n |-> e(k)] IN List(s) /\ Len(s) = n /\ \A k \in 1..n : s[k] = e(k)
  BY DEF List

(* The elements of a list.                                                   *)
LEMMA ListHas ==
  ASSUME NEW s, List(s)
  PROVE  s \in Seq(Range(s)) /\ Range(s) = {s[k] : k \in 1..Len(s)} /\ DOMAIN s = 1..Len(s)
<1>1. DOMAIN s = 1..Len(s) /\ Len(s) \in Nat
  BY DEF List
<1>2. Range(s) = {s[k] : k \in 1..Len(s)}
  BY <1>1 DEF Range
<1>3. \A k \in 1..Len(s) : s[k] \in Range(s)
  BY <1>2
<1> QED
  BY <1>1, <1>2, <1>3, ListIn

LEMMA ListsEqual ==
  ASSUME NEW s, NEW t, List(s), List(t), Len(s) = Len(t), \A k \in 1..Len(s) : s[k] = t[k]
  PROVE  s = t
  BY DEF List

LEMMA ListsJoined ==
  ASSUME NEW s, NEW t, List(s), List(t)
  PROVE  /\ List(s \o t) /\ Len(s \o t) = Len(s) + Len(t)
         /\ \A k \in 1..(Len(s) + Len(t)) : (s \o t)[k] = IF k <= Len(s) THEN s[k] ELSE t[k - Len(s)]
<1> DEFINE S == Range(s) \cup Range(t)
<1>1. s \in Seq(S) /\ t \in Seq(S)
  <2>1. s \in Seq(Range(s)) /\ t \in Seq(Range(t))
    BY ListHas
  <2> QED
    BY <2>1
<1> HIDE DEF S
<1> QED
  BY <1>1, ConcatProperties, ListOf

Joining(u, s, m, t, n) ==
  /\ List(u) /\ Len(u) = m + n
  /\ \A k \in 1..(m + n) : u[k] = IF k <= m THEN s[k] ELSE t[k - m]
LEMMA ListsOf ==
  ASSUME NEW s, NEW t, List(s), List(t)
  PROVE  \A m, n : Len(s) = m /\ Len(t) = n => Joining(s \o t, s, m, t, n)
<1>1. Joining(s \o t, s, Len(s), t, Len(t))
  BY ListsJoined DEF Joining
<1> QED
  BY <1>1, Zenon

LEMMA ListAppended ==
  ASSUME NEW s, List(s), NEW x
  PROVE  /\ List(Append(s, x)) /\ Len(Append(s, x)) = Len(s) + 1
         /\ \A k \in 1..Len(s) : Append(s, x)[k] = s[k]
         /\ Append(s, x)[Len(s) + 1] = x
<1> DEFINE S == Range(s) \cup {x}
<1>1. s \in Seq(S) /\ x \in S
  <2>1. s \in Seq(Range(s))
    BY ListHas
  <2> QED
    BY <2>1
<1> HIDE DEF S
<1>2. /\ Append(s, x) \in Seq(S) /\ Append(s, x) # << >> /\ Len(Append(s, x)) = Len(s) + 1
      /\ \A k \in 1..Len(s) : Append(s, x)[k] = s[k]
      /\ Append(s, x)[Len(s) + 1] = x
  BY <1>1, AppendProperties
<1> QED
  BY <1>2, ListOf

(* What is left of a list after the first n.                                 *)
After(s, n) == SubSeq(s, n + 1, Len(s))
LEMMA NextOf ==
  ASSUME NEW s, List(s), NEW n \in 0..Len(s)
  PROVE  /\ n = 0 => After(s, n) = s
         /\ n = Len(s) <=> After(s, n) = << >>
         /\ n < Len(s) => Head(After(s, n)) = s[n + 1] /\ Tail(After(s, n)) = After(s, n + 1)
<1>1. s \in Seq(Range(s)) /\ Len(s) \in Nat
  BY ListHas DEF List
<1>2. n = 0 => After(s, n) = s
  BY <1>1, SubSeqFull DEF After
<1>3. n = Len(s) => After(s, n) = << >>
  BY <1>1, SubSeqEmpty DEF After
<1>4. ASSUME n < Len(s)
      PROVE  Head(After(s, n)) = s[n + 1] /\ Tail(After(s, n)) = After(s, n + 1) /\ After(s, n) # << >>
  <2>1. n + 1 \in 1..Len(s) /\ Len(s) \in (n + 1)..Len(s) /\ n \in Nat
    BY <1>1, <1>4
  <2>2. /\ Head(SubSeq(s, n + 1, Len(s))) = s[n + 1]
        /\ Tail(SubSeq(s, n + 1, Len(s))) = SubSeq(s, n + 1 + 1, Len(s))
    BY <1>1, <2>1, HeadTailOfSubSeq
  <2>3. SubSeq(s, n + 1, Len(s)) = <<s[n + 1]>> \o SubSeq(s, n + 1 + 1, Len(s))
    BY <1>1, <2>1, SubSeqRecursiveFirst
  <2>4. Len(SubSeq(s, n + 1, Len(s))) = Len(s) - (n + 1) + 1
    <3>1. \A i \in (n + 1)..Len(s) : s[i] \in Range(s)
      BY <1>1, <2>1, ListOf
    <3> QED
      BY <1>1, <2>1, <3>1, SubSeqProperties
  <2>5. After(s, n) # << >>
    <3>1. Len(After(s, n)) > 0
      BY <1>1, <1>4, <2>1, <2>4 DEF After
    <3>2. Len(<< >>) = 0
      OBVIOUS
    <3> QED
      BY <3>1, <3>2
  <2> QED
    BY <2>2, <2>5 DEF After
<1> QED
  BY <1>1, <1>2, <1>3, <1>4

-----------------------------------------------------------------------------
(* Groups of m commands, one after the other: group j begins behind from[j].  *)
Joins(m, n, s, from, at) ==
  /\ m \in Nat /\ n \in Nat /\ n > 0
  /\ List(s) /\ Len(s) = n /\ \A j \in 1..n : List(s[j]) /\ Len(s[j]) = m
  /\ from \in [1..(n + 1) -> Nat] /\ from[1] = 0 /\ \A j \in 1..n : from[j + 1] = from[j] + m
  /\ \A j \in 1..n, r \in 1..m : at[from[j] + r] = s[j][r]

LEMMA Joined ==
  ASSUME NEW m, NEW n, NEW s, NEW from, NEW at, Joins(m, n, s, from, at)
  PROVE  FlattenSeq(s) = [k \in 1..from[n + 1] |-> at[k]]
<1> USE DEF Joins
<1> DEFINE step(g) == [i \in 1..Len(s) |-> IF i = 1 THEN s[i] ELSE g[i - 1] \o s[i]]
           flatten == CHOOSE g : g = step(g)
           whole   == [j \in 1..n |-> [k \in 1..from[j + 1] |-> at[k]]]
<1>1. FlattenSeq(s) = flatten[n]
  BY DEF FlattenSeq
<1>2. \A j \in 1..n : /\ from[j] \in Nat /\ from[j + 1] \in Nat
                      /\ List(whole[j]) /\ Len(whole[j]) = from[j + 1]
                      /\ \A k \in 1..from[j + 1] : whole[j][k] = at[k]
  BY DEF List
<1> HIDE DEF whole
<1>3. whole[1] = s[1]
  <2>1. 1 \in 1..n /\ from[1 + 1] = m
    OBVIOUS
  <2>2. List(whole[1]) /\ Len(whole[1]) = m /\ \A k \in 1..m : whole[1][k] = at[k]
    BY <1>2, <2>1
  <2>3. \A k \in 1..m : at[k] = s[1][k]
    <3>1. ASSUME NEW k \in 1..m PROVE at[k] = s[1][k]
      <4>1. at[from[1] + k] = s[1][k]
        BY <2>1
      <4> QED
        BY <4>1
    <3> QED
      BY <3>1
  <2>4. List(s[1]) /\ Len(s[1]) = m
    BY <2>1
  <2>5. Len(whole[1]) = Len(s[1]) /\ \A k \in 1..Len(whole[1]) : whole[1][k] = s[1][k]
    BY <2>2, <2>3, <2>4, Zenon
  <2> QED
    BY <2>2, <2>4, <2>5, ListsEqual, Zenon
<1>4. ASSUME NEW i \in 1..n, i # 1 PROVE whole[i] = whole[i - 1] \o s[i]
  <2>1. PICK h \in 1..n : h = i - 1 /\ i = h + 1
    BY <1>4
  <2> DEFINE joined == whole[h] \o s[i]
  <2>2. PICK len \in Nat : len = from[i]
    OBVIOUS
  <2>3. /\ List(whole[h]) /\ Len(whole[h]) = len /\ \A k \in 1..len : whole[h][k] = at[k]
        /\ List(whole[i]) /\ Len(whole[i]) = len + m /\ \A k \in 1..(len + m) : whole[i][k] = at[k]
    BY <1>2, <2>1, <2>2
  <2>g. List(s[i]) /\ Len(s[i]) = m
    OBVIOUS
  <2>4. /\ List(joined) /\ Len(joined) = len + m
        /\ \A k \in 1..(len + m) : joined[k] = IF k <= len THEN whole[h][k] ELSE s[i][k - len]
    <3>1. /\ List(joined) /\ Len(joined) = Len(whole[h]) + Len(s[i])
          /\ \A k \in 1..(Len(whole[h]) + Len(s[i])) :
               joined[k] = IF k <= Len(whole[h]) THEN whole[h][k] ELSE s[i][k - Len(whole[h])]
      BY <2>3, <2>g, ListsJoined, Zenon
    <3> QED
      BY <2>3, <2>g, <3>1, Zenon
  <2> HIDE DEF joined
  <2>5. ASSUME NEW k \in 1..(len + m) PROVE whole[i][k] = joined[k]
    <3>1. CASE k <= len
      <4>1. k \in 1..len
        BY <3>1
      <4>2. joined[k] = whole[h][k]
        BY <2>4, <3>1, Zenon
      <4> QED
        BY <2>3, <4>1, <4>2, Zenon
    <3>2. CASE k > len
      <4>1. PICK r \in 1..m : k = len + r /\ r = k - len
        BY <3>2
      <4>2. at[len + r] = s[i][r]
        BY <2>2
      <4>3. ~ (k <= len)
        BY <3>2
      <4>4. joined[k] = s[i][r]
        BY <2>4, <4>1, <4>3, Zenon
      <4>5. whole[i][k] = at[len + r]
        BY <2>3, <4>1, Zenon
      <4> QED
        BY <4>2, <4>4, <4>5
    <3> QED
      BY <3>1, <3>2
  <2>6. whole[i] = joined
    <3>1. List(whole[i]) /\ List(joined) /\ Len(whole[i]) = Len(joined)
      BY <2>3, <2>4
    <3>2. \A k \in 1..Len(whole[i]) : whole[i][k] = joined[k]
      BY <2>3, <2>5
    <3> QED
      BY <3>1, <3>2, ListsEqual, Zenon
  <2> QED
    BY <2>1, <2>6 DEF joined
<1>5. whole = step(whole)
  <2>1. ASSUME NEW i \in 1..n PROVE whole[i] = IF i = 1 THEN s[i] ELSE whole[i - 1] \o s[i]
    BY <1>3, <1>4
  <2>2. whole = [j \in 1..n |-> whole[j]]
    BY Zenon DEF whole
  <2> QED
    BY <2>1, <2>2
<1>6. flatten = step(flatten)
  BY <1>5, Zenon
<1> HIDE DEF flatten
<1>7. \A i \in 1..n : flatten[i] = IF i = 1 THEN s[i] ELSE flatten[i - 1] \o s[i]
  BY <1>6
<1>8. \A i \in 1..n : flatten[i] = whole[i]
  <2> DEFINE wrong == {i \in 1..n : flatten[i] # whole[i]}
  <2> SUFFICES ASSUME wrong # {} PROVE FALSE
    OBVIOUS
  <2>1. PICK least \in wrong : \A i \in wrong : least <= i
    <3>1. wrong \in SUBSET Nat
      OBVIOUS
    <3> QED
      BY <3>1, LeastOf
  <2>2. CASE least = 1
    BY <1>3, <1>7, <2>1, <2>2
  <2>3. CASE least # 1
    <3>1. least - 1 \in 1..n /\ least \in 1..n /\ least - 1 \notin wrong
      BY <2>1, <2>3
    <3>2. flatten[least - 1] = whole[least - 1] /\ flatten[least] # whole[least]
      BY <3>1
    <3>3. whole[least] = whole[least - 1] \o s[least]
      BY <1>4, <2>3, <3>1
    <3>4. flatten[least] = flatten[least - 1] \o s[least]
      BY <1>7, <2>3, <3>1
    <3> QED
      BY <3>2, <3>3, <3>4
  <2> QED
    BY <2>2, <2>3
<1> QED
  BY <1>1, <1>8 DEF whole

(* Rows of one width, one after the other.                                   *)
Rows(s, n, w)      == List(s) /\ Len(s) = n /\ \A j \in 1..n : List(s[j]) /\ Len(s[j]) = w
Strung(u, s, n, w) == /\ List(u) /\ Len(u) = w * n
                      /\ \A j \in 1..n, r \in 1..w : u[w * (j - 1) + r] = s[j][r]

LEMMA Twos ==
  ASSUME NEW n \in Nat, NEW s, Rows(s, n, 2)
  PROVE  Strung(FlattenSeq(s), s, n, 2)
<1>3. List(s) /\ Len(s) = n /\ \A j \in 1..n : List(s[j]) /\ Len(s[j]) = 2
  BY Zenon DEF Rows
<1>1. CASE n = 0
  BY <1>1, <1>3 DEF FlattenSeq, Strung, List
<1>2. CASE n > 0
  <2> DEFINE from == [j \in 1..(n + 1) |-> 2 * (j - 1)]
             At(k) == CHOOSE x : \E i \in 1..n, q \in 1..2 : k = 2 * (i - 1) + q /\ x = s[i][q]
             at == [k \in 1..(2 * n) |-> At(k)]
  <2>1. /\ from \in [1..(n + 1) -> Nat] /\ from[1] = 0 /\ from[n + 1] = 2 * n
        /\ \A j \in 1..n : from[j + 1] = from[j] + 2 /\ from[j] = 2 * (j - 1)
    OBVIOUS
  <2>2. ASSUME NEW j \in 1..n, NEW r \in 1..2 PROVE at[2 * (j - 1) + r] = s[j][r]
    <3>1. \A i \in 1..n, q \in 1..2 : 2 * (j - 1) + r = 2 * (i - 1) + q => i = j /\ q = r
      OBVIOUS
    <3>2. 2 * (j - 1) + r \in 1..(2 * n)
      OBVIOUS
    <3>3. At(2 * (j - 1) + r) = s[j][r]
      BY <3>1
    <3> QED
      BY <3>2, <3>3
  <2> HIDE DEF from, at
  <2>3. ASSUME NEW j \in 1..n, NEW r \in 1..2 PROVE at[from[j] + r] = s[j][r]
    <3>1. from[j] = 2 * (j - 1)
      BY <2>1
    <3>2. at[2 * (j - 1) + r] = s[j][r]
      BY <2>2
    <3> QED
      BY <3>1, <3>2, Zenon
  <2>4. FlattenSeq(s) = [k \in 1..(2 * n) |-> at[k]]
    <3>1. PICK m \in Nat : m = 2
      OBVIOUS
    <3>2. /\ \A j \in 1..n : List(s[j]) /\ Len(s[j]) = m
          /\ \A j \in 1..n : from[j + 1] = from[j] + m
          /\ \A j \in 1..n, r \in 1..m : at[from[j] + r] = s[j][r]
      BY <1>3, <2>1, <2>3, <3>1
    <3>3. Joins(m, n, s, from, at)
      BY <1>2, <1>3, <2>1, <3>2 DEF Joins
    <3>4. FlattenSeq(s) = [k \in 1..from[n + 1] |-> at[k]]
      BY <3>3, Joined
    <3> QED
      BY <2>1, <3>4, Zenon
  <2>5. List(FlattenSeq(s)) /\ Len(FlattenSeq(s)) = 2 * n /\ \A k \in 1..(2 * n) : FlattenSeq(s)[k] = at[k]
    BY <2>4 DEF List
  <2>6. ASSUME NEW j \in 1..n, NEW r \in 1..2 PROVE FlattenSeq(s)[2 * (j - 1) + r] = s[j][r]
    <3>1. 2 * (j - 1) + r \in 1..(2 * n)
      OBVIOUS
    <3> QED
      BY <2>2, <2>5, <3>1
  <2> QED
    BY <2>5, <2>6 DEF Strung
<1> QED
  BY <1>1, <1>2, n = 0 \/ n > 0, Zenon

LEMMA Threes ==
  ASSUME NEW n \in Nat, NEW s, Rows(s, n, 3)
  PROVE  Strung(FlattenSeq(s), s, n, 3)
<1>3. List(s) /\ Len(s) = n /\ \A j \in 1..n : List(s[j]) /\ Len(s[j]) = 3
  BY Zenon DEF Rows
<1>1. CASE n = 0
  BY <1>1, <1>3 DEF FlattenSeq, Strung, List
<1>2. CASE n > 0
  <2> DEFINE from == [j \in 1..(n + 1) |-> 3 * (j - 1)]
             At(k) == CHOOSE x : \E i \in 1..n, q \in 1..3 : k = 3 * (i - 1) + q /\ x = s[i][q]
             at == [k \in 1..(3 * n) |-> At(k)]
  <2>1. /\ from \in [1..(n + 1) -> Nat] /\ from[1] = 0 /\ from[n + 1] = 3 * n
        /\ \A j \in 1..n : from[j + 1] = from[j] + 3 /\ from[j] = 3 * (j - 1)
    OBVIOUS
  <2>2. ASSUME NEW j \in 1..n, NEW r \in 1..3 PROVE at[3 * (j - 1) + r] = s[j][r]
    <3>1. \A i \in 1..n, q \in 1..3 : 3 * (j - 1) + r = 3 * (i - 1) + q => i = j /\ q = r
      OBVIOUS
    <3>2. 3 * (j - 1) + r \in 1..(3 * n)
      OBVIOUS
    <3>3. At(3 * (j - 1) + r) = s[j][r]
      BY <3>1
    <3> QED
      BY <3>2, <3>3
  <2> HIDE DEF from, at
  <2>3. ASSUME NEW j \in 1..n, NEW r \in 1..3 PROVE at[from[j] + r] = s[j][r]
    <3>1. from[j] = 3 * (j - 1)
      BY <2>1
    <3>2. at[3 * (j - 1) + r] = s[j][r]
      BY <2>2
    <3> QED
      BY <3>1, <3>2, Zenon
  <2>4. FlattenSeq(s) = [k \in 1..(3 * n) |-> at[k]]
    <3>1. PICK m \in Nat : m = 3
      OBVIOUS
    <3>2. /\ \A j \in 1..n : List(s[j]) /\ Len(s[j]) = m
          /\ \A j \in 1..n : from[j + 1] = from[j] + m
          /\ \A j \in 1..n, r \in 1..m : at[from[j] + r] = s[j][r]
      BY <1>3, <2>1, <2>3, <3>1
    <3>3. Joins(m, n, s, from, at)
      BY <1>2, <1>3, <2>1, <3>2 DEF Joins
    <3>4. FlattenSeq(s) = [k \in 1..from[n + 1] |-> at[k]]
      BY <3>3, Joined
    <3> QED
      BY <2>1, <3>4, Zenon
  <2>5. List(FlattenSeq(s)) /\ Len(FlattenSeq(s)) = 3 * n /\ \A k \in 1..(3 * n) : FlattenSeq(s)[k] = at[k]
    BY <2>4 DEF List
  <2>6. ASSUME NEW j \in 1..n, NEW r \in 1..3 PROVE FlattenSeq(s)[3 * (j - 1) + r] = s[j][r]
    <3>1. 3 * (j - 1) + r \in 1..(3 * n)
      OBVIOUS
    <3> QED
      BY <2>2, <2>5, <3>1
  <2> QED
    BY <2>5, <2>6 DEF Strung
<1> QED
  BY <1>1, <1>2, n = 0 \/ n > 0, Zenon

-----------------------------------------------------------------------------
(* The scripts, command by command.                                          *)
Nets(f) == Len(LocalNets[f])
Ways(c) == Len(Groups(c))

LEMMA ExcludeIs ==
  ASSUME NEW f \in Family
  PROVE  /\ Nets(f) \in Nat /\ List(Exclude(f)) /\ Len(Exclude(f)) = Nets(f)
         /\ DOMAIN Exclude(f) = 1..Nets(f) /\ DOMAIN LocalNets[f] = 1..Nets(f)
         /\ \A k \in 1..Nets(f) : Exclude(f)[k] = Rule(Iface, {LocalNets[f][k]}, Kind, "return")
<1>1. LocalNets[f] \in Seq(Range(LocalNets[f]))
  BY LocalNetsAssumption
<1>2. Nets(f) \in Nat /\ DOMAIN LocalNets[f] = 1..Nets(f)
  BY <1>1 DEF Nets
<1> QED
  BY <1>2 DEF Exclude, List

LEMMA GroupsAre ==
  ASSUME NEW c \in Configuration
  PROVE  /\ Ways(c) \in Nat /\ List(Groups(c)) /\ DOMAIN Groups(c) = 1..Ways(c)
         /\ \A k \in 1..Ways(c) : Groups(c)[k] \in SUBSET Iface
<1>1. c.alliface \in BOOLEAN /\ c.iface \in Seq(Iface)
  BY DEF Configuration
<1>2. CASE c.alliface
  BY <1>2 DEF Groups, Ways, List
<1>3. CASE ~c.alliface
  <2>1. Len(c.iface) \in Nat /\ DOMAIN c.iface = 1..Len(c.iface) /\ \A k \in 1..Len(c.iface) : c.iface[k] \in Iface
    BY <1>1
  <2> QED
    BY <1>3, <2>1 DEF Groups, Ways, List
<1> QED
  BY <1>1, <1>2, <1>3

LEMMA IptWays ==
  ASSUME NEW f \in Family, NEW c \in Configuration
  PROVE  /\ List(IptIfaceSetup(f, c)) /\ Len(IptIfaceSetup(f, c)) = 2 * Ways(c)
         /\ \A j \in 1..Ways(c) :
              /\ IptIfaceSetup(f, c)[2 * (j - 1) + 1] = Edit("append", "S", Jump(f, Groups(c)[j], "R"))
              /\ IptIfaceSetup(f, c)[2 * (j - 1) + 2] = Edit("append", "D", Jump(f, Groups(c)[j], "R"))
<1> DEFINE cmds(is) == << Edit("append", "S", Jump(f, is, "R")), Edit("append", "D", Jump(f, is, "R")) >>
           s == [k \in DOMAIN Groups(c) |-> cmds(Groups(c)[k])]
<1>1. IptIfaceSetup(f, c) = FlattenSeq(s)
  BY DEF IptIfaceSetup, ForIfaces
<1>2. Ways(c) \in Nat /\ List(s) /\ Len(s) = Ways(c) /\ \A j \in 1..Ways(c) : s[j] = cmds(Groups(c)[j])
  BY GroupsAre DEF List
<1>3. \A j \in 1..Ways(c) : /\ List(s[j]) /\ Len(s[j]) = 2
                            /\ s[j][1] = Edit("append", "S", Jump(f, Groups(c)[j], "R"))
                            /\ s[j][2] = Edit("append", "D", Jump(f, Groups(c)[j], "R"))
  BY <1>2 DEF List
<1> HIDE DEF s
<1>4. /\ List(FlattenSeq(s)) /\ Len(FlattenSeq(s)) = 2 * Ways(c)
      /\ \A j \in 1..Ways(c), r \in 1..2 : FlattenSeq(s)[2 * (j - 1) + r] = s[j][r]
  <2>1. Rows(s, Ways(c), 2)
    BY <1>2, <1>3 DEF Rows
  <2>2. Strung(FlattenSeq(s), s, Ways(c), 2)
    BY <1>2, <2>1, Twos
  <2> QED
    BY <2>2 DEF Strung
<1>5. \A j \in 1..Ways(c) : /\ FlattenSeq(s)[2 * (j - 1) + 1] = s[j][1]
                            /\ FlattenSeq(s)[2 * (j - 1) + 2] = s[j][2]
  BY <1>4
<1> QED
  BY <1>1, <1>3, <1>4, <1>5

LEMMA NftWays ==
  ASSUME NEW f \in Family, NEW c \in Configuration
  PROVE  /\ List(NftIfaceSetup(f, c)) /\ Len(NftIfaceSetup(f, c)) = 3 * Ways(c)
         /\ \A j \in 1..Ways(c) :
              /\ NftIfaceSetup(f, c)[3 * (j - 1) + 1] = Edit("insert", "PRE", DropExpired(f, Groups(c)[j]))
              /\ NftIfaceSetup(f, c)[3 * (j - 1) + 2] = Edit("append", "PRE", Jump(f, Groups(c)[j], "R"))
              /\ NftIfaceSetup(f, c)[3 * (j - 1) + 3] = Edit("append", "POST", Jump(f, Groups(c)[j], "R"))
<1> DEFINE cmds(is) == << Edit("insert", "PRE", DropExpired(f, is)), Edit("append", "PRE", Jump(f, is, "R")),
                          Edit("append", "POST", Jump(f, is, "R")) >>
           s == [k \in DOMAIN Groups(c) |-> cmds(Groups(c)[k])]
<1>1. NftIfaceSetup(f, c) = FlattenSeq(s)
  BY DEF NftIfaceSetup, ForIfaces
<1>2. Ways(c) \in Nat /\ List(s) /\ Len(s) = Ways(c) /\ \A j \in 1..Ways(c) : s[j] = cmds(Groups(c)[j])
  BY GroupsAre DEF List
<1>3. \A j \in 1..Ways(c) : /\ List(s[j]) /\ Len(s[j]) = 3
                            /\ s[j][1] = Edit("insert", "PRE", DropExpired(f, Groups(c)[j]))
                            /\ s[j][2] = Edit("append", "PRE", Jump(f, Groups(c)[j], "R"))
                            /\ s[j][3] = Edit("append", "POST", Jump(f, Groups(c)[j], "R"))
  BY <1>2 DEF List
<1> HIDE DEF s
<1>4. /\ List(FlattenSeq(s)) /\ Len(FlattenSeq(s)) = 3 * Ways(c)
      /\ \A j \in 1..Ways(c), r \in 1..3 : FlattenSeq(s)[3 * (j - 1) + r] = s[j][r]
  <2>1. Rows(s, Ways(c), 3)
    BY <1>2, <1>3 DEF Rows
  <2>2. Strung(FlattenSeq(s), s, Ways(c), 3)
    BY <1>2, <2>1, Threes
  <2> QED
    BY <2>2 DEF Strung
<1>5. \A j \in 1..Ways(c) : /\ FlattenSeq(s)[3 * (j - 1) + 1] = s[j][1]
                            /\ FlattenSeq(s)[3 * (j - 1) + 2] = s[j][2]
                            /\ FlattenSeq(s)[3 * (j - 1) + 3] = s[j][3]
  BY <1>4
<1> QED
  BY <1>1, <1>3, <1>4, <1>5

LEMMA IptSetupIs ==
  ASSUME NEW f \in Family, NEW c \in Configuration
  PROVE  LET s == IptSetup(f, c)
             n == Nets(f)
         IN  /\ List(s) /\ Len(s) = 7 + 2 * n + 2 * Ways(c)
             /\ s[1] = Chain("new", "S") /\ s[2] = Chain("new", "D")
             /\ s[3] = Edit("insert", "PRE", Jump(f, Iface, "S"))
             /\ s[4] = Edit("insert", "POST", Jump(f, Iface, "D"))
             /\ s[5] = Chain("new", "R")
             /\ \A k \in 1..n : s[5 + k] = Edit("append", "S", Exclude(f)[k])
             /\ \A k \in 1..n : s[5 + n + k] = Edit("append", "D", Exclude(f)[k])
             /\ s[5 + 2 * n + 1] = Edit("append", "R", SkipMarked(f))
             /\ s[5 + 2 * n + 2] = Edit("append", "R", ToQueue(f))
             /\ \A j \in 1..Ways(c) :
                  /\ s[5 + 2 * n + 2 * j + 1] = Edit("append", "S", Jump(f, Groups(c)[j], "R"))
                  /\ s[5 + 2 * n + 2 * j + 2] = Edit("append", "D", Jump(f, Groups(c)[j], "R"))
<1> DEFINE n == Nets(f)
           w == Ways(c)
           a == << Chain("new", "S"), Chain("new", "D"), Edit("insert", "PRE",  Jump(f, Iface, "S")),
                   Edit("insert", "POST", Jump(f, Iface, "D")), Chain("new", "R") >>
           b == [k \in DOMAIN Exclude(f) |-> Edit("append", "S", Exclude(f)[k])]
           d == [k \in DOMAIN Exclude(f) |-> Edit("append", "D", Exclude(f)[k])]
           r == << Edit("append", "R", SkipMarked(f)), Edit("append", "R", ToQueue(f)) >>
           e == IptIfaceSetup(f, c)
           s == IptSetup(f, c)
<1>1. s = a \o b \o d \o r \o e
  BY DEF IptSetup
<1>2. n \in Nat /\ w \in Nat
  BY ExcludeIs, GroupsAre
<1>3. /\ List(a) /\ Len(a) = 5
      /\ a[1] = Chain("new", "S") /\ a[2] = Chain("new", "D")
      /\ a[3] = Edit("insert", "PRE", Jump(f, Iface, "S"))
      /\ a[4] = Edit("insert", "POST", Jump(f, Iface, "D"))
      /\ a[5] = Chain("new", "R")
  BY DEF List
<1>4. /\ List(b) /\ Len(b) = n /\ \A k \in 1..n : b[k] = Edit("append", "S", Exclude(f)[k])
      /\ List(d) /\ Len(d) = n /\ \A k \in 1..n : d[k] = Edit("append", "D", Exclude(f)[k])
  BY ExcludeIs DEF List
<1>5. /\ List(r) /\ Len(r) = 2
      /\ r[1] = Edit("append", "R", SkipMarked(f)) /\ r[2] = Edit("append", "R", ToQueue(f))
  BY DEF List
<1>6. /\ List(e) /\ Len(e) = 2 * w
      /\ \A j \in 1..w : /\ e[2 * (j - 1) + 1] = Edit("append", "S", Jump(f, Groups(c)[j], "R"))
                         /\ e[2 * (j - 1) + 2] = Edit("append", "D", Jump(f, Groups(c)[j], "R"))
  BY IptWays
<1> HIDE DEF n, w, a, b, d, r, e, s
<1>7. List(a \o b) /\ Len(a \o b) = 5 + n /\ \A k \in 1..(5 + n) : (a \o b)[k] = IF k <= 5 THEN a[k] ELSE b[k - 5]
  <2>1. Joining(a \o b, a, 5, b, n)
    BY <1>3, <1>4, ListsOf
  <2> QED
    BY <2>1 DEF Joining
<1> DEFINE ab == a \o b
           abd == ab \o d
           abdr == abd \o r
<1> HIDE DEF ab, abd, abdr
<1>8. /\ List(abd) /\ Len(abd) = 5 + 2 * n
      /\ \A k \in 1..(5 + 2 * n) : abd[k] = IF k <= 5 + n THEN ab[k] ELSE d[k - (5 + n)]
  <2>1. 5 + n + n = 5 + 2 * n
    BY <1>2
  <2>2. List(ab) /\ Len(ab) = 5 + n
    BY <1>7 DEF ab
  <2>3. Joining(abd, ab, 5 + n, d, n)
    BY <1>4, <2>2, ListsOf DEF abd
  <2> QED
    BY <2>1, <2>3, Zenon DEF Joining
<1>9. /\ List(abdr) /\ Len(abdr) = 7 + 2 * n
      /\ \A k \in 1..(7 + 2 * n) : abdr[k] = IF k <= 5 + 2 * n THEN abd[k] ELSE r[k - (5 + 2 * n)]
  <2>1. 5 + 2 * n + 2 = 7 + 2 * n
    BY <1>2
  <2>2. Joining(abdr, abd, 5 + 2 * n, r, 2)
    BY <1>5, <1>8, ListsOf DEF abdr
  <2> QED
    BY <2>1, <2>2, Zenon DEF Joining
<1>10. /\ List(s) /\ Len(s) = 7 + 2 * n + 2 * w
       /\ \A k \in 1..(7 + 2 * n + 2 * w) : s[k] = IF k <= 7 + 2 * n THEN abdr[k] ELSE e[k - (7 + 2 * n)]
  <2>1. s = abdr \o e
    BY <1>1 DEF ab, abd, abdr
  <2>2. Joining(s, abdr, 7 + 2 * n, e, 2 * w)
    BY <1>6, <1>9, <2>1, ListsOf
  <2> QED
    BY <2>2, Zenon DEF Joining
<1>11. \A k \in 1..(7 + 2 * n) : s[k] = abdr[k]
  BY <1>2, <1>10
<1>12. \A k \in 1..(5 + 2 * n) : s[k] = abd[k]
  BY <1>2, <1>9, <1>11
<1>13. \A k \in 1..(5 + n) : s[k] = ab[k]
  BY <1>2, <1>8, <1>12
<1>14. \A k \in 1..5 : s[k] = a[k]
  BY <1>2, <1>7, <1>13 DEF ab
<1>15. \A k \in 1..n : s[5 + k] = b[k]
  <2> TAKE k \in 1..n
  <2>1. 5 + k \in 1..(5 + n) /\ ~(5 + k <= 5) /\ (5 + k) - 5 = k
    BY <1>2
  <2> QED
    BY <1>7, <1>13, <2>1, Zenon DEF ab
<1>16. \A k \in 1..n : s[5 + n + k] = d[k]
  <2> TAKE k \in 1..n
  <2>1. 5 + n + k \in 1..(5 + 2 * n) /\ ~(5 + n + k <= 5 + n) /\ (5 + n + k) - (5 + n) = k
    BY <1>2
  <2> QED
    BY <1>8, <1>12, <2>1, Zenon
<1>17. s[5 + 2 * n + 1] = r[1] /\ s[5 + 2 * n + 2] = r[2]
  <2>1. /\ 5 + 2 * n + 1 \in 1..(7 + 2 * n) /\ ~(5 + 2 * n + 1 <= 5 + 2 * n) /\ (5 + 2 * n + 1) - (5 + 2 * n) = 1
        /\ 5 + 2 * n + 2 \in 1..(7 + 2 * n) /\ ~(5 + 2 * n + 2 <= 5 + 2 * n) /\ (5 + 2 * n + 2) - (5 + 2 * n) = 2
    BY <1>2
  <2> QED
    BY <1>9, <1>11, <2>1, Zenon
<1>18. ASSUME NEW j \in 1..w
       PROVE  /\ s[5 + 2 * n + 2 * j + 1] = e[2 * (j - 1) + 1]
              /\ s[5 + 2 * n + 2 * j + 2] = e[2 * (j - 1) + 2]
  <2>1. ASSUME NEW i \in 1..2
        PROVE  s[5 + 2 * n + 2 * j + i] = e[2 * (j - 1) + i]
    <3>1. /\ 5 + 2 * n + 2 * j + i \in 1..(7 + 2 * n + 2 * w)
          /\ ~(5 + 2 * n + 2 * j + i <= 7 + 2 * n)
          /\ (5 + 2 * n + 2 * j + i) - (7 + 2 * n) = 2 * (j - 1) + i
      BY <1>2
    <3> QED
      BY <1>10, <3>1, Zenon
  <2> QED
    BY <2>1
<1>19. \A j \in 1..w : /\ s[5 + 2 * n + 2 * j + 1] = Edit("append", "S", Jump(f, Groups(c)[j], "R"))
                       /\ s[5 + 2 * n + 2 * j + 2] = Edit("append", "D", Jump(f, Groups(c)[j], "R"))
  BY <1>6, <1>18
<1>20. /\ s[1] = Chain("new", "S") /\ s[2] = Chain("new", "D")
       /\ s[3] = Edit("insert", "PRE", Jump(f, Iface, "S"))
       /\ s[4] = Edit("insert", "POST", Jump(f, Iface, "D"))
       /\ s[5] = Chain("new", "R")
  BY <1>3, <1>14
<1>21. /\ \A k \in 1..n : s[5 + k] = Edit("append", "S", Exclude(f)[k])
       /\ \A k \in 1..n : s[5 + n + k] = Edit("append", "D", Exclude(f)[k])
  BY <1>4, <1>15, <1>16
<1>22. /\ s[5 + 2 * n + 1] = Edit("append", "R", SkipMarked(f))
       /\ s[5 + 2 * n + 2] = Edit("append", "R", ToQueue(f))
  BY <1>5, <1>17
<1> QED
  BY <1>10, <1>19, <1>20, <1>21, <1>22 DEF n, w, s

LEMMA NftSetupIs ==
  ASSUME NEW f \in Family, NEW c \in Configuration
  PROVE  LET s == NftSetup(f, c)
         IN  /\ List(s) /\ Len(s) = 1 + 3 * Ways(c)
             /\ s[1] = Load(NftTable(f))
             /\ \A j \in 1..Ways(c) :
                  /\ s[3 * j - 1] = Edit("insert", "PRE", DropExpired(f, Groups(c)[j]))
                  /\ s[3 * j] = Edit("append", "PRE", Jump(f, Groups(c)[j], "R"))
                  /\ s[3 * j + 1] = Edit("append", "POST", Jump(f, Groups(c)[j], "R"))
<1> DEFINE w == Ways(c)
           a == <<Load(NftTable(f))>>
           e == NftIfaceSetup(f, c)
           s == NftSetup(f, c)
<1>1. s = a \o e
  BY DEF NftSetup
<1>2. w \in Nat
  BY GroupsAre
<1>3. List(a) /\ Len(a) = 1 /\ a[1] = Load(NftTable(f))
  BY DEF List
<1>4. /\ List(e) /\ Len(e) = 3 * w
      /\ \A j \in 1..w : /\ e[3 * (j - 1) + 1] = Edit("insert", "PRE", DropExpired(f, Groups(c)[j]))
                         /\ e[3 * (j - 1) + 2] = Edit("append", "PRE", Jump(f, Groups(c)[j], "R"))
                         /\ e[3 * (j - 1) + 3] = Edit("append", "POST", Jump(f, Groups(c)[j], "R"))
  BY NftWays
<1> HIDE DEF w, a, e, s
<1>5. /\ List(s) /\ Len(s) = 1 + 3 * w
      /\ \A k \in 1..(1 + 3 * w) : s[k] = IF k <= 1 THEN a[k] ELSE e[k - 1]
  <2>1. Joining(s, a, 1, e, 3 * w)
    BY <1>1, <1>3, <1>4, ListsOf
  <2> QED
    BY <2>1, Zenon DEF Joining
<1>6. s[1] = a[1]
  BY <1>2, <1>5
<1>7. ASSUME NEW j \in 1..w
      PROVE  /\ s[3 * j - 1] = e[3 * (j - 1) + 1]
             /\ s[3 * j] = e[3 * (j - 1) + 2]
             /\ s[3 * j + 1] = e[3 * (j - 1) + 3]
  <2>1. ASSUME NEW i \in 1..3, NEW k \in Nat, k = 3 * j - 2 + i
        PROVE  s[k] = e[3 * (j - 1) + i]
    <3>1. k \in 1..(1 + 3 * w) /\ ~(k <= 1) /\ k - 1 = 3 * (j - 1) + i
      BY <1>2, <2>1
    <3> QED
      BY <1>5, <3>1, Zenon
  <2>2. /\ 3 * j - 1 \in Nat /\ 3 * j - 1 = 3 * j - 2 + 1
        /\ 3 * j \in Nat /\ 3 * j = 3 * j - 2 + 2
        /\ 3 * j + 1 \in Nat /\ 3 * j + 1 = 3 * j - 2 + 3
    BY <1>2
  <2> QED
    BY <2>1, <2>2
<1> QED
  BY <1>3, <1>4, <1>5, <1>6, <1>7 DEF w, s

(* The commands for one table.                                               *)
Mine(f, c)      == <<BackendOf(c), f>>
CleanCmds(f, c) == IF c.use_iptables THEN IptCleanup(f) ELSE NftCleanup(f)
SetupCmds(f, c) == IF c.use_iptables THEN IptSetup(f, c) ELSE NftSetup(f, c)
Cleaning(c)     == IF c.use_iptables THEN 8 ELSE 1
Work(f, c, up)  == IF up THEN Setup(f, c) ELSE Cleanup(f, c)
Job(f, c, cmd, must) == [table |-> Mine(f, c), cmd |-> cmd, must |-> must]

LEMMA CleanupIs ==
  ASSUME NEW f, NEW c
  PROVE  /\ List(CleanCmds(f, c)) /\ Len(CleanCmds(f, c)) = Cleaning(c)
         /\ c.use_iptables =>
              /\ CleanCmds(f, c)[1] = Chain("flush", "R") /\ CleanCmds(f, c)[2] = Chain("flush", "S")
              /\ CleanCmds(f, c)[3] = Chain("flush", "D")
              /\ CleanCmds(f, c)[4] = Edit("delete", "PRE",  Jump(f, Iface, "S"))
              /\ CleanCmds(f, c)[5] = Edit("delete", "POST", Jump(f, Iface, "D"))
              /\ CleanCmds(f, c)[6] = Chain("drop", "R") /\ CleanCmds(f, c)[7] = Chain("drop", "S")
              /\ CleanCmds(f, c)[8] = Chain("drop", "D")
         /\ ~c.use_iptables => CleanCmds(f, c)[1] = Unload
<1>1. CASE c.use_iptables
  BY <1>1 DEF List, CleanCmds, Cleaning, IptCleanup
<1>2. CASE ~c.use_iptables
  BY <1>2 DEF List, CleanCmds, Cleaning, NftCleanup
<1> QED
  BY <1>1, <1>2

LEMMA SetupIsLong ==
  ASSUME NEW f \in Family, NEW c \in Configuration
  PROVE  /\ List(SetupCmds(f, c))
         /\ Len(SetupCmds(f, c)) = IF c.use_iptables THEN 7 + 2 * Nets(f) + 2 * Ways(c) ELSE 1 + 3 * Ways(c)
         /\ Len(SetupCmds(f, c)) \in Nat
  BY IptSetupIs, NftSetupIs DEF SetupCmds, List

IsScript(s, f, c, cmds, must) ==
  List(s) /\ Len(s) = Len(cmds) /\ \A k \in 1..Len(cmds) : s[k] = Job(f, c, cmds[k], must)
LEMMA ScriptIs ==
  ASSUME NEW f, NEW c, NEW cmds, List(cmds), NEW must
  PROVE  IsScript(Script(BackendOf(c), f, cmds, must), f, c, cmds, must)
  BY ListHas DEF Script, Job, Mine, List, IsScript

LEMMA WorkIs ==
  ASSUME NEW f \in Family, NEW c \in Configuration, NEW up \in BOOLEAN
  PROVE  LET work == Work(f, c, up)
             len  == IF up THEN Len(SetupCmds(f, c)) ELSE 0
         IN  /\ List(work) /\ Len(work) = Cleaning(c) + len /\ Len(work) \in Nat
             /\ \A k \in 1..Cleaning(c) : work[k] = Job(f, c, CleanCmds(f, c)[k], FALSE)
             /\ \A k \in 1..len : work[Cleaning(c) + k] = Job(f, c, SetupCmds(f, c)[k], TRUE)
<1> DEFINE a == Script(BackendOf(c), f, CleanCmds(f, c), FALSE)
           b == Script(BackendOf(c), f, SetupCmds(f, c), TRUE)
           m == Cleaning(c)
           n == Len(SetupCmds(f, c))
<1>1. /\ List(a) /\ Len(a) = m /\ \A k \in 1..m : a[k] = Job(f, c, CleanCmds(f, c)[k], FALSE)
  <2>1. List(CleanCmds(f, c)) /\ Len(CleanCmds(f, c)) = m
    BY CleanupIs
  <2>2. IsScript(a, f, c, CleanCmds(f, c), FALSE)
    BY <2>1, ScriptIs
  <2> QED
    BY <2>1, <2>2, Zenon DEF IsScript
<1>2. /\ List(b) /\ Len(b) = n /\ \A k \in 1..n : b[k] = Job(f, c, SetupCmds(f, c)[k], TRUE)
  <2>1. List(SetupCmds(f, c))
    BY SetupIsLong
  <2>2. IsScript(b, f, c, SetupCmds(f, c), TRUE)
    BY <2>1, ScriptIs
  <2> QED
    BY <2>2, Zenon DEF IsScript
<1>3. m \in Nat /\ n \in Nat
  BY SetupIsLong DEF Cleaning
<1>4. Cleanup(f, c) = a
  BY DEF Cleanup, CleanCmds
<1>5. Setup(f, c) = a \o b
  BY <1>4 DEF Setup, SetupCmds
<1> HIDE DEF a, b, m, n
<1>6. CASE ~up
  <2>1. Work(f, c, up) = a
    BY <1>4, <1>6 DEF Work
  <2>2. m + 0 = m
    BY <1>3
  <2>3. \A k \in 1..0 : FALSE
    OBVIOUS
  <2> QED
    BY <1>1, <1>3, <1>6, <2>1, <2>2, <2>3, Zenon DEF m
<1>7. CASE up
  <2> DEFINE u == Work(f, c, up)
  <2>1. Joining(u, a, m, b, n)
    BY <1>1, <1>2, <1>5, <1>7, ListsOf DEF Work
  <2>2. /\ List(u) /\ Len(u) = m + n
        /\ \A k \in 1..(m + n) : u[k] = IF k <= m THEN a[k] ELSE b[k - m]
    BY <2>1, Zenon DEF Joining
  <2> HIDE DEF u
  <2>3. \A k \in 1..m : u[k] = a[k]
    BY <1>3, <2>2
  <2>4. ASSUME NEW k \in 1..n PROVE u[m + k] = b[k]
    <3>1. m + k \in 1..(m + n) /\ ~(m + k <= m) /\ (m + k) - m = k
      BY <1>3
    <3> QED
      BY <2>2, <3>1, Zenon
  <2>5. m + n \in Nat
    BY <1>3
  <2>6. /\ \A k \in 1..m : u[k] = Job(f, c, CleanCmds(f, c)[k], FALSE)
        /\ \A k \in 1..n : u[m + k] = Job(f, c, SetupCmds(f, c)[k], TRUE)
    BY <1>1, <1>2, <2>3, <2>4
  <2> QED
    BY <1>7, <2>2, <2>5, <2>6, Zenon DEF u, m, n
<1> QED
  BY <1>6, <1>7

-----------------------------------------------------------------------------
(* What a command does to a table: chain c has the rules r, the others stay.  *)
IsTable(T) == T = [c \in DOMAIN T |-> T[c]]
Becomes(U, T, dom, c, r) ==
  /\ IsTable(U) /\ DOMAIN U = dom
  /\ Rules(U, c) = r /\ \A d : d # c => Rules(U, d) = Rules(T, d)

LEMMA NewChain ==
  ASSUME NEW T, NEW c, IsTable(T)
  PROVE  /\ Possible(Chain("new", c), T) <=> c \notin DOMAIN T
         /\ c \notin DOMAIN T => Becomes(Result(Chain("new", c), T), T, DOMAIN T \cup {c}, c, << >>)
<1> DEFINE cmd == Chain("new", c)
<1>1. cmd.op = "new" /\ cmd.chain = c
  BY DEF Chain
<1> HIDE DEF cmd
<1>2. Possible(cmd, T) <=> c \notin DOMAIN T
  BY <1>1 DEF Possible
<1>3. Result(cmd, T) = [d \in DOMAIN T \cup {c} |-> Rules(T, d)]
  BY <1>1 DEF Result
<1> QED
  BY <1>2, <1>3 DEF Becomes, IsTable, Rules, cmd

LEMMA Flush ==
  ASSUME NEW T, NEW c, IsTable(T)
  PROVE  /\ Possible(Chain("flush", c), T) <=> c \in DOMAIN T
         /\ c \in DOMAIN T => Becomes(Result(Chain("flush", c), T), T, DOMAIN T, c, << >>)
<1> DEFINE cmd == Chain("flush", c)
<1>1. cmd.op = "flush" /\ cmd.chain = c
  BY DEF Chain
<1> HIDE DEF cmd
<1>2. Possible(cmd, T) <=> c \in DOMAIN T
  BY <1>1 DEF Possible
<1>3. Result(cmd, T) = [T EXCEPT ![c] = << >>]
  BY <1>1 DEF Result
<1> QED
  BY <1>2, <1>3 DEF Becomes, IsTable, Rules, cmd

LEMMA DropChain ==
  ASSUME NEW T, NEW c, IsTable(T)
  PROVE  /\ Possible(Chain("drop", c), T) <=> c \in DOMAIN T /\ Rules(T, c) = << >> /\ ~Jumps(T, c)
         /\ Becomes(Result(Chain("drop", c), T), T, DOMAIN T \ {c}, c, << >>)
<1> DEFINE cmd == Chain("drop", c)
<1>1. cmd.op = "drop" /\ cmd.chain = c
  BY DEF Chain
<1> HIDE DEF cmd
<1>2. Possible(cmd, T) <=> c \in DOMAIN T /\ Rules(T, c) = << >> /\ ~Jumps(T, c)
  BY <1>1 DEF Possible, Rules
<1>3. Result(cmd, T) = [d \in DOMAIN T \ {c} |-> T[d]]
  BY <1>1 DEF Result
<1> QED
  BY <1>2, <1>3 DEF Becomes, IsTable, Rules, cmd

LEMMA AddRule ==
  ASSUME NEW T, NEW c, NEW r, IsTable(T)
  PROVE  /\ \A op \in {"append", "insert"} :
              Possible(Edit(op, c, r), T) <=>
                c \in DOMAIN T /\ r.do \in {"return", "queue", "drop"} \cup DOMAIN T
         /\ c \in DOMAIN T =>
              /\ Becomes(Result(Edit("append", c, r), T), T, DOMAIN T, c, Append(Rules(T, c), r))
              /\ Becomes(Result(Edit("insert", c, r), T), T, DOMAIN T, c, <<r>> \o Rules(T, c))
<1>1. ASSUME NEW op \in {"append", "insert"}
      PROVE  Possible(Edit(op, c, r), T) <=>
               c \in DOMAIN T /\ r.do \in {"return", "queue", "drop"} \cup DOMAIN T
  BY DEF Possible, Edit
<1>2. Result(Edit("append", c, r), T) = [T EXCEPT ![c] = Append(@, r)]
  BY DEF Result, Edit
<1>3. Result(Edit("insert", c, r), T) = [T EXCEPT ![c] = <<r>> \o @]
  BY DEF Result, Edit
<1>4. c \in DOMAIN T => Becomes(Result(Edit("append", c, r), T), T, DOMAIN T, c, Append(Rules(T, c), r))
  BY <1>2 DEF Becomes, IsTable, Rules
<1>5. c \in DOMAIN T => Becomes(Result(Edit("insert", c, r), T), T, DOMAIN T, c, <<r>> \o Rules(T, c))
  BY <1>3 DEF Becomes, IsTable, Rules
<1> QED
  BY <1>1, <1>4, <1>5

(* The rule that is deleted is the only one of its chain, or is not there.   *)
LEMMA DeleteRule ==
  ASSUME NEW T, NEW c, NEW r, IsTable(T), Rules(T, c) \in {<< >>, <<r>>}
  PROVE  /\ Possible(Edit("delete", c, r), T) <=> c \in DOMAIN T /\ Rules(T, c) = <<r>>
         /\ c \in DOMAIN T /\ Rules(T, c) = <<r>> =>
              Becomes(Result(Edit("delete", c, r), T), T, DOMAIN T, c, << >>)
<1>1. Possible(Edit("delete", c, r), T) <=> c \in DOMAIN T /\ Contains(T[c], r)
  BY DEF Possible, Edit
<1>2. c \in DOMAIN T => (Contains(T[c], r) <=> Rules(T, c) = <<r>>)
  <2>1. Contains(<<r>>, r) /\ ~Contains(<< >>, r)
    BY DEF Contains
  <2> QED
    BY <2>1 DEF Rules
<1>3. Result(Edit("delete", c, r), T) = [T EXCEPT ![c] = RemoveFirst(@, r)]
  BY DEF Result, Edit
<1>4. RemoveFirst(<<r>>, r) = << >>
  <2> DEFINE s == <<r>>
             I == {i \in 1..Len(s) : s[i] = r}
  <2>1. Len(s) = 1 /\ s[1] = r /\ \E i \in 1..Len(s) : s[i] = r
    OBVIOUS
  <2>2. I = {1}
    BY <2>1
  <2>3. Min(I) = 1
    <3>1. I \in SUBSET Nat /\ I # {}
      BY <2>2
    <3>2. Min(I) \in I
      BY <3>1, LeastOf
    <3> QED
      BY <2>2, <3>2
  <2>4. SelectInSeq(s, LAMBDA v : v = r) = 1
    BY <2>2, <2>3 DEF SelectInSeq
  <2>5. RemoveAt(s, 1) = << >>
    BY DEF RemoveAt
  <2> QED
    BY <2>1, <2>4, <2>5 DEF RemoveFirst
<1> QED
  BY <1>1, <1>2, <1>3, <1>4 DEF Becomes, IsTable, Rules

LEMMA LoadTable ==
  ASSUME NEW T, NEW table
  PROVE  /\ Possible(Load(table), T)
         /\ IsTable(Result(Load(table), T))
         /\ DOMAIN Result(Load(table), T) = DOMAIN T \cup DOMAIN table
         /\ \A c \in DOMAIN T \cup DOMAIN table : Rules(Result(Load(table), T), c) = Rules(T, c) \o Rules(table, c)
<1>1. Possible(Load(table), T)
  BY DEF Possible, Load
<1>2. Result(Load(table), T) = [c \in DOMAIN T \cup DOMAIN table |-> Rules(T, c) \o Rules(table, c)]
  BY DEF Result, Load
<1> HIDE DEF Load
<1>3. \A c \in DOMAIN T \cup DOMAIN table : Rules(Result(Load(table), T), c) = Rules(T, c) \o Rules(table, c)
  BY <1>2 DEF Rules
<1> QED
  BY <1>1, <1>2, <1>3 DEF IsTable

LEMMA UnloadTable ==
  ASSUME NEW T
  PROVE  (Possible(Unload, T) <=> DOMAIN T # {}) /\ Result(Unload, T) = << >>
  BY DEF Possible, Result, Unload

-----------------------------------------------------------------------------
(* The rules that lead to the queue, and those that keep packets from it.    *)
JumpsToR(f) == {Jump(f, is, "R") : is \in SUBSET Iface}
Drops(f)    == {DropExpired(f, is) : is \in SUBSET Iface}
Excludes(f) == {Exclude(f)[i] : i \in 1..Nets(f)}
Has(s, x)   == \E k \in 1..Len(s) : s[k] = x

(* Whoever reaches a jump to the queueing rules has passed every exclusion.  *)
Excluding(f, s, k) == \A i \in 1..Nets(f) : \E j \in 1..k : s[j] = Exclude(f)[i]
Guarded(f, s) ==
  /\ List(s)
  /\ \A k \in 1..Len(s) : /\ s[k] \in Excludes(f) \cup JumpsToR(f) \cup Drops(f)
                          /\ s[k] \in JumpsToR(f) => Excluding(f, s, k - 1)

(* What a table of a family may look like at any time, whoever left it.      *)
RShape(f, s) ==
  /\ List(s) /\ \A k \in 1..Len(s) : s[k] \in {SkipMarked(f), ToQueue(f)}
  /\ Len(s) > 0 => s[1] = SkipMarked(f)
IptShape(f, T) ==
  /\ IsTable(T) /\ {"PRE", "POST"} \subseteq DOMAIN T /\ DOMAIN T \subseteq Chains
  /\ Rules(T, "PRE")  = << >> \/ (Rules(T, "PRE")  = <<Jump(f, Iface, "S")>> /\ "S" \in DOMAIN T)
  /\ Rules(T, "POST") = << >> \/ (Rules(T, "POST") = <<Jump(f, Iface, "D")>> /\ "D" \in DOMAIN T)
  /\ RShape(f, Rules(T, "R"))
  /\ \A c \in {"S", "D"} : Guarded(f, Rules(T, c))
NftShape(f, T) ==
  /\ IsTable(T)
  /\ DOMAIN T = {} \/
       /\ DOMAIN T = {"PRE", "POST", "R"}
       /\ RShape(f, Rules(T, "R"))
       /\ \A c \in {"PRE", "POST"} :
            /\ Guarded(f, Rules(T, c)) /\ Excluding(f, Rules(T, c), Len(Rules(T, c)))
            /\ \A is \in SUBSET Iface :
                 Has(Rules(T, c), Jump(f, is, "R")) => Has(Rules(T, "PRE"), DropExpired(f, is))
Shape(t, T) == IF t[1] = "ipt" THEN IptShape(t[2], T) ELSE NftShape(t[2], T)

(* How far a cleanup has come, and how many of its commands were missed.     *)
Flushed(T, c) == Rules(T, c) = << >>
IptCleaned(n, T) ==
  /\ n >= 1 => Flushed(T, "R")
  /\ n >= 2 => Flushed(T, "S")
  /\ n >= 3 => Flushed(T, "D")
  /\ n >= 4 => Flushed(T, "PRE")
  /\ n >= 5 => Flushed(T, "POST")
  /\ n >= 6 => "R" \notin DOMAIN T
  /\ n >= 7 => "S" \notin DOMAIN T
  /\ n >= 8 => "D" \notin DOMAIN T
Unreached(n, T, misses) ==
  /\ n >= 1 => Flushed(T, "R") \/ misses >= 1
  /\ n >= 4 => Flushed(T, "R") \/ misses >= 2 \/ Flushed(T, "PRE")
  /\ n >= 5 => Flushed(T, "R") \/ misses >= 2 \/ Flushed(T, "POST")
CleanupAt(c, n, T, misses) ==
  IF c.use_iptables THEN (misses = 0 => IptCleaned(n, T)) /\ Unreached(n, T, misses)
  ELSE n = 1 /\ misses = 0 => DOMAIN T = {}

(* How far a setup has come.  A line excludes all networks, and then leads   *)
(* to R.                                                                     *)
Ending(f, c) == [k \in DOMAIN Groups(c) |-> Jump(f, Groups(c)[k], "R")]
Line(f, c)   == Exclude(f) \o Ending(f, c)
ToR(f)       == <<SkipMarked(f), ToQueue(f)>>
Upto(s, n)   == SubSeq(s, 1, n)
IptBuilt(f, c, s, d, r) ==
  [chain \in Chains |->
     CASE chain = "PRE"  -> <<Jump(f, Iface, "S")>>
       [] chain = "POST" -> <<Jump(f, Iface, "D")>>
       [] chain = "R"    -> Upto(ToR(f), r)
       [] chain = "S"    -> Upto(Line(f, c), s)
       [] chain = "D"    -> Upto(Line(f, c), d)]
IptLegal(f, c, s, d, r) ==
  \/ s <= Nets(f) /\ d = 0 /\ r = 0
  \/ s = Nets(f) /\ d <= Nets(f) /\ r = 0
  \/ s = Nets(f) /\ d = Nets(f) /\ r <= 2
  \/ s >= Nets(f) /\ s <= Nets(f) + Ways(c) /\ d <= s /\ d >= s - 1 /\ d >= Nets(f) /\ r = 2
IptEarly(f, j, T, misses) ==
  /\ j >= 1 => "S" \in DOMAIN T /\ Flushed(T, "S")
  /\ j >= 2 => "D" \in DOMAIN T /\ Flushed(T, "D")
  /\ j \in {1, 2} => Flushed(T, "PRE")
  /\ j >= 3 => Rules(T, "PRE") = <<Jump(f, Iface, "S")>>
  /\ j \in {2, 3} => Flushed(T, "POST")
  /\ j >= 4 => Rules(T, "POST") = <<Jump(f, Iface, "D")>>
  /\ misses = 0 => /\ "R" \notin DOMAIN T
                   /\ j <= 1 => "D" \notin DOMAIN T /\ Flushed(T, "POST")
                   /\ j = 0 => "S" \notin DOMAIN T /\ Flushed(T, "PRE")
IptSetupAt(f, c, j, T, misses) ==
  IF j <= 4 THEN IptEarly(f, j, T, misses)
  ELSE \E s, d \in 0..(Nets(f) + Ways(c)), r \in 0..2 :
         IptLegal(f, c, s, d, r) /\ j = 5 + s + d + r /\ T = IptBuilt(f, c, s, d, r)

Dropping(f, c, n) == [k \in 1..n |-> DropExpired(f, Groups(c)[n + 1 - k])]
NftBuilt(f, c, n, a, b) ==
  [chain \in {"PRE", "POST", "R"} |->
     CASE chain = "R"    -> ToR(f)
       [] chain = "PRE"  -> Dropping(f, c, n) \o Upto(Line(f, c), Nets(f) + a)
       [] chain = "POST" -> Upto(Line(f, c), Nets(f) + b)]
NftSetupAt(f, c, j, T, misses) ==
  IF j = 0 THEN misses = 0 => DOMAIN T = {}
  ELSE /\ DOMAIN T = {"PRE", "POST", "R"}
       /\ \E n, a, b \in 0..Ways(c) :
            /\ b <= a /\ a <= n /\ n <= b + 1 /\ j = 1 + n + a + b
            /\ \A k \in 1..n : Has(Rules(T, "PRE"), DropExpired(f, Groups(c)[k]))
            /\ misses = 0 => T = NftBuilt(f, c, n, a, b)
SetupAt(f, c, j, T, misses) ==
  IF c.use_iptables THEN IptSetupAt(f, c, j, T, misses) ELSE NftSetupAt(f, c, j, T, misses)

(* How far the commands for one table have come, and all of them.            *)
TableAt(f, c, up, n, T, misses) ==
  /\ n <= Cleaning(c) => CleanupAt(c, n, T, misses)
  /\ up /\ n >= Cleaning(c) => SetupAt(f, c, n - Cleaning(c), T, misses)

-----------------------------------------------------------------------------
LEMMA TablesEqual ==
  ASSUME NEW T, NEW U, IsTable(T), IsTable(U), DOMAIN T = DOMAIN U,
         \A c \in DOMAIN T : Rules(T, c) = Rules(U, c)
  PROVE  T = U
  BY DEF IsTable, Rules

LEMMA KindsOfRules ==
  ASSUME NEW f
  PROVE  /\ \A is, js : Jump(f, is, "R") = Jump(f, js, "R") => is = js
         /\ \A is : Jump(f, is, "R").do = "R" /\ DropExpired(f, is).do = "drop"
         /\ \A e \in Drops(f) : e \notin JumpsToR(f)
<1>1. \A is, js : Jump(f, is, "R") = Jump(f, js, "R") => is = js
  BY DEF Jump, Rule
<1>2. \A is : Jump(f, is, "R").do = "R" /\ DropExpired(f, is).do = "drop"
  BY DEF Jump, DropExpired, Rule
<1>3. \A e \in JumpsToR(f) : e.do = "R"
  BY <1>2 DEF JumpsToR
<1>4. \A e \in Drops(f) : e.do = "drop"
  BY <1>2 DEF Drops
<1> QED
  BY <1>1, <1>2, <1>3, <1>4

LEMMA ExcludesReturn ==
  ASSUME NEW f \in Family
  PROVE  /\ \A i \in 1..Nets(f) : Exclude(f)[i] = Rule(Iface, {LocalNets[f][i]}, Kind, "return")
         /\ \A e \in Excludes(f) : e.do = "return" /\ e \notin JumpsToR(f)
<1>1. \A i \in 1..Nets(f) : Exclude(f)[i] = Rule(Iface, {LocalNets[f][i]}, Kind, "return")
  BY ExcludeIs
<1>2. \A e \in Excludes(f) : e.do = "return"
  <2> TAKE e \in Excludes(f)
  <2>1. PICK i \in 1..Nets(f) : e = Exclude(f)[i]
    BY DEF Excludes
  <2>2. e = Rule(Iface, {LocalNets[f][i]}, Kind, "return")
    BY <1>1, <2>1, Zenon
  <2> QED
    BY <2>2 DEF Rule
<1>3. \A e \in JumpsToR(f) : e.do = "R"
  BY DEF JumpsToR, Jump, Rule
<1> QED
  BY <1>1, <1>2, <1>3

LEMMA NoneGuarded == ASSUME NEW f PROVE Guarded(f, << >>)
  BY DEF Guarded, List

(* A guarded list is extended by rules that do not lead to the queue, or     *)
(* behind all exclusions.                                                    *)
LEMMA GuardedJoin ==
  ASSUME NEW f \in Family, NEW s, Guarded(f, s), NEW t, List(t),
         \A k \in 1..Len(t) : /\ t[k] \in Excludes(f) \cup JumpsToR(f) \cup Drops(f)
                              /\ t[k] \in JumpsToR(f) => \/ Excluding(f, s, Len(s))
                                                         \/ Excluding(f, t, k - 1)
  PROVE  Guarded(f, s \o t)
<1>1. List(s) /\ Len(s) \in Nat /\ Len(t) \in Nat
  BY DEF Guarded, List
<1> DEFINE u == s \o t
           m == Len(s)
           n == Len(t)
<1>2. /\ List(u) /\ Len(u) = m + n
      /\ \A k \in 1..(m + n) : u[k] = IF k <= m THEN s[k] ELSE t[k - m]
  BY <1>1, ListsJoined
<1> HIDE DEF u
<1>3. \A k \in 1..m : u[k] = s[k]
  BY <1>1, <1>2
<1>4. ASSUME NEW k \in 1..n PROVE u[m + k] = t[k]
  <2>1. m + k \in 1..(m + n) /\ ~(m + k <= m) /\ (m + k) - m = k
    BY <1>1
  <2> QED
    BY <1>2, <2>1, Zenon
<1>5. ASSUME NEW k \in 1..(m + n)
      PROVE  /\ u[k] \in Excludes(f) \cup JumpsToR(f) \cup Drops(f)
             /\ u[k] \in JumpsToR(f) => Excluding(f, u, k - 1)
  <2>1. CASE k <= m
    <3>1. k \in 1..m /\ u[k] = s[k]
      BY <1>1, <1>3, <2>1
    <3>2. u[k] \in JumpsToR(f) => Excluding(f, s, k - 1)
      BY <3>1 DEF Guarded
    <3>3. \A j \in 1..(k - 1) : u[j] = s[j]
      BY <1>1, <1>3, <2>1
    <3> QED
      BY <3>1, <3>2, <3>3 DEF Guarded, Excluding
  <2>2. CASE k > m
    <3>1. PICK h \in 1..n : k = m + h
      <4>1. k - m \in 1..n /\ k = m + (k - m)
        BY <1>1, <2>2
      <4> QED
        BY <4>1
    <3>2. u[k] = t[h]
      BY <1>4, <3>1
    <3>3. CASE Excluding(f, s, m)
      <4>1. \A j \in 1..m : j \in 1..(k - 1) /\ u[j] = s[j]
        BY <1>1, <1>3, <3>1
      <4> QED
        BY <3>2, <3>3, <4>1 DEF Excluding
    <3>4. CASE Excluding(f, t, h - 1)
      <4>1. \A j \in 1..(h - 1) : m + j \in 1..(k - 1) /\ u[m + j] = t[j]
        BY <1>1, <1>4, <3>1
      <4> QED
        BY <3>2, <3>4, <4>1 DEF Excluding
    <3> QED
      BY <3>2, <3>3, <3>4
  <2> QED
    BY <1>1, <2>1, <2>2
<1> QED
  BY <1>2, <1>5 DEF Guarded, u

LEMMA ExcludingJoin ==
  ASSUME NEW f, NEW s, NEW t, List(s), List(t), Excluding(f, s, Len(s)) \/ Excluding(f, t, Len(t))
  PROVE  Excluding(f, s \o t, Len(s \o t))
<1>1. Len(s) \in Nat /\ Len(t) \in Nat
  BY DEF List
<1> DEFINE u == s \o t
           m == Len(s)
           n == Len(t)
<1>2. /\ List(u) /\ Len(u) = m + n
      /\ \A k \in 1..(m + n) : u[k] = IF k <= m THEN s[k] ELSE t[k - m]
  BY <1>1, ListsJoined
<1> HIDE DEF u
<1>3. \A k \in 1..m : k \in 1..(m + n) /\ u[k] = s[k]
  BY <1>1, <1>2
<1>4. ASSUME NEW k \in 1..n PROVE m + k \in 1..(m + n) /\ u[m + k] = t[k]
  <2>1. m + k \in 1..(m + n) /\ ~(m + k <= m) /\ (m + k) - m = k
    BY <1>1
  <2> QED
    BY <1>2, <2>1, Zenon
<1>5. Excluding(f, u, m + n)
  BY <1>3, <1>4 DEF Excluding
<1> QED
  BY <1>2, <1>5 DEF u

LEMMA HasJoin ==
  ASSUME NEW s, NEW t, List(s), List(t), NEW x
  PROVE  Has(s \o t, x) <=> Has(s, x) \/ Has(t, x)
<1>1. Len(s) \in Nat /\ Len(t) \in Nat
  BY DEF List
<1> DEFINE u == s \o t
           m == Len(s)
           n == Len(t)
<1>2. /\ List(u) /\ Len(u) = m + n
      /\ \A k \in 1..(m + n) : u[k] = IF k <= m THEN s[k] ELSE t[k - m]
  BY <1>1, ListsJoined
<1> HIDE DEF u
<1>3. \A k \in 1..m : k \in 1..(m + n) /\ u[k] = s[k]
  BY <1>1, <1>2
<1>4. ASSUME NEW k \in 1..n PROVE m + k \in 1..(m + n) /\ u[m + k] = t[k]
  <2>1. m + k \in 1..(m + n) /\ ~(m + k <= m) /\ (m + k) - m = k
    BY <1>1
  <2> QED
    BY <1>2, <2>1, Zenon
<1>5. \A k \in 1..(m + n) : k \in 1..m \/ \E h \in 1..n : k = m + h
  <2> TAKE k \in 1..(m + n)
  <2>1. ~(k <= m) => k - m \in 1..n /\ k = m + (k - m)
    BY <1>1
  <2> QED
    BY <1>1, <2>1
<1>6. Has(u, x) <=> Has(s, x) \/ Has(t, x)
  <2>1. Has(u, x) <=> \E k \in 1..(m + n) : u[k] = x
    BY <1>2 DEF Has
  <2>2. Has(s, x) => Has(u, x)
    BY <1>3, <2>1 DEF Has
  <2>3. Has(t, x) => Has(u, x)
    BY <1>4, <2>1 DEF Has
  <2>4. ASSUME NEW k \in 1..(m + n), u[k] = x PROVE Has(s, x) \/ Has(t, x)
    <3>1. CASE k \in 1..m
      BY <1>3, <2>4, <3>1 DEF Has
    <3>2. CASE \E h \in 1..n : k = m + h
      BY <1>4, <2>4, <3>2 DEF Has
    <3> QED
      BY <1>5, <3>1, <3>2
  <2> QED
    BY <2>1, <2>2, <2>3, <2>4
<1> QED
  BY <1>6 DEF u

LEMMA One == ASSUME NEW x PROVE List(<<x>>) /\ Len(<<x>>) = 1 /\ <<x>>[1] = x /\ \A y : Has(<<x>>, y) <=> x = y
  BY DEF List, Has

LEMMA AppendOne ==
  ASSUME NEW s, List(s), NEW x
  PROVE  Append(s, x) = s \o <<x>>
<1>1. List(<<x>>) /\ Len(<<x>>) = 1 /\ <<x>>[1] = x
  BY One
<1> DEFINE u == s \o <<x>>
           v == Append(s, x)
<1>2. Joining(u, s, Len(s), <<x>>, 1)
  BY <1>1, ListsOf
<1>3. /\ List(v) /\ Len(v) = Len(s) + 1
      /\ \A k \in 1..Len(s) : v[k] = s[k]
      /\ v[Len(s) + 1] = x
  BY ListAppended
<1> HIDE DEF u, v
<1>4. Len(s) \in Nat
  BY DEF List
<1>5. ASSUME NEW k \in 1..(Len(s) + 1) PROVE u[k] = v[k]
  BY <1>1, <1>2, <1>3, <1>4 DEF Joining
<1>6. u = v
  BY <1>2, <1>3, <1>5, ListsEqual DEF Joining
<1> QED
  BY <1>6 DEF u, v

-----------------------------------------------------------------------------
(* What decides about a packet: the first rule that stops it.                *)
Does(r, sub)     == IF r.do \in DOMAIN sub THEN sub[r.do] ELSE r.do
Stops(r, p, sub) == Applies(r, p) /\ Does(r, sub) # "pass"
Decides(rules, p, sub, m) ==
  /\ Stops(rules[m], p, sub) /\ \A k \in 1..(m - 1) : ~Stops(rules[k], p, sub)
  /\ Outcome(rules, p, sub) = IF Does(rules[m], sub) = "return" THEN "pass" ELSE Does(rules[m], sub)

LEMMA FirstDecides ==
  ASSUME NEW rules, List(rules), NEW p, NEW sub
  PROVE  \/ Outcome(rules, p, sub) = "pass" /\ \A k \in 1..Len(rules) : ~Stops(rules[k], p, sub)
         \/ \E m \in 1..Len(rules) : Decides(rules, p, sub, m)
<1> DEFINE stop == {k \in DOMAIN rules : Stops(rules[k], p, sub)}
<1>1. DOMAIN rules = 1..Len(rules) /\ Len(rules) \in Nat
  BY DEF List
<1>2. Outcome(rules, p, sub) =
        IF stop = {} \/ Does(rules[Min(stop)], sub) = "return" THEN "pass" ELSE Does(rules[Min(stop)], sub)
  BY DEF Outcome, Stops, Does
<1>3. CASE stop = {}
  BY <1>1, <1>2, <1>3
<1>4. CASE stop # {}
  <2>1. stop \in SUBSET Nat
    BY <1>1
  <2>2. PICK m \in stop : m = Min(stop) /\ \A k \in stop : m <= k
    BY <1>4, <2>1, LeastOf
  <2>3. m \in 1..Len(rules) /\ Stops(rules[m], p, sub)
    BY <1>1
  <2>4. ASSUME NEW k \in 1..(m - 1) PROVE ~Stops(rules[k], p, sub)
    <3>1. k \in 1..Len(rules) /\ ~(m <= k)
      BY <1>1, <2>3
    <3>2. k \notin stop
      BY <2>2, <3>1
    <3> QED
      BY <1>1, <3>1, <3>2
  <2>5. Outcome(rules, p, sub) = IF Does(rules[m], sub) = "return" THEN "pass" ELSE Does(rules[m], sub)
    BY <1>2, <1>4, <2>2, Zenon
  <2> QED
    BY <2>3, <2>4, <2>5 DEF Decides
<1> QED
  BY <1>3, <1>4

LEMMA NothingPasses == ASSUME NEW p, NEW sub PROVE Outcome(<< >>, p, sub) = "pass"
<1>1. List(<< >>) /\ Len(<< >>) = 0
  BY DEF List
<1> QED
  BY <1>1, FirstDecides

(* The queueing rules: nothing but a packet without the mark is queued.      *)
LEMMA RQueues ==
  ASSUME NEW f \in Family, NEW s, RShape(f, s), NEW p \in Packet(f)
  PROVE  /\ Outcome(s, p, << >>) \in {"pass", "queue"}
         /\ Outcome(s, p, << >>) = "queue" => p.kind = "udp"
<1> DEFINE skip == SkipMarked(f)
           queue == ToQueue(f)
<1>1. List(s) /\ Len(s) \in Nat /\ \A k \in 1..Len(s) : s[k] \in {skip, queue}
  BY DEF RShape, List
<1>2. /\ Stops(skip, p, << >>) <=> p.kind = "decoy"
      /\ Does(skip, << >>) = "return"
      /\ Stops(queue, p, << >>) => p.kind \in {"udp", "decoy"}
      /\ Does(queue, << >>) = "queue"
  BY DEF Packet, SkipMarked, ToQueue, Rule, Stops, Does, Applies
<1> HIDE DEF skip, queue
<1>3. ASSUME NEW m \in 1..Len(s), Decides(s, p, << >>, m)
      PROVE  /\ Outcome(s, p, << >>) \in {"pass", "queue"}
             /\ Outcome(s, p, << >>) = "queue" => p.kind = "udp"
  <2>1. CASE s[m] = skip
    BY <1>2, <1>3, <2>1 DEF Decides
  <2>2. CASE s[m] = queue
    <3>1. Outcome(s, p, << >>) = "queue" /\ p.kind \in {"udp", "decoy"}
      BY <1>2, <1>3, <2>2 DEF Decides
    <3>2. p.kind # "decoy"
      <4> SUFFICES ASSUME p.kind = "decoy" PROVE FALSE
        OBVIOUS
      <4>1. s[1] = skip
        BY <1>1 DEF RShape, skip
      <4>2. Stops(s[1], p, << >>)
        BY <1>2, <4>1
      <4>3. m = 1
        BY <1>1, <1>3, <4>2 DEF Decides
      <4>4. skip = queue
        BY <2>2, <4>1, <4>3
      <4> QED
        BY <1>2, <4>4
    <3> QED
      BY <3>1, <3>2
  <2> QED
    BY <1>1, <2>1, <2>2
<1> QED
  BY <1>1, <1>3, FirstDecides

(* What the rules of a guarded chain do when the chains they call do this.   *)
Calls(sub) == "R" \in DOMAIN sub /\ "return" \notin DOMAIN sub /\ "drop" \notin DOMAIN sub

LEMMA GuardedQueues ==
  ASSUME NEW f \in Family, NEW s, Guarded(f, s), NEW p \in Packet(f), NEW sub, Calls(sub), sub["R"] \in {"pass", "queue"}
  PROVE  /\ Outcome(s, p, sub) \in {"pass", "queue", "drop"}
         /\ Outcome(s, p, sub) = "queue" =>
              /\ p.peer = Public /\ sub["R"] = "queue"
              /\ \E is \in SUBSET Iface : p.iface \in is /\ Has(s, Jump(f, is, "R"))
<1>1. List(s) /\ Len(s) \in Nat
  BY DEF Guarded, List
<1>2. ASSUME NEW m \in 1..Len(s), Decides(s, p, sub, m)
      PROVE  /\ Outcome(s, p, sub) \in {"pass", "queue", "drop"}
             /\ Outcome(s, p, sub) = "queue" =>
                  /\ p.peer = Public /\ sub["R"] = "queue"
                  /\ \E is \in SUBSET Iface : p.iface \in is /\ Has(s, Jump(f, is, "R"))
  <2>1. s[m] \in Excludes(f) \cup JumpsToR(f) \cup Drops(f)
    BY DEF Guarded
  <2>2. CASE s[m] \in Excludes(f)
    <3>1. Does(s[m], sub) = "return"
      BY <2>2, ExcludesReturn DEF Does, Calls
    <3> QED
      BY <1>2, <3>1 DEF Decides
  <2>3. CASE s[m] \in Drops(f)
    <3>1. Does(s[m], sub) = "drop"
      BY <2>3, KindsOfRules DEF Does, Calls, Drops
    <3> QED
      BY <1>2, <3>1 DEF Decides
  <2>4. CASE s[m] \in JumpsToR(f)
    <3>1. PICK is \in SUBSET Iface : s[m] = Jump(f, is, "R")
      BY <2>4 DEF JumpsToR
    <3>2. Does(s[m], sub) = sub["R"]
      BY <3>1, KindsOfRules DEF Does, Calls
    <3>3. p.iface \in is /\ sub["R"] = "queue"
      BY <1>2, <3>1, <3>2 DEF Decides, Stops, Applies, Jump, Rule
    <3>4. Has(s, Jump(f, is, "R"))
      BY <3>1 DEF Has
    <3>5. p.peer = Public
      <4> SUFFICES ASSUME p.peer # Public PROVE FALSE
        OBVIOUS
      <4>1. PICK i \in 1..Nets(f) : p.peer = LocalNets[f][i]
        BY ExcludeIs DEF Packet, Peers, Range
      <4>2. PICK j \in 1..(m - 1) : s[j] = Exclude(f)[i]
        BY <2>4 DEF Guarded, Excluding
      <4>3. s[j] = Rule(Iface, {LocalNets[f][i]}, Kind, "return")
        BY <4>2, ExcludesReturn
      <4>4. Applies(s[j], p)
        BY <4>1, <4>3 DEF Applies, Rule, Packet
      <4>5. Does(s[j], sub) = "return"
        BY <4>3 DEF Does, Calls, Rule
      <4> QED
        BY <1>2, <4>4, <4>5 DEF Decides, Stops
    <3> QED
      BY <1>2, <3>2, <3>3, <3>4, <3>5 DEF Decides
  <2> QED
    BY <2>1, <2>2, <2>3, <2>4
<1> QED
  BY <1>1, <1>2, FirstDecides

LEMMA Traversal ==
  ASSUME NEW T, NEW base, NEW p
  PROVE  LET leaf == [c \in {"R"} |-> Outcome(Rules(T, c), p, << >>)]
             mid  == [c \in {"R", "S", "D"} |-> IF c = "R" THEN leaf[c] ELSE Outcome(Rules(T, c), p, leaf)]
         IN  Traverse(T, base, p) = Outcome(Rules(T, base), p, mid)
  BY DEF Traverse

(* Whatever a table of the right shape queues comes from no excluded network *)
(* and carries no mark.                                                      *)
LEMMA ShapeQueues ==
  ASSUME NEW t \in Table, NEW T, Shape(t, T), NEW base \in {"PRE", "POST"}, NEW p \in Packet(t[2]),
         Traverse(T, base, p) = "queue"
  PROVE  /\ p.peer = Public /\ p.kind = "udp"
         /\ Outcome(Rules(T, "R"), p, << >>) = "queue" /\ Rules(T, base) # << >>
         /\ t[1] = "nft" => \E is \in SUBSET Iface : p.iface \in is /\ Has(Rules(T, base), Jump(t[2], is, "R"))
<1> DEFINE f == t[2]
           leaf == [c \in {"R"} |-> Outcome(Rules(T, c), p, << >>)]
           mid  == [c \in {"R", "S", "D"} |-> IF c = "R" THEN leaf[c] ELSE Outcome(Rules(T, c), p, leaf)]
<1>1. f \in Family /\ t[1] \in Backend
  BY DEF Table
<1>2. Outcome(Rules(T, base), p, mid) = "queue"
  BY Traversal
<1>3. RShape(f, Rules(T, "R"))
  <2>1. RShape(f, << >>)
    BY DEF RShape, List
  <2> QED
    BY <2>1 DEF Shape, IptShape, NftShape, Rules
<1>4. leaf["R"] \in {"pass", "queue"} /\ (leaf["R"] = "queue" => p.kind = "udp")
  BY <1>1, <1>3, RQueues
<1>5. Calls(leaf) /\ Calls(mid) /\ mid["R"] = leaf["R"]
  BY DEF Calls
<1>6. Rules(T, base) # << >>
  BY <1>2, NothingPasses
<1> HIDE DEF mid
<1>7. CASE t[1] = "nft"
  <2>1. Guarded(f, Rules(T, base))
    BY <1>6, <1>7 DEF Shape, NftShape, Rules
  <2>2. /\ p.peer = Public /\ mid["R"] = "queue"
        /\ \E is \in SUBSET Iface : p.iface \in is /\ Has(Rules(T, base), Jump(f, is, "R"))
    BY <1>1, <1>2, <1>4, <1>5, <2>1, GuardedQueues
  <2> QED
    BY <1>4, <1>5, <1>6, <2>2
<1>8. CASE t[1] = "ipt"
  <2>1. PICK c \in {"S", "D"} : Rules(T, base) = <<Jump(f, Iface, c)>>
    BY <1>6, <1>8 DEF Shape, IptShape
  <2>2. Does(Jump(f, Iface, c), mid) = Outcome(Rules(T, c), p, leaf)
    BY DEF Does, Jump, Rule, mid
  <2>3. Outcome(Rules(T, base), p, mid) = "queue" => Does(Jump(f, Iface, c), mid) = "queue"
    <3> DEFINE r == Jump(f, Iface, c)
    <3>1. List(<<r>>) /\ Len(<<r>>) = 1 /\ <<r>>[1] = r
      BY One
    <3> HIDE DEF r
    <3>2. ASSUME NEW m \in 1..Len(<<r>>), Decides(<<r>>, p, mid, m), Outcome(<<r>>, p, mid) = "queue"
          PROVE  Does(r, mid) = "queue"
      BY <3>1, <3>2 DEF Decides
    <3>3. Outcome(<<r>>, p, mid) = "queue" => Does(r, mid) = "queue"
      BY <3>1, <3>2, FirstDecides
    <3> QED
      BY <2>1, <3>3 DEF r
  <2>4. Outcome(Rules(T, c), p, leaf) = "queue"
    BY <1>2, <2>2, <2>3
  <2>5. Guarded(f, Rules(T, c))
    BY <1>8 DEF Shape, IptShape
  <2>6. p.peer = Public /\ leaf["R"] = "queue"
    BY <1>1, <1>4, <1>5, <2>4, <2>5, GuardedQueues
  <2> QED
    BY <1>4, <1>6, <1>8, <2>6
<1> QED
  BY <1>1, <1>7, <1>8 DEF Backend

(* An nft table that queues an interface's packets drops the expired ones.   *)
LEMMA ShapeDrops ==
  ASSUME NEW f \in Family, NEW T, NftShape(f, T), NEW i \in Iface, NEW base \in {"PRE", "POST"},
         Traverse(T, base, [iface |-> i, peer |-> Public, kind |-> "udp"]) = "queue"
  PROVE  Traverse(T, "PRE", [iface |-> i, peer |-> Public, kind |-> "expired"]) = "drop"
<1> DEFINE p == [iface |-> i, peer |-> Public, kind |-> "udp"]
           q == [iface |-> i, peer |-> Public, kind |-> "expired"]
           s == Rules(T, "PRE")
           leaf == [c \in {"R"} |-> Outcome(Rules(T, c), q, << >>)]
           mid  == [c \in {"R", "S", "D"} |-> IF c = "R" THEN leaf[c] ELSE Outcome(Rules(T, c), q, leaf)]
<1>1. p \in Packet(f) /\ q \in Packet(f) /\ q.kind = "expired" /\ q.peer = Public /\ q.iface = i
  BY DEF Packet, Peers, Kind
<1>2. <<"nft", f>> \in Table /\ Shape(<<"nft", f>>, T)
  BY DEF Table, Backend, Shape
<1>3. /\ Rules(T, base) # << >>
      /\ \E is \in SUBSET Iface : i \in is /\ Has(Rules(T, base), Jump(f, is, "R"))
  BY <1>1, <1>2, ShapeQueues
<1>4. PICK is \in SUBSET Iface : i \in is /\ Has(s, DropExpired(f, is))
  BY <1>3 DEF NftShape, Rules
<1>5. Guarded(f, s) /\ RShape(f, Rules(T, "R"))
  BY <1>3 DEF NftShape, Rules
<1>6. List(s) /\ Len(s) \in Nat
  BY <1>5 DEF Guarded, List
<1>7. Traverse(T, "PRE", q) = Outcome(s, q, mid)
  BY Traversal
<1>8. leaf["R"] = "pass"
  BY <1>1, <1>5, RQueues
<1>9. Calls(mid) /\ mid["R"] = "pass"
  BY <1>8 DEF Calls
<1> HIDE DEF s, q, mid
<1>10. ASSUME NEW k \in 1..Len(s), Stops(s[k], q, mid) PROVE Does(s[k], mid) = "drop"
  <2>1. s[k] \in Excludes(f) \cup JumpsToR(f) \cup Drops(f)
    BY <1>5 DEF Guarded
  <2>2. CASE s[k] \in Excludes(f)
    <3>1. PICK e \in 1..Nets(f) : s[k] = Rule(Iface, {LocalNets[f][e]}, Kind, "return")
      BY <2>2, ExcludesReturn DEF Excludes
    <3>2. LocalNets[f][e] # Public
      BY PublicAssumption, ExcludeIs DEF Range
    <3> QED
      BY <1>1, <1>10, <3>1, <3>2 DEF Stops, Applies, Rule
  <2>3. CASE s[k] \in JumpsToR(f)
    BY <1>9, <1>10, <2>3, KindsOfRules DEF Stops, Does, Calls, JumpsToR
  <2>4. CASE s[k] \in Drops(f)
    BY <1>9, <2>4, KindsOfRules DEF Does, Calls, Drops
  <2> QED
    BY <2>1, <2>2, <2>3, <2>4
<1>11. \E k \in 1..Len(s) : Stops(s[k], q, mid)
  <2>1. PICK k \in 1..Len(s) : s[k] = DropExpired(f, is)
    BY <1>4 DEF Has
  <2>2. Applies(s[k], q)
    BY <1>1, <1>4, <2>1 DEF Applies, DropExpired, Rule, Peers
  <2>3. Does(s[k], mid) = "drop"
    BY <1>9, <2>1, KindsOfRules DEF Does, Calls
  <2> QED
    BY <2>2, <2>3 DEF Stops
<1>12. ASSUME NEW m \in 1..Len(s), Decides(s, q, mid, m) PROVE Outcome(s, q, mid) = "drop"
  BY <1>10, <1>12 DEF Decides
<1>13. Outcome(s, q, mid) = "drop"
  BY <1>6, <1>11, <1>12, FirstDecides
<1> QED
  BY <1>7, <1>13 DEF q

-----------------------------------------------------------------------------
(* Cleaning up with iptables.                                                *)
LEMMA NoRShape == ASSUME NEW f PROVE RShape(f, << >>)
  BY DEF RShape, List

LEMMA LinksDiffer ==
  ASSUME NEW f
  PROVE  \A c \in {"S", "D"} : <<Jump(f, Iface, c)>> # << >> /\ Jump(f, Iface, c).do = c
  BY DEF Jump, Rule

LEMMA EmptiedShape ==
  ASSUME NEW f, NEW T, IptShape(f, T), NEW c \in Chains, NEW U, Becomes(U, T, DOMAIN T, c, << >>)
  PROVE  IptShape(f, U)
<1>1. \A d : Rules(U, d) = Rules(T, d) \/ Rules(U, d) = << >>
  BY DEF Becomes
<1>2. IsTable(U) /\ DOMAIN U = DOMAIN T
  BY DEF Becomes
<1> QED
  BY <1>1, <1>2, NoRShape, NoneGuarded DEF IptShape

LEMMA DroppedShape ==
  ASSUME NEW f, NEW T, IptShape(f, T), NEW c \in {"R", "S", "D"}, ~Jumps(T, c),
         NEW U, Becomes(U, T, DOMAIN T \ {c}, c, << >>)
  PROVE  IptShape(f, U)
<1>1. \A d : Rules(U, d) = Rules(T, d) \/ Rules(U, d) = << >>
  BY DEF Becomes
<1>2. IsTable(U) /\ DOMAIN U = DOMAIN T \ {c}
  BY DEF Becomes
<1>3. ASSUME NEW d \in {"PRE", "POST"}, Rules(T, d) = <<Jump(f, Iface, c)>> PROVE FALSE
  <2>1. T[d] = <<Jump(f, Iface, c)>> /\ d \in DOMAIN T
    BY <1>3 DEF IptShape, Rules
  <2>2. 1 \in DOMAIN T[d] /\ T[d][1].do = c
    BY <2>1 DEF Jump, Rule
  <2> QED
    BY <2>1, <2>2 DEF Jumps
<1>4. /\ Rules(T, "PRE") = <<Jump(f, Iface, "S")>> => c # "S"
      /\ Rules(T, "POST") = <<Jump(f, Iface, "D")>> => c # "D"
  BY <1>3
<1>5. Rules(U, "PRE") = Rules(T, "PRE") /\ Rules(U, "POST") = Rules(T, "POST")
  BY DEF Becomes
<1> QED
  BY <1>1, <1>2, <1>4, <1>5, NoRShape, NoneGuarded DEF IptShape

(* Once nothing is left in any chain, no rule jumps.                         *)
LEMMA NothingJumps ==
  ASSUME NEW f, NEW T, IptShape(f, T), \A c \in Chains : Rules(T, c) = << >>, NEW d
  PROVE  ~Jumps(T, d)
<1> SUFFICES ASSUME NEW c \in DOMAIN T, NEW k \in DOMAIN T[c] PROVE FALSE
  BY DEF Jumps
<1>1. T[c] = << >>
  BY DEF IptShape, Rules
<1> QED
  BY <1>1

LEMMA IptCleanupStep ==
  ASSUME NEW f \in Family, NEW c \in Configuration, c.use_iptables,
         NEW T, IptShape(f, T), NEW misses \in Nat, NEW n \in 0..7, CleanupAt(c, n, T, misses),
         NEW cmd, cmd = CleanCmds(f, c)[n + 1]
  PROVE  /\ Possible(cmd, T) => IptShape(f, Result(cmd, T)) /\ CleanupAt(c, n + 1, Result(cmd, T), misses)
         /\ ~Possible(cmd, T) => CleanupAt(c, n + 1, T, misses)
         /\ CleanupAt(c, n + 1, T, misses + 1)
<1> DEFINE U == Result(cmd, T)
<1>1. IsTable(T) /\ (misses = 0 => IptCleaned(n, T)) /\ Unreached(n, T, misses)
  BY DEF IptShape, CleanupAt
<1>2. IptCleaned(n + 1, T) /\ Unreached(n + 1, T, misses) => CleanupAt(c, n + 1, T, misses)
  BY DEF CleanupAt
<1>3. IptCleaned(n + 1, U) /\ Unreached(n + 1, U, misses) => CleanupAt(c, n + 1, U, misses)
  BY DEF CleanupAt
<1>4. CleanupAt(c, n + 1, T, misses + 1)
  BY <1>1 DEF CleanupAt, Unreached
<1>5. ASSUME NEW chain \in {"R", "S", "D"}, cmd = Chain("flush", chain)
      PROVE  /\ Possible(cmd, T) => IptShape(f, U) /\ Becomes(U, T, DOMAIN T, chain, << >>)
             /\ ~Possible(cmd, T) => Flushed(T, chain)
  BY <1>1, <1>5, Flush, EmptiedShape DEF Chains, Flushed, Rules
<1>6. ASSUME NEW chain \in {"PRE", "POST"}, NEW to \in {"S", "D"},
             Rules(T, chain) \in {<< >>, <<Jump(f, Iface, to)>>},
             cmd = Edit("delete", chain, Jump(f, Iface, to))
      PROVE  /\ Possible(cmd, T) => IptShape(f, U) /\ Becomes(U, T, DOMAIN T, chain, << >>)
             /\ ~Possible(cmd, T) => Flushed(T, chain)
  BY <1>1, <1>6, DeleteRule, EmptiedShape DEF Chains, Flushed, IptShape
<1>7. ASSUME NEW chain \in {"R", "S", "D"}, cmd = Chain("drop", chain)
      PROVE  /\ Possible(cmd, T) => IptShape(f, U) /\ Becomes(U, T, DOMAIN T \ {chain}, chain, << >>)
             /\ (~Possible(cmd, T) /\ \A d \in Chains : Flushed(T, d)) => chain \notin DOMAIN T
  BY <1>1, <1>7, DropChain, DroppedShape, NothingJumps DEF Chains, Flushed
<1>8. CASE n = 0
  <2>1. cmd = Chain("flush", "R")
    BY <1>8, CleanupIs
  <2> QED
    BY <1>1, <1>4, <1>5, <1>8, <2>1 DEF CleanupAt, IptCleaned, Unreached, Becomes, Flushed
<1>9. CASE n = 1
  <2>1. cmd = Chain("flush", "S")
    BY <1>9, CleanupIs
  <2> QED
    BY <1>1, <1>4, <1>5, <1>9, <2>1 DEF CleanupAt, IptCleaned, Unreached, Becomes, Flushed
<1>10. CASE n = 2
  <2>1. cmd = Chain("flush", "D")
    BY <1>10, CleanupIs
  <2> QED
    BY <1>1, <1>4, <1>5, <1>10, <2>1 DEF CleanupAt, IptCleaned, Unreached, Becomes, Flushed
<1>11. CASE n = 3
  <2>1. cmd = Edit("delete", "PRE",  Jump(f, Iface, "S"))
    BY <1>11, CleanupIs
  <2>2. Rules(T, "PRE") \in {<< >>, <<Jump(f, Iface, "S")>>}
    BY DEF IptShape
  <2> QED
    BY <1>1, <1>4, <1>6, <1>11, <2>1, <2>2 DEF CleanupAt, IptCleaned, Unreached, Becomes, Flushed
<1>12. CASE n = 4
  <2>1. cmd = Edit("delete", "POST",  Jump(f, Iface, "D"))
    BY <1>12, CleanupIs
  <2>2. Rules(T, "POST") \in {<< >>, <<Jump(f, Iface, "D")>>}
    BY DEF IptShape
  <2> QED
    BY <1>1, <1>4, <1>6, <1>12, <2>1, <2>2 DEF CleanupAt, IptCleaned, Unreached, Becomes, Flushed
<1>13. n >= 5 /\ misses = 0 => \A d \in Chains : Flushed(T, d)
  BY <1>1 DEF IptCleaned, Chains
<1>14. CASE n = 5
  <2>1. cmd = Chain("drop", "R")
    BY <1>14, CleanupIs
  <2> QED
    BY <1>1, <1>4, <1>7, <1>13, <1>14, <2>1 DEF CleanupAt, IptCleaned, Unreached, Becomes, Flushed
<1>15. CASE n = 6
  <2>1. cmd = Chain("drop", "S")
    BY <1>15, CleanupIs
  <2> QED
    BY <1>1, <1>4, <1>7, <1>13, <1>15, <2>1 DEF CleanupAt, IptCleaned, Unreached, Becomes, Flushed
<1>16. CASE n = 7
  <2>1. cmd = Chain("drop", "D")
    BY <1>16, CleanupIs
  <2> QED
    BY <1>1, <1>4, <1>7, <1>13, <1>16, <2>1 DEF CleanupAt, IptCleaned, Unreached, Becomes, Flushed
<1> QED
  BY <1>8, <1>9, <1>10, <1>11, <1>12, <1>14, <1>15, <1>16

-----------------------------------------------------------------------------
(* The chains of a setup, rule by rule.                                      *)
LEMMA UptoIs ==
  ASSUME NEW s, List(s), NEW n \in 0..Len(s)
  PROVE  List(Upto(s, n)) /\ Len(Upto(s, n)) = n /\ \A k \in 1..n : Upto(s, n)[k] = s[k]
<1>1. s \in Seq(Range(s)) /\ Len(s) \in Nat /\ \A k \in 1..Len(s) : s[k] \in Range(s)
  BY ListHas, ListOf DEF List
<1>2. Upto(s, n) = [k \in 1..n |-> s[k]]
  BY <1>1 DEF Upto
<1> QED
  BY <1>2 DEF List

LEMMA UptoEnds ==
  ASSUME NEW s, List(s)
  PROVE  Upto(s, 0) = << >> /\ Upto(s, Len(s)) = s
<1>1. Len(s) \in Nat /\ 0 \in 0..Len(s) /\ Len(s) \in 0..Len(s)
  BY DEF List
<1>2. Upto(s, Len(s)) = s
  BY <1>1, UptoIs, ListsEqual
<1>3. List(Upto(s, 0)) /\ Len(Upto(s, 0)) = 0
  BY <1>1, UptoIs
<1> QED
  BY <1>2, <1>3 DEF List

LEMMA UptoNext ==
  ASSUME NEW s, List(s), NEW n \in Nat, n < Len(s)
  PROVE  Append(Upto(s, n), s[n + 1]) = Upto(s, n + 1)
<1> DEFINE u == Upto(s, n)
           v == Upto(s, n + 1)
           w == Append(u, s[n + 1])
<1>1. n \in 0..Len(s) /\ n + 1 \in 0..Len(s)
  BY DEF List
<1>2. List(u) /\ Len(u) = n /\ \A k \in 1..n : u[k] = s[k]
  BY <1>1, UptoIs
<1>3. List(v) /\ Len(v) = n + 1 /\ \A k \in 1..(n + 1) : v[k] = s[k]
  BY <1>1, UptoIs
<1>4. List(w) /\ Len(w) = n + 1 /\ (\A k \in 1..n : w[k] = u[k]) /\ w[n + 1] = s[n + 1]
  BY <1>2, ListAppended
<1> HIDE DEF u, v, w
<1>5. \A k \in 1..(n + 1) : w[k] = v[k]
  BY <1>2, <1>3, <1>4
<1>6. w = v
  BY <1>3, <1>4, <1>5, ListsEqual
<1> QED
  BY <1>6 DEF u, v, w

LEMMA LineIs ==
  ASSUME NEW f \in Family, NEW c \in Configuration
  PROVE  /\ Nets(f) \in Nat /\ Ways(c) \in Nat
         /\ List(Line(f, c)) /\ Len(Line(f, c)) = Nets(f) + Ways(c)
         /\ \A k \in 1..Nets(f) : Line(f, c)[k] = Exclude(f)[k]
         /\ \A j \in 1..Ways(c) : Line(f, c)[Nets(f) + j] = Jump(f, Groups(c)[j], "R")
<1> DEFINE a == Exclude(f)
           b == Ending(f, c)
           m == Nets(f)
           n == Ways(c)
           u == Line(f, c)
<1>1. m \in Nat /\ n \in Nat
  BY ExcludeIs, GroupsAre
<1>2. List(a) /\ Len(a) = m
  BY ExcludeIs
<1>3. List(b) /\ Len(b) = n /\ \A j \in 1..n : b[j] = Jump(f, Groups(c)[j], "R")
  BY GroupsAre DEF Ending, List
<1>4. Joining(u, a, m, b, n)
  BY <1>2, <1>3, ListsOf DEF Line
<1> HIDE DEF a, b, m, n, u
<1>5. List(u) /\ Len(u) = m + n /\ \A k \in 1..(m + n) : u[k] = IF k <= m THEN a[k] ELSE b[k - m]
  BY <1>4, Zenon DEF Joining
<1>6. \A k \in 1..m : u[k] = a[k]
  BY <1>1, <1>5
<1>7. ASSUME NEW j \in 1..n PROVE u[m + j] = b[j]
  <2>1. m + j \in 1..(m + n) /\ ~(m + j <= m) /\ (m + j) - m = j
    BY <1>1
  <2> QED
    BY <1>5, <2>1, Zenon
<1>8. \A j \in 1..n : u[m + j] = Jump(f, Groups(c)[j], "R")
  BY <1>3, <1>7
<1> QED
  BY <1>1, <1>5, <1>6, <1>8, Zenon DEF a, b, m, n, u

LEMMA LineGuarded ==
  ASSUME NEW f \in Family, NEW c \in Configuration, NEW n \in 0..(Nets(f) + Ways(c))
  PROVE  Guarded(f, Upto(Line(f, c), n)) /\ (n >= Nets(f) => Excluding(f, Upto(Line(f, c), n), n))
<1> DEFINE u == Upto(Line(f, c), n)
           m == Nets(f)
           w == Ways(c)
<1>1. /\ m \in Nat /\ w \in Nat
      /\ List(Line(f, c)) /\ Len(Line(f, c)) = m + w
      /\ \A k \in 1..m : Line(f, c)[k] = Exclude(f)[k]
      /\ \A j \in 1..w : Line(f, c)[m + j] = Jump(f, Groups(c)[j], "R")
  BY LineIs
<1>2. List(u) /\ Len(u) = n /\ \A k \in 1..n : u[k] = Line(f, c)[k]
  BY <1>1, UptoIs
<1> HIDE DEF u, m, w
<1>3. n \in 0..(m + w)
  BY DEF m, w
<1>4. ASSUME NEW k \in 1..n, k <= m PROVE u[k] \in Excludes(f) /\ u[k] \notin JumpsToR(f)
  <2>1. k \in 1..m /\ u[k] = Exclude(f)[k]
    BY <1>1, <1>2, <1>4
  <2>2. u[k] \in Excludes(f)
    BY <2>1 DEF Excludes, m
  <2> QED
    BY <2>2, ExcludesReturn
<1>5. ASSUME NEW k \in 1..n, ~(k <= m)
      PROVE  u[k] \in JumpsToR(f)
  <2>1. k - m \in 1..w /\ m + (k - m) = k
    BY <1>1, <1>3, <1>5
  <2>2. u[k] = Jump(f, Groups(c)[k - m], "R")
    BY <1>1, <1>2, <2>1, Zenon
  <2>3. Groups(c)[k - m] \in SUBSET Iface
    BY <2>1, GroupsAre DEF w
  <2> QED
    BY <2>2, <2>3 DEF JumpsToR
<1>6. ASSUME NEW k \in 0..n, k >= m
      PROVE  Excluding(f, u, k)
  <2>1. \A i \in 1..m : i \in 1..k /\ i \in 1..n /\ u[i] = Exclude(f)[i]
    BY <1>1, <1>2, <1>3, <1>6
  <2> QED
    BY <2>1 DEF Excluding, m
<1>7. \A k \in 1..n : ~(k <= m) => k - 1 \in 0..n /\ k - 1 >= m
  BY <1>1
<1>8. Guarded(f, u)
  BY <1>2, <1>4, <1>5, <1>6, <1>7 DEF Guarded
<1>9. n >= m => Excluding(f, u, n)
  BY <1>1, <1>3, <1>6
<1> QED
  BY <1>8, <1>9 DEF u, m

LEMMA ToRIs ==
  ASSUME NEW f
  PROVE  /\ List(ToR(f)) /\ Len(ToR(f)) = 2
         /\ \A r \in 0..2 : RShape(f, Upto(ToR(f), r))
         /\ Upto(ToR(f), 2) = ToR(f)
<1>1. List(ToR(f)) /\ Len(ToR(f)) = 2 /\ ToR(f)[1] = SkipMarked(f) /\ ToR(f)[2] = ToQueue(f)
  BY DEF ToR, List
<1>2. ASSUME NEW r \in 0..2 PROVE RShape(f, Upto(ToR(f), r))
  <2>1. List(Upto(ToR(f), r)) /\ Len(Upto(ToR(f), r)) = r /\ \A k \in 1..r : Upto(ToR(f), r)[k] = ToR(f)[k]
    BY <1>1, UptoIs
  <2> QED
    BY <1>1, <2>1 DEF RShape
<1>3. Upto(ToR(f), 2) = ToR(f)
  BY <1>1, UptoEnds
<1> QED
  BY <1>1, <1>2, <1>3

-----------------------------------------------------------------------------
(* Setting up with iptables.                                                 *)
LEMMA BuiltIs ==
  ASSUME NEW f, NEW c, NEW s, NEW d, NEW r
  PROVE  LET T == IptBuilt(f, c, s, d, r)
         IN  /\ IsTable(T) /\ DOMAIN T = Chains
             /\ Rules(T, "PRE") = <<Jump(f, Iface, "S")>> /\ Rules(T, "POST") = <<Jump(f, Iface, "D")>>
             /\ Rules(T, "R") = Upto(ToR(f), r)
             /\ Rules(T, "S") = Upto(Line(f, c), s) /\ Rules(T, "D") = Upto(Line(f, c), d)
  BY DEF IptBuilt, IsTable, Rules, Chains

LEMMA BuiltOnly ==
  ASSUME NEW f, NEW c, NEW s, NEW d, NEW r, NEW T, IsTable(T), DOMAIN T = Chains,
         Rules(T, "PRE") = <<Jump(f, Iface, "S")>>, Rules(T, "POST") = <<Jump(f, Iface, "D")>>,
         Rules(T, "R") = Upto(ToR(f), r), Rules(T, "S") = Upto(Line(f, c), s), Rules(T, "D") = Upto(Line(f, c), d)
  PROVE  T = IptBuilt(f, c, s, d, r)
<1> DEFINE U == IptBuilt(f, c, s, d, r)
<1>1. /\ IsTable(U) /\ DOMAIN U = Chains
      /\ Rules(U, "PRE") = Rules(T, "PRE") /\ Rules(U, "POST") = Rules(T, "POST")
      /\ Rules(U, "R") = Rules(T, "R") /\ Rules(U, "S") = Rules(T, "S") /\ Rules(U, "D") = Rules(T, "D")
  BY BuiltIs
<1> HIDE DEF U
<1>2. \A chain \in Chains : Rules(T, chain) = Rules(U, chain)
  BY <1>1 DEF Chains
<1>3. T = U
  BY <1>1, <1>2, TablesEqual
<1> QED
  BY <1>3 DEF U

LEMMA BuiltShape ==
  ASSUME NEW f \in Family, NEW c \in Configuration,
         NEW s \in 0..(Nets(f) + Ways(c)), NEW d \in 0..(Nets(f) + Ways(c)), NEW r \in 0..2
  PROVE  IptShape(f, IptBuilt(f, c, s, d, r))
<1>1. RShape(f, Upto(ToR(f), r)) /\ Guarded(f, Upto(Line(f, c), s)) /\ Guarded(f, Upto(Line(f, c), d))
  BY ToRIs, LineGuarded
<1> QED
  BY <1>1, BuiltIs DEF IptShape, Chains

(* A rule is added to a table that is being built.                           *)
LEMMA BuiltGrows ==
  ASSUME NEW f \in Family, NEW c \in Configuration,
         NEW s \in 0..(Nets(f) + Ways(c)), NEW d \in 0..(Nets(f) + Ways(c)), NEW r \in 0..2
  PROVE  LET T == IptBuilt(f, c, s, d, r)
         IN  /\ \A chain \in Chains : \A x : x.do \in {"return", "queue", "drop", "R"} =>
                  Possible(Edit("append", chain, x), T)
             /\ s < Nets(f) + Ways(c) =>
                  Result(Edit("append", "S", Line(f, c)[s + 1]), T) = IptBuilt(f, c, s + 1, d, r)
             /\ d < Nets(f) + Ways(c) =>
                  Result(Edit("append", "D", Line(f, c)[d + 1]), T) = IptBuilt(f, c, s, d + 1, r)
             /\ r < 2 => Result(Edit("append", "R", ToR(f)[r + 1]), T) = IptBuilt(f, c, s, d, r + 1)
<1> DEFINE T == IptBuilt(f, c, s, d, r)
           len == Nets(f) + Ways(c)
<1>1. /\ IsTable(T) /\ DOMAIN T = Chains
      /\ Rules(T, "PRE") = <<Jump(f, Iface, "S")>> /\ Rules(T, "POST") = <<Jump(f, Iface, "D")>>
      /\ Rules(T, "R") = Upto(ToR(f), r)
      /\ Rules(T, "S") = Upto(Line(f, c), s) /\ Rules(T, "D") = Upto(Line(f, c), d)
  BY BuiltIs
<1>2. /\ List(Line(f, c)) /\ Len(Line(f, c)) = len /\ List(ToR(f)) /\ Len(ToR(f)) = 2
      /\ s \in Nat /\ d \in Nat /\ r \in Nat
  BY LineIs, ToRIs
<1> HIDE DEF T, len
<1>3. ASSUME NEW chain \in Chains, NEW x
      PROVE  /\ x.do \in {"return", "queue", "drop", "R"} => Possible(Edit("append", chain, x), T)
             /\ Becomes(Result(Edit("append", chain, x), T), T, Chains, chain, Append(Rules(T, chain), x))
  BY <1>1, AddRule DEF Chains
<1>4. ASSUME s < len
      PROVE  Result(Edit("append", "S", Line(f, c)[s + 1]), T) = IptBuilt(f, c, s + 1, d, r)
  <2> DEFINE U == Result(Edit("append", "S", Line(f, c)[s + 1]), T)
  <2>1. Append(Upto(Line(f, c), s), Line(f, c)[s + 1]) = Upto(Line(f, c), s + 1)
    BY <1>2, <1>4, UptoNext
  <2>2. Becomes(U, T, Chains, "S", Upto(Line(f, c), s + 1))
    BY <1>1, <1>3, <2>1 DEF Chains
  <2> HIDE DEF U
  <2>3. U = IptBuilt(f, c, s + 1, d, r)
    BY <1>1, <2>2, BuiltOnly DEF Becomes
  <2> QED
    BY <2>3 DEF U
<1>5. ASSUME d < len
      PROVE  Result(Edit("append", "D", Line(f, c)[d + 1]), T) = IptBuilt(f, c, s, d + 1, r)
  <2> DEFINE U == Result(Edit("append", "D", Line(f, c)[d + 1]), T)
  <2>1. Append(Upto(Line(f, c), d), Line(f, c)[d + 1]) = Upto(Line(f, c), d + 1)
    BY <1>2, <1>5, UptoNext
  <2>2. Becomes(U, T, Chains, "D", Upto(Line(f, c), d + 1))
    BY <1>1, <1>3, <2>1 DEF Chains
  <2> HIDE DEF U
  <2>3. U = IptBuilt(f, c, s, d + 1, r)
    BY <1>1, <2>2, BuiltOnly DEF Becomes
  <2> QED
    BY <2>3 DEF U
<1>6. ASSUME r < 2
      PROVE  Result(Edit("append", "R", ToR(f)[r + 1]), T) = IptBuilt(f, c, s, d, r + 1)
  <2> DEFINE U == Result(Edit("append", "R", ToR(f)[r + 1]), T)
  <2>1. Append(Upto(ToR(f), r), ToR(f)[r + 1]) = Upto(ToR(f), r + 1)
    BY <1>2, <1>6, UptoNext
  <2>2. Becomes(U, T, Chains, "R", Upto(ToR(f), r + 1))
    BY <1>1, <1>3, <2>1 DEF Chains
  <2> HIDE DEF U
  <2>3. U = IptBuilt(f, c, s, d, r + 1)
    BY <1>1, <2>2, BuiltOnly DEF Becomes
  <2> QED
    BY <2>3 DEF U
<1> QED
  BY <1>3, <1>4, <1>5, <1>6 DEF T, len

LEMMA RulesDo ==
  ASSUME NEW f \in Family, NEW c \in Configuration
  PROVE  /\ \A k \in 1..(Nets(f) + Ways(c)) : Line(f, c)[k].do \in {"return", "R"}
         /\ ToR(f)[1] = SkipMarked(f) /\ SkipMarked(f).do = "return"
         /\ ToR(f)[2] = ToQueue(f) /\ ToQueue(f).do = "queue"
<1>1. ASSUME NEW k \in 1..(Nets(f) + Ways(c)) PROVE Line(f, c)[k].do \in {"return", "R"}
  <2>1. CASE k <= Nets(f)
    <3>1. k \in 1..Nets(f) /\ Line(f, c)[k] = Exclude(f)[k]
      BY <2>1, LineIs
    <3>2. Exclude(f)[k] \in Excludes(f)
      BY <3>1 DEF Excludes
    <3> QED
      BY <3>1, <3>2, ExcludesReturn
  <2>2. CASE ~(k <= Nets(f))
    <3>1. k - Nets(f) \in 1..Ways(c) /\ Nets(f) + (k - Nets(f)) = k
      BY <2>2, LineIs
    <3>2. Line(f, c)[k] = Jump(f, Groups(c)[k - Nets(f)], "R")
      BY <3>1, LineIs, Zenon
    <3> QED
      BY <3>2, KindsOfRules
  <2> QED
    BY <2>1, <2>2
<1>2. SkipMarked(f).do = "return" /\ ToQueue(f).do = "queue"
  BY DEF SkipMarked, ToQueue, Rule
<1> QED
  BY <1>1, <1>2 DEF ToR

Grows(f, c, j, T, cmd) ==
  /\ Possible(cmd, T) /\ IptShape(f, Result(cmd, T))
  /\ \E s, d \in 0..(Nets(f) + Ways(c)), r \in 0..2 :
       IptLegal(f, c, s, d, r) /\ j = 5 + s + d + r /\ Result(cmd, T) = IptBuilt(f, c, s, d, r)
LEMMA IptLateStep ==
  ASSUME NEW f \in Family, NEW c \in Configuration, c.use_iptables,
         NEW j \in Nat, j >= 5, j < Len(SetupCmds(f, c)), NEW T, NEW misses, IptSetupAt(f, c, j, T, misses),
         NEW cmd, cmd = SetupCmds(f, c)[j + 1]
  PROVE  Grows(f, c, j + 1, T, cmd)
<1> DEFINE n == Nets(f)
           w == Ways(c)
           x == Line(f, c)
           p == SetupCmds(f, c)
<1>1. n \in Nat /\ w \in Nat
  BY LineIs
<1>2. PICK s \in 0..(n + w), d \in 0..(n + w), r \in 0..2 :
        IptLegal(f, c, s, d, r) /\ j = 5 + s + d + r /\ T = IptBuilt(f, c, s, d, r)
  BY DEF IptSetupAt
<1>3. /\ Len(p) = 7 + 2 * n + 2 * w
      /\ \A k \in 1..n : p[5 + k] = Edit("append", "S", x[k])
      /\ \A k \in 1..n : p[5 + n + k] = Edit("append", "D", x[k])
      /\ p[5 + 2 * n + 1] = Edit("append", "R", ToR(f)[1])
      /\ p[5 + 2 * n + 2] = Edit("append", "R", ToR(f)[2])
      /\ \A i \in 1..w : p[5 + 2 * n + 2 * i + 1] = Edit("append", "S", x[n + i])
      /\ \A i \in 1..w : p[5 + 2 * n + 2 * i + 2] = Edit("append", "D", x[n + i])
  <2>1. p = IptSetup(f, c)
    BY DEF SetupCmds
  <2>2. /\ \A k \in 1..n : x[k] = Exclude(f)[k]
        /\ \A i \in 1..w : x[n + i] = Jump(f, Groups(c)[i], "R")
    BY LineIs
  <2> QED
    BY <2>1, <2>2, IptSetupIs, RulesDo
<1>4. /\ \A chain \in Chains : \A y : y.do \in {"return", "queue", "drop", "R"} => Possible(Edit("append", chain, y), T)
      /\ s < n + w => Result(Edit("append", "S", x[s + 1]), T) = IptBuilt(f, c, s + 1, d, r)
      /\ d < n + w => Result(Edit("append", "D", x[d + 1]), T) = IptBuilt(f, c, s, d + 1, r)
      /\ r < 2 => Result(Edit("append", "R", ToR(f)[r + 1]), T) = IptBuilt(f, c, s, d, r + 1)
  BY <1>2, BuiltGrows
<1>5. /\ \A k \in 1..(n + w) : x[k].do \in {"return", "R"}
      /\ \A k \in 1..2 : ToR(f)[k].do \in {"return", "queue"}
  BY RulesDo
<1>6. \/ s < n /\ d = 0 /\ r = 0
      \/ s = n /\ d < n /\ r = 0
      \/ s = n /\ d = n /\ r < 2
      \/ s >= n /\ s <= n + w /\ d <= s /\ d >= s - 1 /\ d >= n /\ r = 2
  BY <1>1, <1>2 DEF IptLegal
<1>7. /\ \A s1, d1 : s1 = n /\ d1 <= n => IptLegal(f, c, s1, d1, 0)
      /\ \A s1 : s1 <= n => IptLegal(f, c, s1, 0, 0)
      /\ \A r1 : r1 <= 2 => IptLegal(f, c, n, n, r1)
      /\ \A s1, d1 : s1 >= n /\ s1 <= n + w /\ d1 <= s1 /\ d1 >= s1 - 1 /\ d1 >= n => IptLegal(f, c, s1, d1, 2)
  BY DEF IptLegal
<1> HIDE DEF n, w, x, p
<1>8. /\ s \in Nat /\ d \in Nat /\ r \in 0..2 /\ s <= n + w /\ d <= n + w
      /\ j = 5 + s + d + r /\ j < 7 + 2 * n + 2 * w
  BY <1>1, <1>2, <1>3 DEF n, w, p
<1>9. cmd = p[j + 1]
  BY DEF p
<1>10. ASSUME NEW s1 \in 0..(n + w), NEW d1 \in 0..(n + w), NEW r1 \in 0..2, Possible(cmd, T),
             IptLegal(f, c, s1, d1, r1), j + 1 = 5 + s1 + d1 + r1, Result(cmd, T) = IptBuilt(f, c, s1, d1, r1)
      PROVE  Grows(f, c, j + 1, T, cmd)
  <2>1. IptShape(f, IptBuilt(f, c, s1, d1, r1))
    BY BuiltShape DEF n, w
  <2> QED
    BY <1>10, <2>1, Zenon DEF Grows, n, w
<1>11. "S" \in Chains /\ "D" \in Chains /\ "R" \in Chains
  BY DEF Chains
<1>12. CASE s < n /\ d = 0 /\ r = 0
  <2>1. s + 1 \in 1..n /\ s + 1 \in 1..(n + w) /\ s < n + w /\ j + 1 = 5 + (s + 1)
    BY <1>1, <1>8, <1>12
  <2>2. cmd = Edit("append", "S", x[s + 1])
    BY <1>3, <1>9, <2>1, Zenon
  <2>3. Possible(cmd, T) /\ Result(cmd, T) = IptBuilt(f, c, s + 1, d, r)
    BY <1>4, <1>5, <1>11, <2>1, <2>2
  <2>4. IptLegal(f, c, s + 1, d, r)
    BY <1>7, <1>8, <1>12, <2>1
  <2>5. s + 1 \in 0..(n + w) /\ d \in 0..(n + w) /\ j + 1 = 5 + (s + 1) + d + r
    BY <1>1, <1>8, <1>12, <2>1
  <2> QED
    BY <1>10, <2>3, <2>4, <2>5, Zenon
<1>13. CASE s = n /\ d < n /\ r = 0
  <2>1. d + 1 \in 1..n /\ d + 1 \in 1..(n + w) /\ d < n + w /\ j + 1 = 5 + n + (d + 1)
    BY <1>1, <1>8, <1>13
  <2>2. cmd = Edit("append", "D", x[d + 1])
    BY <1>3, <1>9, <2>1, Zenon
  <2>3. Possible(cmd, T) /\ Result(cmd, T) = IptBuilt(f, c, s, d + 1, r)
    BY <1>4, <1>5, <1>11, <2>1, <2>2
  <2>4. IptLegal(f, c, s, d + 1, r)
    BY <1>7, <1>8, <1>13, <2>1
  <2>5. d + 1 \in 0..(n + w) /\ s \in 0..(n + w) /\ j + 1 = 5 + s + (d + 1) + r
    BY <1>1, <1>8, <1>13, <2>1
  <2> QED
    BY <1>10, <2>3, <2>4, <2>5, Zenon
<1>14. CASE s = n /\ d = n /\ r < 2
  <2>1. r + 1 \in 1..2 /\ r < 2 /\ j + 1 = 5 + 2 * n + (r + 1)
    BY <1>1, <1>8, <1>14
  <2>2. cmd = Edit("append", "R", ToR(f)[r + 1])
    BY <1>3, <1>9, <2>1
  <2>3. Possible(cmd, T) /\ Result(cmd, T) = IptBuilt(f, c, s, d, r + 1)
    BY <1>4, <1>5, <1>11, <2>1, <2>2
  <2>4. IptLegal(f, c, s, d, r + 1)
    BY <1>7, <1>8, <1>14, <2>1
  <2>5. d \in 0..(n + w) /\ s \in 0..(n + w) /\ r + 1 \in 0..2 /\ j + 1 = 5 + s + d + (r + 1)
    BY <1>1, <1>8, <1>14, <2>1
  <2> QED
    BY <1>10, <2>3, <2>4, <2>5, Zenon
<1>15. CASE s >= n /\ d = s /\ r = 2
  <2>1. /\ (s - n) + 1 \in 1..w /\ n + ((s - n) + 1) = s + 1 /\ s + 1 \in 1..(n + w) /\ s < n + w
        /\ j + 1 = 5 + 2 * n + 2 * ((s - n) + 1) + 1
    BY <1>1, <1>8, <1>15
  <2>2. cmd = Edit("append", "S", x[s + 1])
    BY <1>3, <1>9, <2>1, Zenon
  <2>3. Possible(cmd, T) /\ Result(cmd, T) = IptBuilt(f, c, s + 1, d, r)
    BY <1>4, <1>5, <1>11, <2>1, <2>2
  <2>4. IptLegal(f, c, s + 1, d, r)
    <3>1. s + 1 >= n /\ s + 1 <= n + w /\ d <= s + 1 /\ d >= (s + 1) - 1 /\ d >= n /\ r = 2
      BY <1>1, <1>8, <1>15, <2>1
    <3> QED
      BY <1>7, <3>1, Zenon
  <2>5. s + 1 \in 0..(n + w) /\ d \in 0..(n + w) /\ j + 1 = 5 + (s + 1) + d + r
    BY <1>1, <1>8, <1>15, <2>1
  <2> QED
    BY <1>10, <2>3, <2>4, <2>5, Zenon
<1>16. CASE s >= n /\ d = s - 1 /\ d >= n /\ r = 2
  <2>1. /\ (d - n) + 1 \in 1..w /\ n + ((d - n) + 1) = d + 1 /\ d + 1 \in 1..(n + w) /\ d < n + w
        /\ j + 1 = 5 + 2 * n + 2 * ((d - n) + 1) + 2
    BY <1>1, <1>8, <1>16
  <2>2. cmd = Edit("append", "D", x[d + 1])
    BY <1>3, <1>9, <2>1, Zenon
  <2>3. Possible(cmd, T) /\ Result(cmd, T) = IptBuilt(f, c, s, d + 1, r)
    BY <1>4, <1>5, <1>11, <2>1, <2>2
  <2>4. IptLegal(f, c, s, d + 1, r)
    <3>1. s >= n /\ s <= n + w /\ d + 1 <= s /\ d + 1 >= s - 1 /\ d + 1 >= n /\ r = 2
      BY <1>1, <1>8, <1>16, <2>1
    <3> QED
      BY <1>7, <3>1, Zenon
  <2>5. d + 1 \in 0..(n + w) /\ s \in 0..(n + w) /\ j + 1 = 5 + s + (d + 1) + r
    BY <1>1, <1>8, <1>16, <2>1
  <2> QED
    BY <1>10, <2>3, <2>4, <2>5, Zenon
<1> QED
  BY <1>1, <1>6, <1>8, <1>12, <1>13, <1>14, <1>15, <1>16

LEMMA NewChainShape ==
  ASSUME NEW f, NEW T, IptShape(f, T), NEW c \in {"R", "S", "D"},
         NEW U, Becomes(U, T, DOMAIN T \cup {c}, c, << >>)
  PROVE  IptShape(f, U)
<1>1. \A d : Rules(U, d) = Rules(T, d) \/ Rules(U, d) = << >>
  BY DEF Becomes
<1>2. IsTable(U) /\ DOMAIN U = DOMAIN T \cup {c}
  BY DEF Becomes
<1> QED
  BY <1>1, <1>2, NoRShape, NoneGuarded DEF IptShape, Chains

LEMMA LinkedShape ==
  ASSUME NEW f, NEW T, IptShape(f, T), NEW base, NEW c \in DOMAIN T, <<base, c>> \in {<<"PRE", "S">>, <<"POST", "D">>},
         NEW U, Becomes(U, T, DOMAIN T, base, <<Jump(f, Iface, c)>>)
  PROVE  IptShape(f, U)
<1>1. Rules(U, base) = <<Jump(f, Iface, c)>> /\ \A d : d # base => Rules(U, d) = Rules(T, d)
  BY DEF Becomes
<1>2. IsTable(U) /\ DOMAIN U = DOMAIN T
  BY DEF Becomes
<1> QED
  BY <1>1, <1>2 DEF IptShape

LEMMA IptEarlyStep ==
  ASSUME NEW f \in Family, NEW c \in Configuration, c.use_iptables,
         NEW j \in 0..4, NEW T, IptShape(f, T), NEW misses \in Nat, IptSetupAt(f, c, j, T, misses),
         NEW cmd, cmd = SetupCmds(f, c)[j + 1]
  PROVE  /\ Possible(cmd, T) => IptShape(f, Result(cmd, T)) /\ IptSetupAt(f, c, j + 1, Result(cmd, T), misses)
         /\ misses = 0 => Possible(cmd, T)
<1> DEFINE U == Result(cmd, T)
           p == SetupCmds(f, c)
<1>1. IsTable(T) /\ IptEarly(f, j, T, misses)
  BY DEF IptShape, IptSetupAt
<1>2. /\ p[1] = Chain("new", "S") /\ p[2] = Chain("new", "D")
      /\ p[3] = Edit("insert", "PRE", Jump(f, Iface, "S"))
      /\ p[4] = Edit("insert", "POST", Jump(f, Iface, "D"))
      /\ p[5] = Chain("new", "R")
  BY IptSetupIs DEF SetupCmds
<1> HIDE DEF p
<1>3. ASSUME NEW chain \in {"S", "D", "R"}, cmd = Chain("new", chain)
      PROVE  /\ Possible(cmd, T) <=> chain \notin DOMAIN T
             /\ Possible(cmd, T) => IptShape(f, U) /\ Becomes(U, T, DOMAIN T \cup {chain}, chain, << >>)
  BY <1>1, <1>3, NewChain, NewChainShape
<1>4. ASSUME NEW base, NEW to \in DOMAIN T, <<base, to>> \in {<<"PRE", "S">>, <<"POST", "D">>},
             Rules(T, base) = << >>, cmd = Edit("insert", base, Jump(f, Iface, to))
      PROVE  Possible(cmd, T) /\ IptShape(f, U) /\ Becomes(U, T, DOMAIN T, base, <<Jump(f, Iface, to)>>)
  <2>1. base \in DOMAIN T /\ Jump(f, Iface, to).do = to
    BY <1>4, LinksDiffer DEF IptShape
  <2>2. Possible(cmd, T) /\ Becomes(U, T, DOMAIN T, base, <<Jump(f, Iface, to)>> \o << >>)
    BY <1>1, <1>4, <2>1, AddRule
  <2>3. <<Jump(f, Iface, to)>> \o << >> = <<Jump(f, Iface, to)>>
    OBVIOUS
  <2>4. Becomes(U, T, DOMAIN T, base, <<Jump(f, Iface, to)>>)
    BY <2>2, <2>3, Zenon
  <2> QED
    BY <1>4, <2>2, <2>4, LinkedShape
<1>5. IptEarly(f, j + 1, U, misses) /\ j <= 3 => IptSetupAt(f, c, j + 1, U, misses)
  BY DEF IptSetupAt
<1>6. "S" \notin DOMAIN T => Rules(T, "PRE") = << >>
  BY DEF IptShape
<1>7. "D" \notin DOMAIN T => Rules(T, "POST") = << >>
  BY DEF IptShape
<1> HIDE DEF U
<1>8. CASE j = 0
  <2>1. cmd = Chain("new", "S")
    BY <1>2, <1>8 DEF p
  <2>2. Possible(cmd, T) => IptEarly(f, 1, U, misses)
    BY <1>1, <1>3, <1>6, <1>8, <2>1 DEF IptEarly, Becomes, Flushed
  <2>3. misses = 0 => Possible(cmd, T)
    BY <1>1, <1>3, <1>8, <2>1 DEF IptEarly
  <2> QED
    BY <1>3, <1>5, <1>8, <2>1, <2>2, <2>3 DEF U
<1>9. CASE j = 1
  <2>1. cmd = Chain("new", "D")
    BY <1>2, <1>9 DEF p
  <2>2. Possible(cmd, T) => IptEarly(f, 2, U, misses)
    BY <1>1, <1>3, <1>7, <1>9, <2>1 DEF IptEarly, Becomes, Flushed
  <2>3. misses = 0 => Possible(cmd, T)
    BY <1>1, <1>3, <1>9, <2>1 DEF IptEarly
  <2> QED
    BY <1>3, <1>5, <1>9, <2>1, <2>2, <2>3 DEF U
<1>10. CASE j = 2
  <2>1. cmd = Edit("insert", "PRE", Jump(f, Iface, "S")) /\ "S" \in DOMAIN T /\ Rules(T, "PRE") = << >>
    BY <1>1, <1>2, <1>10 DEF p, IptEarly, Flushed
  <2>2. Possible(cmd, T) /\ IptShape(f, U) /\ Becomes(U, T, DOMAIN T, "PRE", <<Jump(f, Iface, "S")>>)
    <3>1. <<"PRE", "S">> \in {<<"PRE", "S">>, <<"POST", "D">>}
      OBVIOUS
    <3> QED
      BY <1>4, <2>1, <3>1, Zenon
  <2>3. IptEarly(f, 3, U, misses)
    BY <1>1, <1>10, <2>2 DEF IptEarly, Becomes, Flushed
  <2> QED
    BY <1>5, <1>10, <2>2, <2>3 DEF U
<1>11. CASE j = 3
  <2>1. cmd = Edit("insert", "POST", Jump(f, Iface, "D")) /\ "D" \in DOMAIN T /\ Rules(T, "POST") = << >>
    BY <1>1, <1>2, <1>11 DEF p, IptEarly, Flushed
  <2>2. Possible(cmd, T) /\ IptShape(f, U) /\ Becomes(U, T, DOMAIN T, "POST", <<Jump(f, Iface, "D")>>)
    <3>1. <<"POST", "D">> \in {<<"PRE", "S">>, <<"POST", "D">>}
      OBVIOUS
    <3> QED
      BY <1>4, <2>1, <3>1, Zenon
  <2>3. IptEarly(f, 4, U, misses)
    BY <1>1, <1>11, <2>2 DEF IptEarly, Becomes, Flushed
  <2> QED
    BY <1>5, <1>11, <2>2, <2>3 DEF U
<1>12. CASE j = 4
  <2>1. cmd = Chain("new", "R")
    BY <1>2, <1>12 DEF p
  <2>2. misses = 0 => Possible(cmd, T)
    BY <1>1, <1>3, <1>12, <2>1 DEF IptEarly
  <2>3. ASSUME Possible(cmd, T) PROVE IptSetupAt(f, c, 5, U, misses)
    <3>1. Becomes(U, T, DOMAIN T \cup {"R"}, "R", << >>)
      BY <1>3, <2>1, <2>3
    <3>2. /\ "S" \in DOMAIN T /\ "D" \in DOMAIN T /\ Rules(T, "S") = << >> /\ Rules(T, "D") = << >>
          /\ Rules(T, "PRE") = <<Jump(f, Iface, "S")>> /\ Rules(T, "POST") = <<Jump(f, Iface, "D")>>
      BY <1>1, <1>12 DEF IptEarly, Flushed
    <3>3. DOMAIN T \cup {"R"} = Chains
      BY <3>2 DEF IptShape, Chains
    <3>4. Upto(ToR(f), 0) = << >> /\ Upto(Line(f, c), 0) = << >>
      BY LineIs, ToRIs, UptoEnds
    <3>5. U = IptBuilt(f, c, 0, 0, 0)
      BY <3>1, <3>2, <3>3, <3>4, BuiltOnly DEF Becomes
    <3>6. Nets(f) \in Nat /\ Ways(c) \in Nat
      BY LineIs
    <3>7. 0 \in 0..(Nets(f) + Ways(c)) /\ 0 \in 0..2 /\ IptLegal(f, c, 0, 0, 0) /\ 5 = 5 + 0 + 0 + 0 /\ ~(5 <= 4)
      BY <3>6 DEF IptLegal
    <3> QED
      BY <3>5, <3>7, Zenon DEF IptSetupAt
  <2> QED
    BY <1>3, <1>12, <2>1, <2>2, <2>3 DEF U
<1> QED
  BY <1>8, <1>9, <1>10, <1>11, <1>12 DEF U

LEMMA IptSetupStep ==
  ASSUME NEW f \in Family, NEW c \in Configuration, c.use_iptables,
         NEW j \in 0..(Len(SetupCmds(f, c)) - 1), NEW T, IptShape(f, T), NEW misses \in Nat,
         IptSetupAt(f, c, j, T, misses), NEW cmd, cmd = SetupCmds(f, c)[j + 1]
  PROVE  /\ Possible(cmd, T) => IptShape(f, Result(cmd, T)) /\ IptSetupAt(f, c, j + 1, Result(cmd, T), misses)
         /\ misses = 0 => Possible(cmd, T)
<1>1. CASE j <= 4
  <2>1. j \in 0..4
    BY <1>1
  <2> QED
    BY <2>1, IptEarlyStep
<1>2. CASE ~(j <= 4)
  <2>1. j \in Nat /\ j >= 5 /\ j < Len(SetupCmds(f, c)) /\ ~(j + 1 <= 4)
    BY <1>2, SetupIsLong
  <2>2. Grows(f, c, j + 1, T, cmd)
    BY <2>1, IptLateStep
  <2> QED
    BY <2>1, <2>2 DEF Grows, IptSetupAt
<1> QED
  BY <1>1, <1>2

-----------------------------------------------------------------------------
(* Cleaning up and setting up with nft.                                      *)
Regrouped(s, t, u) == (s \o t) \o u = s \o (t \o u) /\ << >> \o s = s

LEMMA Regroups ==
  ASSUME NEW s, NEW t, NEW u, List(s), List(t), List(u)
  PROVE  Regrouped(s, t, u)
<1> DEFINE S == Range(s) \cup Range(t) \cup Range(u)
<1>1. s \in Seq(S) /\ t \in Seq(S) /\ u \in Seq(S)
  <2>1. s \in Seq(Range(s)) /\ t \in Seq(Range(t)) /\ u \in Seq(Range(u))
    BY ListHas
  <2> QED
    BY <2>1
<1> HIDE DEF S
<1>2. (s \o t) \o u = s \o (t \o u) /\ << >> \o s = s
  BY <1>1, ConcatAssociative, ConcatEmptySeq
<1> QED
  BY <1>2, Zenon DEF Regrouped

NftChains == {"PRE", "POST", "R"}

LEMMA NoTable == IsTable(<< >>) /\ DOMAIN << >> = {} /\ \A c : Rules(<< >>, c) = << >>
  BY DEF IsTable, Rules

LEMMA NftCleanupStep ==
  ASSUME NEW f \in Family, NEW c \in Configuration, ~c.use_iptables,
         NEW T, NftShape(f, T), NEW misses \in Nat, NEW cmd, cmd = CleanCmds(f, c)[1]
  PROVE  /\ Possible(cmd, T) => NftShape(f, Result(cmd, T)) /\ CleanupAt(c, 1, Result(cmd, T), misses)
         /\ ~Possible(cmd, T) => CleanupAt(c, 1, T, misses)
         /\ CleanupAt(c, 1, T, misses + 1)
<1>1. cmd = Unload
  BY CleanupIs
<1>2. Possible(cmd, T) <=> DOMAIN T # {}
  BY <1>1, UnloadTable
<1>3. Result(cmd, T) = << >>
  BY <1>1, UnloadTable
<1>4. NftShape(f, << >>)
  BY NoTable DEF NftShape
<1> QED
  BY <1>2, <1>3, <1>4, NoTable DEF CleanupAt

LEMMA NftTableIs ==
  ASSUME NEW f \in Family
  PROVE  /\ DOMAIN NftTable(f) = NftChains
         /\ Rules(NftTable(f), "R") = ToR(f)
         /\ \A c \in {"PRE", "POST"} : Rules(NftTable(f), c) = Exclude(f)
  BY DEF NftTable, Rules, ToR, NftChains

LEMMA ExcludeGuarded ==
  ASSUME NEW f \in Family
  PROVE  /\ List(Exclude(f)) /\ Excluding(f, Exclude(f), Len(Exclude(f)))
         /\ \A k \in 1..Len(Exclude(f)) : Exclude(f)[k] \in Excludes(f) /\ Exclude(f)[k] \notin JumpsToR(f)
         /\ Guarded(f, Exclude(f))
<1>1. List(Exclude(f)) /\ Len(Exclude(f)) = Nets(f)
  BY ExcludeIs
<1>2. \A k \in 1..Nets(f) : Exclude(f)[k] \in Excludes(f)
  BY DEF Excludes
<1>3. \A k \in 1..Nets(f) : Exclude(f)[k] \notin JumpsToR(f)
  BY <1>2, ExcludesReturn
<1>4. Excluding(f, Exclude(f), Nets(f))
  BY DEF Excluding
<1> QED
  BY <1>1, <1>2, <1>3, <1>4 DEF Guarded

LEMMA LoadedShape ==
  ASSUME NEW f \in Family, NEW T, NftShape(f, T)
  PROVE  NftShape(f, Result(Load(NftTable(f)), T))
<1> DEFINE U == Result(Load(NftTable(f)), T)
<1>1. /\ IsTable(U) /\ DOMAIN U = NftChains
      /\ Rules(U, "R") = Rules(T, "R") \o ToR(f)
      /\ \A c \in {"PRE", "POST"} : Rules(U, c) = Rules(T, c) \o Exclude(f)
  <2>1. /\ IsTable(U) /\ DOMAIN U = DOMAIN T \cup NftChains
        /\ \A c \in DOMAIN T \cup NftChains : Rules(U, c) = Rules(T, c) \o Rules(NftTable(f), c)
    <3>1. DOMAIN NftTable(f) = NftChains
      BY NftTableIs
    <3> QED
      BY <3>1, LoadTable, Zenon
  <2>2. DOMAIN T \cup NftChains = NftChains
    BY DEF NftShape, NftChains
  <2> QED
    BY <2>1, <2>2, NftTableIs DEF NftChains
<1> HIDE DEF U
<1>2. RShape(f, Rules(T, "R")) /\ \A c \in {"PRE", "POST"} : Guarded(f, Rules(T, c))
  BY NoRShape, NoneGuarded DEF NftShape, Rules
<1>3. RShape(f, Rules(U, "R"))
  <2> DEFINE s == Rules(T, "R")
             m == Len(s)
             u == s \o ToR(f)
  <2>1. List(s) /\ m \in Nat /\ List(ToR(f)) /\ Len(ToR(f)) = 2
    BY <1>2, ToRIs DEF RShape, List
  <2>2. List(u) /\ Len(u) = m + 2 /\ \A k \in 1..(m + 2) : u[k] = IF k <= m THEN s[k] ELSE ToR(f)[k - m]
    <3>1. Joining(u, s, m, ToR(f), 2)
      BY <2>1, ListsOf, Zenon
    <3> QED
      BY <3>1 DEF Joining
  <2>3. \A k \in 1..2 : ToR(f)[k] \in {SkipMarked(f), ToQueue(f)}
    BY DEF ToR
  <2>4. \A k \in 1..m : s[k] \in {SkipMarked(f), ToQueue(f)}
    BY <1>2 DEF RShape
  <2>5. (m > 0 => s[1] = SkipMarked(f)) /\ ToR(f)[1] = SkipMarked(f)
    BY <1>2 DEF RShape, ToR
  <2> HIDE DEF s, m, u
  <2>6. ASSUME NEW k \in 1..(m + 2) PROVE u[k] \in {SkipMarked(f), ToQueue(f)}
    <3>1. k <= m \/ k - m \in 1..2
      BY <2>1
    <3> QED
      BY <2>2, <2>3, <2>4, <3>1
  <2>7. u[1] = SkipMarked(f)
    BY <2>1, <2>2, <2>5
  <2>8. RShape(f, u)
    BY <2>2, <2>6, <2>7 DEF RShape
  <2> QED
    BY <1>1, <2>8 DEF u, s
<1>4. ASSUME NEW c \in {"PRE", "POST"}
      PROVE  /\ Guarded(f, Rules(U, c)) /\ Excluding(f, Rules(U, c), Len(Rules(U, c)))
             /\ \A x : Has(Rules(U, c), x) <=> Has(Rules(T, c), x) \/ Has(Exclude(f), x)
  <2>1. Guarded(f, Rules(T, c)) /\ List(Rules(T, c))
    BY <1>2 DEF Guarded
  <2>2. Guarded(f, Rules(T, c) \o Exclude(f))
    BY <2>1, GuardedJoin, ExcludeGuarded
  <2>3. Excluding(f, Rules(T, c) \o Exclude(f), Len(Rules(T, c) \o Exclude(f)))
    BY <2>1, ExcludingJoin, ExcludeGuarded
  <2>4. \A x : Has(Rules(T, c) \o Exclude(f), x) <=> Has(Rules(T, c), x) \/ Has(Exclude(f), x)
    BY <2>1, HasJoin, ExcludeGuarded
  <2> QED
    BY <1>1, <2>2, <2>3, <2>4
<1>5. ASSUME NEW c \in {"PRE", "POST"}, NEW is \in SUBSET Iface, Has(Rules(U, c), Jump(f, is, "R"))
      PROVE  Has(Rules(U, "PRE"), DropExpired(f, is))
  <2>1. Jump(f, is, "R") \in JumpsToR(f)
    BY DEF JumpsToR
  <2>2. ~Has(Exclude(f), Jump(f, is, "R"))
    BY <2>1, ExcludeGuarded DEF Has
  <2>3. Has(Rules(T, c), Jump(f, is, "R"))
    BY <1>4, <1>5, <2>2
  <2>4. DOMAIN T # {}
    BY <2>3 DEF Has, Rules
  <2>5. Has(Rules(T, "PRE"), DropExpired(f, is))
    BY <2>3, <2>4 DEF NftShape
  <2> QED
    BY <1>4, <2>5
<1>6. NftShape(f, U)
  BY <1>1, <1>3, <1>4, <1>5 DEF NftShape, NftChains
<1> QED
  BY <1>6 DEF U

LEMMA InsertedShape ==
  ASSUME NEW f \in Family, NEW T, NftShape(f, T), DOMAIN T = NftChains, NEW is \in SUBSET Iface,
         NEW U, Becomes(U, T, DOMAIN T, "PRE", <<DropExpired(f, is)>> \o Rules(T, "PRE"))
  PROVE  NftShape(f, U) /\ \A x : Has(Rules(U, "PRE"), x) <=> x = DropExpired(f, is) \/ Has(Rules(T, "PRE"), x)
<1> DEFINE drop == DropExpired(f, is)
           s == Rules(T, "PRE")
<1>1. /\ IsTable(U) /\ DOMAIN U = NftChains
      /\ Rules(U, "PRE") = <<drop>> \o s /\ Rules(U, "R") = Rules(T, "R") /\ Rules(U, "POST") = Rules(T, "POST")
  BY DEF Becomes
<1>2. /\ \A c \in {"PRE", "POST"} : Guarded(f, Rules(T, c)) /\ Excluding(f, Rules(T, c), Len(Rules(T, c)))
      /\ RShape(f, Rules(T, "R"))
      /\ \A c \in {"PRE", "POST"}, js \in SUBSET Iface : Has(Rules(T, c), Jump(f, js, "R")) => Has(s, DropExpired(f, js))
  BY DEF NftShape, NftChains
<1>3. drop \in Drops(f) /\ drop \notin JumpsToR(f)
  <2>1. drop \in Drops(f)
    BY DEF Drops
  <2> QED
    BY <2>1, KindsOfRules
<1> HIDE DEF drop, s
<1>4. List(<<drop>>) /\ Len(<<drop>>) = 1 /\ <<drop>>[1] = drop /\ \A x : Has(<<drop>>, x) <=> drop = x
  BY One
<1>5. Guarded(f, <<drop>>)
  BY <1>3, <1>4 DEF Guarded
<1>6. Guarded(f, s) /\ List(s) /\ Excluding(f, s, Len(s))
  BY <1>2 DEF Guarded, s
<1>7. Guarded(f, <<drop>> \o s)
  BY <1>5, <1>6, GuardedJoin DEF Guarded
<1>8. Excluding(f, <<drop>> \o s, Len(<<drop>> \o s))
  BY <1>4, <1>6, ExcludingJoin
<1>9. \A x : Has(<<drop>> \o s, x) <=> x = drop \/ Has(s, x)
  BY <1>4, <1>6, HasJoin
<1>10. \A js : Jump(f, js, "R") # drop
  BY KindsOfRules DEF drop
<1>11. ASSUME NEW c \in {"PRE", "POST"}, NEW js \in SUBSET Iface, Has(Rules(U, c), Jump(f, js, "R"))
       PROVE  Has(Rules(U, "PRE"), DropExpired(f, js))
  <2>1. Has(Rules(T, c), Jump(f, js, "R"))
    BY <1>1, <1>9, <1>10, <1>11 DEF s
  <2> QED
    BY <1>1, <1>2, <1>9, <2>1
<1>12. \A c \in {"PRE", "POST"} : Guarded(f, Rules(U, c)) /\ Excluding(f, Rules(U, c), Len(Rules(U, c)))
  BY <1>1, <1>2, <1>7, <1>8
<1>13. NftShape(f, U)
  BY <1>1, <1>2, <1>11, <1>12 DEF NftShape, NftChains
<1> QED
  BY <1>1, <1>9, <1>13 DEF drop, s

LEMMA AppendedShape ==
  ASSUME NEW f \in Family, NEW T, NftShape(f, T), DOMAIN T = NftChains, NEW is \in SUBSET Iface,
         Has(Rules(T, "PRE"), DropExpired(f, is)), NEW base \in {"PRE", "POST"},
         NEW U, Becomes(U, T, DOMAIN T, base, Append(Rules(T, base), Jump(f, is, "R")))
  PROVE  NftShape(f, U) /\ \A x : Has(Rules(T, "PRE"), x) => Has(Rules(U, "PRE"), x)
<1> DEFINE jump == Jump(f, is, "R")
           s == Rules(T, base)
<1>1. /\ IsTable(U) /\ DOMAIN U = NftChains
      /\ Rules(U, base) = Append(s, jump) /\ \A d : d # base => Rules(U, d) = Rules(T, d)
  BY DEF Becomes
<1>2. /\ \A c \in {"PRE", "POST"} : Guarded(f, Rules(T, c)) /\ Excluding(f, Rules(T, c), Len(Rules(T, c)))
      /\ RShape(f, Rules(T, "R"))
      /\ \A c \in {"PRE", "POST"}, js \in SUBSET Iface :
           Has(Rules(T, c), Jump(f, js, "R")) => Has(Rules(T, "PRE"), DropExpired(f, js))
  BY DEF NftShape, NftChains
<1>3. jump \in JumpsToR(f)
  BY DEF JumpsToR
<1> HIDE DEF jump, s
<1>4. List(<<jump>>) /\ Len(<<jump>>) = 1 /\ <<jump>>[1] = jump /\ \A x : Has(<<jump>>, x) <=> jump = x
  BY One
<1>5. Guarded(f, s) /\ List(s) /\ Excluding(f, s, Len(s))
  BY <1>2 DEF Guarded, s
<1>6. Append(s, jump) = s \o <<jump>>
  BY <1>5, AppendOne
<1>7. Guarded(f, Append(s, jump))
  BY <1>3, <1>4, <1>5, <1>6, GuardedJoin
<1>8. Excluding(f, Append(s, jump), Len(Append(s, jump)))
  BY <1>4, <1>5, <1>6, ExcludingJoin
<1>9. \A x : Has(Append(s, jump), x) <=> Has(s, x) \/ x = jump
  BY <1>4, <1>5, <1>6, HasJoin
<1>10. \A js : jump = Jump(f, js, "R") => js = is
  BY KindsOfRules DEF jump
<1>11. \A x : Has(Rules(T, "PRE"), x) => Has(Rules(U, "PRE"), x)
  BY <1>1, <1>9 DEF s
<1>12. ASSUME NEW c \in {"PRE", "POST"}, NEW js \in SUBSET Iface, Has(Rules(U, c), Jump(f, js, "R"))
       PROVE  Has(Rules(U, "PRE"), DropExpired(f, js))
  <2>1. Has(Rules(T, c), Jump(f, js, "R")) \/ js = is
    BY <1>1, <1>9, <1>10, <1>12 DEF s
  <2> QED
    BY <1>2, <1>11, <2>1
<1>13. \A c \in {"PRE", "POST"} : Guarded(f, Rules(U, c)) /\ Excluding(f, Rules(U, c), Len(Rules(U, c)))
  BY <1>1, <1>2, <1>7, <1>8
<1>14. Rules(U, "R") = Rules(T, "R")
  BY <1>1
<1>15. NftShape(f, U)
  BY <1>1, <1>2, <1>12, <1>13, <1>14 DEF NftShape, NftChains
<1> QED
  BY <1>11, <1>15

LEMMA NftBuiltIs ==
  ASSUME NEW f, NEW c, NEW n, NEW a, NEW b
  PROVE  LET T == NftBuilt(f, c, n, a, b)
         IN  /\ IsTable(T) /\ DOMAIN T = NftChains /\ Rules(T, "R") = ToR(f)
             /\ Rules(T, "PRE") = Dropping(f, c, n) \o Upto(Line(f, c), Nets(f) + a)
             /\ Rules(T, "POST") = Upto(Line(f, c), Nets(f) + b)
  BY DEF NftBuilt, IsTable, Rules, NftChains

LEMMA NftBuiltOnly ==
  ASSUME NEW f, NEW c, NEW n, NEW a, NEW b, NEW T, IsTable(T), DOMAIN T = NftChains, Rules(T, "R") = ToR(f),
         Rules(T, "PRE") = Dropping(f, c, n) \o Upto(Line(f, c), Nets(f) + a),
         Rules(T, "POST") = Upto(Line(f, c), Nets(f) + b)
  PROVE  T = NftBuilt(f, c, n, a, b)
<1> DEFINE U == NftBuilt(f, c, n, a, b)
<1>1. /\ IsTable(U) /\ DOMAIN U = NftChains /\ Rules(U, "R") = Rules(T, "R")
      /\ Rules(U, "PRE") = Rules(T, "PRE") /\ Rules(U, "POST") = Rules(T, "POST")
  BY NftBuiltIs
<1> HIDE DEF U
<1>2. \A chain \in NftChains : Rules(T, chain) = Rules(U, chain)
  BY <1>1 DEF NftChains
<1>3. T = U
  BY <1>1, <1>2, TablesEqual
<1> QED
  BY <1>3 DEF U

LEMMA DroppingNext ==
  ASSUME NEW f, NEW c \in Configuration, NEW n \in Nat
  PROVE  /\ List(Dropping(f, c, n)) /\ Len(Dropping(f, c, n)) = n
         /\ <<DropExpired(f, Groups(c)[n + 1])>> \o Dropping(f, c, n) = Dropping(f, c, n + 1)
         /\ Dropping(f, c, 0) = << >>
<1> DEFINE d(m, k) == DropExpired(f, Groups(c)[m + 1 - k])
           s == Dropping(f, c, n)
           t == Dropping(f, c, n + 1)
           x == DropExpired(f, Groups(c)[n + 1])
           u == <<x>> \o s
<1>1. List(s) /\ Len(s) = n /\ \A k \in 1..n : s[k] = d(n, k)
  BY DEF Dropping, List
<1>2. List(t) /\ Len(t) = n + 1 /\ \A k \in 1..(n + 1) : t[k] = d(n + 1, k)
  <2>1. n + 1 \in Nat
    OBVIOUS
  <2> HIDE DEF d
  <2>2. t = [k \in 1..(n + 1) |-> d(n + 1, k)]
    BY DEF Dropping, d
  <2> QED
    BY <2>1, <2>2 DEF List
<1>3. List(<<x>>) /\ Len(<<x>>) = 1 /\ <<x>>[1] = x
  BY One
<1>4. Joining(u, <<x>>, 1, s, n)
  BY <1>1, <1>3, ListsOf
<1>5. d(n + 1, 1) = x
  <2>1. (n + 1) + 1 - 1 = n + 1
    OBVIOUS
  <2> QED
    BY <2>1
<1>6. ASSUME NEW k \in 2..(n + 1) PROVE d(n + 1, k) = d(n, k - 1)
  <2>1. (n + 1) + 1 - k = n + 1 - (k - 1)
    OBVIOUS
  <2> QED
    BY <2>1
<1>7. Dropping(f, c, 0) = << >>
  <2>1. List(Dropping(f, c, 0)) /\ Len(Dropping(f, c, 0)) = 0
    BY DEF Dropping, List
  <2> QED
    BY <2>1 DEF List
<1> HIDE DEF d, s, t, x, u
<1>8. ASSUME NEW k \in 1..(n + 1) PROVE u[k] = t[k]
  <2>1. CASE k = 1
    BY <1>2, <1>3, <1>4, <1>5, <2>1 DEF Joining
  <2>2. CASE k # 1
    <3>1. k \in 2..(n + 1) /\ ~(k <= 1) /\ k - 1 \in 1..n /\ k \in 1..(1 + n)
      BY <2>2
    <3>2. u[k] = s[k - 1]
      BY <1>4, <3>1 DEF Joining
    <3> QED
      BY <1>1, <1>2, <1>6, <3>1, <3>2
  <2> QED
    BY <2>1, <2>2
<1>9. List(u) /\ Len(u) = n + 1
  BY <1>4 DEF Joining
<1>10. u = t
  BY <1>2, <1>8, <1>9, ListsEqual
<1> QED
  BY <1>1, <1>7, <1>10 DEF s, t, x, u

LEMMA NftLoadStep ==
  ASSUME NEW f \in Family, NEW c \in Configuration, ~c.use_iptables,
         NEW T, NftShape(f, T), NEW misses, NftSetupAt(f, c, 0, T, misses), NEW cmd, cmd = SetupCmds(f, c)[1]
  PROVE  Possible(cmd, T) /\ NftShape(f, Result(cmd, T)) /\ NftSetupAt(f, c, 1, Result(cmd, T), misses)
<1> DEFINE U == Result(cmd, T)
<1>1. cmd = Load(NftTable(f))
  BY NftSetupIs DEF SetupCmds
<1>2. NftShape(f, U) /\ Possible(cmd, T)
  BY <1>1, LoadedShape, LoadTable
<1>3. /\ IsTable(U) /\ DOMAIN U = NftChains
      /\ \A chain \in NftChains : Rules(U, chain) = Rules(T, chain) \o Rules(NftTable(f), chain)
  <2>1. DOMAIN T \cup NftChains = NftChains
    BY DEF NftShape, NftChains
  <2>2. /\ IsTable(U) /\ DOMAIN U = DOMAIN T \cup DOMAIN NftTable(f)
        /\ \A chain \in DOMAIN T \cup DOMAIN NftTable(f) : Rules(U, chain) = Rules(T, chain) \o Rules(NftTable(f), chain)
    BY <1>1, LoadTable
  <2>3. DOMAIN NftTable(f) = NftChains
    BY NftTableIs
  <2> QED
    BY <2>1, <2>2, <2>3
<1> HIDE DEF U
<1>4. Nets(f) \in Nat /\ Ways(c) \in Nat /\ 0 \in 0..Ways(c) /\ Nets(f) + 0 = Nets(f) /\ Nets(f) \in 0..(Nets(f) + Ways(c))
  BY LineIs
<1>5. Upto(Line(f, c), Nets(f)) = Exclude(f) /\ List(Exclude(f))
  <2>1. /\ List(Line(f, c)) /\ Len(Line(f, c)) = Nets(f) + Ways(c)
        /\ \A k \in 1..Nets(f) : Line(f, c)[k] = Exclude(f)[k]
    BY LineIs
  <2>2. List(Exclude(f)) /\ Len(Exclude(f)) = Nets(f)
    BY ExcludeIs
  <2>3. /\ List(Upto(Line(f, c), Nets(f))) /\ Len(Upto(Line(f, c), Nets(f))) = Nets(f)
        /\ \A k \in 1..Nets(f) : Upto(Line(f, c), Nets(f))[k] = Line(f, c)[k]
    BY <1>4, <2>1, UptoIs
  <2> QED
    BY <2>1, <2>2, <2>3, ListsEqual
<1>6. ASSUME misses = 0 PROVE U = NftBuilt(f, c, 0, 0, 0)
  <2>1. \A chain : Rules(T, chain) = << >>
    BY <1>6 DEF NftSetupAt, Rules
  <2>2. \A s : List(s) => << >> \o s = s
    BY Regroups DEF Regrouped
  <2>3. Dropping(f, c, 0) = << >>
    BY DroppingNext
  <2>4. Rules(U, "R") = ToR(f) /\ Rules(U, "PRE") = Exclude(f) /\ Rules(U, "POST") = Exclude(f)
    BY <1>3, <1>5, <2>1, <2>2, NftTableIs, ToRIs DEF NftChains
  <2>5. /\ Dropping(f, c, 0) \o Upto(Line(f, c), Nets(f) + 0) = Exclude(f)
        /\ Upto(Line(f, c), Nets(f) + 0) = Exclude(f)
    BY <1>4, <1>5, <2>2, <2>3
  <2> QED
    BY <1>3, <2>4, <2>5, NftBuiltOnly
<1>7. \A k \in 1..0 : Has(Rules(U, "PRE"), DropExpired(f, Groups(c)[k]))
  OBVIOUS
<1>8. 0 <= 0 /\ 0 <= 0 + 1 /\ 1 = 1 + 0 + 0 + 0 /\ 1 # 0
  OBVIOUS
<1>9. NftSetupAt(f, c, 1, U, misses)
  BY <1>3, <1>4, <1>6, <1>7, <1>8, Zenon DEF NftSetupAt, NftChains
<1> QED
  BY <1>2, <1>9 DEF U

LEMMA NftGrowStep ==
  ASSUME NEW f \in Family, NEW c \in Configuration, ~c.use_iptables,
         NEW j \in Nat, j >= 1, j < Len(SetupCmds(f, c)), NEW T, NftShape(f, T), NEW misses,
         NftSetupAt(f, c, j, T, misses), NEW cmd, cmd = SetupCmds(f, c)[j + 1]
  PROVE  Possible(cmd, T) /\ NftShape(f, Result(cmd, T)) /\ NftSetupAt(f, c, j + 1, Result(cmd, T), misses)
<1> DEFINE U == Result(cmd, T)
           w == Ways(c)
           m == Nets(f)
           g(k) == Groups(c)[k]
           x == Line(f, c)
           p == SetupCmds(f, c)
<1>1. DOMAIN T = NftChains /\ IsTable(T)
  BY DEF NftSetupAt, NftChains, NftShape
<1>2. PICK n \in 0..w, a \in 0..w, b \in 0..w :
        /\ b <= a /\ a <= n /\ n <= b + 1 /\ j = 1 + n + a + b
        /\ \A k \in 1..n : Has(Rules(T, "PRE"), DropExpired(f, g(k)))
        /\ misses = 0 => T = NftBuilt(f, c, n, a, b)
  BY DEF NftSetupAt
<1>3. m \in Nat /\ w \in Nat /\ List(x) /\ Len(x) = m + w /\ \A k \in 1..w : x[m + k] = Jump(f, g(k), "R")
  BY LineIs
<1>4. /\ Len(p) = 1 + 3 * w
      /\ \A k \in 1..w :
           /\ p[3 * k - 1] = Edit("insert", "PRE", DropExpired(f, g(k)))
           /\ p[3 * k] = Edit("append", "PRE", Jump(f, g(k), "R"))
           /\ p[3 * k + 1] = Edit("append", "POST", Jump(f, g(k), "R"))
  BY NftSetupIs DEF SetupCmds
<1>5. \A k \in 1..w : g(k) \in SUBSET Iface
  BY GroupsAre
<1>6. \A is : Jump(f, is, "R").do = "R" /\ DropExpired(f, is).do = "drop"
  BY KindsOfRules
<1>7. misses = 0 => /\ Rules(T, "PRE") = Dropping(f, c, n) \o Upto(x, m + a) /\ Rules(T, "R") = ToR(f)
                    /\ Rules(T, "POST") = Upto(x, m + b)
  BY <1>2, NftBuiltIs, SMTT(20)
<1>8. ASSUME NEW n1 \in 0..w, NEW a1 \in 0..w, NEW b1 \in 0..w,
             b1 <= a1 /\ a1 <= n1 /\ n1 <= b1 + 1 /\ j + 1 = 1 + n1 + a1 + b1, DOMAIN U = NftChains,
             \A k \in 1..n1 : Has(Rules(U, "PRE"), DropExpired(f, g(k))),
             misses = 0 => U = NftBuilt(f, c, n1, a1, b1)
      PROVE  NftSetupAt(f, c, j + 1, U, misses)
  <2>1. j + 1 # 0
    OBVIOUS
  <2> HIDE DEF U
  <2> QED
    BY <1>8, <2>1, Zenon DEF NftSetupAt, NftChains
<1> HIDE DEF U, w, m, g, x, p
<1>9. cmd = p[j + 1] /\ j < 1 + 3 * w
  BY <1>4 DEF p
<1>14. /\ n \in Nat /\ a \in Nat /\ b \in Nat /\ n <= w /\ a <= w /\ b <= w
       /\ b <= a /\ a <= n /\ n <= b + 1 /\ j = 1 + n + a + b /\ j < 1 + 3 * w
  BY <1>2, <1>3, <1>9
<1>10. CASE n = b
  <2>1. n + 1 \in 1..w /\ n + 1 \in 0..w /\ j + 1 = 3 * (n + 1) - 1 /\ a = n /\ n \in Nat
    BY <1>3, <1>14, <1>10
  <2> DEFINE drop == DropExpired(f, g(n + 1))
  <2>2. cmd = Edit("insert", "PRE", drop)
    BY <1>4, <1>9, <2>1
  <2>3. Possible(cmd, T) /\ Becomes(U, T, DOMAIN T, "PRE", <<drop>> \o Rules(T, "PRE"))
    <3>1. "PRE" \in DOMAIN T /\ drop.do \in {"return", "queue", "drop"} \cup DOMAIN T
      BY <1>1, <1>6 DEF NftChains
    <3>2. \A r : r.do \in {"return", "queue", "drop"} \cup DOMAIN T =>
            /\ Possible(Edit("insert", "PRE", r), T)
            /\ Becomes(Result(Edit("insert", "PRE", r), T), T, DOMAIN T, "PRE", <<r>> \o Rules(T, "PRE"))
      BY <1>1, <3>1, AddRule
    <3> QED
      BY <2>2, <3>1, <3>2 DEF U
  <2>4. g(n + 1) \in SUBSET Iface
    BY <1>5, <2>1
  <2>5. NftShape(f, U) /\ \A y : Has(Rules(U, "PRE"), y) <=> y = drop \/ Has(Rules(T, "PRE"), y)
    BY <1>1, <2>3, <2>4, InsertedShape
  <2>6. \A k \in 1..(n + 1) : Has(Rules(U, "PRE"), DropExpired(f, g(k)))
    <3>1. \A k \in 1..(n + 1) : k \in 1..n \/ k = n + 1
      BY <2>1
    <3> QED
      BY <1>2, <2>5, <3>1
  <2>7. IsTable(U) /\ DOMAIN U = NftChains
    BY <1>1, <2>3 DEF Becomes
  <2>8. ASSUME misses = 0 PROVE U = NftBuilt(f, c, n + 1, a, b)
    <3>1. List(Upto(x, m + a))
      BY <1>2, <1>3, UptoIs
    <3>2. List(Dropping(f, c, n)) /\ <<drop>> \o Dropping(f, c, n) = Dropping(f, c, n + 1)
      BY <2>1, DroppingNext DEF g
    <3>3. List(<<drop>>)
      BY One
    <3>4. (<<drop>> \o Dropping(f, c, n)) \o Upto(x, m + a) = <<drop>> \o (Dropping(f, c, n) \o Upto(x, m + a))
      <4>1. Regrouped(<<drop>>, Dropping(f, c, n), Upto(x, m + a))
        BY <3>1, <3>2, <3>3, Regroups, Zenon
      <4> QED
        BY <4>1, Zenon DEF Regrouped
    <3>5. Rules(U, "PRE") = Dropping(f, c, n + 1) \o Upto(x, m + a)
      BY <1>7, <2>3, <2>8, <3>2, <3>4 DEF Becomes
    <3>6. Rules(U, "POST") = Upto(x, m + b) /\ Rules(U, "R") = ToR(f)
      BY <1>7, <2>3, <2>8 DEF Becomes
    <3> QED
      BY <2>7, <3>5, <3>6, NftBuiltOnly DEF x, m
  <2>9. b <= a /\ a <= n + 1 /\ n + 1 <= b + 1 /\ j + 1 = 1 + (n + 1) + a + b
    BY <1>2, <1>10, <2>1
  <2>10. NftSetupAt(f, c, j + 1, U, misses)
    BY <1>8, <2>1, <2>6, <2>7, <2>8, <2>9, Zenon
  <2> QED
    BY <2>3, <2>5, <2>10 DEF U
<1>11. CASE n = b + 1 /\ a = b
  <2>1. /\ a + 1 \in 1..w /\ a + 1 \in 0..w /\ a + 1 = n /\ j + 1 = 3 * n /\ a \in Nat
        /\ m + a \in Nat /\ m + a < m + w /\ (m + a) + 1 = m + n /\ m + n = m + (a + 1) /\ m + a \in 0..(m + w)
    BY <1>3, <1>14, <1>11
  <2> DEFINE jump == Jump(f, g(n), "R")
  <2>2. cmd = Edit("append", "PRE", jump) /\ n \in 1..w
    BY <1>4, <1>9, <2>1
  <2>3. Possible(cmd, T) /\ Becomes(U, T, DOMAIN T, "PRE", Append(Rules(T, "PRE"), jump))
    <3>1. "PRE" \in DOMAIN T /\ jump.do \in {"return", "queue", "drop"} \cup DOMAIN T
      BY <1>1, <1>6 DEF NftChains
    <3>2. \A r : r.do \in {"return", "queue", "drop"} \cup DOMAIN T =>
            /\ Possible(Edit("append", "PRE", r), T)
            /\ Becomes(Result(Edit("append", "PRE", r), T), T, DOMAIN T, "PRE", Append(Rules(T, "PRE"), r))
      BY <1>1, <3>1, AddRule
    <3> QED
      BY <2>2, <3>1, <3>2 DEF U
  <2>4. g(n) \in SUBSET Iface /\ Has(Rules(T, "PRE"), DropExpired(f, g(n)))
    <3>1. n \in 1..n
      BY <2>1
    <3> QED
      BY <1>2, <1>5, <2>2, <3>1
  <2>5. NftShape(f, U) /\ \A y : Has(Rules(T, "PRE"), y) => Has(Rules(U, "PRE"), y)
    BY <1>1, <2>3, <2>4, AppendedShape
  <2>6. \A k \in 1..n : Has(Rules(U, "PRE"), DropExpired(f, g(k)))
    BY <1>2, <2>5
  <2>7. IsTable(U) /\ DOMAIN U = NftChains
    BY <1>1, <2>3 DEF Becomes
  <2>8. ASSUME misses = 0 PROVE U = NftBuilt(f, c, n, a + 1, b)
    <3>1. List(Upto(x, m + a)) /\ Append(Upto(x, m + a), x[(m + a) + 1]) = Upto(x, (m + a) + 1)
      BY <1>3, <2>1, UptoIs, UptoNext
    <3>2. Append(Upto(x, m + a), jump) = Upto(x, m + (a + 1))
      BY <1>3, <2>1, <2>2, <3>1
    <3>3. List(Dropping(f, c, n)) /\ List(<<jump>>)
      BY <1>14, DroppingNext, One
    <3>4. List(Dropping(f, c, n) \o Upto(x, m + a))
      BY <3>1, <3>3, ListsJoined
    <3>5. /\ Append(Dropping(f, c, n) \o Upto(x, m + a), jump) = (Dropping(f, c, n) \o Upto(x, m + a)) \o <<jump>>
          /\ Append(Upto(x, m + a), jump) = Upto(x, m + a) \o <<jump>>
      BY <3>1, <3>4, AppendOne
    <3>6. (Dropping(f, c, n) \o Upto(x, m + a)) \o <<jump>> = Dropping(f, c, n) \o (Upto(x, m + a) \o <<jump>>)
      <4>1. Regrouped(Dropping(f, c, n), Upto(x, m + a), <<jump>>)
        BY <3>1, <3>3, Regroups, Zenon
      <4> QED
        BY <4>1, Zenon DEF Regrouped
    <3>7. Rules(U, "PRE") = Dropping(f, c, n) \o Upto(x, m + (a + 1))
      BY <1>7, <2>3, <2>8, <3>2, <3>5, <3>6 DEF Becomes
    <3>8. Rules(U, "POST") = Upto(x, m + b) /\ Rules(U, "R") = ToR(f)
      BY <1>7, <2>3, <2>8 DEF Becomes
    <3> QED
      BY <2>7, <3>7, <3>8, NftBuiltOnly DEF x, m
  <2>9. b <= a + 1 /\ a + 1 <= n /\ n <= b + 1 /\ j + 1 = 1 + n + (a + 1) + b
    BY <1>2, <1>11, <2>1
  <2>10. NftSetupAt(f, c, j + 1, U, misses)
    BY <1>8, <2>1, <2>6, <2>7, <2>8, <2>9, Zenon
  <2> QED
    BY <2>3, <2>5, <2>10 DEF U
<1>12. CASE n = b + 1 /\ a = n
  <2>1. /\ b + 1 \in 1..w /\ b + 1 \in 0..w /\ b + 1 = n /\ j + 1 = 3 * n + 1 /\ b \in Nat
        /\ m + b \in Nat /\ m + b < m + w /\ (m + b) + 1 = m + n /\ m + n = m + (b + 1) /\ m + b \in 0..(m + w)
    BY <1>3, <1>14, <1>12
  <2> DEFINE jump == Jump(f, g(n), "R")
  <2>2. cmd = Edit("append", "POST", jump) /\ n \in 1..w
    BY <1>4, <1>9, <2>1
  <2>3. Possible(cmd, T) /\ Becomes(U, T, DOMAIN T, "POST", Append(Rules(T, "POST"), jump))
    <3>1. "POST" \in DOMAIN T /\ jump.do \in {"return", "queue", "drop"} \cup DOMAIN T
      BY <1>1, <1>6 DEF NftChains
    <3>2. \A r : r.do \in {"return", "queue", "drop"} \cup DOMAIN T =>
            /\ Possible(Edit("append", "POST", r), T)
            /\ Becomes(Result(Edit("append", "POST", r), T), T, DOMAIN T, "POST", Append(Rules(T, "POST"), r))
      BY <1>1, <3>1, AddRule
    <3> QED
      BY <2>2, <3>1, <3>2 DEF U
  <2>4. g(n) \in SUBSET Iface /\ Has(Rules(T, "PRE"), DropExpired(f, g(n)))
    <3>1. n \in 1..n
      BY <2>1
    <3> QED
      BY <1>2, <1>5, <2>2, <3>1
  <2>5. NftShape(f, U) /\ \A y : Has(Rules(T, "PRE"), y) => Has(Rules(U, "PRE"), y)
    BY <1>1, <2>3, <2>4, AppendedShape
  <2>6. \A k \in 1..n : Has(Rules(U, "PRE"), DropExpired(f, g(k)))
    BY <1>2, <2>5
  <2>7. IsTable(U) /\ DOMAIN U = NftChains
    BY <1>1, <2>3 DEF Becomes
  <2>8. ASSUME misses = 0 PROVE U = NftBuilt(f, c, n, a, b + 1)
    <3>1. List(Upto(x, m + b)) /\ Append(Upto(x, m + b), x[(m + b) + 1]) = Upto(x, (m + b) + 1)
      BY <1>3, <2>1, UptoIs, UptoNext
    <3>2. Append(Upto(x, m + b), jump) = Upto(x, m + (b + 1))
      BY <1>3, <2>1, <2>2, <3>1
    <3>3. Rules(U, "POST") = Upto(x, m + (b + 1))
      BY <1>7, <2>3, <2>8, <3>2 DEF Becomes
    <3>4. Rules(U, "PRE") = Dropping(f, c, n) \o Upto(x, m + a) /\ Rules(U, "R") = ToR(f)
      BY <1>7, <2>3, <2>8 DEF Becomes
    <3> QED
      BY <2>7, <3>3, <3>4, NftBuiltOnly DEF x, m
  <2>9. b + 1 <= a /\ a <= n /\ n <= (b + 1) + 1 /\ j + 1 = 1 + n + a + (b + 1)
    BY <1>2, <1>12, <2>1
  <2>10. NftSetupAt(f, c, j + 1, U, misses)
    BY <1>8, <2>1, <2>6, <2>7, <2>8, <2>9, Zenon
  <2> QED
    BY <2>3, <2>5, <2>10 DEF U
<1>13. n = b \/ (n = b + 1 /\ a = b) \/ (n = b + 1 /\ a = n)
  BY <1>2, <1>3
<1> QED
  BY <1>10, <1>11, <1>12, <1>13

-----------------------------------------------------------------------------
(* The commands for one table, from the first to the last.                   *)
LEMMA NftSetupStep ==
  ASSUME NEW f \in Family, NEW c \in Configuration, ~c.use_iptables,
         NEW j \in 0..(Len(SetupCmds(f, c)) - 1), NEW T, NftShape(f, T), NEW misses,
         NftSetupAt(f, c, j, T, misses), NEW cmd, cmd = SetupCmds(f, c)[j + 1]
  PROVE  Possible(cmd, T) /\ NftShape(f, Result(cmd, T)) /\ NftSetupAt(f, c, j + 1, Result(cmd, T), misses)
<1>1. CASE j = 0
  <2>1. j + 1 = 1
    BY <1>1
  <2>2. NftSetupAt(f, c, 0, T, misses) /\ cmd = SetupCmds(f, c)[1]
    BY <1>1, <2>1, Zenon
  <2>3. Possible(cmd, T) /\ NftShape(f, Result(cmd, T)) /\ NftSetupAt(f, c, 1, Result(cmd, T), misses)
    BY <2>2, NftLoadStep
  <2> QED
    BY <2>1, <2>3, Zenon
<1>2. CASE j # 0
  <2>1. j \in Nat /\ j >= 1 /\ j < Len(SetupCmds(f, c))
    BY <1>2, SetupIsLong
  <2> QED
    BY <2>1, NftGrowStep
<1> QED
  BY <1>1, <1>2

LEMMA MineIs ==
  ASSUME NEW f \in Family, NEW c \in Configuration
  PROVE  /\ Mine(f, c) \in Table /\ Mine(f, c)[2] = f /\ c.use_iptables \in BOOLEAN
         /\ \A T : Shape(Mine(f, c), T) <=> IF c.use_iptables THEN IptShape(f, T) ELSE NftShape(f, T)
         /\ Mine(f, c)[1] = IF c.use_iptables THEN "ipt" ELSE "nft"
<1>1. c.use_iptables \in BOOLEAN
  BY DEF Configuration
<1> QED
  BY <1>1 DEF Mine, BackendOf, Table, Backend, Shape

LEMMA CleanupStep ==
  ASSUME NEW f \in Family, NEW c \in Configuration, NEW n \in 0..(Cleaning(c) - 1),
         NEW T, Shape(Mine(f, c), T), NEW misses \in Nat, CleanupAt(c, n, T, misses),
         NEW cmd, cmd = CleanCmds(f, c)[n + 1]
  PROVE  /\ Possible(cmd, T) => Shape(Mine(f, c), Result(cmd, T)) /\ CleanupAt(c, n + 1, Result(cmd, T), misses)
         /\ ~Possible(cmd, T) => CleanupAt(c, n + 1, T, misses)
         /\ CleanupAt(c, n + 1, T, misses + 1)
<1>1. CASE c.use_iptables
  <2>1. n \in 0..7
    BY <1>1 DEF Cleaning
  <2> QED
    BY <1>1, <2>1, IptCleanupStep, MineIs
<1>2. CASE ~c.use_iptables
  <2>1. n = 0 /\ n + 1 = 1
    BY <1>2 DEF Cleaning
  <2>2. cmd = CleanCmds(f, c)[1] /\ NftShape(f, T)
    BY <1>2, <2>1, MineIs
  <2>3. /\ Possible(cmd, T) => NftShape(f, Result(cmd, T)) /\ CleanupAt(c, 1, Result(cmd, T), misses)
        /\ ~Possible(cmd, T) => CleanupAt(c, 1, T, misses)
        /\ CleanupAt(c, 1, T, misses + 1)
    BY <1>2, <2>2, NftCleanupStep
  <2> QED
    BY <1>2, <2>1, <2>3, MineIs
<1> QED
  BY <1>1, <1>2

LEMMA SetupStep ==
  ASSUME NEW f \in Family, NEW c \in Configuration, NEW j \in 0..(Len(SetupCmds(f, c)) - 1),
         NEW T, Shape(Mine(f, c), T), NEW misses \in Nat, SetupAt(f, c, j, T, misses),
         NEW cmd, cmd = SetupCmds(f, c)[j + 1]
  PROVE  /\ Possible(cmd, T) => Shape(Mine(f, c), Result(cmd, T)) /\ SetupAt(f, c, j + 1, Result(cmd, T), misses)
         /\ misses = 0 => Possible(cmd, T)
<1>1. CASE c.use_iptables
  BY <1>1, IptSetupStep, MineIs DEF SetupAt
<1>2. CASE ~c.use_iptables
  BY <1>2, NftSetupStep, MineIs DEF SetupAt
<1> QED
  BY <1>1, <1>2

(* Setting up begins where cleaning up ends.                                 *)
LEMMA CleanupTurns ==
  ASSUME NEW f \in Family, NEW c \in Configuration, NEW T, Shape(Mine(f, c), T), NEW misses \in Nat,
         CleanupAt(c, Cleaning(c), T, misses)
  PROVE  SetupAt(f, c, 0, T, misses)
  BY MineIs DEF CleanupAt, Cleaning, SetupAt, IptSetupAt, NftSetupAt, IptCleaned, IptEarly,
     Flushed, IptShape

LEMMA Begins ==
  ASSUME NEW f, NEW c, NEW up, NEW T
  PROVE  TableAt(f, c, up, 0, T, 0)
  BY DEF TableAt, CleanupAt, Cleaning, IptCleaned, Unreached

(* Another miss is worth no more than the ones there were.                   *)
LEMMA MissMore ==
  ASSUME NEW f, NEW c, NEW up, NEW n, NEW T, NEW misses \in Nat, TableAt(f, c, up, n, T, misses)
  PROVE  TableAt(f, c, up, n, T, misses + 1)
<1>1. misses + 1 # 0 /\ (misses >= 1 => misses + 1 >= 1) /\ (misses >= 2 => misses + 1 >= 2)
  OBVIOUS
<1>2. CleanupAt(c, n, T, misses) => CleanupAt(c, n, T, misses + 1)
  BY <1>1 DEF CleanupAt, Unreached
<1>3. \A j : IptSetupAt(f, c, j, T, misses) => IptSetupAt(f, c, j, T, misses + 1)
  BY <1>1 DEF IptSetupAt, IptEarly
<1>4. \A j : NftSetupAt(f, c, j, T, misses) => NftSetupAt(f, c, j, T, misses + 1)
  BY <1>1, Zenon DEF NftSetupAt
<1>5. \A j : SetupAt(f, c, j, T, misses) => SetupAt(f, c, j, T, misses + 1)
  BY <1>3, <1>4, Zenon DEF SetupAt
<1> QED
  BY <1>2, <1>5, Zenon DEF TableAt

LEMMA TableStep ==
  ASSUME NEW f \in Family, NEW c \in Configuration, NEW up \in BOOLEAN,
         NEW n \in 0..(Len(Work(f, c, up)) - 1), NEW T, Shape(Mine(f, c), T), NEW misses \in Nat,
         TableAt(f, c, up, n, T, misses), NEW job, job = Work(f, c, up)[n + 1]
  PROVE  /\ job.table = Mine(f, c) /\ job.must \in BOOLEAN /\ (job.must => up)
         /\ Possible(job.cmd, T) => /\ Shape(Mine(f, c), Result(job.cmd, T))
                                    /\ TableAt(f, c, up, n + 1, Result(job.cmd, T), misses)
         /\ ~job.must => /\ ~Possible(job.cmd, T) => TableAt(f, c, up, n + 1, T, misses)
                         /\ TableAt(f, c, up, n + 1, T, misses + 1)
         /\ job.must /\ misses = 0 => Possible(job.cmd, T)
<1> DEFINE m == Cleaning(c)
           len == IF up THEN Len(SetupCmds(f, c)) ELSE 0
           w == Work(f, c, up)
           t == Mine(f, c)
<1>1. /\ Len(w) = m + len /\ m \in Nat /\ len \in Nat /\ m >= 1
      /\ \A k \in 1..m : w[k] = Job(f, c, CleanCmds(f, c)[k], FALSE)
      /\ \A k \in 1..len : w[m + k] = Job(f, c, SetupCmds(f, c)[k], TRUE)
  <2>1. m \in Nat /\ m >= 1
    BY DEF Cleaning
  <2>2. len \in Nat
    BY SetupIsLong
  <2> QED
    BY <2>1, <2>2, WorkIs, Zenon
<1> HIDE DEF m, w, t
<1>2. n \in Nat /\ n < m + len
  BY <1>1 DEF w
<1>3. CASE n < m
  <2>1. n + 1 \in 1..m /\ n <= m /\ n \in 0..(m - 1) /\ n + 1 <= m /\ (n + 1 >= m => n + 1 = m)
    BY <1>1, <1>2, <1>3
  <2> DEFINE cmd == CleanCmds(f, c)[n + 1]
  <2>2. job = Job(f, c, cmd, FALSE)
    BY <1>1, <2>1 DEF w
  <2>3. job.table = t /\ job.cmd = cmd /\ job.must = FALSE
    BY <2>2 DEF Job, t
  <2>4. CleanupAt(c, n, T, misses)
    BY <2>1 DEF TableAt, m
  <2>5. /\ Possible(cmd, T) => Shape(t, Result(cmd, T)) /\ CleanupAt(c, n + 1, Result(cmd, T), misses)
        /\ ~Possible(cmd, T) => CleanupAt(c, n + 1, T, misses)
        /\ CleanupAt(c, n + 1, T, misses + 1)
    BY <2>1, <2>4, CleanupStep DEF m, t
  <2>6. ASSUME NEW U, Shape(t, U), NEW k \in Nat, CleanupAt(c, n + 1, U, k)
        PROVE  TableAt(f, c, up, n + 1, U, k)
    <3>1. n + 1 = m => SetupAt(f, c, 0, U, k) /\ (n + 1) - m = 0
      BY <1>1, <2>6, CleanupTurns DEF m, t
    <3> QED
      BY <2>1, <2>6, <3>1 DEF TableAt, m
  <2>7. misses + 1 \in Nat /\ Shape(t, T)
    BY DEF t
  <2> HIDE DEF cmd
  <2> QED
    BY <2>3, <2>5, <2>6, <2>7 DEF t
<1>4. CASE ~(n < m)
  <2>1. /\ up /\ n >= m /\ ~(n + 1 <= m) /\ n + 1 >= m
        /\ n - m \in 0..(len - 1) /\ (n - m) + 1 \in 1..len /\ m + ((n - m) + 1) = n + 1 /\ (n + 1) - m = (n - m) + 1
    BY <1>1, <1>2, <1>4
  <2> DEFINE j == n - m
             cmd == SetupCmds(f, c)[j + 1]
  <2>2. job = Job(f, c, cmd, TRUE)
    BY <1>1, <2>1, Zenon DEF w
  <2>3. job.table = t /\ job.cmd = cmd /\ job.must = TRUE
    BY <2>2 DEF Job, t
  <2>4. SetupAt(f, c, j, T, misses)
    BY <2>1 DEF TableAt, m
  <2>5. j \in 0..(Len(SetupCmds(f, c)) - 1)
    BY <2>1
  <2> HIDE DEF j
  <2>6. /\ Possible(cmd, T) => Shape(t, Result(cmd, T)) /\ SetupAt(f, c, j + 1, Result(cmd, T), misses)
        /\ misses = 0 => Possible(cmd, T)
    BY <2>4, <2>5, SetupStep DEF t
  <2>7. \A U : SetupAt(f, c, j + 1, U, misses) => TableAt(f, c, up, n + 1, U, misses)
    BY <2>1 DEF TableAt, m, j
  <2> HIDE DEF cmd
  <2> QED
    BY <2>1, <2>3, <2>6, <2>7 DEF t
<1> QED
  BY <1>3, <1>4

(* A setup ends with the rules of the configuration.                         *)
LEMMA IptEnd ==
  ASSUME NEW f \in Family, NEW c \in Configuration, NEW T, NEW misses,
         IptSetupAt(f, c, 7 + 2 * Nets(f) + 2 * Ways(c), T, misses)
  PROVE  T = InstalledIpt(f, c)
<1> DEFINE n == Nets(f)
           w == Ways(c)
           j == 7 + 2 * n + 2 * w
           x == Line(f, c)
<1>1. n \in Nat /\ w \in Nat /\ List(x) /\ Len(x) = n + w /\ ~(j <= 4)
  BY LineIs
<1>2. PICK s \in 0..(n + w), d \in 0..(n + w), r \in 0..2 :
        IptLegal(f, c, s, d, r) /\ j = 5 + s + d + r /\ T = IptBuilt(f, c, s, d, r)
  BY <1>1 DEF IptSetupAt
<1>3. s = n + w /\ d = n + w /\ r = 2
  BY <1>1, <1>2 DEF IptLegal
<1>4. Upto(x, n + w) = x /\ Upto(ToR(f), 2) = ToR(f)
  BY <1>1, UptoEnds, ToRIs
<1>5. T = IptBuilt(f, c, n + w, n + w, 2)
  BY <1>2, <1>3
<1> HIDE DEF n, w, j
<1>6. /\ IsTable(T) /\ DOMAIN T = Chains
      /\ Rules(T, "PRE") = <<Jump(f, Iface, "S")>> /\ Rules(T, "POST") = <<Jump(f, Iface, "D")>>
      /\ Rules(T, "R") = ToR(f) /\ Rules(T, "S") = x /\ Rules(T, "D") = x
  BY <1>4, <1>5, BuiltIs
<1> DEFINE U == InstalledIpt(f, c)
<1>7. /\ IsTable(U) /\ DOMAIN U = Chains
      /\ Rules(U, "PRE") = <<Jump(f, Iface, "S")>> /\ Rules(U, "POST") = <<Jump(f, Iface, "D")>>
      /\ Rules(U, "R") = ToR(f) /\ Rules(U, "S") = x /\ Rules(U, "D") = x
  BY DEF InstalledIpt, IsTable, Rules, Chains, Line, Ending, ToR
<1> HIDE DEF U, x
<1>8. \A chain \in Chains : Rules(T, chain) = Rules(U, chain)
  BY <1>6, <1>7 DEF Chains
<1>9. T = U
  BY <1>6, <1>7, <1>8, TablesEqual
<1> QED
  BY <1>9 DEF U

LEMMA NftEnd ==
  ASSUME NEW f \in Family, NEW c \in Configuration, NEW T, NftSetupAt(f, c, 1 + 3 * Ways(c), T, 0)
  PROVE  T = InstalledNft(f, c)
<1> DEFINE m == Nets(f)
           w == Ways(c)
           j == 1 + 3 * w
           x == Line(f, c)
           drop == Reverse([k \in DOMAIN Groups(c) |-> DropExpired(f, Groups(c)[k])])
<1>1. m \in Nat /\ w \in Nat /\ List(x) /\ Len(x) = m + w /\ j # 0
  BY LineIs
<1>2. PICK n \in 0..w, a \in 0..w, b \in 0..w :
        b <= a /\ a <= n /\ n <= b + 1 /\ j = 1 + n + a + b /\ T = NftBuilt(f, c, n, a, b)
  BY <1>1 DEF NftSetupAt
<1>3. n = w /\ a = w /\ b = w
  BY <1>1, <1>2
<1>4. T = NftBuilt(f, c, w, w, w)
  BY <1>2, <1>3
<1>5. Upto(x, m + w) = x
  BY <1>1, UptoEnds
<1>14. /\ IsTable(T) /\ DOMAIN T = NftChains /\ Rules(T, "R") = ToR(f)
       /\ Rules(T, "PRE") = Dropping(f, c, w) \o Upto(x, m + w) /\ Rules(T, "POST") = Upto(x, m + w)
  BY <1>4, NftBuiltIs
<1>6. drop = Dropping(f, c, w)
  <2> DEFINE e == [k \in DOMAIN Groups(c) |-> DropExpired(f, Groups(c)[k])]
  <2>1. List(e) /\ Len(e) = w /\ \A k \in 1..w : e[k] = DropExpired(f, Groups(c)[k])
    BY GroupsAre DEF List
  <2> HIDE DEF e, w
  <2>2. Reverse(e) = [k \in 1..w |-> e[(w - k) + 1]]
    BY <2>1 DEF Reverse
  <2>3. ASSUME NEW k \in 1..w PROVE e[(w - k) + 1] = DropExpired(f, Groups(c)[w + 1 - k])
    <3>1. (w - k) + 1 \in 1..w /\ (w - k) + 1 = w + 1 - k
      BY <1>1
    <3> QED
      BY <2>1, <3>1, Zenon
  <2>4. Reverse(e) = Dropping(f, c, w)
    BY <2>2, <2>3 DEF Dropping
  <2> QED
    BY <2>4 DEF e
<1>7. List(drop) /\ List(Exclude(f)) /\ List(Ending(f, c)) /\ List(x)
  <2>1. List(Dropping(f, c, w))
    BY <1>1, DroppingNext
  <2>2. List(Ending(f, c))
    BY GroupsAre DEF Ending, List
  <2> QED
    BY <1>1, <1>6, <2>1, <2>2, ExcludeIs
<1>8. (drop \o Exclude(f)) \o Ending(f, c) = drop \o x /\ (<< >> \o Exclude(f)) \o Ending(f, c) = x
  <2> HIDE DEF drop
  <2>1. (drop \o Exclude(f)) \o Ending(f, c) = drop \o (Exclude(f) \o Ending(f, c)) /\ << >> \o Exclude(f) = Exclude(f)
    <3>1. Regrouped(drop, Exclude(f), Ending(f, c)) /\ Regrouped(Exclude(f), Exclude(f), Exclude(f))
      BY <1>7, Regroups, Zenon
    <3> QED
      BY <3>1, Zenon DEF Regrouped
  <2> QED
    BY <2>1 DEF Line
<1> DEFINE U == InstalledNft(f, c)
<1>9. /\ IsTable(U) /\ DOMAIN U = NftChains /\ Rules(U, "R") = NftTable(f)["R"]
      /\ Rules(U, "PRE") = (drop \o Exclude(f)) \o Ending(f, c)
      /\ Rules(U, "POST") = (<< >> \o Exclude(f)) \o Ending(f, c)
  <2>1. U = [chain \in NftChains |->
               IF chain = "R" THEN NftTable(f)["R"]
               ELSE (IF chain = "PRE" THEN drop ELSE << >>) \o Exclude(f) \o Ending(f, c)]
    BY DEF InstalledNft, NftChains, Ending
  <2> HIDE DEF U, drop
  <2> QED
    BY <2>1 DEF IsTable, Rules, NftChains
<1>10. NftTable(f)["R"] = ToR(f)
  BY DEF NftTable, ToR
<1> HIDE DEF U, x, drop, w, m
<1>11. /\ IsTable(T) /\ DOMAIN T = NftChains /\ Rules(T, "R") = ToR(f)
       /\ Rules(T, "PRE") = drop \o x /\ Rules(T, "POST") = x
  BY <1>5, <1>6, <1>14
<1>12. \A chain \in NftChains : Rules(T, chain) = Rules(U, chain)
  BY <1>8, <1>9, <1>10, <1>11 DEF NftChains
<1>13. T = U
  BY <1>9, <1>11, <1>12, TablesEqual
<1> QED
  BY <1>13 DEF U

LEMMA SetupEnd ==
  ASSUME NEW f \in Family, NEW c \in Configuration, NEW T, NEW misses \in Nat,
         TableAt(f, c, TRUE, Len(Work(f, c, TRUE)), T, misses)
  PROVE  T = Installed(Mine(f, c), c) \/ (Mine(f, c)[1] = "nft" /\ misses > 0)
<1> DEFINE m == Cleaning(c)
           j == Len(SetupCmds(f, c))
<1>1. Len(Work(f, c, TRUE)) = m + j /\ m \in Nat /\ j \in Nat
  BY WorkIs, SetupIsLong DEF Cleaning
<1> HIDE DEF m, j
<1>2. SetupAt(f, c, j, T, misses)
  <2>1. m + j >= m /\ (m + j) - m = j
    BY <1>1
  <2> QED
    BY <1>1, <2>1, Zenon DEF TableAt, m
<1>3. CASE c.use_iptables
  BY <1>2, <1>3, SetupIsLong, IptEnd, MineIs DEF SetupAt, Installed, j
<1>4. CASE ~c.use_iptables /\ misses = 0
  BY <1>2, <1>4, SetupIsLong, NftEnd, MineIs DEF SetupAt, Installed, j
<1>5. CASE ~c.use_iptables /\ misses # 0
  BY <1>5, MineIs
<1> QED
  BY <1>3, <1>4, <1>5

(* A cleanup ends with nothing left, or with nothing that leads to the queue. *)
LEMMA CleanupEnd ==
  ASSUME NEW f \in Family, NEW c \in Configuration, NEW T, NEW misses \in Nat, Shape(Mine(f, c), T),
         TableAt(f, c, FALSE, Len(Work(f, c, FALSE)), T, misses)
  PROVE  /\ misses = 0 => T = Empty(Mine(f, c)[1])
         /\ misses <= 1 /\ c.use_iptables =>
              \A p \in Packet(f), base \in {"PRE", "POST"} : Traverse(T, base, p) # "queue"
<1>1. Len(Work(f, c, FALSE)) = Cleaning(c) /\ Cleaning(c) <= Cleaning(c)
  <2>1. FALSE \in BOOLEAN /\ Cleaning(c) \in Nat
    BY DEF Cleaning
  <2>2. Len(Work(f, c, FALSE)) = Cleaning(c) + 0
    BY <2>1, WorkIs, Zenon
  <2>3. Cleaning(c) + 0 = Cleaning(c) /\ Cleaning(c) <= Cleaning(c)
    BY <2>1
  <2> QED
    BY <2>2, <2>3, Zenon
<1>2. CleanupAt(c, Cleaning(c), T, misses)
  BY <1>1, Zenon DEF TableAt
<1>3. CASE c.use_iptables
  <2>1. IptShape(f, T) /\ (misses = 0 => IptCleaned(8, T)) /\ Unreached(8, T, misses)
    BY <1>2, <1>3, MineIs DEF CleanupAt, Cleaning
  <2>2. ASSUME misses = 0 PROVE T = Empty(Mine(f, c)[1])
    <3> DEFINE U == [chain \in {"PRE", "POST"} |-> << >>]
    <3>0. /\ {"PRE", "POST"} \subseteq DOMAIN T /\ DOMAIN T \subseteq Chains
          /\ "R" \notin DOMAIN T /\ "S" \notin DOMAIN T /\ "D" \notin DOMAIN T
          /\ Rules(T, "PRE") = << >> /\ Rules(T, "POST") = << >>
      BY <2>1, <2>2 DEF IptCleaned, IptShape, Flushed
    <3>1. DOMAIN T = {"PRE", "POST"} /\ \A chain \in DOMAIN T : Rules(T, chain) = << >>
      BY <3>0 DEF Chains
    <3>2. IsTable(U) /\ DOMAIN U = {"PRE", "POST"} /\ \A chain \in DOMAIN U : Rules(U, chain) = << >>
      BY DEF IsTable, Rules
    <3> HIDE DEF U
    <3>3. T = U
      BY <2>1, <3>1, <3>2, TablesEqual DEF IptShape
    <3> QED
      BY <1>3, <3>3, MineIs DEF Empty, U
  <2>3. ASSUME misses <= 1, NEW p \in Packet(f), NEW base \in {"PRE", "POST"}, Traverse(T, base, p) = "queue"
        PROVE  FALSE
    <3>1. Flushed(T, "R") \/ Flushed(T, base)
      BY <2>1, <2>3 DEF Unreached
    <3>2. Outcome(Rules(T, "R"), p, << >>) = "queue" /\ Rules(T, base) # << >>
      BY <2>3, MineIs, ShapeQueues
    <3>3. Outcome(<< >>, p, << >>) = "pass"
      BY NothingPasses
    <3> QED
      BY <3>1, <3>2, <3>3 DEF Flushed
  <2> QED
    BY <2>2, <2>3
<1>4. CASE ~c.use_iptables
  <2>1. NftShape(f, T) /\ (misses = 0 => DOMAIN T = {})
    BY <1>2, <1>4, MineIs DEF CleanupAt, Cleaning
  <2>2. ASSUME misses = 0 PROVE T = << >>
    BY <2>1, <2>2, NoTable, TablesEqual DEF NftShape
  <2> QED
    BY <1>4, <2>2, MineIs DEF Empty
<1> QED
  BY <1>3, <1>4

-----------------------------------------------------------------------------
(* The commands of both families, one after the other.                       *)
Uses(f, c)  == ~c.skipfw /\ IF f = 4 THEN c.use_ipv4 ELSE c.use_ipv6
Part(f, c, up) == If(Uses(f, c), Work(f, c, up))
Whole(c, up) == IF up THEN NfrulesSetup(c) ELSE NfrulesCleanup(c)
Share(f, c, up, n) ==
  LET first == Len(Part(4, c, up))
  IN  IF f = 4 THEN (IF n <= first THEN n ELSE first) ELSE (IF n <= first THEN 0 ELSE n - first)

LEMMA PartIs ==
  ASSUME NEW f \in Family, NEW c \in Configuration, NEW up \in BOOLEAN
  PROVE  /\ List(Part(f, c, up)) /\ Len(Part(f, c, up)) \in Nat
         /\ Uses(f, c) => Part(f, c, up) = Work(f, c, up)
         /\ ~Uses(f, c) => Len(Part(f, c, up)) = 0
<1>1. List(Work(f, c, up)) /\ Len(Work(f, c, up)) \in Nat
  BY WorkIs, Zenon
<1>2. List(<< >>) /\ Len(<< >>) = 0
  BY DEF List
<1>3. /\ Uses(f, c) => Part(f, c, up) = Work(f, c, up)
      /\ ~Uses(f, c) => Part(f, c, up) = << >>
  BY DEF Part, If
<1> QED
  BY <1>1, <1>2, <1>3

LEMMA WholeIs ==
  ASSUME NEW c \in Configuration, NEW up \in BOOLEAN
  PROVE  LET a == Part(4, c, up)
             b == Part(6, c, up)
         IN  Joining(Whole(c, up), a, Len(a), b, Len(b)) /\ Len(a) \in Nat /\ Len(b) \in Nat
<1>1. 4 \in Family /\ 6 \in Family
  BY DEF Family
<1>2. Whole(c, up) = Part(4, c, up) \o Part(6, c, up)
  <2>1. CASE up
    BY <2>1 DEF Whole, NfrulesSetup, Part, Work, Uses
  <2>2. CASE ~up
    BY <2>2 DEF Whole, NfrulesCleanup, Part, Work, Uses
  <2> QED
    BY <2>1, <2>2
<1> QED
  BY <1>1, <1>2, PartIs, ListsOf

(* The next command is the next one of one family; the other one stands.     *)
LEMMA Shares ==
  ASSUME NEW c \in Configuration, NEW up \in BOOLEAN, NEW n \in 0..Len(Whole(c, up))
  PROVE  /\ n < Len(Whole(c, up)) =>
              \E g \in Family :
                /\ Uses(g, c) /\ Share(g, c, up, n) \in 0..(Len(Work(g, c, up)) - 1)
                /\ Whole(c, up)[n + 1] = Work(g, c, up)[Share(g, c, up, n) + 1]
                /\ Share(g, c, up, n + 1) = Share(g, c, up, n) + 1
                /\ \A f \in Family \ {g} : Share(f, c, up, n + 1) = Share(f, c, up, n)
         /\ n = Len(Whole(c, up)) => \A f \in Family : Uses(f, c) => Share(f, c, up, n) = Len(Work(f, c, up))
         /\ n = 0 => \A f \in Family : Share(f, c, up, n) = 0
<1> DEFINE a == Part(4, c, up)
           b == Part(6, c, up)
           k == Len(a)
           l == Len(b)
           u == Whole(c, up)
           sh(f, i) == Share(f, c, up, i)
<1>1. 4 \in Family /\ 6 \in Family /\ \A f \in Family : f = 4 \/ f = 6
  BY DEF Family
<1>2. Joining(u, a, k, b, l) /\ k \in Nat /\ l \in Nat
  BY WholeIs, Zenon
<1>3. /\ Uses(4, c) => a = Work(4, c, up)
      /\ ~Uses(4, c) => k = 0
      /\ Uses(6, c) => b = Work(6, c, up)
      /\ ~Uses(6, c) => l = 0
  BY <1>1, PartIs
<1>4. /\ \A i : sh(4, i) = IF i <= k THEN i ELSE k
      /\ \A i : sh(6, i) = IF i <= k THEN 0 ELSE i - k
  BY DEF Share
<1> HIDE DEF a, b, k, l, u, sh
<1>5. List(u) /\ Len(u) = k + l /\ \A i \in 1..(k + l) : u[i] = IF i <= k THEN a[i] ELSE b[i - k]
  BY <1>2, Zenon DEF Joining
<1>6. n \in Nat /\ n <= k + l
  BY <1>2, <1>5 DEF u
<1>7. CASE n < k
  <2>1. n \in 0..(k - 1) /\ n + 1 \in 1..(k + l) /\ n + 1 <= k /\ n <= k /\ n < k + l /\ n # k + l
    BY <1>2, <1>6, <1>7
  <2>2. Uses(4, c) /\ a = Work(4, c, up)
    BY <1>3, <2>1
  <2>3. u[n + 1] = a[n + 1] /\ sh(4, n) = n /\ sh(4, n + 1) = n + 1 /\ sh(6, n) = 0 /\ sh(6, n + 1) = 0
    BY <1>4, <1>5, <2>1
  <2>4. sh(4, n) \in 0..(Len(Work(4, c, up)) - 1) /\ u[n + 1] = Work(4, c, up)[sh(4, n) + 1]
    BY <2>1, <2>2, <2>3 DEF k
  <2>5. \A f \in Family \ {4} : sh(f, n + 1) = sh(f, n)
    BY <1>1, <2>3
  <2>6. sh(4, n + 1) = sh(4, n) + 1
    BY <2>3
  <2>7. \E g \in Family :
          /\ Uses(g, c) /\ sh(g, n) \in 0..(Len(Work(g, c, up)) - 1)
          /\ u[n + 1] = Work(g, c, up)[sh(g, n) + 1]
          /\ sh(g, n + 1) = sh(g, n) + 1
          /\ \A f \in Family \ {g} : sh(f, n + 1) = sh(f, n)
    BY <1>1, <2>2, <2>4, <2>5, <2>6, Zenon
  <2>8. n = 0 => \A f \in Family : sh(f, n) = 0
    BY <1>1, <2>3
  <2>9. n # Len(u)
    BY <1>5, <2>1
  <2> QED
    BY <2>7, <2>8, <2>9, Zenon DEF u, sh
<1>8. CASE ~(n < k)
  <2>1. /\ n >= k /\ (n <= k => n = k) /\ ~(n + 1 <= k)
        /\ n - k \in Nat /\ (n + 1) - k = (n - k) + 1
        /\ n < k + l => n - k \in 0..(l - 1) /\ n + 1 \in 1..(k + l)
        /\ n = k + l => n - k = l
        /\ n = 0 => k = 0 /\ n - k = 0
    BY <1>2, <1>6, <1>8
  <2>2. /\ sh(4, n) = k /\ sh(4, n + 1) = k
        /\ sh(6, n) = n - k /\ sh(6, n + 1) = (n - k) + 1
    BY <1>2, <1>4, <2>1
  <2>3. ASSUME n < k + l
        PROVE  \E g \in Family :
                 /\ Uses(g, c) /\ sh(g, n) \in 0..(Len(Work(g, c, up)) - 1)
                 /\ u[n + 1] = Work(g, c, up)[sh(g, n) + 1]
                 /\ sh(g, n + 1) = sh(g, n) + 1
                 /\ \A f \in Family \ {g} : sh(f, n + 1) = sh(f, n)
    <3>1. Uses(6, c) /\ b = Work(6, c, up)
      BY <1>2, <1>3, <2>1, <2>3
    <3>2. u[n + 1] = b[(n - k) + 1]
      BY <1>5, <2>1, <2>3
    <3>3. sh(6, n) \in 0..(Len(Work(6, c, up)) - 1) /\ u[n + 1] = Work(6, c, up)[sh(6, n) + 1]
      BY <2>1, <2>2, <2>3, <3>1, <3>2 DEF l
    <3>4. \A f \in Family \ {6} : sh(f, n + 1) = sh(f, n)
      BY <1>1, <2>2
    <3>5. sh(6, n + 1) = sh(6, n) + 1
      BY <2>2
    <3> QED
      BY <1>1, <3>1, <3>3, <3>4, <3>5, Zenon
  <2>4. ASSUME n = k + l, NEW f \in Family, Uses(f, c) PROVE sh(f, n) = Len(Work(f, c, up))
    BY <1>1, <1>3, <2>1, <2>2, <2>4 DEF k, l
  <2>5. n = 0 => \A f \in Family : sh(f, n) = 0
    BY <1>1, <2>1, <2>2
  <2>6. /\ n < Len(u) => n < k + l
        /\ n = Len(u) => n = k + l
    BY <1>5
  <2> QED
    BY <2>3, <2>4, <2>5, <2>6, Zenon DEF u, sh
<1> QED
  BY <1>7, <1>8

LEMMA WholeList ==
  ASSUME NEW c \in Configuration, NEW up \in BOOLEAN
  PROVE  List(Whole(c, up)) /\ Len(Whole(c, up)) \in Nat
  BY WholeIs DEF Joining, List

Progress(c, up, left, nf, misses) ==
  \E n \in 0..Len(Whole(c, up)) :
    /\ left = After(Whole(c, up), n)
    /\ \A f \in Family : Uses(f, c) => TableAt(f, c, up, Share(f, c, up, n), nf[Mine(f, c)], misses)

(* All tables, each of the right shape.                                      *)
Shapely(nf) == nf = [t \in Table |-> nf[t]] /\ \A t \in Table : Shape(t, nf[t])

LEMMA ProgressBegins ==
  ASSUME NEW c \in Configuration, NEW up \in BOOLEAN, NEW nf
  PROVE  Progress(c, up, Whole(c, up), nf, 0)
<1>1. List(Whole(c, up)) /\ 0 \in 0..Len(Whole(c, up)) /\ 0 = 0
  BY WholeList
<1>2. After(Whole(c, up), 0) = Whole(c, up)
  BY <1>1, NextOf
<1>3. ASSUME NEW f \in Family PROVE TableAt(f, c, up, Share(f, c, up, 0), nf[Mine(f, c)], 0)
  BY <1>1, Shares, Begins
<1> QED
  BY <1>1, <1>2, <1>3 DEF Progress

LEMMA ProgressMisses ==
  ASSUME NEW c, NEW up, NEW left, NEW nf, NEW misses \in Nat, Progress(c, up, left, nf, misses)
  PROVE  Progress(c, up, left, nf, misses + 1)
<1>1. \A f, n, T : TableAt(f, c, up, n, T, misses) => TableAt(f, c, up, n, T, misses + 1)
  BY MissMore
<1> QED
  BY <1>1, Zenon DEF Progress

LEMMA ProgressStep ==
  ASSUME NEW c \in Configuration, NEW up \in BOOLEAN, NEW left, left # << >>, NEW nf, Shapely(nf),
         NEW misses \in Nat, Progress(c, up, left, nf, misses), NEW job, job = Head(left),
         NEW new, new = [nf EXCEPT ![job.table] = Result(job.cmd, @)]
  PROVE  /\ job.table \in Own(c) /\ job.must \in BOOLEAN /\ (job.must => up)
         /\ Possible(job.cmd, nf[job.table]) => Shapely(new) /\ Progress(c, up, Tail(left), new, misses)
         /\ ~job.must => /\ ~Possible(job.cmd, nf[job.table]) => Progress(c, up, Tail(left), nf, misses)
                         /\ Progress(c, up, Tail(left), nf, misses + 1)
         /\ job.must /\ misses = 0 => Possible(job.cmd, nf[job.table])
<1> DEFINE u == Whole(c, up)
           T(f) == nf[Mine(f, c)]
<1>1. PICK n \in 0..Len(u) :
        /\ left = After(u, n)
        /\ \A f \in Family : Uses(f, c) => TableAt(f, c, up, Share(f, c, up, n), T(f), misses)
  BY DEF Progress
<1>2. List(u) /\ Len(u) \in Nat
  BY WholeList
<1>3. n < Len(u) /\ n + 1 \in 0..Len(u) /\ job = u[n + 1] /\ Tail(left) = After(u, n + 1)
  <2>1. n # Len(u)
    BY <1>1, <1>2, NextOf
  <2>2. n < Len(u) /\ n + 1 \in 0..Len(u)
    BY <1>2, <2>1
  <2> QED
    BY <1>1, <1>2, <2>2, NextOf
<1>4. PICK g \in Family :
        /\ Uses(g, c) /\ Share(g, c, up, n) \in 0..(Len(Work(g, c, up)) - 1)
        /\ u[n + 1] = Work(g, c, up)[Share(g, c, up, n) + 1]
        /\ Share(g, c, up, n + 1) = Share(g, c, up, n) + 1
        /\ \A f \in Family \ {g} : Share(f, c, up, n + 1) = Share(f, c, up, n)
  BY <1>3, Shares, SMTT(20)
<1> DEFINE i == Share(g, c, up, n)
           S == T(g)
           t == Mine(g, c)
<1>5. \A f \in Family : Mine(f, c) \in Table /\ (f # g => Mine(f, c) # t)
  BY MineIs DEF Mine
<1>6. nf = [s \in Table |-> nf[s]] /\ \A s \in Table : Shape(s, nf[s])
  BY DEF Shapely
<1>7. Shape(t, S) /\ TableAt(g, c, up, i, S, misses)
  BY <1>1, <1>4, <1>5, <1>6
<1>8. job = Work(g, c, up)[i + 1]
  BY <1>3, <1>4
<1> HIDE DEF u, T, i, S, t
<1>9. /\ job.table = t /\ job.must \in BOOLEAN /\ (job.must => up)
      /\ Possible(job.cmd, S) => Shape(t, Result(job.cmd, S)) /\ TableAt(g, c, up, i + 1, Result(job.cmd, S), misses)
      /\ ~job.must => /\ ~Possible(job.cmd, S) => TableAt(g, c, up, i + 1, S, misses)
                      /\ TableAt(g, c, up, i + 1, S, misses + 1)
      /\ job.must /\ misses = 0 => Possible(job.cmd, S)
  <2>1. i \in 0..(Len(Work(g, c, up)) - 1)
    BY <1>4 DEF i
  <2> QED
    BY <1>7, <1>8, <2>1, TableStep DEF t
<1>10. nf[job.table] = S
  BY <1>9 DEF S, T, t
<1>11. ASSUME NEW nf2, NEW k, TableAt(g, c, up, i + 1, nf2[t], k),
              \A f \in Family \ {g} : Uses(f, c) => TableAt(f, c, up, Share(f, c, up, n), nf2[Mine(f, c)], k)
       PROVE  Progress(c, up, Tail(left), nf2, k)
  <2>1. ASSUME NEW f \in Family, Uses(f, c) PROVE TableAt(f, c, up, Share(f, c, up, n + 1), nf2[Mine(f, c)], k)
    <3>1. CASE f = g
      BY <1>4, <1>11, <3>1, Zenon DEF i, t
    <3>2. CASE f # g
      <4>1. f \in Family \ {g}
        BY <3>2
      <4> QED
        BY <1>4, <1>11, <2>1, <4>1, Zenon
    <3> QED
      BY <3>1, <3>2
  <2> QED
    BY <1>3, <2>1 DEF Progress, u
<1>12. \A f \in Family \ {g} : Uses(f, c) => TableAt(f, c, up, Share(f, c, up, n), nf[Mine(f, c)], misses)
  BY <1>1 DEF T
<1>13. \A f \in Family \ {g} : Uses(f, c) => TableAt(f, c, up, Share(f, c, up, n), nf[Mine(f, c)], misses + 1)
  BY <1>12, MissMore
<1>14. ASSUME Possible(job.cmd, S)
       PROVE  Shapely(new) /\ Progress(c, up, Tail(left), new, misses)
  <2>1. /\ new = [s \in Table |-> new[s]] /\ new[t] = Result(job.cmd, S)
        /\ \A s \in Table : s # t => new[s] = nf[s]
    BY <1>5, <1>6, <1>9, <1>10, <1>4 DEF t
  <2>2. Shapely(new)
    BY <1>6, <1>9, <1>14, <2>1 DEF Shapely
  <2>3. \A f \in Family \ {g} : new[Mine(f, c)] = nf[Mine(f, c)]
    BY <1>5, <2>1
  <2>4. \A f \in Family \ {g} : Uses(f, c) => TableAt(f, c, up, Share(f, c, up, n), new[Mine(f, c)], misses)
    BY <1>12, <2>3
  <2>5. TableAt(g, c, up, i + 1, new[t], misses)
    BY <1>9, <1>14, <2>1
  <2>6. Progress(c, up, Tail(left), new, misses)
    BY <1>11, <2>4, <2>5
  <2> QED
    BY <2>2, <2>6
<1>15. nf[t] = S
  BY <1>9, <1>10
<1>16. ASSUME ~job.must, ~Possible(job.cmd, S) PROVE Progress(c, up, Tail(left), nf, misses)
  BY <1>9, <1>11, <1>12, <1>15, <1>16
<1>17. ASSUME ~job.must PROVE Progress(c, up, Tail(left), nf, misses + 1)
  BY <1>9, <1>11, <1>13, <1>15, <1>17
<1>18. job.table \in Own(c)
  BY <1>4, <1>5, <1>9, MineIs DEF Own, Uses, Mine, t
<1> QED
  BY <1>9, <1>10, <1>14, <1>16, <1>17, <1>18

LEMMA ProgressEnds ==
  ASSUME NEW c \in Configuration, NEW up \in BOOLEAN, NEW nf, NEW misses, Progress(c, up, << >>, nf, misses),
         NEW f \in Family, Uses(f, c)
  PROVE  TableAt(f, c, up, Len(Work(f, c, up)), nf[Mine(f, c)], misses)
<1> DEFINE u == Whole(c, up)
<1>1. PICK n \in 0..Len(u) :
        << >> = After(u, n) /\ \A g \in Family : Uses(g, c) => TableAt(g, c, up, Share(g, c, up, n), nf[Mine(g, c)], misses)
  BY DEF Progress
<1>2. n = Len(u)
  BY <1>1, NextOf, WholeList
<1>3. Share(f, c, up, n) = Len(Work(f, c, up))
  BY <1>2, Shares
<1> QED
  BY <1>1, <1>3

LEMMA OwnIs ==
  ASSUME NEW c \in Configuration, NEW t \in Own(c)
  PROVE  t[2] \in Family /\ Uses(t[2], c) /\ t = Mine(t[2], c) /\ t \in Table
  BY DEF Own, Uses, Mine, Table

LEMMA EmptyShape ==
  ASSUME NEW t \in Table
  PROVE  Shape(t, Empty(t[1]))
<1>1. CASE t[1] = "ipt"
  <2> DEFINE T == [c \in {"PRE", "POST"} |-> << >>]
  <2>1. IsTable(T) /\ DOMAIN T = {"PRE", "POST"} /\ \A c : Rules(T, c) = << >>
    BY DEF IsTable, Rules
  <2>2. Empty(t[1]) = T
    BY <1>1 DEF Empty
  <2> HIDE DEF T
  <2>3. IptShape(t[2], T)
    BY <2>1, NoRShape, NoneGuarded DEF IptShape, Chains
  <2> QED
    BY <1>1, <2>2, <2>3 DEF Shape
<1>2. CASE t[1] = "nft"
  <2>1. NftShape(t[2], << >>)
    BY NoTable DEF NftShape
  <2> QED
    BY <1>2, <2>1 DEF Shape, Empty
<1> QED
  BY <1>1, <1>2 DEF Table, Backend

LEMMA WholeSays ==
  ASSUME NEW c
  PROVE  NfrulesSetup(c) = Whole(c, TRUE) /\ NfrulesCleanup(c) = Whole(c, FALSE)
  BY DEF Whole
=============================================================================
