-------------------------- MODULE FilteringProofs --------------------------
(***************************************************************************)
(* What filtering a sequence returns: the elements asked for, all of them, *)
(* in their order.  AuthEventBus.off filters the handlers of an event that *)
(* way, and the admin client the list of a realm's clients.                *)
(***************************************************************************)
EXTENDS Filtering, Integers, TLAPS, WellFoundedInduction

-----------------------------------------------------------------------------
(* Induction over the naturals, for a set instead of a predicate: the order  *)
(* of the naturals is well-founded, so what is missing would have a least    *)
(* element.                                                                  *)

LEMMA LeastNat ==
    ASSUME NEW T \in SUBSET Nat, T # {}
    PROVE  \E x \in T : \A y \in T : x <= y
<1> DEFINE R == {p \in Nat \X Nat : p[1] < p[2]}
<1>1. IsWellFoundedOn(R, Nat)
  BY NatLessThanWellFounded DEF OpToRel
<1>2. \A y, x \in Nat : y < x => <<y, x>> \in R
  OBVIOUS
<1> HIDE DEF R
<1>3. PICK x \in T : \A y \in T : ~ (<<y, x>> \in R)
  BY <1>1, WFMin
<1>4. \A y \in T : ~ (y < x)
  BY <1>2, <1>3
<1> QED BY <1>4

LEMMA Induct ==
    ASSUME NEW S, 0 \in S, \A n \in Nat : n \in S => n + 1 \in S
    PROVE  Nat \subseteq S
<1> SUFFICES ASSUME Nat \ S # {} PROVE FALSE
  OBVIOUS
<1>1. PICK x \in Nat \ S : \A y \in Nat \ S : x <= y
  BY LeastNat
<1>2. x # 0 /\ x - 1 \in Nat /\ x - 1 \in S
  BY <1>1
<1> QED BY <1>1, <1>2

-----------------------------------------------------------------------------
(* The recursive function by which Only is defined exists, by induction on   *)
(* how far it has got.                                                       *)

\* f is that function for the first n elements of s.
Filters(f, s, S, n) ==
    f = [i \in 0..n |->
           IF i = 0 THEN <<>>
           ELSE IF s[i] \in S THEN Append(f[i - 1], s[i]) ELSE f[i - 1]]

\* It can be carried on by one element, and so exists for every length.
LEMMA FilterExtends ==
    ASSUME NEW s, NEW S, NEW n \in Nat, NEW f, Filters(f, s, S, n)
    PROVE  \E g : Filters(g, s, S, n + 1)
<1> DEFINE last == IF s[n + 1] \in S THEN Append(f[n], s[n + 1]) ELSE f[n]
           g == [i \in 0..(n + 1) |-> IF i = n + 1 THEN last ELSE f[i]]
           V(h, i) == IF i = 0 THEN <<>>
                      ELSE IF s[i] \in S THEN Append(h[i - 1], s[i]) ELSE h[i - 1]
<1>0. f = [i \in 0..n |-> V(f, i)]
  BY DEF Filters
<1>1. ASSUME NEW i \in 0..(n + 1) PROVE g[i] = V(g, i)
  <2> HIDE DEF last
  <2>0. \A k \in 0..n : g[k] = f[k]
    OBVIOUS
  <2>1. CASE i = n + 1
    <3>1. g[i] = last /\ g[i - 1] = f[n] /\ i # 0
      BY <2>1
    <3> HIDE DEF g
    <3> QED BY <3>1, <2>1 DEF last
  <2>2. CASE i # n + 1
    <3>1. i \in 0..n /\ (i # 0 => i - 1 \in 0..n)
      BY <2>2
    <3> HIDE DEF V, g
    <3>2. g[i] = f[i]
      BY <2>0, <3>1
    <3>3. f[i] = V(f, i)
      BY <1>0, <3>1
    <3>4. V(f, i) = V(g, i)
      <4>1. i # 0 => f[i - 1] = g[i - 1]
        BY <2>0, <3>1
      <4> QED BY <4>1 DEF V
    <3> QED BY <3>2, <3>3, <3>4
  <2> QED BY <2>1, <2>2
<1>2. g = [i \in 0..(n + 1) |-> V(g, i)]
  <2>1. g = [i \in 0..(n + 1) |-> g[i]]
    OBVIOUS
  <2> HIDE DEF g, V
  <2> QED BY <1>1, <2>1
<1> HIDE DEF g
<1>3. Filters(g, s, S, n + 1)
  BY <1>2 DEF Filters
<1> QED BY <1>3

LEMMA FilterExists ==
    ASSUME NEW s, NEW S, NEW n \in Nat
    PROVE  \E f : Filters(f, s, S, n)
<1> DEFINE N == {k \in Nat : \E f : Filters(f, s, S, k)}
<1>1. 0 \in N
  <2> DEFINE f == [i \in 0..0 |-> <<>>]
  <2>1. Filters(f, s, S, 0)
    BY DEF Filters
  <2> HIDE DEF f
  <2> QED BY <2>1
<1>2. \A k \in Nat : k \in N => k + 1 \in N
  BY FilterExtends
<1> HIDE DEF N
<1>3. n \in N
  BY <1>1, <1>2, Induct
<1> QED BY <1>3 DEF N

LEMMA OnlyDefined ==
    ASSUME NEW s, NEW S, Len(s) \in Nat
    PROVE  \E f : Filters(f, s, S, Len(s)) /\ Only(s, S) = f[Len(s)]
<1> DEFINE f == CHOOSE g : Filters(g, s, S, Len(s))
<1>1. Filters(f, s, S, Len(s))
  BY FilterExists
<1>2. Only(s, S) = f[Len(s)]
  BY DEF Only, Filters
<1> HIDE DEF f
<1> QED BY <1>1, <1>2

-----------------------------------------------------------------------------
(* What it returns.                                                          *)

\* t is what is left of the first n elements of s when those not in S are gone:
\* its elements are those of s at increasing places, and no place of S is missing.
Picks(t, s, S, n) ==
    /\ t \in Seq(S)
    /\ \E at \in [1..Len(t) -> 1..n] :
          /\ \A i, k \in 1..Len(t) : i < k => at[i] < at[k]
          /\ \A i \in 1..Len(t) : t[i] = s[at[i]]
          /\ \A k \in 1..n : s[k] \in S => \E i \in 1..Len(t) : at[i] = k

\* One more element is kept or not.
LEMMA PicksOne ==
    ASSUME NEW s, NEW S, NEW n \in Nat, NEW t, Picks(t, s, S, n)
    PROVE  /\ s[n + 1] \in S => Picks(Append(t, s[n + 1]), s, S, n + 1)
           /\ s[n + 1] \notin S => Picks(t, s, S, n + 1)
<1>1. PICK at \in [1..Len(t) -> 1..n] :
          /\ \A i, k \in 1..Len(t) : i < k => at[i] < at[k]
          /\ \A i \in 1..Len(t) : t[i] = s[at[i]]
          /\ \A k \in 1..n : s[k] \in S => \E i \in 1..Len(t) : at[i] = k
  BY DEF Picks
<1>2. t \in Seq(S) /\ Len(t) \in Nat
  BY DEF Picks
<1>3. ASSUME s[n + 1] \in S PROVE Picks(Append(t, s[n + 1]), s, S, n + 1)
  <2> DEFINE u == Append(t, s[n + 1])
             to == [i \in 1..(Len(t) + 1) |-> IF i = Len(t) + 1 THEN n + 1 ELSE at[i]]
  <2>1. u \in Seq(S) /\ Len(u) = Len(t) + 1
    BY <1>2, <1>3
  <2>2. u[Len(t) + 1] = s[n + 1] /\ \A i \in 1..Len(t) : u[i] = t[i]
    BY <1>2
  <2>3. to[Len(t) + 1] = n + 1 /\ \A i \in 1..Len(t) : to[i] = at[i] /\ at[i] \in 1..n
    BY <1>1, <1>2
  <2>4. to \in [1..Len(u) -> 1..(n + 1)]
    BY <1>1, <1>2, <2>1
  <2> HIDE DEF to, u
  <2>5. \A i \in 1..Len(u) : i = Len(t) + 1 \/ i \in 1..Len(t)
    BY <1>2, <2>1
  <2>6. \A i, k \in 1..Len(u) : i < k => to[i] < to[k]
    BY <1>1, <1>2, <2>1, <2>3, <2>5
  <2>7. \A i \in 1..Len(u) : u[i] = s[to[i]]
    BY <1>1, <2>2, <2>3, <2>5
  <2>8. \A k \in 1..(n + 1) : s[k] \in S => \E i \in 1..Len(u) : to[i] = k
    <3> SUFFICES ASSUME NEW k \in 1..(n + 1), s[k] \in S
                 PROVE  \E i \in 1..Len(u) : to[i] = k
      OBVIOUS
    <3>1. CASE k = n + 1
      BY <3>1, <1>2, <2>1, <2>3
    <3>2. CASE k # n + 1
      <4>1. PICK i \in 1..Len(t) : at[i] = k
        BY <1>1, <3>2
      <4>2. i \in 1..Len(u) /\ to[i] = k
        BY <4>1, <1>2, <2>1, <2>3
      <4> QED BY <4>2
    <3> QED BY <3>1, <3>2
  <2>9. Picks(u, s, S, n + 1)
    BY <2>1, <2>4, <2>6, <2>7, <2>8 DEF Picks
  <2> QED BY <2>9 DEF u
<1>4. ASSUME s[n + 1] \notin S PROVE Picks(t, s, S, n + 1)
  <2>1. at \in [1..Len(t) -> 1..(n + 1)]
    BY <1>1
  <2>2. \A k \in 1..(n + 1) : s[k] \in S => \E i \in 1..Len(t) : at[i] = k
    BY <1>1, <1>4
  <2> QED BY <1>1, <1>2, <2>1, <2>2 DEF Picks
<1> QED BY <1>3, <1>4

\* Filtering keeps exactly the elements asked for, in their order and as often as
\* they occur: unsubscribing a handler takes away that handler only, every time it
\* was subscribed.
THEOREM OnlyFilters ==
    ASSUME NEW T, NEW s \in Seq(T), NEW S
    PROVE  Picks(Only(s, S), s, S, Len(s))
<1>1. Len(s) \in Nat
  OBVIOUS
<1>2. PICK f : Filters(f, s, S, Len(s)) /\ Only(s, S) = f[Len(s)]
  BY <1>1, OnlyDefined
<1> DEFINE N == {n \in Nat : n <= Len(s) => Picks(f[n], s, S, n)}
<1>3. 0 \in N
  <2>1. f[0] = <<>>
    BY <1>1, <1>2 DEF Filters
  <2>2. Picks(<<>>, s, S, 0)
    <3> DEFINE at == [i \in 1..Len(<<>>) |-> i]
    <3>1. at \in [1..Len(<<>>) -> 1..0] /\ 1..Len(<<>>) = {} /\ 1..0 = {}
      OBVIOUS
    <3> HIDE DEF at
    <3>2. \E a \in [1..Len(<<>>) -> 1..0] :
            /\ \A i, k \in 1..Len(<<>>) : i < k => a[i] < a[k]
            /\ \A i \in 1..Len(<<>>) : <<>>[i] = s[a[i]]
            /\ \A k \in 1..0 : s[k] \in S => \E i \in 1..Len(<<>>) : a[i] = k
      BY <3>1, Zenon
    <3>3. <<>> \in Seq(S)
      OBVIOUS
    <3> QED BY <3>2, <3>3 DEF Picks
  <2> QED BY <2>1, <2>2
<1>4. ASSUME NEW n \in Nat, n \in N PROVE n + 1 \in N
  <2> SUFFICES ASSUME n + 1 <= Len(s) PROVE Picks(f[n + 1], s, S, n + 1)
    OBVIOUS
  <2>1. Picks(f[n], s, S, n)
    BY <1>1, <1>4
  <2>2. f[n + 1] = IF s[n + 1] \in S THEN Append(f[n], s[n + 1]) ELSE f[n]
    <3>1. n + 1 \in 0..Len(s) /\ n + 1 # 0 /\ (n + 1) - 1 = n
      BY <1>1
    <3> QED BY <3>1, <1>2 DEF Filters
  <2> QED BY <2>1, <2>2, PicksOne
<1> HIDE DEF N
<1>5. Len(s) \in N
  BY <1>1, <1>3, <1>4, Induct
<1> QED BY <1>1, <1>2, <1>5 DEF N

\* In particular it is a sequence of elements of the one filtered.
LEMMA OnlyType ==
    ASSUME NEW T, NEW s \in Seq(T), NEW S
    PROVE  /\ Only(s, S) \in Seq(T \cap S)
           /\ Len(Only(s, S)) \in Nat
           /\ \A i \in 1..Len(Only(s, S)) : \E k \in 1..Len(s) : Only(s, S)[i] = s[k]
<1> DEFINE t == Only(s, S)
<1>0. Picks(t, s, S, Len(s))
  BY OnlyFilters
<1> HIDE DEF t
<1>1. t \in Seq(S) /\ Len(t) \in Nat
  BY <1>0 DEF Picks
<1>2. \A i \in 1..Len(t) : \E k \in 1..Len(s) : t[i] = s[k]
  BY <1>0 DEF Picks
<1>3. \A i \in 1..Len(t) : t[i] \in T \cap S
  BY <1>1, <1>2
<1>4. t \in Seq(T \cap S)
  BY <1>1, <1>3
<1> QED BY <1>1, <1>2, <1>4 DEF t
=============================================================================
