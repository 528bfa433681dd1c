--------------------------- MODULE CallersProofs ---------------------------
(***************************************************************************)
(* Theorems about what the gateway lets a caller do, whoever the callers   *)
(* are and however many.                                                   *)
(*                                                                         *)
(* Callers that sign each request (Kanban): BudgetAlwaysExact and          *)
(* RepublishAlwaysCorrects.  BudgetInv says that the slots spent of a      *)
(* budget are the stamps under its keys; RelayInv that the relays hold     *)
(* only what the routes let through.                                       *)
(*                                                                         *)
(* Callers that signed in (Sessions): TypeCorrect,                         *)
(* AlwaysPublishedByConsent and PublishersAlwaysSignedIn.  ConsentInv      *)
(* follows what each token inherits: a state the client's URI, a code the  *)
(* state's fields and a sign-in, a token the code's.  On the side of the   *)
(* hub it says that a session has the user of a token it was given, and    *)
(* that a request runs on a session that was opened.                       *)
(***************************************************************************)
EXTENDS Sessions, Kanban, FiniteSetTheorems, TLAPS

-----------------------------------------------------------------------------
(* Kanban: the budgets of the signed requests, and what republishing       *)
(* replaces.                                                               *)

Keys == BoardKeys \cup CallerKeys
KeysOf(budget) == {key \in Keys : BudgetOf(key) = budget}

After(times, second) == {i \in DOMAIN times : times[i] > second}

\* The stamps later than a second, under all the keys of a budget.
Cells(budget, second) ==
    {cell \in KeysOf(budget) \X Nat : cell[2] \in After(stamps[cell[1]], second)}

\* Each slot spent of a budget is a stamp under one of its keys; no key has
\* more than its hour's worth; and nothing was spent since the last refusal.
BudgetInv ==
    /\ now \in Nat
    /\ stamps \in [Keys -> Seq(Nat)]
    /\ spent \in [Budgets -> Seq(Nat)]
    /\ \A budget \in Budgets, second \in Int :
          /\ IsFiniteSet(Cells(budget, second))
          /\ Cardinality(Cells(budget, second)) = Cardinality(After(spent[budget], second))
    /\ \A key \in Keys : Cardinality(Recent(stamps[key])) <= PerHour
    /\ refused # None =>
          /\ refused \in Budgets
          /\ \A key \in KeysOf(refused) : Cardinality(Recent(stamps[key])) = PerHour

-----------------------------------------------------------------------------
\* Sets of at most P numbers, one for each of K, hold at most |K| * P in all,
\* and as many as that if each is full.
LEMMA CountCells ==
  ASSUME NEW K, IsFiniteSet(K), NEW P \in Nat, NEW S,
         \A k \in K : S[k] \subseteq Nat /\ IsFiniteSet(S[k]) /\ Cardinality(S[k]) <= P
  PROVE  LET C == {cell \in K \X Nat : cell[2] \in S[cell[1]]}
         IN  /\ IsFiniteSet(C) /\ Cardinality(C) <= Cardinality(K) * P
             /\ (\A k \in K : Cardinality(S[k]) = P) => Cardinality(C) = Cardinality(K) * P
<1> DEFINE C == {cell \in K \X Nat : cell[2] \in S[cell[1]]}
           Good(k, g) == /\ g \in [S[k] -> 1..P]
                         /\ \A x, y \in S[k] : g[x] = g[y] => x = y
                         /\ Cardinality(S[k]) = P => \A n \in 1..P : \E x \in S[k] : g[x] = n
           h == [k \in K |-> CHOOSE g : Good(k, g)]
           T == K \X (1..P)
           f == [cell \in C |-> <<cell[1], h[cell[1]][cell[2]]>>]
<1>1. \A k \in K : Good(k, h[k])
  <2>1. SUFFICES ASSUME NEW k \in K PROVE \E g : Good(k, g)
    OBVIOUS
  <2> DEFINE m == Cardinality(S[k])
  <2>2. m \in Nat /\ m <= P
    BY FS_CardinalityType
  <2>3. ExistsBijection(S[k], 1..m)
    <3>1. IsFiniteSet(1..m) /\ Cardinality(1..m) = m
      BY <2>2, FS_Interval
    <3>2. QED
      BY <3>1, FS_SameCardinalityBij
  <2> HIDE DEF m
  <2>4. PICK g \in [S[k] -> 1..m] : /\ \A x, y \in S[k] : g[x] = g[y] => x = y
                                    /\ \A n \in 1..m : \E x \in S[k] : g[x] = n
    BY <2>3 DEF ExistsBijection, Bijection, Injection, Surjection, IsInjective
  <2>5. g \in [S[k] -> 1..P]
    BY <2>2, <2>4
  <2>6. QED
    BY <2>4, <2>5 DEF m
<1> HIDE DEF h
<1>2. IsFiniteSet(T) /\ Cardinality(T) = Cardinality(K) * P
  <2>1. IsFiniteSet(1..P) /\ Cardinality(1..P) = P
    BY FS_Interval
  <2>2. QED
    BY <2>1, FS_Product
<1>3. f \in [C -> T]
  BY <1>1
<1>4. ASSUME NEW x \in C, NEW y \in C, f[x] = f[y] PROVE x = y
  <2>1. x[1] = y[1] /\ h[x[1]][x[2]] = h[y[1]][y[2]]
    BY <1>4
  <2>2. x = <<x[1], x[2]>> /\ y = <<y[1], y[2]>> /\ x[1] \in K
        /\ x[2] \in S[x[1]] /\ y[2] \in S[y[1]]
    OBVIOUS
  <2>3. x[2] = y[2]
    BY <1>1, <2>1, <2>2
  <2>4. QED
    BY <2>1, <2>2, <2>3
<1>5. f \in Injection(C, T)
  BY <1>3, <1>4 DEF Injection, IsInjective
<1>6. ASSUME \A k \in K : Cardinality(S[k]) = P PROVE f \in Surjection(C, T)
  <2>1. ASSUME NEW t \in T PROVE \E cell \in C : f[cell] = t
    <3>1. t = <<t[1], t[2]>> /\ t[1] \in K /\ t[2] \in 1..P
      OBVIOUS
    <3>2. PICK x \in S[t[1]] : h[t[1]][x] = t[2]
      BY <1>1, <1>6, <3>1
    <3>3. <<t[1], x>> \in C
      BY <3>1, <3>2
    <3>4. QED
      BY <3>1, <3>2, <3>3
  <2>2. QED
    BY <1>3, <2>1 DEF Surjection
<1> HIDE DEF C, T, f
<1>7. /\ IsFiniteSet(C) /\ Cardinality(C) <= Cardinality(T)
      /\ Cardinality(C) = Cardinality(T) <=> f \in Surjection(C, T)
  BY <1>2, <1>5, FS_Injection
<1>8. QED
  BY <1>2, <1>6, <1>7 DEF C

\* The keys of a budget: a caller's own key, or one for each bucket.
LEMMA BudgetKeys ==
  /\ \A c \in Callers, b \in Boards :
        /\ <<c, b>> \in Budgets
        /\ KeysOf(<<c, b>>) = {<<c, b, i>> : i \in 1..Buckets}
  /\ \A c \in Callers : <<c>> \in Budgets /\ KeysOf(<<c>>) = {<<c>>}
  /\ \A budget \in Budgets :
        \/ \E c \in Callers, b \in Boards : budget = <<c, b>>
        \/ \E c \in Callers : budget = <<c>>
<1>1. Buckets \in Nat /\ 1 \in 1..Buckets
  BY LimitsAssumption
<1>2. ASSUME NEW c \in Callers, NEW b \in Boards, NEW i \in 1..Buckets
      PROVE  <<c, b, i>> \in Keys /\ BudgetOf(<<c, b, i>>) = <<c, b>>
  BY DEF BudgetOf, Keys, BoardKeys
<1>3. ASSUME NEW c \in Callers
      PROVE  <<c>> \in Keys /\ BudgetOf(<<c>>) = <<c>>
  <2>1. <<c>> \notin BoardKeys
    <3>1. SUFFICES ASSUME NEW d, NEW b, NEW i, <<c>> = <<d, b, i>> PROVE FALSE
      BY DEF BoardKeys
    <3>2. Len(<<c>>) = 1 /\ Len(<<d, b, i>>) = 3
      OBVIOUS
    <3>3. QED
      BY <3>1, <3>2
  <2>2. QED
    BY <2>1 DEF BudgetOf, Keys, CallerKeys
<1>4. \A key \in Keys :
         \/ \E c \in Callers, b \in Boards, i \in 1..Buckets : key = <<c, b, i>>
         \/ \E c \in Callers : key = <<c>>
  BY DEF Keys, BoardKeys, CallerKeys
<1>5. \A c, d, b : <<c>> # <<d, b>>
  <2>1. SUFFICES ASSUME NEW c, NEW d, NEW b, <<c>> = <<d, b>> PROVE FALSE
    OBVIOUS
  <2>2. Len(<<c>>) = 1 /\ Len(<<d, b>>) = 2
    OBVIOUS
  <2>3. QED
    BY <2>1, <2>2
<1>6. ASSUME NEW c \in Callers, NEW b \in Boards
      PROVE  /\ <<c, b>> \in Budgets
             /\ KeysOf(<<c, b>>) = {<<c, b, i>> : i \in 1..Buckets}
  <2>1. <<c, b>> \in Budgets
    BY <1>1, <1>2 DEF Budgets, Keys
  <2>2. ASSUME NEW key \in KeysOf(<<c, b>>) PROVE key \in {<<c, b, i>> : i \in 1..Buckets}
    <3>1. key \in Keys /\ BudgetOf(key) = <<c, b>>
      BY DEF KeysOf
    <3>2. PICK d \in Callers, a \in Boards, i \in 1..Buckets : key = <<d, a, i>>
      BY <1>3, <1>4, <1>5, <3>1
    <3>3. <<d, a>> = <<c, b>>
      BY <1>2, <3>1, <3>2
    <3>4. QED
      BY <3>2, <3>3
  <2>3. \A i \in 1..Buckets : <<c, b, i>> \in KeysOf(<<c, b>>)
    BY <1>2 DEF KeysOf
  <2>4. QED
    BY <2>1, <2>2, <2>3
<1>7. ASSUME NEW c \in Callers
      PROVE  <<c>> \in Budgets /\ KeysOf(<<c>>) = {<<c>>}
  <2>1. <<c>> \in Budgets /\ <<c>> \in KeysOf(<<c>>)
    BY <1>3 DEF Budgets, Keys, KeysOf
  <2>2. ASSUME NEW key \in KeysOf(<<c>>) PROVE key = <<c>>
    <3>1. key \in Keys /\ BudgetOf(key) = <<c>>
      BY DEF KeysOf
    <3>2. PICK d \in Callers : key = <<d>>
      BY <1>2, <1>4, <1>5, <3>1
    <3>3. QED
      BY <1>3, <3>1, <3>2
  <2>3. QED
    BY <2>1, <2>2
<1>8. ASSUME NEW budget \in Budgets
      PROVE  \/ \E c \in Callers, b \in Boards : budget = <<c, b>>
             \/ \E c \in Callers : budget = <<c>>
  <2>1. PICK key \in Keys : budget = BudgetOf(key)
    BY DEF Budgets, Keys
  <2>2. QED
    BY <1>2, <1>3, <1>4, <2>1
<1>9. QED
  BY <1>6, <1>7, <1>8

\* A stamp appended is one more after any second before it.
LEMMA AfterAppend ==
  ASSUME NEW times \in Seq(Nat), NEW t \in Nat, NEW second \in Int
  PROVE  /\ Append(times, t) \in Seq(Nat)
         /\ After(Append(times, t), second) =
              IF t > second THEN After(times, second) \cup {Len(times) + 1}
              ELSE After(times, second)
         /\ Len(times) + 1 \notin After(times, second) /\ Len(times) \in Nat
         /\ IsFiniteSet(After(times, second))
<1>1. DOMAIN times = 1..Len(times) /\ Len(times) \in Nat
  OBVIOUS
<1>2. /\ DOMAIN Append(times, t) = 1..(Len(times) + 1)
      /\ \A i \in 1..Len(times) : Append(times, t)[i] = times[i] /\ times[i] \in Nat
      /\ Append(times, t)[Len(times) + 1] = t
      /\ Append(times, t) \in Seq(Nat)
  OBVIOUS
<1> DEFINE longer == Append(times, t)
           n == Len(times)
<1> HIDE DEF longer, n
<1>3. /\ DOMAIN longer = 1..(n + 1) /\ longer[n + 1] = t /\ n \in Nat /\ DOMAIN times = 1..n
      /\ \A i \in 1..n : longer[i] = times[i]
  BY <1>1, <1>2 DEF longer, n
<1>4. After(longer, second) =
        IF t > second THEN After(times, second) \cup {n + 1} ELSE After(times, second)
  <2>1. ASSUME NEW i \in After(longer, second)
        PROVE  i \in After(times, second) \/ (i = n + 1 /\ t > second)
    BY <1>3 DEF After
  <2>2. After(times, second) \subseteq After(longer, second)
    BY <1>3 DEF After
  <2>3. t > second => n + 1 \in After(longer, second)
    BY <1>3 DEF After
  <2>4. t > second \/ ~(t > second)
    OBVIOUS
  <2>5. QED
    BY <2>1, <2>2, <2>3, <2>4
<1>5. n + 1 \notin After(times, second)
  BY <1>3 DEF After
<1>6. IsFiniteSet(After(times, second))
  <2>1. After(times, second) \in SUBSET (1..n) /\ IsFiniteSet(1..n)
    BY <1>3, FS_Interval DEF After
  <2>2. QED
    BY <2>1, FS_Subset
<1>7. QED
  BY <1>2, <1>3, <1>4, <1>5, <1>6 DEF longer, n

\* A slot spent of a budget is a stamp under one of its keys, which had room.
LEMMA SpendInv ==
  ASSUME BudgetInv, NEW key \in Keys, Spend(key), now' = now
  PROVE  BudgetInv'
<1> DEFINE budget == BudgetOf(key)
<1>1. budget \in Budgets /\ key \in KeysOf(budget)
  BY DEF Budgets, Keys, KeysOf
<1>2. /\ now \in Nat /\ PerHour \in Nat /\ Window \in Nat
      /\ stamps \in [Keys -> Seq(Nat)] /\ spent \in [Budgets -> Seq(Nat)]
  BY LimitsAssumption DEF BudgetInv
<1>3. /\ stamps' = [stamps EXCEPT ![key] = Append(stamps[key], now)]
      /\ spent' = [spent EXCEPT ![budget] = Append(spent[budget], now)]
      /\ refused' = None
  BY DEF Spend, Stamped
<1> HIDE DEF budget
<1>4. stamps' \in [Keys -> Seq(Nat)] /\ spent' \in [Budgets -> Seq(Nat)]
  BY <1>1, <1>2, <1>3, AfterAppend
<1>5. ASSUME NEW other \in Budgets, NEW second \in Int
      PROVE  /\ IsFiniteSet(Cells(other, second)')
             /\ Cardinality(Cells(other, second)') = Cardinality(After(spent'[other], second))
  <2>1. /\ IsFiniteSet(Cells(other, second))
        /\ Cardinality(Cells(other, second)) = Cardinality(After(spent[other], second))
    BY DEF BudgetInv
  <2>2. \A k \in Keys : k # key => stamps'[k] = stamps[k]
    BY <1>2, <1>3
  <2>3. CASE other # budget
    <3>1. key \notin KeysOf(other) /\ spent'[other] = spent[other]
      BY <1>1, <1>2, <1>3, <2>3 DEF KeysOf
    <3>2. Cells(other, second)' = Cells(other, second)
      BY <2>2, <3>1 DEF Cells, KeysOf
    <3>3. QED
      BY <2>1, <3>1, <3>2
  <2>4. CASE other = budget
    <3> DEFINE cell == <<key, Len(stamps[key]) + 1>>
               mine == After(stamps[key], second)
               nth == Len(spent[other]) + 1
    <3>1. /\ stamps[key] \in Seq(Nat) /\ stamps'[key] = Append(stamps[key], now)
          /\ spent[other] \in Seq(Nat) /\ spent'[other] = Append(spent[other], now)
      BY <1>2, <1>3, <2>4
    <3>2. /\ After(stamps'[key], second) = IF now > second THEN mine \cup {cell[2]} ELSE mine
          /\ cell[2] \notin mine /\ cell[2] \in Nat
      BY <1>2, <3>1, AfterAppend
    <3>3. /\ After(spent'[other], second) = IF now > second THEN After(spent[other], second) \cup {nth}
                                            ELSE After(spent[other], second)
          /\ nth \notin After(spent[other], second) /\ IsFiniteSet(After(spent[other], second))
      BY <1>2, <3>1, AfterAppend
    <3>4. CASE now > second
      <4>1. Cells(other, second)' = Cells(other, second) \cup {cell}
        <5>1. ASSUME NEW x \in Cells(other, second)'
              PROVE  x \in Cells(other, second) \cup {cell}
          BY <2>2, <3>2, <3>4 DEF Cells, KeysOf
        <5>2. ASSUME NEW x \in Cells(other, second) PROVE x \in Cells(other, second)'
          BY <2>2, <3>2, <3>4 DEF Cells, KeysOf
        <5>3. cell \in Cells(other, second)'
          BY <1>1, <2>4, <3>2, <3>4 DEF Cells, KeysOf
        <5>4. QED
          BY <5>1, <5>2, <5>3
      <4>2. cell \notin Cells(other, second)
        BY <3>2 DEF Cells
      <4> HIDE DEF cell, nth
      <4>3. QED
        <5>1. Cardinality(Cells(other, second) \cup {cell}) = Cardinality(Cells(other, second)) + 1
              /\ IsFiniteSet(Cells(other, second) \cup {cell})
          BY <2>1, <4>2, FS_AddElement
        <5>2. Cardinality(After(spent[other], second) \cup {nth})
                 = Cardinality(After(spent[other], second)) + 1
          BY <3>3, FS_AddElement
        <5>3. QED
          BY <2>1, <3>3, <3>4, <4>1, <5>1, <5>2
    <3>5. CASE ~(now > second)
      <4>1. Cells(other, second)' = Cells(other, second)
        BY <2>2, <3>2, <3>5 DEF Cells, KeysOf
      <4>2. QED
        BY <2>1, <3>3, <3>5, <4>1
    <3>6. QED
      BY <3>4, <3>5
  <2>5. QED
    BY <2>3, <2>4
<1>6. ASSUME NEW k \in Keys
      PROVE  Cardinality(Recent(stamps[k])') <= PerHour
  <2>1. Recent(stamps[k])' = After(stamps'[k], now - Window)
    BY DEF Recent, After
  <2>2. Recent(stamps[k]) = After(stamps[k], now - Window) /\ now - Window \in Int
    BY <1>2 DEF Recent, After
  <2>3. Cardinality(Recent(stamps[k])) <= PerHour
    BY DEF BudgetInv
  <2>4. CASE k # key
    BY <1>2, <1>3, <2>1, <2>2, <2>3, <2>4
  <2>5. CASE k = key
    <3> DEFINE mine == After(stamps[k], now - Window)
               nth == Len(stamps[k]) + 1
    <3>1. /\ After(stamps'[k], now - Window) \in {mine, mine \cup {nth}}
          /\ IsFiniteSet(mine) /\ nth \notin mine
      BY <1>2, <1>3, <2>2, <2>5, AfterAppend
    <3>2. Cardinality(mine) < PerHour /\ Cardinality(mine) \in Nat
      <4>1. Cardinality(Recent(stamps[key])) < PerHour
        BY DEF Spend, HasRoom
      <4>2. QED
        BY <2>2, <2>5, <3>1, <4>1, FS_CardinalityType
    <3> HIDE DEF mine, nth
    <3>3. Cardinality(mine \cup {nth}) = Cardinality(mine) + 1
      BY <3>1, FS_AddElement
    <3>4. /\ Cardinality(mine) <= PerHour /\ Cardinality(mine \cup {nth}) <= PerHour
      BY <1>2, <3>2, <3>3
    <3>5. QED
      BY <2>1, <3>1, <3>4
  <2>6. QED
    BY <2>4, <2>5
<1>7. QED
  BY <1>2, <1>3, <1>4, <1>5, <1>6 DEF BudgetInv

\* A request is refused when every key of its budget is full.
LEMMA RefuseInv ==
  ASSUME BudgetInv, NEW budget \in Budgets, Refuse(budget), now' = now,
         \A key \in KeysOf(budget) : ~HasRoom(key)
  PROVE  BudgetInv'
<1>1. UNCHANGED <<stamps, spent, now>> /\ refused' = budget
  BY DEF Refuse
<1>2. \A key \in KeysOf(budget) : Cardinality(Recent(stamps[key])) = PerHour
  <2>1. SUFFICES ASSUME NEW key \in KeysOf(budget)
                 PROVE  Cardinality(Recent(stamps[key])) = PerHour
    OBVIOUS
  <2>2. key \in Keys /\ stamps[key] \in Seq(Nat) /\ now \in Nat
    BY DEF KeysOf, BudgetInv
  <2>3. Cardinality(Recent(stamps[key])) <= PerHour
    BY <2>2 DEF BudgetInv
  <2>4. ~(Cardinality(Recent(stamps[key])) < PerHour)
    BY DEF HasRoom
  <2>5. Cardinality(Recent(stamps[key])) \in Nat
    <3>1. Recent(stamps[key]) \subseteq 1..Len(stamps[key])
      BY <2>2 DEF Recent
    <3>2. IsFiniteSet(Recent(stamps[key]))
      BY <2>2, <3>1, FS_Interval, FS_Subset
    <3>3. QED
      BY <3>2, FS_CardinalityType
  <2>6. QED
    BY <2>3, <2>4, <2>5, LimitsAssumption
<1>3. \A other, second : Cells(other, second)' = Cells(other, second)
  BY <1>1 DEF Cells, KeysOf
<1>4. \A key : Recent(stamps[key])' = Recent(stamps[key])
  BY <1>1 DEF Recent
<1>5. QED
  BY <1>1, <1>2, <1>3, <1>4 DEF BudgetInv

\* Time only takes stamps out of the window.
LEMMA TickInv ==
  ASSUME BudgetInv, BoardTick
  PROVE  BudgetInv'
<1>1. /\ UNCHANGED <<stamps, spent>> /\ now' = now + 1 /\ refused' = None
      /\ now \in Nat /\ Window \in Nat /\ PerHour \in Nat /\ stamps \in [Keys -> Seq(Nat)]
  BY LimitsAssumption DEF BoardTick, BudgetInv
<1>2. ASSUME NEW key \in Keys
      PROVE  Cardinality(Recent(stamps[key])') <= PerHour
  <2>1. stamps[key] \in Seq(Nat) /\ Recent(stamps[key]) \subseteq 1..Len(stamps[key])
    BY <1>1 DEF Recent
  <2>2. IsFiniteSet(Recent(stamps[key]))
    BY <2>1, FS_Interval, FS_Subset
  <2>3. Recent(stamps[key])' \subseteq Recent(stamps[key])
    BY <1>1, <2>1 DEF Recent
  <2>4. /\ Cardinality(Recent(stamps[key])') <= Cardinality(Recent(stamps[key]))
        /\ IsFiniteSet(Recent(stamps[key])')
    BY <2>2, <2>3, FS_Subset
  <2>5. /\ Cardinality(Recent(stamps[key])) \in Nat
        /\ Cardinality(Recent(stamps[key])') \in Nat
    BY <2>2, <2>4, FS_CardinalityType
  <2>6. QED
    BY <1>1, <2>4, <2>5 DEF BudgetInv
<1>3. \A budget, second : Cells(budget, second)' = Cells(budget, second)
  BY <1>1 DEF Cells, KeysOf
<1>4. QED
  BY <1>1, <1>2, <1>3 DEF BudgetInv

\* Init, and what Recycle goes back to.
Fresh ==
    /\ now \in Nat /\ refused = None
    /\ stamps = [key \in Keys |-> <<>>] /\ spent = [budget \in Budgets |-> <<>>]

LEMMA FreshBudgets == Fresh => BudgetInv
<1> SUFFICES ASSUME Fresh PROVE BudgetInv
  OBVIOUS
<1>1. <<>> \in Seq(Nat) /\ \A second : After(<<>>, second) = {}
  BY DEF After
<1>2. \A budget, second : Cells(budget, second) = {}
  BY <1>1 DEF Fresh, Cells, KeysOf
<1>3. \A key \in Keys : Recent(stamps[key]) = {}
  BY <1>1 DEF Fresh, Recent
<1>4. stamps \in [Keys -> Seq(Nat)] /\ spent \in [Budgets -> Seq(Nat)]
  BY <1>1 DEF Fresh
<1>5. PerHour \in Nat /\ \A budget \in Budgets : spent[budget] = <<>>
  BY LimitsAssumption DEF Fresh
<1>6. IsFiniteSet({}) /\ Cardinality({}) = 0 /\ 0 <= PerHour
  BY <1>5, FS_EmptySet
<1>7. QED
  BY <1>1, <1>2, <1>3, <1>4, <1>5, <1>6 DEF Fresh, BudgetInv

\* Of the buckets of a board with room, one is the first.
LEMMA NoFirstNoRoom ==
  ASSUME NEW c, NEW b, FirstRoom(c, b) = {}
  PROVE  \A i \in 1..Buckets : ~HasRoom(<<c, b, i>>)
<1> DEFINE open == {i \in 1..Buckets : HasRoom(<<c, b, i>>)}
<1>1. SUFFICES ASSUME open # {} PROVE FALSE
  OBVIOUS
<1>2. open \subseteq Nat
  BY LimitsAssumption
<1>3. PICK i \in open : \A j \in open : <<j, i>> \notin OpToRel(<, Nat)
  <2>1. IsWellFoundedOn(OpToRel(<, Nat), Nat)
    BY NatLessThanWellFounded
  <2> HIDE DEF OpToRel, open
  <2>2. QED
    BY <1>1, <1>2, <2>1, WFMin
<1>4. \A j \in open : ~(j < i)
  BY <1>2, <1>3 DEF OpToRel
<1>5. i \in FirstRoom(c, b)
  <2>1. i \in 1..Buckets /\ i \in Nat /\ Buckets \in Nat /\ HasRoom(<<c, b, i>>)
    BY <1>2, LimitsAssumption
  <2>2. ASSUME NEW j \in 1..i-1 PROVE ~HasRoom(<<c, b, j>>)
    <3>1. j \in 1..Buckets /\ j < i
      BY <2>1
    <3>2. QED
      BY <1>4, <3>1
  <2>3. QED
    BY <2>1, <2>2 DEF FirstRoom
<1>6. QED
  BY <1>5

LEMMA BudgetNext ==
  ASSUME BudgetInv, [BoardNext]_boardVars
  PROVE  BudgetInv'
<1>1. ASSUME NEW c \in Callers, Spend(<<c>>), now' = now PROVE BudgetInv'
  <2>1. <<c>> \in Keys
    BY DEF Keys, CallerKeys
  <2>2. QED
    BY <1>1, <2>1, SpendInv
<1>2. ASSUME NEW c \in Callers, ~HasRoom(<<c>>), Refuse(<<c>>), now' = now
      PROVE  BudgetInv'
  BY <1>2, BudgetKeys, RefuseInv
<1>3. ASSUME NEW c \in Callers, NEW b \in Boards, SpendBoard(c, b), now' = now
      PROVE  BudgetInv'
  <2>1. CASE FirstRoom(c, b) = {}
    <3>1. Refuse(<<c, b>>)
      BY <1>3, <2>1 DEF SpendBoard
    <3>2. \A key \in KeysOf(<<c, b>>) : ~HasRoom(key)
      BY <2>1, NoFirstNoRoom, BudgetKeys
    <3>3. QED
      BY <1>3, <3>1, <3>2, BudgetKeys, RefuseInv
  <2>2. CASE FirstRoom(c, b) # {}
    <3>1. PICK i \in 1..Buckets : Spend(<<c, b, i>>)
      BY <1>3, <2>2 DEF SpendBoard, FirstRoom
    <3>2. <<c, b, i>> \in Keys
      BY DEF Keys, BoardKeys
    <3>3. QED
      BY <1>3, <3>1, <3>2, SpendInv
  <2>3. QED
    BY <2>1, <2>2
<1>4. ASSUME NEW header \in Headers, PostPlaintext(header) PROVE BudgetInv'
  <2>1. header.by \in Callers /\ now' = now
    BY <1>4 DEF Headers, PostPlaintext
  <2>2. PICK e \in PlaintextToPublish : SpendBoard(header.by, e.board)
    BY <1>4 DEF PostPlaintext
  <2>3. e.board \in Boards
    BY DEF PlaintextToPublish, PlaintextEvents, ValidPlaintext
  <2>4. QED
    BY <1>3, <2>1, <2>2, <2>3
<1>5. ASSUME NEW header \in Headers, PostTide(header) \/ PostAudience(header)
      PROVE  BudgetInv'
  <2>1. header.by \in Callers /\ now' = now
    BY <1>5 DEF Headers, PostTide, PostAudience
  <2>2. \/ ~HasRoom(<<header.by>>) /\ Refuse(<<header.by>>)
        \/ Spend(<<header.by>>)
    BY <1>5 DEF PostTide, PostAudience
  <2>3. QED
    BY <1>1, <1>2, <2>1, <2>2
<1>6. CASE BoardTick
  BY <1>6, TickInv
<1>7. CASE Recycle
  <2>1. /\ now' \in Nat /\ refused' = None /\ DOMAIN stamps = Keys
        /\ spent' = [budget \in Budgets |-> <<>>]
    BY <1>7 DEF Recycle, BudgetInv
  <2>2. stamps' = [key \in Keys |-> <<>>]
    BY <1>7, <2>1 DEF Recycle
  <2>3. QED
    <3>1. Fresh'
      BY <2>1, <2>2 DEF Fresh
    <3>2. (Fresh => BudgetInv)'
      BY FreshBudgets, PTL
    <3>3. QED
      BY <3>1, <3>2
<1>8. CASE UNCHANGED boardVars
  <2>1. UNCHANGED <<now, stamps, spent, refused>>
    BY <1>8 DEF boardVars
  <2>2. \A budget, second : Cells(budget, second)' = Cells(budget, second)
    BY <2>1 DEF Cells, KeysOf
  <2>3. \A key : Recent(stamps[key])' = Recent(stamps[key])
    BY <2>1 DEF Recent
  <2>4. QED
    BY <2>1, <2>2, <2>3 DEF BudgetInv
<1>9. QED
  BY <1>4, <1>5, <1>6, <1>7, <1>8 DEF BoardNext

LEMMA BudgetExact ==
  ASSUME BudgetInv
  PROVE  BudgetIsExact
<1>1. /\ now \in Nat /\ PerHour \in Nat /\ Buckets \in Nat /\ now - Window \in Int
      /\ stamps \in [Keys -> Seq(Nat)]
  BY LimitsAssumption DEF BudgetInv
<1>2. \A budget \in Budgets :
         /\ IsFiniteSet(KeysOf(budget))
         /\ Cardinality(KeysOf(budget)) * PerHour = Slots(budget)
  <2>1. ASSUME NEW c \in Callers, NEW b \in Boards
        PROVE  /\ IsFiniteSet(KeysOf(<<c, b>>)) /\ Cardinality(KeysOf(<<c, b>>)) = Buckets
               /\ Slots(<<c, b>>) = Buckets * PerHour
    <3> DEFINE K == {<<c, b, i>> : i \in 1..Buckets}
               f == [i \in 1..Buckets |-> <<c, b, i>>]
    <3>1. f \in [1..Buckets -> K] /\ \A k \in K : \E i \in 1..Buckets : f[i] = k
      OBVIOUS
    <3>2. \A i, j \in 1..Buckets : f[i] = f[j] => i = j
      OBVIOUS
    <3> HIDE DEF K, f
    <3>3. ExistsBijection(1..Buckets, K)
      BY <3>1, <3>2 DEF ExistsBijection, Bijection, Injection, Surjection, IsInjective
    <3>4. IsFiniteSet(1..Buckets) /\ Cardinality(1..Buckets) = Buckets
      BY <1>1, FS_Interval
    <3>5. IsFiniteSet(K) /\ Cardinality(K) = Buckets
      BY <3>3, <3>4, FS_Bijection
    <3>6. Len(<<c, b>>) = 2
      OBVIOUS
    <3>7. QED
      BY <3>5, <3>6, BudgetKeys DEF K, Slots
  <2>2. ASSUME NEW c \in Callers
        PROVE  /\ IsFiniteSet(KeysOf(<<c>>)) /\ Cardinality(KeysOf(<<c>>)) = 1
               /\ Slots(<<c>>) = PerHour
    <3>1. Len(<<c>>) = 1
      OBVIOUS
    <3>2. Slots(<<c>>) = PerHour
      BY <3>1 DEF Slots
    <3>3. KeysOf(<<c>>) = {<<c>>}
      BY BudgetKeys
    <3>4. IsFiniteSet({<<c>>}) /\ Cardinality({<<c>>}) = 1
      BY FS_Singleton
    <3>5. QED
      BY <3>2, <3>3, <3>4
  <2>3. QED
    BY <1>1, <2>1, <2>2, BudgetKeys
<1>3. ASSUME NEW budget \in Budgets
      PROVE  /\ InWindow(spent[budget]) <= Slots(budget)
             /\ (\A key \in KeysOf(budget) : Cardinality(Recent(stamps[key])) = PerHour)
                   => InWindow(spent[budget]) = Slots(budget)
  <2> DEFINE K == KeysOf(budget)
             S == [key \in K |-> Recent(stamps[key])]
             C == {cell \in K \X Nat : cell[2] \in S[cell[1]]}
  <2>1. \A key \in K : /\ S[key] = Recent(stamps[key]) /\ S[key] = After(stamps[key], now - Window)
                       /\ S[key] \subseteq Nat /\ IsFiniteSet(S[key]) /\ Cardinality(S[key]) <= PerHour
    <3>1. SUFFICES ASSUME NEW key \in K
                   PROVE  /\ Recent(stamps[key]) = After(stamps[key], now - Window)
                          /\ Recent(stamps[key]) \subseteq Nat
                          /\ IsFiniteSet(Recent(stamps[key]))
                          /\ Cardinality(Recent(stamps[key])) <= PerHour
      OBVIOUS
    <3>2. key \in Keys /\ stamps[key] \in Seq(Nat)
      BY <1>1 DEF KeysOf
    <3>3. Recent(stamps[key]) = After(stamps[key], now - Window)
      BY DEF Recent, After
    <3>4. Recent(stamps[key]) \subseteq Nat
      BY <3>2 DEF Recent
    <3>5. QED
      BY <1>1, <3>2, <3>3, <3>4, AfterAppend DEF BudgetInv
  <2>2. C = Cells(budget, now - Window)
    BY <2>1 DEF Cells
  <2>3. InWindow(spent[budget]) = Cardinality(After(spent[budget], now - Window))
    BY DEF InWindow, After
  <2>4. Cardinality(C) = InWindow(spent[budget])
    BY <1>1, <2>2, <2>3 DEF BudgetInv
  <2>5. IsFiniteSet(K) /\ Cardinality(K) * PerHour = Slots(budget)
    BY <1>2
  <2> HIDE DEF K, S
  <2>6. /\ Cardinality(C) <= Cardinality(K) * PerHour
        /\ (\A key \in K : Cardinality(S[key]) = PerHour) => Cardinality(C) = Cardinality(K) * PerHour
    BY <1>1, <2>1, <2>5, CountCells
  <2> HIDE DEF C
  <2>7. QED
    BY <2>1, <2>4, <2>5, <2>6 DEF K
<1>4. QED
  BY <1>3 DEF BudgetIsExact, BudgetInv

\* The budgets of the kanban and signed routes are exact: over any window a
\* caller gets PerHour slots of its own and Buckets * PerHour of each board
\* (10 x 60), never more; and a request is answered 429 only when all of them
\* are used (rateLimitCheck, spendBoardBudget).
THEOREM BudgetAlwaysExact == BoardSpec => []BudgetIsExact
<1>1. BoardInit => BudgetInv
  <2> SUFFICES ASSUME BoardInit PROVE BudgetInv
    OBVIOUS
  <2>1. Fresh
    BY DEF BoardInit, Fresh, Keys
  <2>2. QED
    BY <2>1, FreshBudgets
<1>2. BudgetInv /\ [BoardNext]_boardVars => BudgetInv'
  BY BudgetNext
<1>3. BudgetInv => BudgetIsExact
  BY BudgetExact
<1>4. QED
  BY <1>1, <1>2, <1>3, PTL DEF BoardSpec

\* What the two signed routes may publish.
Publishable == PlaintextToPublish \cup TidesToPublish

\* The relays hold nothing but what the routes let through.
RelayInv == \A p \in relay : p.event \in Publishable /\ p.at \in Nat

\* No two entities collapse onto one address: the d tag of a board, a sprint
\* or a tide is pinned to what the event speaks of, and ids tell boards from
\* sprints.
LEMMA OneEntityPerAddress ==
  ASSUME NEW p, NEW q, p.event \in Publishable, q.event \in Publishable,
         Address(p) = Address(q)
  PROVE  Entity(p.event) = Entity(q.event)
<1> DEFINE d == p.event
           e == q.event
<1>1. /\ \/ d \in PlaintextEvents /\ ValidPlaintext(d)
         \/ d \in TideEvents /\ ValidTide(d)
      /\ \/ e \in PlaintextEvents /\ ValidPlaintext(e)
         \/ e \in TideEvents /\ ValidTide(e)
  BY DEF Publishable, PlaintextToPublish, TidesToPublish
<1>2. \A x : /\ x \in PlaintextEvents =>
                   x.kind \in {"board", "issue", "comment", "status", "sprint"}
             /\ x \in TideEvents => x.kind = "tide"
  BY DEF PlaintextEvents, PlaintextKinds, TideEvents
<1>3. d.kind = e.kind /\ d.id = e.id /\ (d.kind = "tide" => d.idDay = e.idDay)
  <2>1. \A x, y, z, u, v, w, t : <<x, y, z, t>> # <<u, v, w>>
    <3>1. SUFFICES ASSUME NEW x, NEW y, NEW z, NEW u, NEW v, NEW w, NEW t,
                          <<x, y, z, t>> = <<u, v, w>>
                   PROVE  FALSE
      OBVIOUS
    <3>2. Len(<<x, y, z, t>>) = 4 /\ Len(<<u, v, w>>) = 3
      OBVIOUS
    <3>3. QED
      BY <3>1, <3>2
  <2>2. CASE d.kind = "tide" /\ e.kind = "tide"
    BY <2>2 DEF Address
  <2>3. CASE d.kind # "tide" /\ e.kind # "tide"
    BY <2>3 DEF Address
  <2>4. CASE (d.kind = "tide") # (e.kind = "tide")
    BY <2>1, <2>4 DEF Address
  <2>5. QED
    BY <2>2, <2>3, <2>4
<1>4. CASE d.kind = "tide"
  <2>1. /\ d \in TideEvents /\ ValidTide(d)
        /\ e \in TideEvents /\ ValidTide(e)
    BY <1>1, <1>2, <1>3, <1>4
  <2>2. d.day = e.day
    BY <1>3, <1>4, <2>1 DEF ValidTide
  <2>3. ASSUME NEW x \in TideEvents, ValidTide(x)
        PROVE  /\ x.id = Subject(x)
               /\ \/ x.scope = "sprint" /\ x.id \in Sprints
                  \/ x.scope = "board" /\ x.id \in Boards
    BY <2>3 DEF TideEvents, ValidTide, Subject
  <2>4. Subject(d) = Subject(e) /\ d.scope = e.scope
    BY <1>3, <2>1, <2>3, DistinctAssumption
  <2>5. QED
    BY <1>3, <1>4, <2>2, <2>4 DEF Entity
<1>5. CASE d.kind # "tide"
  <2>1. /\ d \in PlaintextEvents /\ ValidPlaintext(d)
        /\ e \in PlaintextEvents /\ ValidPlaintext(e)
    BY <1>1, <1>2, <1>3, <1>5
  <2>2. PinnedId(d) = PinnedId(e)
    BY <1>3, <2>1 DEF ValidPlaintext
  <2>3. QED
    BY <1>2, <1>3, <2>1, <2>2 DEF Entity, PinnedId
<1>6. QED
  BY <1>4, <1>5

\* What a relay drops for a post has its address and is not newer.
LEMMA PublishCorrects ==
  ASSUME RelayInv, NEW p, p.event \in Publishable, p.at \in Nat, Publish(p)
  PROVE  /\ RelayInv'
         /\ \A r \in relay \ relay' :
               \E q \in relay' : /\ Address(q) = Address(r)
                                 /\ Entity(q.event) = Entity(r.event)
                                 /\ q.at >= r.at
<1> DEFINE rivals == {q \in relay : Address(q) = Address(p)}
<1>1. \/ relay' = relay
      \/ relay' = (relay \ rivals) \cup {p} /\ \A q \in rivals : ~(q.at > p.at)
  BY DEF Publish, Kept
<1>2. RelayInv'
  BY <1>1 DEF RelayInv
<1>3. ASSUME NEW r \in relay \ relay'
      PROVE  \E q \in relay' : /\ Address(q) = Address(r)
                               /\ Entity(q.event) = Entity(r.event)
                               /\ q.at >= r.at
  <2>1. p \in relay' /\ Address(p) = Address(r) /\ ~(r.at > p.at)
    BY <1>1, <1>3
  <2>2. r.event \in Publishable /\ r.at \in Nat
    BY <1>3 DEF RelayInv
  <2>3. Entity(p.event) = Entity(r.event)
    BY <2>1, <2>2, OneEntityPerAddress
  <2>4. p.at >= r.at
    BY <2>1, <2>2
  <2>5. QED
    BY <2>1, <2>3, <2>4
<1>4. QED
  BY <1>2, <1>3

\* Every other step leaves the relays alone.
LEMMA RelayStep ==
  ASSUME [BoardNext]_boardVars
  PROVE  \/ relay' = relay
         \/ \E p : p.event \in Publishable /\ p.at \in Nat /\ Publish(p)
<1>1. ASSUME NEW header \in Headers, PostPlaintext(header), relay' # relay
      PROVE  \E p : p.event \in Publishable /\ p.at \in Nat /\ Publish(p)
  <2>1. PICK e \in PlaintextToPublish, at \in SignedAt :
           Publish(Dated(e, header.by, at))
    BY <1>1 DEF PostPlaintext
  <2>2. Dated(e, header.by, at).event \in Publishable
        /\ Dated(e, header.by, at).at \in Nat
    BY DEF Publishable, Dated, SignedAt
  <2>3. QED
    BY <2>1, <2>2
<1>2. ASSUME NEW header \in Headers, PostTide(header), relay' # relay
      PROVE  \E p : p.event \in Publishable /\ p.at \in Nat /\ Publish(p)
  <2>1. PICK e \in TidesToPublish, at \in SignedAt :
           Publish(Dated(e, header.by, at))
    BY <1>2 DEF PostTide
  <2>2. Dated(e, header.by, at).event \in Publishable
        /\ Dated(e, header.by, at).at \in Nat
    BY DEF Publishable, Dated, SignedAt
  <2>3. QED
    BY <2>1, <2>2
<1>3. ASSUME NEW header \in Headers, PostAudience(header) PROVE relay' = relay
  BY <1>3 DEF PostAudience
<1>4. BoardTick \/ Recycle \/ UNCHANGED boardVars => relay' = relay
  BY DEF BoardTick, Recycle, boardVars
<1>5. QED
  BY <1>1, <1>2, <1>3, <1>4 DEF BoardNext

\* A republish corrects the entity it speaks of: a post replaces, on a relay,
\* only posts about the same board, sprint, issue, comment or tide day, none
\* of them newer (the d tags validateKanbanPlaintextEvent and
\* validateKanbanTideEvent pin).
THEOREM RepublishAlwaysCorrects == BoardSpec => RepublishCorrects
<1> DEFINE Corrects ==
             \A p \in relay \ relay' :
                \E q \in relay' : /\ Address(q) = Address(p)
                                  /\ Entity(q.event) = Entity(p.event)
                                  /\ q.at >= p.at
<1>1. BoardInit => RelayInv
  BY DEF BoardInit, RelayInv
<1>2. RelayInv /\ [BoardNext]_boardVars => RelayInv' /\ Corrects
  <2> SUFFICES ASSUME RelayInv, [BoardNext]_boardVars PROVE RelayInv' /\ Corrects
    OBVIOUS
  <2>1. CASE relay' = relay
    BY <2>1 DEF RelayInv
  <2>2. CASE \E p : p.event \in Publishable /\ p.at \in Nat /\ Publish(p)
    <3> HIDE DEF Publishable
    <3>1. QED
      BY <2>2, PublishCorrects
  <2>3. QED
    BY <2>1, <2>2, RelayStep
<1>3. QED
  BY <1>1, <1>2, PTL DEF BoardSpec, RepublishCorrects

-----------------------------------------------------------------------------
(* Sessions: what the tokens and the sessions say of who signed in.         *)

USE NatAssumption, AllowlistAssumption, ClientsAssumption, NoneAssumption

\* The client is known and the URI is one of its own.
Grounded(token) ==
    token.client # None =>
        /\ KnownClient(token.client, "none")
        /\ token.uri \in UrisOf(token.client)
        /\ token.uri \in Allowlist

SignedIn(k, token) == k.user = token.user /\ k.client = token.client /\ k.uri = token.uri

\* The sign-in of a code, and that of a token it was exchanged for.
CodeOf(k, code) ==
    /\ SignedIn(k, code) /\ k.challenge = code.challenge
    /\ code.exp <= k.at + CodeTtl

TokenOf(k, j) ==
    /\ SignedIn(k, j) /\ (k.challenge # None => j.verifier = k.challenge)
    /\ j.exp <= k.at + CodeTtl + JwtTtl

RegisteredOK == \A c \in DcrClients : registered[c] # None => registered[c] \subseteq Allowlist

\* A state of the direct flow carries nothing of a client's.
OfOneFlow(st) == st.client = None => st.uri = None /\ st.challenge = None

StatesOK == \A st \in states : Grounded(st) /\ OfOneFlow(st)

CodesOK ==
    \A code \in codes :
        /\ code.client # None /\ Grounded(code)
        /\ \E k \in consents : CodeOf(k, code)

JwtsOK ==
    \A j \in jwts :
        /\ Grounded(j)
        /\ \E k \in consents : TokenOf(k, j)

SessionsOK ==
    \A s \in SessionIds :
        IF session[s] = NoSession THEN presented[s] = None
        ELSE presented[s] \in jwts /\ presented[s].user = session[s].claims

PostsOK ==
    \A p \in Posts : post[p].pc \in {"run", "emit"} =>
        /\ post[p].session \in SessionIds /\ session[post[p].session] # NoSession
        /\ post[p].todo # <<>>

ActsOK == \A a \in acts : a.token \in jwts /\ a.key[1] = a.token.user

ConsentInv ==
    /\ TypeOK
    /\ RegisteredOK /\ StatesOK /\ CodesOK /\ JwtsOK
    /\ SessionsOK /\ PostsOK /\ ActsOK

\* A client that is known stays known, under the same URIs.
LEMMA GroundedKept ==
  ASSUME NEW token, Grounded(token),
         \A c \in DcrClients : registered[c] # None => registered'[c] = registered[c]
  PROVE  Grounded(token)'
  BY DEF Grounded, KnownClient, UrisOf

\* Sign-ins are never forgotten; tokens are only added.
TokensGrow ==
    /\ consents \in SUBSET consents' /\ jwts \in SUBSET jwts'
    /\ \A c \in DcrClients : registered[c] # None => registered'[c] = registered[c]

HubSame == UNCHANGED <<session, post, presented, acts, evictions>>
TokensSame == UNCHANGED <<registered, states, codes, jwts, consents>>

LEMMA HubUntouched ==
  ASSUME ConsentInv, HubSame, jwts \in SUBSET jwts'
  PROVE  SessionsOK' /\ PostsOK' /\ ActsOK'
  BY DEF ConsentInv, HubSame, SessionsOK, PostsOK, ActsOK, NoSession

LEMMA TokensUntouched ==
  ASSUME ConsentInv, TokensSame
  PROVE  RegisteredOK' /\ StatesOK' /\ CodesOK' /\ JwtsOK'
<1>1. \A token : Grounded(token) => Grounded(token)'
  BY GroundedKept DEF TokensSame
<1>2. RegisteredOK'
  BY DEF ConsentInv, RegisteredOK, TokensSame
<1>3. StatesOK'
  BY <1>1 DEF ConsentInv, StatesOK, OfOneFlow, TokensSame
<1>4. CodesOK'
  BY <1>1 DEF ConsentInv, CodesOK, CodeOf, SignedIn, TokensSame
<1>5. JwtsOK'
  BY <1>1 DEF ConsentInv, JwtsOK, TokenOf, SignedIn, TokensSame
<1>6. QED
  BY <1>2, <1>3, <1>4, <1>5

-----------------------------------------------------------------------------
(* The authorization server.                                               *)

LEMMA RegisterConsent ==
  ASSUME ConsentInv, NEW c \in DcrClients, NEW uris \in SUBSET Uris, Register(c, uris)
  PROVE  ConsentInv'
<1>1. /\ registered[c] = None /\ uris \subseteq Allowlist /\ registered' = [registered EXCEPT ![c] = uris]
      /\ UNCHANGED <<now, states, codes, jwts, consents>> /\ HubSame
  BY DEF Register, hub, HubSame
<1>2. registered \in [DcrClients -> (SUBSET Uris) \cup {None}]
  BY DEF ConsentInv, TypeOK
<1>3. TypeOK'
  <2>1. registered' \in [DcrClients -> (SUBSET Uris) \cup {None}]
    BY <1>1, <1>2
  <2>2. QED
    BY <1>1, <2>1 DEF ConsentInv, TypeOK, HubSame
<1>4. \A d \in DcrClients : registered[d] # None => registered'[d] = registered[d]
  BY <1>1, <1>2
<1>5. \A token : Grounded(token) => Grounded(token)'
  BY <1>4, GroundedKept
<1>6. RegisteredOK'
  BY <1>1, <1>2 DEF ConsentInv, RegisteredOK
<1>7. StatesOK'
  BY <1>1, <1>5 DEF ConsentInv, StatesOK, OfOneFlow
<1>8. CodesOK'
  BY <1>1, <1>5 DEF ConsentInv, CodesOK, CodeOf, SignedIn
<1>9. JwtsOK'
  BY <1>1, <1>5 DEF ConsentInv, JwtsOK, TokenOf, SignedIn
<1>10. QED
  BY <1>1, <1>3, <1>6, <1>7, <1>8, <1>9, HubUntouched DEF ConsentInv, TokensSame

\* A state token is added.
LEMMA StartConsent ==
  ASSUME ConsentInv,
         \/ \E provider \in Providers : StartDirect(provider)
         \/ \E provider \in Providers, c \in Clients, uri \in Uris, challenge \in Challenges \cup {None} :
               StartFor(provider, c, uri, challenge)
  PROVE  ConsentInv'
<1>1. /\ UNCHANGED <<now, registered, codes, jwts, consents>> /\ HubSame
      /\ \E st \in [provider: Providers, client: Clients \cup {None}, uri: Uris \cup {None},
                    challenge: Challenges \cup {None}, exp: Nat] :
            states' = states \cup {st} /\ Grounded(st) /\ OfOneFlow(st)
  <2>1. now \in Nat /\ now + StateTtl \in Nat
    BY DEF ConsentInv, TypeOK
  <2>2. ASSUME NEW provider \in Providers, StartDirect(provider) PROVE <1>1!:
    <3> DEFINE st == [provider |-> provider, client |-> None, uri |-> None,
                      challenge |-> None, exp |-> now + StateTtl]
    <3>1. /\ states' = states \cup {st}
          /\ UNCHANGED <<now, registered, codes, jwts, consents>> /\ HubSame
      BY <2>2 DEF StartDirect, hub, HubSame
    <3>2. st \in [provider: Providers, client: Clients \cup {None}, uri: Uris \cup {None},
                  challenge: Challenges \cup {None}, exp: Nat]
      BY <2>1
    <3>3. Grounded(st) /\ OfOneFlow(st)
      BY DEF Grounded, OfOneFlow
    <3> HIDE DEF st
    <3>4. QED
      BY <3>1, <3>2, <3>3
  <2>3. ASSUME NEW provider \in Providers, NEW c \in Clients, NEW uri \in Uris,
               NEW challenge \in Challenges \cup {None}, StartFor(provider, c, uri, challenge)
        PROVE  <1>1!:
    <3> DEFINE st == [provider |-> provider, client |-> c, uri |-> uri,
                      challenge |-> challenge, exp |-> now + StateTtl]
    <3>1. /\ states' = states \cup {st} /\ KnownClient(c, "none") /\ uri \in UrisOf(c)
          /\ UNCHANGED <<now, registered, codes, jwts, consents>> /\ HubSame
      BY <2>3 DEF StartFor, hub, HubSame
    <3>2. st \in [provider: Providers, client: Clients \cup {None}, uri: Uris \cup {None},
                  challenge: Challenges \cup {None}, exp: Nat]
      BY <2>1
    <3>3. uri \in Allowlist
      BY <3>1 DEF ConsentInv, RegisteredOK, KnownClient, UrisOf
    <3>4. Grounded(st) /\ OfOneFlow(st)
      BY <3>1, <3>3 DEF Grounded, OfOneFlow, Clients
    <3> HIDE DEF st
    <3>5. QED
      BY <3>1, <3>2, <3>4
  <2>4. QED
    BY <2>2, <2>3
<1>2. PICK st \in [provider: Providers, client: Clients \cup {None}, uri: Uris \cup {None},
                   challenge: Challenges \cup {None}, exp: Nat] :
         states' = states \cup {st} /\ Grounded(st) /\ OfOneFlow(st)
  BY <1>1
<1>3. TypeOK'
  BY <1>1, <1>2 DEF ConsentInv, TypeOK, HubSame
<1>4. \A token : Grounded(token) => Grounded(token)'
  BY <1>1, GroundedKept
<1>5. RegisteredOK'
  BY <1>1 DEF ConsentInv, RegisteredOK
<1>6. StatesOK'
  BY <1>2, <1>4 DEF ConsentInv, StatesOK, OfOneFlow
<1>7. CodesOK'
  BY <1>1, <1>4 DEF ConsentInv, CodesOK, CodeOf, SignedIn
<1>8. JwtsOK'
  BY <1>1, <1>4 DEF ConsentInv, JwtsOK, TokenOf, SignedIn
<1>9. QED
  BY <1>1, <1>3, <1>5, <1>6, <1>7, <1>8, HubUntouched DEF ConsentInv, TokensSame

Code ==
    [user: Users, client: Clients \cup {None}, uri: Uris \cup {None},
     challenge: Challenges \cup {None}, exp: Nat]
Token ==
    [user: Users, client: Clients \cup {None}, uri: Uris \cup {None},
     verifier: Challenges \cup {None}, exp: Nat]

\* What the sessions were given stays among the tokens when one is added.
HubTyped ==
    /\ presented \in [SessionIds -> jwts \cup {None}]
    /\ acts \subseteq [session: SessionIds, key: Users \X (0..MaxDeriveRetries), token: jwts]

LEMMA HubTypedGrows ==
  ASSUME ConsentInv, HubSame, jwts \in SUBSET jwts'
  PROVE  HubTyped'
  BY DEF ConsentInv, TypeOK, HubTyped, HubSame

\* A code or a token is added for a user who signs in now, or did: each code
\* and token keeps its sign-in.
LEMMA MintedConsent ==
  ASSUME ConsentInv, TypeOK', TokensGrow, HubSame, states' = states, registered' = registered,
         \A code \in codes' \ codes :
            /\ code.client # None /\ Grounded(code)
            /\ \E k \in consents' : CodeOf(k, code),
         \A j \in jwts' \ jwts :
            /\ Grounded(j)
            /\ \E k \in consents' : TokenOf(k, j)
  PROVE  ConsentInv'
<1>1. \A token : Grounded(token) => Grounded(token)'
  BY GroundedKept
<1>2. RegisteredOK'
  BY DEF ConsentInv, RegisteredOK
<1>3. StatesOK'
  BY <1>1 DEF ConsentInv, StatesOK, OfOneFlow
<1>4. CodesOK'
  <2>1. ASSUME NEW code \in codes'
        PROVE  /\ code.client # None /\ Grounded(code)
               /\ \E k \in consents' : CodeOf(k, code)
    <3>1. CASE code \in codes
      BY <3>1 DEF ConsentInv, CodesOK, TokensGrow
    <3>2. CASE code \notin codes
      BY <2>1, <3>2
    <3>3. QED
      BY <3>1, <3>2
  <2>2. QED
    BY <1>1, <2>1 DEF CodesOK, CodeOf, SignedIn
<1>5. JwtsOK'
  <2>1. ASSUME NEW j \in jwts'
        PROVE  /\ Grounded(j)
               /\ \E k \in consents' : TokenOf(k, j)
    <3>1. CASE j \in jwts
      BY <3>1 DEF ConsentInv, JwtsOK, TokensGrow
    <3>2. CASE j \notin jwts
      BY <2>1, <3>2
    <3>3. QED
      BY <3>1, <3>2
  <2>2. QED
    BY <1>1, <2>1 DEF JwtsOK, TokenOf, SignedIn
<1>6. QED
  BY <1>2, <1>3, <1>4, <1>5, HubUntouched DEF ConsentInv, TokensGrow

LEMMA CallbackConsent ==
  ASSUME ConsentInv, NEW st \in states, NEW provider \in Providers, NEW user \in Users,
         Callback(st, provider, user)
  PROVE  ConsentInv'
<1> DEFINE consent == [user |-> user, client |-> st.client, uri |-> st.uri,
                       challenge |-> st.challenge, at |-> now]
           code == [user |-> user, client |-> st.client, uri |-> st.uri,
                    challenge |-> st.challenge, exp |-> now + CodeTtl]
           jwt == [user |-> user, client |-> None, uri |-> None, verifier |-> None, exp |-> now + JwtTtl]
<1>1. /\ consents' = consents \cup {consent} /\ UNCHANGED <<now, registered, states>> /\ HubSame
      /\ \/ st.client # None /\ codes' = codes \cup {code} /\ jwts' = jwts
         \/ st.client = None /\ jwts' = jwts \cup {jwt} /\ codes' = codes
  BY DEF Callback, Jwt, hub, HubSame
<1>2. /\ st.client \in Clients \cup {None} /\ st.uri \in Uris \cup {None}
      /\ st.challenge \in Challenges \cup {None}
      /\ now \in Nat /\ now + CodeTtl \in Nat /\ now + JwtTtl \in Nat /\ CodeTtl \in Nat /\ JwtTtl \in Nat
      /\ Grounded(st) /\ OfOneFlow(st)
  BY DEF ConsentInv, TypeOK, StatesOK
<1>3. TokensGrow
  BY <1>1 DEF TokensGrow
<1>4. TypeOK'
  <2>1. code \in Code /\ jwt \in Token
    BY <1>2 DEF Code, Token
  <2>2. consent \in [user: Users, client: Clients \cup {None}, uri: Uris \cup {None},
                     challenge: Challenges \cup {None}, at: Nat]
    BY <1>2
  <2> HIDE DEF code, jwt, consent
  <2>3. codes' \in SUBSET Code /\ jwts' \in SUBSET Token /\ jwts \in SUBSET jwts'
    BY <1>1, <2>1 DEF ConsentInv, TypeOK, Code, Token
  <2>4. consents' \subseteq [user: Users, client: Clients \cup {None}, uri: Uris \cup {None},
                             challenge: Challenges \cup {None}, at: Nat]
    BY <1>1, <2>2 DEF ConsentInv, TypeOK
  <2>5. HubTyped'
    BY <1>1, <2>3, HubTypedGrows
  <2>6. QED
    BY <1>1, <2>3, <2>4, <2>5 DEF ConsentInv, TypeOK, HubTyped, Code, Token, HubSame
<1>5. ASSUME NEW c \in codes' \ codes
      PROVE  /\ c.client # None /\ Grounded(c)
             /\ \E k \in consents' : CodeOf(k, c)
  <2>1. c = code /\ st.client # None
    BY <1>1, <1>5
  <2>2. Grounded(code)
    BY <1>2 DEF Grounded
  <2>3. CodeOf(consent, code)
    BY <1>2 DEF CodeOf, SignedIn
  <2>4. consent \in consents'
    BY <1>1
  <2>5. code.client = st.client
    OBVIOUS
  <2> HIDE DEF code, consent
  <2>6. QED
    BY <2>1, <2>2, <2>3, <2>4, <2>5
<1>6. ASSUME NEW j \in jwts' \ jwts
      PROVE  /\ Grounded(j)
             /\ \E k \in consents' : TokenOf(k, j)
  <2>1. j = jwt /\ st.client = None
    BY <1>1, <1>6
  <2>2. Grounded(jwt)
    BY DEF Grounded
  <2>3. TokenOf(consent, jwt)
    BY <1>2, <2>1 DEF TokenOf, SignedIn, OfOneFlow
  <2>4. consent \in consents'
    BY <1>1
  <2> HIDE DEF jwt, consent
  <2>5. QED
    BY <2>1, <2>2, <2>3, <2>4
<1>7. QED
  BY <1>1, <1>3, <1>4, <1>5, <1>6, MintedConsent

LEMMA ExchangeConsent ==
  ASSUME ConsentInv, NEW code \in codes, NEW c \in Clients, NEW secret, NEW uri \in Uris,
         NEW verifier \in Challenges \cup {None}, Exchange(code, c, secret, uri, verifier)
  PROVE  ConsentInv'
<1> DEFINE jwt == [user |-> code.user, client |-> c, uri |-> uri, verifier |-> verifier,
                   exp |-> now + JwtTtl]
<1>1. /\ now < code.exp /\ code.uri = uri /\ code.client = c
      /\ code.challenge # None => verifier = code.challenge
      /\ jwts' = jwts \cup {jwt} /\ UNCHANGED <<now, registered, states, codes, consents>> /\ HubSame
  BY DEF Exchange, Jwt, Valid, hub, HubSame
<1>2. /\ code.user \in Users /\ code.challenge \in Challenges \cup {None} /\ code.exp \in Nat
      /\ now \in Nat /\ now + JwtTtl \in Nat /\ CodeTtl \in Nat /\ JwtTtl \in Nat
  BY DEF ConsentInv, TypeOK
<1>3. TokensGrow
  BY <1>1 DEF TokensGrow
<1>4. TypeOK'
  <2>1. jwt \in Token
    BY <1>2 DEF Token
  <2> HIDE DEF jwt
  <2>2. jwts' \in SUBSET Token /\ jwts \in SUBSET jwts'
    BY <1>1, <2>1 DEF ConsentInv, TypeOK, Token
  <2>3. HubTyped'
    BY <1>1, <2>2, HubTypedGrows
  <2>4. QED
    BY <1>1, <2>2, <2>3 DEF ConsentInv, TypeOK, HubTyped, Token, HubSame
<1>5. PICK k \in consents : CodeOf(k, code)
  BY DEF ConsentInv, CodesOK
<1>6. k.at \in Nat
  BY DEF ConsentInv, TypeOK
<1>7. ASSUME NEW j \in jwts' \ jwts
      PROVE  /\ Grounded(j)
             /\ \E l \in consents' : TokenOf(l, j)
  <2>1. j = jwt
    BY <1>1, <1>7
  <2>2. Grounded(jwt)
    BY <1>1 DEF ConsentInv, CodesOK, Grounded
  <2>3. SignedIn(k, jwt) /\ (k.challenge # None => jwt.verifier = k.challenge)
    BY <1>1, <1>5 DEF CodeOf, SignedIn
  <2>4. jwt.exp <= k.at + CodeTtl + JwtTtl
    BY <1>1, <1>2, <1>5, <1>6 DEF CodeOf
  <2> HIDE DEF jwt
  <2>5. QED
    BY <1>1, <2>1, <2>2, <2>3, <2>4 DEF TokenOf
<1>8. QED
  BY <1>1, <1>3, <1>4, <1>7, MintedConsent

-----------------------------------------------------------------------------
(* The hub.                                                                *)

Sessions == [listed: BOOLEAN, claims: Users \cup {None},
             wire: {"none", "up", "cut", "silent", "closed"}]
Requests == [pc: {"none", "refused", "run", "emit", "done", "lost"}, session: SessionIds \cup {None},
             todo: Seq(Message), asked: Nat, answered: Nat]

LEMMA HubKnown ==
  ASSUME ConsentInv
  PROVE  /\ now \in Nat /\ evictions \in Nat
         /\ session \in [SessionIds -> Sessions] /\ post \in [Posts -> Requests]
         /\ presented \in [SessionIds -> jwts \cup {None}]
         /\ \A j \in jwts : j.user \in Users
  BY DEF ConsentInv, TypeOK, Sessions, Requests

\* A step of the hub that only ends or cuts sessions: who they stand for stays.
LEMMA SessionEnds ==
  ASSUME ConsentInv, TokensSame, UNCHANGED <<now, presented, acts>>,
         evictions' \in Nat, session' \in [SessionIds -> Sessions], post' \in [Posts -> Requests],
         \A s \in SessionIds : IF session[s] = NoSession THEN session'[s] = NoSession
                               ELSE session'[s] # NoSession /\ session'[s].claims = session[s].claims,
         \A p \in Posts : post'[p].pc \in {"run", "emit"} => post'[p] = post[p]
  PROVE  ConsentInv'
<1>1. TypeOK'
  BY DEF ConsentInv, TypeOK, Sessions, Requests, TokensSame
<1>2. SessionsOK'
  <2>1. NoSession' = NoSession
    BY DEF NoSession
  <2>2. QED
    BY <2>1 DEF ConsentInv, SessionsOK, TokensSame
<1>3. PostsOK'
  <2>1. NoSession' = NoSession
    BY DEF NoSession
  <2>2. QED
    BY <2>1 DEF ConsentInv, PostsOK
<1>4. ActsOK'
  BY DEF ConsentInv, ActsOK, TokensSame
<1>5. QED
  BY <1>1, <1>2, <1>3, <1>4, TokensUntouched DEF ConsentInv

LEMMA SessionEndsConsent ==
  ASSUME ConsentInv,
         \/ \E s \in SessionIds : \/ \E wire \in {"cut", "silent"} : Hangup(s, wire)
                                  \/ Abort(s) \/ Heartbeat(s)
         \/ Evict
  PROVE  ConsentInv'
<1>1. /\ session \in [SessionIds -> Sessions] /\ post \in [Posts -> Requests] /\ evictions \in Nat
  BY HubKnown
<1>2. \A x \in Sessions : /\ Closed(x) \in Sessions /\ Closed(x) # NoSession
                          /\ Closed(x).claims = x.claims
  BY DEF Closed, Sessions, NoSession
<1>3. ASSUME NEW s \in SessionIds, NEW wire \in {"cut", "silent"}, Hangup(s, wire) PROVE ConsentInv'
  <2> DEFINE x == [session[s] EXCEPT !.wire = wire]
  <2>1. /\ session[s].wire = "up" /\ session' = [session EXCEPT ![s] = x]
        /\ UNCHANGED <<now, post, presented, acts, evictions>> /\ TokensSame
    BY <1>1, <1>3 DEF Hangup, tokens, TokensSame
  <2>2. x \in Sessions /\ x # NoSession /\ x.claims = session[s].claims /\ session[s] # NoSession
    BY <1>1, <2>1 DEF Sessions, NoSession
  <2> HIDE DEF x
  <2>3. QED
    BY <1>1, <2>1, <2>2, SessionEnds
<1>4. ASSUME NEW s \in SessionIds, Abort(s) \/ Heartbeat(s) PROVE ConsentInv'
  <2>1. /\ session[s].wire = "cut" /\ session' = [session EXCEPT ![s] = Closed(session[s])]
        /\ UNCHANGED <<now, post, presented, acts, evictions>> /\ TokensSame
    BY <1>1, <1>4 DEF Abort, Heartbeat, tokens, TokensSame
  <2>2. session[s] # NoSession
    BY <2>1 DEF NoSession
  <2>3. QED
    BY <1>1, <1>2, <2>1, <2>2, SessionEnds
<1>5. CASE Evict
  <2>1. /\ evictions' = evictions + 1 /\ UNCHANGED <<now, presented, acts>> /\ TokensSame
        /\ session' = [s \in SessionIds |-> IF session[s] = NoSession THEN NoSession ELSE Closed(session[s])]
        /\ post' = [p \in Posts |-> IF post[p].pc \in {"run", "emit"} THEN [NoPost EXCEPT !.pc = "lost"]
                                    ELSE post[p]]
    BY <1>5 DEF Evict, tokens, TokensSame
  <2>2. [NoPost EXCEPT !.pc = "lost"] \in Requests /\ [NoPost EXCEPT !.pc = "lost"].pc = "lost"
    <3>1. NoPost \in Requests
      <4>1. <<>> \in Seq(Message)
        OBVIOUS
      <4>2. QED
        BY <4>1 DEF NoPost, Requests
    <3>2. QED
      BY <3>1, Zenon DEF Requests
  <2>3. NoSession \in Sessions
    BY DEF NoSession, Sessions
  <2>4. post' \in [Posts -> Requests] /\ \A p \in Posts : post'[p].pc \in {"run", "emit"} => post'[p] = post[p]
    BY <1>1, <2>1, <2>2
  <2>5. /\ session' \in [SessionIds -> Sessions]
        /\ \A s \in SessionIds : IF session[s] = NoSession THEN session'[s] = NoSession
                                 ELSE session'[s] # NoSession /\ session'[s].claims = session[s].claims
    BY <1>1, <1>2, <2>1, <2>3
  <2>6. QED
    BY <1>1, <2>1, <2>4, <2>5, SessionEnds
<1>6. QED
  BY <1>3, <1>4, <1>5

LEMMA OpenConsent ==
  ASSUME ConsentInv, NEW s \in SessionIds, NEW jwt \in jwts, Open(s, jwt)
  PROVE  ConsentInv'
<1> DEFINE x == [listed |-> TRUE, claims |-> jwt.user, wire |-> "up"]
<1>1. /\ session[s] = NoSession /\ session' = [session EXCEPT ![s] = x]
      /\ presented' = [presented EXCEPT ![s] = jwt]
      /\ UNCHANGED <<now, post, acts, evictions>> /\ TokensSame
  BY DEF Open, tokens, TokensSame
<1>2. /\ session \in [SessionIds -> Sessions] /\ presented \in [SessionIds -> jwts \cup {None}]
      /\ x \in Sessions /\ x # NoSession /\ x.claims = jwt.user
  BY HubKnown DEF Sessions, NoSession
<1> HIDE DEF x
<1>3. /\ session' \in [SessionIds -> Sessions] /\ presented' \in [SessionIds -> jwts \cup {None}]
      /\ session'[s] = x /\ presented'[s] = jwt
      /\ \A t \in SessionIds \ {s} : session'[t] = session[t] /\ presented'[t] = presented[t]
  BY <1>1, <1>2
<1>4. TypeOK'
  BY <1>1, <1>3 DEF ConsentInv, TypeOK, Sessions, TokensSame
<1>5. NoSession' = NoSession
  BY DEF NoSession
<1>6. SessionsOK'
  <2>1. SUFFICES ASSUME NEW t \in SessionIds
                 PROVE  IF session'[t] = NoSession THEN presented'[t] = None
                        ELSE presented'[t] \in jwts /\ presented'[t].user = session'[t].claims
    BY <1>1, <1>5 DEF SessionsOK, TokensSame
  <2>2. CASE t = s
    BY <1>2, <1>3, <2>2
  <2>3. CASE t # s
    BY <1>3, <2>3 DEF ConsentInv, SessionsOK
  <2>4. QED
    BY <2>2, <2>3
<1>7. PostsOK'
  BY <1>1, <1>2, <1>3, <1>5 DEF ConsentInv, PostsOK
<1>8. ActsOK'
  BY <1>1 DEF ConsentInv, ActsOK, TokensSame
<1>9. QED
  BY <1>1, <1>4, <1>6, <1>7, <1>8, TokensUntouched DEF ConsentInv

LEMMA AskedNat ==
  ASSUME NEW body \in Seq(Message)
  PROVE  Asked(body) \in Nat
<1>1. {i \in DOMAIN body : Answered(body[i])} \in SUBSET (1..Len(body)) /\ Len(body) \in Nat
  OBVIOUS
<1>2. IsFiniteSet(1..Len(body))
  BY <1>1, FS_Interval
<1>3. QED
  BY <1>1, <1>2, FS_Subset, FS_CardinalityType DEF Asked

LEMMA PostConsent ==
  ASSUME ConsentInv, NEW p \in Posts, NEW s \in SessionIds, NEW body \in Bodies, Post(p, s, body)
  PROVE  ConsentInv'
<1> DEFINE run == [pc |-> IF body = <<>> THEN "done" ELSE "run", session |-> s,
                   todo |-> body, asked |-> Asked(body), answered |-> 0]
           rejected == [NoPost EXCEPT !.pc = "refused"]
           x == IF session[s].listed THEN run ELSE rejected
<1>1. /\ session[s] # NoSession /\ post' = [post EXCEPT ![p] = x]
      /\ UNCHANGED <<now, session, presented, acts, evictions>> /\ TokensSame
  BY DEF Post, tokens, TokensSame
<1>2. /\ run \in Requests /\ run.session = s
      /\ run.pc \in {"run", "emit"} => run.todo # <<>>
  <2>1. body \in Seq(Message) /\ Asked(body) \in Nat
    BY BodiesAssumption, AskedNat
  <2>2. QED
    BY <2>1 DEF Requests
<1>3. rejected \in Requests /\ rejected.pc = "refused"
  <2>1. NoPost \in Requests
    <3>1. <<>> \in Seq(Message)
      OBVIOUS
    <3>2. QED
      BY <3>1 DEF NoPost, Requests
  <2>2. QED
    BY <2>1, Zenon DEF Requests
<1> HIDE DEF run, rejected
<1>4. x \in Requests /\ (x.pc \in {"run", "emit"} => x.session = s /\ x.todo # <<>>)
  BY <1>2, <1>3
<1> HIDE DEF x
<1>5. /\ post' \in [Posts -> Requests] /\ post'[p] = x
      /\ \A q \in Posts \ {p} : post'[q] = post[q]
  BY <1>1, <1>4, HubKnown
<1>6. TypeOK'
  BY <1>1, <1>5 DEF ConsentInv, TypeOK, Requests, TokensSame
<1>7. NoSession' = NoSession
  BY DEF NoSession
<1>8. PostsOK'
  <2>1. SUFFICES ASSUME NEW q \in Posts, post'[q].pc \in {"run", "emit"}
                 PROVE  /\ post'[q].session \in SessionIds /\ session[post'[q].session] # NoSession
                        /\ post'[q].todo # <<>>
    BY <1>1, <1>7 DEF PostsOK
  <2>2. CASE q = p
    BY <1>1, <1>4, <1>5, <2>1, <2>2
  <2>3. CASE q # p
    BY <1>5, <2>1, <2>3 DEF ConsentInv, PostsOK
  <2>4. QED
    BY <2>2, <2>3
<1>9. SessionsOK' /\ ActsOK'
  BY <1>1, <1>7 DEF ConsentInv, SessionsOK, ActsOK, TokensSame
<1>10. QED
  BY <1>6, <1>8, <1>9, <1>1, TokensUntouched DEF ConsentInv

\* One message fewer to run.
RequestStep(p) ==
    /\ post' = [post EXCEPT ![p] = post'[p]]
    /\ post'[p] \in Requests
    /\ post'[p].pc \in {"run", "emit"} => post'[p].session = post[p].session /\ post'[p].todo # <<>>

LEMMA Next1Type ==
  ASSUME NEW q \in Requests, q.todo # <<>>
  PROVE  /\ Next1(q) \in Requests /\ Next1(q).session = q.session
         /\ Next1(q).pc \in {"run", "emit"} => Next1(q).todo # <<>>
<1> DEFINE todo == Tail(q.todo)
           pc == IF Len(q.todo) = 1 THEN "done" ELSE "run"
<1>1. q.todo \in Seq(Message) /\ Len(q.todo) \in Nat /\ Len(q.todo) # 0
  BY DEF Requests
<1>2. todo \in Seq(Message) /\ Len(todo) = Len(q.todo) - 1
  BY <1>1
<1>3. pc = "run" => todo # <<>>
  <2>1. pc = "run" => Len(todo) # 0
    BY <1>1, <1>2
  <2>2. Len(<<>>) = 0
    OBVIOUS
  <2> HIDE DEF todo, pc
  <2>3. QED
    BY <2>1, <2>2
<1>4. pc \in {"run", "done"}
  OBVIOUS
<1>5. Next1(q) = [q EXCEPT !.todo = todo, !.pc = pc]
  BY DEF Next1
<1> HIDE DEF todo, pc
<1>6. QED
  BY <1>2, <1>3, <1>4, <1>5 DEF Requests

LEMMA RanStep ==
  ASSUME ConsentInv, NEW p \in Posts, post[p].pc = "run", Ran(p)
  PROVE  RequestStep(p)
<1> DEFINE q == post[p]
           x == IF Answered(Head(q.todo)) THEN [q EXCEPT !.pc = "emit"] ELSE Next1(q)
<1>1. post' = [post EXCEPT ![p] = x]
  BY DEF Ran
<1>2. q \in Requests /\ q.todo # <<>> /\ post \in [Posts -> Requests]
  BY HubKnown DEF ConsentInv, PostsOK
<1>3. [q EXCEPT !.pc = "emit"] \in Requests /\ [q EXCEPT !.pc = "emit"].session = q.session
      /\ [q EXCEPT !.pc = "emit"].todo # <<>>
  BY <1>2 DEF Requests
<1>4. x \in Requests /\ (x.pc \in {"run", "emit"} => x.session = q.session /\ x.todo # <<>>)
  BY <1>2, <1>3, Next1Type
<1> HIDE DEF x
<1>5. post'[p] = x
  BY <1>1, <1>2
<1>6. QED
  BY <1>1, <1>4, <1>5 DEF RequestStep

\* A step of a request: its session may take the user of another token, and
\* something may be published as the session's user.
LEMMA RequestStepConsent ==
  ASSUME ConsentInv, NEW p \in Posts, RequestStep(p), post[p].pc \in {"run", "emit"},
         TokensSame, UNCHANGED <<now, evictions>>,
         session' \in [SessionIds -> Sessions], presented' \in [SessionIds -> jwts \cup {None}],
         \A s \in SessionIds :
            IF session[s] = NoSession THEN session'[s] = NoSession /\ presented'[s] = None
            ELSE /\ session'[s] # NoSession
                 /\ presented'[s] \in jwts /\ presented'[s].user = session'[s].claims,
         acts' \subseteq [session: SessionIds, key: Users \X (0..MaxDeriveRetries), token: jwts],
         \A a \in acts' \ acts : a.key[1] = a.token.user
  PROVE  ConsentInv'
<1>1. post \in [Posts -> Requests]
  BY HubKnown
<1>2. /\ post' \in [Posts -> Requests] /\ \A q \in Posts \ {p} : post'[q] = post[q]
  <2> DEFINE x == post'[p]
  <2>1. post' = [post EXCEPT ![p] = x] /\ x \in Requests
    BY DEF RequestStep
  <2> HIDE DEF x
  <2>2. QED
    BY <1>1, <2>1
<1>3. TypeOK'
  BY <1>2 DEF ConsentInv, TypeOK, Sessions, Requests, TokensSame
<1>4. NoSession' = NoSession
  BY DEF NoSession
<1>5. SessionsOK'
  BY <1>4 DEF SessionsOK, TokensSame
<1>6. PostsOK'
  <2>1. SUFFICES ASSUME NEW q \in Posts, post'[q].pc \in {"run", "emit"}
                 PROVE  /\ post'[q].session \in SessionIds /\ session'[post'[q].session] # NoSession
                        /\ post'[q].todo # <<>>
    BY <1>4 DEF PostsOK
  <2>2. CASE q = p
    BY <2>1, <2>2 DEF RequestStep, ConsentInv, PostsOK
  <2>3. CASE q # p
    BY <1>2, <2>1, <2>3 DEF ConsentInv, PostsOK
  <2>4. QED
    BY <2>2, <2>3
<1>7. ActsOK'
  <2>1. ASSUME NEW a \in acts' PROVE a.token \in jwts /\ a.key[1] = a.token.user
    BY <2>1 DEF ConsentInv, ActsOK
  <2>2. QED
    BY <2>1 DEF ActsOK, TokensSame
<1>8. QED
  BY <1>3, <1>5, <1>6, <1>7, TokensUntouched DEF ConsentInv

\* A derived key is a key of its user.
LEMMA DerivedKeyOfUser ==
  ASSUME NEW user, DerivedKey(user) # None
  PROVE  DerivedKey(user) \in {user} \X (0..MaxDeriveRetries)
<1> DEFINE good == {a \in 0..MaxDeriveRetries : <<user, a>> \notin BadMacs}
<1>1. good # {} /\ DerivedKey(user) = <<user, CHOOSE a \in good : \A b \in good : a <= b>>
  BY DEF DerivedKey
<1>2. PICK least \in good : \A b \in good : least <= b
  <2>1. PICK a \in good : \A b \in good : <<b, a>> \notin OpToRel(<, Nat)
    <3>1. good \subseteq Nat
      OBVIOUS
    <3>2. IsWellFoundedOn(OpToRel(<, Nat), Nat)
      BY NatLessThanWellFounded
    <3> HIDE DEF OpToRel, good
    <3>3. QED
      BY <1>1, <3>1, <3>2, WFMin
  <2>2. good \subseteq Nat
    OBVIOUS
  <2> HIDE DEF good
  <2>3. \A b \in good : ~(b < a)
    BY <2>1, <2>2 DEF OpToRel
  <2>4. QED
    BY <2>2, <2>3
<1> DEFINE first == CHOOSE a \in good : \A b \in good : a <= b
<1>3. first \in 0..MaxDeriveRetries
  BY <1>2
<1>4. DerivedKey(user) = <<user, first>>
  BY <1>1
<1> HIDE DEF first
<1>5. QED
  BY <1>3, <1>4

LEMMA ActConsent ==
  ASSUME ConsentInv, NEW p \in Posts, Act(p)
  PROVE  ConsentInv'
<1> DEFINE s == post[p].session
           key == DerivedKey(session[s].claims)
<1>1. /\ post[p].pc = "run" /\ Ran(p) /\ TokensSame
      /\ acts' = IF key = None THEN acts ELSE acts \cup {[session |-> s, key |-> key, token |-> presented[s]]}
      /\ UNCHANGED <<now, session, presented, evictions>>
  BY DEF Act, Runs, tokens, TokensSame
<1>2. RequestStep(p)
  BY <1>1, RanStep
<1> DEFINE j == presented[s]
<1>3. s \in SessionIds /\ session[s] # NoSession /\ j \in jwts /\ j.user = session[s].claims
  BY <1>1 DEF ConsentInv, PostsOK, SessionsOK
<1>4. j.user \in Users
  BY <1>3, HubKnown
<1>5. ASSUME key # None PROVE key \in Users \X (0..MaxDeriveRetries) /\ key[1] = j.user
  <2>1. key \in {j.user} \X (0..MaxDeriveRetries)
    BY <1>3, <1>4, <1>5, DerivedKeyOfUser
  <2>2. QED
    BY <1>4, <2>1
<1>6. \A t \in SessionIds : IF session[t] = NoSession THEN presented[t] = None
                            ELSE presented[t] \in jwts /\ presented[t].user = session[t].claims
  BY DEF ConsentInv, SessionsOK
<1>7. acts \subseteq [session: SessionIds, key: Users \X (0..MaxDeriveRetries), token: jwts]
  BY DEF ConsentInv, TypeOK
<1> HIDE DEF key
<1>8. /\ acts' \subseteq [session: SessionIds, key: Users \X (0..MaxDeriveRetries), token: jwts]
      /\ \A a \in acts' \ acts : a.key[1] = a.token.user
  BY <1>1, <1>3, <1>4, <1>5, <1>7
<1>9. QED
  BY <1>1, <1>2, <1>6, <1>8, HubKnown, RequestStepConsent

LEMMA ReauthConsent ==
  ASSUME ConsentInv, NEW p \in Posts, NEW jwt \in jwts, Reauth(p, jwt)
  PROVE  ConsentInv'
<1> DEFINE s == post[p].session
           x == [session[s] EXCEPT !.claims = jwt.user]
<1>1. /\ post[p].pc = "run" /\ Ran(p) /\ TokensSame
      /\ session' = IF Valid(jwt) THEN [session EXCEPT ![s] = x] ELSE session
      /\ presented' = IF Valid(jwt) THEN [presented EXCEPT ![s] = jwt] ELSE presented
      /\ UNCHANGED <<now, acts, evictions>>
  <2>1. session' = IF Valid(jwt) THEN [session EXCEPT ![s].claims = jwt.user] ELSE session
    BY DEF Reauth
  <2>2. [session EXCEPT ![s].claims = jwt.user] = [session EXCEPT ![s] = x]
    OBVIOUS
  <2>3. QED
    BY <2>1, <2>2 DEF Reauth, Runs, tokens, TokensSame
<1>2. RequestStep(p)
  BY <1>1, RanStep
<1>3. s \in SessionIds /\ session[s] # NoSession
  BY <1>1 DEF ConsentInv, PostsOK
<1>4. session[s] \in Sessions /\ jwt.user \in Users
  BY <1>3, HubKnown
\* NoSession has no user, a session has one.
<1>5. x \in Sessions /\ x # NoSession /\ x.claims = jwt.user
  <2>1. x \in Sessions /\ x.claims = jwt.user
    BY <1>4 DEF Sessions
  <2>2. QED
    BY <1>4, <2>1 DEF NoSession
<1>6. \A t \in SessionIds : IF session[t] = NoSession THEN presented[t] = None
                            ELSE presented[t] \in jwts /\ presented[t].user = session[t].claims
  BY DEF ConsentInv, SessionsOK
<1>7. session \in [SessionIds -> Sessions] /\ presented \in [SessionIds -> jwts \cup {None}]
  BY HubKnown
<1> HIDE DEF x, s
<1>8. /\ session' \in [SessionIds -> Sessions] /\ presented' \in [SessionIds -> jwts \cup {None}]
      /\ \A t \in SessionIds :
            IF session[t] = NoSession THEN session'[t] = NoSession /\ presented'[t] = None
            ELSE /\ session'[t] # NoSession
                 /\ presented'[t] \in jwts /\ presented'[t].user = session'[t].claims
  <2>1. CASE ~Valid(jwt)
    BY <1>1, <1>6, <1>7, <2>1
  <2>2. CASE Valid(jwt)
    <3>1. /\ session' \in [SessionIds -> Sessions] /\ presented' \in [SessionIds -> jwts \cup {None}]
          /\ session'[s] = x /\ presented'[s] = jwt
          /\ \A t \in SessionIds \ {s} : session'[t] = session[t] /\ presented'[t] = presented[t]
      BY <1>1, <1>3, <1>5, <1>7, <2>2
    <3>2. QED
      BY <1>3, <1>5, <1>6, <3>1
  <2>3. QED
    BY <2>1, <2>2
<1>9. acts' \subseteq [session: SessionIds, key: Users \X (0..MaxDeriveRetries), token: jwts]
  BY <1>1 DEF ConsentInv, TypeOK
<1>10. QED
  BY <1>1, <1>2, <1>8, <1>9, RequestStepConsent

LEMMA ServeEmitConsent ==
  ASSUME ConsentInv, NEW p \in Posts, Serve(p) \/ Emit(p)
  PROVE  ConsentInv'
<1>1. /\ TokensSame /\ UNCHANGED <<now, session, presented, acts, evictions>>
      /\ post[p].pc \in {"run", "emit"}
  BY DEF Serve, Emit, Runs, tokens, TokensSame
<1>2. RequestStep(p)
  <2>1. CASE Serve(p)
    BY <2>1, RanStep DEF Serve, Runs
  <2>2. CASE Emit(p)
    <3> DEFINE q == post[p]
               up == session[post[p].session].wire = "up"
               answered == IF up THEN Next1(q).answered + 1 ELSE Next1(q).answered
               x == [Next1(q) EXCEPT !.answered = answered]
    <3>1. post' = [post EXCEPT ![p] = x]
      <4>1. post' = [post EXCEPT ![p] =
                       [Next1(q) EXCEPT !.answered = IF up THEN @ + 1 ELSE @]]
        BY <2>2 DEF Emit
      <4>2. [Next1(q) EXCEPT !.answered = IF up THEN @ + 1 ELSE @] = x
        OBVIOUS
      <4>3. QED
        BY <4>1, <4>2
    <3>2. q \in Requests /\ q.todo # <<>> /\ post \in [Posts -> Requests]
      BY <1>1, HubKnown DEF ConsentInv, PostsOK
    <3>3. /\ Next1(q) \in Requests /\ Next1(q).session = q.session
          /\ Next1(q).pc \in {"run", "emit"} => Next1(q).todo # <<>>
      BY <3>2, Next1Type
    <3>4. answered \in Nat
      BY <3>3 DEF Requests
    <3> HIDE DEF answered, q
    <3>5. /\ x \in Requests /\ x.session = q.session
          /\ x.pc \in {"run", "emit"} => x.todo # <<>>
      BY <3>3, <3>4 DEF Requests
    <3> HIDE DEF x
    <3>6. post'[p] = x
      BY <3>1, <3>2
    <3>7. QED
      BY <3>1, <3>5, <3>6 DEF RequestStep, q
  <2>3. QED
    BY <2>1, <2>2
<1>3. \A t \in SessionIds : IF session[t] = NoSession THEN presented[t] = None
                            ELSE presented[t] \in jwts /\ presented[t].user = session[t].claims
  BY DEF ConsentInv, SessionsOK
<1>4. acts' \subseteq [session: SessionIds, key: Users \X (0..MaxDeriveRetries), token: jwts]
  BY <1>1 DEF ConsentInv, TypeOK
<1>5. QED
  BY <1>1, <1>2, <1>3, <1>4, HubKnown, RequestStepConsent

-----------------------------------------------------------------------------
(* The theorems.                                                           *)

LEMMA InitConsent == Init => ConsentInv
<1>1. SUFFICES ASSUME Init PROVE ConsentInv
  OBVIOUS
<1>2. NoPost \in Requests /\ NoPost.pc = "none" /\ NoSession \in Sessions
  <2>1. <<>> \in Seq(Message)
    OBVIOUS
  <2>2. QED
    BY <2>1 DEF NoPost, Requests, NoSession, Sessions
<1>3. TypeOK
  <2>1. session \in [SessionIds -> Sessions] /\ post \in [Posts -> Requests]
    BY <1>1, <1>2 DEF Init
  <2>2. /\ registered \in [DcrClients -> (SUBSET Uris) \cup {None}]
        /\ presented \in [SessionIds -> jwts \cup {None}]
    <3>1. registered = [c \in DcrClients |-> None] /\ None \in (SUBSET Uris) \cup {None}
      BY <1>1 DEF Init
    <3>2. presented = [s \in SessionIds |-> None] /\ None \in jwts \cup {None}
      BY <1>1 DEF Init
    <3>3. QED
      BY <3>1, <3>2
  <2>3. now \in Nat /\ evictions \in Nat
    BY <1>1 DEF Init
  <2>4. states = {} /\ codes = {} /\ jwts = {} /\ consents = {} /\ acts = {}
    BY <1>1 DEF Init
  <2>5. QED
    BY <2>1, <2>2, <2>3, <2>4 DEF TypeOK, Requests, Sessions
<1>4. QED
  BY <1>1, <1>2, <1>3
     DEF Init, ConsentInv, RegisteredOK, StatesOK, CodesOK, JwtsOK, SessionsOK, PostsOK, ActsOK

LEMMA NextConsent ==
  ASSUME ConsentInv, [Next]_vars
  PROVE  ConsentInv'
<1>1. CASE Tick \/ UNCHANGED vars
  <2>1. TokensSame /\ HubSame /\ now' \in Nat
    BY <1>1, HubKnown DEF Tick, vars, tokens, hub, TokensSame, HubSame
  <2>2. TypeOK'
    BY <2>1 DEF ConsentInv, TypeOK, TokensSame, HubSame
  <2>3. QED
    BY <2>1, <2>2, TokensUntouched, HubUntouched DEF ConsentInv, TokensSame
<1>2. CASE \E c \in DcrClients, uris \in SUBSET Uris : Register(c, uris)
  BY <1>2, RegisterConsent
<1>3. ASSUME NEW provider \in Providers,
             \/ StartDirect(provider)
             \/ \E c \in Clients, uri \in Uris, challenge \in Challenges \cup {None} :
                   StartFor(provider, c, uri, challenge)
             \/ \E st \in states, user \in Users : Callback(st, provider, user)
      PROVE  ConsentInv'
  BY <1>3, StartConsent, CallbackConsent
<1>4. CASE \E code \in codes, c \in Clients, secret \in {"none", "right", "wrong"},
              uri \in Uris, verifier \in Challenges \cup {None} : Exchange(code, c, secret, uri, verifier)
  BY <1>4, ExchangeConsent
<1>5. ASSUME NEW s \in SessionIds,
             \/ \E jwt \in jwts : Open(s, jwt)
             \/ \E wire \in {"cut", "silent"} : Hangup(s, wire)
             \/ Abort(s) \/ Heartbeat(s)
             \/ \E p \in Posts, body \in Bodies : Post(p, s, body)
      PROVE  ConsentInv'
  BY <1>5, OpenConsent, SessionEndsConsent, PostConsent
<1>6. CASE \E p \in Posts : Work(p)
  BY <1>6, ActConsent, ReauthConsent, ServeEmitConsent DEF Work
<1>7. CASE Evict
  BY <1>7, SessionEndsConsent
<1>8. QED
  BY <1>1, <1>2, <1>3, <1>4, <1>5, <1>6, <1>7 DEF Next

LEMMA ConsentAlways == Spec => []ConsentInv
<1>1. ConsentInv /\ [Next]_vars => ConsentInv'
  BY NextConsent
<1>2. QED
  BY <1>1, InitConsent, PTL DEF Spec

\* Tokens, sessions and requests keep their types, and a session was only ever
\* given tokens that the gateway minted.
THEOREM TypeCorrect == Spec => []TypeOK
<1>1. ConsentInv => TypeOK
  BY DEF ConsentInv
<1>2. QED
  BY <1>1, ConsentAlways, PTL

\* A token given to a client is for a user who signed in for that client,
\* through a URI of the client's, within the life of a code, and was asked
\* with the verifier of that sign-in's challenge; and what a session publishes
\* carries the key of the user of the token it accepted last (tokenEndpoint,
\* runAuth, deriveNostrKey).
THEOREM AlwaysPublishedByConsent == Spec => []PublishedByConsent
<1>1. ConsentInv => PublishedByConsent
  BY DEF ConsentInv, JwtsOK, TokenOf, SignedIn, Grounded, ActsOK, PublishedByConsent
<1>2. QED
  BY <1>1, ConsentAlways, PTL

\* Whoever a publish is signed for has signed in at a provider.
PublishersSignedIn == \A a \in acts : \E k \in consents : k.user = a.key[1]

\* From the callback to the last tool call of any session, no key is used of a
\* user who never signed in: the two halves of PublishedByConsent together.
THEOREM PublishersAlwaysSignedIn == Spec => []PublishersSignedIn
<1>1. ConsentInv => PublishersSignedIn
  <2>1. SUFFICES ASSUME ConsentInv, NEW a \in acts PROVE \E k \in consents : k.user = a.key[1]
    BY DEF PublishersSignedIn
  <2>2. a.token \in jwts /\ a.key[1] = a.token.user
    BY <2>1 DEF ConsentInv, ActsOK
  <2>3. QED
    BY <2>1, <2>2 DEF ConsentInv, JwtsOK, TokenOf, SignedIn
<1>2. QED
  BY <1>1, ConsentAlways, PTL

-----------------------------------------------------------------------------

=============================================================================
