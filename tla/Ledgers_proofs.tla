--------------------------- MODULE Ledgers_proofs ---------------------------
(***************************************************************************)
(* The three places where money is added up: the company's SMS wallet and  *)
(* its outbox, the ledger of a technician, and the discounts of an invoice.*)
(***************************************************************************)
EXTENDS SmsOutbox, TechnicianLedger, DiscountCodes,
        FiniteSetTheorems, SequenceTheorems, WellFoundedInduction, TLAPS

----------------------------------------------------------------------------
\* Induction, from the well-foundedness of inclusion: over a set of numbers.

LEMMA Smallest ==
  ASSUME NEW S, IsFiniteSet(S), NEW G \in SUBSET (SUBSET S), G # {}
  PROVE  \E T \in G : \A U \in G : U \subseteq T => U = T
<1>1. G \subseteq FiniteSubsetsOf(S) BY FS_FiniteSubsetsOfFinite
<1>2. PICK T \in G : \A U \in G : ~(<<U, T>> \in StrictSubsetOrdering(S))
  BY <1>1, FS_StrictSubsetOrderingWellFounded, WFMin
<1>3. QED BY <1>2 DEF StrictSubsetOrdering

LEMMA NatInduct ==
  ASSUME NEW S, 0 \in S, \A n \in Nat : n \in S => n + 1 \in S, NEW m \in Nat
  PROVE  m \in S
<1>1. SUFFICES ASSUME m \notin S PROVE FALSE OBVIOUS
<1> DEFINE G == {0 .. n : n \in {k \in 0 .. m : k \notin S}}
<1>2. PICK W : W = 0 .. m /\ IsFiniteSet(W) BY FS_Interval
<1>3. G \in SUBSET (SUBSET W) /\ IsFiniteSet(W) BY <1>2
<1>4. G # {} BY <1>1
<1> HIDE DEF G
<1>5. PICK T \in G : \A U \in G : U \subseteq T => U = T BY <1>3, <1>4, Smallest
<1>6. PICK n \in 0 .. m : n \notin S /\ T = 0 .. n BY <1>5 DEF G
<1>7. n - 1 \in 0 .. m /\ n - 1 \notin S BY <1>6
<1>8. 0 .. (n - 1) \in G BY <1>7 DEF G
<1>9. 0 .. (n - 1) \subseteq T BY <1>6
<1>10. 0 .. (n - 1) = T BY <1>5, <1>8, <1>9
<1>11. n \in T /\ n \notin 0 .. (n - 1) BY <1>6
<1>12. QED BY <1>10, <1>11

----------------------------------------------------------------------------
\* Sums over finite sets

First(s) == CHOOSE x \in s : TRUE

\* g adds a up over each subset of S, one element at a time.
AddsUp(g, a, S) ==
  g = [s \in SUBSET S |-> IF s = {} THEN 0 ELSE a[First(s)] + g[s \ {First(s)}]]

LEMMA FirstOf ==
  ASSUME NEW S, IsFiniteSet(S), NEW s \in SUBSET S
  PROVE  /\ Cardinality(s) \in Nat
         /\ Cardinality(s) = 0 <=> s = {}
         /\ s # {} => /\ First(s) \in s
                      /\ s \ {First(s)} \in SUBSET S
                      /\ Cardinality(s \ {First(s)}) = Cardinality(s) - 1
<1>1. IsFiniteSet(s) BY FS_Subset
<1>2. s # {} => First(s) \in s BY DEF First
<1>3. QED BY <1>1, <1>2, FS_CardinalityType, FS_EmptySet, FS_RemoveElement

LEMMA SumExists ==
  ASSUME NEW S, IsFiniteSet(S), NEW V \in {Nat, Int}, NEW a \in [S -> V]
  PROVE  \E g \in [SUBSET S -> V] : AddsUp(g, a, S)
<1>1. 0 \in V OBVIOUS
<1> DEFINE Rhs(g, s) == IF s = {} THEN 0 ELSE a[First(s)] + g[s \ {First(s)}]
<1> DEFINE H == {n \in Nat : \E g \in [SUBSET S -> V] :
                   \A s \in SUBSET S : Cardinality(s) <= n => g[s] = Rhs(g, s)}
<1>2. \A s \in SUBSET S, g \in [SUBSET S -> V] : Rhs(g, s) \in V
  <2>1. SUFFICES ASSUME NEW s \in SUBSET S, NEW g \in [SUBSET S -> V] PROVE Rhs(g, s) \in V OBVIOUS
  <2>2. CASE s = {} BY <2>2
  <2>3. CASE s # {}
    <3>1. First(s) \in S /\ s \ {First(s)} \in SUBSET S BY <2>3, FirstOf
    <3>2. a[First(s)] \in V /\ g[s \ {First(s)}] \in V BY <3>1
    <3>3. a[First(s)] + g[s \ {First(s)}] \in V BY <3>2
    <3>4. QED BY <2>3, <3>3
  <2>4. QED BY <2>2, <2>3
<1>3. 0 \in H
  <2>1. PICK g : g = [s \in SUBSET S |-> 0] OBVIOUS
  <2>2. g \in [SUBSET S -> V] BY <2>1, <1>1
  <2>3. ASSUME NEW s \in SUBSET S, Cardinality(s) <= 0 PROVE s = {}
    <3>1. Cardinality(s) \in Nat /\ (Cardinality(s) = 0 <=> s = {}) BY FirstOf
    <3>2. QED BY <2>3, <3>1
  <2>4. QED BY <2>1, <2>3, <2>2
<1>4. ASSUME NEW n \in Nat, n \in H PROVE n + 1 \in H
  <2>1. PICK g \in [SUBSET S -> V] : \A s \in SUBSET S : Cardinality(s) <= n => g[s] = Rhs(g, s)
    BY <1>4
  <2>2. PICK f \in [SUBSET S -> V] :
          f = [s \in SUBSET S |-> IF Cardinality(s) <= n THEN g[s] ELSE Rhs(g, s)]
    <3>1. \A s \in SUBSET S : g[s] \in V /\ Rhs(g, s) \in V BY <1>2
    <3>2. QED BY <3>1
  <2>3. ASSUME NEW s \in SUBSET S, Cardinality(s) <= n + 1 PROVE f[s] = Rhs(f, s)
    <3>1. f[s] = Rhs(g, s) BY <2>1, <2>2
    <3>2. CASE s = {} BY <3>1, <3>2
    <3>3. CASE s # {}
      <4>1. s \ {First(s)} \in SUBSET S /\ Cardinality(s \ {First(s)}) <= n BY <2>3, <3>3, FirstOf
      <4>2. f[s \ {First(s)}] = g[s \ {First(s)}] BY <2>2, <4>1
      <4>3. QED BY <3>1, <3>3, <4>2
    <3>4. QED BY <3>2, <3>3
  <2> HIDE DEF Rhs
  <2>4. \A s \in SUBSET S : Cardinality(s) <= n + 1 => f[s] = Rhs(f, s) BY <2>3
  <2>5. QED BY <2>4
<1> HIDE DEF H
<1>5. Cardinality(S) \in Nat BY FS_CardinalityType
<1>6. Cardinality(S) \in H BY <1>3, <1>4, <1>5, NatInduct
<1>7. PICK g \in [SUBSET S -> V] : \A s \in SUBSET S : Cardinality(s) <= Cardinality(S) => g[s] = Rhs(g, s)
  BY <1>6 DEF H
<1>8. \A s \in SUBSET S : Cardinality(s) <= Cardinality(S) BY FS_Subset
<1>9. \A s \in SUBSET S : g[s] = Rhs(g, s) BY <1>7, <1>8
<1>10. AddsUp(g, a, S) BY <1>9 DEF AddsUp
<1>11. QED BY <1>10

LEMMA SumTyped ==
  ASSUME NEW S, IsFiniteSet(S), NEW V \in {Nat, Int}, NEW a \in [S -> V], NEW g, AddsUp(g, a, S)
  PROVE  g[S] \in V /\ \A s \in SUBSET S : g[s] \in V
<1>1. 0 \in V OBVIOUS
<1> DEFINE H == {n \in Nat : \A s \in SUBSET S : Cardinality(s) <= n => g[s] \in V}
<1>2. \A s \in SUBSET S : g[s] = IF s = {} THEN 0 ELSE a[First(s)] + g[s \ {First(s)}] BY DEF AddsUp
<1>3. 0 \in H
  <2>1. ASSUME NEW s \in SUBSET S, Cardinality(s) <= 0 PROVE s = {}
    <3>1. Cardinality(s) \in Nat /\ (Cardinality(s) = 0 <=> s = {}) BY FirstOf
    <3>2. QED BY <2>1, <3>1
  <2>2. g[{}] = 0 BY <1>2
  <2>3. QED BY <2>1, <2>2
<1>4. ASSUME NEW n \in Nat, n \in H PROVE n + 1 \in H
  <2>1. ASSUME NEW s \in SUBSET S, Cardinality(s) <= n + 1 PROVE g[s] \in V
    <3>1. CASE s = {} BY <1>1, <1>2, <3>1
    <3>2. CASE s # {}
      <4>1. s \ {First(s)} \in SUBSET S /\ Cardinality(s \ {First(s)}) <= n /\ First(s) \in S
        BY <2>1, <3>2, FirstOf
      <4>2. g[s \ {First(s)}] \in V /\ a[First(s)] \in V BY <1>4, <4>1
      <4>3. g[s] = a[First(s)] + g[s \ {First(s)}] BY <1>2, <3>2
      <4>4. QED BY <4>2, <4>3
    <3>3. QED BY <3>1, <3>2
  <2>2. QED BY <2>1
<1> HIDE DEF H
<1>5. Cardinality(S) \in Nat BY FS_CardinalityType
<1>6. Cardinality(S) \in H BY <1>3, <1>4, <1>5, NatInduct
<1>7. \A s \in SUBSET S : Cardinality(s) <= Cardinality(S) BY FS_Subset
<1>8. QED BY <1>5, <1>6, <1>7 DEF H

\* So the ledger's sums are numbers.
LEMMA AddUpTyped ==
  ASSUME NEW S, IsFiniteSet(S), NEW V \in {Nat, Int}, \A n \in S : ledger[n].amount \in V
  PROVE  AddUp(S) \in V
<1> DEFINE Equation(g) == [s \in SUBSET S |-> IF s = {} THEN 0
                         ELSE ledger[CHOOSE x \in s : TRUE].amount + g[s \ {CHOOSE x \in s : TRUE}]]
<1>1. AddUp(S) = (CHOOSE g : g = Equation(g))[S] BY DEF AddUp, FoldSet, MapThenFoldSet
<1>2. PICK a \in [S -> V] : a = [n \in S |-> ledger[n].amount] OBVIOUS
<1>3. ASSUME NEW s \in SUBSET S, s # {} PROVE a[First(s)] = ledger[CHOOSE x \in s : TRUE].amount
  BY <1>2, <1>3, FirstOf DEF First
<1>4. ASSUME NEW g PROVE AddsUp(g, a, S) <=> g = Equation(g)
  BY <1>3 DEF AddsUp, First
<1> HIDE DEF Equation
<1>5. \E g : g = Equation(g)
  <2>1. PICK g : AddsUp(g, a, S) BY SumExists
  <2>2. QED BY <1>4, <2>1
<1>6. PICK h : h = Equation(h) /\ AddUp(S) = h[S] BY <1>1, <1>5
<1>7. AddsUp(h, a, S) BY <1>4, <1>6
<1>8. QED BY <1>6, <1>7, SumTyped

----------------------------------------------------------------------------
\* What a rollback leaves

\* The entries of L in the order at are those of S.
Enumerates(at, k, S) ==
  /\ at \in [1 .. k -> S]
  /\ \A n \in S : \E j \in 1 .. k : at[j] = n
  /\ \A i, j \in 1 .. k : i < j => at[i] < at[j]

LEMMA WithoutKeeps ==
  ASSUME NEW D, ledger \in Seq(D), NEW r
  PROVE  \E k \in Nat : \E at : /\ Enumerates(at, k, DOMAIN ledger \ Rows(r))
                            /\ Without(r) = [j \in 1 .. k |-> ledger[at[j]]]
                            /\ Without(r) \in Seq(D) /\ Len(Without(r)) = k
<1> DEFINE L == Len(ledger)
           Rhs(f, n) == IF n = 0 THEN <<>>
                        ELSE IF ledger[n].by = r THEN f[n - 1] ELSE Append(f[n - 1], ledger[n])
           Equation(f) == [n \in 0 .. L |-> Rhs(f, n)]
<1>1. Without(r) = (CHOOSE f : f = Equation(f))[L] BY DEF Without
<1>2. L \in Nat /\ DOMAIN ledger = 1 .. L /\ \A n \in 1 .. L : ledger[n] \in D OBVIOUS
<1> HIDE DEF L
<1>3. \E f : f = Equation(f)
  <2> DEFINE Upto(m) == \E f : f = [n \in 0 .. m |-> Rhs(f, n)]
             H == {m \in Nat : m <= L => Upto(m)}
  <2>1. 0 \in H
    <3>1. PICK f : f = [n \in 0 .. 0 |-> <<>>] OBVIOUS
    <3>2. \A n \in 0 .. 0 : Rhs(f, n) = <<>> OBVIOUS
    <3>3. f = [n \in 0 .. 0 |-> Rhs(f, n)] BY <3>1, <3>2
    <3>4. QED BY <3>3
  <2>2. ASSUME NEW m \in Nat, m \in H PROVE m + 1 \in H
    <3>1. SUFFICES ASSUME m + 1 <= L PROVE Upto(m + 1)
      <4> HIDE DEF Upto
      <4>1. QED OBVIOUS
    <3>2. Upto(m)
      <4> HIDE DEF Upto
      <4>1. QED BY <1>2, <2>2, <3>1
    <3>3. PICK f : f = [n \in 0 .. m |-> Rhs(f, n)] BY <3>2
    <3>4. PICK g : g = [n \in 0 .. (m + 1) |-> IF n <= m THEN f[n] ELSE Rhs(f, n)] OBVIOUS
    <3>5. ASSUME NEW n \in 0 .. (m + 1) PROVE g[n] = Rhs(g, n)
      <4>1. CASE n = 0 BY <3>3, <3>4, <4>1
      <4>2. CASE n # 0
        <5>1. n - 1 \in 0 .. m /\ n - 1 \in 0 .. (m + 1) BY <4>2
        <5>2. g[n - 1] = f[n - 1] BY <3>4, <5>1
        <5>3. g[n] = Rhs(f, n)
          <6>1. CASE n <= m
            <7>1. n \in 0 .. m BY <6>1
            <7>2. QED BY <3>3, <3>4, <6>1, <7>1
          <6>2. CASE ~(n <= m) BY <3>4, <6>2
          <6>3. QED BY <6>1, <6>2
        <5>4. QED BY <4>2, <5>2, <5>3
      <4>3. QED BY <4>1, <4>2
    <3>6. g = [n \in 0 .. (m + 1) |-> Rhs(g, n)] BY <3>4, <3>5
    <3>7. QED BY <3>6
  <2> HIDE DEF H
  <2>3. L \in H BY <1>2, <2>1, <2>2, NatInduct
  <2>4. Upto(L)
    <3> HIDE DEF Upto
    <3>1. QED BY <1>2, <2>3 DEF H
  <2>5. QED BY <2>4 DEF Equation
<1> HIDE DEF Equation
<1>4. PICK f : f = Equation(f) /\ Without(r) = f[L] BY <1>1, <1>3
<1>5. \A n \in 0 .. L : f[n] = Rhs(f, n) BY <1>4 DEF Equation
<1> DEFINE Kept(n) == {m \in 1 .. n : ledger[m].by # r}
           Upto(n) == \E k \in Nat : \E at : Enumerates(at, k, Kept(n)) /\ f[n] = [j \in 1 .. k |-> ledger[at[j]]]
           H == {n \in Nat : n <= L => Upto(n)}
<1>6. 0 \in H
  <2>1. PICK at : at = <<>> OBVIOUS
  <2>2. f[0] = <<>> BY <1>2, <1>5
  <2>3. Kept(0) = {} OBVIOUS
  <2>4. Enumerates(at, 0, Kept(0)) BY <2>1, <2>3 DEF Enumerates
  <2>5. f[0] = [j \in 1 .. 0 |-> ledger[at[j]]] BY <2>2
  <2>6. Upto(0)
    <3> HIDE DEF Kept
    <3>1. 0 \in Nat OBVIOUS
    <3>2. QED BY <2>4, <2>5, <3>1
  <2> HIDE DEF Upto
  <2>7. QED BY <2>6
<1>7. ASSUME NEW n \in Nat, n \in H PROVE n + 1 \in H
  <2>1. SUFFICES ASSUME n + 1 <= L PROVE Upto(n + 1)
    <3> HIDE DEF Upto
    <3>1. QED OBVIOUS
  <2>2. Upto(n)
    <3> HIDE DEF Upto
    <3>1. QED BY <1>2, <1>7, <2>1
  <2>3. PICK k \in Nat : \E at : Enumerates(at, k, Kept(n)) /\ f[n] = [j \in 1 .. k |-> ledger[at[j]]]
    BY <2>2
  <2>4. PICK at : Enumerates(at, k, Kept(n)) /\ f[n] = [j \in 1 .. k |-> ledger[at[j]]]
    BY <2>3
  <2>5. n + 1 \in 0 .. L /\ n + 1 # 0 /\ (n + 1) - 1 = n /\ n + 1 \in 1 .. L BY <1>2, <2>1
  <2>6. CASE ledger[n + 1].by = r
    <3>1. f[n + 1] = f[n] BY <1>5, <2>5, <2>6
    <3>2. Kept(n + 1) = Kept(n) BY <2>6
    <3> HIDE DEF Kept
    <3>3. QED BY <2>4, <3>1, <3>2
  <2>7. CASE ledger[n + 1].by # r
    <3>1. f[n + 1] = Append(f[n], ledger[n + 1]) BY <1>5, <2>5, <2>7
    <3>2. Kept(n + 1) = Kept(n) \cup {n + 1} BY <2>7
    <3>3. PICK bt : bt = [j \in 1 .. (k + 1) |-> IF j = k + 1 THEN n + 1 ELSE at[j]] OBVIOUS
    <3>4. \A j \in 1 .. k : bt[j] = at[j] /\ at[j] \in Kept(n) BY <2>4, <3>3 DEF Enumerates
    <3>5. bt[k + 1] = n + 1 BY <3>3
    <3>6. bt \in [1 .. (k + 1) -> Kept(n + 1)]
      <4>1. ASSUME NEW j \in 1 .. (k + 1) PROVE bt[j] \in Kept(n + 1)
        <5>1. CASE j = k + 1 BY <3>2, <3>5, <5>1
        <5>2. CASE j # k + 1
          <6>1. j \in 1 .. k BY <5>2
          <6>2. QED BY <3>2, <3>4, <6>1
        <5>3. QED BY <5>1, <5>2
      <4> HIDE DEF Kept
      <4>2. QED BY <3>3, <4>1
    <3>7. ASSUME NEW m \in Kept(n + 1) PROVE \E j \in 1 .. (k + 1) : bt[j] = m
      <4>1. CASE m = n + 1 BY <3>5, <4>1
      <4>2. CASE m # n + 1
        <5>1. m \in Kept(n) BY <3>2, <4>2
        <5> HIDE DEF Kept
        <5>2. PICK j \in 1 .. k : at[j] = m BY <2>4, <5>1 DEF Enumerates
        <5>3. j \in 1 .. (k + 1) /\ bt[j] = m BY <3>4, <5>2
        <5>4. QED BY <5>3
      <4>3. QED BY <4>1, <4>2
    <3>8. \A i, j \in 1 .. (k + 1) : i < j => bt[i] < bt[j]
      <4>1. SUFFICES ASSUME NEW i \in 1 .. (k + 1), NEW j \in 1 .. (k + 1), i < j PROVE bt[i] < bt[j]
        OBVIOUS
      <4>2. i \in 1 .. k BY <4>1
      <4>3. CASE j = k + 1
        <5>1. bt[i] \in 1 .. n BY <3>4, <4>2
        <5>2. QED BY <3>5, <4>3, <5>1
      <4>4. CASE j # k + 1
        <5>1. j \in 1 .. k BY <4>4
        <5>2. at[i] < at[j] BY <2>4, <4>1, <4>2, <5>1 DEF Enumerates
        <5>3. QED BY <3>4, <4>2, <5>1, <5>2
      <4>5. QED BY <4>3, <4>4
    <3>9. Enumerates(bt, k + 1, Kept(n + 1)) BY <3>6, <3>7, <3>8 DEF Enumerates
    <3>10. f[n] \in Seq(D) /\ Len(f[n]) = k
      <4>1. \A j \in 1 .. k : ledger[at[j]] \in D
        <5>1. SUFFICES ASSUME NEW j \in 1 .. k PROVE ledger[at[j]] \in D OBVIOUS
        <5>2. at[j] \in 1 .. L BY <2>1, <3>4, <1>2
        <5>3. QED BY <1>2, <5>2
      <4>2. QED BY <2>4, <4>1
    <3>11. f[n + 1] = [j \in 1 .. (k + 1) |-> ledger[bt[j]]]
      <4>1. \A j \in 1 .. (k + 1) : f[n + 1][j] = ledger[bt[j]]
        BY <2>4, <3>1, <3>4, <3>5, <3>10
      <4>2. DOMAIN f[n + 1] = 1 .. (k + 1) BY <3>1, <3>10
      <4>3. f[n + 1] = [j \in 1 .. (k + 1) |-> f[n + 1][j]] BY <3>1, <3>10, <4>2
      <4>4. QED BY <4>1, <4>3
    <3>12. k + 1 \in Nat OBVIOUS
    <3> HIDE DEF Kept
    <3>13. QED BY <3>9, <3>11, <3>12
  <2> HIDE DEF Upto
  <2>8. QED BY <2>6, <2>7
<1> HIDE DEF H
<1>8. L \in H BY <1>2, <1>6, <1>7, NatInduct
<1>9. Upto(L)
  <2> HIDE DEF Upto
  <2>1. QED BY <1>2, <1>8 DEF H
<1>10. PICK k \in Nat : \E at : Enumerates(at, k, Kept(L)) /\ f[L] = [j \in 1 .. k |-> ledger[at[j]]]
  BY <1>9
<1>11. PICK at : Enumerates(at, k, Kept(L)) /\ f[L] = [j \in 1 .. k |-> ledger[at[j]]]
  BY <1>10
<1>12. Kept(L) = DOMAIN ledger \ Rows(r) BY <1>2 DEF Rows
<1>13. \A j \in 1 .. k : ledger[at[j]] \in D BY <1>2, <1>11 DEF Enumerates
<1>14. Without(r) \in Seq(D) /\ Len(Without(r)) = k BY <1>4, <1>11, <1>13
<1>15. QED BY <1>4, <1>11, <1>12, <1>14

----------------------------------------------------------------------------
\* The invariant

\* The entries of an invoice, and that of a form.
Earned(i) == Post(Credit(i), Wage)
Cash(i) == Post(Debit(i), -Total)
Form(token) == [kind |-> "manual_settlement", of |-> token]

\* What a request has still to write: that of its invoice, of which it knows whether it
\* is paid, or of its form.
Fits(r) ==
  LET q == req[r] IN
  /\ q.op = "idle" => q = NoTransaction
  /\ q.op = "markPaid" =>
       /\ q.of \in WageInvoices /\ payment[q.of] = "ISSUED"
       /\ \/ q.todo \in {<<>>, <<Earned(q.of)>>}
          \/ q.cash /\ q.todo \in {<<Earned(q.of), Cash(q.of)>>, <<Cash(q.of)>>}
  /\ q.op = "backfill" =>
       /\ q.of \in WageInvoices /\ payment[q.of] # "ISSUED"
       /\ q.todo \in {<<>>, <<Earned(q.of)>>}
  /\ q.op = "settlement" =>
       /\ q.of \in Tokens
       /\ q.todo = <<>> \/ \E amount \in Settled : q.todo = <<Post(Form(q.of), amount)>>
AllFit == \A r \in Requests : Fits(r)

\* A request writes each entry once, and the cash after the wage.
CreditSeen(r) == \E m \in Visible(r) : ledger[m].key = Credit(req[r].of)
Entered(r, n) ==
  LET q == req[r] IN
  \/ /\ q.op \in {"markPaid", "backfill"}
     /\ ledger[n].key = Credit(q.of)
     /\ q.todo = <<>> \/ (q.op = "markPaid" /\ q.todo = <<Cash(q.of)>>)
  \/ /\ q.op = "markPaid" /\ q.cash
     /\ ledger[n].key = Debit(q.of)
     /\ q.todo = <<>>
     /\ CreditSeen(r)
  \/ /\ q.op = "settlement"
     /\ ledger[n].key = Form(q.of)
     /\ q.todo = <<>>
RowsEntered == \A r \in Requests : \A n \in Rows(r) : Entered(r, n)

CashFollows ==
  \A r \in Requests :
    req[r].op = "markPaid" /\ req[r].todo = <<Cash(req[r].of)>> => req[r].cash /\ CreditSeen(r)

\* One request at a time pays an invoice.
OnePayer ==
  \A r, q \in Requests :
    req[r].op = "markPaid" /\ req[q].op = "markPaid" /\ req[r].of = req[q].of => r = q

\* The entry a request locks is not before its own, and one it has locked for an earlier
\* entry, with more to write, was committed before it wrote that.
Targets ==
  \A r \in Requests : \A key \in req[r].target :
    \E n \in Visible(r) : ledger[n].key = key /\ \A m \in Rows(r) : m <= n
Holds ==
  \A r \in Requests : req[r].todo # <<>> =>
    \A key \in req[r].held :
      /\ Rows(r) # {}
      /\ \E n \in Committed : ledger[n].key = key /\ \A m \in Rows(r) : n < m

LedgerBooked ==
  /\ AllFit /\ RowsEntered /\ CashFollows /\ OnePayer
  /\ PostedOnce /\ EntriesFollowPayment
Queueing == Targets /\ Holds

----------------------------------------------------------------------------
\* Types

Kinds == {"next", "new", "waiting", "locked", "credited", "added"}

\* A transaction with some of its fields changed.
LEMMA Moves ==
  ASSUME NEW q \in Transaction, NEW pc \in Kinds
  PROVE  /\ [q EXCEPT !.pc = pc] \in Transaction
         /\ \A target \in SUBSET Keys : [q EXCEPT !.pc = pc, !.target = target] \in Transaction
         /\ \A n \in Nat : [q EXCEPT !.pc = pc, !.credits = n] \in Transaction
         /\ \A n \in Int : [q EXCEPT !.pc = pc, !.balance = n, !.credits = 0] \in Transaction
         /\ \A todo \in Seq(Posts) :
              [q EXCEPT !.todo = todo, !.pc = pc, !.target = {}, !.credits = 0, !.balance = 0]
                \in Transaction
<1>1. [q EXCEPT !.pc = pc] \in Transaction BY DEF Transaction, Kinds
<1>2. ASSUME NEW target \in SUBSET Keys
      PROVE  [q EXCEPT !.pc = pc, !.target = target] \in Transaction
  BY DEF Transaction, Kinds
<1>3. ASSUME NEW n \in Nat PROVE [q EXCEPT !.pc = pc, !.credits = n] \in Transaction
  BY DEF Transaction, Kinds
<1>4. ASSUME NEW n \in Int PROVE [q EXCEPT !.pc = pc, !.balance = n, !.credits = 0] \in Transaction
  BY DEF Transaction, Kinds
<1>5. ASSUME NEW todo \in Seq(Posts)
      PROVE  [q EXCEPT !.todo = todo, !.pc = pc, !.target = {}, !.credits = 0, !.balance = 0]
               \in Transaction
  <2>1. PICK f : f = [q EXCEPT !.todo = todo, !.pc = pc, !.target = {}, !.credits = 0, !.balance = 0]
    OBVIOUS
  <2>2. PICK rows : rows = Seq(Posts) /\ todo \in rows OBVIOUS
  <2>3. f = [op |-> q.op, of |-> q.of, cash |-> q.cash, todo |-> todo, pc |-> pc, target |-> {},
             held |-> q.held, credits |-> 0, balance |-> 0]
    BY <2>1 DEF Transaction
  <2>4. f \in Transaction BY <2>2, <2>3 DEF Transaction, Kinds
  <2>5. QED BY <2>1, <2>4
<1>6. QED BY <1>1, <1>2, <1>3, <1>4, <1>5

LEMMA RestTyped ==
  ASSUME NEW q \in Transaction, NEW held \in SUBSET Keys
  PROVE  [q EXCEPT !.held = held] \in Transaction
BY DEF Transaction

LEMMA StartTyped ==
  /\ NoTransaction \in Transaction
  /\ \A op \in {"markPaid", "backfill", "settlement"}, of \in WageInvoices \cup Tokens,
        cash \in BOOLEAN, todo \in Seq(Posts) :
       [NoTransaction EXCEPT !.op = op, !.of = of, !.cash = cash, !.todo = todo] \in Transaction
<1>1. <<>> \in Seq(Posts) OBVIOUS
<1>2. PICK none \in Seq(Posts) : none = <<>> BY <1>1
<1>3. NoTransaction \in Transaction BY <1>2 DEF NoTransaction, Transaction
<1>4. ASSUME NEW op \in {"markPaid", "backfill", "settlement"}, NEW of \in WageInvoices \cup Tokens,
             NEW cash \in BOOLEAN, NEW todo \in Seq(Posts)
      PROVE  [NoTransaction EXCEPT !.op = op, !.of = of, !.cash = cash, !.todo = todo] \in Transaction
  BY <1>3 DEF Transaction
<1>5. QED BY <1>3, <1>4

LEMMA PostsTyped ==
  /\ \A i \in WageInvoices : Earned(i) \in Posts /\ Cash(i) \in Posts
  /\ \A token \in Tokens, amount \in Settled : Post(Form(token), amount) \in Posts
  /\ \A i \in WageInvoices, cash \in BOOLEAN : InvoiceEntries(i, cash) \in Seq(Posts)
<1>1. \A i \in WageInvoices : Earned(i) \in Posts /\ Cash(i) \in Posts
  BY DEF Earned, Cash, Post, Posts, Credit, Debit, Keys, Amounts
<1>2. \A token \in Tokens, amount \in Settled : Post(Form(token), amount) \in Posts
  BY DEF Form, Post, Posts, Keys, Amounts
<1>3. ASSUME NEW i \in WageInvoices, NEW cash \in BOOLEAN PROVE InvoiceEntries(i, cash) \in Seq(Posts)
  <2>1. <<Earned(i)>> \in Seq(Posts) /\ <<Cash(i)>> \in Seq(Posts) /\ <<>> \in Seq(Posts) BY <1>1
  <2>2. (IF cash THEN <<Cash(i)>> ELSE <<>>) \in Seq(Posts) BY <2>1
  <2>3. <<Earned(i)>> \o (IF cash THEN <<Cash(i)>> ELSE <<>>) \in Seq(Posts) BY <2>1, <2>2
  <2>4. QED BY <2>3 DEF InvoiceEntries, Earned, Cash
<1>4. QED BY <1>1, <1>2, <1>3

LEMMA AmountsTyped == Amounts \subseteq Int
<1>1. Wage \in Int /\ Total \in Int /\ Settled \subseteq Int BY AmountsAssumption
<1>2. -Total \in Int BY <1>1
<1>3. QED BY <1>1, <1>2 DEF Amounts

LEMMA WrittenTyped ==
  ASSUME LedgerTypeOK, NEW r \in Requests, req[r].todo # <<>>
  PROVE  /\ Written(r) \in Transaction
         /\ Written(r).held = req[r].held /\ Written(r).target = {}
         /\ Written(r).todo = Tail(req[r].todo) /\ Written(r).op = req[r].op
         /\ Written(r).of = req[r].of /\ Written(r).cash = req[r].cash
         /\ Written(r).pc = "next"
<1>1. req[r] \in Transaction BY DEF LedgerTypeOK
<1>2. req[r].todo \in Seq(Posts) BY <1>1 DEF Transaction
<1>3. PICK rest \in Seq(Posts) : rest = Tail(req[r].todo)
  <2>1. PICK todo \in Seq(Posts) : todo = req[r].todo BY <1>2
  <2>2. Tail(todo) \in Seq(Posts) BY <2>1
  <2>3. QED BY <2>1, <2>2
<1>4. Written(r) = [req[r] EXCEPT !.todo = rest, !.pc = "next", !.target = {}, !.credits = 0, !.balance = 0]
  BY <1>3 DEF Written
<1>5. "next" \in Kinds BY DEF Kinds
<1>6. Written(r) \in Transaction
  <2>1. PICK q \in Transaction : q = req[r] BY <1>1
  <2>2. [q EXCEPT !.todo = rest, !.pc = "next", !.target = {}, !.credits = 0, !.balance = 0]
          \in Transaction
    BY <1>5, Moves
  <2>3. QED BY <1>4, <2>1, <2>2
<1>7. QED BY <1>1, <1>3, <1>4, <1>6 DEF Transaction

\* What a request sees is a finite set of entries.
LEMMA SeesFinitely ==
  ASSUME LedgerTypeOK, NEW r, NEW S \in SUBSET Visible(r)
  PROVE  IsFiniteSet(S) /\ \A n \in S : n \in 1 .. Len(ledger) /\ ledger[n] \in LedgerRow
<1>1. PICK L \in Nat : L = Len(ledger) BY DEF LedgerTypeOK
<1>2. DOMAIN ledger = 1 .. L /\ \A n \in 1 .. L : ledger[n] \in LedgerRow BY <1>1 DEF LedgerTypeOK
<1>3. S \subseteq 1 .. L BY <1>2 DEF Visible, Committed
<1>4. IsFiniteSet(1 .. L) BY FS_Interval
<1>5. IsFiniteSet(S) BY <1>3, <1>4, FS_Subset
<1>6. QED BY <1>1, <1>2, <1>3, <1>5

LEMMA CreditsTyped ==
  ASSUME LedgerTypeOK, NEW r
  PROVE  Credits(r) \in Nat /\ Debits(r) \in Int
<1>1. PICK S : S = {n \in Visible(r) : ledger[n].amount > 0} OBVIOUS
<1>2. PICK T : T = {n \in Visible(r) : ledger[n].amount < 0} OBVIOUS
<1>3. IsFiniteSet(S) /\ \A n \in S : ledger[n] \in LedgerRow BY <1>1, SeesFinitely
<1>4. IsFiniteSet(T) /\ \A n \in T : ledger[n] \in LedgerRow BY <1>2, SeesFinitely
<1>5. \A n \in S : ledger[n].amount \in Nat
  <2>1. SUFFICES ASSUME NEW n \in S PROVE ledger[n].amount \in Nat OBVIOUS
  <2>2. ledger[n].amount \in Int BY <1>3, AmountsTyped DEF LedgerRow
  <2>3. ledger[n].amount > 0 BY <1>1
  <2>4. QED BY <2>2, <2>3
<1>6. \A n \in T : ledger[n].amount \in Int BY <1>4, AmountsTyped DEF LedgerRow
<1>7. AddUp(S) \in Nat BY <1>3, <1>5, AddUpTyped
<1>8. AddUp(T) \in Int BY <1>4, <1>6, AddUpTyped
<1>9. Credits(r) = AddUp(S) /\ Debits(r) = -AddUp(T) BY <1>1, <1>2 DEF Credits, Debits
<1>10. QED BY <1>7, <1>8, <1>9

LEMMA LedgerTypeSteps ==
  ASSUME LedgerTypeOK, [LedgerNext]_ledgerVars
  PROVE  LedgerTypeOK'
<1>1. /\ ledger \in Seq(LedgerRow)
      /\ payment \in [WageInvoices -> {"ISSUED", "PAID", "CASH"}]
      /\ req \in [Requests -> Transaction]
  BY DEF LedgerTypeOK
<1>2. CASE UNCHANGED ledgerVars BY <1>1, <1>2 DEF ledgerVars, LedgerTypeOK
<1>3. ASSUME NEW r \in Requests, NEW f \in Transaction, req' = [req EXCEPT ![r] = f],
             UNCHANGED <<ledger, payment>>
      PROVE  LedgerTypeOK'
  BY <1>1, <1>3 DEF LedgerTypeOK
<1>4. ASSUME NEW r \in Requests, BeginMarkPaid(r) PROVE LedgerTypeOK'
  <2>1. PICK i \in WageInvoices, cash \in BOOLEAN :
          BeginTransaction(r, "markPaid", i, cash, InvoiceEntries(i, cash))
    BY <1>4 DEF BeginMarkPaid
  <2>2. PICK todo \in Seq(Posts) : todo = InvoiceEntries(i, cash) BY PostsTyped
  <2>3. [NoTransaction EXCEPT !.op = "markPaid", !.of = i, !.cash = cash, !.todo = todo] \in Transaction
    BY StartTyped
  <2>4. QED BY <1>3, <2>1, <2>2, <2>3 DEF BeginTransaction
<1>5. ASSUME NEW r \in Requests, BeginBackfill(r) PROVE LedgerTypeOK'
  <2>1. PICK i \in WageInvoices : BeginTransaction(r, "backfill", i, FALSE, InvoiceEntries(i, FALSE))
    BY <1>5 DEF BeginBackfill
  <2>2. PICK todo \in Seq(Posts) : todo = InvoiceEntries(i, FALSE) BY PostsTyped
  <2>3. [NoTransaction EXCEPT !.op = "backfill", !.of = i, !.cash = FALSE, !.todo = todo] \in Transaction
    BY StartTyped
  <2>4. QED BY <1>3, <2>1, <2>2, <2>3 DEF BeginTransaction
<1>6. ASSUME NEW r \in Requests, BeginSettlement(r) PROVE LedgerTypeOK'
  <2>1. PICK token \in Tokens, amount \in Settled :
          BeginTransaction(r, "settlement", token, FALSE, <<Post(Form(token), amount)>>)
    BY <1>6 DEF BeginSettlement, Form
  <2>2. PICK todo \in Seq(Posts) : todo = <<Post(Form(token), amount)>>
    <3>1. Post(Form(token), amount) \in Posts BY PostsTyped
    <3>2. PICK post \in Posts : post = Post(Form(token), amount) BY <3>1
    <3>3. <<post>> \in Seq(Posts) OBVIOUS
    <3>4. QED BY <3>2, <3>3
  <2>3. [NoTransaction EXCEPT !.op = "settlement", !.of = token, !.cash = FALSE, !.todo = todo]
          \in Transaction
    BY StartTyped
  <2>4. QED BY <1>3, <2>1, <2>2, <2>3 DEF BeginTransaction
<1>7. ASSUME NEW r \in Requests, LookForKey(r) PROVE LedgerTypeOK'
  <2>1. PICK f : /\ f = IF Exists(r, Entry(r).key) THEN Written(r) ELSE [req[r] EXCEPT !.pc = "new"]
                 /\ req' = [req EXCEPT ![r] = f] /\ UNCHANGED <<ledger, payment>>
    BY <1>1, <1>7 DEF LookForKey
  <2>2. Written(r) \in Transaction BY <1>7, WrittenTyped DEF LookForKey, At
  <2>3. [req[r] EXCEPT !.pc = "new"] \in Transaction BY <1>1, Moves DEF Kinds
  <2>4. QED BY <1>3, <2>1, <2>2, <2>3
<1>8. ASSUME NEW r \in Requests, ChooseEntry(r) PROVE LedgerTypeOK'
  <2>1. \A n \in Visible(r) : ledger[n].key \in Keys BY SeesFinitely DEF LedgerRow
  <2>2. Latest(r) \subseteq Keys BY <2>1 DEF Latest
  <2>3. PICK target \in SUBSET Keys : req' = [req EXCEPT ![r].pc = "waiting", ![r].target = target]
    <3>1. PICK target \in IF Latest(r) = {} THEN {{}} ELSE {{key} : key \in Latest(r)} :
            req' = [req EXCEPT ![r].pc = "waiting", ![r].target = target]
      BY <1>8 DEF ChooseEntry
    <3>2. target \in SUBSET Keys BY <2>2, <3>1
    <3>3. QED BY <3>1, <3>2
  <2>4. PICK f : f = [req[r] EXCEPT !.pc = "waiting", !.target = target] OBVIOUS
  <2>5. f \in Transaction BY <1>1, <2>4, Moves DEF Kinds
  <2>6. req' = [req EXCEPT ![r] = f] BY <2>3, <2>4
  <2>7. QED BY <1>3, <1>8, <2>5, <2>6 DEF ChooseEntry
<1>9. ASSUME NEW r \in Requests, LockEntry(r) PROVE LedgerTypeOK'
  <2>1. PICK f : f = [req[r] EXCEPT !.pc = "locked"] OBVIOUS
  <2>2. f \in Transaction BY <1>1, <2>1, Moves DEF Kinds
  <2>3. req' = [req EXCEPT ![r] = f] BY <1>9, <2>1 DEF LockEntry
  <2>4. QED BY <1>3, <1>9, <2>2, <2>3 DEF LockEntry
<1>10. ASSUME NEW r \in Requests, AddCredits(r) PROVE LedgerTypeOK'
  <2>1. PICK n \in Nat : n = Credits(r) BY CreditsTyped
  <2>2. PICK f : f = [req[r] EXCEPT !.pc = "credited", !.credits = n] OBVIOUS
  <2>3. f \in Transaction BY <1>1, <2>2, Moves DEF Kinds
  <2>4. req' = [req EXCEPT ![r] = f] BY <1>10, <2>1, <2>2 DEF AddCredits
  <2>5. QED BY <1>3, <1>10, <2>3, <2>4 DEF AddCredits
<1>11. ASSUME NEW r \in Requests, SubtractDebits(r) PROVE LedgerTypeOK'
  <2>1. req[r].credits \in Nat BY <1>1 DEF Transaction
  <2>2. PICK n \in Int : n = req[r].credits - Debits(r) BY <2>1, CreditsTyped
  <2>3. PICK f : f = [req[r] EXCEPT !.pc = "added", !.balance = n, !.credits = 0] OBVIOUS
  <2>4. f \in Transaction BY <1>1, <2>3, Moves DEF Kinds
  <2>5. req' = [req EXCEPT ![r] = f] BY <1>11, <2>2, <2>3 DEF SubtractDebits
  <2>6. QED BY <1>3, <1>11, <2>4, <2>5 DEF SubtractDebits
<1>12. ASSUME NEW r \in Requests, Insert(r) PROVE LedgerTypeOK'
  <2>1. req[r] \in Transaction /\ req[r].todo \in Seq(Posts) /\ req[r].todo # <<>>
        /\ req[r].held \in SUBSET Keys /\ req[r].target \in SUBSET Keys /\ req[r].balance \in Int
    BY <1>1, <1>12 DEF Insert, At, Transaction
  <2>2. Entry(r) \in Posts BY <2>1 DEF Entry
  <2>3. PICK amount \in Amounts : amount = Entry(r).amount BY <2>2 DEF Posts
  <2>4. amount \in Int BY AmountsTyped
  <2>5. PICK after \in Int : after = req[r].balance + amount BY <2>1, <2>4
  <2>6. amount = Entry(r).amount /\ after = req[r].balance + Entry(r).amount BY <2>3, <2>5
  <2>7. PICK row : row = [key |-> Entry(r).key, amount |-> amount, after |-> after, by |-> r] OBVIOUS
  <2>8. row \in LedgerRow BY <2>2, <2>7 DEF Posts, LedgerRow
  <2>9. ledger' = Append(ledger, row) BY <1>12, <2>6, <2>7 DEF Insert
  <2>10. ledger' \in Seq(LedgerRow) BY <1>1, <2>8, <2>9
  <2>11. PICK g \in Transaction : g = Written(r) /\ g.held = req[r].held BY <2>1, WrittenTyped
  <2>12. PICK held \in SUBSET Keys : held = g.held \cup req[r].target BY <2>1, <2>11
  <2>13. [g EXCEPT !.held = held] \in Transaction BY RestTyped
  <2>14. req' = [req EXCEPT ![r] = [g EXCEPT !.held = held]] BY <1>12, <2>11, <2>12 DEF Insert
  <2>15. req' \in [Requests -> Transaction] BY <1>1, <2>13, <2>14
  <2>16. QED BY <1>1, <1>12, <2>10, <2>15 DEF Insert, LedgerTypeOK
<1>13. ASSUME NEW r \in Requests, FailEntry(r) PROVE LedgerTypeOK'
  <2>1. PICK g \in Transaction : g = Written(r) BY <1>13, WrittenTyped DEF FailEntry
  <2>2. <<>> \in Seq(Posts) OBVIOUS
  <2>3. PICK none \in Seq(Posts) : none = <<>> BY <2>2
  <2>4. [g EXCEPT !.todo = <<>>] \in Transaction BY <2>3 DEF Transaction
  <2>5. req' = [req EXCEPT ![r] = [g EXCEPT !.todo = <<>>]] BY <1>13, <2>1 DEF FailEntry
  <2>6. QED BY <1>3, <1>13, <2>4, <2>5 DEF FailEntry
<1>14. ASSUME NEW r \in Requests, Commit(r) PROVE LedgerTypeOK'
  <2>1. req' \in [Requests -> Transaction] BY <1>1, <1>14, StartTyped DEF Commit
  <2>2. payment' \in [WageInvoices -> {"ISSUED", "PAID", "CASH"}] BY <1>1, <1>14 DEF Commit
  <2>3. \A n \in DOMAIN ledger : ledger'[n] \in LedgerRow
    <3>1. SUFFICES ASSUME NEW n \in DOMAIN ledger PROVE ledger'[n] \in LedgerRow OBVIOUS
    <3>2. ledger[n] \in LedgerRow BY <1>1
    <3>3. [ledger[n] EXCEPT !.by = Nobody] \in LedgerRow BY <3>2 DEF LedgerRow
    <3>4. QED BY <1>14, <3>2, <3>3 DEF Commit
  <2>4. ledger' = [n \in 1 .. Len(ledger) |-> ledger'[n]] BY <1>1, <1>14 DEF Commit
  <2>5. DOMAIN ledger = 1 .. Len(ledger) /\ Len(ledger) \in Nat BY <1>1
  <2>6. ledger' \in Seq(LedgerRow) BY <2>3, <2>4, <2>5
  <2>7. QED BY <2>1, <2>2, <2>6 DEF LedgerTypeOK
<1>15. ASSUME NEW r \in Requests, Rollback(r) PROVE LedgerTypeOK'
  <2>1. req' \in [Requests -> Transaction] BY <1>1, <1>15, StartTyped DEF Rollback
  <2>2. Without(r) \in Seq(LedgerRow) BY <1>1, WithoutKeeps
  <2>3. QED BY <1>1, <1>15, <2>1, <2>2 DEF Rollback, LedgerTypeOK
<1>16. QED
  BY <1>2, <1>4, <1>5, <1>6, <1>7, <1>8, <1>9, <1>10, <1>11, <1>12, <1>13, <1>14, <1>15
  DEF LedgerNext, WriteEntry

LEMMA LedgerTypeStarts == LedgerInit => LedgerTypeOK
<1> SUFFICES ASSUME LedgerInit PROVE LedgerTypeOK OBVIOUS
<1>1. ledger \in Seq(LedgerRow) BY DEF LedgerInit
<1>2. QED BY <1>1, StartTyped DEF LedgerInit, LedgerTypeOK

\* Entries, invoices and requests keep their shape; the sums of the ledger are numbers.
THEOREM LedgerTypeCorrect == LedgerSpec => []LedgerTypeOK
BY LedgerTypeStarts, LedgerTypeSteps, PTL DEF LedgerSpec

----------------------------------------------------------------------------
\* The entries of a request

LEMMA Tuples ==
  ASSUME NEW a, NEW b
  PROVE  /\ Head(<<a>>) = a /\ Tail(<<a>>) = <<>> /\ <<a>> # <<>>
         /\ Head(<<a, b>>) = a /\ Tail(<<a, b>>) = <<b>> /\ <<a, b>> # <<>> /\ <<a, b>> # <<b>>
         /\ <<a>> = <<b>> => a = b
<1>1. Head(<<a>>) = a /\ Head(<<a, b>>) = a OBVIOUS
<1>2. Tail(<<a>>) = <<>> OBVIOUS
<1>3. Tail(<<a, b>>) = <<b>> OBVIOUS
<1>4. <<a>> # <<>> /\ <<a, b>> # <<>> /\ <<a, b>> # <<b>> OBVIOUS
<1>5. <<a>> = <<b>> => a = b OBVIOUS
<1>6. QED BY <1>1, <1>2, <1>3, <1>4, <1>5

LEMMA KeysDiffer ==
  /\ \A i, j : Credit(i) # Debit(j) /\ Earned(i) # Cash(j)
  /\ \A i, token : Credit(i) # Form(token) /\ Debit(i) # Form(token)
  /\ \A i, j : (Credit(i) = Credit(j) => i = j) /\ (Debit(i) = Debit(j) => i = j)
                /\ (Form(i) = Form(j) => i = j)
  /\ \A i : Earned(i).key = Credit(i) /\ Cash(i).key = Debit(i)
  /\ \A key, amount : Post(key, amount).key = key
<1>1. \A i, j : Credit(i) # Debit(j) BY DEF Credit, Debit
<1>2. \A i, token : Credit(i) # Form(token) /\ Debit(i) # Form(token) BY DEF Credit, Debit, Form
<1>3. ASSUME NEW i, NEW j
      PROVE  (Credit(i) = Credit(j) => i = j) /\ (Debit(i) = Debit(j) => i = j)
                /\ (Form(i) = Form(j) => i = j)
  <2>1. Credit(i).of = i /\ Credit(j).of = j /\ Debit(i).of = i /\ Debit(j).of = j
        /\ Form(i).of = i /\ Form(j).of = j
    BY DEF Credit, Debit, Form
  <2>2. QED BY <2>1
<1>4. \A key, amount : Post(key, amount).key = key BY DEF Post
<1>5. \A i : Earned(i).key = Credit(i) /\ Cash(i).key = Debit(i) BY <1>4 DEF Earned, Cash
<1>6. \A i, j : Earned(i) # Cash(j) BY <1>1, <1>5
<1>7. QED BY <1>1, <1>2, <1>3, <1>4, <1>5, <1>6

\* What a request with something to write writes next, and what is left then.
NextIsWage(r) ==
  LET q == req[r] IN
  /\ q.op \in {"markPaid", "backfill"} /\ q.of \in WageInvoices
  /\ Entry(r) = Earned(q.of) /\ q.todo # <<Cash(q.of)>>
  /\ Tail(q.todo) = <<>> \/ (q.op = "markPaid" /\ q.cash /\ Tail(q.todo) = <<Cash(q.of)>>)
NextIsCash(r) ==
  LET q == req[r] IN
  /\ q.op = "markPaid" /\ q.cash /\ q.of \in WageInvoices
  /\ Entry(r) = Cash(q.of) /\ q.todo = <<Cash(q.of)>> /\ Tail(q.todo) = <<>>
NextIsForm(r) ==
  LET q == req[r] IN
  /\ q.op = "settlement" /\ Entry(r).key = Form(q.of) /\ Tail(q.todo) = <<>>

LEMMA Proceeds ==
  ASSUME LedgerTypeOK, NEW r \in Requests, Fits(r), req[r].todo # <<>>
  PROVE  req[r].op # "idle" /\ (NextIsWage(r) \/ NextIsCash(r) \/ NextIsForm(r))
<1>1. req[r].op \in {"idle", "markPaid", "backfill", "settlement"} BY DEF LedgerTypeOK, Transaction
<1>2. req[r].op # "idle"
  <2>1. NoTransaction.todo = <<>> BY DEF NoTransaction
  <2>2. QED BY <2>1 DEF Fits
<1>3. PICK of : of = req[r].of OBVIOUS
<1>4. PICK a, b : a = Earned(of) /\ b = Cash(of) OBVIOUS
<1>5. a # b BY <1>4, KeysDiffer
<1>6. ASSUME req[r].todo = <<a>>, req[r].op \in {"markPaid", "backfill"} PROVE NextIsWage(r)
  <2>1. of \in WageInvoices BY <1>3, <1>6 DEF Fits
  <2>2. Head(<<a>>) = a /\ Tail(<<a>>) = <<>> /\ <<a>> # <<b>> BY <1>5, Tuples
  <2>3. QED BY <1>3, <1>4, <1>6, <2>1, <2>2 DEF NextIsWage, Entry
<1>7. ASSUME req[r].todo = <<a, b>>, req[r].op = "markPaid", req[r].cash PROVE NextIsWage(r)
  <2>1. of \in WageInvoices BY <1>3, <1>7 DEF Fits
  <2>2. Head(<<a, b>>) = a /\ Tail(<<a, b>>) = <<b>> /\ <<a, b>> # <<b>> BY Tuples
  <2>3. QED BY <1>3, <1>4, <1>7, <2>1, <2>2 DEF NextIsWage, Entry
<1>8. ASSUME req[r].todo = <<b>>, req[r].op = "markPaid", req[r].cash PROVE NextIsCash(r)
  <2>1. of \in WageInvoices BY <1>3, <1>8 DEF Fits
  <2>2. Head(<<b>>) = b /\ Tail(<<b>>) = <<>> BY Tuples
  <2>3. QED BY <1>3, <1>4, <1>8, <2>1, <2>2 DEF NextIsCash, Entry
<1>9. ASSUME NEW amount, req[r].todo = <<Post(Form(of), amount)>>, req[r].op = "settlement"
      PROVE  NextIsForm(r)
  <2>1. PICK post : post = Post(Form(of), amount) OBVIOUS
  <2>2. Head(<<post>>) = post /\ Tail(<<post>>) = <<>> BY Tuples
  <2>3. post.key = Form(of) BY <2>1, KeysDiffer
  <2>4. QED BY <1>3, <1>9, <2>1, <2>2, <2>3 DEF NextIsForm, Entry
<1>10. CASE req[r].op = "markPaid"
  <2>1. \/ req[r].todo \in {<<>>, <<a>>}
        \/ req[r].cash /\ req[r].todo \in {<<a, b>>, <<b>>}
    BY <1>3, <1>4, <1>10 DEF Fits
  <2>2. QED BY <1>2, <1>6, <1>7, <1>8, <1>10, <2>1
<1>11. CASE req[r].op = "backfill"
  <2>1. req[r].todo \in {<<>>, <<a>>} BY <1>3, <1>4, <1>11 DEF Fits
  <2>2. QED BY <1>2, <1>6, <1>11, <2>1
<1>12. CASE req[r].op = "settlement"
  <2>1. \E amount \in Settled : req[r].todo = <<Post(Form(of), amount)>> BY <1>3, <1>12 DEF Fits
  <2>2. QED BY <1>2, <1>9, <1>12, <2>1
<1>13. QED BY <1>1, <1>2, <1>10, <1>11, <1>12

LEMMA Joined ==
  ASSUME NEW a, NEW b
  PROVE  <<a>> \o <<b>> = <<a, b>> /\ <<a>> \o <<>> = <<a>>
<1>1. PICK D : D = {a, b} OBVIOUS
<1>2. <<a>> \in Seq(D) /\ <<b>> \in Seq(D) /\ <<>> \in Seq(D) BY <1>1
<1>3. PICK u \in Seq(D), v \in Seq(D), w \in Seq(D) : u = <<a>> /\ v = <<b>> /\ w = <<>> BY <1>2
<1>4. Len(u) = 1 /\ Len(v) = 1 /\ Len(w) = 0 /\ u[1] = a /\ v[1] = b BY <1>3
<1> DEFINE Join(z, x, y) ==
             /\ z = x \o y /\ Len(z) = Len(x) + Len(y)
             /\ \A n \in 1 .. Len(x) + Len(y) : z[n] = IF n <= Len(x) THEN x[n] ELSE y[n - Len(x)]
<1>5. ASSUME NEW x \in Seq(D), NEW y \in Seq(D) PROVE \E z \in Seq(D) : Join(z, x, y)
  <2>1. x \o y \in Seq(D) /\ Len(x \o y) = Len(x) + Len(y)
        /\ \A n \in 1 .. Len(x) + Len(y) : (x \o y)[n] = IF n <= Len(x) THEN x[n] ELSE y[n - Len(x)]
    BY ConcatProperties, Zenon
  <2>2. QED BY <2>1, Zenon
<1> HIDE DEF Join
<1>6. PICK s \in Seq(D) : Join(s, u, v) BY <1>5, Zenon
<1>7. PICK t \in Seq(D) : Join(t, u, w) BY <1>5, Zenon
<1> USE DEF Join
<1>8. Len(s) = 2 /\ Len(t) = 1 BY <1>4, <1>6, <1>7
<1>9. s[1] = a /\ t[1] = a /\ s[2] = b BY <1>4, <1>6, <1>7
<1>10. s = <<a, b>>
  <2>1. s = [n \in 1 .. 2 |-> s[n]] BY <1>8
  <2>2. <<a, b>> = [n \in 1 .. 2 |-> IF n = 1 THEN a ELSE b] OBVIOUS
  <2>3. QED BY <1>9, <2>1, <2>2
<1>11. t = <<a>>
  <2>1. t = [n \in 1 .. 1 |-> t[n]] BY <1>8
  <2>2. <<a>> = [n \in 1 .. 1 |-> a] OBVIOUS
  <2>3. QED BY <1>9, <2>1, <2>2
<1>12. QED BY <1>3, <1>6, <1>7, <1>10, <1>11

LEMMA EntriesAre ==
  ASSUME NEW i
  PROVE  /\ InvoiceEntries(i, TRUE) = <<Earned(i), Cash(i)>>
         /\ InvoiceEntries(i, FALSE) = <<Earned(i)>>
<1>1. PICK a, b : a = Earned(i) /\ b = Cash(i) OBVIOUS
<1>2. <<a>> \o <<b>> = <<a, b>> /\ <<a>> \o <<>> = <<a>> BY Joined
<1>3. QED BY <1>1, <1>2 DEF InvoiceEntries, Earned, Cash

----------------------------------------------------------------------------
\* Steps that leave the ledger and the invoices alone

LEMMA RowsOf ==
  ASSUME LedgerTypeOK
  PROVE  /\ \A r \in Requests : r # Nobody /\ Visible(r) = Committed \cup Rows(r)
         /\ Committed \subseteq DOMAIN ledger
         /\ \A r \in Requests : Rows(r) \subseteq DOMAIN ledger /\ Rows(r) \cap Committed = {}
         /\ \A r, q \in Requests : r # q => Rows(r) \cap Rows(q) = {}
         /\ \A n \in DOMAIN ledger : n \in Committed \/ \E q \in Requests : n \in Rows(q)
         /\ DOMAIN ledger = 1 .. Len(ledger) /\ Len(ledger) \in Nat
<1>1. \A r \in Requests : r # Nobody BY NobodyAssumption
<1>2. \A n \in DOMAIN ledger : ledger[n].by \in Requests \cup {Nobody}
  <2>1. \A n \in DOMAIN ledger : ledger[n] \in LedgerRow BY DEF LedgerTypeOK
  <2>2. QED BY <2>1 DEF LedgerRow
<1>3. DOMAIN ledger = 1 .. Len(ledger) /\ Len(ledger) \in Nat BY DEF LedgerTypeOK
<1>4. QED BY <1>1, <1>2, <1>3 DEF Rows, Committed, Visible

\* One request changes; what holds of it then is enough.
LEMMA OneMoves ==
  ASSUME LedgerTypeOK, LedgerBooked, NEW r \in Requests, NEW f,
         req' = [req EXCEPT ![r] = f], UNCHANGED <<ledger, payment>>,
         Fits(r)', \A n \in Rows(r) : Entered(r, n)',
         f.op = "markPaid" /\ f.todo = <<Cash(f.of)>> => f.cash /\ CreditSeen(r)',
         f.op = "markPaid" =>
           \A q \in Requests \ {r} : ~(req[q].op = "markPaid" /\ req[q].of = f.of)
  PROVE  LedgerBooked'
<1>1. req'[r] = f /\ \A q \in Requests : q # r => req'[q] = req[q] BY DEF LedgerTypeOK
<1>2. \A q : Visible(q)' = Visible(q) /\ Rows(q)' = Rows(q) BY DEF Visible, Committed, Rows
<1>3. AllFit'
  <2>1. ASSUME NEW q \in Requests, q # r PROVE Fits(q)' BY <1>1, <2>1 DEF LedgerBooked, AllFit, Fits
  <2>2. QED BY <2>1 DEF AllFit
<1>4. ASSUME NEW q \in Requests, q # r PROVE CreditSeen(q)' <=> CreditSeen(q)
  BY <1>1, <1>2, <1>4 DEF CreditSeen
<1>5. RowsEntered'
  <2>1. ASSUME NEW q \in Requests, q # r, NEW n \in Rows(q) PROVE Entered(q, n)'
    <3>1. Entered(q, n) BY <2>1 DEF LedgerBooked, RowsEntered
    <3>2. QED BY <1>1, <1>4, <2>1, <3>1 DEF Entered
  <2>2. QED BY <1>2, <2>1 DEF RowsEntered
<1>6. CashFollows'
  <2>1. ASSUME NEW q \in Requests, q # r, req[q].op = "markPaid", req[q].todo = <<Cash(req[q].of)>>
        PROVE  req[q].cash /\ CreditSeen(q)'
    BY <1>4, <2>1 DEF LedgerBooked, CashFollows
  <2>2. QED BY <1>1, <2>1 DEF CashFollows
<1>7. OnePayer' BY <1>1 DEF LedgerBooked, OnePayer
<1>8. PostedOnce' BY DEF LedgerBooked, PostedOnce
<1>9. EntriesFollowPayment' BY <1>2 DEF LedgerBooked, EntriesFollowPayment, Posted, Committed
<1>10. QED BY <1>3, <1>5, <1>6, <1>7, <1>8, <1>9 DEF LedgerBooked

\* A request that writes, at another place or with less to write.
LEMMA OneGoesOn ==
  ASSUME LedgerTypeOK, LedgerBooked, NEW r \in Requests, req[r].todo # <<>>, NEW f,
         req' = [req EXCEPT ![r] = f], UNCHANGED <<ledger, payment>>,
         f.op = req[r].op, f.of = req[r].of, f.cash = req[r].cash,
         \/ f.todo = req[r].todo
         \/ f.todo = <<>>
         \/ f.op = "markPaid" /\ f.todo = <<Cash(f.of)>> /\ f.cash /\ CreditSeen(r)
  PROVE  LedgerBooked'
<1>1. req'[r] = f /\ req[r].op # "idle" BY Proceeds DEF LedgerTypeOK, LedgerBooked, AllFit
<1>2. Fits(r)'
  <2>1. CASE f.todo = req[r].todo BY <1>1, <2>1 DEF LedgerBooked, AllFit, Fits
  <2>2. CASE f.todo = <<>> BY <1>1, <2>2 DEF LedgerBooked, AllFit, Fits
  <2>3. CASE f.op = "markPaid" /\ f.todo = <<Cash(f.of)>> /\ f.cash
    BY <1>1, <2>3 DEF LedgerBooked, AllFit, Fits
  <2>4. QED BY <2>1, <2>2, <2>3
<1>3. CreditSeen(r)' <=> CreditSeen(r) BY <1>1 DEF CreditSeen, Visible, Committed
<1>4. ASSUME NEW n \in Rows(r) PROVE Entered(r, n)'
  <2>1. Entered(r, n) BY <1>4 DEF LedgerBooked, RowsEntered
  <2>2. /\ req[r].op = "markPaid" /\ req[r].todo = <<Cash(req[r].of)>>
        /\ ledger[n].key = Credit(req[r].of)
    BY <2>1 DEF Entered
  <2>3. f.todo \in {<<>>, <<Cash(f.of)>>} BY <2>2
  <2>4. QED BY <1>1, <2>2, <2>3 DEF Entered
<1>5. f.op = "markPaid" /\ f.todo = <<Cash(f.of)>> => f.cash /\ CreditSeen(r)'
  <2>1. <<Cash(f.of)>> # <<>> BY Tuples
  <2>2. req[r].op = "markPaid" /\ req[r].todo = <<Cash(req[r].of)>> => req[r].cash /\ CreditSeen(r)
    BY DEF LedgerBooked, CashFollows
  <2>3. QED BY <1>3, <2>1, <2>2
<1>6. f.op = "markPaid" =>
        \A q \in Requests \ {r} : ~(req[q].op = "markPaid" /\ req[q].of = f.of)
  BY DEF LedgerBooked, OnePayer
<1>7. QED BY <1>2, <1>4, <1>5, <1>6, OneMoves

LEMMA BeginKeepsBooked ==
  ASSUME LedgerTypeOK, LedgerBooked, NEW r \in Requests,
         BeginMarkPaid(r) \/ BeginBackfill(r) \/ BeginSettlement(r)
  PROVE  LedgerBooked'
<1>1. ASSUME req[r] = NoTransaction PROVE Rows(r) = {}
  <2>1. req[r].op = "idle" BY <1>1 DEF NoTransaction
  <2>2. ASSUME NEW n \in Rows(r) PROVE FALSE
    <3>1. Entered(r, n) BY DEF LedgerBooked, RowsEntered
    <3>2. QED BY <2>1, <3>1 DEF Entered
  <2>3. QED BY <2>2
<1>2. CASE BeginMarkPaid(r)
  <2>1. PICK i \in WageInvoices, cash \in BOOLEAN :
          /\ payment[i] = "ISSUED"
          /\ \A q \in Requests : req[q].op = "markPaid" => req[q].of # i
          /\ BeginTransaction(r, "markPaid", i, cash, InvoiceEntries(i, cash))
    BY <1>2 DEF BeginMarkPaid
  <2>2. PICK todo : todo = InvoiceEntries(i, cash) OBVIOUS
  <2>3. PICK f : f = [NoTransaction EXCEPT !.op = "markPaid", !.of = i, !.cash = cash, !.todo = todo] OBVIOUS
  <2>4. req[r] = NoTransaction /\ req' = [req EXCEPT ![r] = f] /\ UNCHANGED <<ledger, payment>>
    BY <2>1, <2>2, <2>3 DEF BeginTransaction
  <2>5. /\ req' = [req EXCEPT ![r] = f] /\ req'[r] = f /\ UNCHANGED <<ledger, payment>>
        /\ Rows(r) = {} /\ f.op = "markPaid" /\ f.of = i /\ f.cash = cash /\ f.todo = todo
    BY <1>1, <2>3, <2>4 DEF NoTransaction, LedgerTypeOK
  <2>6. IF cash THEN todo = <<Earned(i), Cash(i)>> ELSE todo = <<Earned(i)>> BY <2>2, EntriesAre
  <2>7. Fits(r)' BY <2>1, <2>5, <2>6 DEF Fits
  <2>8. todo # <<Cash(i)>> BY <2>6, Tuples, KeysDiffer
  <2>9. QED BY <2>1, <2>5, <2>7, <2>8, OneMoves
<1>3. CASE BeginBackfill(r)
  <2>1. PICK i \in WageInvoices :
          /\ payment[i] # "ISSUED"
          /\ BeginTransaction(r, "backfill", i, FALSE, InvoiceEntries(i, FALSE))
    BY <1>3 DEF BeginBackfill
  <2>2. PICK todo : todo = InvoiceEntries(i, FALSE) OBVIOUS
  <2>3. PICK f : f = [NoTransaction EXCEPT !.op = "backfill", !.of = i, !.cash = FALSE, !.todo = todo] OBVIOUS
  <2>4. req[r] = NoTransaction /\ req' = [req EXCEPT ![r] = f] /\ UNCHANGED <<ledger, payment>>
    BY <2>1, <2>2, <2>3 DEF BeginTransaction
  <2>5. /\ req' = [req EXCEPT ![r] = f] /\ req'[r] = f /\ UNCHANGED <<ledger, payment>>
        /\ Rows(r) = {} /\ f.op = "backfill" /\ f.of = i /\ f.todo = todo
    BY <1>1, <2>3, <2>4 DEF NoTransaction, LedgerTypeOK
  <2>6. todo = <<Earned(i)>> BY <2>2, EntriesAre
  <2>7. Fits(r)' BY <2>1, <2>5, <2>6 DEF Fits
  <2>8. QED BY <2>5, <2>7, OneMoves
<1>4. CASE BeginSettlement(r)
  <2>1. PICK token \in Tokens, amount \in Settled :
          BeginTransaction(r, "settlement", token, FALSE, <<Post(Form(token), amount)>>)
    BY <1>4 DEF BeginSettlement, Form
  <2>2. PICK todo : todo = <<Post(Form(token), amount)>> OBVIOUS
  <2>3. PICK f : f = [NoTransaction EXCEPT !.op = "settlement", !.of = token, !.cash = FALSE, !.todo = todo] OBVIOUS
  <2>4. req[r] = NoTransaction /\ req' = [req EXCEPT ![r] = f] /\ UNCHANGED <<ledger, payment>>
    BY <2>1, <2>2, <2>3 DEF BeginTransaction
  <2>5. /\ req' = [req EXCEPT ![r] = f] /\ req'[r] = f /\ UNCHANGED <<ledger, payment>>
        /\ Rows(r) = {} /\ f.op = "settlement" /\ f.of = token /\ f.todo = todo
    BY <1>1, <2>3, <2>4 DEF NoTransaction, LedgerTypeOK
  <2>6. Fits(r)' BY <2>1, <2>2, <2>5 DEF Fits
  <2>7. QED BY <2>5, <2>6, OneMoves
<1>5. QED BY <1>2, <1>3, <1>4

LEMMA WorkKeepsBooked ==
  ASSUME LedgerTypeOK, LedgerBooked, NEW r \in Requests,
         \/ LookForKey(r) \/ ChooseEntry(r) \/ LockEntry(r) \/ AddCredits(r) \/ SubtractDebits(r)
         \/ FailEntry(r)
  PROVE  LedgerBooked'
<1>1. req[r] \in Transaction BY DEF LedgerTypeOK
<1>2. CASE LookForKey(r)
  <2>1. req[r].todo # <<>> BY <1>2 DEF LookForKey, At
  <2>2. CASE ~Exists(r, Entry(r).key)
    <3>1. PICK f : f = [req[r] EXCEPT !.pc = "new"] OBVIOUS
    <3>2. req' = [req EXCEPT ![r] = f] /\ UNCHANGED <<ledger, payment>>
      BY <1>1, <1>2, <2>2, <3>1 DEF LookForKey, LedgerTypeOK
    <3>3. f.op = req[r].op /\ f.of = req[r].of /\ f.cash = req[r].cash /\ f.todo = req[r].todo
      BY <1>1, <3>1 DEF Transaction
    <3>4. QED BY <2>1, <3>2, <3>3, OneGoesOn
  <2>3. CASE Exists(r, Entry(r).key)
    <3>1. PICK f : f = Written(r) OBVIOUS
    <3>2. req' = [req EXCEPT ![r] = f] /\ UNCHANGED <<ledger, payment>> BY <1>2, <2>3, <3>1 DEF LookForKey
    <3>3. f.op = req[r].op /\ f.of = req[r].of /\ f.cash = req[r].cash /\ f.todo = Tail(req[r].todo)
      BY <2>1, <3>1, WrittenTyped
    <3>4. NextIsWage(r) \/ NextIsCash(r) \/ NextIsForm(r) BY <2>1, Proceeds DEF LedgerBooked, AllFit
    <3>5. NextIsWage(r) => CreditSeen(r)
      <4>1. NextIsWage(r) => Entry(r).key = Credit(req[r].of) BY KeysDiffer DEF NextIsWage
      <4>2. QED BY <2>3, <4>1 DEF Exists, CreditSeen
    <3>6. \/ f.todo = <<>>
          \/ f.op = "markPaid" /\ f.todo = <<Cash(f.of)>> /\ f.cash /\ CreditSeen(r)
      BY <3>3, <3>4, <3>5 DEF NextIsWage, NextIsCash, NextIsForm
    <3>7. QED BY <2>1, <3>2, <3>3, <3>6, OneGoesOn
  <2>4. QED BY <2>2, <2>3
<1>3. ASSUME NEW f, req[r].todo # <<>>, req' = [req EXCEPT ![r] = f], UNCHANGED <<ledger, payment>>,
             \/ \E pc : f = [req[r] EXCEPT !.pc = pc]
             \/ \E pc, target : f = [req[r] EXCEPT !.pc = pc, !.target = target]
             \/ \E pc, n : f = [req[r] EXCEPT !.pc = pc, !.credits = n]
             \/ \E pc, n : f = [req[r] EXCEPT !.pc = pc, !.balance = n, !.credits = 0]
      PROVE  LedgerBooked'
  <2>1. f.op = req[r].op /\ f.of = req[r].of /\ f.cash = req[r].cash /\ f.todo = req[r].todo
    BY <1>1, <1>3 DEF Transaction
  <2>2. QED BY <1>3, <2>1, OneGoesOn
<1>4. CASE ChooseEntry(r)
  <2>1. PICK target : req' = [req EXCEPT ![r].pc = "waiting", ![r].target = target]
    BY <1>4 DEF ChooseEntry
  <2>2. PICK f : f = [req[r] EXCEPT !.pc = "waiting", !.target = target] OBVIOUS
  <2>3. req' = [req EXCEPT ![r] = f] BY <2>1, <2>2
  <2>4. QED BY <1>3, <1>4, <2>2, <2>3 DEF ChooseEntry, At
<1>5. CASE LockEntry(r)
  <2>1. PICK f : f = [req[r] EXCEPT !.pc = "locked"] OBVIOUS
  <2>2. req' = [req EXCEPT ![r] = f] BY <1>5, <2>1 DEF LockEntry
  <2>3. QED BY <1>3, <1>5, <2>1, <2>2 DEF LockEntry, At
<1>6. CASE AddCredits(r)
  <2>1. PICK f : f = [req[r] EXCEPT !.pc = "credited", !.credits = Credits(r)] OBVIOUS
  <2>2. req' = [req EXCEPT ![r] = f] BY <1>6, <2>1 DEF AddCredits
  <2>3. QED BY <1>3, <1>6, <2>1, <2>2 DEF AddCredits, At
<1>7. CASE SubtractDebits(r)
  <2>1. PICK f : f = [req[r] EXCEPT !.pc = "added", !.balance = req[r].credits - Debits(r), !.credits = 0]
    OBVIOUS
  <2>2. req' = [req EXCEPT ![r] = f] BY <1>7, <2>1 DEF SubtractDebits
  <2>3. QED BY <1>3, <1>7, <2>1, <2>2 DEF SubtractDebits, At
<1>8. CASE FailEntry(r)
  <2>1. PICK g \in Transaction : g = Written(r) /\ g.op = req[r].op /\ g.of = req[r].of /\ g.cash = req[r].cash
    BY <1>8, WrittenTyped DEF FailEntry
  <2>2. PICK f : f = [g EXCEPT !.todo = <<>>] OBVIOUS
  <2>3. f.op = req[r].op /\ f.of = req[r].of /\ f.cash = req[r].cash /\ f.todo = <<>>
    BY <2>1, <2>2 DEF Transaction
  <2>4. req' = [req EXCEPT ![r] = f] BY <1>8, <2>1, <2>2 DEF FailEntry
  <2>5. QED BY <1>8, <2>3, <2>4, OneGoesOn DEF FailEntry
<1>9. QED BY <1>2, <1>4, <1>5, <1>6, <1>7, <1>8

----------------------------------------------------------------------------
\* Steps that change the ledger

\* What others have written and have to write, when their rows stay, wherever they are then.
LEMMA OthersKeep ==
  ASSUME LedgerTypeOK, LedgerBooked, NEW q \in Requests, req'[q] = req[q],
         \A m \in Visible(q) : \E n \in Visible(q)' : ledger'[n].key = ledger[m].key,
         \A n \in Rows(q)' : \E m \in Rows(q) : ledger[m].key = ledger'[n].key,
         req[q].op = "markPaid" => payment'[req[q].of] = payment[req[q].of],
         req[q].op = "backfill" => payment'[req[q].of] # "ISSUED"
  PROVE  /\ Fits(q)' /\ \A n \in Rows(q)' : Entered(q, n)'
         /\ req[q].op = "markPaid" /\ req[q].todo = <<Cash(req[q].of)>> => req[q].cash /\ CreditSeen(q)'
<1>1. Fits(q)' BY DEF LedgerBooked, AllFit, Fits
<1>2. CreditSeen(q) => CreditSeen(q)' BY DEF CreditSeen
<1>3. ASSUME NEW n \in Rows(q)' PROVE Entered(q, n)'
  <2>1. PICK m \in Rows(q) : ledger[m].key = ledger'[n].key BY <1>3
  <2>2. Entered(q, m) BY DEF LedgerBooked, RowsEntered
  <2>3. QED BY <1>2, <2>1, <2>2 DEF Entered
<1>4. req[q].op = "markPaid" /\ req[q].todo = <<Cash(req[q].of)>> => req[q].cash /\ CreditSeen(q)'
  BY <1>2 DEF LedgerBooked, CashFollows
<1>5. QED BY <1>1, <1>3, <1>4

LEMMA InsertKeepsBooked ==
  ASSUME LedgerTypeOK, LedgerBooked, NEW r \in Requests, Insert(r)
  PROVE  LedgerBooked'
<1>1. req[r].todo # <<>> /\ Inserted(Entry(r).key) = {} BY DEF Insert, At, MayInsert
<1>2. PICK g : g = Written(r) OBVIOUS
<1>3. PICK f : f = [g EXCEPT !.held = @ \cup req[r].target] OBVIOUS
<1>4. req' = [req EXCEPT ![r] = f] BY <1>2, <1>3 DEF Insert
<1>5. /\ f.op = req[r].op /\ f.of = req[r].of /\ f.cash = req[r].cash /\ f.todo = Tail(req[r].todo)
  <2>1. g \in Transaction /\ g.op = req[r].op /\ g.of = req[r].of /\ g.cash = req[r].cash
        /\ g.todo = Tail(req[r].todo)
    BY <1>1, <1>2, WrittenTyped
  <2>2. QED BY <1>3, <2>1 DEF Transaction
<1>6. req'[r] = f /\ \A q \in Requests : q # r => req'[q] = req[q] BY <1>4 DEF LedgerTypeOK
<1>7. PICK new : new = Len(ledger) + 1 OBVIOUS
<1>8. PICK row : /\ row = [key |-> Entry(r).key, amount |-> Entry(r).amount,
                           after |-> req[r].balance + Entry(r).amount, by |-> r]
                 /\ ledger' = Append(ledger, row)
  BY DEF Insert
<1>9. /\ DOMAIN ledger' = DOMAIN ledger \cup {new} /\ new \notin DOMAIN ledger
      /\ ledger'[new] = row /\ \A n \in DOMAIN ledger : ledger'[n] = ledger[n]
  <2>1. ledger \in Seq(LedgerRow) BY DEF LedgerTypeOK
  <2>2. QED BY <1>7, <1>8, <2>1
<1>10. row.by = r /\ row.key = Entry(r).key /\ r # Nobody BY <1>8, RowsOf
<1>11. Committed' = Committed /\ Rows(r)' = Rows(r) \cup {new}
       /\ \A q : q # r => Rows(q)' = Rows(q)
  BY <1>9, <1>10 DEF Committed, Rows
<1>12. Visible(r)' = Visible(r) \cup {new} /\ \A q : q # r => Visible(q)' = Visible(q)
  BY <1>9, <1>10 DEF Committed, Visible
<1>13. \A q : Visible(q) \subseteq DOMAIN ledger /\ Rows(q) \subseteq DOMAIN ledger
  BY DEF Visible, Committed, Rows
<1>14. UNCHANGED payment BY DEF Insert
<1>15. ASSUME NEW q \in Requests, q # r
       PROVE  /\ Fits(q)' /\ \A n \in Rows(q)' : Entered(q, n)'
              /\ req[q].op = "markPaid" /\ req[q].todo = <<Cash(req[q].of)>> => req[q].cash /\ CreditSeen(q)'
  <2>1. \A m \in Visible(q) : \E n \in Visible(q)' : ledger'[n].key = ledger[m].key
    BY <1>9, <1>12, <1>13, <1>15
  <2>2. \A n \in Rows(q)' : \E m \in Rows(q) : ledger[m].key = ledger'[n].key
    BY <1>9, <1>11, <1>13, <1>15
  <2>3. req[q].op = "backfill" => payment'[req[q].of] # "ISSUED"
    BY <1>14 DEF LedgerBooked, AllFit, Fits
  <2>4. QED BY <1>6, <1>14, <1>15, <2>1, <2>2, <2>3, OthersKeep
<1>16. req[r].op # "idle" /\ (NextIsWage(r) \/ NextIsCash(r) \/ NextIsForm(r))
  BY <1>1, Proceeds DEF LedgerBooked, AllFit
<1>17. CreditSeen(r) => CreditSeen(r)'
  BY <1>5, <1>6, <1>9, <1>12, <1>13 DEF CreditSeen
<1>18. NextIsWage(r) => ledger'[new].key = Credit(req[r].of) /\ CreditSeen(r)'
  <2>1. NextIsWage(r) => Entry(r).key = Credit(req[r].of) BY KeysDiffer DEF NextIsWage
  <2>2. QED BY <1>5, <1>6, <1>9, <1>10, <1>12, <2>1 DEF CreditSeen
<1>19. Fits(r)'
  <2>1. Fits(r) BY DEF LedgerBooked, AllFit
  <2>2. f.todo = <<>> \/ (f.op = "markPaid" /\ f.cash /\ f.todo = <<Cash(f.of)>>)
    BY <1>5, <1>16 DEF NextIsWage, NextIsCash, NextIsForm
  <2>3. CASE f.todo = <<>> BY <1>5, <1>6, <1>14, <1>16, <2>1, <2>3 DEF Fits
  <2>4. CASE f.op = "markPaid" /\ f.cash /\ f.todo = <<Cash(f.of)>>
    BY <1>5, <1>6, <1>14, <1>16, <2>1, <2>4 DEF Fits
  <2>5. QED BY <2>2, <2>3, <2>4
<1>20. ASSUME NEW n \in Rows(r)' PROVE Entered(r, n)'
  <2>1. CASE n \in Rows(r)
    <3>1. Entered(r, n) /\ ledger'[n] = ledger[n] BY <1>9, <1>13, <2>1 DEF LedgerBooked, RowsEntered
    <3>2. /\ req[r].op = "markPaid" /\ req[r].todo = <<Cash(req[r].of)>>
          /\ ledger[n].key = Credit(req[r].of)
      BY <1>1, <3>1 DEF Entered
    <3>3. Tail(req[r].todo) = <<>> BY <3>2, Tuples
    <3>4. QED BY <1>5, <1>6, <3>1, <3>2, <3>3 DEF Entered
  <2>2. CASE n = new
    <3>1. CASE NextIsWage(r) BY <1>5, <1>6, <1>18, <2>2, <3>1 DEF NextIsWage, Entered
    <3>2. CASE NextIsCash(r)
      <4>1. ledger'[new].key = Debit(req[r].of) BY <1>9, <1>10, <3>2, KeysDiffer DEF NextIsCash
      <4>2. CreditSeen(r) BY <3>2 DEF NextIsCash, LedgerBooked, CashFollows
      <4>3. QED BY <1>5, <1>6, <1>17, <2>2, <3>2, <4>1, <4>2 DEF NextIsCash, Entered
    <3>3. CASE NextIsForm(r) BY <1>5, <1>6, <1>9, <1>10, <2>2, <3>3 DEF NextIsForm, Entered
    <3>4. QED BY <1>16, <3>1, <3>2, <3>3
  <2>3. QED BY <1>11, <2>1, <2>2
<1>21. req'[r].op = "markPaid" /\ req'[r].todo = <<Cash(req'[r].of)>> => req'[r].cash /\ CreditSeen(r)'
  <2>1. <<Cash(f.of)>> # <<>> BY Tuples
  <2>2. f.todo = <<>> \/ (NextIsWage(r) /\ f.cash)
    BY <1>5, <1>16 DEF NextIsWage, NextIsCash, NextIsForm
  <2>3. QED BY <1>6, <1>18, <2>1, <2>2
<1>22. AllFit' BY <1>15, <1>19 DEF AllFit
<1>23. RowsEntered' BY <1>15, <1>20 DEF RowsEntered
<1>24. CashFollows' BY <1>6, <1>15, <1>21 DEF CashFollows
<1>25. OnePayer' BY <1>5, <1>6 DEF LedgerBooked, OnePayer
<1>26. PostedOnce'
  <2>1. \A n \in DOMAIN ledger : ledger[n].key # row.key BY <1>1, <1>10 DEF Inserted
  <2>2. QED BY <1>9, <2>1 DEF LedgerBooked, PostedOnce
<1>27. EntriesFollowPayment'
  <2>1. \A key : Posted(key)' <=> Posted(key)
    BY <1>9, <1>11 DEF Posted, Committed
  <2>2. QED BY <1>14, <2>1 DEF LedgerBooked, EntriesFollowPayment
<1>28. QED BY <1>22, <1>23, <1>24, <1>25, <1>26, <1>27 DEF LedgerBooked

LEMMA CommitKeepsBooked ==
  ASSUME LedgerTypeOK, LedgerBooked, NEW r \in Requests, Commit(r)
  PROVE  LedgerBooked'
<1>1. req'[r] = NoTransaction /\ \A q \in Requests : q # r => req'[q] = req[q] BY DEF Commit, LedgerTypeOK
<1>2. r # Nobody /\ DOMAIN ledger' = DOMAIN ledger BY RowsOf DEF Commit
<1>3. ASSUME NEW n \in DOMAIN ledger
      PROVE  /\ ledger'[n].key = ledger[n].key
             /\ ledger'[n].by = IF n \in Rows(r) THEN Nobody ELSE ledger[n].by
  <2>1. ledger[n] \in LedgerRow BY DEF LedgerTypeOK
  <2>2. ledger'[n] = IF n \in Rows(r) THEN [ledger[n] EXCEPT !.by = Nobody] ELSE ledger[n] BY DEF Commit
  <2>3. QED BY <2>1, <2>2 DEF LedgerRow
<1>4. /\ Committed' = Committed \cup Rows(r) /\ Rows(r)' = {}
      /\ \A q \in Requests : q # r => Rows(q)' = Rows(q)
  <2>1. Committed' = Committed \cup Rows(r) BY <1>2, <1>3 DEF Committed, Rows
  <2>2. Rows(r)' = {} BY <1>2, <1>3 DEF Rows
  <2>3. \A q \in Requests : q # r => Rows(q)' = Rows(q) BY <1>2, <1>3, RowsOf DEF Rows
  <2>4. QED BY <2>1, <2>2, <2>3
<1>5. \A q \in Requests : q # r => Visible(q) \subseteq Visible(q)'
  <2>1. \A q : Visible(q)' = Committed' \cup Rows(q)' BY DEF Visible, Rows
  <2>2. QED BY <1>4, <2>1, RowsOf
<1>6. \A q : Visible(q) \subseteq DOMAIN ledger /\ Rows(q) \subseteq DOMAIN ledger
  BY DEF Visible, Committed, Rows
<1>7. \A i \in WageInvoices :
        /\ payment'[i] # payment[i] => /\ req[r].op = "markPaid" /\ req[r].of = i
                                       /\ payment[i] = "ISSUED"
        /\ req[r].op = "markPaid" /\ req[r].of = i => payment'[i] = IF req[r].cash THEN "CASH" ELSE "PAID"
        /\ payment[i] # "ISSUED" => payment'[i] # "ISSUED"
  <2>1. req[r].op = "markPaid" => req[r].of \in WageInvoices /\ payment[req[r].of] = "ISSUED"
    BY DEF LedgerBooked, AllFit, Fits
  <2>2. payment' = IF req[r].op = "markPaid"
                     THEN [payment EXCEPT ![req[r].of] = IF req[r].cash THEN "CASH" ELSE "PAID"]
                     ELSE payment
    BY DEF Commit
  <2>3. QED BY <2>1, <2>2 DEF LedgerTypeOK
<1>8. ASSUME NEW q \in Requests, q # r
      PROVE  /\ Fits(q)' /\ \A n \in Rows(q)' : Entered(q, n)'
             /\ req[q].op = "markPaid" /\ req[q].todo = <<Cash(req[q].of)>> => req[q].cash /\ CreditSeen(q)'
  <2>1. \A m \in Visible(q) : \E n \in Visible(q)' : ledger'[n].key = ledger[m].key
    BY <1>3, <1>5, <1>6, <1>8
  <2>2. \A n \in Rows(q)' : \E m \in Rows(q) : ledger[m].key = ledger'[n].key
    BY <1>3, <1>4, <1>6, <1>8
  <2>3. Fits(q) BY DEF LedgerBooked, AllFit
  <2>4. req[q].op = "markPaid" => payment'[req[q].of] = payment[req[q].of]
    <3>1. req[q].op = "markPaid" /\ req[r].op = "markPaid" => req[q].of # req[r].of
      BY <1>8 DEF LedgerBooked, OnePayer
    <3>2. QED BY <1>7, <2>3, <3>1 DEF Fits
  <2>5. req[q].op = "backfill" => payment'[req[q].of] # "ISSUED" BY <1>7, <2>3 DEF Fits
  <2>6. QED BY <1>1, <1>8, <2>1, <2>2, <2>4, <2>5, OthersKeep
<1>9. NoTransaction.op = "idle" BY DEF NoTransaction
<1>10. Fits(r)' BY <1>1, <1>9 DEF Fits
<1>11. AllFit' BY <1>8, <1>10 DEF AllFit
<1>12. RowsEntered' BY <1>4, <1>8 DEF RowsEntered
<1>13. CashFollows' BY <1>1, <1>8, <1>9 DEF CashFollows
<1>14. OnePayer' BY <1>1, <1>9 DEF LedgerBooked, OnePayer
<1>15. PostedOnce' BY <1>2, <1>3 DEF LedgerBooked, PostedOnce
<1>16. EntriesFollowPayment'
  <2>1. ASSUME NEW i \in WageInvoices, Posted(Credit(i))' PROVE payment'[i] # "ISSUED"
    <3>1. PICK n \in Committed' : ledger'[n].key = Credit(i) BY <2>1 DEF Posted
    <3>2. CASE n \in Committed
      <4>1. Posted(Credit(i)) BY <1>3, <1>6, <3>1, <3>2, RowsOf DEF Posted
      <4>2. QED BY <1>7, <4>1 DEF LedgerBooked, EntriesFollowPayment
    <3>3. CASE n \in Rows(r)
      <4>1. ledger[n].key = Credit(i) /\ Entered(r, n)
        BY <1>3, <1>6, <3>1, <3>3 DEF LedgerBooked, RowsEntered
      <4>2. req[r].op \in {"markPaid", "backfill"} /\ req[r].of = i BY <4>1, KeysDiffer DEF Entered
      <4>3. CASE req[r].op = "markPaid" BY <1>7, <4>2, <4>3
      <4>4. CASE req[r].op = "backfill"
        <5>1. payment[i] # "ISSUED" BY <4>2, <4>4 DEF LedgerBooked, AllFit, Fits
        <5>2. QED BY <1>7, <5>1
      <4>5. QED BY <4>2, <4>3, <4>4
    <3>4. QED BY <1>4, <3>1, <3>2, <3>3
  <2>2. ASSUME NEW i \in WageInvoices, Posted(Debit(i))' PROVE payment'[i] = "CASH" /\ Posted(Credit(i))'
    <3>1. PICK n \in Committed' : ledger'[n].key = Debit(i) BY <2>2 DEF Posted
    <3>2. CASE n \in Committed
      <4>1. Posted(Debit(i)) BY <1>3, <1>6, <3>1, <3>2, RowsOf DEF Posted
      <4>2. payment[i] = "CASH" /\ Posted(Credit(i)) BY <4>1 DEF LedgerBooked, EntriesFollowPayment
      <4>3. payment'[i] = "CASH" BY <1>7, <4>2
      <4>4. PICK m \in Committed : ledger[m].key = Credit(i) BY <4>2 DEF Posted
      <4>5. m \in Committed' /\ ledger'[m].key = Credit(i) BY <1>3, <1>4, <4>4, RowsOf
      <4>6. QED BY <4>3, <4>5 DEF Posted
    <3>3. CASE n \in Rows(r)
      <4>1. ledger[n].key = Debit(i) /\ Entered(r, n)
        BY <1>3, <1>6, <3>1, <3>3 DEF LedgerBooked, RowsEntered
      <4>2. req[r].op = "markPaid" /\ req[r].of = i /\ req[r].cash /\ CreditSeen(r)
        BY <4>1, KeysDiffer DEF Entered
      <4>3. PICK m \in Visible(r) : ledger[m].key = Credit(i) BY <4>2 DEF CreditSeen
      <4>4. m \in Committed' /\ ledger'[m].key = Credit(i) BY <1>3, <1>4, <1>6, <4>3, RowsOf
      <4>5. payment'[i] = "CASH" BY <1>7, <4>2
      <4>6. QED BY <4>4, <4>5 DEF Posted
    <3>4. QED BY <1>4, <3>1, <3>2, <3>3
  <2>3. QED BY <2>1, <2>2 DEF EntriesFollowPayment
<1>17. QED BY <1>11, <1>12, <1>13, <1>14, <1>15, <1>16 DEF LedgerBooked

\* What is left after a rollback, and where it was.
LEMMA RolledBack ==
  ASSUME LedgerTypeOK, NEW r \in Requests, Rollback(r)
  PROVE  \E at : /\ at \in [DOMAIN ledger' -> DOMAIN ledger \ Rows(r)]
                 /\ \A n \in DOMAIN ledger \ Rows(r) : \E j \in DOMAIN ledger' : at[j] = n
                 /\ \A i, j \in DOMAIN ledger' : i < j => at[i] < at[j]
                 /\ \A j \in DOMAIN ledger' : ledger'[j] = ledger[at[j]]
                 /\ DOMAIN ledger' \subseteq Nat
<1>1. ledger \in Seq(LedgerRow) /\ ledger' = Without(r) BY DEF LedgerTypeOK, Rollback
<1>2. \E k \in Nat : \E at : /\ Enumerates(at, k, DOMAIN ledger \ Rows(r))
                             /\ Without(r) = [j \in 1 .. k |-> ledger[at[j]]]
                             /\ Without(r) \in Seq(LedgerRow) /\ Len(Without(r)) = k
  BY <1>1, WithoutKeeps, Zenon
<1>3. PICK k \in Nat : \E at : /\ Enumerates(at, k, DOMAIN ledger \ Rows(r))
                              /\ ledger' = [j \in 1 .. k |-> ledger[at[j]]]
  BY <1>1, <1>2, Zenon
<1>4. PICK at : /\ Enumerates(at, k, DOMAIN ledger \ Rows(r))
               /\ ledger' = [j \in 1 .. k |-> ledger[at[j]]]
  BY <1>3
<1>5. DOMAIN ledger' = 1 .. k BY <1>4
<1>6. QED BY <1>4, <1>5 DEF Enumerates

LEMMA RollbackKeepsBooked ==
  ASSUME LedgerTypeOK, LedgerBooked, NEW r \in Requests, Rollback(r)
  PROVE  LedgerBooked'
<1>1. PICK at : /\ at \in [DOMAIN ledger' -> DOMAIN ledger \ Rows(r)]
                /\ \A n \in DOMAIN ledger \ Rows(r) : \E j \in DOMAIN ledger' : at[j] = n
                /\ \A i, j \in DOMAIN ledger' : i < j => at[i] < at[j]
                /\ \A j \in DOMAIN ledger' : ledger'[j] = ledger[at[j]]
                /\ DOMAIN ledger' \subseteq Nat
  BY RolledBack
<1>2. req'[r] = NoTransaction /\ (\A q \in Requests : q # r => req'[q] = req[q]) /\ UNCHANGED payment
  BY DEF Rollback, LedgerTypeOK
<1>3. /\ \A j \in Committed' : at[j] \in Committed
      /\ \A q \in Requests : q # r => \A j \in Rows(q)' : at[j] \in Rows(q)
      /\ Rows(r)' = {}
  BY <1>1 DEF Committed, Rows
<1>4. /\ \A m \in Committed : \E j \in Committed' : at[j] = m
      /\ \A q \in Requests : q # r => \A m \in Rows(q) : \E j \in Rows(q)' : at[j] = m
  <2>1. Committed \subseteq DOMAIN ledger \ Rows(r) BY RowsOf
  <2>2. ASSUME NEW m \in Committed PROVE \E j \in Committed' : at[j] = m
    <3>1. PICK j \in DOMAIN ledger' : at[j] = m BY <1>1, <2>1
    <3>2. j \in Committed' BY <1>1, <3>1 DEF Committed
    <3>3. QED BY <3>1, <3>2
  <2>3. ASSUME NEW q \in Requests, q # r, NEW m \in Rows(q) PROVE \E j \in Rows(q)' : at[j] = m
    <3>1. m \in DOMAIN ledger \ Rows(r) BY <2>3, RowsOf
    <3>2. PICK j \in DOMAIN ledger' : at[j] = m BY <1>1, <3>1
    <3>3. j \in Rows(q)' BY <1>1, <3>2 DEF Rows
    <3>4. QED BY <3>2, <3>3
  <2>4. QED BY <2>2, <2>3
<1>5. Committed' \subseteq DOMAIN ledger' /\ \A q : Rows(q)' \subseteq DOMAIN ledger'
      /\ Visible(q)' = Committed' \cup Rows(q)'
  BY DEF Committed, Rows, Visible
<1>6. ASSUME NEW q \in Requests, q # r
      PROVE  /\ Fits(q)' /\ \A n \in Rows(q)' : Entered(q, n)'
             /\ req[q].op = "markPaid" /\ req[q].todo = <<Cash(req[q].of)>> => req[q].cash /\ CreditSeen(q)'
  <2>1. ASSUME NEW m \in Visible(q) PROVE \E n \in Visible(q)' : ledger'[n].key = ledger[m].key
    <3>1. PICK n \in Visible(q)' : at[n] = m BY <1>4, <1>5, <1>6, RowsOf
    <3>2. QED BY <1>1, <1>5, <3>1
  <2>2. ASSUME NEW n \in Rows(q)' PROVE \E m \in Rows(q) : ledger[m].key = ledger'[n].key
    <3>1. at[n] \in Rows(q) /\ n \in DOMAIN ledger' BY <1>3, <1>5, <1>6, <2>2
    <3>2. QED BY <1>1, <3>1
  <2>3. req[q].op = "backfill" => payment'[req[q].of] # "ISSUED"
    BY <1>2 DEF LedgerBooked, AllFit, Fits
  <2>4. QED BY <1>2, <1>6, <2>1, <2>2, <2>3, OthersKeep
<1>7. NoTransaction.op = "idle" BY DEF NoTransaction
<1>8. Fits(r)' BY <1>2, <1>7 DEF Fits
<1>9. AllFit' BY <1>6, <1>8 DEF AllFit
<1>10. RowsEntered' BY <1>3, <1>6 DEF RowsEntered
<1>11. CashFollows' BY <1>2, <1>6, <1>7 DEF CashFollows
<1>12. OnePayer' BY <1>2, <1>7 DEF LedgerBooked, OnePayer
<1>13. PostedOnce'
  <2>1. SUFFICES ASSUME NEW i \in DOMAIN ledger', NEW j \in DOMAIN ledger', ledger'[i].key = ledger'[j].key
                 PROVE  i = j
    BY DEF PostedOnce
  <2>2. at[i] \in DOMAIN ledger /\ at[j] \in DOMAIN ledger /\ ledger[at[i]].key = ledger[at[j]].key
    BY <1>1, <2>1
  <2>3. at[i] = at[j] BY <2>2 DEF LedgerBooked, PostedOnce
  <2>4. at[i] \in Nat /\ i \in Nat /\ j \in Nat BY <1>1, <2>2, RowsOf
  <2>5. QED BY <1>1, <2>3, <2>4
<1>14. EntriesFollowPayment'
  <2>1. ASSUME NEW key, Posted(key)' PROVE Posted(key)
    <3>1. PICK j \in Committed' : ledger'[j].key = key BY <2>1 DEF Posted
    <3>2. QED BY <1>1, <1>3, <1>5, <3>1 DEF Posted
  <2>2. ASSUME NEW key, Posted(key) PROVE Posted(key)'
    <3>1. PICK m \in Committed : ledger[m].key = key BY <2>2 DEF Posted
    <3>2. PICK j \in Committed' : at[j] = m BY <1>4
    <3>3. ledger'[j].key = key BY <1>1, <1>5, <3>1, <3>2
    <3>4. QED BY <3>3 DEF Posted
  <2>3. QED BY <1>2, <2>1, <2>2 DEF LedgerBooked, EntriesFollowPayment
<1>15. QED BY <1>9, <1>10, <1>11, <1>12, <1>13, <1>14 DEF LedgerBooked

LEMMA BookedSteps ==
  ASSUME LedgerTypeOK, LedgerBooked, [LedgerNext]_ledgerVars
  PROVE  LedgerBooked'
<1>1. CASE UNCHANGED ledgerVars
  BY <1>1 DEF ledgerVars, LedgerBooked, AllFit, Fits, RowsEntered, Entered, CreditSeen, Visible, Committed, Rows,
              CashFollows, OnePayer, PostedOnce, EntriesFollowPayment, Posted
<1>2. CASE LedgerNext
  BY <1>2, BeginKeepsBooked, WorkKeepsBooked, InsertKeepsBooked, CommitKeepsBooked, RollbackKeepsBooked
  DEF LedgerNext, WriteEntry
<1>3. QED BY <1>1, <1>2

LEMMA BookedStarts == LedgerInit => LedgerBooked
<1> SUFFICES ASSUME LedgerInit PROVE LedgerBooked OBVIOUS
<1>1. /\ \A r \in Requests : req[r] = NoTransaction /\ req[r].op = "idle"
      /\ DOMAIN ledger = {} /\ Committed = {} /\ \A r : Rows(r) = {}
  BY DEF LedgerInit, NoTransaction, Committed, Rows
<1>2. AllFit BY <1>1 DEF AllFit, Fits
<1>3. RowsEntered /\ CashFollows /\ OnePayer BY <1>1 DEF RowsEntered, CashFollows, OnePayer
<1>4. PostedOnce /\ EntriesFollowPayment BY <1>1 DEF PostedOnce, EntriesFollowPayment, Posted
<1>5. QED BY <1>2, <1>3, <1>4 DEF LedgerBooked

LEMMA BookedAlways == LedgerSpec => [](LedgerTypeOK /\ LedgerBooked)
<1>1. LedgerInit => LedgerTypeOK /\ LedgerBooked BY LedgerTypeStarts, BookedStarts
<1>2. (LedgerTypeOK /\ LedgerBooked) /\ [LedgerNext]_ledgerVars => (LedgerTypeOK /\ LedgerBooked)'
  BY LedgerTypeSteps, BookedSteps
<1>3. QED BY <1>1, <1>2, PTL DEF LedgerSpec

\* No key is ever posted twice.
THEOREM PostedOnceAlways == LedgerSpec => []PostedOnce
<1>1. LedgerTypeOK /\ LedgerBooked => PostedOnce BY DEF LedgerBooked
<1>2. QED BY <1>1, BookedAlways, PTL

\* The committed entries of an invoice are those of a payment committed with them.
THEOREM EntriesFollowPaymentAlways == LedgerSpec => []EntriesFollowPayment
<1>1. LedgerTypeOK /\ LedgerBooked => EntriesFollowPayment BY DEF LedgerBooked
<1>2. QED BY <1>1, BookedAlways, PTL

----------------------------------------------------------------------------
\* Where the rows are that a request locks

\* A request as another one's step leaves it: its rows and the rows it sees are, in the
\* same order, where at says.
LEMMA QueueStays ==
  ASSUME LedgerTypeOK, Queueing, NEW q \in Requests, req'[q] = req[q], DOMAIN ledger' \subseteq Nat,
         NEW at, \A j \in DOMAIN ledger' : at[j] \in DOMAIN ledger /\ ledger'[j].key = ledger[at[j]].key,
         \A i, j \in DOMAIN ledger' : i < j => at[i] < at[j],
         \A m \in Visible(q) : \E j \in Visible(q)' : at[j] = m,
         \A m \in Committed : \E j \in Committed' : at[j] = m,
         Rows(q)' # {} <=> Rows(q) # {},
         \A j \in Rows(q)' : at[j] \in Rows(q)
  PROVE  /\ \A key \in req[q].target :
              \E n \in Visible(q)' : ledger'[n].key = key /\ \A m \in Rows(q)' : m <= n
         /\ req[q].todo # <<>> =>
              \A key \in req[q].held :
                /\ Rows(q)' # {}
                /\ \E n \in Committed' : ledger'[n].key = key /\ \A m \in Rows(q)' : n < m
<1>1. Visible(q)' \subseteq DOMAIN ledger' /\ Committed' \subseteq DOMAIN ledger'
      /\ Rows(q)' \subseteq DOMAIN ledger'
  BY DEF Visible, Committed, Rows
<1>2. DOMAIN ledger \subseteq Nat BY RowsOf
<1>3. ASSUME NEW key \in req[q].target
      PROVE  \E n \in Visible(q)' : ledger'[n].key = key /\ \A m \in Rows(q)' : m <= n
  <2>1. PICK n \in Visible(q) : ledger[n].key = key /\ \A m \in Rows(q) : m <= n
    BY <1>3 DEF Queueing, Targets
  <2>2. PICK j \in Visible(q)' : at[j] = n OBVIOUS
  <2>3. ASSUME NEW m \in Rows(q)' PROVE m <= j
    <3>1. at[m] <= at[j] BY <2>1, <2>2, <2>3
    <3>2. j \in DOMAIN ledger' /\ m \in DOMAIN ledger' /\ j \in Nat /\ m \in Nat BY <1>1, <2>3
    <3>3. at[m] \in Nat /\ at[j] \in Nat BY <1>2, <3>2
    <3>4. j < m => at[j] < at[m] BY <3>2
    <3>5. QED BY <3>1, <3>2, <3>3, <3>4
  <2>4. ledger'[j].key = key BY <1>1, <2>1, <2>2
  <2>5. QED BY <2>3, <2>4
<1>4. ASSUME req[q].todo # <<>>, NEW key \in req[q].held
      PROVE  /\ Rows(q)' # {}
             /\ \E n \in Committed' : ledger'[n].key = key /\ \A m \in Rows(q)' : n < m
  <2>1. Rows(q) # {} BY <1>4 DEF Queueing, Holds
  <2>2. PICK n \in Committed : ledger[n].key = key /\ \A m \in Rows(q) : n < m
    BY <1>4 DEF Queueing, Holds
  <2>3. PICK j \in Committed' : at[j] = n OBVIOUS
  <2>4. ASSUME NEW m \in Rows(q)' PROVE j < m
    <3>1. at[j] < at[m] BY <2>2, <2>3, <2>4
    <3>2. j \in DOMAIN ledger' /\ m \in DOMAIN ledger' /\ j \in Nat /\ m \in Nat BY <1>1, <2>4
    <3>3. at[m] \in Nat /\ at[j] \in Nat BY <1>2, <3>2
    <3>4. m < j => at[m] < at[j] BY <3>2
    <3>5. QED BY <3>1, <3>2, <3>3, <3>4
  <2>5. ledger'[j].key = key BY <1>1, <2>2, <2>3
  <2>6. QED BY <2>1, <2>4, <2>5
<1>5. QED BY <1>3, <1>4

\* Others, when no row moves.
LEMMA QueueStaysInPlace ==
  ASSUME LedgerTypeOK, Queueing, NEW q \in Requests, req'[q] = req[q], LedgerTypeOK',
         DOMAIN ledger \subseteq DOMAIN ledger', \A n \in DOMAIN ledger : ledger'[n].key = ledger[n].key,
         Visible(q) \subseteq Visible(q)', Committed \subseteq Committed', Rows(q)' = Rows(q)
  PROVE  /\ \A key \in req[q].target :
              \E n \in Visible(q)' : ledger'[n].key = key /\ \A m \in Rows(q)' : m <= n
         /\ req[q].todo # <<>> =>
              \A key \in req[q].held :
                /\ Rows(q)' # {}
                /\ \E n \in Committed' : ledger'[n].key = key /\ \A m \in Rows(q)' : n < m
<1>1. Visible(q) \subseteq DOMAIN ledger /\ Committed \subseteq DOMAIN ledger
  BY DEF Visible, Committed
<1>2. ASSUME NEW key \in req[q].target
      PROVE  \E n \in Visible(q)' : ledger'[n].key = key /\ \A m \in Rows(q)' : m <= n
  <2>1. PICK n \in Visible(q) : ledger[n].key = key /\ \A m \in Rows(q) : m <= n
    BY <1>2 DEF Queueing, Targets
  <2>2. QED BY <1>1, <2>1
<1>3. ASSUME req[q].todo # <<>>, NEW key \in req[q].held
      PROVE  /\ Rows(q)' # {}
             /\ \E n \in Committed' : ledger'[n].key = key /\ \A m \in Rows(q)' : n < m
  <2>1. Rows(q) # {} BY <1>3 DEF Queueing, Holds
  <2>2. PICK n \in Committed : ledger[n].key = key /\ \A m \in Rows(q) : n < m
    BY <1>3 DEF Queueing, Holds
  <2>3. QED BY <1>1, <2>1, <2>2
<1>4. QED BY <1>2, <1>3

\* A step of one request that leaves the ledger alone.
LEMMA QueueMoves ==
  ASSUME LedgerTypeOK, Queueing, NEW r \in Requests, NEW f,
         req' = [req EXCEPT ![r] = f], UNCHANGED ledger,
         f.held = {} \/ (req[r].todo # <<>> /\ f.held = req[r].held),
         f.target \in {{}, req[r].target} \/
           \E n \in Visible(r) : f.target = {ledger[n].key} /\ \A m \in Rows(r) : m <= n
  PROVE  Queueing'
<1>1. req'[r] = f /\ \A q \in Requests : q # r => req'[q] = req[q] BY DEF LedgerTypeOK
<1>2. Committed' = Committed /\ \A q : Visible(q)' = Visible(q) /\ Rows(q)' = Rows(q)
  BY DEF Visible, Committed, Rows
<1>3. Targets'
  <2>1. ASSUME NEW key \in f.target PROVE \E n \in Visible(r) : ledger[n].key = key /\ \A m \in Rows(r) : m <= n
    <3>1. CASE key \in req[r].target BY <3>1 DEF Queueing, Targets
    <3>2. CASE \E n \in Visible(r) : f.target = {ledger[n].key} /\ \A m \in Rows(r) : m <= n
      BY <2>1, <3>2
    <3>3. QED BY <2>1, <3>1, <3>2
  <2>2. QED BY <1>1, <1>2, <2>1 DEF Queueing, Targets
<1>4. Holds' BY <1>1, <1>2 DEF Queueing, Holds
<1>5. QED BY <1>3, <1>4 DEF Queueing

LEMMA QuietStepsQueue ==
  ASSUME LedgerTypeOK, Queueing, NEW r \in Requests,
         \/ BeginMarkPaid(r) \/ BeginBackfill(r) \/ BeginSettlement(r)
         \/ LookForKey(r) \/ ChooseEntry(r) \/ LockEntry(r) \/ AddCredits(r) \/ SubtractDebits(r)
         \/ FailEntry(r)
  PROVE  Queueing'
<1>1. req[r] \in Transaction BY DEF LedgerTypeOK
<1>2. ASSUME NEW op, NEW of, NEW cash, NEW todo, BeginTransaction(r, op, of, cash, todo) PROVE Queueing'
  <2>1. PICK f : f = [NoTransaction EXCEPT !.op = op, !.of = of, !.cash = cash, !.todo = todo] OBVIOUS
  <2>2. f.held = {} /\ f.target = {} BY <2>1 DEF NoTransaction
  <2>3. req' = [req EXCEPT ![r] = f] /\ UNCHANGED ledger BY <1>2, <2>1 DEF BeginTransaction
  <2>4. QED BY <2>2, <2>3, QueueMoves
<1>3. CASE BeginMarkPaid(r) \/ BeginBackfill(r) \/ BeginSettlement(r)
  BY <1>2, <1>3 DEF BeginMarkPaid, BeginBackfill, BeginSettlement
<1>4. CASE LookForKey(r)
  <2>1. PICK f : /\ f = IF Exists(r, Entry(r).key) THEN Written(r) ELSE [req[r] EXCEPT !.pc = "new"]
                 /\ req' = [req EXCEPT ![r] = f] /\ UNCHANGED <<ledger, payment>>
    BY <1>1, <1>4 DEF LookForKey, LedgerTypeOK
  <2>2. req[r].todo # <<>> BY <1>4 DEF LookForKey, At
  <2>3. f.held = req[r].held /\ f.target \in {{}, req[r].target}
    BY <1>1, <2>1, <2>2, WrittenTyped DEF Transaction
  <2>4. QED BY <2>1, <2>2, <2>3, QueueMoves
<1>5. CASE ChooseEntry(r)
  <2>1. PICK target : /\ target = {} \/ \E key \in Latest(r) : target = {key}
                      /\ req' = [req EXCEPT ![r].pc = "waiting", ![r].target = target]
    BY <1>5 DEF ChooseEntry
  <2>2. PICK f : f = [req[r] EXCEPT !.pc = "waiting", !.target = target] OBVIOUS
  <2>3. f.held = req[r].held /\ f.target = target BY <1>1, <2>2 DEF Transaction
  <2>4. target = {} \/ \E n \in Visible(r) : target = {ledger[n].key} /\ \A m \in Rows(r) : m <= n
    BY <2>1, RowsOf DEF Latest
  <2>5. req' = [req EXCEPT ![r] = f] /\ req[r].todo # <<>> /\ UNCHANGED ledger
    BY <1>5, <2>1, <2>2 DEF ChooseEntry, At
  <2>6. QED BY <2>3, <2>4, <2>5, QueueMoves
<1>6. CASE LockEntry(r)
  <2>1. PICK f : f = [req[r] EXCEPT !.pc = "locked"] OBVIOUS
  <2>2. req' = [req EXCEPT ![r] = f] /\ req[r].todo # <<>> /\ UNCHANGED ledger
    BY <1>6, <2>1 DEF LockEntry, At
  <2>3. f.held = req[r].held /\ f.target = req[r].target BY <1>1, <2>1 DEF Transaction
  <2>4. QED BY <2>2, <2>3, QueueMoves
<1>7. CASE AddCredits(r)
  <2>1. PICK f : f = [req[r] EXCEPT !.pc = "credited", !.credits = Credits(r)] OBVIOUS
  <2>2. req' = [req EXCEPT ![r] = f] /\ req[r].todo # <<>> /\ UNCHANGED ledger
    BY <1>7, <2>1 DEF AddCredits, At
  <2>3. f.held = req[r].held /\ f.target = req[r].target BY <1>1, <2>1 DEF Transaction
  <2>4. QED BY <2>2, <2>3, QueueMoves
<1>8. CASE SubtractDebits(r)
  <2>1. PICK f : f = [req[r] EXCEPT !.pc = "added", !.balance = req[r].credits - Debits(r), !.credits = 0]
    OBVIOUS
  <2>2. req' = [req EXCEPT ![r] = f] /\ req[r].todo # <<>> /\ UNCHANGED ledger
    BY <1>8, <2>1 DEF SubtractDebits, At
  <2>3. f.held = req[r].held /\ f.target = req[r].target BY <1>1, <2>1 DEF Transaction
  <2>4. QED BY <2>2, <2>3, QueueMoves
<1>9. CASE FailEntry(r)
  <2>1. PICK g \in Transaction : g = Written(r) /\ g.held = req[r].held /\ g.target = {}
    BY <1>9, WrittenTyped DEF FailEntry
  <2>2. PICK f : f = [g EXCEPT !.todo = <<>>] OBVIOUS
  <2>3. f.held = req[r].held /\ f.target = {} BY <2>1, <2>2 DEF Transaction
  <2>4. req' = [req EXCEPT ![r] = f] /\ req[r].todo # <<>> /\ UNCHANGED ledger
    BY <1>9, <2>1, <2>2 DEF FailEntry
  <2>5. QED BY <2>3, <2>4, QueueMoves
<1>10. QED BY <1>3, <1>4, <1>5, <1>6, <1>7, <1>8, <1>9

LEMMA InsertQueues ==
  ASSUME LedgerTypeOK, LedgerTypeOK', LedgerBooked, Queueing, NEW r \in Requests, Insert(r)
  PROVE  Queueing'
<1>1. req[r].todo # <<>> BY DEF Insert, At
<1>2. PICK g : g = Written(r) OBVIOUS
<1>3. PICK f : f = [g EXCEPT !.held = @ \cup req[r].target] OBVIOUS
<1>4. req' = [req EXCEPT ![r] = f] BY <1>2, <1>3 DEF Insert
<1>5. f.held = req[r].held \cup req[r].target /\ f.target = {} /\ f.todo = Tail(req[r].todo)
  <2>1. g \in Transaction /\ g.held = req[r].held /\ g.target = {} /\ g.todo = Tail(req[r].todo)
    BY <1>1, <1>2, WrittenTyped
  <2>2. QED BY <1>3, <2>1 DEF Transaction
<1>6. req'[r] = f /\ \A q \in Requests : q # r => req'[q] = req[q] BY <1>4 DEF LedgerTypeOK
<1>7. PICK new : new = Len(ledger) + 1 OBVIOUS
<1>8. PICK row : /\ row = [key |-> Entry(r).key, amount |-> Entry(r).amount,
                           after |-> req[r].balance + Entry(r).amount, by |-> r]
                 /\ ledger' = Append(ledger, row)
  BY DEF Insert
<1>9. /\ DOMAIN ledger' = DOMAIN ledger \cup {new} /\ (\A n \in DOMAIN ledger : n < new)
      /\ ledger'[new] = row /\ \A n \in DOMAIN ledger : ledger'[n] = ledger[n]
  <2>1. ledger \in Seq(LedgerRow) BY DEF LedgerTypeOK
  <2>2. QED BY <1>7, <1>8, <2>1
<1>10. row.by = r /\ r # Nobody BY <1>8, RowsOf
<1>11. new \notin DOMAIN ledger BY <1>7, RowsOf
<1>12. Committed' = Committed /\ Rows(r)' = Rows(r) \cup {new}
       /\ \A q : q # r => Rows(q)' = Rows(q) /\ Visible(q)' = Visible(q)
  BY <1>9, <1>10, <1>11 DEF Committed, Rows, Visible
<1>13. ASSUME NEW q \in Requests, q # r
       PROVE  /\ \A key \in req[q].target :
                   \E n \in Visible(q)' : ledger'[n].key = key /\ \A m \in Rows(q)' : m <= n
              /\ req[q].todo # <<>> =>
                   \A key \in req[q].held :
                     /\ Rows(q)' # {}
                     /\ \E n \in Committed' : ledger'[n].key = key /\ \A m \in Rows(q)' : n < m
  BY <1>6, <1>9, <1>12, <1>13, QueueStaysInPlace
<1>14. Targets' BY <1>5, <1>6, <1>13 DEF Targets
<1>15. ASSUME f.todo # <<>>, NEW key \in f.held
       PROVE  /\ Rows(r)' # {}
              /\ \E n \in Committed' : ledger'[n].key = key /\ \A m \in Rows(r)' : n < m
  <2>1. Rows(r) = {}
    <3>1. SUFFICES ASSUME NEW n \in Rows(r) PROVE FALSE OBVIOUS
    <3>2. Entered(r, n) BY DEF LedgerBooked, RowsEntered
    <3>3. req[r].todo = <<Cash(req[r].of)>> BY <1>1, <3>2 DEF Entered
    <3>4. QED BY <1>5, <1>15, <3>3, Tuples
  <2>2. key \in req[r].target BY <1>1, <1>5, <1>15, <2>1 DEF Queueing, Holds
  <2>3. PICK n \in Visible(r) : ledger[n].key = key BY <2>2 DEF Queueing, Targets
  <2>4. n \in Committed /\ n \in DOMAIN ledger BY <2>1, <2>3, RowsOf
  <2>5. QED BY <1>9, <1>12, <2>1, <2>3, <2>4
<1>16. Holds' BY <1>6, <1>13, <1>15 DEF Holds
<1>17. QED BY <1>14, <1>16 DEF Queueing

LEMMA EndsQueue ==
  ASSUME LedgerTypeOK, LedgerTypeOK', Queueing, NEW r \in Requests, Commit(r) \/ Rollback(r)
  PROVE  Queueing'
<1>1. req'[r] = NoTransaction /\ \A q \in Requests : q # r => req'[q] = req[q]
  BY DEF Commit, Rollback, LedgerTypeOK
<1>2. NoTransaction.target = {} /\ NoTransaction.held = {} BY DEF NoTransaction
<1>3. ASSUME NEW q \in Requests, q # r
      PROVE  /\ \A key \in req[q].target :
                  \E n \in Visible(q)' : ledger'[n].key = key /\ \A m \in Rows(q)' : m <= n
             /\ req[q].todo # <<>> =>
                  \A key \in req[q].held :
                    /\ Rows(q)' # {}
                    /\ \E n \in Committed' : ledger'[n].key = key /\ \A m \in Rows(q)' : n < m
  <2>1. CASE Commit(r)
    <3>1. r # Nobody /\ DOMAIN ledger' = DOMAIN ledger BY <2>1, RowsOf DEF Commit
    <3>2. ASSUME NEW n \in DOMAIN ledger
          PROVE  /\ ledger'[n].key = ledger[n].key
                 /\ ledger'[n].by = IF n \in Rows(r) THEN Nobody ELSE ledger[n].by
      <4>1. ledger[n] \in LedgerRow BY DEF LedgerTypeOK
      <4>2. ledger'[n] = IF n \in Rows(r) THEN [ledger[n] EXCEPT !.by = Nobody] ELSE ledger[n]
        BY <2>1 DEF Commit
      <4>3. QED BY <4>1, <4>2 DEF LedgerRow
    <3>3. Committed \subseteq Committed' BY <3>1, <3>2 DEF Committed
    <3>4. Rows(q)' = Rows(q) BY <1>3, <3>1, <3>2, RowsOf DEF Rows
    <3>5. Visible(q) \subseteq Visible(q)'
      <4>1. Visible(q)' = Committed' \cup Rows(q)' BY DEF Visible, Rows
      <4>2. QED BY <3>3, <3>4, <4>1, RowsOf
    <3>6. QED BY <1>1, <1>3, <3>1, <3>2, <3>3, <3>4, <3>5, QueueStaysInPlace
  <2>2. CASE Rollback(r)
    <3>1. PICK at : /\ at \in [DOMAIN ledger' -> DOMAIN ledger \ Rows(r)]
                    /\ \A n \in DOMAIN ledger \ Rows(r) : \E j \in DOMAIN ledger' : at[j] = n
                    /\ \A i, j \in DOMAIN ledger' : i < j => at[i] < at[j]
                    /\ \A j \in DOMAIN ledger' : ledger'[j] = ledger[at[j]]
                    /\ DOMAIN ledger' \subseteq Nat
      BY <2>2, RolledBack
    <3>2. \A j \in Rows(q)' : at[j] \in Rows(q) BY <3>1 DEF Rows
    <3>3. ASSUME NEW m \in Committed PROVE \E j \in Committed' : at[j] = m
      <4>1. m \in DOMAIN ledger \ Rows(r) BY RowsOf
      <4>2. PICK j \in DOMAIN ledger' : at[j] = m BY <3>1, <4>1
      <4>3. j \in Committed' BY <3>1, <4>2 DEF Committed
      <4>4. QED BY <4>2, <4>3
    <3>4. ASSUME NEW m \in Rows(q) PROVE \E j \in Rows(q)' : at[j] = m
      <4>1. m \in DOMAIN ledger \ Rows(r) BY <1>3, <3>4, RowsOf
      <4>2. PICK j \in DOMAIN ledger' : at[j] = m BY <3>1, <4>1
      <4>3. j \in Rows(q)' BY <3>1, <4>2 DEF Rows
      <4>4. QED BY <4>2, <4>3
    <3>5. \A m \in Visible(q) : \E j \in Visible(q)' : at[j] = m
      <4>1. Visible(q)' = Committed' \cup Rows(q)' BY DEF Visible, Rows
      <4>2. QED BY <3>3, <3>4, <4>1, RowsOf
    <3>6. \A j \in DOMAIN ledger' : at[j] \in DOMAIN ledger /\ ledger'[j].key = ledger[at[j]].key BY <3>1
    <3>7. Rows(q)' # {} <=> Rows(q) # {} BY <3>2, <3>4
    <3>8. DOMAIN ledger' \subseteq Nat /\ \A i, j \in DOMAIN ledger' : i < j => at[i] < at[j] BY <3>1
    <3>9. req'[q] = req[q] BY <1>1, <1>3
    <3>10. QED BY <3>2, <3>3, <3>5, <3>6, <3>7, <3>8, <3>9, QueueStays
  <2>3. QED BY <2>1, <2>2
<1>4. Targets' BY <1>1, <1>2, <1>3 DEF Targets
<1>5. Holds' BY <1>1, <1>2, <1>3 DEF Holds
<1>6. QED BY <1>4, <1>5 DEF Queueing

LEMMA QueueingSteps ==
  ASSUME LedgerTypeOK, LedgerBooked, Queueing, [LedgerNext]_ledgerVars
  PROVE  Queueing'
<1>1. CASE UNCHANGED ledgerVars
  BY <1>1 DEF ledgerVars, Queueing, Targets, Holds, Visible, Committed, Rows
<1>2. CASE LedgerNext
  BY <1>2, QuietStepsQueue, InsertQueues, EndsQueue, LedgerTypeSteps DEF LedgerNext, WriteEntry
<1>3. QED BY <1>1, <1>2

LEMMA QueueingStarts == LedgerInit => Queueing
<1> SUFFICES ASSUME LedgerInit PROVE Queueing OBVIOUS
<1>1. \A r \in Requests : req[r].target = {} /\ req[r].held = {} BY DEF LedgerInit, NoTransaction
<1>2. QED BY <1>1 DEF Queueing, Targets, Holds

\* Who waits for a lock, behind another that waits, has all its rows before those of the other.
LEMMA WaitsForward ==
  ASSUME LedgerTypeOK, LedgerBooked, Queueing, NEW r \in Requests, NEW q \in Requests,
         WaitsFor(r, q), At(q, "waiting") \/ At(q, "added")
  PROVE  At(r, "waiting") /\ (At(q, "waiting") => Rows(q) # {} /\ \A n \in Rows(r), m \in Rows(q) : n < m)
<1>1. q # r BY DEF WaitsFor
<1>2. ASSUME At(r, "added"), NEW n \in Rows(q), ledger[n].key = Entry(r).key PROVE FALSE
  <2>1. Entered(q, n) /\ req[q].todo # <<>> BY DEF LedgerBooked, RowsEntered, At
  <2>2. /\ req[q].op = "markPaid" /\ ledger[n].key = Credit(req[q].of) BY <2>1 DEF Entered
  <2>3. NextIsWage(r) \/ NextIsCash(r) \/ NextIsForm(r) BY <1>2, Proceeds DEF At, LedgerBooked, AllFit
  <2>4. /\ NextIsWage(r) => Entry(r).key = Credit(req[r].of)
        /\ NextIsCash(r) => Entry(r).key = Debit(req[r].of)
        /\ NextIsForm(r) => Entry(r).key = Form(req[r].of)
    BY KeysDiffer DEF NextIsWage, NextIsCash, NextIsForm
  <2>5. NextIsWage(r) /\ req[r].of = req[q].of BY <1>2, <2>2, <2>3, <2>4, KeysDiffer
  <2>6. CASE req[r].op = "markPaid" BY <1>1, <2>2, <2>5, <2>6 DEF LedgerBooked, OnePayer
  <2>7. CASE req[r].op = "backfill" BY <2>2, <2>5, <2>7 DEF LedgerBooked, AllFit, Fits
  <2>8. QED BY <2>5, <2>6, <2>7 DEF NextIsWage
<1>3. At(r, "waiting") /\ Held(q) \cap req[r].target # {} BY <1>2 DEF WaitsFor
<1>4. ASSUME At(q, "waiting") PROVE Rows(q) # {} /\ \A n \in Rows(r), m \in Rows(q) : n < m
  <2>1. Held(q) = req[q].held BY <1>4 DEF Held, At
  <2>2. PICK key : key \in req[q].held /\ key \in req[r].target BY <1>3, <2>1
  <2>3. req[q].todo # <<>> BY <1>4 DEF At
  <2>4. Rows(q) # {} BY <2>2, <2>3 DEF Queueing, Holds
  <2>5. PICK j \in Committed : ledger[j].key = key /\ \A m \in Rows(q) : j < m
    BY <2>2, <2>3 DEF Queueing, Holds
  <2>6. PICK k \in Visible(r) : ledger[k].key = key /\ \A n \in Rows(r) : n <= k
    BY <2>2 DEF Queueing, Targets
  <2>7. j \in DOMAIN ledger /\ k \in DOMAIN ledger BY DEF Committed, Visible
  <2>8. j = k BY <2>5, <2>6, <2>7 DEF LedgerBooked, PostedOnce
  <2>9. ASSUME NEW n \in Rows(r), NEW m \in Rows(q) PROVE n < m
    <3>1. n <= k /\ k < m BY <2>5, <2>6, <2>8
    <3>2. n \in Nat /\ m \in Nat /\ k \in Nat BY <2>7, RowsOf
    <3>3. QED BY <3>1, <3>2
  <2>10. QED BY <2>4, <2>9
<1>5. QED BY <1>3, <1>4

LEMMA NoneWaitInACircle ==
  ASSUME LedgerTypeOK, LedgerBooked, Queueing
  PROVE  NoWaitCycle
<1>1. SUFFICES ASSUME NEW waiting \in (SUBSET Requests) \ {{}},
                      \A r \in waiting : \E q \in waiting : WaitsFor(r, q)
               PROVE  FALSE
  BY DEF NoWaitCycle
<1>2. \A r \in waiting : At(r, "waiting") \/ At(r, "added") BY <1>1 DEF WaitsFor
<1>3. \A r \in waiting : At(r, "waiting") BY <1>1, <1>2, WaitsForward
<1>4. ASSUME NEW r \in waiting
      PROVE  \E q \in waiting : Rows(q) # {} /\ \A n \in Rows(r), m \in Rows(q) : n < m
  <2>1. PICK q \in waiting : WaitsFor(r, q) BY <1>1
  <2>2. QED BY <1>3, <2>1, WaitsForward
<1>5. PICK L \in Nat : L = Len(ledger) /\ DOMAIN ledger = 1 .. L BY RowsOf
<1> DEFINE H == {j \in Nat : \A n \in DOMAIN ledger : n > L - j => ledger[n].by \notin waiting}
<1>6. 0 \in H BY <1>5
<1>7. ASSUME NEW j \in Nat, j \in H PROVE j + 1 \in H
  <2>1. SUFFICES ASSUME NEW n \in DOMAIN ledger, n > L - (j + 1), ledger[n].by \in waiting PROVE FALSE
    OBVIOUS
  <2>2. PICK r \in waiting : r = ledger[n].by /\ n \in Rows(r) BY <2>1 DEF Rows
  <2>3. PICK q \in waiting : Rows(q) # {} /\ \A k \in Rows(r), m \in Rows(q) : k < m BY <1>4
  <2>4. PICK m \in Rows(q) : n < m BY <2>2, <2>3
  <2>5. m \in DOMAIN ledger /\ ledger[m].by = q BY <2>4 DEF Rows
  <2>6. m > L - j BY <1>5, <2>1, <2>4, <2>5
  <2>7. QED BY <1>7, <2>5, <2>6
<1> HIDE DEF H
<1>8. L \in H BY <1>6, <1>7, NatInduct
<1>9. \A n \in DOMAIN ledger : ledger[n].by \notin waiting BY <1>5, <1>8 DEF H
<1>10. PICK q \in waiting : Rows(q) # {} BY <1>4
<1>11. QED BY <1>9, <1>10 DEF Rows

\* Transactions that wait, for a row's lock or a key's insertion, never wait for each other
\* in a circle: the row of a lock that is held comes before all of its holder's rows.
THEOREM NoWaitCycleAlways == LedgerSpec => []NoWaitCycle
<1> DEFINE I == LedgerTypeOK /\ LedgerBooked /\ Queueing
<1>1. LedgerInit => I BY LedgerTypeStarts, BookedStarts, QueueingStarts
<1>2. I /\ [LedgerNext]_ledgerVars => I' BY LedgerTypeSteps, BookedSteps, QueueingSteps
<1>3. I => NoWaitCycle BY NoneWaitInACircle
<1>4. QED BY <1>1, <1>2, <1>3, PTL DEF LedgerSpec

----------------------------------------------------------------------------
\* The discounts of one company, for any requests, campaigns, codes and invoices

LEMMA SumsAgree ==
  ASSUME NEW U, IsFiniteSet(U), NEW S \in SUBSET U,
         NEW a \in [U -> Nat], NEW b \in [S -> Nat], \A x \in S : b[x] = a[x],
         NEW g, AddsUp(g, b, S), NEW h, AddsUp(h, a, U)
  PROVE  g[S] = h[S]
<1> DEFINE H == {n \in Nat : \A s \in SUBSET S : Cardinality(s) <= n => g[s] = h[s]}
<1>1. IsFiniteSet(S) BY FS_Subset
<1>2. \A s \in SUBSET S : /\ g[s] = IF s = {} THEN 0 ELSE b[First(s)] + g[s \ {First(s)}]
                          /\ h[s] = IF s = {} THEN 0 ELSE a[First(s)] + h[s \ {First(s)}]
  BY DEF AddsUp
<1>3. 0 \in H
  <2>1. ASSUME NEW s \in SUBSET S, Cardinality(s) <= 0 PROVE s = {}
    <3>1. Cardinality(s) \in Nat /\ (Cardinality(s) = 0 <=> s = {}) BY <1>1, FirstOf
    <3>2. QED BY <2>1, <3>1
  <2>2. QED BY <1>2, <2>1
<1>4. ASSUME NEW n \in Nat, n \in H PROVE n + 1 \in H
  <2>1. ASSUME NEW s \in SUBSET S, Cardinality(s) <= n + 1 PROVE g[s] = h[s]
    <3>1. CASE s = {} BY <1>2, <3>1
    <3>2. CASE s # {}
      <4>1. s \ {First(s)} \in SUBSET S /\ Cardinality(s \ {First(s)}) <= n /\ First(s) \in S
        BY <1>1, <2>1, <3>2, FirstOf
      <4>2. g[s \ {First(s)}] = h[s \ {First(s)}] /\ b[First(s)] = a[First(s)] BY <1>4, <4>1
      <4>3. QED BY <1>2, <3>2, <4>2
    <3>3. QED BY <3>1, <3>2
  <2>2. QED BY <2>1
<1> HIDE DEF H
<1>5. Cardinality(S) \in Nat BY <1>1, FS_CardinalityType
<1>6. Cardinality(S) \in H BY <1>3, <1>4, <1>5, NatInduct
<1>7. QED BY <1>5, <1>6 DEF H

\* Any element may be taken away first.
LEMMA SumOfRest ==
  ASSUME NEW U, IsFiniteSet(U), NEW a \in [U -> Nat], NEW h, AddsUp(h, a, U), NEW x \in U
  PROVE  h[U] = a[x] + h[U \ {x}]
<1> DEFINE Fine(s) == \A y \in s : h[s] = a[y] + h[s \ {y}]
           H == {n \in Nat : \A s \in SUBSET U : Cardinality(s) <= n => Fine(s)}
<1>1. \A s \in SUBSET U : h[s] = IF s = {} THEN 0 ELSE a[First(s)] + h[s \ {First(s)}] BY DEF AddsUp
<1>2. \A s \in SUBSET U : h[s] \in Nat BY SumTyped
<1>3. 0 \in H
  <2>1. ASSUME NEW s \in SUBSET U, Cardinality(s) <= 0 PROVE s = {}
    <3>1. Cardinality(s) \in Nat /\ (Cardinality(s) = 0 <=> s = {}) BY FirstOf
    <3>2. QED BY <2>1, <3>1
  <2>2. QED BY <2>1
<1>4. ASSUME NEW n \in Nat, n \in H PROVE n + 1 \in H
  <2>1. ASSUME NEW s \in SUBSET U, Cardinality(s) <= n + 1, NEW y \in s PROVE h[s] = a[y] + h[s \ {y}]
    <3>1. PICK f : f = First(s) OBVIOUS
    <3>2. f \in s /\ h[s] = a[f] + h[s \ {f}] BY <1>1, <3>1, FirstOf
    <3>3. CASE y = f BY <3>2, <3>3
    <3>4. CASE y # f
      <4>1. s \ {f} \in SUBSET U /\ Cardinality(s \ {f}) <= n /\ y \in s \ {f}
        BY <2>1, <3>1, <3>4, FirstOf
      <4>2. s \ {y} \in SUBSET U /\ Cardinality(s \ {y}) <= n /\ f \in s \ {y}
        <5>1. IsFiniteSet(s) BY FS_Subset
        <5>2. Cardinality(s \ {y}) = Cardinality(s) - 1 BY <5>1, FS_RemoveElement
        <5>3. Cardinality(s) \in Nat BY <5>1, FS_CardinalityType
        <5>4. QED BY <2>1, <3>2, <3>4, <5>2, <5>3
      <4>3. Fine(s \ {f}) /\ Fine(s \ {y})
        <5> HIDE DEF Fine
        <5>1. QED BY <1>4, <4>1, <4>2
      <4>4. h[s \ {f}] = a[y] + h[(s \ {f}) \ {y}] BY <4>1, <4>3
      <4>5. h[s \ {y}] = a[f] + h[(s \ {y}) \ {f}] BY <4>2, <4>3
      <4>6. (s \ {f}) \ {y} = (s \ {y}) \ {f} OBVIOUS
      <4>7. PICK p \in Nat, q \in Nat, rest \in Nat : p = a[f] /\ q = a[y] /\ rest = h[(s \ {y}) \ {f}]
        BY <1>2, <3>2
      <4>8. h[s \ {f}] = q + rest /\ h[s \ {y}] = p + rest BY <4>4, <4>5, <4>6, <4>7
      <4>9. h[s] = p + (q + rest) BY <3>2, <4>7, <4>8
      <4>10. h[s] = q + (p + rest) BY <4>9
      <4>11. QED BY <4>7, <4>8, <4>10
    <3>5. QED BY <3>3, <3>4
  <2>2. QED BY <2>1
<1> HIDE DEF H
<1>5. Cardinality(U) \in Nat BY FS_CardinalityType
<1>6. Cardinality(U) \in H BY <1>3, <1>4, <1>5, NatInduct
<1>7. Fine(U)
  <2> HIDE DEF Fine
  <2>1. QED BY <1>5, <1>6 DEF H
<1>8. QED BY <1>7

\* What a set of uses comes to.
Takings(S) == MapThenSumSet(LAMBDA u : u.amount, S)

\* a and g are the amounts of S and their partial sums.
Summed(a, g, S) ==
  /\ a \in [S -> Nat] /\ g \in [SUBSET S -> Nat] /\ \A u \in S : a[u] = u.amount
  /\ AddsUp(g, a, S) /\ Takings(S) = g[S]

LEMMA TakingsAddUp ==
  ASSUME NEW S, IsFiniteSet(S), \A u \in S : u.amount \in Nat
  PROVE  \E a, g : Summed(a, g, S)
<1> DEFINE Equation(g) == [s \in SUBSET S |-> IF s = {} THEN 0
                             ELSE (CHOOSE x \in s : TRUE).amount + g[s \ {CHOOSE x \in s : TRUE}]]
<1>1. Takings(S) = (CHOOSE g : g = Equation(g))[S] BY DEF Takings, MapThenSumSet, MapThenFoldSet
<1>2. PICK a \in [S -> Nat] : a = [u \in S |-> u.amount] OBVIOUS
<1>3. ASSUME NEW s \in SUBSET S, s # {} PROVE a[First(s)] = (CHOOSE x \in s : TRUE).amount
  BY <1>2, <1>3, FirstOf DEF First
<1>4. ASSUME NEW g PROVE AddsUp(g, a, S) <=> g = Equation(g)
  BY <1>3 DEF AddsUp, First
<1> HIDE DEF Equation
<1>5. \E g : g = Equation(g)
  <2>1. PICK g : AddsUp(g, a, S) BY SumExists
  <2>2. QED BY <1>4, <2>1
<1>6. PICK h : h = Equation(h) /\ Takings(S) = h[S] BY <1>1, <1>5
<1>7. AddsUp(h, a, S) BY <1>4, <1>6
<1>8. h \in [SUBSET S -> Nat]
  <2>1. \A s \in SUBSET S : h[s] \in Nat BY <1>7, SumTyped
  <2>2. h = [s \in SUBSET S |-> h[s]] BY <1>7 DEF AddsUp
  <2>3. QED BY <2>1, <2>2
<1>9. QED BY <1>2, <1>6, <1>7, <1>8 DEF Summed

LEMMA TakingsGrow ==
  ASSUME NEW S, IsFiniteSet(S), NEW x, x \notin S, \A u \in S \cup {x} : u.amount \in Nat
  PROVE  /\ Takings(S) \in Nat /\ IsFiniteSet(S \cup {x})
         /\ Takings(S \cup {x}) = Takings(S) + x.amount
<1>1. IsFiniteSet(S \cup {x}) BY FS_AddElement
<1>2. PICK U : U = S \cup {x} OBVIOUS
<1>3. IsFiniteSet(U) /\ (\A u \in U : u.amount \in Nat) /\ \A u \in S : u.amount \in Nat BY <1>1, <1>2
<1>4. PICK a, h : Summed(a, h, U) BY <1>3, TakingsAddUp
<1>5. PICK b, g : Summed(b, g, S) BY <1>3, TakingsAddUp
<1>6. /\ a \in [U -> Nat] /\ h \in [SUBSET U -> Nat] /\ AddsUp(h, a, U) /\ Takings(U) = h[U]
      /\ b \in [S -> Nat] /\ g \in [SUBSET S -> Nat] /\ AddsUp(g, b, S) /\ Takings(S) = g[S]
      /\ S \in SUBSET U /\ (\A u \in S : b[u] = a[u]) /\ a[x] = x.amount /\ U \ {x} = S
  BY <1>2, <1>4, <1>5 DEF Summed
<1>7. g[S] = h[S] BY <1>3, <1>6, SumsAgree
<1>8. h[U] = a[x] + h[U \ {x}] BY <1>2, <1>3, <1>6, SumOfRest
<1>9. PICK p \in Nat, q \in Nat : p = g[S] /\ q = x.amount BY <1>3, <1>6
<1>10. Takings(U) = q + p BY <1>6, <1>7, <1>8, <1>9
<1>11. Takings(S) = p BY <1>6, <1>9
<1>12. Takings(S \cup {x}) = Takings(U) BY <1>2
<1>13. QED BY <1>1, <1>9, <1>10, <1>11, <1>12

LEMMA TakingsOfNone == Takings({}) = 0
<1>1. IsFiniteSet({}) /\ \A u \in {} : u.amount \in Nat BY FS_EmptySet
<1>2. PICK a, g : Summed(a, g, {}) BY <1>1, TakingsAddUp
<1>3. QED BY <1>2 DEF Summed, AddsUp

----------------------------------------------------------------------------
\* The discounts of an invoice

\* A campaign that has been found is there.
TargetsExist == \A c \in Clients : task[c].op = "apply" => task[c].target <= Len(campaign)

\* At most one request works on an invoice, and what it has read still holds.
OnePage ==
  \A c, d \in Clients :
    task[c].op = "apply" /\ task[d].op = "apply" /\ task[c].invoice = task[d].invoice => c = d
CopyHolds(c) ==
  task[c].op = "apply" =>
    /\ task[c].copy.campaign = invoice[task[c].invoice].campaign
    /\ task[c].copy.total = invoice[task[c].invoice].total
CopiesHold == \A c \in Clients : CopyHolds(c)
UsedUp == \A u \in use : u.source \in Singles => single[u.source].status = "USED"

PagesApart == <<"apply", "apply">> \in Apart
Accounted == IsFiniteSet(use) /\ OnePage /\ CopiesHold /\ UsedUp /\ DiscountAccounted

\* One request at a time makes a campaign, and no phone on its list has the code.
CampaignsApart == <<"create", "create">> \in Apart
OneCreator == \A c, d \in Clients : task[c].op = "create" /\ task[d].op = "create" => c = d
CheckHolds ==
  \A c \in Clients : task[c].op = "create" => task[c].row.phones \cap Taken(task[c].row.code) = {}
Distinct == OneCreator /\ CheckHolds /\ OneLiveCampaign

----------------------------------------------------------------------------
\* Numbers

LEMMA Extremes ==
  ASSUME NEW a \in Int, NEW b \in Int
  PROVE  /\ Min({a, b}) \in {a, b} /\ Min({a, b}) <= a /\ Min({a, b}) <= b
         /\ Max({a, b}) \in {a, b} /\ Max({a, b}) >= a /\ Max({a, b}) >= b
<1>1. \E x \in {a, b} : \A y \in {a, b} : x <= y OBVIOUS
<1>2. \E x \in {a, b} : \A y \in {a, b} : x >= y OBVIOUS
<1>3. QED BY <1>1, <1>2 DEF Min, Max

LEMMA Largest ==
  ASSUME NEW L \in Nat, NEW S \in SUBSET (1 .. L), S # {}
  PROVE  Max(S) \in S
<1> DEFINE H == {n \in Nat : \A T \in SUBSET (1 .. L) : T # {} /\ (\A y \in T : y <= n) =>
                    \E x \in T : \A y \in T : x >= y}
<1>1. 0 \in H
  <2>1. ASSUME NEW T \in SUBSET (1 .. L), T # {}, \A y \in T : y <= 0 PROVE FALSE
    <3>1. PICK y \in T : y \in 1 .. L BY <2>1
    <3>2. QED BY <2>1, <3>1
  <2>2. QED BY <2>1
<1>2. ASSUME NEW n \in Nat, n \in H PROVE n + 1 \in H
  <2>1. ASSUME NEW T \in SUBSET (1 .. L), T # {}, \A y \in T : y <= n + 1
        PROVE  \E x \in T : \A y \in T : x >= y
    <3>1. CASE n + 1 \in T BY <2>1, <3>1
    <3>2. CASE n + 1 \notin T
      <4>1. \A y \in T : y <= n BY <2>1, <3>2
      <4>2. QED BY <1>2, <2>1, <4>1
    <3>3. QED BY <3>1, <3>2
  <2>2. QED BY <2>1
<1> HIDE DEF H
<1>3. L \in H BY <1>1, <1>2, NatInduct
<1>4. \A y \in S : y <= L OBVIOUS
<1>5. \E x \in S : \A y \in S : x >= y BY <1>3, <1>4 DEF H
<1>6. QED BY <1>5 DEF Max

\* A part of an amount is not more than it.
LEMMA PartOfWhole ==
  ASSUME NEW a \in Nat, NEW p \in Nat, p <= Hundred
  PROVE  (a * p) \div Hundred \in Nat /\ (a * p) \div Hundred <= a
<1>1. PICK h \in Nat \ {0} : h = Hundred BY DiscountAssumption
<1>2. PICK n \in Nat : n = a * p OBVIOUS
<1>3. n <= a * h BY <1>1, <1>2
<1>4. PICK q \in Nat : q = n \div h /\ h * q <= n BY <1>1, <1>2
<1>5. q <= a
  <2>1. SUFFICES ASSUME a + 1 <= q PROVE FALSE BY <1>4
  <2>2. h * (a + 1) <= h * q BY <2>1, <1>1, <1>4
  <2>3. h * (a + 1) = a * h + h BY <1>1
  <2>4. PICK k \in Nat, l \in Nat : k = a * h /\ l = h * q BY <1>1, <1>4
  <2>5. k + h <= l /\ l <= n /\ n <= k BY <1>3, <1>4, <2>2, <2>3, <2>4
  <2>6. QED BY <1>1, <2>4, <2>5
<1>6. QED BY <1>1, <1>2, <1>4, <1>5

LEMMA ReductionFits ==
  ASSUME DiscountTypeOK, NEW c \in Clients, task[c].op = "apply", NEW offer \in Offers
  PROVE  Reduction(c, offer) \in Nat /\ Reduction(c, offer) <= task[c].copy.total
<1>1. task[c].copy \in Row BY DEF DiscountTypeOK, Task, NoTask
<1>2. offer \in Offer BY DiscountAssumption
<1>3. offer.percent \in 0 .. Hundred /\ offer.max \in Nat BY <1>2 DEF Offer
<1>4. PICK t \in Nat, p \in Nat, m \in Nat : t = task[c].copy.total /\ p = offer.percent /\ m = offer.max
  BY <1>1, <1>3 DEF Row
<1>5. p <= Hundred BY <1>3, <1>4, DiscountAssumption
<1>6. PICK part \in Nat : part = (t * p) \div Hundred /\ part <= t BY <1>5, PartOfWhole
<1>7. Reduction(c, offer) = Min({part, m}) BY <1>4, <1>6 DEF Reduction
<1>8. Min({part, m}) \in {part, m} /\ Min({part, m}) <= part
  <2>1. part \in Int /\ m \in Int OBVIOUS
  <2>2. QED BY <2>1, Extremes, Zenon
<1>9. PICK q \in Nat : q = Reduction(c, offer) /\ q <= part BY <1>7, <1>8
<1>10. QED BY <1>4, <1>6, <1>9

----------------------------------------------------------------------------
\* What a step of a request does

LEMMA TaskShape ==
  ASSUME NEW t \in Task
  PROVE  /\ t.op \in {"none", "create", "apply"}
         /\ t.op = "none" => t = NoTask
         /\ t.op = "create" => t.row \in Campaign
         /\ t.op = "apply" => /\ t.invoice \in Invoices /\ t.code \in Words \cup Singles
                              /\ t.copy \in Row /\ t.target \in 0 .. MaxCampaigns
BY DEF Task, NoTask

LEMMA NoTaskTyped == NoTask \in Task /\ NoTask.op = "none"
BY DEF Task, NoTask

\* The source is new, so that the amount is taken off and written once.
TakenOff(c, source, amount) ==
  LET i == task[c].invoice
      u == [source |-> source, invoice |-> i, amount |-> amount]
  IN  /\ invoice' \in [Invoices -> Row]
      /\ invoice'[i].campaign = invoice[i].campaign + amount
      /\ invoice'[i].total = invoice[i].total - amount
      /\ \A j \in Invoices : j # i => invoice'[j] = invoice[j]
      /\ u \notin use /\ use' = use \cup {u}
      /\ task' = [task EXCEPT ![c] = NoTask]
      /\ UNCHANGED campaign

LEMMA TakesOff ==
  ASSUME DiscountTypeOK, Accounted, NEW c \in Clients, task[c].op = "apply",
         NEW source, Used(source) = {}, NEW amount \in Nat, amount <= task[c].copy.total,
         TakeOff(c, source, amount)
  PROVE  TakenOff(c, source, amount)
<1>1. PICK i \in Invoices : i = task[c].invoice BY TaskShape DEF DiscountTypeOK
<1>2. PICK row \in Row : row = invoice[i] BY DEF DiscountTypeOK
<1>3. PICK m \in Nat, t \in Nat, net \in Nat :
        m = row.campaign /\ t = row.total /\ net = Net[i] /\ m + t = net
  <2>1. row.campaign \in Nat /\ row.total \in Nat BY DEF Row
  <2>2. Net[i] \in Nat BY DiscountAssumption
  <2>3. row.campaign + row.total = Net[i] BY <1>2 DEF Accounted, DiscountAccounted
  <2>4. QED BY <2>1, <2>2, <2>3
<1>4. task[c].copy.campaign = m /\ task[c].copy.total = t
  BY <1>1, <1>2, <1>3 DEF Accounted, CopiesHold, CopyHolds
<1>5. PICK discount \in Nat : discount = m + amount OBVIOUS
<1>6. PICK rest \in Nat : rest = t - amount BY <1>4
<1>7. Max({0, net - discount}) = rest
  <2>1. PICK d \in Int : d = net - discount OBVIOUS
  <2>2. d = rest BY <1>3, <1>5, <1>6, <2>1
  <2>3. 0 \in Int OBVIOUS
  <2>4. Max({0, d}) \in {0, d} /\ Max({0, d}) >= 0 /\ Max({0, d}) >= d BY <2>3, Extremes, Zenon
  <2>5. QED BY <2>1, <2>2, <2>4
<1>8. invoice' = [invoice EXCEPT ![i].campaign = discount, ![i].total = rest]
  BY <1>1, <1>3, <1>4, <1>5, <1>7 DEF TakeOff
<1>9. PICK new : new = [row EXCEPT !.campaign = discount, !.total = rest] OBVIOUS
<1>10. new \in Row /\ new.campaign = discount /\ new.total = rest BY <1>9 DEF Row
<1>11. invoice' = [invoice EXCEPT ![i] = new] BY <1>2, <1>8, <1>9 DEF DiscountTypeOK
<1>12. /\ invoice' \in [Invoices -> Row] /\ invoice'[i] = new
       /\ \A j \in Invoices : j # i => invoice'[j] = invoice[j]
  BY <1>10, <1>11 DEF DiscountTypeOK
<1>13. PICK u : u = [source |-> source, invoice |-> i, amount |-> amount] OBVIOUS
<1>14. u \notin use
  <2>1. u.source = source BY <1>13
  <2>2. QED BY <2>1 DEF Used
<1>15. use' = use \cup {u} BY <1>1, <1>13 DEF TakeOff
<1>16. task' = [task EXCEPT ![c] = NoTask] /\ UNCHANGED campaign BY DEF TakeOff, Done
<1>17. invoice'[i].campaign = invoice[i].campaign + amount /\ invoice'[i].total = invoice[i].total - amount
  BY <1>2, <1>3, <1>5, <1>6, <1>10, <1>12
<1>18. QED BY <1>1, <1>12, <1>13, <1>14, <1>15, <1>16, <1>17 DEF TakenOff

LEMMA TargetOffer ==
  ASSUME DiscountTypeOK, TargetsExist, NEW c \in Clients, ApplyCampaign(c)
  PROVE  \E n \in 1 .. MaxCampaigns : n = task[c].target /\ campaign[n].offer \in Offers
<1>1. task[c].op = "apply" /\ task[c].target # 0 BY DEF ApplyCampaign
<1>2. task[c].target \in 0 .. MaxCampaigns BY <1>1, TaskShape DEF DiscountTypeOK
<1>3. MaxCampaigns \in Nat BY DiscountAssumption
<1>4. PICK n \in 1 .. MaxCampaigns : n = task[c].target BY <1>1, <1>2, <1>3
<1>5. n \in DOMAIN campaign BY <1>1, <1>3, <1>4 DEF TargetsExist, DiscountTypeOK
<1>6. campaign[n] \in Campaign BY <1>5 DEF DiscountTypeOK
<1>7. QED BY <1>4, <1>6 DEF Campaign

\* A code that takes effect.
LEMMA CodeTakesOff ==
  ASSUME DiscountTypeOK, TargetsExist, Accounted, NEW c \in Clients, ApplySingle(c) \/ ApplyCampaign(c)
  PROVE  \/ /\ task' = [task EXCEPT ![c] = NoTask]
            /\ UNCHANGED <<campaign, use, invoice>>
            /\ UNCHANGED single \/ \E s \in Singles : single[s].status # "USED"
                                     /\ single' = [single EXCEPT ![s].status = "EXPIRED"]
         \/ \E source \in Source, amount \in Nat :
              /\ task[c].op = "apply" /\ Used(source) = {} /\ TakenOff(c, source, amount)
              /\ \/ source \in Singles /\ single' = [single EXCEPT ![source].status = "USED"]
                 \/ source \notin Singles /\ UNCHANGED single
<1>1. CASE ApplySingle(c)
  <2>1. task[c].op = "apply" /\ task[c].code \in Singles BY <1>1 DEF ApplySingle, Issued
  <2>2. PICK s \in Singles : s = task[c].code BY <2>1
  <2>3. SingleOf[s].offer \in Offers BY DiscountAssumption
  <2>4. PICK amount \in Nat : amount = Reduction(c, SingleOf[s].offer) /\ amount <= task[c].copy.total
    BY <2>1, <2>3, ReductionFits
  <2>5. CASE /\ single[s].status # "USED" /\ TakeOff(c, s, amount)
             /\ single' = [single EXCEPT ![s].status = "USED"]
    <3>1. Used(s) = {} BY <2>5 DEF Used, Accounted, UsedUp
    <3>2. TakenOff(c, s, amount) BY <2>1, <2>4, <2>5, <3>1, TakesOff
    <3>3. s \in Source BY DEF Source
    <3>4. QED BY <2>1, <2>5, <3>1, <3>2, <3>3
  <2>6. CASE Refuse(c) /\ UNCHANGED single BY <2>6 DEF Refuse, Done
  <2>7. CASE /\ single[s].status # "USED" /\ Refuse(c)
             /\ single' = [single EXCEPT ![s].status = "EXPIRED"]
    BY <2>7 DEF Refuse, Done
  <2>8. QED BY <1>1, <2>2, <2>4, <2>5, <2>6, <2>7 DEF ApplySingle
<1>2. CASE ApplyCampaign(c)
  <2>1. task[c].op = "apply" /\ task[c].target # 0 BY <1>2 DEF ApplyCampaign
  <2>2. task[c].target \in 0 .. MaxCampaigns /\ task[c].invoice \in Invoices
    BY <2>1, TaskShape DEF DiscountTypeOK
  <2>3. PICK n \in 1 .. MaxCampaigns : n = task[c].target /\ campaign[n].offer \in Offers
    BY <1>2, TargetOffer
  <2>4. PICK amount \in Nat : amount = Reduction(c, campaign[n].offer) /\ amount <= task[c].copy.total
    BY <2>1, <2>3, ReductionFits
  <2>5. PICK source : source = <<n, PhoneOf[task[c].invoice]>> OBVIOUS
  <2>6. source \in Source /\ source \notin Singles
    <3>1. PhoneOf[task[c].invoice] \in Phones BY <2>2, DiscountAssumption
    <3>2. source \in AllowedPhone BY <2>5, <3>1 DEF AllowedPhone
    <3>3. QED BY <3>2, DiscountAssumption DEF Source
  <2>7. CASE Used(source) = {} /\ TakeOff(c, source, amount) /\ UNCHANGED single
    <3>1. TakenOff(c, source, amount) BY <2>1, <2>4, <2>7, TakesOff
    <3>2. QED BY <2>1, <2>6, <2>7, <3>1
  <2>8. CASE Refuse(c) /\ UNCHANGED single BY <2>8 DEF Refuse, Done
  <2>9. QED BY <1>2, <2>3, <2>4, <2>5, <2>7, <2>8 DEF ApplyCampaign, Unused
<1>3. QED BY <1>1, <1>2

----------------------------------------------------------------------------
\* Types

\* A campaign is made for some phones, whichever page makes it.
LEMMA PagesCreate ==
  ASSUME NEW c \in Clients, BeginManual(c) \/ BeginSingle(c) \/ BeginSegment(c)
  PROVE  \E phones \in SUBSET Phones : BeginCreate(c, phones)
<1>1. Customers \subseteq Phones BY DiscountAssumption DEF Customers
<1>2. CASE BeginManual(c) BY <1>2 DEF BeginManual
<1>3. CASE BeginSingle(c) BY <1>1, <1>3 DEF BeginSingle
<1>4. CASE BeginSegment(c)
  <2>1. PICK ticked \in SUBSET Customers :
          \E status, least : BeginCreate(c, ticked \cap Segment(status, least))
    BY <1>4 DEF BeginSegment
  <2>2. PICK status, least : BeginCreate(c, ticked \cap Segment(status, least)) BY <2>1
  <2>3. ticked \cap Segment(status, least) \in SUBSET Phones BY <1>1
  <2>4. QED BY <2>2, <2>3
<1>5. QED BY <1>2, <1>3, <1>4

LEMMA TakeOffTyped ==
  ASSUME DiscountTypeOK, NEW c \in Clients, task[c].op = "apply",
         NEW source \in Source, NEW amount \in Nat, TakeOff(c, source, amount)
  PROVE  /\ invoice' \in [Invoices -> Row] /\ use' \subseteq Use
         /\ task' = [task EXCEPT ![c] = NoTask] /\ UNCHANGED campaign
<1>1. PICK i \in Invoices : i = task[c].invoice BY TaskShape DEF DiscountTypeOK
<1>2. task[c].copy \in Row BY TaskShape DEF DiscountTypeOK
<1>3. PICK m \in Nat : m = task[c].copy.campaign BY <1>2 DEF Row
<1>4. PICK discount \in Nat : discount = m + amount OBVIOUS
<1>5. PICK d \in Int : d = Net[i] - discount BY DiscountAssumption
<1>6. PICK rest \in Nat : rest = Max({0, d})
  <2>1. 0 \in Int OBVIOUS
  <2>2. Max({0, d}) \in {0, d} /\ Max({0, d}) >= 0 BY <2>1, Extremes, Zenon
  <2>3. QED BY <2>2
<1>7. invoice' = [invoice EXCEPT ![i].campaign = discount, ![i].total = rest]
  BY <1>1, <1>3, <1>4, <1>5, <1>6 DEF TakeOff
<1>8. PICK row \in Row : row = invoice[i] BY DEF DiscountTypeOK
<1>9. PICK new : new = [row EXCEPT !.campaign = discount, !.total = rest] OBVIOUS
<1>10. new \in Row BY <1>9 DEF Row
<1>11. invoice' = [invoice EXCEPT ![i] = new] BY <1>7, <1>8, <1>9 DEF DiscountTypeOK
<1>12. PICK u : u = [source |-> source, invoice |-> i, amount |-> amount] OBVIOUS
<1>13. u \in Use BY <1>12 DEF Use
<1>14. use' = (use \ Used(source)) \cup {u} BY <1>1, <1>12 DEF TakeOff
<1>15. QED BY <1>10, <1>11, <1>13, <1>14 DEF TakeOff, Done, DiscountTypeOK

\* A request goes on, and the campaigns stay.
LEMMA RequestGoesOn ==
  ASSUME DiscountTypeOK, TargetsExist, NEW c \in Clients, NEW t \in Task,
         task' = [task EXCEPT ![c] = t], t.op = "apply" => t.target <= Len(campaign),
         campaign' \in Seq(Campaign), Len(campaign) <= Len(campaign'), Len(campaign') <= MaxCampaigns,
         single' \in [Singles -> Single], use' \subseteq Use, invoice' \in [Invoices -> Row]
  PROVE  DiscountTypeOK' /\ TargetsExist'
<1>1. MaxCampaigns \in Nat /\ Len(campaign) \in Nat /\ Len(campaign') \in Nat /\ task \in [Clients -> Task]
  BY DiscountAssumption DEF DiscountTypeOK
<1>2. DiscountTypeOK' BY <1>1 DEF DiscountTypeOK
<1>3. ASSUME NEW d \in Clients, task'[d].op = "apply" PROVE task'[d].target <= Len(campaign')
  <2>1. task'[d].target <= Len(campaign)
    <3>1. CASE d = c BY <1>1, <1>3, <3>1
    <3>2. CASE d # c BY <1>1, <1>3, <3>2 DEF TargetsExist
    <3>3. QED BY <3>1, <3>2
  <2>2. task'[d].target \in 0 .. MaxCampaigns BY <1>2, <1>3, TaskShape DEF DiscountTypeOK
  <2>3. QED BY <1>1, <2>1, <2>2
<1>4. QED BY <1>2, <1>3 DEF TargetsExist

\* A request ends, and the campaigns stay.
LEMMA RequestEnds ==
  ASSUME DiscountTypeOK, TargetsExist, NEW c \in Clients, Done(c),
         campaign' \in Seq(Campaign), Len(campaign) <= Len(campaign'), Len(campaign') <= MaxCampaigns,
         single' \in [Singles -> Single], use' \subseteq Use, invoice' \in [Invoices -> Row]
  PROVE  DiscountTypeOK' /\ TargetsExist'
<1>1. PICK t \in Task : t = NoTask /\ t.op = "none" BY NoTaskTyped
<1>2. task' = [task EXCEPT ![c] = t] BY <1>1 DEF Done
<1>3. t.op # "apply" BY <1>1
<1>4. QED BY <1>2, <1>3, RequestGoesOn

LEMMA DiscountTypeSteps ==
  ASSUME DiscountTypeOK, TargetsExist, [DiscountNext]_discountVars
  PROVE  DiscountTypeOK' /\ TargetsExist'
<1>1. CASE UNCHANGED discountVars BY <1>1 DEF discountVars, DiscountTypeOK, TargetsExist
<1>2. /\ campaign \in Seq(Campaign) /\ Len(campaign) \in Nat /\ Len(campaign) <= MaxCampaigns
      /\ single \in [Singles -> Single] /\ use \subseteq Use
      /\ invoice \in [Invoices -> Row] /\ task \in [Clients -> Task]
  BY DEF DiscountTypeOK
<1>3. MaxCampaigns \in Nat BY DiscountAssumption
<1>4. CASE TimePasses
  <2>1. CASE \E n \in DOMAIN campaign :
               campaign' = [campaign EXCEPT ![n].expired = TRUE] /\ UNCHANGED single
    <3>1. PICK n \in DOMAIN campaign : campaign' = [campaign EXCEPT ![n].expired = TRUE] BY <2>1
    <3>2. PICK row \in Campaign : row = campaign[n] BY <1>2
    <3>3. PICK new : new = [row EXCEPT !.expired = TRUE] OBVIOUS
    <3>4. new \in Campaign BY <3>3 DEF Campaign
    <3>5. campaign' = [campaign EXCEPT ![n] = new] BY <3>1, <3>2, <3>3
    <3>6. campaign' \in Seq(Campaign) /\ Len(campaign') = Len(campaign) BY <1>2, <3>4, <3>5
    <3>7. QED BY <1>2, <1>4, <2>1, <3>6 DEF TimePasses, DiscountTypeOK, TargetsExist
  <2>2. CASE \E s \in Singles : single' = [single EXCEPT ![s].expired = TRUE] /\ UNCHANGED campaign
    <3>1. PICK s \in Singles : single' = [single EXCEPT ![s].expired = TRUE] BY <2>2
    <3>2. [single[s] EXCEPT !.expired = TRUE] \in Single BY <1>2 DEF Single
    <3>3. single' \in [Singles -> Single] BY <1>2, <3>1, <3>2
    <3>4. QED BY <1>2, <1>4, <2>2, <3>3 DEF TimePasses, DiscountTypeOK, TargetsExist
  <2>3. QED BY <1>4, <2>1, <2>2 DEF TimePasses, Expire
<1>5. CASE Close
  <2>1. PICK i \in Invoices, status \in {"PAID", "CANCELLED"} : invoice' = [invoice EXCEPT ![i].status = status]
    BY <1>5 DEF Close
  <2>2. [invoice[i] EXCEPT !.status = status] \in Row BY <1>2 DEF Row
  <2>3. invoice' \in [Invoices -> Row] BY <1>2, <2>1, <2>2
  <2>4. QED BY <1>2, <1>5, <2>3 DEF Close, DiscountTypeOK, TargetsExist
\* A request goes on.
<1>6. ASSUME NEW c \in Clients, NEW t \in Task, task' = [task EXCEPT ![c] = t],
             t.op = "apply" => t.target <= Len(campaign), UNCHANGED <<campaign, single, use, invoice>>
      PROVE  DiscountTypeOK' /\ TargetsExist'
  <2>1. /\ campaign' \in Seq(Campaign) /\ Len(campaign) <= Len(campaign') /\ Len(campaign') <= MaxCampaigns
        /\ single' \in [Singles -> Single] /\ use' \subseteq Use /\ invoice' \in [Invoices -> Row]
    BY <1>2, <1>6
  <2>2. QED BY <1>6, <2>1, RequestGoesOn
<1>7. ASSUME NEW c \in Clients, NEW phones \in SUBSET Phones, BeginCreate(c, phones)
      PROVE  DiscountTypeOK' /\ TargetsExist'
  <2>1. PICK code \in Words, offer \in Offers :
          task' = [task EXCEPT ![c] = [op |-> "create",
                    row |-> [code |-> code, offer |-> offer, phones |-> phones, expired |-> FALSE]]]
    BY <1>7 DEF BeginCreate
  <2>2. PICK t : t = [op |-> "create",
                      row |-> [code |-> code, offer |-> offer, phones |-> phones, expired |-> FALSE]] OBVIOUS
  <2>3. t \in Task /\ t.op = "create"
    <3>1. [code |-> code, offer |-> offer, phones |-> phones, expired |-> FALSE] \in Campaign BY DEF Campaign
    <3>2. QED BY <2>2, <3>1 DEF Task
  <2>4. QED BY <1>6, <1>7, <2>1, <2>2, <2>3 DEF BeginCreate
<1>8. ASSUME NEW c \in Clients, Create(c) PROVE DiscountTypeOK' /\ TargetsExist'
  <2>1. task[c].row \in Campaign BY <1>2, <1>8, TaskShape DEF Create
  <2>2. /\ campaign' \in Seq(Campaign) /\ Len(campaign') = Len(campaign) + 1
        /\ Len(campaign') <= MaxCampaigns
    BY <1>2, <1>3, <1>8, <2>1 DEF Create
  <2>3. Len(campaign) <= Len(campaign') BY <1>2, <2>2
  <2>4. Done(c) /\ single' \in [Singles -> Single] /\ use' \subseteq Use /\ invoice' \in [Invoices -> Row]
    BY <1>2, <1>8 DEF Create
  <2>5. QED BY <2>2, <2>3, <2>4, RequestEnds
<1>9. ASSUME NEW c \in Clients, NEW i \in Invoices, NEW code \in Words \cup Singles,
              BeginApply(c, i, code)
       PROVE  DiscountTypeOK' /\ TargetsExist'
  <2>1. PICK t : t = [op |-> "apply", invoice |-> i, code |-> code, copy |-> invoice[i], target |-> 0]
    OBVIOUS
  <2>2. t \in Task /\ t.target <= Len(campaign) BY <1>2, <1>3, <2>1 DEF Task
  <2>3. QED BY <1>6, <1>9, <2>1, <2>2 DEF BeginApply
<1>10. ASSUME NEW c \in Clients, Refuse(c), single' \in [Singles -> Single]
       PROVE  DiscountTypeOK' /\ TargetsExist'
  <2>1. /\ campaign' \in Seq(Campaign) /\ Len(campaign) <= Len(campaign') /\ Len(campaign') <= MaxCampaigns
        /\ Done(c) /\ use' \subseteq Use /\ invoice' \in [Invoices -> Row]
    BY <1>2, <1>10 DEF Refuse
  <2>2. QED BY <1>10, <2>1, RequestEnds
<1>11. ASSUME NEW c \in Clients, task[c].op = "apply", NEW source \in Source, NEW amount \in Nat,
              TakeOff(c, source, amount), single' \in [Singles -> Single]
       PROVE  DiscountTypeOK' /\ TargetsExist'
  <2>1. /\ invoice' \in [Invoices -> Row] /\ use' \subseteq Use
        /\ task' = [task EXCEPT ![c] = NoTask] /\ UNCHANGED campaign
    BY <1>11, TakeOffTyped
  <2>2. /\ campaign' \in Seq(Campaign) /\ Len(campaign) <= Len(campaign') /\ Len(campaign') <= MaxCampaigns
        /\ Done(c)
    BY <1>2, <2>1 DEF Done
  <2>3. QED BY <1>11, <2>1, <2>2, RequestEnds
<1>12. ASSUME NEW c \in Clients, ApplySingle(c) PROVE DiscountTypeOK' /\ TargetsExist'
  <2>1. task[c].op = "apply" /\ task[c].code \in Singles BY <1>12 DEF ApplySingle, Issued
  <2>2. PICK s \in Singles : s = task[c].code BY <2>1
  <2>3. SingleOf[s].offer \in Offers BY DiscountAssumption
  <2>4. PICK amount \in Nat : amount = Reduction(c, SingleOf[s].offer) BY <2>1, <2>3, ReductionFits
  <2>5. \A status \in {"USED", "EXPIRED"} : [single EXCEPT ![s].status = status] \in [Singles -> Single]
    <3>1. \A status \in {"USED", "EXPIRED"} : [single[s] EXCEPT !.status = status] \in Single
      BY <1>2 DEF Single
    <3>2. QED BY <1>2, <3>1
  <2>6. CASE TakeOff(c, s, amount) /\ single' = [single EXCEPT ![s].status = "USED"]
    <3>1. s \in Source BY DEF Source
    <3>2. QED BY <1>11, <2>1, <2>5, <2>6, <3>1
  <2>7. CASE Refuse(c) /\ (UNCHANGED single \/ single' = [single EXCEPT ![s].status = "EXPIRED"])
    BY <1>2, <1>10, <2>5, <2>7
  <2>8. QED BY <1>12, <2>2, <2>4, <2>6, <2>7 DEF ApplySingle
<1>13. ASSUME NEW c \in Clients, ApplyCampaign(c) PROVE DiscountTypeOK' /\ TargetsExist'
  <2>1. task[c].op = "apply" /\ task[c].invoice \in Invoices
    BY <1>2, <1>13, TaskShape DEF ApplyCampaign
  <2>2. PICK n \in 1 .. MaxCampaigns : n = task[c].target /\ campaign[n].offer \in Offers
    BY <1>13, TargetOffer
  <2>3. PICK amount \in Nat : amount = Reduction(c, campaign[n].offer) BY <2>1, <2>2, ReductionFits
  <2>4. PICK source : source = <<n, PhoneOf[task[c].invoice]>> OBVIOUS
  <2>5. source \in Source
    <3>1. PhoneOf[task[c].invoice] \in Phones BY <2>1, DiscountAssumption
    <3>2. QED BY <2>4, <3>1 DEF Source, AllowedPhone
  <2>6. CASE TakeOff(c, source, amount) BY <1>2, <1>11, <1>13, <2>1, <2>5, <2>6 DEF ApplyCampaign
  <2>7. CASE Refuse(c) BY <1>2, <1>10, <1>13, <2>7 DEF ApplyCampaign
  <2>8. QED BY <1>13, <2>2, <2>3, <2>4, <2>6, <2>7 DEF ApplyCampaign
<1>14. ASSUME NEW c \in Clients, Match(c) PROVE DiscountTypeOK' /\ TargetsExist'
  <2>1. CASE Refuse(c) BY <1>2, <1>10, <1>14, <2>1 DEF Match
  <2>2. CASE Matching(c) # {} /\ task' = [task EXCEPT ![c].target = Max(Matching(c))]
             /\ UNCHANGED <<campaign, use, invoice>>
    <3>1. PICK L \in Nat : L = Len(campaign) /\ DOMAIN campaign = 1 .. L BY <1>2
    <3>2. PICK S \in SUBSET (1 .. L) : S = Matching(c) BY <3>1 DEF Matching
    <3>3. PICK n \in 1 .. L : n = Max(Matching(c)) BY <2>2, <3>2, Largest
    <3>4. n \in 0 .. MaxCampaigns BY <1>2, <1>3, <3>1
    <3>5. PICK t : t = [task[c] EXCEPT !.target = n] OBVIOUS
    <3>6. t \in Task /\ t.target = n
      <4>1. task[c] \in Task /\ task[c].op = "apply" BY <1>2, <1>14 DEF Match, Issued
      <4>2. QED BY <3>4, <3>5, <4>1 DEF Task, NoTask
    <3>7. task' = [task EXCEPT ![c] = t] BY <2>2, <3>3, <3>5
    <3>8. t.op = "apply" => t.target <= Len(campaign) BY <3>1, <3>3, <3>6
    <3>9. UNCHANGED <<campaign, single, use, invoice>> BY <1>14, <2>2 DEF Match
    <3>10. QED BY <1>6, <3>6, <3>7, <3>8, <3>9
  <2>3. QED BY <1>14, <2>1, <2>2 DEF Match
<1>15. ASSUME NEW c \in Clients, NotIssued(c) PROVE DiscountTypeOK' /\ TargetsExist'
  BY <1>2, <1>10, <1>15 DEF NotIssued
<1>16. ASSUME NEW c \in Clients, Dies(c) PROVE DiscountTypeOK' /\ TargetsExist'
  BY <1>6, <1>16, NoTaskTyped DEF Dies, Done
<1>17. QED
  BY <1>1, <1>4, <1>5, <1>7, <1>8, <1>9, <1>12, <1>13, <1>14, <1>15, <1>16, PagesCreate
  DEF DiscountNext, BeginCheckout

LEMMA DiscountTypeStarts == DiscountInit => DiscountTypeOK /\ TargetsExist
<1> SUFFICES ASSUME DiscountInit PROVE DiscountTypeOK /\ TargetsExist OBVIOUS
<1>1. MaxCampaigns \in Nat /\ Net \in [Invoices -> Nat] BY DiscountAssumption
<1>2. campaign \in Seq(Campaign) /\ Len(campaign) = 0 BY DEF DiscountInit
<1>3. single \in [Singles -> Single] BY DEF DiscountInit, Single
<1>4. invoice \in [Invoices -> Row] BY <1>1 DEF DiscountInit, Row
<1>5. task \in [Clients -> Task] /\ \A c \in Clients : task[c].op = "none"
  BY NoTaskTyped DEF DiscountInit
<1>6. use \subseteq Use BY DEF DiscountInit
<1>7. QED BY <1>1, <1>2, <1>3, <1>4, <1>5, <1>6 DEF DiscountTypeOK, TargetsExist

\* Rows and requests keep their type: no part taken off is negative or too much.
THEOREM DiscountTypeCorrect == DiscountSpec => []DiscountTypeOK
<1> DEFINE I == DiscountTypeOK /\ TargetsExist
<1>1. DiscountInit => I BY DiscountTypeStarts
<1>2. I /\ [DiscountNext]_discountVars => I' BY DiscountTypeSteps
<1>3. I => DiscountTypeOK OBVIOUS
<1>4. QED BY <1>1, <1>2, <1>3, PTL DEF DiscountSpec
----------------------------------------------------------------------------
\* The accounts of an invoice

UsesOf(i) == {u \in use : u.invoice = i}

LEMMA WorthIsTakings == \A i : Worth(i) = Takings(UsesOf(i))
BY DEF Worth, Takings, UsesOf

LEMMA WorthNext == \A i : Worth(i)' = Takings(UsesOf(i)')
<1>1. (\A i : Worth(i) = Takings(UsesOf(i)))' BY WorthIsTakings, PTL
<1>2. QED BY <1>1

LEMMA UsesTyped ==
  ASSUME DiscountTypeOK, IsFiniteSet(use), NEW i \in Invoices
  PROVE  IsFiniteSet(UsesOf(i)) /\ \A u \in UsesOf(i) : u.amount \in Nat
<1>1. UsesOf(i) \subseteq use BY DEF UsesOf
<1>2. \A u \in use : u.amount \in Nat BY DEF DiscountTypeOK, Use
<1>3. IsFiniteSet(UsesOf(i)) BY <1>1, FS_Subset
<1>4. QED BY <1>1, <1>2, <1>3

\* A step that takes nothing off, of an invoice that stays as its requests have read it.
LEMMA NothingTaken ==
  ASSUME DiscountTypeOK, Accounted, use' = use,
         \A i \in Invoices : /\ invoice'[i].campaign = invoice[i].campaign
                             /\ invoice'[i].total = invoice[i].total,
         \A s \in Singles : single[s].status = "USED" => single'[s].status = "USED"
  PROVE  IsFiniteSet(use') /\ UsedUp' /\ DiscountAccounted'
<1>1. \A i \in Invoices : Worth(i)' = Worth(i)
  <2>1. \A i : Worth(i) = Takings(UsesOf(i)) BY WorthIsTakings
  <2>2. \A i : Worth(i)' = Takings(UsesOf(i)') BY WorthNext
  <2>3. \A i : UsesOf(i)' = UsesOf(i) BY DEF UsesOf
  <2>4. QED BY <2>1, <2>2, <2>3
<1>2. DiscountAccounted' BY <1>1 DEF DiscountAccounted, Accounted
<1>3. UsedUp' BY DEF UsedUp, Accounted
<1>4. QED BY <1>2, <1>3 DEF Accounted

\* Nobody has a page of his own opened by it.
LEMMA PagesKeep ==
  ASSUME DiscountTypeOK, Accounted,
         \A i \in Invoices : /\ invoice'[i].campaign = invoice[i].campaign
                             /\ invoice'[i].total = invoice[i].total,
         \A c \in Clients : task'[c].op = "apply" =>
           /\ task[c].op = "apply" /\ task'[c].invoice = task[c].invoice
           /\ task'[c].copy = task[c].copy
  PROVE  OnePage' /\ CopiesHold'
<1>1. \A c \in Clients : task[c].op = "apply" => task[c].invoice \in Invoices
  BY TaskShape DEF DiscountTypeOK
<1>2. OnePage' BY DEF OnePage, Accounted
<1>3. ASSUME NEW c \in Clients, task'[c].op = "apply"
      PROVE  /\ task'[c].copy.campaign = invoice'[task'[c].invoice].campaign
             /\ task'[c].copy.total = invoice'[task'[c].invoice].total
  <2>1. PICK i \in Invoices : i = task[c].invoice /\ task'[c].invoice = i BY <1>1, <1>3
  <2>2. task[c].copy.campaign = invoice[i].campaign /\ task[c].copy.total = invoice[i].total
    BY <1>3, <2>1 DEF Accounted, CopiesHold, CopyHolds
  <2>3. QED BY <1>3, <2>1, <2>2
<1>4. QED BY <1>2, <1>3 DEF CopiesHold, CopyHolds

\* A request ends without taking anything off.
LEMMA EndsAccounted ==
  ASSUME DiscountTypeOK, Accounted, NEW c \in Clients, Done(c), UNCHANGED <<use, invoice>>,
         \A s \in Singles : single[s].status = "USED" => single'[s].status = "USED"
  PROVE  Accounted'
<1>1. \A d \in Clients : task'[d].op = "apply" => d # c /\ task'[d] = task[d]
  BY NoTaskTyped DEF DiscountTypeOK, Done
<1>2. OnePage' /\ CopiesHold' BY <1>1, PagesKeep
<1>3. IsFiniteSet(use') /\ UsedUp' /\ DiscountAccounted' BY NothingTaken
<1>4. QED BY <1>2, <1>3 DEF Accounted

\* A code takes its amount off.
LEMMA TakingAccounted ==
  ASSUME DiscountTypeOK, Accounted, NEW c \in Clients, NEW source \in Source, NEW amount \in Nat,
         task[c].op = "apply", TakenOff(c, source, amount), use' \subseteq Use,
         \/ source \in Singles /\ single' = [single EXCEPT ![source].status = "USED"]
         \/ source \notin Singles /\ UNCHANGED single
  PROVE  Accounted'
<1>1. PICK i \in Invoices : i = task[c].invoice BY TaskShape DEF DiscountTypeOK
<1>2. PICK u : u = [source |-> source, invoice |-> i, amount |-> amount] OBVIOUS
<1>3. u.source = source /\ u.invoice = i /\ u.amount = amount BY <1>2
<1>4. /\ invoice'[i].campaign = invoice[i].campaign + amount
      /\ invoice'[i].total = invoice[i].total - amount
      /\ \A j \in Invoices : j # i => invoice'[j] = invoice[j]
      /\ u \notin use /\ use' = use \cup {u}
      /\ task' = [task EXCEPT ![c] = NoTask]
  BY <1>1, <1>2 DEF TakenOff
<1>5. IsFiniteSet(use') BY <1>4, FS_AddElement DEF Accounted
<1>6. \A d \in Clients : task'[d].op = "apply" => /\ d # c /\ task'[d] = task[d]
                                                /\ task[d].invoice \in Invoices /\ task[d].invoice # i
  <2>1. \A d \in Clients : task'[d].op = "apply" => d # c /\ task'[d] = task[d]
    BY <1>4, NoTaskTyped DEF DiscountTypeOK
  <2>2. \A d \in Clients : task[d].op = "apply" => task[d].invoice \in Invoices
    BY TaskShape DEF DiscountTypeOK
  <2>3. QED BY <1>1, <2>1, <2>2 DEF Accounted, OnePage
<1>7. OnePage' BY <1>6 DEF Accounted, OnePage
<1>8. ASSUME NEW d \in Clients, task'[d].op = "apply"
      PROVE  /\ task'[d].copy.campaign = invoice'[task'[d].invoice].campaign
             /\ task'[d].copy.total = invoice'[task'[d].invoice].total
  <2>1. PICK j \in Invoices : j = task[d].invoice /\ j # i BY <1>6, <1>8
  <2>2. task[d].op = "apply" /\ task'[d] = task[d] /\ invoice'[j] = invoice[j]
    BY <1>4, <1>6, <1>8, <2>1
  <2>3. task[d].copy.campaign = invoice[j].campaign /\ task[d].copy.total = invoice[j].total
    BY <2>1, <2>2 DEF Accounted, CopiesHold, CopyHolds
  <2>4. QED BY <2>1, <2>2, <2>3
<1>9. CopiesHold' BY <1>8 DEF CopiesHold, CopyHolds
<1>10. UsedUp'
  <2>1. ASSUME NEW x \in use', x.source \in Singles PROVE single'[x.source].status = "USED"
    <3>1. PICK s \in Singles : s = x.source BY <2>1
    <3>2. CASE x = u BY <1>3, <2>1, <3>1, <3>2 DEF DiscountTypeOK, Single
    <3>3. CASE x # u
      <4>1. single[s].status = "USED" BY <1>4, <2>1, <3>1, <3>3 DEF Accounted, UsedUp
      <4>2. QED BY <3>1, <4>1 DEF DiscountTypeOK, Single
    <3>4. QED BY <3>2, <3>3
  <2>2. QED BY <2>1 DEF UsedUp
<1>11. ASSUME NEW j \in Invoices
       PROVE  /\ invoice'[j].campaign = Takings(UsesOf(j)')
              /\ invoice'[j].campaign + invoice'[j].total = Net[j]
  <2>1. PICK m \in Nat, t \in Nat, net \in Nat :
          m = invoice[j].campaign /\ t = invoice[j].total /\ net = Net[j]
    <3>1. invoice[j] \in Row /\ Net[j] \in Nat BY DiscountAssumption DEF DiscountTypeOK
    <3>2. QED BY <3>1 DEF Row
  <2>2. m = Takings(UsesOf(j)) /\ m + t = net
    <3>1. Worth(j) = Takings(UsesOf(j)) BY WorthIsTakings
    <3>2. QED BY <2>1, <3>1 DEF Accounted, DiscountAccounted
  <2>3. CASE j # i
    <3>1. UsesOf(j)' = UsesOf(j) BY <1>3, <1>4, <2>3 DEF UsesOf
    <3>2. invoice'[j] = invoice[j] BY <1>4, <2>3
    <3>3. QED BY <2>1, <2>2, <3>1, <3>2
  <2>4. CASE j = i
    <3>1. UsesOf(i)' = UsesOf(i) \cup {u} /\ u \notin UsesOf(i) BY <1>3, <1>4 DEF UsesOf
    <3>2. IsFiniteSet(UsesOf(i)) /\ \A x \in UsesOf(i) : x.amount \in Nat
      BY UsesTyped DEF Accounted
    <3>3. PICK U : U = UsesOf(i) OBVIOUS
    <3>4. \A x \in U \cup {u} : x.amount \in Nat BY <1>3, <3>2, <3>3
    <3>5. Takings(U \cup {u}) = Takings(U) + u.amount BY <3>1, <3>2, <3>3, <3>4, TakingsGrow
    <3>6. Takings(UsesOf(j)') = m + amount BY <1>3, <2>2, <2>4, <3>1, <3>3, <3>5
    <3>7. invoice'[j].campaign = m + amount /\ invoice'[j].total = t - amount BY <1>4, <2>1, <2>4
    <3>8. QED BY <2>1, <2>2, <3>6, <3>7
  <2>5. QED BY <2>3, <2>4
<1>12. DiscountAccounted'
  <2>1. \A j : Worth(j)' = Takings(UsesOf(j)') BY WorthNext
  <2>2. QED BY <1>11, <2>1 DEF DiscountAccounted
<1>13. QED BY <1>5, <1>7, <1>9, <1>10, <1>12 DEF Accounted

LEMMA AccountedSteps ==
  ASSUME PagesApart, DiscountTypeOK, TargetsExist, Accounted, [DiscountNext]_discountVars
  PROVE  Accounted'
<1>1. CASE UNCHANGED discountVars
  <2>1. \A c \in Clients : task'[c] = task[c] BY <1>1 DEF discountVars
  <2>2. OnePage' /\ CopiesHold' BY <1>1, <2>1, PagesKeep DEF discountVars
  <2>3. IsFiniteSet(use') /\ UsedUp' /\ DiscountAccounted' BY <1>1, NothingTaken DEF discountVars
  <2>4. QED BY <2>2, <2>3 DEF Accounted
<1>2. CASE TimePasses
  <2>1. \A s \in Singles : single[s].status = "USED" => single'[s].status = "USED"
    BY <1>2 DEF TimePasses, Expire, DiscountTypeOK, Single
  <2>2. UNCHANGED <<use, invoice, task>> BY <1>2 DEF TimePasses
  <2>3. OnePage' /\ CopiesHold' BY <2>2, PagesKeep
  <2>4. IsFiniteSet(use') /\ UsedUp' /\ DiscountAccounted' BY <2>1, <2>2, NothingTaken
  <2>5. QED BY <2>3, <2>4 DEF Accounted
<1>3. CASE Close
  <2>1. PICK i \in Invoices, status \in {"PAID", "CANCELLED"} : invoice' = [invoice EXCEPT ![i].status = status]
    BY <1>3 DEF Close
  <2>2. \A j \in Invoices : invoice'[j].campaign = invoice[j].campaign /\ invoice'[j].total = invoice[j].total
    BY <2>1 DEF DiscountTypeOK, Row
  <2>3. UNCHANGED <<single, use, task>> BY <1>3 DEF Close
  <2>4. OnePage' /\ CopiesHold' BY <2>2, <2>3, PagesKeep
  <2>5. IsFiniteSet(use') /\ UsedUp' /\ DiscountAccounted' BY <2>2, <2>3, NothingTaken
  <2>6. QED BY <2>4, <2>5 DEF Accounted
\* A request begins, or goes on, to create a campaign.
<1>4. ASSUME NEW c \in Clients, NEW phones \in SUBSET Phones, BeginCreate(c, phones) PROVE Accounted'
  <2>1. PICK t : t.op = "create" /\ task' = [task EXCEPT ![c] = t] BY <1>4 DEF BeginCreate
  <2>2. UNCHANGED <<single, use, invoice>> BY <1>4 DEF BeginCreate
  <2>3. \A d \in Clients : task'[d].op = "apply" => task'[d] = task[d] BY <2>1 DEF DiscountTypeOK
  <2>4. OnePage' /\ CopiesHold' BY <2>2, <2>3, PagesKeep
  <2>5. IsFiniteSet(use') /\ UsedUp' /\ DiscountAccounted' BY <2>2, NothingTaken
  <2>6. QED BY <2>4, <2>5 DEF Accounted
<1>5. ASSUME NEW c \in Clients, Create(c) PROVE Accounted'
  BY <1>5, EndsAccounted DEF Create
\* No other request has a page of the invoice, and the new one has read it as it is.
<1>6. ASSUME NEW c \in Clients, NEW i \in Invoices, NEW code \in Words \cup Singles, BeginApply(c, i, code)
      PROVE  Accounted'
  <2>1. PICK t : /\ t.op = "apply" /\ t.invoice = i /\ t.copy = invoice[i]
                 /\ task' = [task EXCEPT ![c] = t]
    BY <1>6 DEF BeginApply
  <2>2. UNCHANGED <<single, use, invoice>> BY <1>6 DEF BeginApply
  <2>3. \A d \in Clients : task[d].op = "apply" => task[d].invoice # i BY <1>6 DEF BeginApply, PagesApart
  <2>4. task'[c] = t /\ \A d \in Clients : d # c => task'[d] = task[d] BY <2>1 DEF DiscountTypeOK
  <2>5. OnePage' BY <2>1, <2>3, <2>4 DEF Accounted, OnePage
  <2>6. CopiesHold' BY <2>1, <2>2, <2>4 DEF Accounted, CopiesHold, CopyHolds
  <2>7. IsFiniteSet(use') /\ UsedUp' /\ DiscountAccounted' BY <2>2, NothingTaken
  <2>8. QED BY <2>5, <2>6, <2>7 DEF Accounted
<1>7. ASSUME NEW c \in Clients, NotIssued(c) PROVE Accounted'
  BY <1>7, EndsAccounted DEF NotIssued, Refuse
<1>8. ASSUME NEW c \in Clients, ApplySingle(c) \/ ApplyCampaign(c) PROVE Accounted'
  <2>1. CASE /\ task' = [task EXCEPT ![c] = NoTask]
             /\ UNCHANGED <<campaign, use, invoice>>
             /\ UNCHANGED single \/ \E s \in Singles : single[s].status # "USED"
                                      /\ single' = [single EXCEPT ![s].status = "EXPIRED"]
    <3>1. \A s \in Singles : single[s].status = "USED" => single'[s].status = "USED"
      BY <2>1 DEF DiscountTypeOK
    <3>2. QED BY <2>1, <3>1, EndsAccounted DEF Done
  <2>2. CASE \E source \in Source, amount \in Nat :
               /\ task[c].op = "apply" /\ Used(source) = {} /\ TakenOff(c, source, amount)
               /\ \/ source \in Singles /\ single' = [single EXCEPT ![source].status = "USED"]
                  \/ source \notin Singles /\ UNCHANGED single
    <3>1. DiscountTypeOK' BY <1>8, DiscountTypeSteps DEF DiscountNext
    <3>2. use' \subseteq Use BY <3>1 DEF DiscountTypeOK
    <3>3. QED BY <2>2, <3>2, TakingAccounted
  <2>3. QED BY <1>8, <2>1, <2>2, CodeTakesOff
<1>9. ASSUME NEW c \in Clients, Match(c) PROVE Accounted'
  <2>1. CASE Refuse(c) BY <1>9, <2>1, EndsAccounted DEF Match, Refuse
  <2>2. CASE task' = [task EXCEPT ![c].target = Max(Matching(c))] /\ UNCHANGED <<campaign, use, invoice>>
    <3>1. PICK n : n = Max(Matching(c)) OBVIOUS
    <3>2. task[c] \in Task /\ task[c].op = "apply" BY <1>9 DEF Match, Issued, DiscountTypeOK
    <3>3. PICK t : t = [task[c] EXCEPT !.target = n] OBVIOUS
    <3>4. t.op = "apply" /\ t.invoice = task[c].invoice /\ t.copy = task[c].copy
      BY <3>2, <3>3 DEF Task, NoTask
    <3>5. task' = [task EXCEPT ![c] = t] BY <2>2, <3>1, <3>3
    <3>6. \A d \in Clients : task'[d].op = "apply" =>
            /\ task[d].op = "apply" /\ task'[d].invoice = task[d].invoice
            /\ task'[d].copy = task[d].copy
      BY <3>2, <3>4, <3>5 DEF DiscountTypeOK
    <3>7. OnePage' /\ CopiesHold' BY <2>2, <3>6, PagesKeep
    <3>8. IsFiniteSet(use') /\ UsedUp' /\ DiscountAccounted' BY <1>9, <2>2, NothingTaken DEF Match
    <3>9. QED BY <3>7, <3>8 DEF Accounted
  <2>3. QED BY <1>9, <2>1, <2>2 DEF Match
<1>10. ASSUME NEW c \in Clients, Dies(c) PROVE Accounted'
  BY <1>10, EndsAccounted DEF Dies
<1>11. QED
  BY <1>1, <1>2, <1>3, <1>4, <1>5, <1>6, <1>7, <1>8, <1>9, <1>10, PagesCreate
  DEF DiscountNext, BeginCheckout

LEMMA AccountedStarts == DiscountInit => Accounted
<1> SUFFICES ASSUME DiscountInit PROVE Accounted OBVIOUS
<1>1. IsFiniteSet(use) /\ UsedUp BY FS_EmptySet DEF DiscountInit, UsedUp
<1>2. \A c \in Clients : task[c].op = "none" BY NoTaskTyped DEF DiscountInit
<1>3. OnePage /\ CopiesHold BY <1>2 DEF OnePage, CopiesHold, CopyHolds
<1>4. ASSUME NEW i \in Invoices
      PROVE  invoice[i].campaign = Worth(i) /\ invoice[i].campaign + invoice[i].total = Net[i]
  <2>1. UsesOf(i) = {} BY DEF DiscountInit, UsesOf
  <2>2. Worth(i) = 0 BY <2>1, WorthIsTakings, TakingsOfNone
  <2>3. invoice[i].campaign = 0 /\ invoice[i].total = Net[i] BY DEF DiscountInit
  <2>4. Net[i] \in Nat BY DiscountAssumption
  <2>5. QED BY <2>2, <2>3, <2>4
<1>5. QED BY <1>1, <1>3, <1>4 DEF Accounted, DiscountAccounted

\* If the pages of one invoice do not overlap, its discount is what its codes have taken
\* off, however many customers compete for a code.
THEOREM DiscountAccountedAlways == ASSUME PagesApart PROVE DiscountSpec => []DiscountAccounted
<1> DEFINE I == DiscountTypeOK /\ TargetsExist /\ Accounted
<1>1. DiscountInit => I BY DiscountTypeStarts, AccountedStarts
<1>2. I /\ [DiscountNext]_discountVars => I' BY DiscountTypeSteps, AccountedSteps
<1>3. I => DiscountAccounted BY DEF Accounted
<1>4. QED BY <1>1, <1>2, <1>3, PTL DEF DiscountSpec
----------------------------------------------------------------------------
\* One live campaign with a code for each phone

\* Nobody new makes a campaign, and no campaign comes to life.
LEMMA DistinctKeeps ==
  ASSUME DiscountTypeOK, Distinct,
         \A c \in Clients : task'[c].op = "create" => task'[c] = task[c],
         DOMAIN campaign' = DOMAIN campaign,
         \A n \in DOMAIN campaign : /\ campaign'[n].code = campaign[n].code
                                    /\ campaign'[n].phones = campaign[n].phones
                                    /\ campaign[n].expired => campaign'[n].expired
  PROVE  Distinct'
<1>1. OneCreator' BY DEF Distinct, OneCreator
<1>2. ASSUME NEW code PROVE Taken(code)' \subseteq Taken(code)
  <2>1. ASSUME NEW phone \in Taken(code)' PROVE phone \in Taken(code)
    <3>1. PICK n \in DOMAIN campaign : /\ campaign'[n].code = code /\ ~campaign'[n].expired
                                       /\ phone \in campaign'[n].phones
      BY <2>1 DEF Taken, Live
    <3>2. campaign[n].code = code /\ ~campaign[n].expired /\ phone \in campaign[n].phones BY <3>1
    <3>3. QED BY <3>2 DEF Taken, Live
  <2>2. QED BY <2>1
<1>3. CheckHolds'
  <2>1. ASSUME NEW c \in Clients, task'[c].op = "create"
        PROVE  task'[c].row.phones \cap Taken(task[c].row.code)' = {}
    <3>1. task[c].row.phones \cap Taken(task[c].row.code) = {} BY <2>1 DEF Distinct, CheckHolds
    <3>2. QED BY <1>2, <2>1, <3>1
  <2>2. \A code : Taken(code)' = UNION {campaign'[n].phones :
           n \in {n \in DOMAIN campaign' : campaign'[n].code = code /\ ~campaign'[n].expired}}
    BY DEF Taken, Live
  <2>3. QED BY <2>1, <2>2 DEF CheckHolds, Taken, Live
<1>4. OneLiveCampaign' BY DEF Distinct, OneLiveCampaign, Live
<1>5. QED BY <1>1, <1>3, <1>4 DEF Distinct

\* The only request that makes a campaign has checked that no phone has the code.
LEMMA CreateDistinct ==
  ASSUME DiscountTypeOK, Distinct, NEW c \in Clients, Create(c)
  PROVE  Distinct'
<1>1. PICK row : row = task[c].row OBVIOUS
<1>2. row \in Campaign BY <1>1, TaskShape DEF Create, DiscountTypeOK
<1>3. PICK L \in Nat : L = Len(campaign) /\ DOMAIN campaign = 1 .. L BY DEF DiscountTypeOK
<1>4. /\ DOMAIN campaign' = 1 .. (L + 1) /\ campaign'[L + 1] = row
      /\ \A n \in 1 .. L : campaign'[n] = campaign[n]
  BY <1>1, <1>2, <1>3 DEF Create, DiscountTypeOK
<1>5. \A d \in Clients : task'[d].op # "create"
  BY NoTaskTyped DEF Create, Done, Distinct, OneCreator, DiscountTypeOK
<1>6. OneCreator' /\ CheckHolds' BY <1>5 DEF OneCreator, CheckHolds
<1>7. \A n \in 1 .. L : campaign[n].code = row.code /\ ~campaign[n].expired =>
        campaign[n].phones \cap row.phones = {}
  <2>1. row.phones \cap Taken(row.code) = {} BY <1>1 DEF Create, Distinct, CheckHolds
  <2>2. ASSUME NEW n \in 1 .. L, campaign[n].code = row.code, ~campaign[n].expired
        PROVE  campaign[n].phones \subseteq Taken(row.code)
    BY <1>3, <2>2 DEF Taken, Live
  <2>3. QED BY <2>1, <2>2
<1>8. ASSUME NEW m \in 1 .. (L + 1), NEW n \in 1 .. (L + 1), m # n,
             campaign'[m].code = campaign'[n].code, ~campaign'[m].expired, ~campaign'[n].expired
      PROVE  campaign'[m].phones \cap campaign'[n].phones = {}
  <2>1. CASE m = L + 1 BY <1>4, <1>7, <1>8, <2>1
  <2>2. CASE n = L + 1 BY <1>4, <1>7, <1>8, <2>2
  <2>3. CASE m # L + 1 /\ n # L + 1
    <3>1. m \in 1 .. L /\ n \in 1 .. L BY <2>3
    <3>2. campaign'[m] = campaign[m] /\ campaign'[n] = campaign[n] BY <1>4, <3>1
    <3>3. QED BY <1>3, <1>8, <3>1, <3>2 DEF Distinct, OneLiveCampaign, Live
  <2>4. QED BY <2>1, <2>2, <2>3
<1>9. OneLiveCampaign' BY <1>4, <1>8 DEF OneLiveCampaign, Live
<1>10. QED BY <1>6, <1>9 DEF Distinct

LEMMA DistinctSteps ==
  ASSUME CampaignsApart, DiscountTypeOK, Distinct, [DiscountNext]_discountVars
  PROVE  Distinct'
<1>1. CASE UNCHANGED discountVars BY <1>1, DistinctKeeps DEF discountVars
<1>2. CASE TimePasses
  <2>1. CASE UNCHANGED campaign BY <1>2, <2>1, DistinctKeeps DEF TimePasses
  <2>2. CASE \E n \in DOMAIN campaign : campaign' = [campaign EXCEPT ![n].expired = TRUE]
    <3>1. PICK n \in DOMAIN campaign : campaign' = [campaign EXCEPT ![n].expired = TRUE] BY <2>2
    <3>2. PICK row \in Campaign : row = campaign[n] BY DEF DiscountTypeOK
    <3>3. PICK new : new = [row EXCEPT !.expired = TRUE] OBVIOUS
    <3>4. new.code = row.code /\ new.phones = row.phones /\ new.expired BY <3>3 DEF Campaign
    <3>5. campaign' = [campaign EXCEPT ![n] = new] BY <3>1, <3>2, <3>3
    <3>6. /\ DOMAIN campaign' = DOMAIN campaign
          /\ \A m \in DOMAIN campaign : campaign'[m] = IF m = n THEN new ELSE campaign[m]
      BY <3>5 DEF DiscountTypeOK
    <3>7. \A m \in DOMAIN campaign : /\ campaign'[m].code = campaign[m].code
                                     /\ campaign'[m].phones = campaign[m].phones
                                     /\ campaign[m].expired => campaign'[m].expired
      BY <3>2, <3>4, <3>6
    <3>8. \A c \in Clients : task'[c] = task[c] BY <1>2 DEF TimePasses
    <3>9. QED BY <3>6, <3>7, <3>8, DistinctKeeps
  <2>3. QED BY <1>2, <2>1, <2>2 DEF TimePasses, Expire
<1>3. CASE Close BY <1>3, DistinctKeeps DEF Close
<1>4. ASSUME NEW c \in Clients, NEW phones \in SUBSET Phones, BeginCreate(c, phones) PROVE Distinct'
  <2>1. PICK t : /\ t.op = "create" /\ phones \cap Taken(t.row.code) = {} /\ t.row.phones = phones
                 /\ task' = [task EXCEPT ![c] = t]
    BY <1>4 DEF BeginCreate
  <2>2. \A d \in Clients : task[d].op # "create" BY <1>4 DEF BeginCreate, CampaignsApart
  <2>3. task'[c] = t /\ \A d \in Clients : d # c => task'[d] = task[d] BY <2>1 DEF DiscountTypeOK
  <2>4. campaign' = campaign BY <1>4 DEF BeginCreate
  <2>5. OneCreator' BY <2>2, <2>3 DEF OneCreator
  <2>6. CheckHolds' BY <2>1, <2>2, <2>3, <2>4 DEF CheckHolds, Taken, Live
  <2>7. OneLiveCampaign' BY <2>4 DEF Distinct, OneLiveCampaign, Live
  <2>8. QED BY <2>5, <2>6, <2>7 DEF Distinct
<1>5. ASSUME NEW c \in Clients, Create(c) PROVE Distinct'
  BY <1>5, CreateDistinct
<1>6. ASSUME NEW c \in Clients, NEW t, t.op # "create", task' = [task EXCEPT ![c] = t], UNCHANGED campaign
      PROVE  Distinct'
  <2>1. \A d \in Clients : task'[d].op = "create" => task'[d] = task[d] BY <1>6 DEF DiscountTypeOK
  <2>2. DOMAIN campaign' = DOMAIN campaign BY <1>6
  <2>3. \A n \in DOMAIN campaign : /\ campaign'[n].code = campaign[n].code
                                   /\ campaign'[n].phones = campaign[n].phones
                                   /\ campaign[n].expired => campaign'[n].expired
    BY <1>6
  <2>4. QED BY <2>1, <2>2, <2>3, DistinctKeeps
<1>7. ASSUME NEW c \in Clients, Done(c), UNCHANGED campaign PROVE Distinct'
  BY <1>6, <1>7, NoTaskTyped DEF Done
<1>8. ASSUME NEW c \in Clients, NEW i \in Invoices, NEW code \in Words \cup Singles, BeginApply(c, i, code)
      PROVE  Distinct'
  <2>1. PICK t : t.op = "apply" /\ task' = [task EXCEPT ![c] = t] BY <1>8 DEF BeginApply
  <2>2. UNCHANGED campaign BY <1>8 DEF BeginApply
  <2>3. QED BY <1>6, <2>1, <2>2
<1>9. ASSUME NEW c \in Clients, NotIssued(c) PROVE Distinct'
  BY <1>7, <1>9 DEF NotIssued, Refuse
<1>10. ASSUME NEW c \in Clients, ApplySingle(c) \/ ApplyCampaign(c) PROVE Distinct'
  <2>1. Done(c) /\ UNCHANGED campaign
    BY <1>10 DEF ApplySingle, ApplyCampaign, TakeOff, Refuse
  <2>2. QED BY <1>7, <2>1
<1>11. ASSUME NEW c \in Clients, Match(c) PROVE Distinct'
  <2>1. CASE Refuse(c) BY <1>7, <2>1 DEF Refuse
  <2>2. CASE task' = [task EXCEPT ![c].target = Max(Matching(c))] /\ UNCHANGED campaign
    <3>1. PICK n : n = Max(Matching(c)) OBVIOUS
    <3>2. task[c] \in Task /\ task[c].op = "apply" BY <1>11 DEF Match, Issued, DiscountTypeOK
    <3>3. PICK t : t = [task[c] EXCEPT !.target = n] OBVIOUS
    <3>4. t.op = "apply" BY <3>2, <3>3 DEF Task, NoTask
    <3>5. task' = [task EXCEPT ![c] = t] BY <2>2, <3>1, <3>3
    <3>6. QED BY <1>6, <2>2, <3>4, <3>5
  <2>3. QED BY <1>11, <2>1, <2>2 DEF Match
<1>12. ASSUME NEW c \in Clients, Dies(c) PROVE Distinct'
  BY <1>7, <1>12 DEF Dies
<1>13. QED
  BY <1>1, <1>2, <1>3, <1>4, <1>5, <1>8, <1>9, <1>10, <1>11, <1>12, PagesCreate
  DEF DiscountNext, BeginCheckout

LEMMA DistinctStarts == DiscountInit => Distinct
<1>1. DiscountInit => \A c \in Clients : task[c].op = "none" BY NoTaskTyped DEF DiscountInit
<1>2. DiscountInit => DOMAIN campaign = {} BY DEF DiscountInit
<1>3. QED BY <1>1, <1>2 DEF Distinct, OneCreator, CheckHolds, OneLiveCampaign

\* If the pages that make campaigns do not overlap, a phone never has two live campaigns
\* with one code.
THEOREM OneLiveCampaignAlways == ASSUME CampaignsApart PROVE DiscountSpec => []OneLiveCampaign
<1> DEFINE I == DiscountTypeOK /\ TargetsExist /\ Distinct
<1>1. DiscountInit => I BY DiscountTypeStarts, DistinctStarts
<1>2. I /\ [DiscountNext]_discountVars => I' BY DiscountTypeSteps, DistinctSteps
<1>3. I => OneLiveCampaign BY DEF Distinct
<1>4. QED BY <1>1, <1>2, <1>3, PTL DEF DiscountSpec

----------------------------------------------------------------------------
\* The wallet and the outbox, for any workers, messages and recharge invoices

USE NumbersAssumption, PlatformAssumption

----------------------------------------------------------------------------
\* Types

\* A job remains one when it goes on, takes up a message or ends.
LEMMA IdleIsJob == Idle \in Job /\ Idle.pc = "idle" /\ Idle.m = {} /\ Idle.bill = {}
<1>1. NoCopies \in Copies BY DEF NoCopies, Copies, Status
<1>2. QED BY <1>1 DEF Idle, Job, Places, BillStatus

LEMMA JobMoves ==
  ASSUME NEW j \in Job, NEW place \in Places
  PROVE  /\ [j EXCEPT !.pc = place] \in Job
         /\ \A m \in Messages : [j EXCEPT !.pc = place, !.m = {m}] \in Job
         /\ \A cost \in Nat : [j EXCEPT !.pc = place, !.cost = cost] \in Job
         /\ \A balance \in Nat : [j EXCEPT !.pc = place, !.balance = balance] \in Job
         /\ \A ids \in SUBSET Messages : [j EXCEPT !.pc = place, !.todo = ids, !.m = {}, !.cost = 0] \in Job
BY DEF Job

LEMMA Onwards ==
  ASSUME TypeOK, NEW w \in Workers, NEW m, Onward(w, m)
  PROVE  /\ job' \in [Workers -> Job]
         /\ job'[w].pc \in {"idle", "next"} /\ job'[w].m = {}
         /\ \A v \in Workers \ {w} : job'[v] = job[v]
<1>1. job[w] \in Job /\ job \in [Workers -> Job] BY DEF TypeOK
<1>2. job[w].todo \ {m} \in SUBSET Messages BY <1>1 DEF Job
<1>3. "next" \in Places BY DEF Places
<1>4. PICK f \in Job : f.pc \in {"idle", "next"} /\ f.m = {} /\ job' = [job EXCEPT ![w] = f]
  <2>1. CASE job[w].todo \ {m} = {}
    BY <2>1, IdleIsJob DEF Onward
  <2>2. CASE job[w].todo \ {m} # {}
    <3>1. PICK f : f = [job[w] EXCEPT !.pc = "next", !.todo = job[w].todo \ {m}, !.m = {}, !.cost = 0]
      OBVIOUS
    <3>2. f \in Job BY <1>1, <1>2, <1>3, <3>1, JobMoves
    <3>3. f.pc = "next" /\ f.m = {} BY <1>1, <3>1 DEF Job
    <3>4. job' = [job EXCEPT ![w] = f] BY <2>2, <3>1 DEF Onward
    <3>5. QED BY <3>2, <3>3, <3>4
  <2>3. QED BY <2>1, <2>2
<1>5. QED BY <1>1, <1>4

LEMMA Gotos ==
  ASSUME TypeOK, NEW w \in Workers, NEW place \in Places, Goto(w, place)
  PROVE  /\ job' \in [Workers -> Job]
         /\ job'[w].pc = place /\ job'[w].m = job[w].m
         /\ \A v \in Workers \ {w} : job'[v] = job[v]
<1>1. job[w] \in Job /\ job \in [Workers -> Job] BY DEF TypeOK
<1>2. PICK f : f = [job[w] EXCEPT !.pc = place] OBVIOUS
<1>3. f \in Job BY <1>1, <1>2, JobMoves
<1>4. f.pc = place /\ f.m = job[w].m BY <1>1, <1>2 DEF Job
<1>5. QED BY <1>1, <1>2, <1>3, <1>4 DEF Goto

LEMMA Marks ==
  ASSUME TypeOK, NEW m \in Messages, NEW status \in Status, Mark(m, status)
  PROVE  sms' \in [Messages -> SmsRow] /\ sms'[m].status = status
         /\ \A n \in Messages \ {m} : sms'[n] = sms[n]
BY DEF TypeOK, Mark, SmsRow

LEMMA Claims ==
  ASSUME TypeOK, NEW m \in Messages
  PROVE  Claimed(m) \in SmsRow /\ Claimed(m).status = "SENDING"
<1>1. sms[m] \in SmsRow /\ sms[m].attempts + 1 \in Nat /\ "SENDING" \in Status
  BY DEF TypeOK, SmsRow, Status
<1>2. Claimed(m) = [sms[m] EXCEPT !.status = "SENDING", !.attempts = sms[m].attempts + 1]
  BY DEF Claimed
<1>3. QED BY <1>1, <1>2 DEF SmsRow

LEMMA JobBegins ==
  ASSUME NEW ids \in SUBSET Messages, NEW copies \in Copies, NEW b \in Bills, NEW copy \in BillStatus
  PROVE  /\ [Idle EXCEPT !.pc = "next", !.todo = ids] \in Job
         /\ [Idle EXCEPT !.pc = "next", !.todo = ids, !.copies = copies] \in Job
         /\ [Idle EXCEPT !.pc = "pay", !.bill = {b}, !.copy = copy] \in Job
BY IdleIsJob DEF Job, Places

LEMMA BeginTyped ==
  ASSUME TypeOK, NEW w \in Workers, Begin(w)
  PROVE  TypeOK'
<1>1. CASE BeginProcess(w)
  <2>1. PICK ids \in SUBSET Messages : job' = [job EXCEPT ![w] = [Idle EXCEPT !.pc = "next", !.todo = ids]]
    BY <1>1, PlatformAssumption DEF BeginProcess, Queued
  <2>2. [Idle EXCEPT !.pc = "next", !.todo = ids] \in Job BY IdleIsJob DEF Job, Places
  <2>3. UNCHANGED <<sms, wallet, tx, bill, sent, pays, died>> BY <1>1 DEF BeginProcess
  <2>4. QED BY <2>1, <2>2, <2>3 DEF TypeOK, sent, died
<1>2. CASE BeginRetry(w)
  <2> DEFINE Offered == (SUBSET (Messages \ Platform)) \cup {{m} : m \in Platform}
  <2>1. Offered \subseteq SUBSET Messages
    <3>1. SUFFICES ASSUME NEW ids \in Offered PROVE ids \in SUBSET Messages
      OBVIOUS
    <3>2. CASE ids \in SUBSET (Messages \ Platform) BY <3>2
    <3>3. CASE \E m \in Platform : ids = {m} BY <3>3, PlatformAssumption
    <3>4. QED BY <3>2, <3>3
  <2>2. PICK ids \in Offered :
          job' = [job EXCEPT ![w] = [Idle EXCEPT !.pc = "next", !.todo = ids,
                    !.copies = [m \in Messages |-> IF m \in ids THEN sms[m].status ELSE "none"]]]
    BY <1>2 DEF BeginRetry
  <2>3. [m \in Messages |-> IF m \in ids THEN sms[m].status ELSE "none"] \in Copies
    BY DEF Copies, TypeOK, SmsRow, Status
  <2>4. [Idle EXCEPT !.pc = "next", !.todo = ids,
           !.copies = [m \in Messages |-> IF m \in ids THEN sms[m].status ELSE "none"]] \in Job
    BY <2>1, <2>2, <2>3, IdleIsJob DEF Job, Places
  <2>5. UNCHANGED <<sms, wallet, tx, bill, sent, pays, died>> BY <1>2 DEF BeginRetry
  <2>6. QED BY <2>2, <2>4, <2>5 DEF TypeOK, sent, died
<1>3. ASSUME NEW b \in Bills, BeginPay(w, b) PROVE TypeOK'
  <2>1. bill[b] \in BillStatus BY DEF TypeOK
  <2>2. [Idle EXCEPT !.pc = "pay", !.bill = {b}, !.copy = bill[b]] \in Job
    BY <2>1, IdleIsJob DEF Job, Places
  <2>3. /\ job' = [job EXCEPT ![w] = [Idle EXCEPT !.pc = "pay", !.bill = {b}, !.copy = bill[b]]]
        /\ pays' = pays + 1
        /\ UNCHANGED <<sms, wallet, tx, bill, sent, died>>
    BY <1>3 DEF BeginPay
  <2>4. QED BY <2>2, <2>3 DEF TypeOK, sent, died
<1>4. QED BY <1>1, <1>2, <1>3 DEF Begin

LEMMA SendTyped ==
  ASSUME TypeOK, NEW w \in Workers, NEW m \in Messages, SendStep(w, m)
  PROVE  TypeOK'
<1> USE DEF Status
<1>1. job[w] \in Job /\ job \in [Workers -> Job] /\ job[w].cost \in Nat BY DEF TypeOK, Job
<1>2. UNCHANGED <<bill, pays, died>>
  BY DEF SendStep, TakeUp, Claim, CannotSend, Charge, ChargeNobody, Call, SaveSent, Refund, MarkFailed
<1>3. sms' \in [Messages -> SmsRow]
  <2>1. CASE UNCHANGED sms BY <2>1 DEF TypeOK
  <2>2. CASE \E status \in Status : Mark(m, status) BY <2>2, Marks
  <2>3. CASE sms' = [sms EXCEPT ![m] = Claimed(m)]
    BY <2>3, Claims DEF TypeOK
  <2>4. QED
    BY <2>1, <2>2, <2>3
       DEF SendStep, TakeUp, Claim, CannotSend, Charge, ChargeNobody, Call, SaveSent, Refund, MarkFailed
<1>4. job' \in [Workers -> Job]
  <2>1. CASE TakeUp(w, m)
    <3>1. "lock" \in Places BY DEF Places
    <3>2. [job[w] EXCEPT !.pc = "lock", !.m = {m}] \in Job BY <1>1, <3>1, JobMoves
    <3>3. job' = [job EXCEPT ![w] = [job[w] EXCEPT !.pc = "lock", !.m = {m}]] \/ Onward(w, m)
      BY <2>1 DEF TakeUp
    <3>4. QED BY <1>1, <3>2, <3>3, Onwards
  <2>2. CASE Charge(w, m)
    <3>1. PICK cost \in Nat : job' = [job EXCEPT ![w].pc = "charged", ![w].cost = cost]
      BY <2>2, NumbersAssumption DEF Charge
    <3>2. "charged" \in Places BY DEF Places
    <3>3. [job[w] EXCEPT !.pc = "charged", !.cost = cost] \in Job BY <1>1, <3>2, JobMoves
    <3>4. QED BY <1>1, <3>1, <3>3
  <2>3. CASE Onward(w, m) BY <2>3, Onwards
  <2>4. CASE \E place \in Places : Goto(w, place) BY <2>4, Gotos
  <2>5. QED
    BY <2>1, <2>2, <2>3, <2>4
       DEF SendStep, Claim, CannotSend, AfterNoSend, ChargeNobody, Call, SaveSent, Refund, AfterRefund,
           MarkFailed, Places
<1>5. wallet' \in Nat /\ tx' \in Sums
  <2>1. CASE UNCHANGED <<wallet, tx>> BY <2>1 DEF TypeOK
  <2>2. CASE Charge(w, m)
    <3>1. PICK cost \in Prices :
            wallet >= cost /\ wallet' = wallet - cost /\ tx' = [tx EXCEPT !.debit = @ + cost]
      BY <2>2 DEF Charge, Affords
    <3>2. cost \in Nat BY NumbersAssumption
    <3>3. wallet' \in Nat BY <3>1, <3>2 DEF TypeOK
    <3>4. tx' \in Sums BY <3>1, <3>2 DEF TypeOK, Sums
    <3>5. QED BY <3>3, <3>4
  <2>3. CASE /\ wallet' = wallet + job[w].cost
             /\ tx' = [tx EXCEPT !.refund = @ + job[w].cost]
    BY <1>1, <2>3 DEF TypeOK, Sums
  <2>4. QED
    BY <2>1, <2>2, <2>3
       DEF SendStep, TakeUp, Claim, CannotSend, ChargeNobody, Call, SaveSent, Refund, Refunded, MarkFailed
<1>6. accepted' \in [Messages -> Nat] /\ earned' \in Nat
  <2>1. CASE UNCHANGED sent BY <2>1 DEF TypeOK, sent
  <2>2. CASE Call(w, m) BY <1>1, <2>2 DEF Call, TypeOK
  <2>3. QED
    BY <2>1, <2>2
       DEF SendStep, TakeUp, Claim, CannotSend, Charge, ChargeNobody, SaveSent, Refund, MarkFailed
<1>7. QED BY <1>2, <1>3, <1>4, <1>5, <1>6 DEF TypeOK, died

LEMMA PayTyped ==
  ASSUME TypeOK, NEW w \in Workers, PayStep(w)
  PROVE  TypeOK'
<1>1. job[w] \in Job /\ job \in [Workers -> Job] /\ job[w].balance \in Nat BY DEF TypeOK, Job
<1>2. CASE SavePaid(w)
  <2>1. UNCHANGED <<sms, wallet, tx, bill, sent, pays, died>> BY <1>2 DEF SavePaid
  <2>2. [job[w] EXCEPT !.pc = "credit", !.balance = wallet] \in Job
    BY <1>1, JobMoves DEF TypeOK, Places
  <2>3. job' \in [Workers -> Job] BY <1>1, <1>2, <2>2, IdleIsJob DEF SavePaid
  <2>4. QED BY <2>1, <2>3 DEF TypeOK, sent, died
<1>3. ASSUME NEW b \in Bills, CreditWallet(w, b) PROVE TypeOK'
  <2>1. UNCHANGED <<sms, sent, pays, died>> BY <1>3 DEF CreditWallet
  <2>2. bill' \in [Bills -> BillStatus] BY <1>3 DEF CreditWallet, TypeOK, BillStatus
  <2>3. wallet' \in Nat BY <1>1, <1>3, NumbersAssumption DEF CreditWallet
  <2>4. tx' \in Sums BY <1>3, NumbersAssumption DEF CreditWallet, TypeOK, Sums
  <2>5. job' \in [Workers -> Job] BY <1>1, <1>3, IdleIsJob DEF CreditWallet
  <2>6. QED BY <2>1, <2>2, <2>3, <2>4, <2>5 DEF TypeOK, sent, died
<1>4. QED BY <1>2, <1>3 DEF PayStep

LEMMA CrashTyped ==
  ASSUME TypeOK, NEW w \in Workers, Crash(w)
  PROVE  TypeOK'
<1>1. UNCHANGED <<sms, wallet, tx, bill, sent, pays>> BY DEF Crash
<1>2. job' \in [Workers -> Job] BY IdleIsJob DEF Crash, TypeOK
<1>3. crashes' \in Nat /\ left' \in SUBSET Messages BY DEF Crash, TypeOK, Job
<1>4. QED BY <1>1, <1>2, <1>3 DEF TypeOK, sent

LEMMA TypeStarts == Init => TypeOK
<1> SUFFICES ASSUME Init PROVE TypeOK OBVIOUS
<1>1. NoRow \in SmsRow BY DEF NoRow, SmsRow, Status
<1>2. QED BY <1>1, IdleIsJob DEF Init, TypeOK, Sums, BillStatus

LEMMA TypeSteps == TypeOK /\ [Next]_vars => TypeOK'
<1> SUFFICES ASSUME TypeOK, [Next]_vars PROVE TypeOK' OBVIOUS
<1>1. ASSUME NEW m \in Messages, Queue(m) PROVE TypeOK'
  <2>1. sms' \in [Messages -> SmsRow] BY <1>1, Marks DEF Queue, Status
  <2>2. UNCHANGED <<wallet, tx, bill, job, sent, pays, died>> BY <1>1 DEF Queue
  <2>3. QED BY <2>1, <2>2 DEF TypeOK, sent, died
<1>2. ASSUME NEW b \in Bills, CreateBill(b) PROVE TypeOK'
  BY <1>2 DEF CreateBill, TypeOK, BillStatus, sent, died
<1>3. CASE UNCHANGED vars BY <1>3 DEF vars, sent, died, TypeOK
<1>4. QED BY <1>1, <1>2, <1>3, BeginTyped, SendTyped, PayTyped, CrashTyped DEF Next, Step

\* The rows, sums and jobs have their types, the wallet among them: it is never below zero.
THEOREM OutboxTyped == Spec => []TypeOK
BY TypeStarts, TypeSteps, PTL DEF Spec

----------------------------------------------------------------------------
\* What is SENT was accepted

Accepting ==
  \A w \in Workers : job[w].pc = "accepted" => \A m \in Messages : InHand(w, m) => accepted[m] > 0

\* What the provider has taken stays taken.
LEMMA AcceptedGrows ==
  ASSUME TypeOK, [Next]_vars
  PROVE  \A m \in Messages : accepted[m] > 0 => accepted'[m] > 0
<1>1. CASE UNCHANGED accepted BY <1>1
<1>2. ASSUME NEW w \in Workers, NEW m \in Messages, Call(w, m)
      PROVE  \A n \in Messages : accepted[n] > 0 => accepted'[n] > 0
  BY <1>2 DEF Call, TypeOK
<1>3. ASSUME NEW w \in Workers, NEW m \in Messages, SendStep(w, m), ~Call(w, m)
      PROVE  UNCHANGED accepted
  BY <1>3
     DEF SendStep, TakeUp, Claim, CannotSend, Charge, ChargeNobody, SaveSent, Refund, MarkFailed, sent
<1>4. ASSUME NEW w \in Workers, Begin(w) \/ PayStep(w) \/ Crash(w) PROVE UNCHANGED accepted
  BY <1>4 DEF Begin, BeginProcess, BeginRetry, BeginPay, PayStep, SavePaid, CreditWallet, Crash, sent
<1>5. CASE (\E m \in Messages : Queue(m)) \/ (\E b \in Bills : CreateBill(b)) \/ UNCHANGED vars
  BY <1>5 DEF Queue, CreateBill, vars, sent
<1>6. QED BY <1>1, <1>2, <1>3, <1>4, <1>5 DEF Next, Step

\* A worker whose step leaves it short of the answer claims nothing.
LEMMA AcceptingKept ==
  ASSUME TypeOK, Accepting, NEW w \in Workers, job' \in [Workers -> Job],
         \A v \in Workers \ {w} : job'[v] = job[v],
         \A m \in Messages : accepted[m] > 0 => accepted'[m] > 0,
         job'[w].pc # "accepted"
  PROVE  Accepting'
BY DEF Accepting, InHand

LEMMA SentKept ==
  ASSUME TypeOK, SentWasAccepted, NEW m \in Messages, sms' \in [Messages -> SmsRow],
         \A n \in Messages \ {m} : sms'[n] = sms[n],
         \A n \in Messages : accepted[n] > 0 => accepted'[n] > 0,
         sms'[m].status # "SENT" \/ accepted'[m] > 0
  PROVE  SentWasAccepted'
BY DEF SentWasAccepted

LEMMA SendAccepted ==
  ASSUME TypeOK, SentWasAccepted, Accepting, NEW w \in Workers, NEW m \in Messages, SendStep(w, m),
         [Next]_vars
  PROVE  SentWasAccepted' /\ Accepting'
<1> USE DEF Status
<1>1. job[w] \in Job /\ job \in [Workers -> Job] /\ sms \in [Messages -> SmsRow] /\ sms[m] \in SmsRow
  BY DEF TypeOK
<1>2. \A n \in Messages : accepted[n] > 0 => accepted'[n] > 0 BY AcceptedGrows
<1>3. ASSUME UNCHANGED sms PROVE SentWasAccepted' BY <1>2, <1>3 DEF SentWasAccepted
<1>4. ASSUME Onward(w, m) PROVE Accepting' BY <1>2, <1>4, Onwards, AcceptingKept
<1>5. ASSUME NEW place \in Places \ {"accepted"}, Goto(w, place) PROVE Accepting'
  BY <1>2, <1>5, Gotos, AcceptingKept
<1>6. ASSUME NEW status \in Status \ {"SENT"}, Mark(m, status) PROVE SentWasAccepted'
  BY <1>2, <1>6, Marks, SentKept
<1>7. CASE TakeUp(w, m)
  <2>1. SentWasAccepted' BY <1>3, <1>6, <1>7 DEF TakeUp
  <2>2. CASE Onward(w, m) BY <1>4, <2>1, <2>2
  <2>3. CASE job' = [job EXCEPT ![w] = [job[w] EXCEPT !.pc = "lock", !.m = {m}]]
    <3>1. [job[w] EXCEPT !.pc = "lock", !.m = {m}] \in Job BY <1>1, JobMoves DEF Places
    <3>2. [job[w] EXCEPT !.pc = "lock", !.m = {m}].pc = "lock" BY <1>1 DEF Job
    <3>3. Accepting' BY <1>1, <1>2, <2>3, <3>1, <3>2, AcceptingKept
    <3>4. QED BY <2>1, <3>3
  <2>4. QED BY <1>7, <2>2, <2>3 DEF TakeUp
<1>8. CASE Claim(w, m)
  <2>1. CASE Onward(w, m) /\ UNCHANGED sms BY <1>3, <1>4, <2>1
  <2>2. CASE sms' = [sms EXCEPT ![m] = Claimed(m)] /\ Goto(w, "locked")
    <3>1. SentWasAccepted' BY <1>1, <1>2, <2>2, Claims, SentKept
    <3>2. QED BY <1>5, <2>2, <3>1 DEF Places
  <2>3. QED BY <1>8, <2>1, <2>2 DEF Claim
<1>9. CASE CannotSend(w, m) \/ ChargeNobody(w, m) \/ Refund(w, m)
  <2>1. UNCHANGED sms BY <1>9 DEF CannotSend, ChargeNobody, Refund
  <2>2. \E place \in Places \ {"accepted"} : Goto(w, place)
    BY <1>9 DEF CannotSend, AfterNoSend, ChargeNobody, Refund, AfterRefund, Places
  <2>3. QED BY <1>3, <1>5, <2>1, <2>2
<1>10. CASE Charge(w, m)
  <2>1. PICK cost \in Nat : job' = [job EXCEPT ![w] = [job[w] EXCEPT !.pc = "charged", !.cost = cost]]
    BY <1>10, NumbersAssumption DEF Charge
  <2>2. [job[w] EXCEPT !.pc = "charged", !.cost = cost] \in Job BY <1>1, JobMoves DEF Places
  <2>3. [job[w] EXCEPT !.pc = "charged", !.cost = cost].pc = "charged" BY <1>1 DEF Job
  <2>4. Accepting' BY <1>1, <1>2, <2>1, <2>2, <2>3, AcceptingKept
  <2>5. UNCHANGED sms BY <1>10 DEF Charge
  <2>6. QED BY <1>3, <2>4, <2>5
<1>11. CASE Call(w, m)
  <2>1. SentWasAccepted' BY <1>3, <1>11 DEF Call
  <2>2. CASE Goto(w, "refused") BY <1>5, <2>1, <2>2 DEF Places
  <2>3. CASE accepted' = [accepted EXCEPT ![m] = @ + 1] /\ Goto(w, "accepted")
    <3>1. accepted'[m] > 0 BY <2>3 DEF TypeOK
    <3>2. job' \in [Workers -> Job] /\ job'[w].m = {m} /\ \A v \in Workers \ {w} : job'[v] = job[v]
      BY <1>11, <2>3, Gotos DEF Call, InHand, Places
    <3>3. Accepting' BY <1>2, <3>1, <3>2 DEF Accepting, InHand
    <3>4. QED BY <2>1, <3>3
  <2>4. QED BY <1>11, <2>2, <2>3 DEF Call
<1>12. CASE SaveSent(w, m)
  <2>1. accepted[m] > 0 BY <1>12 DEF SaveSent, Accepting
  <2>2. SentWasAccepted' BY <1>2, <1>12, <2>1, Marks, SentKept DEF SaveSent
  <2>3. QED BY <1>4, <1>12, <2>2 DEF SaveSent
<1>13. CASE MarkFailed(w, m) BY <1>4, <1>6, <1>13 DEF MarkFailed
<1>14. QED BY <1>7, <1>8, <1>9, <1>10, <1>11, <1>12, <1>13 DEF SendStep

LEMMA AcceptedSteps ==
  TypeOK /\ SentWasAccepted /\ Accepting /\ [Next]_vars => SentWasAccepted' /\ Accepting'
<1> SUFFICES ASSUME TypeOK, SentWasAccepted, Accepting, [Next]_vars
             PROVE  SentWasAccepted' /\ Accepting'
  OBVIOUS
<1>1. \A m \in Messages : accepted[m] > 0 => accepted'[m] > 0 BY AcceptedGrows
<1>2. TypeOK' BY TypeSteps
<1>3. ASSUME UNCHANGED sms PROVE SentWasAccepted' BY <1>1, <1>3 DEF SentWasAccepted
<1>4. ASSUME UNCHANGED job PROVE Accepting' BY <1>1, <1>4 DEF Accepting, InHand
<1>5. ASSUME NEW m \in Messages, Queue(m) PROVE SentWasAccepted' /\ Accepting'
  <2>1. SentWasAccepted' BY <1>1, <1>5, Marks, SentKept DEF Queue, Status
  <2>2. QED BY <1>4, <1>5, <2>1 DEF Queue
<1>6. ASSUME NEW w \in Workers, Begin(w) \/ PayStep(w) \/ Crash(w)
      PROVE  SentWasAccepted' /\ Accepting'
  <2>1. UNCHANGED sms
    BY <1>6 DEF Begin, BeginProcess, BeginRetry, BeginPay, PayStep, SavePaid, CreditWallet, Crash
  <2>2. PICK f : job' = [job EXCEPT ![w] = f] /\ f.pc \in {"idle", "next", "pay", "credit"}
    <3>1. job[w] \in Job BY DEF TypeOK
    <3>2. CASE Begin(w)
      <4>1. CASE BeginProcess(w)
        <5>1. PICK ids : job' = [job EXCEPT ![w] = [Idle EXCEPT !.pc = "next", !.todo = ids]]
          BY <4>1 DEF BeginProcess
        <5>2. [Idle EXCEPT !.pc = "next", !.todo = ids].pc = "next" BY DEF Idle
        <5>3. QED BY <5>1, <5>2
      <4>2. CASE BeginRetry(w)
        <5>1. PICK ids, copies :
                job' = [job EXCEPT ![w] = [Idle EXCEPT !.pc = "next", !.todo = ids, !.copies = copies]]
          BY <4>2 DEF BeginRetry
        <5>2. [Idle EXCEPT !.pc = "next", !.todo = ids, !.copies = copies].pc = "next" BY DEF Idle
        <5>3. QED BY <5>1, <5>2
      <4>3. ASSUME NEW b \in Bills, BeginPay(w, b)
            PROVE  job' = [job EXCEPT ![w] = [Idle EXCEPT !.pc = "pay", !.bill = {b}, !.copy = bill[b]]]
        BY <4>3 DEF BeginPay
      <4>4. \A b \in Bills : [Idle EXCEPT !.pc = "pay", !.bill = {b}, !.copy = bill[b]].pc = "pay"
        BY DEF Idle
      <4>5. QED BY <3>2, <4>1, <4>2, <4>3, <4>4 DEF Begin
    <3>3. CASE PayStep(w)
      <4>1. [job[w] EXCEPT !.pc = "credit", !.balance = wallet].pc = "credit" BY <3>1 DEF Job
      <4>2. QED BY <3>3, <4>1, IdleIsJob DEF PayStep, SavePaid, CreditWallet
    <3>4. CASE Crash(w) BY <3>4, IdleIsJob DEF Crash
    <3>5. QED BY <1>6, <3>2, <3>3, <3>4
  <2>3. Accepting' BY <1>1, <1>2, <2>2, AcceptingKept DEF TypeOK
  <2>4. QED BY <1>3, <2>1, <2>3
<1>7. CASE UNCHANGED vars BY <1>3, <1>4, <1>7 DEF vars
<1>8. ASSUME NEW b \in Bills, CreateBill(b) PROVE SentWasAccepted' /\ Accepting'
  BY <1>3, <1>4, <1>8 DEF CreateBill
<1>9. QED BY <1>5, <1>6, <1>7, <1>8, SendAccepted DEF Next, Step

\* What is shown as SENT was taken by the provider, however many workers, retries and crashes.
THEOREM SentWasAcceptedAlways == Spec => []SentWasAccepted
<1>1. Init => SentWasAccepted /\ Accepting
  BY DEF Init, SentWasAccepted, Accepting, NoRow, Idle
<1>2. QED BY <1>1, TypeStarts, TypeSteps, AcceptedSteps, PTL DEF Spec

----------------------------------------------------------------------------
\* The wallet's account

\* Recharges run alone: who pays is the only one at work, pays for the invoice
\* as it stands, and writes the balance as it stands.
Recharging(w) ==
  /\ \A v \in Workers \ {w} : job[v].pc = "idle"
  /\ \E b \in Bills : job[w].bill = {b} /\ job[w].copy = bill[b] /\ bill[b] # "none"
  /\ job[w].pc = "credit" => job[w].copy # "PAID" /\ job[w].balance = wallet
PayAlone == \A w \in Workers : job[w].pc \in Paying => Recharging(w)

LEMMA PaidIsFinite == IsFiniteSet(Paid) /\ Cardinality(Paid) \in Nat
<1>1. Paid \subseteq Bills BY DEF Paid
<1>2. IsFiniteSet(Paid) BY <1>1, BillsAssumption, FS_Subset
<1>3. QED BY <1>2, FS_CardinalityType

LEMMA OneMorePaid ==
  ASSUME TypeOK, NEW b \in Bills, bill[b] # "PAID", bill' = [bill EXCEPT ![b] = "PAID"]
  PROVE  Amount * Cardinality(Paid') = Amount * Cardinality(Paid) + Amount
<1>1. Paid' = Paid \cup {b} BY DEF Paid, TypeOK
<1>2. b \notin Paid BY DEF Paid
<1>3. Cardinality(Paid \cup {b}) = Cardinality(Paid) + 1 BY <1>2, PaidIsFinite, FS_AddElement
<1>4. Amount \in Nat BY NumbersAssumption
<1>5. \A n \in Nat, a \in Nat : a * (n + 1) = a * n + a OBVIOUS
<1>6. QED BY <1>1, <1>3, <1>4, <1>5, PaidIsFinite

\* Who sends is not alone with a recharge: there is none.
LEMMA SendAccounts ==
  ASSUME TypeOK, WalletAccounts, PayAlone, NEW w \in Workers, NEW m \in Messages, SendStep(w, m)
  PROVE  WalletAccounts' /\ PayAlone'
<1>1. job[w] \in Job /\ job[w].cost \in Nat /\ wallet \in Nat /\ tx \in Sums
  BY DEF TypeOK, Job
<1>2. job[w].pc \in Sending \cup {"next", "lock"}
  BY DEF SendStep, TakeUp, Claim, CannotSend, Charge, ChargeNobody, Call, SaveSent, Refund, MarkFailed,
         Sending
<1>3. \A v \in Workers : job[v].pc \notin Paying
  BY <1>2 DEF PayAlone, Recharging, Paying, Sending
<1>4. UNCHANGED bill
  BY DEF SendStep, TakeUp, Claim, CannotSend, Charge, ChargeNobody, Call, SaveSent, Refund, MarkFailed
<1>5. job' \in [Workers -> Job] /\ job'[w].pc \notin Paying
      /\ \A v \in Workers \ {w} : job'[v] = job[v]
  <2>1. CASE TakeUp(w, m)
    <3>1. [job[w] EXCEPT !.pc = "lock", !.m = {m}] \in Job BY <1>1, JobMoves DEF Places
    <3>2. [job[w] EXCEPT !.pc = "lock", !.m = {m}].pc = "lock" BY <1>1 DEF Job
    <3>3. job' = [job EXCEPT ![w] = [job[w] EXCEPT !.pc = "lock", !.m = {m}]] \/ Onward(w, m)
      BY <2>1 DEF TakeUp
    <3>4. QED BY <3>1, <3>2, <3>3, Onwards DEF Paying, TypeOK
  <2>2. CASE Charge(w, m)
    <3>1. PICK cost \in Nat :
            job' = [job EXCEPT ![w] = [job[w] EXCEPT !.pc = "charged", !.cost = cost]]
      BY <2>2, NumbersAssumption DEF Charge
    <3>2. [job[w] EXCEPT !.pc = "charged", !.cost = cost] \in Job BY <1>1, JobMoves DEF Places
    <3>3. [job[w] EXCEPT !.pc = "charged", !.cost = cost].pc = "charged" BY <1>1 DEF Job
    <3>4. QED BY <3>1, <3>2, <3>3 DEF Paying, TypeOK
  <2>3. CASE Onward(w, m) BY <2>3, Onwards DEF Paying
  <2>4. CASE \E place \in Places \ Paying : Goto(w, place) BY <2>4, Gotos
  <2>5. QED
    BY <2>1, <2>2, <2>3, <2>4
       DEF SendStep, Claim, CannotSend, AfterNoSend, ChargeNobody, Call, SaveSent, Refund, AfterRefund,
           MarkFailed, Places, Paying
<1>6. PayAlone' BY <1>3, <1>5 DEF PayAlone
<1>7. Paid' = Paid BY <1>4 DEF Paid
<1>8. CASE UNCHANGED <<wallet, tx>> BY <1>7, <1>8, <1>6 DEF WalletAccounts
<1>9. CASE Charge(w, m)
  <2>1. PICK cost \in Nat :
          wallet >= cost /\ wallet' = wallet - cost /\ tx' = [tx EXCEPT !.debit = @ + cost]
    BY <1>9, NumbersAssumption DEF Charge, Affords
  <2>2. /\ tx'.debit = tx.debit + cost /\ tx'.credit = tx.credit /\ tx'.refund = tx.refund
        /\ tx.debit \in Nat /\ tx.credit \in Nat /\ tx.refund \in Nat
    BY <1>1, <2>1 DEF Sums
  <2>3. QED BY <1>1, <1>6, <1>7, <2>1, <2>2 DEF WalletAccounts
<1>10. CASE wallet' = wallet + job[w].cost /\ tx' = [tx EXCEPT !.refund = @ + job[w].cost]
  <2>1. /\ tx'.debit = tx.debit /\ tx'.credit = tx.credit /\ tx'.refund = tx.refund + job[w].cost
        /\ tx.debit \in Nat /\ tx.credit \in Nat /\ tx.refund \in Nat
    BY <1>1, <1>10 DEF Sums
  <2>2. QED BY <1>1, <1>6, <1>7, <1>10, <2>1 DEF WalletAccounts
<1>11. QED
  BY <1>8, <1>9, <1>10
     DEF SendStep, TakeUp, Claim, CannotSend, ChargeNobody, Call, SaveSent, Refund, Refunded, MarkFailed

LEMMA BeginAccounts ==
  ASSUME TypeOK, WalletAccounts, PayAlone, "pay" \in Alone, NEW w \in Workers, Begin(w)
  PROVE  WalletAccounts' /\ PayAlone'
<1>1. UNCHANGED <<wallet, tx, bill>> BY DEF Begin, BeginProcess, BeginRetry, BeginPay
<1>2. WalletAccounts' BY <1>1 DEF WalletAccounts, Paid
<1>3. job[w].pc = "idle" /\ \A v \in Workers : job[v].pc \notin Paying
  BY DEF Begin, BeginProcess, BeginRetry, BeginPay, MayBegin
<1>4. CASE BeginProcess(w) \/ BeginRetry(w)
  <2>1. PICK f : job' = [job EXCEPT ![w] = f] /\ f.pc = "next"
    <3>1. CASE BeginProcess(w)
      <4>1. PICK ids : job' = [job EXCEPT ![w] = [Idle EXCEPT !.pc = "next", !.todo = ids]]
        BY <3>1 DEF BeginProcess
      <4>2. [Idle EXCEPT !.pc = "next", !.todo = ids].pc = "next" BY DEF Idle
      <4>3. QED BY <4>1, <4>2
    <3>2. CASE BeginRetry(w)
      <4>1. PICK ids, copies :
              job' = [job EXCEPT ![w] = [Idle EXCEPT !.pc = "next", !.todo = ids, !.copies = copies]]
        BY <3>2 DEF BeginRetry
      <4>2. [Idle EXCEPT !.pc = "next", !.todo = ids, !.copies = copies].pc = "next" BY DEF Idle
      <4>3. QED BY <4>1, <4>2
    <3>3. QED BY <1>4, <3>1, <3>2
  <2>2. \A v \in Workers : job'[v].pc \notin Paying BY <1>3, <2>1 DEF TypeOK, Paying
  <2>3. QED BY <1>2, <2>2 DEF PayAlone
<1>5. ASSUME NEW b \in Bills, BeginPay(w, b) PROVE PayAlone'
  <2>1. PICK f : f = [Idle EXCEPT !.pc = "pay", !.bill = {b}, !.copy = bill[b]] OBVIOUS
  <2>2. f.pc = "pay" /\ f.bill = {b} /\ f.copy = bill[b] BY <2>1 DEF Idle
  <2>3. job' = [job EXCEPT ![w] = f] /\ bill[b] # "none" BY <1>5, <2>1 DEF BeginPay
  <2>4. \A v \in Workers : job[v].pc = "idle" BY <1>5 DEF BeginPay, MayBegin, InFlight
  <2>5. job'[w] = f /\ \A v \in Workers \ {w} : job'[v] = job[v] BY <2>3 DEF TypeOK
  <2>6. Recharging(w)' BY <1>1, <2>2, <2>3, <2>4, <2>5 DEF Recharging
  <2>7. \A v \in Workers \ {w} : job'[v].pc \notin Paying BY <2>4, <2>5 DEF Paying
  <2>8. QED BY <2>6, <2>7 DEF PayAlone
<1>6. QED BY <1>2, <1>4, <1>5 DEF Begin

LEMMA PayAccounts ==
  ASSUME TypeOK, WalletAccounts, PayAlone, NEW w \in Workers, PayStep(w)
  PROVE  WalletAccounts' /\ PayAlone'
<1>1. job[w] \in Job /\ job \in [Workers -> Job] /\ wallet \in Nat /\ tx \in Sums BY DEF TypeOK
<1>2. job[w].pc \in Paying BY DEF PayStep, SavePaid, CreditWallet, Paying
<1>3. Recharging(w) BY <1>2 DEF PayAlone
<1>4. CASE SavePaid(w)
  <2>1. UNCHANGED <<wallet, tx, bill>> BY <1>4 DEF SavePaid
  <2>2. WalletAccounts' BY <2>1 DEF WalletAccounts, Paid
  <2>3. CASE AlreadyPaid(w)
    <3>1. job' = [job EXCEPT ![w] = Idle] BY <1>4, <2>3 DEF SavePaid
    <3>2. \A v \in Workers : job'[v].pc = "idle" BY <1>1, <1>3, <3>1, IdleIsJob DEF Recharging
    <3>3. QED BY <2>2, <3>2 DEF PayAlone, Paying
  <2>4. CASE ~AlreadyPaid(w)
    <3>1. PICK f : f = [job[w] EXCEPT !.pc = "credit", !.balance = wallet] OBVIOUS
    <3>2. f.pc = "credit" /\ f.balance = wallet /\ f.bill = job[w].bill /\ f.copy = job[w].copy
      BY <1>1, <3>1 DEF Job
    <3>3. job' = [job EXCEPT ![w] = f] BY <1>4, <2>4, <3>1 DEF SavePaid
    <3>4. job'[w] = f /\ \A v \in Workers \ {w} : job'[v] = job[v] BY <1>1, <3>3
    <3>5. Recharging(w)' BY <1>3, <2>1, <2>4, <3>2, <3>4 DEF Recharging, AlreadyPaid
    <3>6. \A v \in Workers \ {w} : job'[v].pc \notin Paying BY <1>3, <3>4 DEF Recharging, Paying
    <3>7. QED BY <2>2, <3>5, <3>6 DEF PayAlone
  <2>5. QED BY <2>3, <2>4
<1>5. ASSUME NEW b \in Bills, CreditWallet(w, b) PROVE WalletAccounts' /\ PayAlone'
  <2>1. /\ job[w].balance = wallet /\ bill[b] # "PAID"
    BY <1>3, <1>5 DEF CreditWallet, Recharging
  <2>2. /\ wallet' = wallet + Amount /\ bill' = [bill EXCEPT ![b] = "PAID"]
        /\ tx' = [tx EXCEPT !.credit = @ + Amount] /\ job' = [job EXCEPT ![w] = Idle]
    BY <1>5, <2>1 DEF CreditWallet
  <2>3. /\ tx'.debit = tx.debit /\ tx'.credit = tx.credit + Amount /\ tx'.refund = tx.refund
        /\ tx.debit \in Nat /\ tx.credit \in Nat /\ tx.refund \in Nat
    BY <1>1, <2>2 DEF Sums
  <2>4. Amount \in Nat BY NumbersAssumption
  <2>5. wallet' >= 0 /\ wallet' + tx'.debit = tx'.credit + tx'.refund
    BY <1>1, <2>2, <2>3, <2>4 DEF WalletAccounts
  <2>6. tx'.credit = Amount * Cardinality(Paid') BY <2>1, <2>2, <2>3, OneMorePaid DEF WalletAccounts
  <2>7. \A v \in Workers : job'[v].pc = "idle" BY <1>1, <1>3, <2>2, IdleIsJob DEF Recharging
  <2>8. QED BY <2>5, <2>6, <2>7 DEF WalletAccounts, PayAlone, Paying
<1>6. QED BY <1>4, <1>5 DEF PayStep

LEMMA AccountSteps ==
  ASSUME "pay" \in Alone
  PROVE  TypeOK /\ WalletAccounts /\ PayAlone /\ [Next]_vars => WalletAccounts' /\ PayAlone'
<1> SUFFICES ASSUME TypeOK, WalletAccounts, PayAlone, [Next]_vars
             PROVE  WalletAccounts' /\ PayAlone'
  OBVIOUS
<1>1. CASE UNCHANGED <<wallet, tx, bill, job>>
  BY <1>1 DEF WalletAccounts, Paid, PayAlone, Recharging
<1>2. ASSUME NEW b \in Bills, CreateBill(b) PROVE WalletAccounts' /\ PayAlone'
  <2>1. Paid' = Paid BY <1>2 DEF CreateBill, Paid, TypeOK
  <2>2. WalletAccounts' BY <1>2, <2>1 DEF CreateBill, WalletAccounts
  <2>3. \A c \in Bills : bill[c] # "none" => bill'[c] = bill[c] BY <1>2 DEF CreateBill, TypeOK
  <2>4. PayAlone' BY <1>2, <2>3 DEF CreateBill, PayAlone, Recharging
  <2>5. QED BY <2>2, <2>4
<1>3. ASSUME NEW w \in Workers, Crash(w) PROVE WalletAccounts' /\ PayAlone'
  <2>1. UNCHANGED <<wallet, tx, bill>> /\ job' = [job EXCEPT ![w] = Idle] BY <1>3 DEF Crash
  <2>2. job'[w].pc = "idle" /\ \A v \in Workers \ {w} : job'[v] = job[v]
    BY <2>1, IdleIsJob DEF TypeOK
  <2>3. PayAlone' BY <2>1, <2>2 DEF PayAlone, Recharging, Paying
  <2>4. QED BY <2>1, <2>3 DEF WalletAccounts, Paid
<1>4. CASE (\E m \in Messages : Queue(m)) \/ UNCHANGED vars BY <1>1, <1>4 DEF Queue, vars
<1>5. QED
  BY <1>2, <1>3, <1>4, SendAccounts, BeginAccounts, PayAccounts DEF Next, Step

\* As long as recharges run alone, the wallet is what its transactions and the
\* paid invoices say, however many workers charge and refund it, or die.
THEOREM WalletAccountsAlways ==
  ASSUME "pay" \in Alone
  PROVE  Spec => []WalletAccounts
<1>1. Init => WalletAccounts /\ PayAlone
  <2> SUFFICES ASSUME Init PROVE WalletAccounts /\ PayAlone OBVIOUS
  <2>1. Paid = {} BY DEF Init, Paid
  <2>2. Amount * Cardinality(Paid) = 0 BY <2>1, FS_EmptySet, NumbersAssumption
  <2>3. WalletAccounts BY <2>2 DEF Init, WalletAccounts
  <2>4. PayAlone BY DEF Init, PayAlone, Idle, Paying
  <2>5. QED BY <2>3, <2>4
<1>2. QED BY <1>1, TypeStarts, TypeSteps, AccountSteps, PTL DEF Spec
----------------------------------------------------------------------------
\* Charges in hand

\* What the company has paid for a message that is neither taken nor refunded.
ChargeOf(j) == IF j.pc \in {"charged", "refused"} THEN j.cost ELSE 0
InHands == [w \in Workers |-> ChargeOf(job[w])]

\* S[k] is the sum of h over the first k of the n workers, in the order e.  The last two
\* conjuncts follow by induction; they are kept up along with the others instead.
Adds(n, e, h, S) ==
  /\ S \in [0 .. n -> Nat]
  /\ S[0] = 0
  /\ \A k \in 1 .. n : S[k] = S[k - 1] + h[e[k]]
  /\ \A j, k \in 0 .. n : j <= k => S[j] <= S[k]
  /\ \A j, k \in 0 .. n : j <= k /\ (\A i \in (j + 1) .. k : h[e[i]] = 0) => S[j] = S[k]

Order(n) == {e \in [1 .. n -> Workers] :
               /\ \A w \in Workers : \E k \in 1 .. n : e[k] = w
               /\ \A j, k \in 1 .. n : e[j] = e[k] => j = k}

LEMMA Ordered == \E n \in Nat : Order(n) # {}
<1>1. PICK n \in Nat : ExistsBijection(1 .. n, Workers) BY WorkersAssumption, FS_NatBijection
<1>2. PICK e : e \in Bijection(1 .. n, Workers) BY <1>1 DEF ExistsBijection
<1>3. e \in Order(n) BY <1>2 DEF Order, Bijection, Injection, Surjection, IsInjective
<1>4. QED BY <1>3

\* No charge is more than the sum.
LEMMA AddsBound ==
  ASSUME NEW n \in Nat, NEW e \in Order(n), NEW h \in [Workers -> Nat], NEW S, Adds(n, e, h, S),
         NEW w \in Workers
  PROVE  S[n] \in Nat /\ h[w] \in Nat /\ h[w] <= S[n]
<1>1. PICK p \in 1 .. n : e[p] = w BY DEF Order
<1>2. S[p] = S[p - 1] + h[w] /\ S \in [0 .. n -> Nat] /\ S[p] <= S[n] BY <1>1 DEF Adds
<1>3. p - 1 \in 0 .. n /\ p \in 0 .. n /\ n \in 0 .. n BY <1>1
<1>4. S[p - 1] \in Nat /\ S[p] \in Nat /\ S[n] \in Nat BY <1>2, <1>3
<1>5. QED BY <1>2, <1>4

\* One worker's charge changes, and the sum with it.
LEMMA AddsChange ==
  ASSUME NEW n \in Nat, NEW e \in Order(n), NEW h \in [Workers -> Nat], NEW S, Adds(n, e, h, S),
         NEW w \in Workers, NEW g \in [Workers -> Nat], \A v \in Workers \ {w} : g[v] = h[v]
  PROVE  \E T : Adds(n, e, g, T) /\ T[n] = S[n] - h[w] + g[w]
<1> PICK x \in Nat : x = g[w] OBVIOUS
<1>1. PICK p \in 1 .. n : e[p] = w BY DEF Order
<1>2. \A k \in 1 .. n : k # p => e[k] # w BY <1>1 DEF Order
<1>3. /\ S \in [0 .. n -> Nat] /\ S[0] = 0
      /\ \A k \in 1 .. n : S[k] = S[k - 1] + h[e[k]]
      /\ \A j, k \in 0 .. n : j <= k => S[j] <= S[k]
      /\ \A j, k \in 0 .. n : j <= k /\ (\A i \in (j + 1) .. k : h[e[i]] = 0) => S[j] = S[k]
  BY DEF Adds
<1>4. S[p] = S[p - 1] + h[w] /\ S[p - 1] \in Nat /\ h[w] \in Nat /\ p - 1 \in 0 .. n /\ p \in 0 .. n
  BY <1>1, <1>3
<1>5. \A k \in 0 .. n : p <= k => h[w] <= S[k]
  <2>1. SUFFICES ASSUME NEW k \in 0 .. n, p <= k PROVE h[w] <= S[k] OBVIOUS
  <2>2. S[p] <= S[k] /\ S[k] \in Nat /\ S[p] \in Nat BY <1>3, <1>4, <2>1
  <2>3. QED BY <1>4, <2>2
<1>6. PICK T : T = [k \in 0 .. n |-> IF p <= k THEN S[k] - h[w] + x ELSE S[k]] OBVIOUS
<1>7. \A k \in 0 .. n : S[k] \in Nat /\ T[k] = IF p <= k THEN S[k] - h[w] + x ELSE S[k]
  BY <1>3, <1>6
<1>8. T \in [0 .. n -> Nat]
  <2>1. ASSUME NEW k \in 0 .. n PROVE T[k] \in Nat
    <3>1. CASE p <= k
      <4>1. S[k] \in Nat /\ h[w] <= S[k] BY <1>5, <1>7, <3>1
      <4>2. QED BY <1>4, <1>7, <3>1, <4>1
    <3>2. CASE ~(p <= k) BY <1>7, <3>2
    <3>3. QED BY <3>1, <3>2
  <2>2. QED BY <1>6, <2>1
<1>9. T[0] = 0 BY <1>1, <1>3, <1>7
<1>10. ASSUME NEW k \in 1 .. n PROVE T[k] = T[k - 1] + g[e[k]]
  <2>1. k \in 0 .. n /\ k - 1 \in 0 .. n /\ e[k] \in Workers BY DEF Order
  <2>2. S[k] = S[k - 1] + h[e[k]] /\ h[e[k]] \in Nat BY <1>3, <2>1
  <2>3. CASE k = p
    <3>1. g[e[k]] = x BY <1>1, <2>1, <2>3
    <3>2. T[k] = S[k] - h[w] + x /\ T[k - 1] = S[k - 1] BY <1>7, <2>1, <2>3
    <3>3. QED BY <1>1, <1>4, <2>3, <3>1, <3>2
  <2>4. CASE k # p
    <3>1. g[e[k]] = h[e[k]] BY <1>2, <2>1, <2>4
    <3>2. p <= k <=> p <= k - 1 BY <2>4
    <3>3. S[k] \in Nat /\ S[k - 1] \in Nat BY <1>7, <2>1
    <3>4. CASE p <= k
      <4>1. T[k] = S[k] - h[w] + x /\ T[k - 1] = S[k - 1] - h[w] + x BY <1>7, <2>1, <3>2, <3>4
      <4>2. QED BY <1>4, <2>2, <3>1, <3>3, <4>1
    <3>5. CASE ~(p <= k)
      <4>1. T[k] = S[k] /\ T[k - 1] = S[k - 1] BY <1>7, <2>1, <3>2, <3>5
      <4>2. QED BY <2>2, <3>1, <4>1
    <3>6. QED BY <3>4, <3>5
  <2>5. QED BY <2>3, <2>4
<1>11. ASSUME NEW j \in 0 .. n, NEW k \in 0 .. n, j <= k PROVE T[j] <= T[k]
  <2>1. S[j] <= S[k] /\ S[j] \in Nat /\ S[k] \in Nat BY <1>3, <1>11
  <2>2. CASE p <= j BY <1>4, <1>7, <1>11, <2>1, <2>2
  <2>3. CASE k < p BY <1>4, <1>7, <1>11, <2>1, <2>3
  <2>4. CASE j < p /\ p <= k
    <3>1. S[j] <= S[p - 1] /\ S[p] <= S[k] BY <1>3, <1>4, <2>4
    <3>2. T[j] = S[j] /\ T[k] = S[k] - h[w] + x BY <1>7, <2>4
    <3>3. QED BY <1>4, <2>1, <3>1, <3>2
  <2>5. QED BY <1>11, <2>2, <2>3, <2>4
<1>12. ASSUME NEW j \in 0 .. n, NEW k \in 0 .. n, j <= k, \A i \in (j + 1) .. k : g[e[i]] = 0
       PROVE  T[j] = T[k]
  <2>1. \A i \in 1 .. n : i # p => g[e[i]] = h[e[i]] BY <1>2 DEF Order
  <2>2. CASE p <= j \/ k < p
    <3>1. \A i \in (j + 1) .. k : i \in 1 .. n /\ i # p BY <2>2
    <3>2. \A i \in (j + 1) .. k : h[e[i]] = 0 BY <1>12, <2>1, <3>1
    <3>3. S[j] = S[k] BY <1>3, <1>12, <3>2
    <3>4. QED BY <1>7, <1>12, <2>2, <3>3
  <2>3. CASE j < p /\ p <= k
    <3>1. \A i \in (j + 1) .. (p - 1) : i \in (j + 1) .. k /\ i \in 1 .. n /\ i # p BY <2>3
    <3>2. \A i \in (j + 1) .. (p - 1) : h[e[i]] = 0 BY <1>12, <2>1, <3>1
    <3>3. S[j] = S[p - 1] BY <1>3, <1>4, <2>3, <3>2
    <3>4. \A i \in (p + 1) .. k : i \in (j + 1) .. k /\ i \in 1 .. n /\ i # p BY <2>3
    <3>5. \A i \in (p + 1) .. k : h[e[i]] = 0 BY <1>12, <2>1, <3>4
    <3>6. S[p] = S[k] BY <1>3, <1>4, <2>3, <3>5
    <3>7. p \in (j + 1) .. k BY <2>3
    <3>8. x = 0 BY <1>1, <1>12, <3>7
    <3>9. T[j] = S[j] /\ T[k] = S[k] - h[w] + x BY <1>7, <2>3
    <3>10. QED BY <1>4, <3>3, <3>6, <3>8, <3>9
  <2>4. QED BY <1>12, <2>2, <2>3
<1>13. Adds(n, e, g, T) BY <1>8, <1>9, <1>10, <1>11, <1>12 DEF Adds
<1>14. n \in 0 .. n /\ p <= n BY <1>1
<1>15. T[n] = S[n] - h[w] + x /\ S[n] \in Nat /\ h[w] <= S[n] BY <1>5, <1>7, <1>14
<1>16. QED BY <1>13, <1>15
\* Before it is charged a message has cost nothing.
Free(j) == j.pc \in {"idle", "next", "lock", "locked"} => j.cost = 0
AllFree == \A w \in Workers : Free(job[w])

\* Debits are refunds, earnings and what is in hand, and more if workers have died.
Balanced(n, e) ==
  \E S : /\ Adds(n, e, InHands, S)
         /\ tx.debit >= tx.refund + earned + S[n]
         /\ crashes = 0 => tx.debit = tx.refund + earned + S[n]

LEMMA HandsType ==
  ASSUME TypeOK
  PROVE  InHands \in [Workers -> Nat]
BY DEF InHands, ChargeOf, TypeOK, Job

\* The charges in hand after the step of one worker.
LEMMA HandsStep ==
  ASSUME TypeOK, NEW w \in Workers, NEW f \in Job, job' = [job EXCEPT ![w] = f]
  PROVE  /\ ChargeOf(f) \in Nat
         /\ InHands' = [InHands EXCEPT ![w] = ChargeOf(f)]
<1>1. job \in [Workers -> Job] BY DEF TypeOK
<1>2. PICK x \in Nat : x = ChargeOf(f) BY DEF ChargeOf, Job
<1>3. \A v \in Workers : job'[v] = IF v = w THEN f ELSE job[v] BY <1>1
<1>4. InHands' = [v \in Workers |-> ChargeOf(job'[v])] BY DEF InHands, ChargeOf
<1>5. \A v \in Workers : ChargeOf(job'[v]) = IF v = w THEN x ELSE ChargeOf(job[v])
  BY <1>2, <1>3
<1>6. QED BY <1>2, <1>4, <1>5 DEF InHands

LEMMA FreeStep ==
  ASSUME TypeOK, AllFree, NEW w \in Workers, NEW f \in Job, Free(f), job' = [job EXCEPT ![w] = f]
  PROVE  AllFree'
<1>1. \A v \in Workers : job'[v] = IF v = w THEN f ELSE job[v] BY DEF TypeOK
<1>2. QED BY <1>1 DEF AllFree, Free

\* The step of a worker leaves the books balanced if it books what it takes in hand.
LEMMA Booked ==
  ASSUME TypeOK, AllFree, NEW n \in Nat, NEW e \in Order(n), Balanced(n, e),
         NEW w \in Workers, NEW f \in Job, Free(f), job' = [job EXCEPT ![w] = f],
         tx' \in Sums, earned' \in Nat, crashes' = crashes,
         (tx'.debit - tx'.refund) - earned' + ChargeOf(job[w])
           = (tx.debit - tx.refund) - earned + ChargeOf(f)
  PROVE  AllFree' /\ Balanced(n, e)'
<1>1. PICK S : /\ Adds(n, e, InHands, S)
               /\ tx.debit >= tx.refund + earned + S[n]
               /\ crashes = 0 => tx.debit = tx.refund + earned + S[n]
  BY DEF Balanced
<1>2. PICK h \in [Workers -> Nat] : h = InHands BY HandsType
<1>3. PICK g \in [Workers -> Nat] : g = InHands' /\ g = [h EXCEPT ![w] = ChargeOf(f)]
  BY <1>2, HandsStep
<1>4. h[w] = ChargeOf(job[w]) /\ g[w] = ChargeOf(f) BY <1>2, <1>3 DEF InHands
<1>5. Adds(n, e, h, S) BY <1>1, <1>2
<1>6. S[n] \in Nat /\ h[w] \in Nat /\ h[w] <= S[n] BY <1>5, AddsBound
<1>7. PICK T : Adds(n, e, g, T) /\ T[n] = S[n] - h[w] + g[w]
  <2>1. \A v \in Workers \ {w} : g[v] = h[v] BY <1>3
  <2>2. \E T : Adds(n, e, g, T) /\ T[n] = S[n] - h[w] + g[w] 
    BY ONLY n \in Nat, e \in Order(n), w \in Workers, h \in [Workers -> Nat], g \in [Workers -> Nat],
            <1>5, <2>1, AddsChange
  <2>3. QED BY <2>2
<1>8. Adds(n, e, InHands, T)' BY <1>3, <1>7 DEF Adds
<1>9. g[w] \in Nat BY <1>3
<1>10. /\ tx.debit \in Nat /\ tx.refund \in Nat /\ tx'.debit \in Nat /\ tx'.refund \in Nat
       /\ earned \in Nat
  BY DEF TypeOK, Sums
<1>11. tx'.debit >= tx'.refund + earned' + T[n] BY <1>1, <1>4, <1>6, <1>7, <1>9, <1>10
<1>12. crashes' = 0 => tx'.debit = tx'.refund + earned' + T[n] BY <1>1, <1>4, <1>6, <1>7, <1>9, <1>10
<1>13. Balanced(n, e)' BY <1>8, <1>11, <1>12 DEF Balanced
<1>14. QED BY <1>13, FreeStep
\* So does one that takes in hand what it had in hand, and books nothing.
LEMMA BookedNothing ==
  ASSUME TypeOK, AllFree, NEW n \in Nat, NEW e \in Order(n), Balanced(n, e),
         NEW w \in Workers, NEW f \in Job, Free(f), ChargeOf(f) = ChargeOf(job[w]),
         job' = [job EXCEPT ![w] = f],
         tx'.debit = tx.debit, tx'.refund = tx.refund, tx' \in Sums,
         earned' = earned, crashes' = crashes
  PROVE  AllFree' /\ Balanced(n, e)'
<1>1. earned' \in Nat /\ tx \in Sums BY DEF TypeOK
<1>2. ChargeOf(f) \in Nat BY DEF ChargeOf, Job
<1>3. (tx'.debit - tx'.refund) - earned' + ChargeOf(job[w])
        = (tx.debit - tx.refund) - earned + ChargeOf(f)
  OBVIOUS
<1>4. QED BY <1>1, <1>3, Booked

LEMMA IdleIsFree == Free(Idle) /\ ChargeOf(Idle) = 0
BY DEF Free, ChargeOf, Idle

LEMMA OnwardIsFree ==
  ASSUME TypeOK, NEW w \in Workers, NEW m, Onward(w, m)
  PROVE  \E f \in Job : Free(f) /\ ChargeOf(f) = 0 /\ job' = [job EXCEPT ![w] = f]
<1>1. job[w] \in Job BY DEF TypeOK
<1>2. CASE job[w].todo \ {m} = {} BY <1>2, IdleIsJob, IdleIsFree DEF Onward
<1>3. CASE job[w].todo \ {m} # {}
  <2>1. PICK f : f = [job[w] EXCEPT !.pc = "next", !.todo = job[w].todo \ {m}, !.m = {}, !.cost = 0]
    OBVIOUS
  <2>2. job[w].todo \ {m} \in SUBSET Messages BY <1>1 DEF Job
  <2>3. f \in Job BY <1>1, <2>1, <2>2, JobMoves DEF Places
  <2>4. f.pc = "next" /\ f.cost = 0 BY <1>1, <2>1 DEF Job
  <2>5. job' = [job EXCEPT ![w] = f] BY <1>3, <2>1 DEF Onward
  <2>6. QED BY <2>3, <2>4, <2>5 DEF Free, ChargeOf
<1>4. QED BY <1>2, <1>3

LEMMA GotoCharge ==
  ASSUME TypeOK, NEW w \in Workers, NEW place \in Places, Goto(w, place)
  PROVE  \E f \in Job : /\ f.pc = place /\ f.cost = job[w].cost
                        /\ job' = [job EXCEPT ![w] = f]
<1>1. job[w] \in Job BY DEF TypeOK
<1>2. PICK f : f = [job[w] EXCEPT !.pc = place] OBVIOUS
<1>3. f \in Job /\ f.pc = place /\ f.cost = job[w].cost BY <1>1, <1>2, JobMoves DEF Job
<1>4. QED BY <1>2, <1>3 DEF Goto

LEMMA SendBooked ==
  ASSUME TypeOK, AllFree, NEW n \in Nat, NEW e \in Order(n), Balanced(n, e),
         NEW w \in Workers, NEW m \in Messages, SendStep(w, m), TypeOK'
  PROVE  AllFree' /\ Balanced(n, e)'
<1>1. /\ job[w] \in Job /\ job \in [Workers -> Job] /\ job[w].cost \in Nat /\ Free(job[w])
      /\ tx \in Sums /\ tx' \in Sums /\ earned \in Nat /\ earned' \in Nat
  BY DEF TypeOK, Job, AllFree
<1>2. crashes' = crashes
  BY DEF SendStep, TakeUp, Claim, CannotSend, Charge, ChargeNobody, Call, SaveSent, Refund, MarkFailed, died
<1>3. ASSUME Onward(w, m), UNCHANGED <<tx, earned>>, job[w].pc \notin {"charged", "refused"}
      PROVE  AllFree' /\ Balanced(n, e)'
  <2>1. PICK f \in Job : Free(f) /\ ChargeOf(f) = 0 /\ job' = [job EXCEPT ![w] = f]
    BY <1>3, OnwardIsFree
  <2>2. ChargeOf(job[w]) = 0 BY <1>3 DEF ChargeOf
  <2>3. QED BY <1>1, <1>2, <1>3, <2>1, <2>2, BookedNothing
<1>4. CASE TakeUp(w, m)
  <2>1. job[w].pc = "next" /\ UNCHANGED <<tx, earned>> BY <1>4 DEF TakeUp, sent
  <2>2. CASE Onward(w, m) BY <1>3, <2>1, <2>2
  <2>3. CASE job' = [job EXCEPT ![w] = [job[w] EXCEPT !.pc = "lock", !.m = {m}]]
    <3>1. PICK f : f = [job[w] EXCEPT !.pc = "lock", !.m = {m}] OBVIOUS
    <3>2. "lock" \in Places /\ {m} \in SUBSET Messages BY DEF Places
    <3>3. f \in Job BY <1>1, <3>1, <3>2, JobMoves
    <3>4. f.pc = "lock" /\ f.cost = job[w].cost BY <1>1, <3>1 DEF Job
    <3>5. Free(f) /\ ChargeOf(f) = ChargeOf(job[w]) BY <1>1, <2>1, <3>4 DEF Free, ChargeOf
    <3>6. job' = [job EXCEPT ![w] = f] BY <2>3, <3>1
    <3>7. QED BY <1>1, <1>2, <2>1, <3>3, <3>5, <3>6, BookedNothing
  <2>4. QED BY <1>4, <2>2, <2>3 DEF TakeUp
<1>5. ASSUME NEW place \in Places, Goto(w, place), UNCHANGED <<tx, earned>>,
             job[w].pc \in {"lock", "locked"}
      PROVE  AllFree' /\ Balanced(n, e)'
  <2>1. PICK f \in Job : f.pc = place /\ f.cost = job[w].cost /\ job' = [job EXCEPT ![w] = f]
    BY <1>5, GotoCharge
  <2>2. job[w].cost = 0 BY <1>1, <1>5 DEF Free
  <2>3. Free(f) /\ ChargeOf(f) = ChargeOf(job[w]) BY <1>5, <2>1, <2>2 DEF Free, ChargeOf
  <2>4. QED BY <1>1, <1>2, <1>5, <2>1, <2>3, BookedNothing
<1>6. CASE Claim(w, m) \/ CannotSend(w, m) \/ ChargeNobody(w, m)
  <2>1. job[w].pc \in {"lock", "locked"} /\ UNCHANGED <<tx, earned>>
    BY <1>6 DEF Claim, CannotSend, ChargeNobody, sent
  <2>2. Onward(w, m) \/ \E place \in Places : Goto(w, place)
    BY <1>6 DEF Claim, CannotSend, ChargeNobody, AfterNoSend, Places
  <2>3. QED BY <1>3, <1>5, <2>1, <2>2
<1>7. CASE Charge(w, m)
  <2>1. PICK cost \in Nat : /\ tx' = [tx EXCEPT !.debit = @ + cost]
                            /\ job' = [job EXCEPT ![w] = [job[w] EXCEPT !.pc = "charged", !.cost = cost]]
    BY <1>1, <1>7, NumbersAssumption DEF Charge
  <2>2. PICK f : f = [job[w] EXCEPT !.pc = "charged", !.cost = cost] OBVIOUS
  <2>3. f \in Job /\ f.pc = "charged" /\ f.cost = cost
    <3>1. "charged" \in Places BY DEF Places
    <3>2. f \in Job BY <1>1, <2>2, <3>1, JobMoves
    <3>3. QED BY <1>1, <2>2, <3>2 DEF Job
  <2>4. Free(f) /\ ChargeOf(f) = cost BY <2>3 DEF Free, ChargeOf
  <2>5. job[w].pc = "locked" /\ earned' = earned BY <1>7 DEF Charge, sent
  <2>6. ChargeOf(job[w]) = 0 BY <2>5 DEF ChargeOf
  <2>7. tx'.debit = tx.debit + cost /\ tx'.refund = tx.refund /\ tx.debit \in Nat /\ tx.refund \in Nat
    BY <1>1, <2>1 DEF Sums
  <2>8. (tx'.debit - tx'.refund) - earned' + ChargeOf(job[w])
          = (tx.debit - tx.refund) - earned + ChargeOf(f)
    BY <1>1, <2>4, <2>5, <2>6, <2>7
  <2>9. job' = [job EXCEPT ![w] = f] BY <2>1, <2>2
  <2>10. QED BY <1>1, <1>2, <2>3, <2>4, <2>8, <2>9, Booked
<1>8. CASE Call(w, m)
  <2>1. job[w].pc = "charged" /\ tx' = tx BY <1>8 DEF Call
  <2>2. CASE earned' = earned + job[w].cost /\ Goto(w, "accepted")
    <3>1. PICK f \in Job : f.pc = "accepted" /\ job' = [job EXCEPT ![w] = f]
      BY <2>2, GotoCharge DEF Places
    <3>2. Free(f) /\ ChargeOf(f) = 0 /\ ChargeOf(job[w]) = job[w].cost
      BY <2>1, <3>1 DEF Free, ChargeOf
    <3>3. tx.debit \in Nat /\ tx.refund \in Nat BY <1>1 DEF Sums
    <3>4. (tx'.debit - tx'.refund) - earned' + ChargeOf(job[w])
            = (tx.debit - tx.refund) - earned + ChargeOf(f)
      BY <1>1, <2>1, <2>2, <3>2, <3>3
    <3>5. QED BY <1>1, <1>2, <3>1, <3>2, <3>4, Booked
  <2>3. CASE Goto(w, "refused") /\ earned' = earned
    <3>1. PICK f \in Job : f.pc = "refused" /\ f.cost = job[w].cost /\ job' = [job EXCEPT ![w] = f]
      BY <2>3, GotoCharge DEF Places
    <3>2. Free(f) /\ ChargeOf(f) = ChargeOf(job[w]) BY <2>1, <3>1 DEF Free, ChargeOf
    <3>3. QED BY <1>1, <1>2, <2>1, <2>3, <3>1, <3>2, BookedNothing
  <2>4. QED BY <1>8, <2>2, <2>3 DEF Call
<1>9. CASE Refund(w, m)
  <2>1. job[w].pc = "refused" /\ earned' = earned BY <1>9 DEF Refund, sent
  <2>2. PICK f \in Job : f.pc = "failing" /\ job' = [job EXCEPT ![w] = f]
    BY <1>9, GotoCharge DEF Refund, AfterRefund, Places
  <2>3. Free(f) /\ ChargeOf(f) = 0 /\ ChargeOf(job[w]) = job[w].cost BY <2>1, <2>2 DEF Free, ChargeOf
  <2>4. tx.debit \in Nat /\ tx.refund \in Nat BY <1>1 DEF Sums
  <2>5. tx'.debit = tx.debit /\ tx'.refund = tx.refund + job[w].cost
    <3>1. CASE job[w].cost > 0 BY <1>1, <1>9, <3>1 DEF Refund, Refundable, Sums
    <3>2. CASE ~(job[w].cost > 0)
      <4>1. job[w].cost = 0 BY <1>1, <3>2
      <4>2. tx' = tx BY <1>9, <3>2 DEF Refund, Refundable
      <4>3. QED BY <2>4, <4>1, <4>2
    <3>3. QED BY <3>1, <3>2
  <2>6. (tx'.debit - tx'.refund) - earned' + ChargeOf(job[w])
          = (tx.debit - tx.refund) - earned + ChargeOf(f)
    BY <1>1, <2>1, <2>3, <2>4, <2>5
  <2>7. QED BY <1>1, <1>2, <2>2, <2>3, <2>6, Booked
<1>10. CASE SaveSent(w, m) \/ MarkFailed(w, m)
  <2>1. Onward(w, m) /\ UNCHANGED <<tx, earned>> /\ job[w].pc \in {"accepted", "failing"}
    BY <1>10 DEF SaveSent, MarkFailed, sent
  <2>2. QED BY <1>3, <2>1
<1>11. QED BY <1>4, <1>6, <1>7, <1>8, <1>9, <1>10 DEF SendStep

LEMMA BeginBooked ==
  ASSUME TypeOK, AllFree, NEW n \in Nat, NEW e \in Order(n), Balanced(n, e),
         NEW w \in Workers, Begin(w), TypeOK'
  PROVE  AllFree' /\ Balanced(n, e)'
<1>1. job[w].pc = "idle" /\ UNCHANGED <<tx, earned, crashes>>
  BY DEF Begin, BeginProcess, BeginRetry, BeginPay, MayBegin, sent, died
<1>2. PICK f : f.pc \in {"next", "pay"} /\ f.cost = 0 /\ job' = [job EXCEPT ![w] = f]
  <2>1. CASE BeginProcess(w)
    <3>1. PICK ids : job' = [job EXCEPT ![w] = [Idle EXCEPT !.pc = "next", !.todo = ids]]
      BY <2>1 DEF BeginProcess
    <3>2. PICK f : f = [Idle EXCEPT !.pc = "next", !.todo = ids] OBVIOUS
    <3>3. f.pc = "next" /\ f.cost = 0 BY <3>2 DEF Idle
    <3>4. QED BY <3>1, <3>2, <3>3
  <2>2. CASE BeginRetry(w)
    <3>1. PICK ids, copies :
            job' = [job EXCEPT ![w] = [Idle EXCEPT !.pc = "next", !.todo = ids, !.copies = copies]]
      BY <2>2 DEF BeginRetry
    <3>2. PICK f : f = [Idle EXCEPT !.pc = "next", !.todo = ids, !.copies = copies] OBVIOUS
    <3>3. f.pc = "next" /\ f.cost = 0 BY <3>2 DEF Idle
    <3>4. QED BY <3>1, <3>2, <3>3
  <2>3. CASE \E b \in Bills : BeginPay(w, b)
    <3>1. PICK b \in Bills :
            job' = [job EXCEPT ![w] = [Idle EXCEPT !.pc = "pay", !.bill = {b}, !.copy = bill[b]]]
      BY <2>3 DEF BeginPay
    <3>2. PICK f : f = [Idle EXCEPT !.pc = "pay", !.bill = {b}, !.copy = bill[b]] OBVIOUS
    <3>3. f.pc = "pay" /\ f.cost = 0 BY <3>2 DEF Idle
    <3>4. QED BY <3>1, <3>2, <3>3
  <2>4. QED BY <2>1, <2>2, <2>3 DEF Begin
<1>3. job'[w] = f BY <1>2 DEF TypeOK
<1>4. f \in Job BY <1>3 DEF TypeOK
<1>5. Free(f) /\ ChargeOf(f) = ChargeOf(job[w]) BY <1>1, <1>2 DEF Free, ChargeOf
<1>6. tx' \in Sums BY DEF TypeOK
<1>7. QED BY <1>1, <1>2, <1>4, <1>5, <1>6, BookedNothing

LEMMA PayBooked ==
  ASSUME TypeOK, AllFree, NEW n \in Nat, NEW e \in Order(n), Balanced(n, e),
         NEW w \in Workers, PayStep(w), TypeOK'
  PROVE  AllFree' /\ Balanced(n, e)'
<1>1. job[w] \in Job /\ job \in [Workers -> Job] /\ tx \in Sums /\ tx' \in Sums /\ wallet \in Nat
  BY DEF TypeOK
<1>2. job[w].pc \in {"pay", "credit"} /\ UNCHANGED <<earned, crashes>>
      /\ tx'.debit = tx.debit /\ tx'.refund = tx.refund
  BY <1>1 DEF PayStep, SavePaid, CreditWallet, sent, died, Sums
<1>3. PICK f \in Job : Free(f) /\ ChargeOf(f) = 0 /\ job' = [job EXCEPT ![w] = f]
  <2>1. CASE job' = [job EXCEPT ![w] = Idle] BY <2>1, IdleIsJob, IdleIsFree
  <2>2. CASE job' = [job EXCEPT ![w] = [job[w] EXCEPT !.pc = "credit", !.balance = wallet]]
    <3>1. PICK f : f = [job[w] EXCEPT !.pc = "credit", !.balance = wallet] OBVIOUS
    <3>2. "credit" \in Places BY DEF Places
    <3>3. f \in Job BY <1>1, <3>1, <3>2, JobMoves
    <3>4. f.pc = "credit" BY <1>1, <3>1 DEF Job
    <3>5. QED BY <2>2, <3>1, <3>3, <3>4 DEF Free, ChargeOf
  <2>3. QED BY <1>1, <2>1, <2>2 DEF PayStep, SavePaid, CreditWallet
<1>4. ChargeOf(job[w]) = 0 BY <1>2 DEF ChargeOf
<1>5. QED BY <1>1, <1>2, <1>3, <1>4, BookedNothing
\* A worker that dies takes its charge with it: the company has paid for nothing.
LEMMA CrashBooked ==
  ASSUME TypeOK, AllFree, NEW n \in Nat, NEW e \in Order(n), Balanced(n, e),
         NEW w \in Workers, Crash(w)
  PROVE  AllFree' /\ Balanced(n, e)'
<1>1. PICK S : Adds(n, e, InHands, S) /\ tx.debit >= tx.refund + earned + S[n] BY DEF Balanced
<1>2. PICK h \in [Workers -> Nat] : h = InHands BY HandsType
<1>3. job' = [job EXCEPT ![w] = Idle] /\ UNCHANGED <<tx, earned>> /\ crashes' = crashes + 1
  BY DEF Crash, sent
<1>4. Idle \in Job /\ Free(Idle) /\ ChargeOf(Idle) = 0 BY IdleIsJob, IdleIsFree
<1>5. PICK g \in [Workers -> Nat] : g = InHands' /\ g = [h EXCEPT ![w] = 0]
  BY <1>2, <1>3, <1>4, HandsStep
<1>6. g[w] = 0 /\ \A v \in Workers \ {w} : g[v] = h[v] BY <1>5
<1>7. Adds(n, e, h, S) BY <1>1, <1>2
<1>8. S[n] \in Nat /\ h[w] \in Nat /\ h[w] <= S[n] BY <1>7, AddsBound
<1>9. PICK T : Adds(n, e, g, T) /\ T[n] = S[n] - h[w] + g[w]
  <2>1. \E T : Adds(n, e, g, T) /\ T[n] = S[n] - h[w] + g[w]
    BY ONLY n \in Nat, e \in Order(n), w \in Workers, h \in [Workers -> Nat], g \in [Workers -> Nat],
            <1>6, <1>7, AddsChange
  <2>2. QED BY <2>1
<1>10. Adds(n, e, InHands, T)' BY <1>5, <1>9 DEF Adds
<1>11. tx.debit \in Nat /\ tx.refund \in Nat /\ earned \in Nat /\ crashes \in Nat BY DEF TypeOK, Sums
<1>12. tx'.debit >= tx'.refund + earned' + T[n] BY <1>1, <1>3, <1>6, <1>8, <1>9, <1>11
<1>13. crashes' # 0 BY <1>3, <1>11
<1>14. Balanced(n, e)' BY <1>10, <1>12, <1>13 DEF Balanced
<1>15. QED BY <1>3, <1>4, <1>14, FreeStep

LEMMA BalanceStands ==
  ASSUME AllFree, NEW n \in Nat, NEW e \in Order(n), Balanced(n, e),
         UNCHANGED <<tx, earned, crashes, job>>
  PROVE  AllFree' /\ Balanced(n, e)'
<1>1. InHands' = InHands BY DEF InHands, ChargeOf
<1>2. QED BY <1>1 DEF AllFree, Balanced, Free, Adds

LEMMA BalanceSteps ==
  ASSUME TypeOK, TypeOK', AllFree, NEW n \in Nat, NEW e \in Order(n), Balanced(n, e), [Next]_vars
  PROVE  AllFree' /\ Balanced(n, e)'
<1>1. CASE UNCHANGED vars BY <1>1, BalanceStands DEF vars, sent, died
<1>2. CASE \E m \in Messages : Queue(m) BY <1>2, BalanceStands DEF Queue, sent, died
<1>3. CASE \E b \in Bills : CreateBill(b) BY <1>3, BalanceStands DEF CreateBill, sent, died
<1>4. ASSUME NEW w \in Workers, Begin(w) PROVE AllFree' /\ Balanced(n, e)' BY <1>4, BeginBooked
<1>5. ASSUME NEW w \in Workers, PayStep(w) PROVE AllFree' /\ Balanced(n, e)' BY <1>5, PayBooked
<1>6. ASSUME NEW w \in Workers, NEW m \in Messages, SendStep(w, m) PROVE AllFree' /\ Balanced(n, e)'
  BY <1>6, SendBooked
<1>7. ASSUME NEW w \in Workers, Crash(w) PROVE AllFree' /\ Balanced(n, e)' BY <1>7, CrashBooked
<1>8. QED BY <1>1, <1>2, <1>3, <1>4, <1>5, <1>6, <1>7 DEF Next, Step

LEMMA BalanceStarts ==
  ASSUME Init, TypeOK, NEW n \in Nat, NEW e \in Order(n)
  PROVE  AllFree /\ Balanced(n, e)
<1>1. \A w \in Workers : job[w] = Idle BY DEF Init
<1>2. AllFree BY <1>1, IdleIsFree DEF AllFree
<1>3. PICK h \in [Workers -> Nat] : h = InHands BY HandsType
<1>4. \A w \in Workers : h[w] = 0 BY <1>1, <1>3, IdleIsFree DEF InHands
<1>5. PICK S : S = [k \in 0 .. n |-> 0] OBVIOUS
<1>6. Adds(n, e, h, S) /\ S[n] = 0 BY <1>4, <1>5 DEF Adds, Order
<1>7. tx.debit = 0 /\ tx.refund = 0 /\ earned = 0 BY DEF Init
<1>8. Balanced(n, e) BY <1>3, <1>6, <1>7 DEF Balanced
<1>9. QED BY <1>2, <1>8

LEMMA BalancePays ==
  ASSUME TypeOK, NEW n \in Nat, NEW e \in Order(n), Balanced(n, e)
  PROVE  PaidForWhatWasSent
<1>1. PICK S : /\ Adds(n, e, InHands, S)
               /\ tx.debit >= tx.refund + earned + S[n]
               /\ crashes = 0 => tx.debit = tx.refund + earned + S[n]
  BY DEF Balanced
<1>2. PICK h \in [Workers -> Nat] : h = InHands BY HandsType
<1>3. Adds(n, e, h, S) BY <1>1, <1>2
<1>4. S \in [0 .. n -> Nat] /\ S[0] = 0 /\ n \in 0 .. n /\ 0 \in 0 .. n BY <1>3 DEF Adds
<1>5. S[n] \in Nat BY <1>4
<1>6. tx.debit \in Nat /\ tx.refund \in Nat /\ earned \in Nat BY DEF TypeOK, Sums
<1>7. tx.debit >= tx.refund + earned BY <1>1, <1>5, <1>6
<1>8. ASSUME InFlight = {}, crashes = 0 PROVE tx.debit = tx.refund + earned
  <2>1. \A w \in Workers : job[w].pc = "idle" BY <1>8 DEF InFlight
  <2>2. \A w \in Workers : h[w] = 0 BY <1>2, <2>1 DEF InHands, ChargeOf
  <2>3. \A i \in (0 + 1) .. n : h[e[i]] = 0 BY <2>2 DEF Order
  <2>4. S[0] = S[n] BY <1>3, <1>4, <2>3 DEF Adds
  <2>5. QED BY <1>1, <1>4, <1>6, <1>8, <2>4
<1>9. QED BY <1>7, <1>8 DEF PaidForWhatWasSent

\* The company has paid for what the provider took, and once all is quiet and no
\* worker has died for nothing else (SMSSendService.send), for any number of
\* workers, messages and crashes.
THEOREM PaidForWhatWasSentAlways == Spec => []PaidForWhatWasSent
<1> PICK n \in Nat : Order(n) # {} BY Ordered
<1> PICK e : e \in Order(n) OBVIOUS
<1>1. Init => AllFree /\ Balanced(n, e) BY TypeStarts, BalanceStarts
<1>2. TypeOK /\ TypeOK' /\ AllFree /\ Balanced(n, e) /\ [Next]_vars => AllFree' /\ Balanced(n, e)'
  BY BalanceSteps
<1>3. TypeOK /\ Balanced(n, e) => PaidForWhatWasSent BY BalancePays
<1>4. QED BY <1>1, <1>2, <1>3, TypeStarts, TypeSteps, PTL DEF Spec

=============================================================================
