-------------------------- MODULE Matchmaking_proof --------------------------
(***************************************************************************)
(* Proofs about Matchmaking, for any number of queues, tickets, servers    *)
(* and backfills: type correctness, what the matching function proposes,   *)
(* how many players a server holds, and which servers are wasted.          *)
(*                                                                         *)
(* First the matching function: SubSeq on sequences without repetition,    *)
(* then fill_existing_backfills, create_full_matches and create_matches.   *)
(* Filling is defined by recursion; that it fills what it should is shown  *)
(* by looking at the least number of backfills after which it would not.   *)
(* Then the inductive invariant MatchInv, and for each of its conjuncts    *)
(* one lemma for each kind of step.                                        *)
(***************************************************************************)
EXTENDS Matchmaking, FiniteSetTheorems, SequenceTheorems, TLAPS

-----------------------------------------------------------------------------
(* Sequences without repetition, and what is cut from them. *)

\* Every set of natural numbers has a least element.
LEMMA LeastNatural ==
    ASSUME NEW T, T \subseteq Nat, T # {}
    PROVE  \E m \in T : \A k \in T : ~(k < m)
<1> DEFINE R == OpToRel(<, Nat)
<1>1. IsWellFoundedOn(R, Nat)
  BY NatLessThanWellFounded
<1> HIDE DEF R
<1>2. PICK m \in T : \A k \in T : <<k, m>> \notin R
  BY <1>1, WFMin
<1>3. \A k \in T : k < m => <<k, m>> \in R
  BY SMT DEF OpToRel, R
<1> QED  BY <1>2, <1>3

LEMMA MinOfNaturals ==
    ASSUME NEW S, S \subseteq Nat, S # {}
    PROVE  Min(S) \in S
<1>1. PICK x \in S : \A y \in S : ~(y < x)
  BY LeastNatural, Zenon
<1>2. \A y \in S : x =< y
  BY <1>1
<1> QED  BY <1>2 DEF Min

Orders(S) == {s \in Seq(S) : \A i, j \in 1 .. Len(s) : s[i] = s[j] => i = j}

LEMMA SetInOrder ==
    ASSUME NEW S, IsFiniteSet(S), NEW s \in SetToSeqs(S)
    PROVE  s \in Orders(S) /\ ToSet(s) = S
<1> DEFINE n == Cardinality(S)
<1>1. n \in Nat /\ s \in [1 .. n -> S] /\ \A i, j \in 1 .. n : i # j => s[i] # s[j]
  BY FS_CardinalityType DEF SetToSeqs
<1>2. s \in Orders(S) /\ Len(s) = n
  BY <1>1 DEF Orders
<1>3. s \in Injection(1 .. n, S)
  BY <1>1 DEF Injection, IsInjective
<1>4. Cardinality(1 .. n) = n
  BY <1>1, FS_Interval
<1>5. s \in Surjection(1 .. n, S)
  BY <1>3, <1>4, FS_Injection
<1> QED  BY <1>1, <1>2, <1>5 DEF Surjection, ToSet

(* A part of a sequence without repetition. *)
LEMMA PartInOrder ==
    ASSUME NEW S, NEW s \in Orders(S), NEW a \in Nat \ {0}, NEW b \in Nat,
           a <= b + 1, b <= Len(s)
    PROVE  /\ SubSeq(s, a, b) \in Orders(S)
           /\ Len(SubSeq(s, a, b)) = b + 1 - a
           /\ ToSet(SubSeq(s, a, b)) = {s[i] : i \in a .. b}
           /\ IsFiniteSet(ToSet(SubSeq(s, a, b)))
           /\ Cardinality(ToSet(SubSeq(s, a, b))) = b + 1 - a
<1> DEFINE p == SubSeq(s, a, b)
           n == b + 1 - a
<1>1. s \in Seq(S) /\ Len(s) \in Nat /\ s \in [1 .. Len(s) -> S] /\ n \in Nat
  BY DEF Orders
<1>2. p \in Seq(S) /\ Len(p) = n /\ \A i \in 1 .. n : p[i] = s[a + i - 1]
  BY <1>1, SubSeqProperties
<1> HIDE DEF p
<1>3. p \in Orders(S)
  <2> SUFFICES ASSUME NEW i \in 1 .. n, NEW j \in 1 .. n, p[i] = p[j] PROVE i = j
    BY <1>2 DEF Orders
  <2>1. s[a + i - 1] = s[a + j - 1]
    BY <1>2
  <2> QED  BY <2>1, <1>1 DEF Orders
<1>4. DOMAIN p = 1 .. n
  BY <1>1, <1>2
<1>5. ToSet(p) = {s[i] : i \in a .. b}
  <2>1. ASSUME NEW i \in 1 .. n PROVE p[i] \in {s[j] : j \in a .. b}
    <3>1. a + i - 1 \in a .. b
      BY <1>1
    <3> QED  BY <3>1, <1>2
  <2>2. ASSUME NEW j \in a .. b PROVE \E i \in 1 .. n : p[i] = s[j]
    <3>1. j + 1 - a \in 1 .. n /\ a + (j + 1 - a) - 1 = j
      BY <1>1
    <3> QED  BY <3>1, <1>2
  <2> QED  BY <2>1, <2>2, <1>4 DEF ToSet
<1>6. p \in Bijection(1 .. n, ToSet(p))
  <2>1. p \in [1 .. n -> ToSet(p)]
    BY <1>2, <1>4 DEF ToSet
  <2>2. \A i, j \in 1 .. n : p[i] = p[j] => i = j
    BY <1>3, <1>2 DEF Orders
  <2> QED  BY <2>1, <2>2, <1>4 DEF Bijection, Injection, Surjection, IsInjective, ToSet
<1>7. IsFiniteSet(ToSet(p)) /\ Cardinality(ToSet(p)) = n
  BY <1>1, <1>6, FS_CountingElements, FS_NatBijection DEF ExistsBijection
<1> QED  BY <1>2, <1>3, <1>5, <1>7 DEF p

(* A sequence without repetition is cut in two. *)
LEMMA CutInOrder ==
    ASSUME NEW S, NEW s \in Orders(S), NEW n \in 0 .. Len(s)
    PROVE  LET first == SubSeq(s, 1, n)
               rest == SubSeq(s, n + 1, Len(s))
           IN  /\ first \in Orders(S) /\ rest \in Orders(S) /\ Len(rest) = Len(s) - n
               /\ ToSet(first) \cup ToSet(rest) = ToSet(s)
               /\ ToSet(first) \cap ToSet(rest) = {}
               /\ Cardinality(ToSet(first)) = n /\ (n > 0 => ToSet(first) # {})
<1>1. s \in Seq(S) /\ Len(s) \in Nat /\ DOMAIN s = 1 .. Len(s)
  BY DEF Orders
<1> DEFINE first == SubSeq(s, 1, n)
           rest == SubSeq(s, n + 1, Len(s))
<1>2. first \in Orders(S) /\ ToSet(first) = {s[i] : i \in 1 .. n} /\ Cardinality(ToSet(first)) = n
  BY <1>1, PartInOrder
<1>3. rest \in Orders(S) /\ Len(rest) = Len(s) - n /\ ToSet(rest) = {s[i] : i \in n + 1 .. Len(s)}
  <2>1. ASSUME NEW a \in Nat \ {0}, NEW b \in Nat, a <= b + 1, b <= Len(s)
        PROVE  /\ SubSeq(s, a, b) \in Orders(S) /\ Len(SubSeq(s, a, b)) = b + 1 - a
               /\ ToSet(SubSeq(s, a, b)) = {s[i] : i \in a .. b}
    BY <2>1, PartInOrder
  <2>2. Len(s) \in Nat /\ n \in Nat /\ n + 1 \in Nat \ {0} /\ n + 1 <= Len(s) + 1
    BY <1>1
  <2>3. /\ rest \in Orders(S) /\ Len(rest) = Len(s) + 1 - (n + 1)
        /\ ToSet(rest) = {s[i] : i \in n + 1 .. Len(s)}
    BY <2>1, <2>2
  <2> QED  BY <2>2, <2>3
<1> HIDE DEF first, rest
<1>4. ToSet(first) \cup ToSet(rest) = ToSet(s)
  <2>1. ToSet(s) = {s[i] : i \in 1 .. Len(s)}
    BY <1>1 DEF ToSet
  <2>2. \A i \in 1 .. Len(s) : i \in 1 .. n \/ i \in n + 1 .. Len(s)
    BY <1>1
  <2>3. 1 .. n \subseteq 1 .. Len(s) /\ n + 1 .. Len(s) \subseteq 1 .. Len(s)
    BY <1>1
  <2> QED  BY <2>1, <2>2, <2>3, <1>2, <1>3
<1>5. ToSet(first) \cap ToSet(rest) = {}
  BY <1>1, <1>2, <1>3 DEF Orders
<1>6. n > 0 => ToSet(first) # {}
  BY <1>1, <1>2
<1> QED  BY <1>2, <1>3, <1>4, <1>5, <1>6 DEF first, rest

-----------------------------------------------------------------------------
(* fill_existing_backfills: what is there after the first i backfills. *)

SlotsOf(places) == [b \in DOMAIN places |-> places[b].slots]

Before(places, tickets) == [matches |-> {}, slots |-> SlotsOf(places), tickets |-> tickets]

Visited(order, i) == {order[j] : j \in 1 .. i}

\* A match for free places, and what it leaves of them.
FillsPlaces(m, places, slots, taken) ==
    /\ m \in Matches /\ ~m.fresh
    /\ m.backfill \in taken /\ m.server = places[m.backfill].server
    /\ m.tickets # {}
    /\ Cardinality(m.tickets) + slots[m.backfill] = places[m.backfill].slots

Filled(places, order, tickets, i, done) ==
    /\ done = [matches |-> done.matches, slots |-> done.slots, tickets |-> done.tickets]
    /\ done.tickets \in Orders(Ticket)
    /\ done.slots \in [DOMAIN places -> Nat]
    /\ \A b \in DOMAIN places :
          /\ done.slots[b] <= places[b].slots
          /\ b \notin Visited(order, i) => done.slots[b] = places[b].slots
    /\ \A m \in done.matches :
          /\ FillsPlaces(m, places, done.slots, Visited(order, i))
          /\ m.tickets \cap ToSet(done.tickets) = {}
    /\ \A m, n \in done.matches : m # n => m.tickets \cap n.tickets = {} /\ m.backfill # n.backfill
    /\ ToSet(tickets) = ToSet(done.tickets) \cup UNION {m.tickets : m \in done.matches}

LEMMA FillStep ==
    ASSUME NEW P \in SUBSET Backfill, NEW places \in [P -> FreePlaces],
           NEW order \in Orders(P), NEW tickets \in Orders(Ticket),
           NEW i \in 1 .. Len(order), NEW done, Filled(places, order, tickets, i - 1, done)
    PROVE  Filled(places, order, tickets, i, Fill(places, order[i], done, Least))
<1> DEFINE b == order[i]
           n == Least(places[b].slots, Len(done.tickets))
           first == SubSeq(done.tickets, 1, n)
           rest == SubSeq(done.tickets, n + 1, Len(done.tickets))
           made == Match(first, b, FALSE, places[b].server)
           then == Fill(places, order[i], done, Least)
<1>1. /\ order \in Seq(P) /\ Len(order) \in Nat /\ b \in P /\ DOMAIN places = P
      /\ places[b] \in FreePlaces /\ places[b].slots \in Nat /\ b \in Backfill
      /\ places[b].server \in Server \cup {None}
  BY DEF Orders, FreePlaces
<1>2. Len(done.tickets) \in Nat /\ done.tickets \in Orders(Ticket)
  BY DEF Filled, Orders
<1>3. n \in 0 .. Len(done.tickets) /\ n <= places[b].slots
  BY <1>1, <1>2 DEF Least
<1>4. Visited(order, i) = Visited(order, i - 1) \cup {b} /\ b \notin Visited(order, i - 1)
  <2>1. \A j \in 1 .. i : j \in 1 .. i - 1 \/ j = i
    BY <1>1
  <2>2. 1 .. i - 1 \subseteq 1 .. i /\ i \in 1 .. i /\ i \notin 1 .. i - 1
        /\ 1 .. i \subseteq 1 .. Len(order)
    BY <1>1
  <2>3. \A j \in 1 .. i - 1 : order[j] # order[i]
    BY <2>2 DEF Orders
  <2> QED  BY <2>1, <2>2, <2>3 DEF Visited
<1>5. done.slots[b] = places[b].slots
  BY <1>1, <1>4 DEF Filled
<1>6. then = IF n = 0 THEN done
             ELSE [matches |-> done.matches \cup {made}, slots |-> [done.slots EXCEPT ![b] = @ - n],
                   tickets |-> rest]
  BY DEF Fill
<1>7. /\ first \in Orders(Ticket) /\ rest \in Orders(Ticket)
      /\ ToSet(first) \cup ToSet(rest) = ToSet(done.tickets)
      /\ ToSet(first) \cap ToSet(rest) = {}
      /\ Cardinality(ToSet(first)) = n /\ (n > 0 => ToSet(first) # {})
  <2>1. ASSUME NEW s \in Orders(Ticket), NEW k \in 0 .. Len(s)
        PROVE  /\ SubSeq(s, 1, k) \in Orders(Ticket) /\ SubSeq(s, k + 1, Len(s)) \in Orders(Ticket)
               /\ ToSet(SubSeq(s, 1, k)) \cup ToSet(SubSeq(s, k + 1, Len(s))) = ToSet(s)
               /\ ToSet(SubSeq(s, 1, k)) \cap ToSet(SubSeq(s, k + 1, Len(s))) = {}
               /\ Cardinality(ToSet(SubSeq(s, 1, k))) = k /\ (k > 0 => ToSet(SubSeq(s, 1, k)) # {})
    BY <2>1, CutInOrder
  <2> HIDE DEF n
  <2> QED  BY <2>1, <1>2, <1>3
<1> HIDE DEF b, n, first, rest, then
<1>8. CASE n = 0
  <2>1. then = done
    BY <1>6, <1>8
  <2>2. \A p \in DOMAIN places : p \notin Visited(order, i) => p \notin Visited(order, i - 1)
    BY <1>4
  <2>3. \A m \in done.matches : FillsPlaces(m, places, done.slots, Visited(order, i))
    BY <1>4 DEF Filled, FillsPlaces
  <2> QED  BY <2>1, <2>2, <2>3 DEF Filled, then, b
<1>9. CASE n > 0
  <2> DEFINE slots == [done.slots EXCEPT ![b] = @ - n]
  <2>1. then = [matches |-> done.matches \cup {made}, slots |-> slots, tickets |-> rest]
    BY <1>6, <1>9
  <2>2. /\ then.matches = done.matches \cup {made} /\ then.slots = slots /\ then.tickets = rest
        /\ then = [matches |-> then.matches, slots |-> then.slots, tickets |-> then.tickets]
    BY <2>1
  <2>3. made \in Matches /\ made = [tickets |-> ToSet(first), backfill |-> b, fresh |-> FALSE,
                                    server |-> places[b].server]
    <3>1. ToSet(first) \in SUBSET Ticket
      <4>1. first \in Seq(Ticket)
        BY <1>7 DEF Orders
      <4>2. \A k \in DOMAIN first : first[k] \in Ticket
        BY <4>1
      <4> QED  BY <4>2 DEF ToSet
    <3> QED  BY <3>1, <1>1 DEF Match, Matches
  <2>4. /\ slots \in [P -> Nat] /\ slots[b] = places[b].slots - n
        /\ \A p \in P \ {b} : slots[p] = done.slots[p]
    <3>1. done.slots \in [P -> Nat]
      BY <1>1 DEF Filled
    <3> QED  BY <3>1, <1>1, <1>3, <1>5
  <2> HIDE DEF made, slots
  <2>5. \A p \in P : /\ slots[p] <= places[p].slots
                     /\ p \notin Visited(order, i) => slots[p] = places[p].slots
    <3>1. \A p \in P : /\ done.slots[p] <= places[p].slots
                       /\ p \notin Visited(order, i - 1) => done.slots[p] = places[p].slots
      BY <1>1 DEF Filled
    <3>2. slots[b] <= places[b].slots /\ b \in Visited(order, i)
      BY <2>4, <1>1, <1>3, <1>4
    <3>3. \A p \in P : p \notin Visited(order, i) => p \notin Visited(order, i - 1)
      BY <1>4
    <3> QED  BY <3>1, <3>2, <3>3, <2>4
  <2>6. FillsPlaces(made, places, slots, Visited(order, i))
    <3>1. /\ made.tickets = ToSet(first) /\ made.backfill = b /\ ~made.fresh
          /\ made.server = places[b].server
      BY <2>3
    <3>2. n + slots[b] = places[b].slots
      BY <2>4, <1>1, <1>3
    <3> QED  BY <3>1, <3>2, <2>3, <1>4, <1>7, <1>9 DEF FillsPlaces
  <2>7. ASSUME NEW m \in done.matches
        PROVE  /\ FillsPlaces(m, places, slots, Visited(order, i))
               /\ m.backfill # b /\ m.tickets \cap ToSet(done.tickets) = {}
    <3>1. /\ FillsPlaces(m, places, done.slots, Visited(order, i - 1))
          /\ m.tickets \cap ToSet(done.tickets) = {}
      BY DEF Filled
    <3>2. m.backfill # b /\ m.backfill \in P
      <4>1. m.backfill \in Visited(order, i - 1)
        BY <3>1 DEF FillsPlaces
      <4>2. \A k \in 1 .. i - 1 : order[k] \in P
        BY <1>1
      <4> QED  BY <4>1, <4>2, <1>4 DEF Visited
    <3>3. slots[m.backfill] = done.slots[m.backfill]
      BY <3>2, <2>4
    <3> QED  BY <3>1, <3>2, <3>3, <1>4 DEF FillsPlaces
  <2>8. made.tickets = ToSet(first) /\ made.backfill = b
    BY <2>3
  <2>9. \A m, k \in then.matches : m # k => m.tickets \cap k.tickets = {} /\ m.backfill # k.backfill
    <3>1. \A m, k \in done.matches : m # k => m.tickets \cap k.tickets = {} /\ m.backfill # k.backfill
      BY DEF Filled
    <3>2. \A m \in done.matches : m.tickets \cap made.tickets = {} /\ m.backfill # made.backfill
      BY <2>7, <2>8, <1>7
    <3> QED  BY <3>1, <3>2, <2>2
  <2>10. \A m \in then.matches : m.tickets \cap ToSet(rest) = {}
    BY <2>7, <2>8, <1>7, <2>2
  <2>11. ToSet(tickets) = ToSet(rest) \cup UNION {m.tickets : m \in then.matches}
    <3>1. ToSet(tickets) = ToSet(done.tickets) \cup UNION {m.tickets : m \in done.matches}
      BY DEF Filled
    <3>2. UNION {m.tickets : m \in then.matches}
            = (UNION {m.tickets : m \in done.matches}) \cup ToSet(first)
      BY <2>2, <2>8
    <3> QED  BY <3>1, <3>2, <1>7
  <2>12. \A m \in then.matches : FillsPlaces(m, places, slots, Visited(order, i))
    BY <2>2, <2>6, <2>7
  <2> QED  BY <2>2, <2>4, <2>5, <2>9, <2>10, <2>11, <2>12, <1>1, <1>7 DEF Filled, then, b
<1> QED  BY <1>3, <1>8, <1>9

LEMMA FilledBefore ==
    ASSUME NEW P \in SUBSET Backfill, NEW places \in [P -> FreePlaces], NEW order,
           NEW tickets \in Orders(Ticket)
    PROVE  Filled(places, order, tickets, 0, Before(places, tickets))
<1> DEFINE before == Before(places, tickets)
<1>1. /\ before.matches = {} /\ before.slots = [b \in P |-> places[b].slots]
      /\ before.tickets = tickets
      /\ before = [matches |-> before.matches, slots |-> before.slots, tickets |-> before.tickets]
  BY DEF Before, SlotsOf
<1>2. \A b \in P : places[b].slots \in Nat
  BY DEF FreePlaces
<1> HIDE DEF before
<1>3. before.slots \in [P -> Nat] /\ \A b \in P : before.slots[b] = places[b].slots
  BY <1>1, <1>2
<1>4. UNION {m.tickets : m \in before.matches} = {}
  BY <1>1
<1> QED  BY <1>1, <1>2, <1>3, <1>4 DEF Filled, before

(* All the backfills: the recursion ends, and keeps what one step keeps. *)
LEMMA FillingIsFilled ==
    ASSUME NEW P \in SUBSET Backfill, NEW places \in [P -> FreePlaces],
           NEW order \in Orders(P), NEW tickets \in Orders(Ticket)
    PROVE  Filled(places, order, tickets, Len(order),
                  fill_existing_backfills(places, order, tickets))
<1> DEFINE N == Len(order)
           Step(i, f) == IF i = 0 THEN Before(places, tickets)
                         ELSE Fill(places, order[i], f[i - 1], Least)
           Defined(n) == \E f : f = [i \in 0 .. n |-> Step(i, f)]
<1>1. N \in Nat
  BY DEF Orders
<1>2. \A n \in 0 .. N : Defined(n)
  <2> DEFINE T == {n \in 0 .. N : ~ Defined(n)}
  <2> SUFFICES ASSUME T # {} PROVE FALSE
    OBVIOUS
  <2>1. T \subseteq Nat
    BY <1>1
  <2>2. PICK n \in T : \A k \in T : ~(k < n)
    <3> HIDE DEF T
    <3> QED  BY <2>1, LeastNatural, Zenon
  <2>3. n \in 0 .. N /\ n \in Nat
    BY <1>1
  <2>4. CASE n = 0
    <3> DEFINE f == [i \in 0 .. 0 |-> Before(places, tickets)]
    <3>1. \A i \in 0 .. 0 : i = 0
      OBVIOUS
    <3>2. f = [i \in 0 .. 0 |-> Step(i, f)]
      BY <3>1
    <3>3. Defined(0)
      BY <3>2
    <3> QED  BY <3>3, <2>4
  <2>5. CASE n # 0
    <3>1. n - 1 \in 0 .. N /\ n - 1 < n
      BY <2>3, <2>5, <1>1
    <3>2. PICK g : g = [i \in 0 .. n - 1 |-> Step(i, g)]
      BY <2>2, <3>1
    <3> DEFINE f == [i \in 0 .. n |-> IF i = n THEN Fill(places, order[n], g[n - 1], Least) ELSE g[i]]
    <3>3. ASSUME NEW i \in 0 .. n PROVE f[i] = Step(i, f)
      <4>1. CASE i = n
        <5>1. n - 1 \in 0 .. n /\ n - 1 # n /\ n \in 0 .. n
          BY <2>3, <2>5
        <5>2. f[n - 1] = g[n - 1] /\ f[n] = Fill(places, order[n], g[n - 1], Least)
          BY <5>1
        <5> HIDE DEF f
        <5> QED  BY <5>2, <4>1, <2>5
      <4>2. CASE i # n
        <5>1. i \in 0 .. n - 1 /\ (i # 0 => i - 1 \in 0 .. n /\ i - 1 # n)
          BY <4>2, <2>3
        <5>2. f[i] = g[i] /\ (i # 0 => f[i - 1] = g[i - 1])
          BY <5>1, <4>2
        <5>3. g[i] = Step(i, g)
          BY <3>2, <5>1
        <5> HIDE DEF f
        <5> QED  BY <5>2, <5>3
      <4> QED  BY <4>1, <4>2
    <3>4. f = [i \in 0 .. n |-> Step(i, f)]
      <4>1. f = [i \in 0 .. n |-> f[i]]
        OBVIOUS
      <4> HIDE DEF f
      <4> QED  BY <3>3, <4>1
    <3>5. Defined(n)
      BY <3>4
    <3> QED  BY <3>5
  <2> QED  BY <2>4, <2>5
<1> DEFINE after == CHOOSE f : f = [i \in 0 .. N |-> Step(i, f)]
<1>3. after = [i \in 0 .. N |-> Step(i, after)]
  <2>1. \E f : f = [i \in 0 .. N |-> Step(i, f)]
    <3>1. N \in 0 .. N
      BY <1>1
    <3> HIDE DEF N, Step
    <3> QED  BY <1>2, <3>1
  <2> HIDE DEF N, Step
  <2> QED  BY <2>1, Zenon
<1>4. fill_existing_backfills(places, order, tickets) = after[N]
  BY DEF fill_existing_backfills, Filling, Before, SlotsOf
<1> HIDE DEF after
<1>5. \A i \in 0 .. N : Filled(places, order, tickets, i, after[i])
  <2> DEFINE T == {i \in 0 .. N : ~ Filled(places, order, tickets, i, after[i])}
  <2> SUFFICES ASSUME T # {} PROVE FALSE
    OBVIOUS
  <2>1. T \subseteq Nat
    BY <1>1
  <2>2. PICK n \in T : \A k \in T : ~(k < n)
    <3> HIDE DEF T
    <3> QED  BY <2>1, LeastNatural, Zenon
  <2>3. n \in 0 .. N /\ n \in Nat /\ 0 \in 0 .. N
    BY <1>1
  <2>4. CASE n = 0
    <3>1. after[n] = Before(places, tickets)
      BY <1>3, <2>3, <2>4
    <3>2. Filled(places, order, tickets, 0, Before(places, tickets))
      BY FilledBefore
    <3> QED  BY <3>1, <3>2, <2>4
  <2>5. CASE n # 0
    <3>1. n - 1 \in 0 .. N /\ n - 1 < n /\ n \in 1 .. N
      BY <2>3, <2>5, <1>1
    <3>2. Filled(places, order, tickets, n - 1, after[n - 1])
      BY <2>2, <3>1
    <3>3. after[n] = Fill(places, order[n], after[n - 1], Least)
      BY <1>3, <2>3, <2>5
    <3>4. Filled(places, order, tickets, n, after[n])
      BY <3>1, <3>2, <3>3, FillStep
    <3> QED  BY <3>4
  <2> QED  BY <2>4, <2>5
<1>6. N \in 0 .. N
  BY <1>1
<1> QED  BY <1>4, <1>5, <1>6

-----------------------------------------------------------------------------
(* create_full_matches: the tickets are cut into pieces of one size. *)

LEMMA Pieces ==
    ASSUME NEW d \in Nat \ {0}, NEW a \in Nat, NEW n, n = a \div d
    PROVE  /\ n \in Nat /\ \A i \in Nat : i * d \in Nat /\ (i + 1) * d = i * d + d
           /\ \A i, j \in Nat : i < j => i * d + d <= j * d
           /\ n * d <= a /\ a < n * d + d
           /\ \A k \in 1 .. n * d : \E i \in 0 .. n - 1 : k \in i * d + 1 .. i * d + d
<1>1. ASSUME NEW b \in Nat
      PROVE  b \div d \in Nat /\ (b \div d) * d <= b /\ b < (b \div d) * d + d
  OBVIOUS
<1>2. ASSUME NEW i \in Nat PROVE i * d \in Nat /\ (i + 1) * d = i * d + d
  OBVIOUS
<1>3. ASSUME NEW i \in Nat, NEW j \in Nat, i < j PROVE i * d + d <= j * d
  BY <1>3
<1>4. n \in Nat /\ n * d <= a /\ a < n * d + d
  BY <1>1
<1>5. ASSUME NEW k \in 1 .. n * d
      PROVE  \E i \in 0 .. n - 1 : k \in i * d + 1 .. i * d + d
  <2> DEFINE i == (k - 1) \div d
  <2>1. k - 1 \in Nat /\ k \in Nat /\ n * d \in Nat
    BY <1>2, <1>4
  <2>2. i \in Nat /\ i * d <= k - 1 /\ k - 1 < i * d + d
    BY <1>1, <2>1
  <2>3. i * d \in Nat
    BY <1>2, <2>2
  <2> HIDE DEF i
  <2>4. i < n
    <3> SUFFICES ASSUME n <= i PROVE FALSE
      BY <2>2, <1>4
    <3>1. n * d <= i * d
      <4>1. CASE n = i
        BY <4>1, <2>1
      <4>2. CASE n < i
        BY <4>2, <1>3, <2>2, <1>4, <2>1, <2>3
      <4> QED  BY <4>1, <4>2, <2>2, <1>4
    <3> QED  BY <3>1, <2>1, <2>2, <2>3
  <2>5. i \in 0 .. n - 1
    BY <2>2, <2>4, <1>4
  <2>6. k \in i * d + 1 .. i * d + d
    BY <2>1, <2>2, <2>3
  <2> QED  BY <2>5, <2>6
<1> QED  BY <1>2, <1>3, <1>4, <1>5

\* A full match, and what the matches leave.
IsFull(m, max) == /\ m \in Matches /\ ~m.fresh /\ m.backfill = None /\ m.server = None
                  /\ m.tickets # {} /\ Cardinality(m.tickets) = max

LEMMA FullMatches ==
    ASSUME NEW max \in Nat \ {0}, NEW tickets \in Orders(Ticket), NEW full,
           full = create_full_matches(max, tickets)
    PROVE  /\ full.tickets \in Orders(Ticket) /\ Len(full.tickets) < max
           /\ \A m \in full.matches : IsFull(m, max) /\ m.tickets \cap ToSet(full.tickets) = {}
           /\ \A m, k \in full.matches : m # k => m.tickets \cap k.tickets = {}
           /\ ToSet(tickets) = ToSet(full.tickets) \cup UNION {m.tickets : m \in full.matches}
<1> DEFINE L == Len(tickets)
           n == L \div max
           At(i) == i * max
           Piece(i) == SubSeq(tickets, At(i) + 1, At(i + 1))
           rest == SubSeq(tickets, At(n) + 1, L)
           Items(i) == {tickets[k] : k \in At(i) + 1 .. At(i) + max}
<1>1. L \in Nat /\ tickets \in Seq(Ticket) /\ DOMAIN tickets = 1 .. L
      /\ \A i, j \in 1 .. L : tickets[i] = tickets[j] => i = j
  BY DEF Orders
<1>2. /\ n \in Nat /\ \A i \in Nat : At(i) \in Nat /\ At(i + 1) = At(i) + max
      /\ \A i, j \in Nat : i < j => At(i) + max <= At(j)
      /\ At(n) <= L /\ L < At(n) + max
      /\ \A k \in 1 .. At(n) : \E i \in 0 .. n - 1 : k \in At(i) + 1 .. At(i) + max
  BY <1>1, Pieces
<1>3. full = [matches |-> {Full(Piece(i)) : i \in 0 .. n - 1}, tickets |-> rest]
  BY DEF create_full_matches
<1>bounds. L \in Nat /\ n \in Nat /\ At(n) \in Nat /\ At(n) <= L /\ L < At(n) + max
  BY <1>1, <1>2
<1>at. \A i \in 0 .. n - 1 : /\ i \in Nat /\ At(i) \in Nat /\ At(i + 1) = At(i) + max
                             /\ At(i) + max <= At(n) /\ At(i) + max <= L
  <2> SUFFICES ASSUME NEW i \in 0 .. n - 1
               PROVE  /\ i \in Nat /\ At(i) \in Nat /\ At(i + 1) = At(i) + max
                      /\ At(i) + max <= At(n) /\ At(i) + max <= L
    OBVIOUS
  <2>1. i \in Nat /\ i < n /\ n \in Nat
    BY <1>bounds
  <2>2. At(i) \in Nat /\ At(i + 1) = At(i) + max
    BY <2>1, <1>2
  <2>3. At(i) + max <= At(n)
    BY <2>1, <1>2
  <2> HIDE DEF At
  <2> QED  BY <2>1, <2>2, <2>3, <1>bounds
<1>apart. \A i, j \in 0 .. n - 1 : i # j => At(i) + max <= At(j) \/ At(j) + max <= At(i)
  <2> SUFFICES ASSUME NEW i \in 0 .. n - 1, NEW j \in 0 .. n - 1, i < j
               PROVE  At(i) + max <= At(j)
    BY <1>bounds
  <2>1. i \in Nat /\ j \in Nat
    BY <1>bounds
  <2> QED  BY <2>1, <1>2
<1>whole. \A k \in 1 .. At(n) : \E i \in 0 .. n - 1 : k \in At(i) + 1 .. At(i) + max
  BY <1>2
<1> HIDE DEF L, n, At, Piece, rest
<1>4. /\ full.matches = {Full(Piece(i)) : i \in 0 .. n - 1} /\ full.tickets = rest
  BY <1>3
<1>6. rest \in Orders(Ticket) /\ Len(rest) = L - At(n)
      /\ ToSet(rest) = {tickets[k] : k \in At(n) + 1 .. L}
  <2>1. ASSUME NEW a \in Nat \ {0}, NEW b \in Nat, a <= b + 1, b <= L
        PROVE  /\ SubSeq(tickets, a, b) \in Orders(Ticket)
               /\ Len(SubSeq(tickets, a, b)) = b + 1 - a
               /\ ToSet(SubSeq(tickets, a, b)) = {tickets[k] : k \in a .. b}
    <3>1. SubSeq(tickets, a, b) \in Orders(Ticket) /\ b <= Len(tickets)
      BY <2>1, PartInOrder DEF L
    <3>2. Len(SubSeq(tickets, a, b)) = b + 1 - a
      BY <2>1, <3>1, PartInOrder
    <3>3. ToSet(SubSeq(tickets, a, b)) = {tickets[k] : k \in a .. b}
      BY <2>1, <3>1, PartInOrder
    <3> QED  BY <3>1, <3>2, <3>3
  <2>2. At(n) + 1 \in Nat \ {0} /\ At(n) + 1 <= L + 1
    BY <1>bounds
  <2> QED  BY <2>1, <2>2, <1>bounds DEF rest
<1>7. ASSUME NEW i \in 0 .. n - 1
      PROVE  /\ Full(Piece(i)).tickets = Items(i) /\ IsFull(Full(Piece(i)), max)
             /\ i \in Nat /\ At(i) \in Nat /\ At(i) + max <= At(n)
  <2>1. i \in Nat /\ At(i) \in Nat /\ At(i + 1) = At(i) + max /\ At(i) + max <= At(n)
        /\ At(i) + max <= L
    BY <1>at
  <2>2. ASSUME NEW a \in Nat \ {0}, NEW b \in Nat, a <= b + 1, b <= L
        PROVE  /\ SubSeq(tickets, a, b) \in Orders(Ticket)
               /\ ToSet(SubSeq(tickets, a, b)) = {tickets[k] : k \in a .. b}
               /\ Cardinality(ToSet(SubSeq(tickets, a, b))) = b + 1 - a
    BY <2>2, PartInOrder DEF L
  <2>3. /\ At(i) + 1 \in Nat \ {0} /\ At(i + 1) \in Nat /\ At(i) + 1 <= At(i + 1) + 1
        /\ At(i + 1) <= L /\ At(i + 1) + 1 - (At(i) + 1) = max
    BY <2>1, <1>bounds
  <2>4. ToSet(Piece(i)) = Items(i) /\ Cardinality(ToSet(Piece(i))) = max
    BY <2>1, <2>2, <2>3 DEF Piece
  <2>5. Items(i) # {} /\ Items(i) \subseteq Ticket
    <3>1. At(i) + 1 \in At(i) + 1 .. At(i) + max
      BY <2>1
    <3>2. \A k \in At(i) + 1 .. At(i) + max : k \in 1 .. L
      BY <2>1, <1>bounds
    <3>3. \A k \in 1 .. L : tickets[k] \in Ticket
      BY <1>1
    <3> QED  BY <3>1, <3>2, <3>3
  <2> HIDE DEF Items
  <2>6. Full(Piece(i)) = [tickets |-> Items(i), backfill |-> None, fresh |-> FALSE, server |-> None]
    BY <2>4 DEF Full, Match
  <2>7. Full(Piece(i)) \in Matches
    BY <2>5, <2>6 DEF Matches
  <2> QED  BY <2>1, <2>4, <2>5, <2>6, <2>7 DEF IsFull
<1>8. ASSUME NEW i \in 0 .. n - 1, NEW j \in 0 .. n - 1, i # j
      PROVE  Items(i) \cap Items(j) = {}
  <2>1. i \in Nat /\ j \in Nat /\ At(i) \in Nat /\ At(j) \in Nat
        /\ At(i) + max <= L /\ At(j) + max <= L
    BY <1>at
  <2>2. At(i) + max <= At(j) \/ At(j) + max <= At(i)
    BY <1>apart, <1>8
  <2>3. ASSUME NEW k \in At(i) + 1 .. At(i) + max, NEW l \in At(j) + 1 .. At(j) + max
        PROVE  tickets[k] # tickets[l]
    <3>1. k # l /\ k \in 1 .. L /\ l \in 1 .. L
      BY <1>bounds, <2>1, <2>2
    <3> QED  BY <3>1, <1>1
  <2> QED  BY <2>3
<1>9. \A m \in full.matches : IsFull(m, max) /\ m.tickets \cap ToSet(full.tickets) = {}
  <2> SUFFICES ASSUME NEW i \in 0 .. n - 1
               PROVE  IsFull(Full(Piece(i)), max) /\ Items(i) \cap ToSet(rest) = {}
    BY <1>4, <1>7
  <2>1. At(i) \in Nat /\ At(i) + max <= At(n) /\ IsFull(Full(Piece(i)), max)
    BY <1>7
  <2>2. ASSUME NEW k \in At(i) + 1 .. At(i) + max, NEW l \in At(n) + 1 .. L
        PROVE  tickets[k] # tickets[l]
    <3>1. k # l /\ k \in 1 .. L /\ l \in 1 .. L
      BY <1>bounds, <2>1
    <3> QED  BY <3>1, <1>1
  <2> QED  BY <2>1, <2>2, <1>6
<1>10. \A m, k \in full.matches : m # k => m.tickets \cap k.tickets = {}
  <2> SUFFICES ASSUME NEW i \in 0 .. n - 1, NEW j \in 0 .. n - 1, Full(Piece(i)) # Full(Piece(j))
               PROVE  Full(Piece(i)).tickets \cap Full(Piece(j)).tickets = {}
    BY <1>4
  <2>1. i # j
    OBVIOUS
  <2> HIDE DEF Items
  <2> QED  BY <2>1, <1>7, <1>8
<1>11. ToSet(tickets) = ToSet(full.tickets) \cup UNION {m.tickets : m \in full.matches}
  <2>1. ToSet(tickets) = {tickets[k] : k \in 1 .. L}
    BY <1>1 DEF ToSet
  <2>2. ASSUME NEW k \in 1 .. L
        PROVE  tickets[k] \in ToSet(rest) \/ \E m \in full.matches : tickets[k] \in m.tickets
    <3>1. CASE k \in At(n) + 1 .. L
      BY <3>1, <1>6
    <3>2. CASE k \in 1 .. At(n)
      <4>1. PICK i \in 0 .. n - 1 : k \in At(i) + 1 .. At(i) + max
        BY <3>2, <1>whole
      <4>2. tickets[k] \in Full(Piece(i)).tickets
        BY <4>1, <1>7
      <4> QED  BY <4>2, <1>4
    <3> QED  BY <3>1, <3>2, <1>bounds
  <2>3. ASSUME NEW m \in full.matches PROVE m.tickets \subseteq ToSet(tickets)
    <3>1. PICK i \in 0 .. n - 1 : m = Full(Piece(i))
      BY <1>4
    <3>2. m.tickets = Items(i) /\ At(i) \in Nat /\ At(i) + max <= L
      BY <3>1, <1>7, <1>at
    <3>3. \A k \in At(i) + 1 .. At(i) + max : k \in 1 .. L
      BY <3>2, <1>bounds
    <3> QED  BY <3>2, <3>3, <2>1
  <2>4. ToSet(rest) \subseteq ToSet(tickets)
    <3>1. \A k \in At(n) + 1 .. L : k \in 1 .. L
      BY <1>bounds
    <3> QED  BY <3>1, <1>6, <2>1
  <2> QED  BY <2>1, <2>2, <2>3, <2>4, <1>4
<1>12. Len(rest) < max
  BY <1>bounds, <1>6
<1> QED  BY <1>4, <1>6, <1>9, <1>10, <1>11, <1>12

-----------------------------------------------------------------------------
(* create_matches: what the matching function proposes. *)

LEMMA WholeInOrder ==
    ASSUME NEW S, NEW s \in Orders(S)
    PROVE  /\ IsFiniteSet(ToSet(s)) /\ Cardinality(ToSet(s)) = Len(s) /\ ToSet(s) \subseteq S
           /\ s = <<>> <=> Len(s) = 0
<1>1. s \in Seq(S) /\ Len(s) \in Nat /\ DOMAIN s = 1 .. Len(s)
  BY DEF Orders
<1>2. SubSeq(s, 1, Len(s)) = s
  BY <1>1, SubSeqFull
<1>3. ASSUME NEW b \in Nat, b = Len(s)
      PROVE  /\ IsFiniteSet(ToSet(SubSeq(s, 1, b)))
             /\ Cardinality(ToSet(SubSeq(s, 1, b))) = b + 1 - 1
  BY <1>3, PartInOrder
<1>4. ToSet(s) \subseteq S
  BY <1>1 DEF ToSet
<1>5. s = <<>> <=> Len(s) = 0
  BY <1>1
<1>6. IsFiniteSet(ToSet(s)) /\ Cardinality(ToSet(s)) = Len(s) + 1 - 1
  <2>1. /\ IsFiniteSet(ToSet(SubSeq(s, 1, Len(s))))
        /\ Cardinality(ToSet(SubSeq(s, 1, Len(s)))) = Len(s) + 1 - 1
    BY <1>1, <1>3
  <2> QED  BY <2>1, <1>2
<1> QED  BY <1>1, <1>4, <1>5, <1>6

Fleets == {None} \cup {spec.fleet : spec \in QueueSpecs}
MatchFunctions == {spec.mmf : spec \in QueueSpecs}
Profiles == [fleet : Fleets, mmf : MatchFunctions, min : Nat \cup {None}, max : Nat]

IsFresh(m, b, max) == /\ m \in Matches /\ m.fresh /\ m.backfill = b /\ m.server = None
                      /\ m.tickets # {} /\ Cardinality(m.tickets) < max

Apart(matches) == \A m, n \in matches : m # n => m.tickets \cap n.tickets = {}

Behind(tickets, matches) == ToSet(tickets) \ UNION {m.tickets : m \in matches}

Proposal(profile, places, tickets, b, made) ==
    /\ made.slots \in [DOMAIN places -> Nat]
    /\ \A p \in DOMAIN places : made.slots[p] <= places[p].slots
    /\ \A m \in made.matches :
          /\ m.tickets \subseteq ToSet(tickets)
          /\ \/ FillsPlaces(m, places, made.slots, DOMAIN places)
             \/ IsFull(m, profile.max)
             \/ IsFresh(m, b, profile.max)
    /\ Apart(made.matches)
    /\ \A m, n \in made.matches : m # n /\ m.fresh => ~n.fresh
    /\ \A m, n \in made.matches :
          m # n /\ m.backfill = n.backfill /\ ~m.fresh /\ ~n.fresh => m.backfill = None
    /\ LET behind == Behind(tickets, made.matches) IN
          behind = {} \/ Cardinality(behind) < Smallest(profile)

(* The tickets left, fewer than a match may hold, are a match or stay. *)
LEMMA LastMatch ==
    ASSUME NEW profile \in Profiles, profile.max # 0, NEW b \in Backfill,
           NEW tickets \in Orders(Ticket), tickets # <<>>, Len(tickets) < profile.max
    PROVE  LET last == create_last_partial_match(profile, b, tickets) IN
           \/ last = {} /\ Len(tickets) < Smallest(profile)
           \/ \E m : last = {m} /\ IsFresh(m, b, profile.max) /\ m.tickets = ToSet(tickets)
<1>1. profile.max \in Nat /\ profile.min \in Nat \cup {None} /\ Len(tickets) \in Nat
  BY DEF Profiles, Orders
<1>2. Smallest(profile) \in Nat
  BY <1>1 DEF Smallest
<1>3. CASE Len(tickets) < Smallest(profile)
  BY <1>3 DEF create_last_partial_match
<1>4. CASE ~(Len(tickets) < Smallest(profile))
  <2> DEFINE m == Match(SubSeq(tickets, 1, Least(Len(tickets), profile.max)), b, TRUE, None)
  <2>1. Least(Len(tickets), profile.max) = Len(tickets)
    BY <1>1 DEF Least
  <2>2. SubSeq(tickets, 1, Len(tickets)) = tickets
    BY SubSeqFull DEF Orders
  <2>3. m = [tickets |-> ToSet(tickets), backfill |-> b, fresh |-> TRUE, server |-> None]
    BY <2>1, <2>2 DEF Match
  <2>4. create_last_partial_match(profile, b, tickets) = {m}
    BY <1>4 DEF create_last_partial_match
  <2>5. /\ ToSet(tickets) \subseteq Ticket /\ Cardinality(ToSet(tickets)) = Len(tickets)
        /\ ToSet(tickets) # {}
    BY WholeInOrder, FS_EmptySet
  <2> HIDE DEF m
  <2>6. IsFresh(m, b, profile.max) /\ m.tickets = ToSet(tickets)
    BY <2>3, <2>5, <1>1 DEF IsFresh, Matches
  <2> QED  BY <2>4, <2>6
<1> QED  BY <1>3, <1>4

LEMMA MatchesMade ==
    ASSUME NEW profile \in Profiles, profile.max # 0, NEW b \in Backfill,
           NEW P \in SUBSET Backfill, NEW places \in [P -> FreePlaces], b \notin P,
           NEW order \in Orders(P), NEW tickets \in Orders(Ticket), NEW made,
           made = create_matches(profile, places, order, b, tickets)
    PROVE  Proposal(profile, places, tickets, b, made)
<1> DEFINE filled == fill_existing_backfills(places, order, tickets)
           full == create_full_matches(profile.max, filled.tickets)
           last == IF full.tickets = <<>> THEN {}
                   ELSE create_last_partial_match(profile, b, full.tickets)
           All(matches) == UNION {m.tickets : m \in matches}
<1>1. /\ made.matches = filled.matches \cup full.matches \cup last /\ made.slots = filled.slots
  BY DEF create_matches
<1>2. Filled(places, order, tickets, Len(order), filled)
  BY FillingIsFilled
<1>3. filled.tickets \in Orders(Ticket) /\ profile.max \in Nat \ {0}
  BY <1>2 DEF Filled, Profiles
<1> HIDE DEF filled
<1>4. /\ full.tickets \in Orders(Ticket) /\ Len(full.tickets) < profile.max
      /\ \A m \in full.matches : IsFull(m, profile.max) /\ m.tickets \cap ToSet(full.tickets) = {}
      /\ \A m, k \in full.matches : m # k => m.tickets \cap k.tickets = {}
      /\ ToSet(filled.tickets) = ToSet(full.tickets) \cup All(full.matches)
  BY <1>3, FullMatches
<1> HIDE DEF full
<1>5. \/ last = {} /\ (full.tickets = <<>> \/ Len(full.tickets) < Smallest(profile))
      \/ \E m : last = {m} /\ IsFresh(m, b, profile.max) /\ m.tickets = ToSet(full.tickets)
  BY <1>3, <1>4, LastMatch
<1> HIDE DEF last
<1>6. Visited(order, Len(order)) \subseteq P /\ DOMAIN places = P
  BY DEF Visited, Orders
<1>7. \A m \in filled.matches : FillsPlaces(m, places, filled.slots, P)
  BY <1>2, <1>6 DEF Filled, FillsPlaces
<1>8. /\ \A m \in filled.matches : ~m.fresh /\ m.backfill \in P /\ m.backfill # None
      /\ \A m \in full.matches : ~m.fresh /\ m.backfill = None
      /\ \A m \in last : m.fresh /\ m.tickets = ToSet(full.tickets) /\ IsFresh(m, b, profile.max)
  <2>1. \A p \in P : p # None
    BY NoneAssumption, BoundAssumption DEF Backfill
  <2> QED  BY <2>1, <1>4, <1>5, <1>7 DEF FillsPlaces, IsFull, IsFresh
<1>9. /\ \A m \in filled.matches : m.tickets \cap ToSet(filled.tickets) = {}
      /\ \A m, k \in filled.matches : m # k => m.tickets \cap k.tickets = {} /\ m.backfill # k.backfill
      /\ ToSet(tickets) = ToSet(filled.tickets) \cup All(filled.matches)
  BY <1>2 DEF Filled
<1>10. All(made.matches) = All(filled.matches) \cup All(full.matches) \cup All(last)
  BY <1>1
<1>11. \A m \in made.matches : m.tickets \subseteq ToSet(tickets)
  BY <1>1, <1>4, <1>8, <1>9
<1>12. \A m \in made.matches : \/ FillsPlaces(m, places, made.slots, DOMAIN places)
                               \/ IsFull(m, profile.max)
                               \/ IsFresh(m, b, profile.max)
  BY <1>1, <1>4, <1>6, <1>7, <1>8
<1>13. Apart(made.matches)
  <2>1. \A m \in filled.matches, n \in full.matches \cup last : m.tickets \cap n.tickets = {}
    BY <1>4, <1>8, <1>9
  <2>2. \A m \in full.matches, n \in last : m.tickets \cap n.tickets = {}
    BY <1>4, <1>8
  <2>3. \A m, n \in last : m = n
    BY <1>5
  <2> QED  BY <2>1, <2>2, <2>3, <1>1, <1>4, <1>9 DEF Apart
<1>14. \A m, n \in made.matches : m # n /\ m.fresh => ~n.fresh
  BY <1>1, <1>5, <1>8
<1>15. \A m, n \in made.matches :
          m # n /\ m.backfill = n.backfill /\ ~m.fresh /\ ~n.fresh => m.backfill = None
  BY <1>1, <1>8, <1>9
<1>16. \/ Behind(tickets, made.matches) = {}
       \/ Cardinality(Behind(tickets, made.matches)) < Smallest(profile)
  <2>1. Behind(tickets, made.matches) = ToSet(full.tickets) \ All(last)
    <3>1. All(filled.matches) \cap ToSet(filled.tickets) = {}
      BY <1>9
    <3>2. All(full.matches) \cap ToSet(full.tickets) = {}
      BY <1>4
    <3> HIDE DEF All
    <3>3. Behind(tickets, made.matches) = ToSet(tickets) \ All(made.matches)
      BY DEF Behind, All
    <3> QED  BY <3>1, <3>2, <3>3, <1>4, <1>9, <1>10
  <2>2. CASE last = {} /\ full.tickets = <<>>
    BY <2>1, <2>2 DEF ToSet
  <2>3. CASE last = {} /\ Len(full.tickets) < Smallest(profile)
    <3>1. Behind(tickets, made.matches) = ToSet(full.tickets)
      BY <2>1, <2>3
    <3>2. Cardinality(ToSet(full.tickets)) = Len(full.tickets)
      BY <1>4, WholeInOrder
    <3> QED  BY <3>1, <3>2, <2>3
  <2>4. CASE \E m : last = {m} /\ IsFresh(m, b, profile.max) /\ m.tickets = ToSet(full.tickets)
    BY <2>1, <2>4
  <2> QED  BY <2>2, <2>3, <2>4, <1>5
<1>17. /\ made.slots \in [DOMAIN places -> Nat]
       /\ \A p \in DOMAIN places : made.slots[p] <= places[p].slots
  BY <1>1, <1>2 DEF Filled
<1> QED  BY <1>11, <1>12, <1>13, <1>14, <1>15, <1>16, <1>17 DEF Proposal

-----------------------------------------------------------------------------
(* The inductive invariant. *)

Resources == [spec : QueueSpecs, deleting : BOOLEAN]
Tickets == [state : {"new", "active", "pending", "assigned", "gone"},
            queue : Queue \cup {None}, server : Server \cup {None}]
GameServers == [state : {"none", "starting", "ready", "allocated"}, fleet : Fleets,
                summoned : BOOLEAN, reopened : BOOLEAN, backfill : Backfill \cup {None},
                used : BOOLEAN, cap : Nat]

(* The types of the variables, in full. *)
DirectorType ==
    /\ director = [todo |-> director.todo, queue |-> director.queue, matches |-> director.matches,
                   match |-> director.match, server |-> director.server]
    /\ director.todo \in [DOMAIN director.todo -> Profiles] /\ DOMAIN director.todo \subseteq Queue
    /\ director.queue \in Profiles \cup {None}
    /\ director.matches \subseteq Matches
    /\ director.match \in Matches \cup {None}
    /\ director.server \in Server \cup {None}

Types ==
    /\ resource \in [Queue -> Resources \cup {None}]
    /\ registry \in [Queue -> Profiles \cup {None}]
    /\ DirectorType
    /\ ticket \in [Ticket -> Tickets]
    /\ backfill \in [Backfill -> FreePlaces \cup {None}]
    /\ server \in [Server -> GameServers]
    /\ faults \in Nat /\ leaves \in Nat

(* The matches of the director have no ticket in common, and each has one. *)
(* No ticket of theirs was assigned.  Only one of them has a server yet.   *)
Held == director.matches \cup ({director.match} \ {None})

HeldApart ==
    /\ \A m \in Held : m.tickets # {} /\ \A t \in m.tickets : ticket[t].state # "assigned"
    /\ \A m, n \in Held : m # n => m.tickets \cap n.tickets = {}
    /\ director.match \notin director.matches

HeldPlaced ==
    /\ director.match = None <=> director.server = None
    /\ director.matches # {} \/ director.match # None => director.queue \in Profiles

(* The backfills that matches and servers name exist. *)
BackfillsExist ==
    /\ \A m \in Held : m.backfill # None => backfill[m.backfill] # None
    /\ \A s \in Server : server[s].backfill # None => backfill[server[s].backfill] # None

SlotsIn(b) == IF b = None THEN 0 ELSE backfill[b].slots

(* A match that needs a server fits on it, with who may still come through *)
(* its backfill.                                                            *)
MatchesFit ==
    \A m \in director.matches : NeedsServer(m) =>
        Cardinality(m.tickets) + SlotsIn(m.backfill) <= director.queue.max

Counted(s) == ~server[s].summoned /\ ~server[s].reopened

Untouched(s) == server[s].cap = 0 /\ server[s].backfill = None /\ ~server[s].used

(* The tickets on the way to a server. *)
Coming(s) ==
    {t \in Ticket :
        \/ \E m \in director.matches : ~NeedsServer(m) /\ m.server = s /\ t \in m.tickets
        \/ director.match # None /\ director.server = s /\ t \in director.match.tickets}

(* A server has room for who was sent there, who is on the way, and who    *)
(* may still come through its backfill; what names the server agrees with  *)
(* it about the backfill.  Before it is allocated nothing is known of it.  *)
RoomLeft(s) ==
    /\ server[s].state # "starting"
    /\ server[s].state \in {"none", "ready"} => Untouched(s) /\ Sent(s) \cup Coming(s) = {}
    /\ Cardinality(Sent(s) \cup Coming(s)) + SlotsIn(server[s].backfill) <= server[s].cap
    /\ \A b \in Backfill : backfill[b] # None /\ backfill[b].server = s => server[s].backfill = b
    /\ \A m \in director.matches : ~NeedsServer(m) /\ m.server = s => server[s].backfill = m.backfill

Room == \A s \in Server : Counted(s) => RoomLeft(s)

(* What was taken for nothing, and the tickets that may yet come to that,  *)
(* are paid for by failures and by players who left.                        *)
Wasted == {s \in Server : server[s].cap > 0 /\ ~server[s].used /\ s # director.server}
GoneHeld == {t \in Ticket : ticket[t].state = "gone" /\ \E m \in Held : t \in m.tickets}
Paid == Cardinality(Wasted) + Cardinality(GoneHeld) <= faults + leaves

MatchInv == Types /\ HeldApart /\ HeldPlaced /\ BackfillsExist /\ MatchesFit /\ Room /\ Paid

-----------------------------------------------------------------------------
(* The types are kept, and what a fetch does. *)

LEMMA NoneFacts ==
    /\ None \notin Ticket /\ None \notin Server /\ None \notin Backfill
    /\ None \notin Matches /\ None \notin FreePlaces /\ None \notin Nat
  BY NoneAssumption, BoundAssumption DEF Ticket, Server, Backfill

LEMMA TicketsFinite ==
    ASSUME NEW S, S \subseteq Ticket
    PROVE  IsFiniteSet(S) /\ Cardinality(S) \in Nat
<1>1. IsFiniteSet(Ticket)
  BY BoundAssumption, FS_Interval DEF Ticket
<1> QED  BY <1>1, FS_Subset, FS_CardinalityType

(* A fetch proposes matches; Effect says what it changes. *)
Effect(q, b, made) ==
    LET profile == director.todo[q] IN
    /\ profile \in Profiles /\ profile.max # 0
    /\ b \in Backfill /\ backfill[b] = None
    /\ \E tickets \in Orders(Ticket) :
          /\ ToSet(tickets) = Waiting(q)
          /\ Proposal(profile, [p \in Places(q) |-> backfill[p]], tickets, b, made)
    /\ director' = [todo |-> [p \in DOMAIN director.todo \ {q} |-> director.todo[p]],
                    queue |-> profile, matches |-> made.matches, match |-> None, server |-> director.server]
    /\ ticket' = [t \in Ticket |-> IF \E m \in made.matches : t \in m.tickets
                                   THEN [ticket[t] EXCEPT !.state = "pending"] ELSE ticket[t]]
    /\ backfill' = [p \in Backfill |->
           IF p \in Places(q) THEN [backfill[p] EXCEPT !.slots = made.slots[p]]
           ELSE IF p = b /\ {m \in made.matches : m.fresh} # {}
           THEN [queue |-> q, server |-> None,
                 slots |-> profile.max -
                     Cardinality((CHOOSE m \in {n \in made.matches : n.fresh} : TRUE).tickets)]
           ELSE backfill[p]]

LEMMA Fetched ==
    ASSUME Types, NEW q \in Queue, try_fetch_matches_for_queue(q)
    PROVE  \E b, made : Effect(q, b, made)
<1> DEFINE b == Min(FreeBackfills)
           profile == director.todo[q]
           places == [p \in Places(q) |-> backfill[p]]
<1>1. BetweenQueues /\ q \in DOMAIN director.todo /\ profile.max # 0 /\ FreeBackfills # {}
  BY DEF try_fetch_matches_for_queue, LoopsForever
<1>2. profile \in Profiles
  BY <1>1 DEF Types, DirectorType
<1>3. b \in FreeBackfills
  <2>1. FreeBackfills \subseteq Nat
    BY DEF FreeBackfills, Backfill
  <2> QED  BY <2>1, <1>1, MinOfNaturals
<1>4. PICK tickets \in SetToSeqs(Waiting(q)), order \in SetToSeqs(Places(q)) :
         LET made == create_matches(profile, places, order, b, tickets)
             taken == UNION {m.tickets : m \in made.matches}
             fresh == {m \in made.matches : m.fresh}
         IN  /\ director' = [director EXCEPT !.todo = [p \in DOMAIN @ \ {q} |-> @[p]],
                                             !.queue = profile, !.matches = made.matches]
             /\ ticket' = [t \in Ticket |-> IF t \in taken THEN [ticket[t] EXCEPT !.state = "pending"]
                                            ELSE ticket[t]]
             /\ backfill' = [p \in Backfill |->
                    IF p \in Places(q) THEN [backfill[p] EXCEPT !.slots = made.slots[p]]
                    ELSE IF p = b /\ fresh # {}
                    THEN [queue |-> q, server |-> None,
                          slots |-> profile.max - Cardinality((CHOOSE m \in fresh : TRUE).tickets)]
                    ELSE backfill[p]]
  BY Zenon DEF try_fetch_matches_for_queue
<1> DEFINE made == create_matches(profile, places, order, b, tickets)
<1> HIDE DEF b
<1>5. b \in Backfill /\ backfill[b] = None /\ b \notin Places(q)
  BY <1>3 DEF FreeBackfills, Places
<1>6. tickets \in Orders(Waiting(q)) /\ ToSet(tickets) = Waiting(q)
  <2>1. IsFiniteSet(Waiting(q))
    BY TicketsFinite DEF Waiting
  <2> QED  BY <2>1, SetInOrder
<1>7. tickets \in Orders(Ticket)
  <2>1. Waiting(q) \subseteq Ticket
    BY DEF Waiting
  <2> QED  BY <2>1, <1>6, SeqMonotonic DEF Orders
<1>8. order \in Orders(Places(q))
  <2>1. IsFiniteSet(Places(q))
    <3>1. IsFiniteSet(Backfill)
      BY BoundAssumption, FS_Interval DEF Backfill
    <3>2. Places(q) \in SUBSET Backfill
      BY DEF Places
    <3> QED  BY <3>1, <3>2, FS_Subset
  <2> QED  BY <2>1, SetInOrder
<1>9. Places(q) \in SUBSET Backfill /\ places \in [Places(q) -> FreePlaces]
  BY DEF Places, Types
<1>10. Proposal(profile, places, tickets, b, made)
  <2> HIDE DEF profile, places
  <2>1. ASSUME NEW P \in SUBSET Backfill, NEW f \in [P -> FreePlaces], b \notin P,
               NEW o \in Orders(P)
        PROVE  Proposal(profile, f, tickets, b, create_matches(profile, f, o, b, tickets))
    BY <2>1, <1>1, <1>2, <1>5, <1>7, MatchesMade
  <2> QED  BY <2>1, <1>5, <1>8, <1>9
<1> HIDE DEF made
<1>11. director' = [todo |-> [p \in DOMAIN director.todo \ {q} |-> director.todo[p]],
                    queue |-> profile, matches |-> made.matches, match |-> None, server |-> director.server]
  <2>1. /\ director = [todo |-> director.todo, queue |-> director.queue, matches |-> director.matches,
                       match |-> director.match, server |-> director.server]
        /\ director.match = None
    BY <1>1 DEF Types, DirectorType, BetweenQueues
  <2>2. director' = [director EXCEPT !.todo = [p \in DOMAIN @ \ {q} |-> @[p]],
                                     !.queue = profile, !.matches = made.matches]
    BY <1>4 DEF made
  <2> HIDE DEF profile
  <2> QED  BY <2>1, <2>2
<1>12. ticket' = [t \in Ticket |-> IF \E m \in made.matches : t \in m.tickets
                                   THEN [ticket[t] EXCEPT !.state = "pending"] ELSE ticket[t]]
  <2>1. ticket' = [t \in Ticket |-> IF t \in UNION {m.tickets : m \in made.matches}
                                    THEN [ticket[t] EXCEPT !.state = "pending"] ELSE ticket[t]]
    BY <1>4 DEF made
  <2>2. \A t : t \in UNION {m.tickets : m \in made.matches} <=> \E m \in made.matches : t \in m.tickets
    OBVIOUS
  <2> QED  BY <2>1, <2>2
<1>13. backfill' = [p \in Backfill |->
           IF p \in Places(q) THEN [backfill[p] EXCEPT !.slots = made.slots[p]]
           ELSE IF p = b /\ {m \in made.matches : m.fresh} # {}
           THEN [queue |-> q, server |-> None,
                 slots |-> profile.max -
                     Cardinality((CHOOSE m \in {n \in made.matches : n.fresh} : TRUE).tickets)]
           ELSE backfill[p]]
  BY <1>4, Zenon DEF made
<1>14. Effect(q, b, made)
  <2>1. profile \in Profiles /\ profile.max # 0
    BY <1>1, <1>2
  <2> QED  BY <2>1, <1>5, <1>6, <1>7, <1>10, <1>11, <1>12, <1>13, Zenon DEF Effect
<1> QED  BY <1>14

(* What a reader of the matches and of the backfills needs to know. *)
LEMMA FetchFacts ==
    ASSUME Types, NEW q \in Queue, NEW b, NEW made, Effect(q, b, made)
    PROVE  LET max == director.todo[q].max IN
           /\ \A m \in made.matches : m \in Matches /\ m.tickets # {} /\ m.tickets \subseteq Waiting(q)
           /\ Apart(made.matches)
           /\ \A m \in made.matches : ~NeedsServer(m) =>
                 /\ m.backfill \in Places(q) /\ m.server = backfill[m.backfill].server
                 /\ Cardinality(m.tickets) + backfill'[m.backfill].slots = backfill[m.backfill].slots
           /\ \A m, n \in made.matches :
                 m # n /\ ~NeedsServer(m) /\ ~NeedsServer(n) => m.backfill # n.backfill
           /\ \A m \in made.matches : NeedsServer(m) /\ ~m.fresh =>
                 m.backfill = None /\ Cardinality(m.tickets) = max
           /\ \A m \in made.matches : m.fresh =>
                 /\ m.backfill = b /\ backfill'[b] # None
                 /\ Cardinality(m.tickets) + backfill'[b].slots = max /\ backfill'[b].slots > 0
           /\ backfill' \in [Backfill -> FreePlaces \cup {None}]
           /\ \A p \in Backfill \ {b} : backfill[p] = None => backfill'[p] = None
           /\ \A p \in Backfill \ {b} : backfill[p] # None =>
                 /\ backfill'[p] # None /\ backfill'[p].server = backfill[p].server
                 /\ backfill'[p].slots <= backfill[p].slots
           /\ backfill'[b] # None => backfill'[b].server = None
<1> DEFINE profile == director.todo[q]
           max == profile.max
           places == [p \in Places(q) |-> backfill[p]]
           fresh == {m \in made.matches : m.fresh}
           one == CHOOSE m \in fresh : TRUE
<1>1. profile \in Profiles /\ max # 0 /\ max \in Nat /\ b \in Backfill /\ backfill[b] = None
  BY DEF Effect, Profiles
<1>2. PICK tickets \in Orders(Ticket) : ToSet(tickets) = Waiting(q)
                                        /\ Proposal(profile, places, tickets, b, made)
  BY DEF Effect
<1>3. backfill' = [p \in Backfill |->
           IF p \in Places(q) THEN [backfill[p] EXCEPT !.slots = made.slots[p]]
           ELSE IF p = b /\ fresh # {}
           THEN [queue |-> q, server |-> None, slots |-> max - Cardinality(one.tickets)]
           ELSE backfill[p]]
  BY DEF Effect
<1> HIDE DEF max
<1>4. \A p \in Places(q) : p \in Backfill /\ backfill[p] \in FreePlaces /\ backfill[p] # None
  BY DEF Places, Types
<1>5. b \notin Places(q)
  BY <1>1, <1>4
<1>6. DOMAIN places = Places(q) /\ \A p \in Places(q) : places[p] = backfill[p]
  OBVIOUS
<1> HIDE DEF places
<1>7. /\ made.slots \in [Places(q) -> Nat]
      /\ \A p \in Places(q) : made.slots[p] <= backfill[p].slots
  BY <1>2, <1>6 DEF Proposal
<1>8. \A m \in made.matches :
          /\ m.tickets \subseteq Waiting(q)
          /\ \/ FillsPlaces(m, places, made.slots, Places(q))
             \/ IsFull(m, max)
             \/ IsFresh(m, b, max)
  BY <1>2, <1>6 DEF Proposal, max
<1>9. \A m \in made.matches : m \in Matches /\ m.tickets # {} /\ m.tickets \subseteq Waiting(q)
  BY <1>8 DEF FillsPlaces, IsFull, IsFresh
<1>10. \A p \in Places(q) : p # None
  BY <1>4, NoneFacts
<1>11. ASSUME NEW m \in made.matches, m.fresh PROVE IsFresh(m, b, max) /\ m = one /\ fresh # {}
  <2>1. IsFresh(m, b, max)
    BY <1>8, <1>11 DEF FillsPlaces, IsFull
  <2>2. fresh = {m}
    BY <1>2, <1>11 DEF Proposal
  <2>3. one = m
    BY <2>2
  <2> QED  BY <2>1, <2>2, <2>3
<1>12. ASSUME NEW m \in made.matches, ~NeedsServer(m) PROVE FillsPlaces(m, places, made.slots, Places(q))
  BY <1>8, <1>12 DEF NeedsServer, IsFull, IsFresh
<1>13. ASSUME NEW m \in made.matches, NeedsServer(m), ~m.fresh PROVE IsFull(m, max)
  BY <1>8, <1>10, <1>13 DEF NeedsServer, FillsPlaces, IsFresh
<1>14. ASSUME NEW p \in Places(q)
       PROVE  /\ backfill'[p] \in FreePlaces /\ backfill'[p] # None
              /\ backfill'[p].server = backfill[p].server /\ backfill'[p].slots = made.slots[p]
  <2>1. backfill'[p] = [backfill[p] EXCEPT !.slots = made.slots[p]]
    BY <1>3, <1>4
  <2>2. made.slots[p] \in Nat
    BY <1>7
  <2>3. backfill'[p] \in FreePlaces
    BY <2>1, <2>2, <1>4 DEF FreePlaces
  <2> QED  BY <2>1, <2>3, <1>4, NoneFacts DEF FreePlaces
<1>15. ASSUME fresh # {}
       PROVE  /\ backfill'[b] \in FreePlaces /\ backfill'[b] # None /\ backfill'[b].server = None
              /\ Cardinality(one.tickets) + backfill'[b].slots = max /\ backfill'[b].slots > 0
  <2>1. one \in made.matches /\ one.fresh
    BY <1>15
  <2>2. one.tickets \subseteq Ticket /\ Cardinality(one.tickets) < max
    BY <2>1, <1>11 DEF IsFresh, Matches
  <2>3. Cardinality(one.tickets) \in Nat
    BY <2>2, TicketsFinite
  <2> HIDE DEF one
  <2>4. backfill'[b] = [queue |-> q, server |-> None, slots |-> max - Cardinality(one.tickets)]
    BY <1>1, <1>3, <1>5, <1>15
  <2>5. max - Cardinality(one.tickets) \in Nat /\ max - Cardinality(one.tickets) > 0
    BY <1>1, <2>2, <2>3
  <2>6. backfill'[b] \in FreePlaces
    BY <2>4, <2>5 DEF FreePlaces
  <2> QED  BY <1>1, <2>3, <2>4, <2>5, <2>6, NoneFacts
<1> HIDE DEF one, fresh
<1>16. \A p \in Backfill : p \notin Places(q) /\ (p # b \/ fresh = {}) => backfill'[p] = backfill[p]
  BY <1>3
<1>17. backfill' \in [Backfill -> FreePlaces \cup {None}]
  <2>1. ASSUME NEW p \in Backfill PROVE backfill'[p] \in FreePlaces \cup {None}
    <3>1. CASE p \in Places(q)
      BY <3>1, <1>14
    <3>2. CASE p = b /\ fresh # {}
      BY <3>2, <1>15
    <3>3. CASE p \notin Places(q) /\ ~(p = b /\ fresh # {})
      BY <3>3, <1>16 DEF Types
    <3> QED  BY <3>1, <3>2, <3>3
  <2>2. backfill' = [p \in Backfill |-> backfill'[p]]
    BY <1>3
  <2> QED  BY <2>1, <2>2
<1>18. /\ \A p \in Backfill \ {b} : backfill[p] = None => backfill'[p] = None
       /\ \A p \in Backfill \ {b} : backfill[p] # None =>
             /\ backfill'[p] # None /\ backfill'[p].server = backfill[p].server
             /\ backfill'[p].slots <= backfill[p].slots
  <2> SUFFICES ASSUME NEW p \in Backfill \ {b}
               PROVE  IF backfill[p] = None THEN backfill'[p] = None
                      ELSE /\ backfill'[p] # None /\ backfill'[p].server = backfill[p].server
                           /\ backfill'[p].slots <= backfill[p].slots
    OBVIOUS
  <2>1. CASE p \in Places(q)
    BY <2>1, <1>4, <1>7, <1>14
  <2>2. CASE p \notin Places(q)
    <3>1. backfill'[p] = backfill[p]
      BY <2>2, <1>16
    <3>2. backfill[p] # None => backfill[p].slots \in Nat
      BY DEF Types, FreePlaces
    <3> QED  BY <3>1, <3>2
  <2> QED  BY <2>1, <2>2
<1>19. backfill'[b] # None => backfill'[b].server = None
  BY <1>1, <1>5, <1>15, <1>16
<1>20. ASSUME NEW m \in made.matches, ~NeedsServer(m)
       PROVE  /\ m.backfill \in Places(q) /\ m.server = backfill[m.backfill].server
              /\ Cardinality(m.tickets) + backfill'[m.backfill].slots = backfill[m.backfill].slots
  BY <1>6, <1>12, <1>14, <1>20 DEF FillsPlaces
<1>21. ASSUME NEW m \in made.matches, NEW n \in made.matches, m # n, ~NeedsServer(m), ~NeedsServer(n)
       PROVE  m.backfill # n.backfill
  BY <1>2, <1>21 DEF Proposal, NeedsServer
<1>22. ASSUME NEW m \in made.matches, m.fresh
       PROVE  /\ m.backfill = b /\ backfill'[b] # None
              /\ Cardinality(m.tickets) + backfill'[b].slots = max /\ backfill'[b].slots > 0
  BY <1>11, <1>15, <1>22 DEF IsFresh
<1>23. \A m \in made.matches : NeedsServer(m) /\ ~m.fresh => m.backfill = None /\ Cardinality(m.tickets) = max
  BY <1>13 DEF IsFull
<1>24. Apart(made.matches)
  BY <1>2 DEF Proposal
<1> QED  BY <1>9, <1>17, <1>18, <1>19, <1>20, <1>21, <1>22, <1>23, <1>24 DEF max

-----------------------------------------------------------------------------
(* Every step keeps the types. *)

LEMMA IdleType ==
    ASSUME director' = Idle
    PROVE  DirectorType'
<1>1. /\ Idle.todo = <<>> /\ Idle.queue = None /\ Idle.matches = {} /\ Idle.match = None
      /\ Idle.server = None
      /\ Idle = [todo |-> Idle.todo, queue |-> Idle.queue, matches |-> Idle.matches,
                 match |-> Idle.match, server |-> Idle.server]
  BY DEF Idle
<1>2. <<>> \in [DOMAIN <<>> -> Profiles] /\ DOMAIN <<>> \subseteq Queue
  OBVIOUS
<1> HIDE DEF Idle
<1> QED  BY <1>1, <1>2 DEF DirectorType

LEMMA GivenType ==
    ASSUME Types, NEW s \in Server, NEW state \in {"starting", "allocated"}, NEW m \in Matches,
           director.queue \in Profiles
    PROVE  /\ Given(s, state, m) \in GameServers
           /\ Given(s, state, m).state = state /\ Given(s, state, m).used = server[s].used
           /\ Given(s, state, m).reopened = server[s].reopened
           /\ Given(s, state, m).summoned = (server[s].summoned \/ state = "starting")
           /\ Given(s, state, m).backfill = IF m.backfill = None THEN server[s].backfill ELSE m.backfill
           /\ Given(s, state, m).cap = IF server[s].cap = 0 THEN director.queue.max ELSE server[s].cap
<1>1. server[s] \in GameServers
  BY DEF Types
<1>2. director.queue.fleet \in Fleets /\ director.queue.max \in Nat
  BY DEF Profiles
<1>3. m.backfill \in Backfill \cup {None}
  BY DEF Matches
<1>4. (server[s].summoned \/ state = "starting") \in BOOLEAN
  BY <1>1 DEF GameServers
<1> QED  BY <1>1, <1>2, <1>3, <1>4 DEF Given, GameServers

(* What an allocation may change: servers that were ready or not there are *)
(* given the match.                                                         *)
LEMMA Allocated ==
    ASSUME Types, director.queue \in Profiles, NEW m \in Matches, NEW s \in Server,
           allocate_from_fleet(m, s)
    PROVE  \/ /\ s \in Ready(director.queue.fleet) /\ faults' = faults
              /\ server' = [server EXCEPT ![s] = Given(s, "allocated", m)]
           \/ /\ s \in Unborn /\ faults' \in {faults, faults + 1}
              /\ server' = [server EXCEPT ![s] = Given(s, "starting", m)]
           \/ /\ s \in Unborn /\ faults' = faults + 1
              /\ \E lost \in Ready(director.queue.fleet) :
                    /\ lost \in Server /\ lost # s
                    /\ server' = [server EXCEPT ![lost] = Given(lost, "allocated", m),
                                                ![s] = Given(s, "starting", m)]
<1>1. Unborn # {} => Min(Unborn) \in Unborn
  <2>1. Unborn \subseteq Nat
    BY DEF Unborn, Server
  <2> QED  BY <2>1, MinOfNaturals
<1>2. \A lost \in Ready(director.queue.fleet) : lost \in Server /\ lost \notin Unborn
  BY DEF Ready, Unborn
<1> QED  BY <1>1, <1>2 DEF allocate_from_fleet, allocate, summon_from_minecraft_server_fleet

LEMMA AllocatedType ==
    ASSUME Types, director.queue \in Profiles, NEW m \in Matches, NEW s \in Server,
           allocate_from_fleet(m, s)
    PROVE  server' \in [Server -> GameServers] /\ faults' \in Nat
<1>1. \A z \in Server : /\ Given(z, "allocated", m) \in GameServers
                        /\ Given(z, "starting", m) \in GameServers
  BY GivenType
<1>2. server \in [Server -> GameServers] /\ faults \in Nat
  BY DEF Types
<1> QED  BY <1>1, <1>2, Allocated

LEMMA QueueTypes ==
    ASSUME Types, NEW q \in Queue, Reconcile(q) \/ Edit(q) \/ Removed(q)
    PROVE  Types'
<1>1. CASE Reconcile(q)
  <2> DEFINE spec == resource[q].spec
  <2>1. resource[q] # None /\ resource[q] \in Resources /\ spec \in QueueSpecs
    BY <1>1 DEF Reconcile, Types, Resources
  <2>2. spec.max \in Nat /\ spec.min \in Nat \cup {None} /\ spec.fleet \in Fleets
        /\ spec.mmf \in MatchFunctions
    BY <2>1, SpecAssumption DEF Fleets, MatchFunctions
  <2> HIDE DEF spec
  <2>3. PreparedQueue(spec) \in Profiles
    BY <2>2 DEF PreparedQueue, Profiles
  <2>4. registry[q] # None => [registry[q] EXCEPT !.fleet = spec.fleet] \in Profiles
    BY <2>2 DEF Types, Profiles
  <2>5. registry' \in [Queue -> Profiles \cup {None}]
    BY <1>1, <2>3, <2>4 DEF Reconcile, register_queue, unregister_queue, Types, spec
  <2> QED  BY <1>1, <2>5 DEF Reconcile, Types, DirectorType
<1>2. CASE Edit(q)
  <2>1. \A spec \in QueueSpecs : [spec |-> spec, deleting |-> FALSE] \in Resources
    BY DEF Resources
  <2>2. resource[q] # None => [resource[q] EXCEPT !.deleting = TRUE] \in Resources
    BY DEF Types, Resources
  <2>3. resource' \in [Queue -> Resources \cup {None}]
    BY <1>2, <2>1, <2>2 DEF Edit, Types
  <2> QED  BY <1>2, <2>3 DEF Edit, Types, DirectorType
<1>3. CASE Removed(q)
  <2>1. resource' \in [Queue -> Resources \cup {None}]
    BY <1>3 DEF Removed, Types
  <2> QED  BY <1>3, <2>1 DEF Removed, Types, DirectorType
<1> QED  BY <1>1, <1>2, <1>3

LEMMA FetchTypes ==
    ASSUME Types, NEW q \in Queue, try_fetch_matches_for_queue(q) \/ FetchFails(q)
    PROVE  Types'
<1>1. CASE try_fetch_matches_for_queue(q)
  <2>1. PICK b, made : Effect(q, b, made)
    BY <1>1, Fetched
  <2>2. backfill' \in [Backfill -> FreePlaces \cup {None}] /\ made.matches \subseteq Matches
    BY <2>1, FetchFacts
  <2>3. DirectorType'
    <3>1. /\ director' = [todo |-> [p \in DOMAIN director.todo \ {q} |-> director.todo[p]],
                          queue |-> director.todo[q], matches |-> made.matches, match |-> None,
                          server |-> director.server]
          /\ director.todo[q] \in Profiles
      BY <2>1 DEF Effect
    <3>2. DOMAIN director.todo \subseteq Queue /\ director.server \in Server \cup {None}
          /\ \A p \in DOMAIN director.todo : director.todo[p] \in Profiles
      BY DEF Types, DirectorType
    <3> DEFINE todo == [p \in DOMAIN director.todo \ {q} |-> director.todo[p]]
    <3>3. todo \in [DOMAIN todo -> Profiles] /\ DOMAIN todo \subseteq Queue
      BY <3>2
    <3>4. /\ director'.todo = todo /\ director'.queue = director.todo[q]
          /\ director'.matches = made.matches /\ director'.match = None
          /\ director'.server = director.server
          /\ director' = [todo |-> director'.todo, queue |-> director'.queue,
                          matches |-> director'.matches, match |-> director'.match,
                          server |-> director'.server]
      BY <3>1
    <3> HIDE DEF todo
    <3> QED  BY <2>2, <3>1, <3>2, <3>3, <3>4 DEF DirectorType
  <2>4. ticket' \in [Ticket -> Tickets]
    <3>1. ticket' = [t \in Ticket |-> IF \E m \in made.matches : t \in m.tickets
                                      THEN [ticket[t] EXCEPT !.state = "pending"] ELSE ticket[t]]
      BY <2>1 DEF Effect
    <3>2. \A t \in Ticket : ticket[t] \in Tickets /\ [ticket[t] EXCEPT !.state = "pending"] \in Tickets
      BY DEF Types, Tickets
    <3> QED  BY <3>1, <3>2
  <2> QED  BY <1>1, <2>2, <2>3, <2>4 DEF try_fetch_matches_for_queue, Types
<1>2. CASE FetchFails(q)
  <2>1. DirectorType'
    BY <1>2, IdleType DEF FetchFails
  <2> QED  BY <1>2, <2>1 DEF FetchFails, Types
<1> QED  BY <1>1, <1>2

LEMMA TickTypes ==
    ASSUME Types, try_fetch_matches_for_all_queues \/ Rest \/ Crash
    PROVE  Types'
<1>1. CASE try_fetch_matches_for_all_queues
  <2> DEFINE todo == [q \in Registered |-> registry[q]]
  <2>1. todo \in [DOMAIN todo -> Profiles] /\ DOMAIN todo \subseteq Queue
    BY DEF Registered, Types
  <2>2. director' = [todo |-> todo, queue |-> None, matches |-> {}, match |-> None, server |-> None]
    BY <1>1 DEF try_fetch_matches_for_all_queues, Idle
  <2> HIDE DEF todo
  <2>3. DirectorType'
    BY <2>1, <2>2 DEF DirectorType
  <2> QED  BY <1>1, <2>3 DEF try_fetch_matches_for_all_queues, Types
<1>2. CASE Rest
  <2>1. DirectorType'
    BY <1>2, IdleType DEF Rest
  <2> QED  BY <1>2, <2>1 DEF Rest, Types
<1>3. CASE Crash
  <2>1. DirectorType'
    BY <1>3, IdleType DEF Crash
  <2>2. registry' \in [Queue -> Profiles \cup {None}] /\ faults' \in Nat
    BY <1>3 DEF Crash, Types
  <2> QED  BY <1>3, <2>1, <2>2 DEF Crash, Types
<1> QED  BY <1>1, <1>2, <1>3

LEMMA TakingType ==
    ASSUME Types, NEW m \in director.matches, NEW s \in Server, director' = Taking(m, s)
    PROVE  /\ DirectorType'
           /\ director'.todo = director.todo /\ director'.queue = director.queue
           /\ director'.matches = director.matches \ {m} /\ director'.match = m
           /\ director'.server = s
<1>1. /\ director = [todo |-> director.todo, queue |-> director.queue, matches |-> director.matches,
                     match |-> director.match, server |-> director.server]
      /\ director.todo \in [DOMAIN director.todo -> Profiles] /\ DOMAIN director.todo \subseteq Queue
      /\ director.queue \in Profiles \cup {None} /\ director.matches \subseteq Matches
  BY DEF Types, DirectorType
<1>2. director' = [todo |-> director.todo, queue |-> director.queue,
                   matches |-> director.matches \ {m}, match |-> m, server |-> s]
  BY <1>1 DEF Taking
<1> QED  BY <1>1, <1>2 DEF DirectorType

(* A match ends the tick, is given a server of its fleet, or goes on to the *)
(* server that reported its places.                                         *)
LEMMA AllocateOutcomes ==
    ASSUME NEW m \in Matches, try_allocate_match(m)
    PROVE  \/ director' = Idle /\ server' = server /\ faults' = faults
           \/ \E s \in Server : NeedsServer(m) /\ director' = Taking(m, s) /\ allocate_from_fleet(m, s)
           \/ \E s \in Server : /\ ~NeedsServer(m) /\ m.server = s /\ director' = Taking(m, s)
                              /\ server' = server /\ faults' = faults
<1>1. ~NeedsServer(m) /\ ~Unanswerable(m) => m.server \in Server
  BY DEF Unanswerable, Matches
<1> QED  BY <1>1 DEF try_allocate_match

LEMMA AllocateTypes ==
    ASSUME Types, HeldPlaced, NEW m \in director.matches, try_allocate_match(m)
    PROVE  Types'
<1>1. m \in Matches /\ director.queue \in Profiles
  BY DEF Types, DirectorType, HeldPlaced
<1>2. CASE director' = Idle /\ server' = server /\ faults' = faults
  <2>1. DirectorType'
    BY <1>2, IdleType
  <2> QED  BY <1>2, <2>1 DEF try_allocate_match, Types
<1>3. ASSUME NEW s \in Server, director' = Taking(m, s),
             allocate_from_fleet(m, s) \/ (server' = server /\ faults' = faults)
      PROVE  Types'
  <2>1. server' \in [Server -> GameServers] /\ faults' \in Nat
    <3>1. CASE allocate_from_fleet(m, s)
      BY <1>1, <3>1, AllocatedType
    <3>2. CASE server' = server /\ faults' = faults
      BY <3>2 DEF Types
    <3> QED  BY <1>3, <3>1, <3>2
  <2>2. DirectorType'
    BY <1>3, TakingType
  <2> QED  BY <2>1, <2>2 DEF try_allocate_match, Types
<1> QED  BY <1>1, <1>2, <1>3, AllocateOutcomes

LEMMA AssignTypes ==
    ASSUME Types, HeldPlaced, assign_tickets
    PROVE  Types'
<1>1. director.server \in Server /\ director.match # None
  BY DEF assign_tickets, HeldPlaced, Types, DirectorType
<1>2. ticket' \in [Ticket -> Tickets]
  <2>1. \A t \in Ticket : ticket[t] \in Tickets
           /\ [ticket[t] EXCEPT !.state = "assigned", !.server = director.server] \in Tickets
    BY <1>1 DEF Types, Tickets
  <2> QED  BY <2>1 DEF assign_tickets
<1>3. server' \in [Server -> GameServers]
  <2>1. \A used \in BOOLEAN : [server[director.server] EXCEPT !.used = @ \/ used] \in GameServers
    BY <1>1 DEF Types, GameServers
  <2>2. PICK used \in BOOLEAN : server' = [server EXCEPT ![director.server].used = @ \/ used]
    BY DEF assign_tickets
  <2> QED  BY <2>1, <2>2, <1>1 DEF Types
<1>4. DirectorType'
  <2>1. director' = [todo |-> director.todo, queue |-> director.queue, matches |-> director.matches,
                     match |-> None, server |-> None]
    BY DEF assign_tickets, Types, DirectorType
  <2> QED  BY <2>1 DEF Types, DirectorType
<1> QED  BY <1>2, <1>3, <1>4 DEF assign_tickets, Types

LEMMA CallFailsTypes ==
    ASSUME Types, HeldPlaced, CallFails
    PROVE  Types'
<1>1. DirectorType' /\ faults' \in Nat
  BY IdleType DEF CallFails, Types
<1>2. server' \in [Server -> GameServers]
  <2>1. CASE UNCHANGED server
    BY <2>1 DEF Types
  <2>2. ASSUME NEW m \in director.matches, NEW s \in Ready(director.queue.fleet),
               server' = [server EXCEPT ![s] = allocate(s, m)]
        PROVE  server' \in [Server -> GameServers]
    <3>1. s \in Server /\ m \in Matches /\ director.queue \in Profiles
      BY DEF Ready, HeldPlaced, Types, DirectorType
    <3>2. Given(s, "allocated", m) \in GameServers
      BY <3>1, GivenType
    <3> QED  BY <2>2, <3>1, <3>2 DEF allocate, Types
  <2> QED  BY <2>1, <2>2 DEF CallFails
<1> QED  BY <1>1, <1>2 DEF CallFails, Types

LEMMA TicketTypes ==
    ASSUME Types, NEW t \in Ticket,
           \/ \E q \in Queue : Queued(t, q)
           \/ Cancel(t) \/ Release(t) \/ onPlayerJoin(t) \/ onPlayerQuit(t)
    PROVE  Types'
<1>1. \A state \in {"active", "gone"} : [ticket[t] EXCEPT !.state = state] \in Tickets
  BY DEF Types, Tickets
<1>2. ASSUME NEW q \in Queue, Queued(t, q) PROVE Types'
  <2>1. [ticket[t] EXCEPT !.state = "active", !.queue = q] \in Tickets
    BY DEF Types, Tickets
  <2>2. ticket' \in [Ticket -> Tickets]
    BY <1>2, <2>1 DEF Queued, Types
  <2> QED  BY <1>2, <2>2 DEF Queued, Types, DirectorType
<1>3. CASE Cancel(t)
  <2>1. ticket' \in [Ticket -> Tickets] /\ leaves' \in Nat
    BY <1>1, <1>3 DEF Cancel, Types
  <2> QED  BY <1>3, <2>1 DEF Cancel, Types, DirectorType
<1>4. CASE Release(t)
  <2>1. ticket' \in [Ticket -> Tickets]
    BY <1>1, <1>4 DEF Release, Types
  <2> QED  BY <1>4, <2>1 DEF Release, Types, DirectorType
<1>5. \A s \in Server : /\ [server[s] EXCEPT !.state = "allocated"] \in GameServers
                        /\ [server[s] EXCEPT !.state = "ready", !.reopened = TRUE] \in GameServers
  BY DEF Types, GameServers
<1>6. CASE onPlayerJoin(t)
  <2>1. server' \in [Server -> GameServers]
    BY <1>5, <1>6 DEF onPlayerJoin, Types
  <2> QED  BY <1>6, <2>1 DEF onPlayerJoin, Types, DirectorType
<1>7. CASE onPlayerQuit(t)
  <2>1. server' \in [Server -> GameServers]
    <3>1. CASE UNCHANGED server
      BY <3>1 DEF Types
    <3>2. CASE server' = [server EXCEPT ![ticket[t].server].state = "ready",
                                        ![ticket[t].server].reopened = TRUE]
      <4>1. CASE ticket[t].server \in Server
        <5>1. server' = [server EXCEPT ![ticket[t].server] =
                            [server[ticket[t].server] EXCEPT !.state = "ready", !.reopened = TRUE]]
          BY <3>2, <4>1 DEF Types, GameServers
        <5> QED  BY <5>1, <4>1, <1>5 DEF Types
      <4>2. CASE ticket[t].server \notin Server
        BY <3>2, <4>2 DEF Types
      <4> QED  BY <4>1, <4>2
    <3> QED  BY <1>7, <3>1, <3>2 DEF onPlayerQuit
  <2>2. ticket' \in [Ticket -> Tickets] /\ leaves' \in Nat
    BY <1>1, <1>7 DEF onPlayerQuit, Types
  <2> QED  BY <1>7, <2>1, <2>2 DEF onPlayerQuit, Types, DirectorType
<1> QED  BY <1>2, <1>3, <1>4, <1>6, <1>7

LEMMA PlaceTypes ==
    ASSUME Types, BackfillsExist,
           \/ \E b \in Backfill : BackfillEnds(b)
           \/ \E s \in Server : Acknowledge(s) \/ Start(s)
    PROVE  Types'
<1>1. ASSUME NEW b \in Backfill, BackfillEnds(b) PROVE Types'
  <2>1. \A s \in Server : server[s] \in GameServers /\ [server[s] EXCEPT !.backfill = None] \in GameServers
    BY DEF Types, GameServers
  <2>2. server' \in [Server -> GameServers]
    BY <1>1, <2>1 DEF BackfillEnds
  <2>3. backfill' \in [Backfill -> FreePlaces \cup {None}]
    BY <1>1 DEF BackfillEnds, Types
  <2> QED  BY <1>1, <2>2, <2>3 DEF BackfillEnds, Types, DirectorType
<1>2. ASSUME NEW s \in Server, Acknowledge(s) PROVE Types'
  <2> DEFINE b == server[s].backfill
  <2>1. b \in Backfill /\ backfill \in [Backfill -> FreePlaces \cup {None}] /\ backfill[b] # None
    BY <1>2 DEF Acknowledge, Types, GameServers, BackfillsExist
  <2>2. backfill' = [backfill EXCEPT ![b].server = s]
    BY <1>2 DEF Acknowledge
  <2> HIDE DEF b
  <2>3. backfill[b] \in FreePlaces => [backfill[b] EXCEPT !.server = s] \in FreePlaces
    BY DEF FreePlaces
  <2>4. backfill' \in [Backfill -> FreePlaces \cup {None}]
    BY <2>1, <2>2, <2>3
  <2> QED  BY <1>2, <2>4 DEF Acknowledge, Types, DirectorType
<1>3. ASSUME NEW s \in Server, Start(s) PROVE Types'
  <2>1. [server[s] EXCEPT !.state = "ready"] \in GameServers
    BY DEF Types, GameServers
  <2>2. server' \in [Server -> GameServers]
    BY <1>3, <2>1 DEF Start, Types
  <2> QED  BY <1>3, <2>2 DEF Start, Types, DirectorType
<1> QED  BY <1>1, <1>2, <1>3

-----------------------------------------------------------------------------
(* Every step keeps apart what the director holds. *)

LEMMA HeldFacts ==
    ASSUME Types
    PROVE  /\ Held \subseteq Matches /\ director.matches \subseteq Held
           /\ director.match # None => director.match \in Held
           /\ \A m \in Held : m.tickets \subseteq Ticket /\ m.backfill \in Backfill \cup {None}
           /\ \A m \in Held : m \in director.matches \/ (director.match # None /\ m = director.match)
  BY DEF Types, DirectorType, Held, Matches

LEMMA IdleHeld ==
    ASSUME director' = Idle
    PROVE  /\ Held' = {} /\ HeldApart' /\ HeldPlaced' /\ MatchesFit'
           /\ director'.matches = {} /\ director'.match = None /\ director'.server = None
<1>1. director'.matches = {} /\ director'.match = None /\ director'.server = None
  BY DEF Idle
<1>2. Held' = {}
  BY <1>1 DEF Held
<1>3. HeldApart'
  BY <1>1, <1>2 DEF HeldApart
<1> QED  BY <1>1, <1>2, <1>3 DEF HeldPlaced, MatchesFit

LEMMA ApartKept ==
    ASSUME HeldApart, Held' \subseteq Held, director'.match \notin director'.matches,
           \A m \in Held' : \A t \in m.tickets :
               ticket'[t].state = "assigned" => ticket[t].state = "assigned"
    PROVE  HeldApart'
<1>1. \A m \in Held' : m.tickets # {} /\ \A t \in m.tickets : ticket'[t].state # "assigned"
  BY DEF HeldApart
<1>2. \A m, n \in Held' : m # n => m.tickets \cap n.tickets = {}
  BY DEF HeldApart
<1> QED  BY <1>1, <1>2 DEF HeldApart

\* The steps that leave the director alone.
Elsewhere ==
    \/ \E q \in Queue : Reconcile(q) \/ Edit(q) \/ Removed(q)
    \/ \E t \in Ticket : \/ \E q \in Queue : Queued(t, q)
                         \/ Cancel(t) \/ Release(t) \/ onPlayerJoin(t) \/ onPlayerQuit(t)
    \/ \E b \in Backfill : BackfillEnds(b)
    \/ \E s \in Server : Acknowledge(s) \/ Start(s)

LEMMA ElsewhereTickets ==
    ASSUME Types, Elsewhere
    PROVE  /\ director' = director
           /\ \A t \in Ticket : ticket'[t].state = "assigned" => ticket'[t] = ticket[t]
           /\ \A t \in Ticket : ticket'[t] # ticket[t] /\ ticket[t].state = "assigned" =>
                 ticket'[t].state = "gone"
           /\ \A t \in Ticket : ticket[t].state = "gone" => ticket'[t].state = "gone"
<1>1. ticket \in [Ticket -> Tickets]
  BY DEF Types
<1>2. ASSUME NEW q \in Queue, Reconcile(q) \/ Edit(q) \/ Removed(q)
      PROVE  director' = director /\ ticket' = ticket
  BY <1>2 DEF Reconcile, Edit, Removed
<1>3. ASSUME NEW b \in Backfill, BackfillEnds(b) PROVE director' = director /\ ticket' = ticket
  BY <1>3 DEF BackfillEnds
<1>4. ASSUME NEW s \in Server, Acknowledge(s) \/ Start(s)
      PROVE director' = director /\ ticket' = ticket
  BY <1>4 DEF Acknowledge, Start
<1>5. ASSUME NEW t \in Ticket,
             \/ \E q \in Queue : Queued(t, q)
             \/ Cancel(t) \/ Release(t) \/ onPlayerJoin(t) \/ onPlayerQuit(t)
      PROVE  /\ director' = director
             /\ \A u \in Ticket \ {t} : ticket'[u] = ticket[u]
             /\ ticket'[t].state = "assigned" => ticket'[t] = ticket[t]
             /\ ticket'[t] # ticket[t] /\ ticket[t].state = "assigned" => ticket'[t].state = "gone"
             /\ ticket[t].state = "gone" => ticket'[t].state = "gone"
  <2>1. ASSUME NEW q \in Queue, Queued(t, q)
        PROVE  /\ director' = director /\ ticket'[t].state = "active" /\ ticket[t].state = "new"
               /\ \A u \in Ticket \ {t} : ticket'[u] = ticket[u]
    BY <2>1, <1>1 DEF Queued, Tickets
  <2>2. CASE Cancel(t)
    BY <2>2, <1>1 DEF Cancel, Tickets
  <2>3. CASE Release(t)
    BY <2>3, <1>1 DEF Release, Tickets
  <2>4. CASE onPlayerJoin(t)
    BY <2>4 DEF onPlayerJoin
  <2>5. CASE onPlayerQuit(t)
    BY <2>5, <1>1 DEF onPlayerQuit, Tickets
  <2> QED  BY <1>5, <2>1, <2>2, <2>3, <2>4, <2>5
<1> QED  BY <1>2, <1>3, <1>4, <1>5 DEF Elsewhere

LEMMA ElsewhereHeld ==
    ASSUME Types, HeldApart, HeldPlaced, Elsewhere
    PROVE  Held' = Held /\ HeldApart' /\ HeldPlaced'
<1>1. director' = director
  BY ElsewhereTickets
<1>2. Held' = Held
  BY <1>1 DEF Held
<1>3. \A m \in Held : \A t \in m.tickets :
          ticket'[t].state = "assigned" => ticket[t].state = "assigned"
  BY HeldFacts, ElsewhereTickets
<1>4. director'.match \notin director'.matches
  BY <1>1 DEF HeldApart
<1> QED  BY <1>1, <1>2, <1>3, <1>4, ApartKept DEF HeldPlaced

LEMMA FetchHeld ==
    ASSUME Types, HeldPlaced, BackfillsExist, NEW q \in Queue, try_fetch_matches_for_queue(q)
    PROVE  HeldApart' /\ HeldPlaced' /\ BackfillsExist' /\ MatchesFit'
<1>1. PICK b, made : Effect(q, b, made)
  BY Fetched
<1>2. /\ director'.matches = made.matches /\ director'.match = None
      /\ director'.queue = director.todo[q] /\ director'.server = director.server
      /\ director.todo[q] \in Profiles
  BY <1>1 DEF Effect
<1>3. director.match = None /\ server' = server
  BY DEF try_fetch_matches_for_queue, BetweenQueues
<1>4. Held' = made.matches
  <2>1. None \notin made.matches
    BY <1>1, FetchFacts, NoneFacts
  <2> QED  BY <1>2 DEF Held
<1>5. /\ \A m \in made.matches : m \in Matches /\ m.tickets # {} /\ m.tickets \subseteq Waiting(q)
      /\ Apart(made.matches)
  BY <1>1, FetchFacts
<1>6. \A m \in made.matches : \A t \in m.tickets : ticket'[t].state = "pending"
  <2>1. \A t \in Waiting(q) : t \in Ticket /\ ticket[t] \in Tickets
    BY DEF Waiting, Types
  <2>2. ticket' = [t \in Ticket |-> IF \E m \in made.matches : t \in m.tickets
                                    THEN [ticket[t] EXCEPT !.state = "pending"] ELSE ticket[t]]
    BY <1>1 DEF Effect
  <2> QED  BY <2>1, <2>2, <1>5 DEF Tickets
<1>7. HeldApart'
  <2>1. director'.match \notin director'.matches
    BY <1>2, <1>5, NoneFacts
  <2> QED  BY <2>1, <1>4, <1>5, <1>6 DEF HeldApart, Apart
<1>8. HeldPlaced'
  BY <1>2, <1>3 DEF HeldPlaced
<1>9. BackfillsExist'
  <2>1. \A p \in Backfill : backfill[p] # None => backfill'[p] # None
    <3>1. backfill[b] = None
      BY <1>1 DEF Effect
    <3>2. \A p \in Backfill \ {b} : backfill[p] # None => backfill'[p] # None
      BY <1>1, FetchFacts
    <3> QED  BY <3>1, <3>2
  <2>2. ASSUME NEW m \in made.matches, m.backfill # None PROVE backfill'[m.backfill] # None
    <3>1. CASE m.fresh
      BY <3>1, <1>1, FetchFacts
    <3>2. CASE ~m.fresh
      <4>1. ~NeedsServer(m)
        BY <2>2, <3>2 DEF NeedsServer
      <4>2. m.backfill \in Places(q)
        BY <4>1, <1>1, FetchFacts
      <4> QED  BY <4>2, <2>1 DEF Places
    <3> QED  BY <3>1, <3>2
  <2>3. \A s \in Server : server[s].backfill \in Backfill \cup {None}
    BY DEF Types, GameServers
  <2> QED  BY <2>1, <2>2, <2>3, <1>3, <1>4 DEF BackfillsExist
<1>10. MatchesFit'
  <2> SUFFICES ASSUME NEW m \in made.matches, NeedsServer(m)
               PROVE  Cardinality(m.tickets) + (SlotsIn(m.backfill))' <= director.todo[q].max
    BY <1>2 DEF MatchesFit, NeedsServer
  <2>1. director.todo[q].max \in Nat
    BY <1>2 DEF Profiles
  <2>2. CASE m.fresh
    <3>0. b \in Backfill
      BY <1>1 DEF Effect
    <3>1. /\ m.backfill = b /\ b \in Backfill
          /\ Cardinality(m.tickets) + backfill'[b].slots = director.todo[q].max
      BY <2>2, <3>0, <1>1, FetchFacts
    <3>2. (SlotsIn(m.backfill))' = backfill'[b].slots
      BY <3>1, NoneFacts DEF SlotsIn
    <3> QED  BY <2>1, <3>1, <3>2
  <2>3. CASE ~m.fresh
    <3>1. m.backfill = None /\ Cardinality(m.tickets) = director.todo[q].max
      BY <2>3, <1>1, FetchFacts
    <3>2. (SlotsIn(m.backfill))' = 0
      BY <3>1 DEF SlotsIn
    <3> QED  BY <2>1, <3>1, <3>2
  <2> QED  BY <2>2, <2>3
<1> QED  BY <1>7, <1>8, <1>9, <1>10

LEMMA AllocateHeld ==
    ASSUME Types, HeldApart, HeldPlaced, NEW m \in director.matches, try_allocate_match(m)
    PROVE  Held' \subseteq Held /\ HeldApart' /\ HeldPlaced' /\ director'.matches \subseteq director.matches
<1>1. m \in Matches /\ director.match = None /\ director.queue \in Profiles /\ ticket' = ticket
  BY DEF try_allocate_match, Types, DirectorType, HeldPlaced
<1>2. CASE director' = Idle
  BY <1>2, IdleHeld
<1>3. ASSUME NEW s \in Server, director' = Taking(m, s)
      PROVE  Held' \subseteq Held /\ HeldApart' /\ HeldPlaced' /\ director'.matches \subseteq director.matches
  <2>1. /\ director'.matches = director.matches \ {m} /\ director'.match = m
        /\ director'.server = s /\ director'.queue = director.queue
    BY <1>3, TakingType
  <2>2. m # None /\ s # None
    BY <1>1, NoneFacts
  <2>3. Held' = Held
    BY <2>1, <2>2, <1>1 DEF Held
  <2>4. HeldApart'
    BY <2>1, <2>3, <1>1, ApartKept
  <2> QED  BY <2>1, <2>2, <2>3, <2>4, <1>1 DEF HeldPlaced
<1>4. director' = Idle \/ \E s \in Server : director' = Taking(m, s)
  BY <1>1, AllocateOutcomes
<1> QED  BY <1>2, <1>3, <1>4

LEMMA AssignHeld ==
    ASSUME Types, HeldApart, HeldPlaced, assign_tickets
    PROVE  /\ Held' = director.matches /\ HeldApart' /\ HeldPlaced'
           /\ director'.matches = director.matches /\ director'.queue = director.queue
           /\ director'.match = None /\ director'.server = None
<1>1. /\ director.match # None /\ director.match \in Held /\ director.server \in Server
  BY HeldFacts DEF assign_tickets, HeldPlaced, Types, DirectorType
<1>2. /\ director'.matches = director.matches /\ director'.queue = director.queue
      /\ director'.match = None /\ director'.server = None
  BY DEF assign_tickets, Types, DirectorType
<1>3. director.matches \subseteq Matches /\ None \notin director.matches
  BY NoneFacts DEF Types, DirectorType
<1>4. Held' = director.matches
  BY <1>2, <1>3 DEF Held
<1>5. ASSUME NEW m \in director.matches, NEW t \in m.tickets
      PROVE  ticket'[t].state = "assigned" => ticket[t].state = "assigned"
  <2>1. t \in Ticket /\ m \in Held /\ m # director.match
    BY HeldFacts DEF HeldApart
  <2>2. t \notin director.match.tickets
    BY <2>1, <1>1 DEF HeldApart
  <2>3. ticket'[t] = ticket[t]
    BY <2>1, <2>2 DEF assign_tickets
  <2> QED  BY <2>3
<1>6. HeldApart'
  <2>1. Held' \subseteq Held /\ director'.match \notin director'.matches
    BY <1>2, <1>3, <1>4, HeldFacts
  <2> QED  BY <2>1, <1>4, <1>5, ApartKept
<1>7. HeldPlaced'
  BY <1>2 DEF HeldPlaced
<1> QED  BY <1>2, <1>4, <1>6, <1>7

-----------------------------------------------------------------------------
(* Every step leaves room on the servers. *)

LEMMA SlotsType ==
    ASSUME Types, BackfillsExist
    PROVE  /\ \A s \in Server : SlotsIn(server[s].backfill) \in Nat
           /\ \A m \in Held : SlotsIn(m.backfill) \in Nat
<1>1. \A b \in Backfill : backfill[b] # None => backfill[b].slots \in Nat
  BY DEF Types, FreePlaces
<1>2. \A s \in Server : server[s].backfill \in Backfill \cup {None}
  BY DEF Types, GameServers
<1>3. \A m \in Held : m.backfill \in Backfill \cup {None}
  BY HeldFacts
<1> QED  BY <1>1, <1>2, <1>3 DEF SlotsIn, BackfillsExist

LEMMA RoomTypes ==
    ASSUME Types, NEW s \in Server
    PROVE  /\ Sent(s) \subseteq Ticket /\ Coming(s) \subseteq Ticket
           /\ IsFiniteSet(Sent(s) \cup Coming(s)) /\ Cardinality(Sent(s) \cup Coming(s)) \in Nat
           /\ server[s].cap \in Nat /\ server[s].backfill \in Backfill \cup {None}
<1>1. Sent(s) \subseteq Ticket /\ Coming(s) \subseteq Ticket
  BY DEF Sent, Coming
<1>2. IsFiniteSet(Sent(s) \cup Coming(s)) /\ Cardinality(Sent(s) \cup Coming(s)) \in Nat
  <2> DEFINE S == Sent(s) \cup Coming(s)
  <2>1. S \subseteq Ticket
    BY <1>1
  <2> HIDE DEF S
  <2>2. IsFiniteSet(S) /\ Cardinality(S) \in Nat
    BY <2>1, TicketsFinite
  <2> QED  BY <2>2 DEF S
<1> QED  BY <1>1, <1>2 DEF Types, GameServers

\* A server that is left alone, when nobody more is on the way to it.
LEMMA RoomKept ==
    ASSUME Types, Types', BackfillsExist, BackfillsExist', NEW s \in Server, RoomLeft(s),
           server'[s].state = server[s].state, server'[s].cap = server[s].cap,
           server'[s].used = server[s].used \/ server[s].state = "allocated",
           server'[s].backfill = server[s].backfill \/ server'[s].backfill = None,
           (Sent(s) \cup Coming(s))' \subseteq Sent(s) \cup Coming(s),
           (SlotsIn(server[s].backfill))' <= SlotsIn(server[s].backfill),
           \A b \in Backfill : backfill'[b] # None /\ backfill'[b].server = s => server'[s].backfill = b,
           \A m \in director'.matches : ~NeedsServer(m) /\ m.server = s => server'[s].backfill = m.backfill
    PROVE  RoomLeft(s)'
<1>1. /\ Cardinality(Sent(s) \cup Coming(s)) \in Nat
      /\ Cardinality((Sent(s) \cup Coming(s))') \in Nat
      /\ Cardinality((Sent(s) \cup Coming(s))') <= Cardinality(Sent(s) \cup Coming(s))
  <2>1. IsFiniteSet(Sent(s) \cup Coming(s)) /\ Cardinality(Sent(s) \cup Coming(s)) \in Nat
    BY RoomTypes
  <2> QED  BY <2>1, FS_Subset, FS_CardinalityType
<1>2. SlotsIn(server[s].backfill) \in Nat /\ server[s].cap \in Nat
  BY SlotsType, RoomTypes
<1>3. (SlotsIn(server[s].backfill))' \in Nat
  <2>1. \A b \in Backfill : backfill'[b] # None => backfill'[b].slots \in Nat
    BY DEF Types, FreePlaces
  <2>2. server'[s].backfill \in Backfill \cup {None}
    BY DEF Types, GameServers
  <2> QED  BY <2>1, <2>2 DEF SlotsIn, BackfillsExist
<1>4. Cardinality((Sent(s) \cup Coming(s))') + (SlotsIn(server[s].backfill))' <= server'[s].cap
  <2> DEFINE n == Cardinality(Sent(s) \cup Coming(s))
             k == Cardinality((Sent(s) \cup Coming(s))')
             x == SlotsIn(server[s].backfill)
             y == (SlotsIn(server[s].backfill))'
  <2>1. n + x <= server[s].cap
    BY DEF RoomLeft
  <2>2. y <= x /\ server'[s].cap = server[s].cap
    OBVIOUS
  <2> HIDE DEF n, k, x, y
  <2>3. k \in Nat /\ n \in Nat /\ k <= n /\ x \in Nat /\ y \in Nat /\ server[s].cap \in Nat
    BY <1>1, <1>2, <1>3 DEF n, k, x, y
  <2>4. k + y <= server'[s].cap
    BY <2>1, <2>2, <2>3
  <2> QED  BY <2>4 DEF k, y
<1>5. server'[s].state \in {"none", "ready"} => (Untouched(s))' /\ (Sent(s) \cup Coming(s))' = {}
  BY DEF RoomLeft, Untouched
<1>6. server'[s].state # "starting"
  BY DEF RoomLeft
<1> HIDE DEF SlotsIn, Sent, Coming
<1> QED  BY <1>4, <1>5, <1>6 DEF RoomLeft, NeedsServer

\* A ready server that is allocated for a match.
LEMMA RoomGiven ==
    ASSUME Types, HeldApart, HeldPlaced, BackfillsExist, MatchesFit, NEW s \in Server,
           RoomLeft(s), server[s].state = "ready",
           NEW m \in director.matches, NeedsServer(m),
           server'[s] = Given(s, "allocated", m), backfill' = backfill, ticket' = ticket,
           director'.matches \subseteq director.matches,
           (Coming(s))' \subseteq m.tickets
    PROVE  RoomLeft(s)'
<1>1. m \in Matches /\ m \in Held /\ director.queue \in Profiles
  BY HeldFacts DEF HeldPlaced
<1>2. Untouched(s) /\ Sent(s) \cup Coming(s) = {}
  BY DEF RoomLeft
<1>3. /\ server'[s].state = "allocated" /\ server'[s].cap = director.queue.max
      /\ server'[s].backfill = m.backfill
  BY <1>1, <1>2, GivenType DEF Untouched
<1>4. (Sent(s))' = {}
  BY <1>2 DEF Sent
<1>5. (Sent(s) \cup Coming(s))' \subseteq m.tickets
  BY <1>4
<1>6. /\ Cardinality(m.tickets) \in Nat /\ Cardinality((Sent(s) \cup Coming(s))') \in Nat
      /\ Cardinality((Sent(s) \cup Coming(s))') <= Cardinality(m.tickets)
  <2>1. IsFiniteSet(m.tickets) /\ Cardinality(m.tickets) \in Nat
    BY <1>1, TicketsFinite, HeldFacts
  <2> QED  BY <2>1, <1>5, FS_Subset, FS_CardinalityType
<1>7. (SlotsIn(server[s].backfill))' = SlotsIn(m.backfill) /\ SlotsIn(m.backfill) \in Nat
  BY <1>1, <1>3, SlotsType DEF SlotsIn
<1>8. Cardinality(m.tickets) + SlotsIn(m.backfill) <= director.queue.max /\ director.queue.max \in Nat
  BY <1>1 DEF MatchesFit, Profiles
<1>9. Cardinality((Sent(s) \cup Coming(s))') + (SlotsIn(server[s].backfill))' <= server'[s].cap
  <2> DEFINE k == Cardinality((Sent(s) \cup Coming(s))')
             n == Cardinality(m.tickets)
             x == SlotsIn(m.backfill)
  <2> HIDE DEF k, n, x
  <2>1. k \in Nat /\ n \in Nat /\ x \in Nat /\ k <= n /\ n + x <= director.queue.max
    BY <1>6, <1>7, <1>8 DEF k, n, x
  <2>2. k + x <= server'[s].cap
    BY <2>1, <1>3, <1>8
  <2> QED  BY <2>2, <1>7 DEF k, x
<1>10. \A b \in Backfill : ~(backfill'[b] # None /\ backfill'[b].server = s)
  BY <1>2, NoneFacts DEF RoomLeft, Untouched
<1>11. \A n \in director'.matches : ~(~NeedsServer(n) /\ n.server = s)
  <2> SUFFICES ASSUME NEW n \in director.matches, ~NeedsServer(n), n.server = s PROVE FALSE
    OBVIOUS
  <2>1. n \in Held /\ n.tickets # {} /\ n.tickets \subseteq Ticket
    BY HeldFacts DEF HeldApart
  <2>2. n.tickets \subseteq Coming(s)
    BY <2>1 DEF Coming
  <2> QED  BY <2>1, <2>2, <1>2
<1> HIDE DEF SlotsIn, Sent, Coming
<1> QED  BY <1>3, <1>9, <1>10, <1>11 DEF RoomLeft, NeedsServer

\* Steps that leave the servers, the backfills and the assigned tickets alone.
LEMMA RoomUntouched ==
    ASSUME Types, Types', BackfillsExist, BackfillsExist', Room,
           server' = server, backfill' = backfill,
           \A s \in Server : (Sent(s))' \subseteq Sent(s) /\ (Coming(s))' \subseteq Coming(s),
           director'.matches \subseteq director.matches
    PROVE  Room'
<1> SUFFICES ASSUME NEW s \in Server, Counted(s)' PROVE RoomLeft(s)'
  BY DEF Room
<1>1. RoomLeft(s)
  BY DEF Room, Counted
<1>2. (Sent(s) \cup Coming(s))' \subseteq Sent(s) \cup Coming(s)
  OBVIOUS
<1>3. (SlotsIn(server[s].backfill))' = SlotsIn(server[s].backfill)
      /\ SlotsIn(server[s].backfill) \in Nat
  BY SlotsType DEF SlotsIn
<1>4. \A b \in Backfill : backfill'[b] # None /\ backfill'[b].server = s => server'[s].backfill = b
  BY <1>1 DEF RoomLeft
<1>5. \A m \in director'.matches : ~NeedsServer(m) /\ m.server = s => server'[s].backfill = m.backfill
  BY <1>1 DEF RoomLeft
<1>6. (SlotsIn(server[s].backfill))' <= SlotsIn(server[s].backfill)
  BY <1>3
<1> HIDE DEF Sent, Coming, SlotsIn
<1> QED  BY <1>1, <1>2, <1>4, <1>5, <1>6, RoomKept

LEMMA IdleRoom ==
    ASSUME Types, Types', BackfillsExist, BackfillsExist', Room,
           director' = Idle, server' = server, backfill' = backfill, ticket' = ticket
    PROVE  Room'
<1>1. director'.matches = {} /\ director'.match = None
  BY IdleHeld
<1>2. \A s \in Server : (Sent(s))' = Sent(s) /\ (Coming(s))' = {}
  BY <1>1 DEF Sent, Coming
<1> QED  BY <1>1, <1>2, RoomUntouched

LEMMA FetchRoom ==
    ASSUME Types, Types', HeldPlaced, BackfillsExist, BackfillsExist', Room,
           NEW q \in Queue, try_fetch_matches_for_queue(q)
    PROVE  Room'
<1>1. PICK b, made : Effect(q, b, made)
  BY Fetched
<1>2. b \in Backfill /\ backfill[b] = None /\ director'.matches = made.matches /\ director'.match = None
  BY <1>1 DEF Effect
<1>3. server' = server
  BY DEF try_fetch_matches_for_queue
<1>4. /\ \A m \in made.matches : m \in Matches /\ m.tickets # {} /\ m.tickets \subseteq Waiting(q)
      /\ \A m \in made.matches : ~NeedsServer(m) =>
            /\ m.backfill \in Places(q) /\ m.server = backfill[m.backfill].server
            /\ Cardinality(m.tickets) + backfill'[m.backfill].slots = backfill[m.backfill].slots
      /\ \A m, n \in made.matches :
            m # n /\ ~NeedsServer(m) /\ ~NeedsServer(n) => m.backfill # n.backfill
      /\ \A p \in Backfill \ {b} : backfill[p] = None => backfill'[p] = None
      /\ \A p \in Backfill \ {b} : backfill[p] # None =>
            /\ backfill'[p] # None /\ backfill'[p].server = backfill[p].server
            /\ backfill'[p].slots <= backfill[p].slots
      /\ backfill'[b] # None => backfill'[b].server = None
  BY <1>1, FetchFacts
<1>5. \A t \in Ticket : ticket[t].state = "assigned" \/ ticket'[t].state = "assigned" => ticket'[t] = ticket[t]
  <2>1. ticket' = [t \in Ticket |-> IF \E m \in made.matches : t \in m.tickets
                                    THEN [ticket[t] EXCEPT !.state = "pending"] ELSE ticket[t]]
    BY <1>1 DEF Effect
  <2>2. \A m \in made.matches : \A t \in m.tickets : ticket[t].state = "active"
    BY <1>4 DEF Waiting
  <2>3. \A t \in Ticket : ticket[t] \in Tickets
    BY DEF Types
  <2> QED  BY <2>1, <2>2, <2>3 DEF Tickets
<1> SUFFICES ASSUME NEW s \in Server, Counted(s)' PROVE RoomLeft(s)'
  BY DEF Room
<1>6. RoomLeft(s)
  BY <1>3 DEF Room, Counted
<1>7. (Sent(s))' = Sent(s)
  BY <1>5 DEF Sent
<1>8. (Coming(s))' = {t \in Ticket : \E m \in made.matches : ~NeedsServer(m) /\ m.server = s /\ t \in m.tickets}
  BY <1>2 DEF Coming, NeedsServer
<1>9. server[s].backfill \in Backfill \cup {None} /\ server[s].backfill # b
  BY <1>2, RoomTypes, NoneFacts DEF BackfillsExist
<1>10. \A p \in Backfill : backfill'[p] # None /\ backfill'[p].server = s => server'[s].backfill = p
  BY <1>3, <1>4, <1>6, NoneFacts DEF RoomLeft
<1>11. \A m \in made.matches : ~NeedsServer(m) /\ m.server = s => server[s].backfill = m.backfill
  BY <1>4, <1>6 DEF RoomLeft, Places
<1>12. CASE \E m \in made.matches : ~NeedsServer(m) /\ m.server = s
  <2>1. PICK m \in made.matches : ~NeedsServer(m) /\ m.server = s
    BY <1>12
  <2>2. server[s].backfill = m.backfill /\ m.backfill \in Backfill /\ backfill[m.backfill] # None
    BY <1>4, <1>11, <2>1 DEF Places
  <2>3. (Coming(s))' = m.tickets
    <3>1. \A n \in made.matches : ~NeedsServer(n) /\ n.server = s => n = m
      BY <1>4, <1>11, <2>1, <2>2
    <3>2. m.tickets \subseteq Ticket
      BY <1>4 DEF Waiting
    <3> QED  BY <1>8, <2>1, <3>1, <3>2
  <2>4. server[s].state \notin {"none", "ready", "starting"}
    BY <1>6, <2>2, NoneFacts DEF RoomLeft, Untouched
  <2> DEFINE x == backfill[m.backfill].slots
             y == backfill'[m.backfill].slots
             k == Cardinality(m.tickets)
             n == Cardinality(Sent(s))
             c == Cardinality(Sent(s) \cup Coming(s))
             d == Cardinality(Sent(s) \cup m.tickets)
  <2>5. /\ SlotsIn(server[s].backfill) = x /\ (SlotsIn(server[s].backfill))' = y
        /\ k + y = x
    BY <1>3, <1>4, <2>1, <2>2, NoneFacts DEF SlotsIn
  <2>6. x \in Nat /\ y \in Nat
    <3>1. backfill[m.backfill] \in FreePlaces /\ backfill'[m.backfill] \in FreePlaces
      BY <1>2, <1>4, <2>2 DEF Types
    <3> QED  BY <3>1 DEF FreePlaces
  <2>7. /\ n \in Nat /\ k \in Nat /\ c \in Nat /\ n <= c /\ d \in Nat /\ d <= n + k
    <3>1. IsFiniteSet(Sent(s)) /\ IsFiniteSet(m.tickets) /\ n \in Nat /\ k \in Nat
      <4>1. Sent(s) \subseteq Ticket /\ m.tickets \subseteq Ticket
        BY <1>4 DEF Sent, Waiting
      <4> QED  BY <4>1, TicketsFinite
    <3>2. d = n + k - Cardinality(Sent(s) \cap m.tickets) /\ IsFiniteSet(Sent(s) \cup m.tickets)
      BY <3>1, FS_Union
    <3>3. Cardinality(Sent(s) \cap m.tickets) \in Nat /\ d \in Nat
      BY <3>1, <3>2, FS_Intersection, FS_CardinalityType
    <3>4. c \in Nat /\ n <= c
      BY RoomTypes, FS_Subset
    <3> HIDE DEF d, n, k, c
    <3> QED  BY <3>1, <3>2, <3>3, <3>4
  <2>8. c + x <= server[s].cap /\ server[s].cap \in Nat
    BY <1>6, <2>5, RoomTypes DEF RoomLeft
  <2>9. Cardinality((Sent(s) \cup Coming(s))') = d
    BY <1>7, <2>3
  <2> HIDE DEF x, y, k, n, c, d
  <2>10. d + y <= server[s].cap
    BY <2>5, <2>6, <2>7, <2>8
  <2>11. Cardinality((Sent(s) \cup Coming(s))') + (SlotsIn(server[s].backfill))' <= server'[s].cap
    BY <1>3, <2>5, <2>9, <2>10
  <2>12. \A o \in director'.matches : ~NeedsServer(o) /\ o.server = s => server'[s].backfill = o.backfill
    BY <1>2, <1>3, <1>11
  <2> HIDE DEF SlotsIn, Sent, Coming
  <2> QED  BY <1>3, <1>10, <2>4, <2>11, <2>12 DEF RoomLeft, NeedsServer
<1>13. CASE ~ \E m \in made.matches : ~NeedsServer(m) /\ m.server = s
  <2>1. (Sent(s) \cup Coming(s))' \subseteq Sent(s) \cup Coming(s)
    BY <1>7, <1>8, <1>13
  <2>2. (SlotsIn(server[s].backfill))' <= SlotsIn(server[s].backfill)
    BY <1>3, <1>4, <1>9 DEF SlotsIn, BackfillsExist
  <2>3. \A m \in director'.matches : ~NeedsServer(m) /\ m.server = s => server'[s].backfill = m.backfill
    BY <1>2, <1>13
  <2> HIDE DEF Sent, Coming, SlotsIn
  <2> QED  BY <1>3, <1>6, <1>10, <2>1, <2>2, <2>3, RoomKept
<1> QED  BY <1>12, <1>13

LEMMA CountedBefore ==
    ASSUME Types, director.queue \in Profiles, NEW m \in Matches, NEW s \in Server,
           server'[s] = Given(s, "allocated", m), Counted(s)'
    PROVE  Counted(s)
<1>1. Given(s, "allocated", m).reopened = server[s].reopened
      /\ Given(s, "allocated", m).summoned = (server[s].summoned \/ "allocated" = "starting")
  BY GivenType
<1>2. ~Given(s, "allocated", m).summoned /\ ~Given(s, "allocated", m).reopened
  BY DEF Counted
<1>3. ~server[s].summoned
  BY <1>1, <1>2, Zenon
<1>4. ~server[s].reopened
  BY <1>1, <1>2, Zenon
<1> QED  BY <1>3, <1>4 DEF Counted

LEMMA AllocateRoom ==
    ASSUME Types, Types', HeldApart, HeldPlaced, BackfillsExist, BackfillsExist', MatchesFit, Room,
           NEW m \in director.matches, try_allocate_match(m)
    PROVE  Room'
<1>1. /\ m \in Matches /\ m \in Held /\ director.match = None /\ director.queue \in Profiles
      /\ ticket' = ticket /\ backfill' = backfill
  BY HeldFacts DEF try_allocate_match, HeldPlaced
<1>2. \A s \in Server : (Sent(s))' = Sent(s)
  BY <1>1 DEF Sent
<1>3. CASE director' = Idle /\ server' = server
  BY <1>1, <1>3, IdleRoom
<1>4. ASSUME NEW s \in Server, ~NeedsServer(m), m.server = s, director' = Taking(m, s), server' = server
      PROVE  Room'
  <2>1. /\ director'.matches = director.matches \ {m} /\ director'.match = m /\ director'.server = s
    BY <1>4, TakingType
  <2>2. \A z \in Server : (Coming(z))' \subseteq Coming(z)
    BY <1>4, <2>1 DEF Coming, NeedsServer
  <2> QED  BY <1>1, <1>2, <1>4, <2>1, <2>2, RoomUntouched
<1>5. ASSUME NEW s \in Server, NeedsServer(m), director' = Taking(m, s), allocate_from_fleet(m, s)
      PROVE  Room'
  <2>1. /\ director'.matches = director.matches \ {m} /\ director'.match = m /\ director'.server = s
    BY <1>5, TakingType
  <2>2. \A z \in Server \ {s} : (Coming(z))' \subseteq Coming(z)
    BY <2>1 DEF Coming, NeedsServer
  <2>3. Untouched(s) /\ Coming(s) = {} => (Coming(s))' \subseteq m.tickets
    BY <2>1 DEF Coming, NeedsServer
  <2>4. ASSUME NEW z \in Server, Counted(z), z # s, server'[z] = server[z] PROVE RoomLeft(z)'
    <3>1. RoomLeft(z)
      BY <2>4 DEF Room
    <3>2. (Sent(z) \cup Coming(z))' \subseteq Sent(z) \cup Coming(z)
      BY <1>2, <2>2, <2>4
    <3>3. (SlotsIn(server[z].backfill))' <= SlotsIn(server[z].backfill)
      <4>1. (SlotsIn(server[z].backfill))' = SlotsIn(server[z].backfill)
        BY <1>1, <2>4 DEF SlotsIn
      <4> QED  BY <4>1, SlotsType
    <3>4. /\ \A b \in Backfill : backfill'[b] # None /\ backfill'[b].server = z => server'[z].backfill = b
          /\ \A n \in director'.matches : ~NeedsServer(n) /\ n.server = z => server'[z].backfill = n.backfill
      BY <1>1, <2>1, <2>4, <3>1 DEF RoomLeft
    <3> HIDE DEF Sent, Coming, SlotsIn
    <3> QED  BY <2>4, <3>1, <3>2, <3>3, <3>4, RoomKept
  <2>5. ASSUME NEW z \in Server, Counted(z), z \in Ready(director.queue.fleet),
               server'[z] = Given(z, "allocated", m)
        PROVE  RoomLeft(z)'
    <3>1. RoomLeft(z) /\ server[z].state = "ready"
      BY <2>5 DEF Room, Ready
    <3>2. Untouched(z) /\ Coming(z) = {}
      BY <3>1 DEF RoomLeft
    <3>3. (Coming(z))' \subseteq m.tickets
      BY <2>2, <2>3, <3>2
    <3>4. director'.matches \subseteq director.matches
      BY <2>1
    <3> QED  BY <1>1, <1>5, <2>5, <3>1, <3>3, <3>4, RoomGiven
  <2>6. \A z \in Server : server[z] \in GameServers
    BY DEF Types
  <2>7. ASSUME NEW z \in Server, server'[z] = Given(z, "allocated", m), Counted(z)'
        PROVE  Counted(z)
    BY <1>1, <2>7, CountedBefore
  <2>8. ASSUME NEW z \in Server, server'[z] = Given(z, "starting", m) PROVE ~Counted(z)'
    BY <1>1, <2>8, GivenType DEF Counted
  <2> SUFFICES ASSUME NEW z \in Server, Counted(z)' PROVE RoomLeft(z)'
    BY DEF Room
  <2>9. server \in [Server -> GameServers]
    BY DEF Types
  <2>10. CASE s \in Ready(director.queue.fleet) /\ server' = [server EXCEPT ![s] = Given(s, "allocated", m)]
    <3>1. CASE z = s
      BY <2>5, <2>7, <2>9, <2>10, <3>1
    <3>2. CASE z # s
      <4>1. server'[z] = server[z] /\ Counted(z)
        BY <2>9, <2>10, <3>2 DEF Counted
      <4> QED  BY <4>1, <2>4, <3>2
    <3> QED  BY <3>1, <3>2
  <2>11. CASE server' = [server EXCEPT ![s] = Given(s, "starting", m)]
    <3>1. CASE z = s
      BY <2>8, <2>9, <2>11, <3>1
    <3>2. CASE z # s
      <4>1. server'[z] = server[z] /\ Counted(z)
        BY <2>9, <2>11, <3>2 DEF Counted
      <4> QED  BY <4>1, <2>4, <3>2
    <3> QED  BY <3>1, <3>2
  <2>12. ASSUME NEW lost \in Ready(director.queue.fleet), lost \in Server, lost # s,
                server' = [server EXCEPT ![lost] = Given(lost, "allocated", m),
                                         ![s] = Given(s, "starting", m)]
         PROVE  RoomLeft(z)'
    <3>1. CASE z = s
      BY <2>8, <2>9, <2>12, <3>1
    <3>2. CASE z = lost
      <4>1. server'[z] = Given(z, "allocated", m) /\ z \in Ready(director.queue.fleet)
        BY <2>9, <2>12, <3>2
      <4> QED  BY <4>1, <2>5, <2>7
    <3>3. CASE z # s /\ z # lost
      <4>1. server'[z] = server[z] /\ Counted(z)
        BY <2>9, <2>12, <3>3 DEF Counted
      <4> QED  BY <4>1, <2>4, <3>3
    <3> QED  BY <3>1, <3>2, <3>3
  <2> QED  BY <1>1, <1>5, <2>10, <2>11, <2>12, Allocated
<1> QED  BY <1>1, <1>3, <1>4, <1>5, AllocateOutcomes

LEMMA AssignRoom ==
    ASSUME Types, Types', HeldApart, HeldPlaced, BackfillsExist, BackfillsExist', Room, assign_tickets
    PROVE  Room'
<1>1. /\ director'.matches = director.matches /\ director'.match = None /\ backfill' = backfill
      /\ director.match # None /\ director.match \in Held /\ director.server \in Server
  BY AssignHeld, HeldFacts DEF assign_tickets, HeldPlaced, Types, DirectorType
<1>2. /\ server \in [Server -> GameServers] /\ ticket \in [Ticket -> Tickets]
  BY DEF Types
<1> DEFINE there == {t \in director.match.tickets : ticket[t].state # "gone"}
<1>3. /\ server' = [server EXCEPT ![director.server].used = @ \/ there # {}]
      /\ ticket' = [t \in Ticket |-> IF t \in there
                        THEN [ticket[t] EXCEPT !.state = "assigned", !.server = director.server]
                        ELSE ticket[t]]
  BY DEF assign_tickets
<1> HIDE DEF there
<1> SUFFICES ASSUME NEW s \in Server, Counted(s)' PROVE RoomLeft(s)'
  BY DEF Room
<1>4. /\ server'[s].state = server[s].state /\ server'[s].cap = server[s].cap
      /\ server'[s].backfill = server[s].backfill /\ Counted(s)
      /\ s # director.server => server'[s].used = server[s].used
  BY <1>1, <1>2, <1>3 DEF GameServers, Counted
<1>5. RoomLeft(s)
  BY <1>4 DEF Room
<1>6. s = director.server => server[s].state = "allocated"
  <2> SUFFICES ASSUME s = director.server, server[s].state # "allocated" PROVE FALSE
    OBVIOUS
  <2>1. Coming(s) = {}
    BY <1>2, <1>5 DEF RoomLeft, GameServers
  <2>2. director.match.tickets # {} /\ director.match.tickets \subseteq Ticket
    BY <1>1, HeldFacts DEF HeldApart
  <2>3. director.match.tickets \subseteq Coming(s)
    BY <1>1, <2>2 DEF Coming
  <2> QED  BY <2>1, <2>2, <2>3
<1>7. (Sent(s) \cup Coming(s))' \subseteq Sent(s) \cup Coming(s)
  <2>1. (Coming(s))' \subseteq Coming(s)
    BY <1>1 DEF Coming, NeedsServer
  <2>2. ASSUME NEW t \in (Sent(s))' PROVE t \in Sent(s) \cup Coming(s)
    <3>1. t \in Ticket /\ ticket'[t].state = "assigned" /\ ticket'[t].server = s
      BY <2>2 DEF Sent
    <3>2. CASE t \in there
      <4>1. s = director.server
        BY <1>2, <1>3, <3>1, <3>2 DEF Tickets
      <4> QED  BY <1>1, <3>1, <3>2, <4>1 DEF Coming, there
    <3>3. CASE t \notin there
      BY <1>3, <3>1, <3>3 DEF Sent
    <3> QED  BY <3>2, <3>3
  <2> QED  BY <2>1, <2>2
<1>8. (SlotsIn(server[s].backfill))' <= SlotsIn(server[s].backfill)
  <2>1. (SlotsIn(server[s].backfill))' = SlotsIn(server[s].backfill)
    BY <1>1, <1>4 DEF SlotsIn
  <2> QED  BY <2>1, SlotsType
<1>9. /\ \A b \in Backfill : backfill'[b] # None /\ backfill'[b].server = s => server'[s].backfill = b
      /\ \A m \in director'.matches : ~NeedsServer(m) /\ m.server = s => server'[s].backfill = m.backfill
  BY <1>1, <1>4, <1>5 DEF RoomLeft
<1> HIDE DEF Sent, Coming, SlotsIn
<1> QED  BY <1>4, <1>5, <1>6, <1>7, <1>8, <1>9, RoomKept

LEMMA CallFailsRoom ==
    ASSUME Types, Types', HeldApart, HeldPlaced, BackfillsExist, BackfillsExist', MatchesFit, Room, CallFails
    PROVE  Room'
<1>1. /\ director' = Idle /\ backfill' = backfill /\ ticket' = ticket
      /\ director'.matches = {} /\ director'.match = None
  BY IdleHeld DEF CallFails
<1>2. CASE server' = server
  BY <1>1, <1>2, IdleRoom
<1>3. ASSUME NEW m \in director.matches, NeedsServer(m), NEW s \in Ready(director.queue.fleet),
             server' = [server EXCEPT ![s] = Given(s, "allocated", m)]
      PROVE  Room'
  <2>1. m \in Matches /\ director.queue \in Profiles
    BY DEF HeldPlaced, Types, DirectorType
  <2>2. \A z \in Server : (Sent(z))' = Sent(z) /\ (Coming(z))' = {}
    BY <1>1 DEF Sent, Coming
  <2>3. server \in [Server -> GameServers] /\ s \in Server /\ server[s].state = "ready"
    BY DEF Types, Ready
  <2> SUFFICES ASSUME NEW z \in Server, Counted(z)' PROVE RoomLeft(z)'
    BY DEF Room
  <2>4. CASE z = s
    <3>1. server'[z] = Given(z, "allocated", m)
      BY <1>3, <2>3, <2>4
    <3>2. Counted(z)
      BY <2>1, <3>1, CountedBefore
    <3>3. RoomLeft(z) /\ server[z].state = "ready"
      BY <3>2, <2>3, <2>4 DEF Room
    <3>4. (Coming(z))' \subseteq m.tickets /\ director'.matches \subseteq director.matches
      BY <1>1, <2>2
    <3> QED  BY <1>1, <1>3, <3>1, <3>3, <3>4, RoomGiven
  <2>5. CASE z # s
    <3>1. server'[z] = server[z] /\ Counted(z)
      BY <1>3, <2>3, <2>5 DEF Counted
    <3>2. RoomLeft(z)
      BY <3>1 DEF Room
    <3>3. (Sent(z) \cup Coming(z))' \subseteq Sent(z) \cup Coming(z)
      BY <2>2
    <3>4. (SlotsIn(server[z].backfill))' <= SlotsIn(server[z].backfill)
      <4>1. (SlotsIn(server[z].backfill))' = SlotsIn(server[z].backfill)
        BY <1>1, <3>1 DEF SlotsIn
      <4> QED  BY <4>1, SlotsType
    <3>5. /\ \A b \in Backfill : backfill'[b] # None /\ backfill'[b].server = z => server'[z].backfill = b
          /\ \A n \in director'.matches : ~NeedsServer(n) /\ n.server = z => server'[z].backfill = n.backfill
      BY <1>1, <3>1, <3>2 DEF RoomLeft
    <3> HIDE DEF Sent, Coming, SlotsIn
    <3> QED  BY <3>1, <3>2, <3>3, <3>4, <3>5, RoomKept
  <2> QED  BY <2>4, <2>5
<1> QED  BY <1>2, <1>3 DEF CallFails, allocate

-----------------------------------------------------------------------------
(* Every step keeps the backfills that are named, and the matches fitting. *)

LEMMA NamesKept ==
    ASSUME BackfillsExist, backfill' = backfill, Held' \subseteq Held,
           \A s \in Server : \/ server'[s].backfill = server[s].backfill
                             \/ \E m \in Held : server'[s].backfill = m.backfill
    PROVE  BackfillsExist'
  BY DEF BackfillsExist

LEMMA FitKept ==
    ASSUME MatchesFit, director'.matches \subseteq director.matches, director'.queue = director.queue,
           \A m \in director'.matches : (SlotsIn(m.backfill))' = SlotsIn(m.backfill)
    PROVE  MatchesFit'
  BY DEF MatchesFit, NeedsServer

LEMMA AllocateNames ==
    ASSUME Types, HeldApart, HeldPlaced, BackfillsExist, MatchesFit,
           NEW m \in director.matches, try_allocate_match(m)
    PROVE  BackfillsExist' /\ MatchesFit'
<1>1. m \in Matches /\ m \in Held /\ director.queue \in Profiles /\ backfill' = backfill /\ Held' \subseteq Held
  BY HeldFacts, AllocateHeld DEF try_allocate_match, HeldPlaced
<1>2. ASSUME NEW s \in Server
      PROVE  server'[s].backfill = server[s].backfill \/ server'[s].backfill = m.backfill
  <2>1. server \in [Server -> GameServers]
    BY DEF Types
  <2>2. CASE server' = server
    BY <2>2
  <2>3. \A z \in Server, state \in {"starting", "allocated"} :
            Given(z, state, m).backfill \in {server[z].backfill, m.backfill}
    BY <1>1, GivenType
  <2>4. ASSUME NEW z \in Server, allocate_from_fleet(m, z)
        PROVE  server'[s] = server[s] \/ \E state \in {"starting", "allocated"} : server'[s] = Given(s, state, m)
    BY <1>1, <2>1, <2>4, Allocated
  <2> QED  BY <1>1, <2>2, <2>3, <2>4, AllocateOutcomes
<1>3. BackfillsExist'
  BY <1>1, <1>2, NamesKept
<1>4. MatchesFit'
  <2>1. CASE director' = Idle
    BY <2>1, IdleHeld
  <2>2. ASSUME NEW s \in Server, director' = Taking(m, s) PROVE MatchesFit'
    <3>1. director'.matches \subseteq director.matches /\ director'.queue = director.queue
      BY <2>2, TakingType
    <3>2. \A n \in director'.matches : (SlotsIn(n.backfill))' = SlotsIn(n.backfill)
      BY <1>1 DEF SlotsIn
    <3> QED  BY <3>1, <3>2, FitKept
  <2> QED  BY <1>1, <2>1, <2>2, AllocateOutcomes
<1> QED  BY <1>3, <1>4

LEMMA AssignNames ==
    ASSUME Types, HeldApart, HeldPlaced, BackfillsExist, MatchesFit, assign_tickets
    PROVE  BackfillsExist' /\ MatchesFit'
<1>1. /\ Held' \subseteq Held /\ director'.matches = director.matches
      /\ director'.queue = director.queue /\ backfill' = backfill
  BY AssignHeld, HeldFacts DEF assign_tickets
<1>2. \A s \in Server : server'[s].backfill = server[s].backfill
  <2>1. server \in [Server -> GameServers]
    BY DEF Types
  <2> QED  BY <2>1 DEF assign_tickets, GameServers
<1>3. \A m \in director'.matches : (SlotsIn(m.backfill))' = SlotsIn(m.backfill)
  BY <1>1 DEF SlotsIn
<1> QED  BY <1>1, <1>2, <1>3, NamesKept, FitKept

LEMMA CallFailsNames ==
    ASSUME Types, HeldPlaced, BackfillsExist, CallFails
    PROVE  BackfillsExist'
<1>1. director' = Idle /\ backfill' = backfill /\ Held' = {}
  BY IdleHeld DEF CallFails
<1>2. CASE server' = server
  BY <1>1, <1>2, NamesKept
<1>3. ASSUME NEW m \in director.matches, NEW s \in Ready(director.queue.fleet),
             server' = [server EXCEPT ![s] = Given(s, "allocated", m)]
      PROVE  BackfillsExist'
  <2>1. m \in Matches /\ m \in Held /\ director.queue \in Profiles /\ s \in Server
    BY HeldFacts DEF HeldPlaced, Ready
  <2>2. Given(s, "allocated", m).backfill \in {server[s].backfill, m.backfill}
    BY <2>1, GivenType
  <2>3. server \in [Server -> GameServers]
    BY DEF Types
  <2>4. \A z \in Server : server'[z].backfill \in {server[z].backfill, m.backfill}
    BY <1>3, <2>1, <2>2, <2>3
  <2> QED  BY <1>1, <2>1, <2>4, NamesKept
<1> QED  BY <1>2, <1>3 DEF CallFails, allocate

(* The steps outside of the director: a backfill ends, or gets a server    *)
(* that names it; servers start, fill and empty.                            *)
LEMMA ElsewherePlaces ==
    ASSUME Types, BackfillsExist, Elsewhere
    PROVE  /\ \A b \in Backfill :
                 \/ backfill'[b] = backfill[b]
                 \/ /\ backfill'[b] = None /\ \A s \in Server : server'[s].backfill # b
                    /\ \A m \in Held : m.backfill # b
                 \/ /\ backfill[b] # None /\ backfill'[b] # None
                    /\ backfill'[b].slots = backfill[b].slots
                    /\ \E s \in Server : server'[s].backfill = b /\ backfill'[b].server = s
           /\ \A s \in Server :
                 /\ server'[s].cap = server[s].cap /\ server'[s].used = server[s].used
                 /\ \/ server'[s].backfill = server[s].backfill
                    \/ /\ server'[s].backfill = None /\ server[s].backfill # None
                       /\ backfill'[server[s].backfill] = None
                 /\ server'[s].summoned = server[s].summoned
                 /\ \/ server'[s].state = server[s].state /\ server'[s].reopened = server[s].reopened
                    \/ server[s].state = "starting"
                    \/ server[s].state = "ready" /\ Sent(s) # {}
                    \/ server'[s].reopened
                 /\ server[s].reopened => server'[s].reopened
<1>1. server \in [Server -> GameServers] /\ backfill \in [Backfill -> FreePlaces \cup {None}]
      /\ \A s \in Server : server[s].backfill \in Backfill \cup {None}
  BY DEF Types, GameServers
<1>2. CASE server' = server /\ backfill' = backfill
  BY <1>2
<1>3. ASSUME NEW t \in Ticket, onPlayerJoin(t) PROVE server' # server =>
        /\ backfill' = backfill
        /\ \E s \in Server : /\ server[s].state = "ready" /\ t \in Sent(s)
                             /\ server' = [server EXCEPT ![s].state = "allocated"]
  <2>1. /\ ticket[t].state = "assigned" /\ server[ticket[t].server].state = "ready"
        /\ server' = [server EXCEPT ![ticket[t].server].state = "allocated"] /\ backfill' = backfill
    BY <1>3 DEF onPlayerJoin
  <2>2. server' # server => ticket[t].server \in Server
    BY <1>1, <2>1
  <2> QED  BY <2>1, <2>2 DEF Sent
<1>4. ASSUME NEW t \in Ticket, onPlayerQuit(t) PROVE server' # server =>
        /\ backfill' = backfill
        /\ \E s \in Server : server' = [server EXCEPT ![s].state = "ready", ![s].reopened = TRUE]
  <2>1. server' # server =>
            server' = [server EXCEPT ![ticket[t].server].state = "ready", ![ticket[t].server].reopened = TRUE]
    BY <1>4 DEF onPlayerQuit
  <2>2. server' # server => ticket[t].server \in Server
    BY <1>1, <2>1
  <2> QED  BY <1>4, <2>1, <2>2 DEF onPlayerQuit
<1>5. ASSUME backfill' = backfill, NEW s \in Server, server[s].state = "ready", Sent(s) # {},
             server' = [server EXCEPT ![s].state = "allocated"]
      PROVE  \A z \in Server :
                 /\ server'[z].cap = server[z].cap /\ server'[z].used = server[z].used
                 /\ server'[z].backfill = server[z].backfill /\ server'[z].summoned = server[z].summoned
                 /\ server'[z].reopened = server[z].reopened
                 /\ server'[z].state = server[z].state \/ (server[z].state = "ready" /\ Sent(z) # {})
  BY <1>1, <1>5 DEF GameServers
<1>6. ASSUME backfill' = backfill, NEW s \in Server,
             server' = [server EXCEPT ![s].state = "ready", ![s].reopened = TRUE]
      PROVE  \A z \in Server :
                 /\ server'[z].cap = server[z].cap /\ server'[z].used = server[z].used
                 /\ server'[z].backfill = server[z].backfill /\ server'[z].summoned = server[z].summoned
                 /\ \/ server'[z].state = server[z].state /\ server'[z].reopened = server[z].reopened
                    \/ server'[z].reopened
                 /\ server[z].reopened => server'[z].reopened
  BY <1>1, <1>6 DEF GameServers
<1>7. ASSUME backfill' = backfill, NEW s \in Server, Start(s)
      PROVE  \A z \in Server :
                 /\ server'[z].cap = server[z].cap /\ server'[z].used = server[z].used
                 /\ server'[z].backfill = server[z].backfill /\ server'[z].summoned = server[z].summoned
                 /\ server'[z].reopened = server[z].reopened
                 /\ server'[z].state = server[z].state \/ server[z].state = "starting"
  BY <1>1, <1>7 DEF GameServers, Start
<1>8. ASSUME NEW b \in Backfill, BackfillEnds(b)
      PROVE  /\ backfill' = [backfill EXCEPT ![b] = None]
             /\ \A m \in Held : m.backfill # b
             /\ \A s \in Server : IF server[s].backfill = b
                                  THEN server'[s] = [server[s] EXCEPT !.backfill = None]
                                  ELSE server'[s] = server[s]
  <2>1. \A m \in Held : m # None
    BY HeldFacts, NoneFacts
  <2> QED  BY <1>8, <2>1 DEF BackfillEnds, Held
<1>9. ASSUME NEW b \in Backfill, BackfillEnds(b)
      PROVE  /\ \A p \in Backfill : p # b => backfill'[p] = backfill[p]
             /\ backfill'[b] = None /\ \A m \in Held : m.backfill # b
             /\ \A s \in Server :
                   /\ server'[s].cap = server[s].cap /\ server'[s].used = server[s].used
                   /\ server'[s].backfill = IF server[s].backfill = b THEN None ELSE server[s].backfill
                   /\ server'[s].summoned = server[s].summoned
                   /\ server'[s].state = server[s].state /\ server'[s].reopened = server[s].reopened
  <2>1. /\ \A p \in Backfill : p # b => backfill'[p] = backfill[p]
        /\ backfill'[b] = None /\ \A m \in Held : m.backfill # b
    BY <1>1, <1>8, <1>9
  <2>2. ASSUME NEW s \in Server
        PROVE  /\ server'[s].cap = server[s].cap /\ server'[s].used = server[s].used
               /\ server'[s].backfill = IF server[s].backfill = b THEN None ELSE server[s].backfill
               /\ server'[s].summoned = server[s].summoned
               /\ server'[s].state = server[s].state /\ server'[s].reopened = server[s].reopened
    <3>1. server[s] \in GameServers
      BY <1>1
    <3>3. CASE server[s].backfill = b
      <4>1. server'[s] = [server[s] EXCEPT !.backfill = None]
        BY <1>8, <1>9, <3>3
      <4> QED  BY <3>1, <3>3, <4>1 DEF GameServers
    <3>4. CASE server[s].backfill # b
      BY <1>8, <1>9, <3>4
    <3> QED  BY <3>3, <3>4
  <2> QED  BY <2>1, <2>2
<1>10. ASSUME NEW s \in Server, Acknowledge(s)
       PROVE  /\ server' = server /\ server[s].backfill \in Backfill
              /\ \A p \in Backfill : p # server[s].backfill => backfill'[p] = backfill[p]
              /\ backfill[server[s].backfill] # None /\ backfill'[server[s].backfill] # None
              /\ backfill'[server[s].backfill].slots = backfill[server[s].backfill].slots
              /\ backfill'[server[s].backfill].server = s
  <2> DEFINE b == server[s].backfill
  <2>1. b \in Backfill /\ backfill[b] # None /\ backfill[b] \in FreePlaces
    BY <1>1, <1>10 DEF Acknowledge, BackfillsExist
  <2>2. backfill' = [backfill EXCEPT ![b].server = s] /\ server' = server
    BY <1>10 DEF Acknowledge
  <2> HIDE DEF b
  <2>3. [backfill[b] EXCEPT !.server = s] \in FreePlaces
    BY <2>1 DEF FreePlaces
  <2>4. backfill'[b] = [backfill[b] EXCEPT !.server = s]
        /\ \A p \in Backfill : p # b => backfill'[p] = backfill[p]
    BY <1>1, <2>1, <2>2
  <2>5. backfill'[b].slots = backfill[b].slots /\ backfill'[b].server = s /\ backfill'[b] # None
    BY <2>1, <2>3, <2>4, NoneFacts DEF FreePlaces
  <2> QED  BY <2>1, <2>2, <2>4, <2>5 DEF b
<1>11. \/ server' = server /\ backfill' = backfill
       \/ \E t \in Ticket : onPlayerJoin(t) \/ onPlayerQuit(t)
       \/ \E b \in Backfill : BackfillEnds(b)
       \/ \E s \in Server : Acknowledge(s) \/ (Start(s) /\ backfill' = backfill)
  <2>1. \A q \in Queue : Reconcile(q) \/ Edit(q) \/ Removed(q) => server' = server /\ backfill' = backfill
    BY DEF Reconcile, Edit, Removed
  <2>2. \A t \in Ticket, q \in Queue : Queued(t, q) => server' = server /\ backfill' = backfill
    BY DEF Queued
  <2>3. \A t \in Ticket : Cancel(t) \/ Release(t) => server' = server /\ backfill' = backfill
    BY DEF Cancel, Release
  <2>4. \A s \in Server : Start(s) => backfill' = backfill
    BY DEF Start
  <2> QED  BY <2>1, <2>2, <2>3, <2>4 DEF Elsewhere
<1>12. ASSUME NEW t \in Ticket, onPlayerJoin(t) \/ onPlayerQuit(t) PROVE backfill' = backfill
  BY <1>12 DEF onPlayerJoin, onPlayerQuit
<1>13. CASE \E t \in Ticket : onPlayerJoin(t)
  BY <1>2, <1>3, <1>5, <1>12, <1>13
<1>14. CASE \E t \in Ticket : onPlayerQuit(t)
  BY <1>2, <1>4, <1>6, <1>12, <1>14
<1>15. CASE \E b \in Backfill : BackfillEnds(b)
  <2>1. PICK b \in Backfill : BackfillEnds(b)
    BY <1>15
  <2>2. \A s \in Server : server'[s].backfill # b
    BY <1>9, <2>1, NoneFacts
  <2>3. \A s \in Server : \/ server'[s].backfill = server[s].backfill
                          \/ /\ server'[s].backfill = None /\ server[s].backfill # None
                             /\ backfill'[server[s].backfill] = None
    BY <1>9, <2>1, NoneFacts
  <2> QED  BY <1>9, <2>1, <2>2, <2>3
<1>16. CASE \E s \in Server : Acknowledge(s)
  BY <1>10, <1>16
<1>17. CASE \E s \in Server : Start(s) /\ backfill' = backfill
  BY <1>7, <1>17
<1> QED  BY <1>2, <1>11, <1>13, <1>14, <1>15, <1>16, <1>17

LEMMA ElsewhereNames ==
    ASSUME Types, BackfillsExist, MatchesFit, Elsewhere
    PROVE  BackfillsExist' /\ MatchesFit'
<1>1. director' = director /\ Held' = Held
  BY ElsewhereTickets DEF Held
<1>2. \A m \in Held : m.backfill \in Backfill \cup {None}
  BY HeldFacts
<1>3. \A s \in Server : server[s].backfill \in Backfill \cup {None}
  BY DEF Types, GameServers
<1>4. \A m \in Held : m.backfill # None =>
          /\ backfill'[m.backfill] # None
          /\ backfill'[m.backfill].slots = backfill[m.backfill].slots
  <2> SUFFICES ASSUME NEW m \in Held, m.backfill # None
               PROVE  /\ backfill'[m.backfill] # None
                      /\ backfill'[m.backfill].slots = backfill[m.backfill].slots
    OBVIOUS
  <2>1. m.backfill \in Backfill /\ backfill[m.backfill] # None
    BY <1>2 DEF BackfillsExist
  <2> QED  BY <2>1, ElsewherePlaces
<1>5. \A s \in Server : server'[s].backfill # None => backfill'[server'[s].backfill] # None
  <2> SUFFICES ASSUME NEW s \in Server, server'[s].backfill # None
               PROVE  backfill'[server'[s].backfill] # None
    OBVIOUS
  <2>1. server'[s].backfill = server[s].backfill
    BY ElsewherePlaces
  <2>2. server[s].backfill \in Backfill /\ backfill[server[s].backfill] # None
    BY <1>3, <2>1 DEF BackfillsExist
  <2> QED  BY <2>1, <2>2, ElsewherePlaces
<1>6. BackfillsExist'
  BY <1>1, <1>4, <1>5 DEF BackfillsExist
<1>7. \A m \in director'.matches : (SlotsIn(m.backfill))' = SlotsIn(m.backfill)
  BY <1>1, <1>4, HeldFacts DEF SlotsIn
<1>8. MatchesFit'
  BY <1>1, <1>7, FitKept
<1> QED  BY <1>6, <1>8

LEMMA ElsewhereRoom ==
    ASSUME Types, Types', BackfillsExist, BackfillsExist', Room, Elsewhere
    PROVE  Room'
<1> SUFFICES ASSUME NEW s \in Server, Counted(s)' PROVE RoomLeft(s)'
  BY DEF Room
<1>1. director' = director
  BY ElsewhereTickets
<1>2. /\ server'[s].cap = server[s].cap /\ server'[s].used = server[s].used
      /\ \/ server'[s].backfill = server[s].backfill
         \/ /\ server'[s].backfill = None /\ server[s].backfill # None
            /\ backfill'[server[s].backfill] = None
      /\ server'[s].summoned = server[s].summoned
      /\ \/ server'[s].state = server[s].state /\ server'[s].reopened = server[s].reopened
         \/ server[s].state = "starting"
         \/ server[s].state = "ready" /\ Sent(s) # {}
         \/ server'[s].reopened
      /\ server[s].reopened => server'[s].reopened
  BY ElsewherePlaces
<1>3. ~server'[s].summoned /\ ~server'[s].reopened
  BY DEF Counted
<1>4. Counted(s)
  <2>1. ~server[s].summoned
    BY <1>2, <1>3, Zenon
  <2>2. ~server[s].reopened
    BY <1>2, <1>3, Zenon
  <2> QED  BY <2>1, <2>2 DEF Counted
<1>5. RoomLeft(s)
  BY <1>4 DEF Room
<1>6. server'[s].state = server[s].state
  <2>1. server[s].state # "starting" /\ (server[s].state = "ready" => Sent(s) = {})
    BY <1>5 DEF RoomLeft
  <2> QED  BY <1>2, <1>3, <2>1, Zenon
<1>7. (Sent(s) \cup Coming(s))' \subseteq Sent(s) \cup Coming(s)
  <2>1. (Sent(s))' \subseteq Sent(s)
    BY ElsewhereTickets DEF Sent
  <2>2. (Coming(s))' = Coming(s)
    BY <1>1 DEF Coming, NeedsServer
  <2> QED  BY <2>1, <2>2
<1>8. server[s].backfill \in Backfill \cup {None}
  BY RoomTypes
<1>9. (SlotsIn(server[s].backfill))' <= SlotsIn(server[s].backfill)
  <2>1. SlotsIn(server[s].backfill) \in Nat
    BY SlotsType
  <2>2. CASE server'[s].backfill = None
    BY <2>1, <2>2 DEF SlotsIn
  <2>3. CASE server'[s].backfill # None
    <3>1. server'[s].backfill = server[s].backfill /\ server[s].backfill \in Backfill
      BY <1>2, <1>8, <2>3
    <3>2. backfill'[server[s].backfill].slots = backfill[server[s].backfill].slots
      BY <3>1, ElsewherePlaces
    <3> QED  BY <2>1, <3>1, <3>2 DEF SlotsIn
  <2> QED  BY <2>2, <2>3
<1>10. ASSUME NEW b \in Backfill, backfill'[b] # None, backfill'[b].server = s
       PROVE  server'[s].backfill = b
  <2>1. \/ backfill'[b] = backfill[b]
        \/ \E z \in Server : server'[z].backfill = b /\ backfill'[b].server = z
    BY <1>10, ElsewherePlaces
  <2>2. CASE backfill'[b] = backfill[b]
    <3>1. server[s].backfill = b
      BY <1>5, <1>10, <2>2 DEF RoomLeft
    <3> QED  BY <1>2, <1>10, <3>1
  <2> QED  BY <1>10, <2>1, <2>2
<1>11. ASSUME NEW m \in director'.matches, ~NeedsServer(m), m.server = s
       PROVE  server'[s].backfill = m.backfill
  <2>1. m \in Held /\ m \in director.matches /\ m.backfill \in Backfill /\ m.backfill # None
    BY <1>1, <1>11, HeldFacts DEF NeedsServer
  <2>2. server[s].backfill = m.backfill
    BY <1>5, <1>11, <2>1 DEF RoomLeft
  <2>3. backfill[m.backfill] # None
    BY <2>1 DEF BackfillsExist
  <2>4. backfill'[m.backfill] # None
    BY <2>1, <2>3, ElsewherePlaces
  <2> QED  BY <1>2, <2>2, <2>4
<1>12. \A m \in director'.matches : ~NeedsServer(m) /\ m.server = s => server'[s].backfill = m.backfill
  BY <1>11
<1> HIDE DEF Sent, Coming, SlotsIn
<1> QED  BY <1>2, <1>5, <1>6, <1>7, <1>9, <1>10, <1>12, RoomKept

-----------------------------------------------------------------------------
(* The steps that end or begin a tick hold nothing. *)

LEMMA NothingHeld ==
    ASSUME director'.matches = {}, director'.match = None, director'.server = None
    PROVE  Held' = {} /\ HeldApart' /\ HeldPlaced' /\ MatchesFit'
<1>1. Held' = {}
  BY DEF Held
<1>2. HeldApart'
  BY <1>1 DEF HeldApart
<1> QED  BY <1>1, <1>2 DEF HeldPlaced, MatchesFit

TickStep == try_fetch_matches_for_all_queues \/ Rest \/ Crash \/ \E q \in Queue : FetchFails(q)

LEMMA TickFacts ==
    ASSUME Types, HeldPlaced, TickStep
    PROVE  /\ director'.matches = {} /\ director'.match = None /\ director'.server = None
           /\ server' = server /\ backfill' = backfill /\ ticket' = ticket
           /\ \/ director.server = None /\ faults' = faults /\ leaves' = leaves
              \/ faults' = faults + 1 /\ leaves' = leaves
<1>1. CASE try_fetch_matches_for_all_queues
  BY <1>1 DEF try_fetch_matches_for_all_queues, Idle
<1>2. CASE Rest
  BY <1>2 DEF Rest, BetweenQueues, HeldPlaced, Idle
<1>3. CASE Crash
  BY <1>3 DEF Crash, Idle
<1>4. CASE \E q \in Queue : FetchFails(q)
  BY <1>4 DEF FetchFails, BetweenQueues, HeldPlaced, Idle
<1> QED  BY <1>1, <1>2, <1>3, <1>4 DEF TickStep

LEMMA TickHeld ==
    ASSUME Types, Types', HeldPlaced, BackfillsExist, Room, TickStep
    PROVE  HeldApart' /\ HeldPlaced' /\ BackfillsExist' /\ MatchesFit' /\ Room'
<1>1. /\ director'.matches = {} /\ director'.match = None /\ director'.server = None
      /\ server' = server /\ backfill' = backfill /\ ticket' = ticket
  BY TickFacts
<1>2. Held' = {} /\ HeldApart' /\ HeldPlaced' /\ MatchesFit'
  BY <1>1, NothingHeld
<1>3. BackfillsExist'
  BY <1>1, <1>2, NamesKept
<1>4. \A s \in Server : (Sent(s))' = Sent(s) /\ (Coming(s))' = {}
  BY <1>1 DEF Sent, Coming
<1>5. Room'
  BY <1>1, <1>3, <1>4, RoomUntouched
<1> QED  BY <1>2, <1>3, <1>5

-----------------------------------------------------------------------------
(* Every step pays for what it wastes. *)

LEMMA WasteTypes ==
    /\ IsFiniteSet(Wasted) /\ Cardinality(Wasted) \in Nat
    /\ IsFiniteSet(GoneHeld) /\ Cardinality(GoneHeld) \in Nat
<1>1. IsFiniteSet(Server)
  BY BoundAssumption, FS_Interval DEF Server
<1>2. Wasted \subseteq Server /\ GoneHeld \subseteq Ticket
  BY DEF Wasted, GoneHeld
<1>3. IsFiniteSet(Wasted)
  BY <1>1, <1>2, FS_Subset
<1> QED  BY <1>2, <1>3, TicketsFinite, FS_CardinalityType

LEMMA AtMostOneMore ==
    ASSUME NEW S, IsFiniteSet(S), NEW x, NEW T \in SUBSET (S \cup {x})
    PROVE  IsFiniteSet(T) /\ Cardinality(T) \in Nat /\ Cardinality(T) <= Cardinality(S) + 1
<1>1. /\ IsFiniteSet(S \cup {x}) /\ Cardinality(S) \in Nat /\ Cardinality(S \cup {x}) \in Nat
      /\ Cardinality(S \cup {x}) <= Cardinality(S) + 1
  BY FS_AddElement, FS_CardinalityType
<1>2. IsFiniteSet(T) /\ Cardinality(T) <= Cardinality(S \cup {x})
  BY <1>1, FS_Subset
<1> QED  BY <1>1, <1>2, FS_CardinalityType

\* What was taken for nothing, and what may yet be, grows by no more than what pays.
LEMMA PaidSum ==
    ASSUME Types, Paid, NEW f \in Nat, NEW l \in Nat, faults' = f, leaves' = l,
           NEW x \in {0, 1}, NEW y \in {0, 1}, NEW z \in {0, 1},
           Cardinality(Wasted') \in Nat, Cardinality(Wasted') <= Cardinality(Wasted) + x,
           Cardinality(GoneHeld') \in Nat, Cardinality(GoneHeld') + z <= Cardinality(GoneHeld) + y,
           f + l + z >= faults + leaves + x + y
    PROVE  Paid'
<1>1. /\ Cardinality(Wasted) \in Nat /\ Cardinality(GoneHeld) \in Nat
      /\ faults \in Nat /\ leaves \in Nat
      /\ Cardinality(Wasted) + Cardinality(GoneHeld) <= faults + leaves
  BY WasteTypes DEF Types, Paid
<1> DEFINE a == Cardinality(Wasted)
           c == Cardinality(GoneHeld)
           d == Cardinality(Wasted')
           e == Cardinality(GoneHeld')
<1>2. /\ a \in Nat /\ c \in Nat /\ d \in Nat /\ e \in Nat
      /\ a + c <= faults + leaves /\ d <= a + x /\ e + z <= c + y
  BY <1>1
<1> HIDE DEF a, c, d, e
<1>3. d + e <= f + l
  BY <1>1, <1>2
<1>4. Cardinality(Wasted') + Cardinality(GoneHeld') <= faults' + leaves'
  BY <1>3 DEF d, e
<1> QED  BY <1>4, Zenon DEF Paid

LEMMA PaidKept ==
    ASSUME Types, Paid, Wasted' \subseteq Wasted, GoneHeld' \subseteq GoneHeld,
           faults' = faults, leaves' = leaves
    PROVE  Paid'
<1>1. /\ Cardinality(Wasted) \in Nat /\ Cardinality(GoneHeld) \in Nat
      /\ Cardinality(Wasted') \in Nat /\ Cardinality(Wasted') <= Cardinality(Wasted)
      /\ Cardinality(GoneHeld') \in Nat /\ Cardinality(GoneHeld') <= Cardinality(GoneHeld)
  BY WasteTypes, FS_Subset, FS_CardinalityType
<1>2. faults \in Nat /\ leaves \in Nat /\ faults + leaves + 0 >= faults + leaves + 0 + 0
  BY DEF Types
<1> HIDE DEF Wasted, GoneHeld
<1>3. /\ Cardinality(Wasted') <= Cardinality(Wasted) + 0
      /\ Cardinality(GoneHeld') + 0 <= Cardinality(GoneHeld) + 0
  BY <1>1
<1> QED  BY <1>1, <1>2, <1>3, PaidSum

\* One more of either, with a failure or with a player who left.
LEMMA PaidFor ==
    ASSUME Types, Paid, NEW s, NEW t,
           \/ Wasted' \subseteq Wasted \cup {s} /\ GoneHeld' \subseteq GoneHeld
           \/ Wasted' \subseteq Wasted /\ GoneHeld' \subseteq GoneHeld \cup {t},
           \/ faults' = faults + 1 /\ leaves' = leaves
           \/ faults' = faults /\ leaves' = leaves + 1
    PROVE  Paid'
<1>1. /\ IsFiniteSet(Wasted) /\ Cardinality(Wasted) \in Nat
      /\ IsFiniteSet(GoneHeld) /\ Cardinality(GoneHeld) \in Nat
  BY WasteTypes
<1>2. ASSUME NEW S, NEW T, IsFiniteSet(S), T \subseteq S
      PROVE  Cardinality(T) \in Nat /\ Cardinality(T) <= Cardinality(S)
  BY <1>2, FS_Subset, FS_CardinalityType
<1>3. \E x, y \in {0, 1} :
          /\ x + y = 1
          /\ Cardinality(Wasted') \in Nat /\ Cardinality(Wasted') <= Cardinality(Wasted) + x
          /\ Cardinality(GoneHeld') \in Nat /\ Cardinality(GoneHeld') + 0 <= Cardinality(GoneHeld) + y
  <2>1. CASE Wasted' \subseteq Wasted \cup {s} /\ GoneHeld' \subseteq GoneHeld
    <3>1. Cardinality(Wasted') \in Nat /\ Cardinality(Wasted') <= Cardinality(Wasted) + 1
      BY <1>1, <2>1, AtMostOneMore
    <3>2. Cardinality(GoneHeld') \in Nat /\ Cardinality(GoneHeld') <= Cardinality(GoneHeld)
      BY <1>1, <1>2, <2>1
    <3>3. Cardinality(GoneHeld') + 0 <= Cardinality(GoneHeld) + 0 /\ 1 + 0 = 1
      BY <1>1, <3>2
    <3> HIDE DEF Wasted, GoneHeld
    <3> QED  BY <3>1, <3>2, <3>3
  <2>2. CASE Wasted' \subseteq Wasted /\ GoneHeld' \subseteq GoneHeld \cup {t}
    <3>1. Cardinality(GoneHeld') \in Nat /\ Cardinality(GoneHeld') <= Cardinality(GoneHeld) + 1
      BY <1>1, <2>2, AtMostOneMore
    <3>2. Cardinality(Wasted') \in Nat /\ Cardinality(Wasted') <= Cardinality(Wasted)
      BY <1>1, <1>2, <2>2
    <3>3. /\ Cardinality(GoneHeld') + 0 <= Cardinality(GoneHeld) + 1
          /\ Cardinality(Wasted') <= Cardinality(Wasted) + 0 /\ 0 + 1 = 1
      BY <1>1, <3>1, <3>2
    <3> HIDE DEF Wasted, GoneHeld
    <3> QED  BY <3>1, <3>2, <3>3
  <2> QED  BY <2>1, <2>2
<1>4. PICK x \in {0, 1}, y \in {0, 1} :
          /\ x + y = 1
          /\ Cardinality(Wasted') \in Nat /\ Cardinality(Wasted') <= Cardinality(Wasted) + x
          /\ Cardinality(GoneHeld') \in Nat /\ Cardinality(GoneHeld') + 0 <= Cardinality(GoneHeld) + y
  BY <1>3
<1>5. faults \in Nat /\ leaves \in Nat
  BY DEF Types
<1>6. PICK f \in Nat, l \in Nat : faults' = f /\ leaves' = l /\ f + l = faults + leaves + 1
  BY <1>5
<1>7. f + l + 0 >= faults + leaves + x + y
  BY <1>4, <1>5, <1>6
<1> HIDE DEF Wasted, GoneHeld
<1> QED  BY <1>4, <1>6, <1>7, PaidSum

LEMMA TickPaid ==
    ASSUME Types, HeldPlaced, Paid, TickStep
    PROVE  Paid'
<1>1. /\ director'.matches = {} /\ director'.match = None /\ director'.server = None
      /\ server' = server
      /\ \/ director.server = None /\ faults' = faults /\ leaves' = leaves
         \/ faults' = faults + 1 /\ leaves' = leaves
  BY TickFacts
<1>2. GoneHeld' \subseteq GoneHeld
  <2>1. Held' = {}
    BY <1>1, NothingHeld
  <2> QED  BY <2>1 DEF GoneHeld
<1>3. Wasted' \subseteq Wasted \cup {director.server}
  BY <1>1 DEF Wasted
<1>4. CASE director.server = None /\ faults' = faults /\ leaves' = leaves
  <2>1. Wasted' \subseteq Wasted
    BY <1>1, <1>4 DEF Wasted
  <2> QED  BY <1>2, <1>4, <2>1, PaidKept
<1>5. CASE faults' = faults + 1 /\ leaves' = leaves
  BY <1>2, <1>3, <1>5, PaidFor
<1> QED  BY <1>1, <1>4, <1>5

LEMMA FetchPaid ==
    ASSUME Types, Paid, NEW q \in Queue, try_fetch_matches_for_queue(q)
    PROVE  Paid'
<1>1. PICK b, made : Effect(q, b, made)
  BY Fetched
<1>2. /\ director'.matches = made.matches /\ director'.match = None
      /\ director'.server = director.server
  BY <1>1 DEF Effect
<1>3. server' = server /\ faults' = faults /\ leaves' = leaves
  BY DEF try_fetch_matches_for_queue
<1>4. Wasted' \subseteq Wasted
  BY <1>2, <1>3 DEF Wasted
<1>5. GoneHeld' \subseteq GoneHeld
  <2>1. \A m \in made.matches : m.tickets \subseteq Waiting(q)
    BY <1>1, FetchFacts
  <2>2. \A m \in made.matches : \A t \in m.tickets : ticket'[t].state = "pending"
    <3>1. \A t \in Waiting(q) : t \in Ticket /\ ticket[t] \in Tickets
      BY DEF Waiting, Types
    <3>2. ticket' = [t \in Ticket |-> IF \E m \in made.matches : t \in m.tickets
                                      THEN [ticket[t] EXCEPT !.state = "pending"] ELSE ticket[t]]
      BY <1>1 DEF Effect
    <3> QED  BY <2>1, <3>1, <3>2 DEF Tickets
  <2>3. Held' = made.matches
    <3>1. None \notin made.matches
      BY <1>1, FetchFacts, NoneFacts
    <3> QED  BY <1>2, <3>1 DEF Held
  <2> QED  BY <2>2, <2>3 DEF GoneHeld
<1> QED  BY <1>3, <1>4, <1>5, PaidKept

\* Being given a match, a server is not used yet.
LEMMA WastedGiven ==
    ASSUME Types, director.queue \in Profiles, NEW m \in Matches, director.server = None
    PROVE  /\ \A s \in Server : allocate_from_fleet(m, s) /\ director'.server = s =>
                 \/ faults' = faults /\ Wasted' \subseteq Wasted
                 \/ faults' = faults + 1 /\ \E lost \in Server : Wasted' \subseteq Wasted \cup {lost}
           /\ \A s \in Server : server' = [server EXCEPT ![s] = Given(s, "allocated", m)]
                                    /\ director'.server = None =>
                 Wasted' \subseteq Wasted \cup {s}
<1>1. server \in [Server -> GameServers] /\ None \notin Server
  BY NoneFacts DEF Types
<1>2. ASSUME NEW S \in SUBSET Server, \A z \in Server \ S : server'[z] = server[z],
             NEW s \in Server \cup {None}, director'.server = s
      PROVE  Wasted' \subseteq Wasted \cup (S \ {s})
  BY <1>1, <1>2 DEF Wasted
<1>3. ASSUME NEW s \in Server, allocate_from_fleet(m, s), director'.server = s
      PROVE  \/ faults' = faults /\ Wasted' \subseteq Wasted
             \/ faults' = faults + 1 /\ \E lost \in Server : Wasted' \subseteq Wasted \cup {lost}
  <2>1. CASE /\ faults' \in {faults, faults + 1}
             /\ \/ server' = [server EXCEPT ![s] = Given(s, "allocated", m)]
                \/ server' = [server EXCEPT ![s] = Given(s, "starting", m)]
    <3> DEFINE S == {s}
    <3>1. S \in SUBSET Server /\ \A z \in Server \ S : server'[z] = server[z]
      BY <1>1, <2>1
    <3> HIDE DEF S
    <3>2. Wasted' \subseteq Wasted \cup (S \ {s})
      BY <1>2, <1>3, <3>1
    <3>3. Wasted' \subseteq Wasted /\ Wasted' \subseteq Wasted \cup {s}
      BY <3>2 DEF S
    <3> QED  BY <2>1, <3>3
  <2>2. ASSUME faults' = faults + 1, NEW lost \in Server, lost # s,
               server' = [server EXCEPT ![lost] = Given(lost, "allocated", m),
                                        ![s] = Given(s, "starting", m)]
        PROVE  \E z \in Server : Wasted' \subseteq Wasted \cup {z}
    <3> DEFINE S == {s, lost}
    <3>1. S \in SUBSET Server /\ \A z \in Server \ S : server'[z] = server[z]
      BY <1>1, <2>2
    <3> HIDE DEF S
    <3>2. Wasted' \subseteq Wasted \cup (S \ {s})
      BY <1>2, <1>3, <3>1
    <3> QED  BY <3>2 DEF S
  <2> QED  BY <1>3, <2>1, <2>2, Allocated
<1>4. ASSUME NEW s \in Server, server' = [server EXCEPT ![s] = Given(s, "allocated", m)],
             director'.server = None
      PROVE  Wasted' \subseteq Wasted \cup {s}
  <2>1. \A z \in Server \ {s} : server'[z] = server[z]
    BY <1>1, <1>4
  <2>2. Wasted' \subseteq Wasted \cup ({s} \ {None})
    BY <1>2, <1>4, <2>1
  <2> QED  BY <2>2
<1> QED  BY <1>3, <1>4

LEMMA AllocatePaid ==
    ASSUME Types, HeldApart, HeldPlaced, Paid, NEW m \in director.matches, try_allocate_match(m)
    PROVE  Paid'
<1>1. /\ m \in Matches /\ director.match = None /\ director.queue \in Profiles
      /\ director.server = None /\ ticket' = ticket /\ leaves' = leaves
  BY DEF try_allocate_match, Types, DirectorType, HeldPlaced
<1>2. GoneHeld' \subseteq GoneHeld
  <2>1. Held' \subseteq Held
    BY AllocateHeld
  <2> QED  BY <1>1, <2>1 DEF GoneHeld
<1>3. CASE director' = Idle /\ server' = server /\ faults' = faults
  <2>1. Wasted' \subseteq Wasted
    BY <1>1, <1>3, IdleHeld DEF Wasted
  <2> QED  BY <1>1, <1>2, <1>3, <2>1, PaidKept
<1>4. ASSUME NEW s \in Server, director' = Taking(m, s), server' = server, faults' = faults
      PROVE  Paid'
  <2>1. director'.server = s
    BY <1>4, TakingType
  <2>2. Wasted' \subseteq Wasted
    BY <1>1, <1>4, <2>1, NoneFacts DEF Wasted
  <2> QED  BY <1>1, <1>2, <1>4, <2>2, PaidKept
<1>5. ASSUME NEW s \in Server, director' = Taking(m, s), allocate_from_fleet(m, s)
      PROVE  Paid'
  <2>1. director'.server = s
    BY <1>5, TakingType
  <2>2. \/ faults' = faults /\ Wasted' \subseteq Wasted
        \/ faults' = faults + 1 /\ \E lost \in Server : Wasted' \subseteq Wasted \cup {lost}
    BY <1>1, <1>5, <2>1, WastedGiven
  <2>3. CASE faults' = faults /\ Wasted' \subseteq Wasted
    BY <1>1, <1>2, <2>3, PaidKept
  <2>4. ASSUME faults' = faults + 1, NEW lost \in Server, Wasted' \subseteq Wasted \cup {lost}
        PROVE  Paid'
    BY <1>1, <1>2, <2>4, PaidFor
  <2> QED  BY <2>2, <2>3, <2>4
<1> QED  BY <1>1, <1>3, <1>4, <1>5, AllocateOutcomes

\* A server is not used only if all the tickets of its match are gone, and
\* those stop to count.
LEMMA AssignPaid ==
    ASSUME Types, HeldApart, HeldPlaced, Paid, assign_tickets
    PROVE  Paid'
<1> DEFINE s == director.server
           match == director.match
           there == {t \in match.tickets : ticket[t].state # "gone"}
<1>1. /\ match # None /\ match \in Held /\ s \in Server /\ match \notin director.matches
      /\ faults' = faults /\ leaves' = leaves
  BY HeldFacts DEF assign_tickets, HeldPlaced, HeldApart, Types, DirectorType
<1>2. Held' = director.matches /\ director'.server = None
  BY AssignHeld
<1>3. /\ server' = [server EXCEPT ![s].used = @ \/ there # {}]
      /\ ticket' = [t \in Ticket |-> IF t \in there
                        THEN [ticket[t] EXCEPT !.state = "assigned", !.server = s]
                        ELSE ticket[t]]
  BY DEF assign_tickets
<1>4. server \in [Server -> GameServers] /\ ticket \in [Ticket -> Tickets]
  BY DEF Types
<1> HIDE DEF s, match, there
<1>5. \A z \in Server : /\ server'[z].cap = server[z].cap
                        /\ z # s => server'[z].used = server[z].used
                        /\ server'[z].used = (server[z].used \/ (z = s /\ there # {}))
  <2>1. \A z \in Server : server[z].used \in BOOLEAN
    BY <1>4 DEF GameServers
  <2> QED  BY <1>1, <1>3, <1>4, <2>1 DEF GameServers
<1>6. \A t \in Ticket : ticket'[t].state = "gone" => ticket[t].state = "gone"
  BY <1>3, <1>4 DEF Tickets
<1>7. GoneHeld' \subseteq GoneHeld
  <2>1. Held' \subseteq Held
    BY <1>2, HeldFacts
  <2> QED  BY <1>6, <2>1 DEF GoneHeld
<1>8. \A z \in Server \ {s} : z \in Wasted' => z \in Wasted
  BY <1>5 DEF Wasted, s
<1>9. CASE there # {}
  <2>1. s \notin Wasted'
    BY <1>1, <1>5, <1>9 DEF Wasted
  <2>2. Wasted' \subseteq Server
    BY DEF Wasted
  <2>3. Wasted' \subseteq Wasted
    BY <1>8, <2>1, <2>2
  <2> QED  BY <1>1, <1>7, <2>3, PaidKept
<1>10. CASE there = {}
  <2>1. PICK t \in match.tickets : t \in Ticket
    BY <1>1, HeldFacts DEF HeldApart
  <2>2. t \in GoneHeld
    BY <1>1, <1>10, <2>1 DEF GoneHeld, there
  <2>3. t \notin GoneHeld'
    <3>1. \A m \in director.matches : t \notin m.tickets
      BY <1>1, <2>1, HeldFacts DEF HeldApart
    <3> QED  BY <1>2, <3>1 DEF GoneHeld
  <2>4. Wasted' \subseteq Wasted \cup {s}
    <3>1. Wasted' \subseteq Server
      BY DEF Wasted
    <3> QED  BY <1>8, <3>1
  <2>5. /\ IsFiniteSet(Wasted) /\ Cardinality(Wasted) \in Nat
        /\ IsFiniteSet(GoneHeld) /\ Cardinality(GoneHeld) \in Nat
    BY WasteTypes
  <2>6. Cardinality(Wasted') \in Nat /\ Cardinality(Wasted') <= Cardinality(Wasted) + 1
    BY <2>4, <2>5, AtMostOneMore
  <2>7. Cardinality(GoneHeld') \in Nat /\ Cardinality(GoneHeld') + 1 <= Cardinality(GoneHeld) + 0
    <3>1. IsFiniteSet(GoneHeld \ {t}) /\ Cardinality(GoneHeld \ {t}) = Cardinality(GoneHeld) - 1
      BY <2>2, <2>5, FS_RemoveElement
    <3>2. GoneHeld' \subseteq GoneHeld \ {t}
      BY <1>7, <2>3
    <3>3. /\ Cardinality(GoneHeld') \in Nat /\ Cardinality(GoneHeld \ {t}) \in Nat
          /\ Cardinality(GoneHeld') <= Cardinality(GoneHeld \ {t})
      BY <3>1, <3>2, FS_Subset, FS_CardinalityType
    <3> HIDE DEF GoneHeld
    <3> QED  BY <2>5, <3>1, <3>3
  <2>8. faults \in Nat /\ leaves \in Nat /\ faults + leaves + 1 >= faults + leaves + 1 + 0
    BY DEF Types
  <2> HIDE DEF Wasted, GoneHeld
  <2> QED  BY <1>1, <2>6, <2>7, <2>8, PaidSum
<1> QED  BY <1>9, <1>10

LEMMA CallFailsPaid ==
    ASSUME Types, HeldPlaced, Paid, CallFails
    PROVE  Paid'
<1>1. /\ director' = Idle /\ Held' = {} /\ director'.server = None
      /\ faults' = faults + 1 /\ leaves' = leaves
  BY IdleHeld DEF CallFails
<1>2. GoneHeld' \subseteq GoneHeld
  BY <1>1 DEF GoneHeld
<1>3. CASE server' = server
  <2>1. Wasted' \subseteq Wasted \cup {director.server}
    BY <1>3 DEF Wasted
  <2> QED  BY <1>1, <1>2, <2>1, PaidFor
<1>4. ASSUME director.match = None, NEW m \in director.matches, NEW s \in Ready(director.queue.fleet),
             server' = [server EXCEPT ![s] = Given(s, "allocated", m)]
      PROVE  Paid'
  <2>1. m \in Matches /\ director.queue \in Profiles /\ s \in Server /\ director.server = None
    BY <1>4 DEF HeldPlaced, Types, DirectorType, Ready
  <2>2. Wasted' \subseteq Wasted \cup {s}
    BY <1>1, <1>4, <2>1, WastedGiven
  <2> QED  BY <1>1, <1>2, <2>2, PaidFor
<1> QED  BY <1>3, <1>4 DEF CallFails, allocate

LEMMA ElsewherePaid ==
    ASSUME Types, HeldApart, BackfillsExist, Paid, Elsewhere
    PROVE  Paid'
<1>1. director' = director /\ Held' = Held
  BY ElsewhereTickets DEF Held
<1>2. Wasted' \subseteq Wasted
  BY <1>1, ElsewherePlaces DEF Wasted
<1>3. ticket \in [Ticket -> Tickets]
  BY DEF Types
<1>4. \/ /\ faults' = faults /\ leaves' = leaves
         /\ \A t \in Ticket : ticket'[t].state = "gone" => ticket[t].state = "gone"
      \/ /\ faults' = faults /\ leaves' = leaves + 1
         /\ \E u \in Ticket : \A t \in Ticket \ {u} : ticket'[t] = ticket[t]
  <2>1. ASSUME NEW q \in Queue, Reconcile(q) \/ Edit(q) \/ Removed(q)
        PROVE  ticket' = ticket /\ faults' = faults /\ leaves' = leaves
    BY <2>1 DEF Reconcile, Edit, Removed
  <2>2. ASSUME NEW b \in Backfill, BackfillEnds(b)
        PROVE  ticket' = ticket /\ faults' = faults /\ leaves' = leaves
    BY <2>2 DEF BackfillEnds
  <2>3. ASSUME NEW s \in Server, Acknowledge(s) \/ Start(s)
        PROVE  ticket' = ticket /\ faults' = faults /\ leaves' = leaves
    BY <2>3 DEF Acknowledge, Start
  <2>4. ASSUME NEW t \in Ticket, onPlayerJoin(t)
        PROVE  ticket' = ticket /\ faults' = faults /\ leaves' = leaves
    BY <2>4 DEF onPlayerJoin
  <2>5. ASSUME NEW t \in Ticket, (\E q \in Queue : Queued(t, q)) \/ Release(t)
        PROVE  /\ faults' = faults /\ leaves' = leaves
               /\ \A u \in Ticket : ticket'[u].state = "gone" => ticket[u].state = "gone"
    BY <1>3, <2>5 DEF Queued, Release, Tickets
  <2>6. ASSUME NEW t \in Ticket, Cancel(t) \/ onPlayerQuit(t)
        PROVE  /\ faults' = faults /\ leaves' = leaves + 1
               /\ \A u \in Ticket \ {t} : ticket'[u] = ticket[u]
    BY <1>3, <2>6 DEF Cancel, onPlayerQuit
  <2> QED  BY <2>1, <2>2, <2>3, <2>4, <2>5, <2>6 DEF Elsewhere
<1>5. CASE /\ faults' = faults /\ leaves' = leaves
           /\ \A t \in Ticket : ticket'[t].state = "gone" => ticket[t].state = "gone"
  <2>1. GoneHeld' \subseteq GoneHeld
    BY <1>1, <1>5 DEF GoneHeld
  <2> QED  BY <1>2, <1>5, <2>1, PaidKept
<1>6. ASSUME faults' = faults, leaves' = leaves + 1,
             NEW u \in Ticket, \A t \in Ticket \ {u} : ticket'[t] = ticket[t]
      PROVE  Paid'
  <2>1. GoneHeld' \subseteq GoneHeld \cup {u}
    BY <1>1, <1>6 DEF GoneHeld
  <2> QED  BY <1>2, <1>6, <2>1, PaidFor
<1> QED  BY <1>4, <1>5, <1>6

-----------------------------------------------------------------------------
(* The invariant is inductive. *)

\* It holds when nothing has happened yet.
LEMMA MatchInvInit == Init => MatchInv
<1> SUFFICES ASSUME Init PROVE MatchInv
  OBVIOUS
<1>1. /\ director.matches = {} /\ director.match = None /\ director.server = None
      /\ director = Idle /\ faults = 0 /\ leaves = 0
      /\ \A t \in Ticket : ticket[t] = NewTicket
      /\ backfill = [b \in Backfill |-> None] /\ registry = [q \in Queue |-> None]
      /\ ticket = [t \in Ticket |-> NewTicket]
  BY DEF Init, Idle
<1>2. Held = {}
  BY <1>1 DEF Held
<1>3. PICK fleet \in Fleets : Refilled(fleet)
  BY DEF Init, Fleets
<1>4. server \in [Server -> GameServers]
  <2>1. NoServer \in GameServers /\ [NoServer EXCEPT !.state = "ready", !.fleet = fleet] \in GameServers
    BY <1>3 DEF NoServer, GameServers, Fleets
  <2> QED  BY <1>3, <2>1 DEF Refilled
<1>5. \A s \in Server : /\ Untouched(s) /\ server[s].state \in {"none", "ready"}
                        /\ server[s].cap = 0 /\ server[s].backfill = None
  <2> SUFFICES ASSUME NEW s \in Server
               PROVE  /\ Untouched(s) /\ server[s].state \in {"none", "ready"}
                      /\ server[s].cap = 0 /\ server[s].backfill = None
    OBVIOUS
  <2>1. server[s] = NoServer \/ server[s] = [NoServer EXCEPT !.state = "ready", !.fleet = fleet]
    BY <1>3 DEF Refilled
  <2>2. /\ server[s].state \in {"none", "ready"} /\ server[s].cap = 0 /\ server[s].backfill = None
        /\ server[s].used = FALSE
    <3>1. CASE server[s] = NoServer
      BY <3>1 DEF NoServer
    <3>2. CASE server[s] = [NoServer EXCEPT !.state = "ready", !.fleet = fleet]
      <4>1. server[s] = [state |-> "ready", fleet |-> fleet, summoned |-> FALSE, reopened |-> FALSE,
                         backfill |-> None, used |-> FALSE, cap |-> 0]
        BY <3>2 DEF NoServer
      <4> QED  BY <4>1
    <3> QED  BY <2>1, <3>1, <3>2
  <2> QED  BY <2>2 DEF Untouched
<1>6. Types
  <2>1. NewTicket \in Tickets
    BY DEF NewTicket, Tickets
  <2>2. ticket \in [Ticket -> Tickets]
    BY <1>1, <2>1
  <2>3. resource \in [Queue -> Resources \cup {None}]
    <3>1. [spec : QueueSpecs, deleting : {FALSE}] \subseteq Resources
      BY DEF Resources
    <3> QED  BY <3>1 DEF Init
  <2>4. DirectorType
    <3>1. <<>> \in [DOMAIN <<>> -> Profiles] /\ DOMAIN <<>> \subseteq Queue
      OBVIOUS
    <3>2. /\ director.todo = <<>> /\ director.queue = None
          /\ director = [todo |-> director.todo, queue |-> director.queue,
                         matches |-> director.matches, match |-> director.match,
                         server |-> director.server]
      BY <1>1 DEF Idle
    <3> QED  BY <1>1, <3>1, <3>2 DEF DirectorType
  <2>5. /\ registry \in [Queue -> Profiles \cup {None}]
        /\ backfill \in [Backfill -> FreePlaces \cup {None}]
        /\ faults \in Nat /\ leaves \in Nat
    BY <1>1
  <2> QED  BY <1>4, <2>2, <2>3, <2>4, <2>5 DEF Types
<1>7. HeldApart
  BY <1>1, <1>2 DEF HeldApart
<1>8. HeldPlaced
  BY <1>1 DEF HeldPlaced
<1>9. BackfillsExist
  BY <1>2, <1>5 DEF BackfillsExist
<1>10. MatchesFit
  BY <1>1 DEF MatchesFit
<1>11. Room
  <2> SUFFICES ASSUME NEW s \in Server PROVE RoomLeft(s)
    BY DEF Room
  <2>1. Sent(s) \cup Coming(s) = {}
    BY <1>1 DEF Sent, Coming, NewTicket
  <2>2. Cardinality(Sent(s) \cup Coming(s)) + SlotsIn(server[s].backfill) <= server[s].cap
    BY <2>1, <1>5, FS_EmptySet DEF SlotsIn
  <2>3. \A b \in Backfill : backfill[b] = None
    BY <1>1
  <2> QED  BY <1>1, <1>5, <2>1, <2>2, <2>3 DEF RoomLeft
<1>12. Paid
  <2>1. Wasted = {} /\ GoneHeld = {}
    BY <1>2, <1>5 DEF Wasted, GoneHeld
  <2>2. Cardinality({}) = 0
    BY FS_EmptySet
  <2> QED  BY <1>1, <2>1, <2>2 DEF Paid
<1> QED  BY <1>6, <1>7, <1>8, <1>9, <1>10, <1>11, <1>12 DEF MatchInv

LEMMA TypesStep ==
    ASSUME MatchInv, Next
    PROVE  Types'
<1>1. Types /\ HeldPlaced /\ BackfillsExist
  BY DEF MatchInv
<1>2. ASSUME NEW q \in Queue, Reconcile(q) \/ Edit(q) \/ Removed(q) PROVE Types'
  BY <1>1, <1>2, QueueTypes
<1>3. CASE try_fetch_matches_for_all_queues \/ Rest \/ Crash
  BY <1>1, <1>3, TickTypes
<1>4. CASE Fetches
  BY <1>1, <1>4, FetchTypes DEF Fetches
<1>5. CASE Allocates
  BY <1>1, <1>5, AllocateTypes DEF Allocates
<1>6. CASE assign_tickets
  BY <1>1, <1>6, AssignTypes
<1>7. CASE CallFails
  BY <1>1, <1>7, CallFailsTypes
<1>8. ASSUME NEW t \in Ticket,
             \/ \E q \in Queue : Queued(t, q)
             \/ Cancel(t) \/ Release(t) \/ onPlayerJoin(t) \/ onPlayerQuit(t)
      PROVE  Types'
  BY <1>1, <1>8, TicketTypes
<1>9. CASE \/ \E b \in Backfill : BackfillEnds(b)
           \/ \E s \in Server : Acknowledge(s) \/ Start(s)
  BY <1>1, <1>9, PlaceTypes
<1> QED  BY <1>2, <1>3, <1>4, <1>5, <1>6, <1>7, <1>8, <1>9 DEF Next

LEMMA MatchInvStep ==
    ASSUME MatchInv, [Next]_vars
    PROVE  MatchInv'
<1>1. /\ Types /\ HeldApart /\ HeldPlaced /\ BackfillsExist /\ MatchesFit /\ Room /\ Paid
  BY DEF MatchInv
<1>2. ASSUME Types', HeldApart', HeldPlaced', BackfillsExist', MatchesFit', Room', Paid'
      PROVE  MatchInv'
  BY <1>2 DEF MatchInv
<1>3. CASE UNCHANGED vars
  BY <1>1, <1>3 DEF vars, MatchInv, Types, DirectorType, HeldApart, HeldPlaced, BackfillsExist,
        MatchesFit, Room, Paid, Held, SlotsIn, NeedsServer, Counted, RoomLeft, Untouched, Sent,
        Coming, Wasted, GoneHeld
<1>4. CASE Next
  <2>1. Types'
    BY <1>4, TypesStep
  <2>2. CASE Elsewhere
    <3>1. HeldApart' /\ HeldPlaced'
      BY <1>1, <2>2, ElsewhereHeld
    <3>2. BackfillsExist' /\ MatchesFit'
      BY <1>1, <2>2, ElsewhereNames
    <3>3. Room'
      BY <1>1, <2>1, <2>2, <3>2, ElsewhereRoom
    <3>4. Paid'
      BY <1>1, <2>2, ElsewherePaid
    <3> QED  BY <1>2, <2>1, <3>1, <3>2, <3>3, <3>4
  <2>3. CASE TickStep
    <3>1. HeldApart' /\ HeldPlaced' /\ BackfillsExist' /\ MatchesFit' /\ Room'
      BY <1>1, <2>1, <2>3, TickHeld
    <3>2. Paid'
      BY <1>1, <2>3, TickPaid
    <3> QED  BY <1>2, <2>1, <3>1, <3>2
  <2>4. ASSUME NEW q \in Queue, try_fetch_matches_for_queue(q) PROVE MatchInv'
    <3>1. HeldApart' /\ HeldPlaced' /\ BackfillsExist' /\ MatchesFit'
      BY <1>1, <2>4, FetchHeld
    <3>2. Room'
      BY <1>1, <2>1, <2>4, <3>1, FetchRoom
    <3>3. Paid'
      BY <1>1, <2>4, FetchPaid
    <3> QED  BY <1>2, <2>1, <3>1, <3>2, <3>3
  <2>5. ASSUME NEW m \in director.matches, try_allocate_match(m) PROVE MatchInv'
    <3>1. HeldApart' /\ HeldPlaced'
      BY <1>1, <2>5, AllocateHeld
    <3>2. BackfillsExist' /\ MatchesFit'
      BY <1>1, <2>5, AllocateNames
    <3>3. Room'
      BY <1>1, <2>1, <2>5, <3>2, AllocateRoom
    <3>4. Paid'
      BY <1>1, <2>5, AllocatePaid
    <3> QED  BY <1>2, <2>1, <3>1, <3>2, <3>3, <3>4
  <2>6. CASE assign_tickets
    <3>1. HeldApart' /\ HeldPlaced'
      BY <1>1, <2>6, AssignHeld
    <3>2. BackfillsExist' /\ MatchesFit'
      BY <1>1, <2>6, AssignNames
    <3>3. Room'
      BY <1>1, <2>1, <2>6, <3>2, AssignRoom
    <3>4. Paid'
      BY <1>1, <2>6, AssignPaid
    <3> QED  BY <1>2, <2>1, <3>1, <3>2, <3>3, <3>4
  <2>7. CASE CallFails
    <3>1. HeldApart' /\ HeldPlaced' /\ MatchesFit'
      BY <2>7, IdleHeld DEF CallFails
    <3>2. BackfillsExist'
      BY <1>1, <2>7, CallFailsNames
    <3>3. Room'
      BY <1>1, <2>1, <2>7, <3>2, CallFailsRoom
    <3>4. Paid'
      BY <1>1, <2>7, CallFailsPaid
    <3> QED  BY <1>2, <2>1, <3>1, <3>2, <3>3, <3>4
  <2> QED  BY <1>4, <2>2, <2>3, <2>4, <2>5, <2>6, <2>7
           DEF Next, Elsewhere, TickStep, Fetches, Allocates
<1> QED  BY <1>3, <1>4

(* In every behaviour of the director, the matching function and the       *)
(* servers the whole invariant always holds.                                *)
THEOREM MatchAlways == Spec => []MatchInv
<1>1. Init => MatchInv
  BY MatchInvInit
<1>2. MatchInv /\ [Next]_vars => MatchInv'
  BY MatchInvStep
<1> QED  BY <1>1, <1>2, PTL DEF Spec

-----------------------------------------------------------------------------
(* What follows from it. *)

(* The variables have their types: the profiles, the matches, the tickets, *)
(* the free places and the servers of the program.                          *)
THEOREM MatchmakingTypeOK == Spec => []TypeOK
<1>1. MatchInv => TypeOK
  <2> SUFFICES ASSUME MatchInv PROVE TypeOK
    OBVIOUS
  <2>1. Types
    BY DEF MatchInv
  <2>2. \A q \in Queue : /\ resource[q] # None => resource[q].spec \in QueueSpecs
                         /\ registry[q] # None => registry[q].max \in Nat
    BY <2>1 DEF Types, Resources, Profiles
  <2>3. /\ director.matches \subseteq Matches /\ director.match \in Matches \cup {None}
        /\ director.server \in Server \cup {None}
    BY <2>1 DEF Types, DirectorType
  <2>4. /\ \A b \in Backfill : backfill[b] # None => backfill[b].slots \in Nat
        /\ \A s \in Server : server[s].cap \in Nat /\ server[s].backfill \in Backfill \cup {None}
    BY <2>1 DEF Types, FreePlaces, GameServers
  <2>5. ticket \in [Ticket -> [state : {"new", "active", "pending", "assigned", "gone"},
                               queue : Queue \cup {None}, server : Server \cup {None}]]
    BY <2>1 DEF Types, Tickets
  <2> QED  BY <2>2, <2>3, <2>4, <2>5 DEF TypeOK
<1> QED  BY <1>1, MatchAlways, PTL

(* A server that was allocated, and never reopened, never holds more       *)
(* players than the match it was given to had places.                      *)
THEOREM MatchmakingServerNotOverfilled == Spec => []ServerNotOverfilled
<1>1. MatchInv => ServerNotOverfilled
  <2> SUFFICES ASSUME MatchInv, NEW s \in Server, ~server[s].summoned, ~server[s].reopened
               PROVE  Cardinality(Sent(s)) <= server[s].cap
    BY DEF ServerNotOverfilled
  <2>1. Types /\ BackfillsExist /\ RoomLeft(s)
    BY DEF MatchInv, Room, Counted
  <2>2. /\ IsFiniteSet(Sent(s) \cup Coming(s)) /\ Cardinality(Sent(s) \cup Coming(s)) \in Nat
        /\ server[s].cap \in Nat /\ SlotsIn(server[s].backfill) \in Nat
    BY <2>1, RoomTypes, SlotsType
  <2>3. /\ Cardinality(Sent(s)) \in Nat
        /\ Cardinality(Sent(s)) <= Cardinality(Sent(s) \cup Coming(s))
    <3>1. Sent(s) \subseteq Sent(s) \cup Coming(s)
      OBVIOUS
    <3> HIDE DEF Sent, Coming
    <3> QED  BY <2>2, <3>1, FS_Subset, FS_CardinalityType
  <2>4. Cardinality(Sent(s) \cup Coming(s)) + SlotsIn(server[s].backfill) <= server[s].cap
    BY <2>1 DEF RoomLeft
  <2> HIDE DEF Sent, Coming, SlotsIn
  <2> QED  BY <2>2, <2>3, <2>4
<1> QED  BY <1>1, MatchAlways, PTL

(* Each server that was taken, and that no player was sent to, is paid for *)
(* by a failure or by a player who left.                                    *)
THEOREM MatchmakingWastedOnlyByFailures == Spec => []WastedOnlyByFailures
<1>1. MatchInv => WastedOnlyByFailures
  <2> SUFFICES ASSUME MatchInv PROVE Cardinality(Wasted) <= faults + leaves
    BY DEF WastedOnlyByFailures, Wasted
  <2>1. faults \in Nat /\ leaves \in Nat
        /\ Cardinality(Wasted) + Cardinality(GoneHeld) <= faults + leaves
    BY DEF MatchInv, Types, Paid
  <2>2. Cardinality(Wasted) \in Nat /\ Cardinality(GoneHeld) \in Nat
    BY WasteTypes
  <2> HIDE DEF Wasted, GoneHeld
  <2> QED  BY <2>1, <2>2
<1> QED  BY <1>1, MatchAlways, PTL

(* What the matching function proposes for a queue, in whatever order the  *)
(* tickets and the free places come: nobody is in two matches, no match is *)
(* larger than its places, what a backfill has left is what its match      *)
(* leaves, and fewer players than the smallest match stay behind.          *)
THEOREM MatchmakingBatchServesTheQueue == Spec => BatchServesTheQueue
<1>1. ASSUME MatchInv, NEW q \in Queue, try_fetch_matches_for_queue(q)
      PROVE  Proposes(q)
  <2>1. Types
    BY <1>1 DEF MatchInv
  <2>2. PICK b, made : Effect(q, b, made)
    BY <1>1, <2>1, Fetched
  <2> DEFINE matches == made.matches
             profile == director.todo[q]
             behind == Waiting(q) \ UNION {m.tickets : m \in matches}
  <2>3. director'.matches = matches /\ profile.max \in Nat
    BY <2>2 DEF Effect, Profiles
  <2>4. /\ \A m \in matches : m \in Matches /\ m.tickets # {} /\ m.tickets \subseteq Waiting(q)
        /\ Apart(matches)
        /\ \A m \in matches : ~NeedsServer(m) =>
              /\ m.backfill \in Places(q)
              /\ Cardinality(m.tickets) + backfill'[m.backfill].slots = backfill[m.backfill].slots
        /\ \A m \in matches : NeedsServer(m) /\ ~m.fresh =>
              m.backfill = None /\ Cardinality(m.tickets) = profile.max
        /\ \A m \in matches : m.fresh =>
              /\ m.backfill = b /\ backfill'[b] # None
              /\ Cardinality(m.tickets) + backfill'[b].slots = profile.max /\ backfill'[b].slots > 0
        /\ backfill' \in [Backfill -> FreePlaces \cup {None}]
        /\ \A p \in Backfill \ {b} : backfill[p] # None => backfill'[p] # None
    BY <2>1, <2>2, FetchFacts
  <2>5. b \in Backfill /\ backfill[b] = None
    BY <2>2 DEF Effect
  <2>6. Cardinality(behind) < Smallest(profile) \/ behind = {}
    <3>1. PICK tickets \in Orders(Ticket) :
              /\ ToSet(tickets) = Waiting(q)
              /\ Proposal(profile, [p \in Places(q) |-> backfill[p]], tickets, b, made)
      BY <2>2 DEF Effect
    <3>2. Behind(tickets, made.matches) = behind
      BY <3>1 DEF Behind
    <3> HIDE DEF behind, profile
    <3> QED  BY <3>1, <3>2 DEF Proposal
  <2>7. ASSUME NEW m \in matches
        PROVE  /\ Cardinality(m.tickets) > 0 /\ m.tickets \subseteq Waiting(q)
               /\ IF m.backfill = None THEN Cardinality(m.tickets) = profile.max
                  ELSE /\ Cardinality(m.tickets) + backfill'[m.backfill].slots =
                             IF m.fresh THEN profile.max ELSE backfill[m.backfill].slots
                       /\ backfill'[m.backfill].slots >= 0
                       /\ m.fresh => backfill'[m.backfill].slots > 0
    <3>1. m.tickets # {} /\ m.tickets \subseteq Waiting(q) /\ m.tickets \subseteq Ticket
      BY <2>4 DEF Matches
    <3>2. Cardinality(m.tickets) \in Nat /\ Cardinality(m.tickets) # 0
      BY <3>1, TicketsFinite, FS_EmptySet
    <3>3. \A p \in Backfill : backfill'[p] # None => backfill'[p].slots \in Nat
      BY <2>4 DEF FreePlaces
    <3>4. CASE m.backfill = None
      <4>1. ~m.fresh
        BY <2>4, <2>5, <3>4, NoneFacts
      <4>2. Cardinality(m.tickets) = profile.max
        BY <2>4, <3>4, <4>1 DEF NeedsServer
      <4> QED  BY <3>1, <3>2, <3>4, <4>2
    <3>5. CASE m.backfill # None /\ m.fresh
      <4>1. /\ m.backfill = b /\ backfill'[b] # None
            /\ Cardinality(m.tickets) + backfill'[b].slots = profile.max /\ backfill'[b].slots > 0
        BY <2>4, <3>5
      <4> QED  BY <2>5, <3>1, <3>2, <3>3, <3>5, <4>1
    <3>6. CASE m.backfill # None /\ ~m.fresh
      <4>1. /\ m.backfill \in Places(q)
            /\ Cardinality(m.tickets) + backfill'[m.backfill].slots = backfill[m.backfill].slots
        BY <2>4, <3>6 DEF NeedsServer
      <4>2. m.backfill \in Backfill /\ backfill[m.backfill] # None /\ m.backfill # b
        BY <2>5, <4>1 DEF Places
      <4>3. backfill'[m.backfill].slots \in Nat
        BY <2>4, <3>3, <4>2
      <4> QED  BY <3>1, <3>2, <3>6, <4>1, <4>3
    <3> QED  BY <3>4, <3>5, <3>6
  <2>8. \A m, n \in matches : m # n => m.tickets \cap n.tickets = {}
    BY <2>4 DEF Apart
  <2> HIDE DEF matches
  <2> QED  BY <2>3, <2>6, <2>7, <2>8 DEF Proposes, matches
<1>2. ASSUME MatchInv, [Next]_vars, NEW q \in DOMAIN director.todo,
             director'.queue # None, q \notin DOMAIN director'.todo
      PROVE  Proposes(q)
  <2>1. Types /\ DOMAIN director.todo \subseteq Queue /\ HeldPlaced
    BY <1>2 DEF MatchInv, Types, DirectorType
  <2>2. director' # director /\ ~(director' = Idle)
    BY <1>2 DEF Idle
  <2>3. Next
    BY <1>2, <2>2 DEF vars
  <2>4. ~Elsewhere
    BY <2>1, <2>2, ElsewhereTickets
  <2>5. ~TickStep
    <3>1. ~try_fetch_matches_for_all_queues
      BY <1>2 DEF try_fetch_matches_for_all_queues, Idle
    <3> QED  BY <2>2, <3>1 DEF TickStep, Rest, Crash, FetchFails
  <2>6. ~CallFails
    BY <2>2 DEF CallFails
  <2>7. ~assign_tickets
    <3>1. assign_tickets => director'.todo = director.todo
      BY <2>1 DEF assign_tickets, Types, DirectorType
    <3> QED  BY <1>2, <3>1
  <2>8. ASSUME NEW m \in director.matches, try_allocate_match(m) PROVE FALSE
    <3>1. m \in Matches
      BY <2>1 DEF Types, DirectorType
    <3>2. PICK s \in Server : director' = Taking(m, s)
      BY <2>2, <2>8, <3>1, AllocateOutcomes
    <3>3. director'.todo = director.todo
      BY <2>1, <3>2, TakingType
    <3> QED  BY <1>2, <3>3
  <2>9. PICK p \in Queue : try_fetch_matches_for_queue(p)
    BY <2>3, <2>4, <2>5, <2>6, <2>7, <2>8 DEF Next, Elsewhere, TickStep, Fetches, Allocates
  <2>10. p = q
    <3>1. PICK b, made : Effect(p, b, made)
      BY <2>1, <2>9, Fetched
    <3>2. director'.todo = [r \in DOMAIN director.todo \ {p} |-> director.todo[r]]
      BY <3>1 DEF Effect
    <3>3. DOMAIN director'.todo = DOMAIN director.todo \ {p}
      BY <3>2
    <3> QED  BY <1>2, <3>3
  <2> QED  BY <1>1, <1>2, <2>9, <2>10
<1>3. MatchInv /\ [Next]_vars =>
          [\A q \in DOMAIN director.todo :
               director'.queue # None /\ q \notin DOMAIN director'.todo => Proposes(q)]_vars
  BY <1>2
<1> QED  BY <1>3, MatchAlways, PTL DEF Spec, BatchServesTheQueue
=============================================================================
