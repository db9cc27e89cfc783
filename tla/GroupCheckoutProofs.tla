--------------------------- MODULE GroupCheckoutProofs ---------------------------
(* Proofs about GroupCheckout: the counters of every layer agree with the         *)
(* allocations and the ledger, no unit is lost between pools, lanes and invoices, *)
(* and a checkout ends as a whole, for any number of checkouts, lines, keys,      *)
(* layers, lanes and requests that walk at the same time.                         *)
EXTENDS GroupCheckout, SumProofs

AllocRecord ==
  [status : {"NONE"} \cup Live \cup Ended, held : Holding, released : BOOLEAN, due : BOOLEAN,
   moved : {"NONE", "PREPARED", "CONSUMED", "COMPENSATED"}]
CheckoutRecord ==
  [status : Statuses, lane : Lanes \cup {NoOne}, sold : BOOLEAN,
   fiscal : {"NONE", "NOT_REQUIRED", "PENDING", "DONE", "UNCERTAIN"}]
LaneRecord == [status : {"AVAILABLE", "LOCKED", "DIRTY"}, holder : Checkouts \cup {NoOne}]
WorkerRecord ==
  [at : {"idle", "ready", "reading"}, co : Checkouts \cup {NoOne}, stop : Stops, fresh : BOOLEAN,
   changed : SUBSET Layers, ledger : Holding, reserved : Holding]
BalanceRecord == [actual : Int, reserved : Nat]

\* TypeOK, but for the sign of the cached quantity of a layer.
SagaType ==
    /\ checkout \in [Checkouts -> CheckoutRecord]
    /\ alloc \in [Allocs -> AllocRecord]
    /\ balance \in [Layers -> BalanceRecord]
    /\ ledger \in Holding
    /\ lane \in [Lanes -> LaneRecord]
    /\ stage \in [Lanes -> Nat]
    /\ stray \subseteq StrayLanes
    /\ worker \in [Workers -> WorkerRecord]

\* What the status of an allocation says about it.
Positions(al) ==
    \A a \in Allocs :
        /\ al[a].status = "NONE" => al[a] = NoAllocation
        /\ al[a].status = "RESERVED" => ~al[a].released /\ al[a].moved = "NONE"
        /\ al[a].status \in {"PREPARED"} \cup Ended => al[a].released
        /\ al[a].status # "NONE" => Units(al[a].held) = Want

\* What the status of a checkout c, whose row is r, says about it and about its allocations.
Basket(r, al, c) ==
    /\ r.status = "NONE" => r = NoCheckout
    /\ r.status # "NONE" => r.lane \in Lanes
    /\ r.status \in Working => ~r.sold
    /\ r.status \in {"FISCAL_PENDING", "MANUAL_REVIEW"} => r.sold
    /\ \A a \in Own(c) :
        /\ al[a].moved = "PREPARED" <=> r.status = "STOCK_PREPARED"
        /\ r.sold => al[a].status = "CONSUMED" /\ al[a].moved = "CONSUMED"
        /\ r.status \in Stopped => al[a].status \notin Live
CheckoutInv == \A c \in Checkouts : Basket(checkout[c], alloc, c)

\* A lane is locked for exactly one checkout under way.
LaneInv ==
    /\ \A c \in Checkouts : checkout[c].status \in Working =>
            lane[checkout[c].lane] = [status |-> "LOCKED", holder |-> c]
    /\ \A l \in Lanes :
            /\ lane[l].status = "AVAILABLE" => lane[l].holder = NoOne
            /\ lane[l].status = "LOCKED" =>
                  lane[l].holder # NoOne /\ checkout[lane[l].holder].status \in Working
            /\ lane[l].holder # NoOne => checkout[lane[l].holder].lane = l

\* What waits in a lane is the whole basket of the checkout that stopped there.
StageInv ==
    /\ \A c \in Checkouts : checkout[c].status = "STOCK_PREPARED" =>
            stage[checkout[c].lane] = Lines * Want
    /\ \A l \in Lanes : stage[l] # 0 => \E c \in Checkouts :
            checkout[c].status = "STOCK_PREPARED" /\ checkout[c].lane = l

\* A walk whose copy of the checkout is not outdated walks an open checkout.
WorkerInv ==
    \A w \in Workers : worker[w].at # "idle" =>
        /\ worker[w].co \in Checkouts
        /\ worker[w].fresh => checkout[worker[w].co].status = "RESERVING"

SagaInv ==
    SagaType /\ Positions(alloc) /\ CheckoutInv /\ LaneInv /\ StageInv /\ WorkerInv /\ UnitsAddUp

\* The counters of a layer, for allocations al, balances b, ledger led and outdated layers O.
ReservedIn(al) == {a \in Allocs : al[a].status = "RESERVED"}
StockOf(al, b, led, O) ==
    \A p \in Layers : /\ b[p].reserved =< b[p].actual
                      /\ p \notin O => b[p].actual = led[p]
                      /\ b[p].reserved = Held(al, ReservedIn(al))[p]

\* What a walk has read of the layers whose rows did not change is still so.
SnapshotInv ==
    \A w \in Workers : worker[w].at = "reading" =>
        \A p \in Layers \ worker[w].changed : worker[w].ledger[p] = ledger[p]

\* Where the database refuses to overwrite a row that changed, no hold is outdated.
OutdatedInv == outdated \subseteq Layers /\ (SnapshotIsolation => outdated = {})

StockInv == StockOf(alloc, balance, ledger, outdated) /\ SnapshotInv /\ OutdatedInv

-----------------------------------------------------------------------------
(* Quantities.                                                                 *)

LEMMA MinusIs ==
  ASSUME NEW x \in Int, NEW y \in Int
  PROVE  Minus(x, y) = IF x >= y THEN x - y ELSE 0
<1> DEFINE z == x - y
           m == IF z >= 0 THEN z ELSE 0
<1>1. z \in Int
  OBVIOUS
<1> HIDE DEF z
<1>2. m \in {z, 0} /\ \A u \in {z, 0} : m >= u
  BY <1>1
<1>3. \A v \in {z, 0} : (\A u \in {z, 0} : v >= u) => v = m
  BY <1>1
<1>4. (CHOOSE v \in {z, 0} : \A u \in {z, 0} : v >= u) = m
  <2> HIDE DEF m
  <2> QED BY <1>2, <1>3
<1> QED BY <1>4 DEF Minus, Max, z

LEMMA MinIs ==
  ASSUME NEW x \in Int, NEW y \in Int
  PROVE  Min({x, y}) = IF x =< y THEN x ELSE y
<1> DEFINE m == IF x =< y THEN x ELSE y
<1>2. m \in {x, y} /\ \A u \in {x, y} : m =< u
  OBVIOUS
<1>3. \A v \in {x, y} : (\A u \in {x, y} : v =< u) => v = m
  OBVIOUS
<1>4. (CHOOSE v \in {x, y} : \A u \in {x, y} : v =< u) = m
  <2> HIDE DEF m
  <2> QED BY <1>2, <1>3
<1> QED BY <1>4 DEF Min

LEMMA Finite ==
  /\ IsFiniteSet(Allocs) /\ IsFiniteSet(Layers)
  /\ \A c \in Checkouts : /\ Own(c) \subseteq Allocs /\ IsFiniteSet(Own(c))
                          /\ Cardinality(Own(c)) = Lines
  /\ \A c, d \in Checkouts : c # d => Own(c) \cap Own(d) = {}
<1>1. IsFiniteSet(Layers) /\ IsFiniteSet(1 .. Lines) /\ Cardinality(1 .. Lines) = Lines
  <2>1. LayerCount \in Int /\ Lines \in Int /\ 1 \in Int /\ ~(1 > Lines) /\ Lines - 1 + 1 = Lines
    BY ConstantsAssumption
  <2> QED BY <2>1, FS_Interval DEF Layers
<1>2. IsFiniteSet(Checkouts \X (1 .. Lines)) /\ IsFiniteSet(Keys \X {0})
  BY <1>1, FS_Product, FS_Singleton, ConstantsAssumption
<1>3. IsFiniteSet(Allocs)
  BY <1>2, FS_Union DEF Allocs
<1>4. ASSUME NEW c \in Checkouts
      PROVE  Own(c) \subseteq Allocs /\ IsFiniteSet(Own(c)) /\ Cardinality(Own(c)) = Lines
  <2>1. IsFiniteSet({c}) /\ Cardinality({c}) = 1
    BY FS_Singleton
  <2>2. IsFiniteSet(Own(c)) /\ Cardinality(Own(c)) = 1 * Lines
    <3>1. Own(c) = {c} \X (1 .. Lines)
      BY DEF Own
    <3>2. /\ IsFiniteSet({c} \X (1 .. Lines))
          /\ Cardinality({c} \X (1 .. Lines)) = Cardinality({c}) * Cardinality(1 .. Lines)
      BY <1>1, <2>1, FS_Product
    <3> QED BY <1>1, <2>1, <3>1, <3>2
  <2> QED BY <2>2, ConstantsAssumption DEF Own, Allocs
<1>5. \A c, d \in Checkouts : c # d => Own(c) \cap Own(d) = {}
  BY DEF Own
<1> QED BY <1>1, <1>3, <1>4, <1>5

\* What an allocation holds of one layer, as a function to be summed.
HeldAt(al, p) == [a \in Allocs |-> al[a].held[p]]

LEMMA HeldIs ==
  ASSUME NEW al \in [Allocs -> AllocRecord], NEW A \in SUBSET Allocs
  PROVE  /\ Held(al, A) \in Holding
         /\ \A p \in Layers : /\ Held(al, A)[p] = SumOver(HeldAt(al, p), A)
                              /\ Nats(HeldAt(al, p), Allocs) /\ Ints(HeldAt(al, p), Allocs)
<1>0. IsFiniteSet(A)
  BY Finite, FS_Subset
<1>1. ASSUME NEW p \in Layers
      PROVE  /\ Held(al, A)[p] = SumOver(HeldAt(al, p), A) /\ Held(al, A)[p] \in Nat
             /\ Nats(HeldAt(al, p), Allocs) /\ Ints(HeldAt(al, p), Allocs)
  <2> DEFINE f == [a \in A |-> al[a].held[p]]
             g == HeldAt(al, p)
  <2>1. Nats(g, Allocs) /\ Ints(g, Allocs) /\ Nats(g, A)
    BY DEF Nats, Ints, HeldAt, AllocRecord, Holding
  <2>2. \A a \in A : f[a] = g[a]
    BY DEF HeldAt
  <2>3. Held(al, A)[p] = SumOver(f, A)
    BY DEF Held
  <2> HIDE DEF f, g
  <2>4. SumOver(f, A) = SumOver(g, A)
    BY <1>0, <2>2, SumAgree
  <2>5. SumOver(g, A) \in Nat
    BY <1>0, <2>1, SumNat
  <2> QED BY <2>1, <2>3, <2>4, <2>5 DEF g
<1>2. Held(al, A) = [p \in Layers |-> Held(al, A)[p]]
  BY DEF Held
<1> QED BY <1>1, <1>2 DEF Holding

\* The units that a set of allocations holds, layer by layer or one by one.
LEMMA UnitsOfHeld ==
  ASSUME NEW al \in [Allocs -> AllocRecord], NEW A \in SUBSET Allocs,
         \A a \in A : Units(al[a].held) = Want
  PROVE  Units(Held(al, A)) = Want * Cardinality(A)
<1> DEFINE G == {X \in SUBSET A : Units(Held(al, X)) = Want * Cardinality(X)}
<1>0. IsFiniteSet(A) /\ IsFiniteSet(Layers)
  BY Finite, FS_Subset
<1>1. {} \in G
  <2>1. \A p \in Layers : Held(al, {})[p] = 0
    BY HeldIs, SumEmpty
  <2>2. Units(Held(al, {})) = 0
    BY <1>0, <2>1, SumZero DEF Units
  <2> QED BY <2>2, FS_EmptySet, ConstantsAssumption
<1>2. ASSUME NEW X \in SUBSET A, NEW x \in A \ X, X \in G
      PROVE  X \cup {x} \in G
  <2> DEFINE f == Held(al, X)
             g == al[x].held
             h == Held(al, X \cup {x})
  <2>1. IsFiniteSet(X) /\ x \in Allocs /\ X \in SUBSET Allocs /\ X \cup {x} \in SUBSET Allocs
    BY <1>0, FS_Subset
  <2>2. ASSUME NEW p \in Layers
        PROVE  h[p] = f[p] + g[p]
    <3>1. /\ f[p] = SumOver(HeldAt(al, p), X) /\ h[p] = SumOver(HeldAt(al, p), X \cup {x})
          /\ HeldAt(al, p)[x] = g[p]
      BY <2>1, HeldIs DEF HeldAt
    <3>2. Ints(HeldAt(al, p), Allocs) /\ Ints(HeldAt(al, p), X \cup {x})
      BY <2>1, HeldIs DEF Ints
    <3>3. h[p] = g[p] + f[p]
      BY <2>1, <3>1, <3>2, SumAdd
    <3>4. f[p] \in Nat /\ g[p] \in Nat
      BY <2>1, HeldIs DEF AllocRecord, Holding
    <3> HIDE DEF f, g, h
    <3> QED BY <3>3, <3>4
  <2>3. Ints(f, Layers) /\ Ints(g, Layers)
    BY <2>1, HeldIs DEF Ints, AllocRecord, Holding
  <2>4. Units(g) = Want /\ Units(f) = Want * Cardinality(X)
    BY <1>2
  <2>5. Units(h) = Units(f) + Units(g)
    <3> HIDE DEF f, g, h
    <3> QED BY <1>0, <2>2, <2>3, SumPlus DEF Units
  <2>6. Cardinality(X \cup {x}) = Cardinality(X) + 1 /\ Cardinality(X) \in Nat
    BY <2>1, FS_AddElement, FS_CardinalityType
  <2>7. Want * (Cardinality(X) + 1) = Want * Cardinality(X) + Want
    BY <2>6, ConstantsAssumption
  <2> HIDE DEF f, g
  <2> QED BY <2>4, <2>5, <2>6, <2>7 DEF h
<1>3. A \in G
  <2> HIDE DEF G
  <2> QED BY <1>0, <1>1, <1>2, AddInduction
<1> QED BY <1>3

\* A plan that finds enough takes what is wanted, oldest layers first.
LEMMA PlanIsWhole ==
  ASSUME NEW seen, seen.ledger \in Holding, seen.reserved \in Holding
  PROVE  /\ Plan(seen) \in Holding
         /\ Enough(seen) => Units(Plan(seen)) = Want
<1> DEFINE av == [q \in Layers |-> Available(seen, q)]
           old(p) == SumOver(av, 1 .. (p - 1))
           pl == Plan(seen)
           G == {n \in Nat : n =< LayerCount =>
                    SumOver(pl, 1 .. n) = IF old(n + 1) =< Want THEN old(n + 1) ELSE Want}
<1>0. Want \in Nat /\ LayerCount \in Nat
  BY ConstantsAssumption
<1>1. \A q \in Layers : Available(seen, q) \in Nat
  BY MinusIs DEF Available, Holding
<1>2. ASSUME NEW p \in Nat, p =< LayerCount + 1
      PROVE  /\ IsFiniteSet(1 .. (p - 1)) /\ Nats(av, 1 .. (p - 1))
             /\ 1 .. (p - 1) \subseteq Layers /\ old(p) \in Nat /\ Older(seen, p) = old(p)
  <2>1. IsFiniteSet(1 .. (p - 1))
    <3>1. 1 \in Int /\ p - 1 \in Int
      BY <1>2
    <3> QED BY <3>1, FS_Interval
  <2>2. 1 .. (p - 1) \subseteq Layers
    BY <1>0, <1>2 DEF Layers
  <2>3. Nats(av, 1 .. (p - 1))
    BY <1>1, <2>2 DEF Nats
  <2>4. old(p) \in Nat
    <3> HIDE DEF av
    <3> QED BY <2>1, <2>3, SumNat
  <2> DEFINE f == [q \in 1 .. (p - 1) |-> Available(seen, q)]
  <2>5. \A q \in 1 .. (p - 1) : f[q] = av[q]
    BY <2>2
  <2>6. Older(seen, p) = SumOver(f, 1 .. (p - 1))
    BY DEF Older
  <2> HIDE DEF f, av
  <2> QED BY <2>1, <2>2, <2>3, <2>4, <2>5, <2>6, SumAgree
<1>3. ASSUME NEW p \in Layers
      PROVE  /\ pl[p] \in Nat
             /\ pl[p] = IF old(p) >= Want THEN 0
                        ELSE IF av[p] =< Want - old(p) THEN av[p] ELSE Want - old(p)
  <2>1. p \in Nat /\ p =< LayerCount + 1
    BY <1>0 DEF Layers
  <2>2. Older(seen, p) = old(p) /\ old(p) \in Nat /\ av[p] = Available(seen, p) /\ av[p] \in Nat
    BY <1>1, <1>2, <2>1
  <2>3. pl[p] = Min({av[p], Minus(Want, old(p))})
    BY <2>2 DEF Plan
  <2> HIDE DEF av, old, pl
  <2>4. Minus(Want, old(p)) = IF Want >= old(p) THEN Want - old(p) ELSE 0
    BY <1>0, <2>2, MinusIs
  <2>5. Minus(Want, old(p)) \in Nat
    BY <1>0, <2>2, <2>4
  <2>6. pl[p] = IF av[p] =< Minus(Want, old(p)) THEN av[p] ELSE Minus(Want, old(p))
    BY <2>2, <2>3, <2>5, MinIs
  <2> QED BY <1>0, <2>2, <2>4, <2>5, <2>6
<1>4. pl \in Holding
  <2>1. pl = [p \in Layers |-> pl[p]]
    BY DEF Plan
  <2> HIDE DEF pl
  <2> QED BY <1>3, <2>1 DEF Holding
<1>5. 0 \in G
  <2>1. 1 .. 0 = {} /\ 1 .. ((0 + 1) - 1) = {}
    OBVIOUS
  <2> HIDE DEF pl, av
  <2> QED BY <1>0, <2>1, SumEmpty
<1>6. ASSUME NEW n \in Nat, n \in G, n + 1 =< LayerCount
      PROVE  SumOver(pl, 1 .. (n + 1)) = IF old(n + 2) =< Want THEN old(n + 2) ELSE Want
  <2> DEFINE m == n + 1
             X == 1 .. n
  <2>1. /\ m \in Layers /\ m \in Nat /\ m =< LayerCount + 1 /\ n =< LayerCount + 1
        /\ 1 .. m = X \cup {m} /\ m \notin X /\ m - 1 = n /\ (n + 2) - 1 = m /\ n + 2 \in Nat
    BY <1>0, <1>6 DEF Layers
  <2>2. IsFiniteSet(X) /\ X \subseteq Layers /\ old(m) = SumOver(av, X) /\ old(m) \in Nat
    BY <1>2, <2>1
  <2>3. SumOver(pl, X) = IF old(m) =< Want THEN old(m) ELSE Want
    BY <1>0, <1>6
  <2>4. old(n + 2) = SumOver(av, X \cup {m})
    BY <2>1
  <2>5. Ints(av, X \cup {m}) /\ Ints(pl, X \cup {m}) /\ av[m] \in Nat
    <3>1. \A q \in Layers : av[q] \in Nat
      BY <1>1
    <3>2. \A q \in Layers : pl[q] \in Nat
      BY <1>3
    <3>3. X \cup {m} \subseteq Layers
      BY <2>1, <2>2
    <3> HIDE DEF av, pl, X, m
    <3> QED BY <3>1, <3>2, <3>3 DEF Ints
  <2> HIDE DEF av, pl, old, X, G
  <2>6. old(n + 2) = av[m] + old(m)
    BY <2>1, <2>2, <2>4, <2>5, SumAdd
  <2>7. SumOver(pl, X \cup {m}) = pl[m] + SumOver(pl, X)
    BY <2>1, <2>2, <2>5, SumAdd
  <2>8. pl[m] = IF old(m) >= Want THEN 0
                ELSE IF av[m] =< Want - old(m) THEN av[m] ELSE Want - old(m)
    BY <1>3, <2>1
  <2>9. SumOver(pl, X \cup {m}) = IF old(n + 2) =< Want THEN old(n + 2) ELSE Want
    <3> HIDE DEF m
    <3> QED BY <1>0, <2>2, <2>3, <2>5, <2>6, <2>7, <2>8
  <2> QED BY <2>1, <2>9
<1>7. LayerCount \in G
  <2>1. \A n \in Nat : n \in G => n + 1 \in G
    <3> SUFFICES ASSUME NEW n \in Nat, n \in G, n + 1 =< LayerCount
                 PROVE  SumOver(pl, 1 .. (n + 1)) =
                           IF old((n + 1) + 1) =< Want THEN old((n + 1) + 1) ELSE Want
      <4> HIDE DEF pl, old
      <4> QED OBVIOUS
    <3>1. (n + 1) + 1 = n + 2
      OBVIOUS
    <3> HIDE DEF pl, old, G
    <3> QED BY <1>6, <3>1
  <2> HIDE DEF G
  <2> QED BY <1>0, <1>5, <2>1, NatSetInduction
<1>8. ASSUME Enough(seen) PROVE Units(pl) = Want
  <2>1. Older(seen, LayerCount + 1) = old(LayerCount + 1)
    BY <1>0, <1>2
  <2>2. old(LayerCount + 1) >= Want /\ old(LayerCount + 1) \in Nat
    BY <1>0, <1>2, <1>8, <2>1 DEF Enough
  <2>3. SumOver(pl, 1 .. LayerCount) = IF old(LayerCount + 1) =< Want THEN old(LayerCount + 1) ELSE Want
    BY <1>0, <1>7
  <2> HIDE DEF old, pl
  <2> QED BY <1>0, <2>2, <2>3 DEF Units, Layers
<1> QED BY <1>4, <1>8

\* A basket whose lines were all reserved in full.
LEMMA WholeBasket ==
  ASSUME NEW al \in [Allocs -> AllocRecord], Positions(al), NEW c \in Checkouts,
         \A a \in Own(c) : al[a].status # "NONE"
  PROVE  Units(Held(al, Own(c))) = Lines * Want
<1>1. \A a \in Own(c) : Units(al[a].held) = Want
  BY Finite DEF Positions
<1>2. Units(Held(al, Own(c))) = Want * Cardinality(Own(c)) /\ Cardinality(Own(c)) = Lines
  BY <1>1, Finite, UnitsOfHeld
<1> QED BY <1>2, ConstantsAssumption

LEMMA UnitsNat ==
  ASSUME NEW q \in Holding
  PROVE  Units(q) \in Nat
BY Finite, SumNat DEF Units, Holding, Nats

-----------------------------------------------------------------------------
(* What the transitions of allocations do to them.                             *)

LEMMA ReservedKeeps ==
  ASSUME NEW al \in [Allocs -> AllocRecord], Positions(al), NEW a \in Allocs,
         NEW take \in Holding, Units(take) = Want
  PROVE  /\ Reserved(al, a, take) \in [Allocs -> AllocRecord]
         /\ Positions(Reserved(al, a, take))
         /\ \A x \in Allocs : x # a => Reserved(al, a, take)[x] = al[x]
         /\ Reserved(al, a, take)[a].status = "RESERVED"
         /\ Reserved(al, a, take)[a].moved = "NONE"
         /\ Reserved(al, a, take)[a].held = take
<1> DEFINE r == [status |-> "RESERVED", held |-> take, released |-> FALSE, due |-> FALSE, moved |-> "NONE"]
           be == Reserved(al, a, take)
<1>1. r \in AllocRecord
  BY DEF AllocRecord, Live
<1>2. be = [al EXCEPT ![a] = r]
  BY DEF Reserved
<1>3. /\ r.status = "RESERVED" /\ r.moved = "NONE" /\ r.held = take /\ ~r.released
      /\ r.status \notin {"PREPARED"} \cup Ended
  BY DEF Ended
<1> HIDE DEF r, be
<1>4. be \in [Allocs -> AllocRecord] /\ be[a] = r /\ \A x \in Allocs : x # a => be[x] = al[x]
  BY <1>1, <1>2
<1>5. Positions(be)
  BY <1>3, <1>4 DEF Positions
<1> QED BY <1>3, <1>4, <1>5 DEF be

LEMMA FinishKeeps ==
  ASSUME NEW al \in [Allocs -> AllocRecord], Positions(al), NEW B \in SUBSET Allocs, NEW s \in Ended
  PROVE  /\ Finish(al, B, s) \in [Allocs -> AllocRecord]
         /\ Positions(Finish(al, B, s))
         /\ \A a \in Allocs :
               /\ Finish(al, B, s)[a].held = al[a].held /\ Finish(al, B, s)[a].moved = al[a].moved
               /\ Finish(al, B, s)[a].due = al[a].due
               /\ Finish(al, B, s)[a].status = IF a \in B /\ al[a].status \in Live THEN s ELSE al[a].status
<1> DEFINE be == Finish(al, B, s)
<1>1. ASSUME NEW a \in Allocs, a \in B, al[a].status \in Live
      PROVE  be[a] = [al[a] EXCEPT !.status = s, !.released = TRUE]
  BY <1>1 DEF Finish
<1>2. ASSUME NEW a \in Allocs, ~(a \in B /\ al[a].status \in Live)
      PROVE  be[a] = al[a]
  BY <1>2 DEF Finish
<1>3. be = [a \in Allocs |-> be[a]]
  BY DEF Finish
<1> HIDE DEF be
<1>4. ASSUME NEW a \in Allocs
      PROVE  /\ be[a] \in AllocRecord
             /\ be[a].held = al[a].held /\ be[a].moved = al[a].moved /\ be[a].due = al[a].due
             /\ be[a].status = IF a \in B /\ al[a].status \in Live THEN s ELSE al[a].status
             /\ be[a].released = IF a \in B /\ al[a].status \in Live THEN TRUE ELSE al[a].released
             /\ ~(a \in B /\ al[a].status \in Live) => be[a] = al[a]
  <2>1. al[a] \in AllocRecord /\ s \in {"NONE"} \cup Live \cup Ended
    OBVIOUS
  <2>2. CASE a \in B /\ al[a].status \in Live
    <3> DEFINE r == al[a]  n == [r EXCEPT !.status = s, !.released = TRUE]
    <3>1. be[a] = n
      BY <1>1, <2>2
    <3>2. r \in AllocRecord
      OBVIOUS
    <3> HIDE DEF r
    <3>3. /\ n \in AllocRecord /\ n.status = s /\ n.released = TRUE
          /\ n.held = r.held /\ n.moved = r.moved /\ n.due = r.due
      BY <2>1, <3>2 DEF AllocRecord
    <3> HIDE DEF n
    <3> QED BY <2>2, <3>1, <3>3 DEF r
  <2>3. CASE ~(a \in B /\ al[a].status \in Live)
    BY <1>2, <2>1, <2>3
  <2> QED BY <2>2, <2>3
<1>5. \A st \in Ended : st \notin Live \cup {"NONE"}
  BY DEF Ended, Live
<1>6. Positions(be)
  <2> SUFFICES ASSUME NEW a \in Allocs
               PROVE  /\ be[a].status = "NONE" => be[a] = NoAllocation
                      /\ be[a].status = "RESERVED" => ~be[a].released /\ be[a].moved = "NONE"
                      /\ be[a].status \in {"PREPARED"} \cup Ended => be[a].released
                      /\ be[a].status # "NONE" => Units(be[a].held) = Want
    BY DEF Positions
  <2>1. CASE a \in B /\ al[a].status \in Live
    BY <1>4, <1>5, <2>1 DEF Positions, Live
  <2>2. CASE ~(a \in B /\ al[a].status \in Live)
    BY <1>4, <2>2 DEF Positions
  <2> QED BY <2>1, <2>2
<1>7. be \in [Allocs -> AllocRecord]
  BY <1>3, <1>4
<1> QED BY <1>4, <1>6, <1>7 DEF be

LEMMA MarkKeeps ==
  ASSUME NEW al \in [Allocs -> AllocRecord], Positions(al), NEW B \in SUBSET Allocs,
         NEW s \in {"PREPARED", "CONSUMED"}, \A a \in B : al[a].status # "NONE"
  PROVE  /\ Mark(al, B, s, s) \in [Allocs -> AllocRecord]
         /\ Positions(Mark(al, B, s, s))
         /\ \A a \in Allocs :
               /\ Mark(al, B, s, s)[a].held = al[a].held
               /\ a \notin B => Mark(al, B, s, s)[a] = al[a]
               /\ a \in B => Mark(al, B, s, s)[a].moved = s /\ Mark(al, B, s, s)[a].status = s
<1> DEFINE be == Mark(al, B, s, s)
<1>1. ASSUME NEW a \in Allocs, a \in B
      PROVE  be[a] = [al[a] EXCEPT !.status = s, !.released = TRUE, !.moved = s]
  BY <1>1 DEF Mark
<1>2. ASSUME NEW a \in Allocs, a \notin B
      PROVE  be[a] = al[a]
  BY <1>2 DEF Mark
<1>3. be = [a \in Allocs |-> be[a]]
  BY DEF Mark
<1> HIDE DEF be
<1>4. ASSUME NEW a \in Allocs
      PROVE  /\ be[a] \in AllocRecord /\ be[a].held = al[a].held
             /\ a \in B => be[a].status = s /\ be[a].moved = s /\ be[a].released
  <2>1. /\ al[a] \in AllocRecord /\ s \in {"NONE"} \cup Live \cup Ended
        /\ s \in {"NONE", "PREPARED", "CONSUMED", "COMPENSATED"}
    BY DEF Live, Ended
  <2>2. CASE a \in B
    BY <1>1, <2>1, <2>2 DEF AllocRecord
  <2>3. CASE a \notin B
    BY <1>2, <2>1, <2>3
  <2> QED BY <2>2, <2>3
<1>5. Positions(be)
  <2> SUFFICES ASSUME NEW a \in Allocs
               PROVE  /\ be[a].status = "NONE" => be[a] = NoAllocation
                      /\ be[a].status = "RESERVED" => ~be[a].released /\ be[a].moved = "NONE"
                      /\ be[a].status \in {"PREPARED"} \cup Ended => be[a].released
                      /\ be[a].status # "NONE" => Units(be[a].held) = Want
    BY DEF Positions
  <2>1. CASE a \in B
    BY <1>4, <2>1 DEF Positions
  <2>2. CASE a \notin B
    BY <1>2, <2>2 DEF Positions
  <2> QED BY <2>1, <2>2
<1>6. be \in [Allocs -> AllocRecord]
  BY <1>3, <1>4
<1> QED BY <1>2, <1>4, <1>5, <1>6 DEF be

LEMMA BalanceKeeps ==
  ASSUME NEW b \in [Layers -> BalanceRecord], NEW al \in [Allocs -> AllocRecord]
  PROVE  /\ \A B \in SUBSET Allocs : GiveBack(b, al, B) \in [Layers -> BalanceRecord]
         /\ \A t \in Holding : TakeOut(b, t) \in [Layers -> BalanceRecord]
         /\ \A seen, take : seen.ledger \in Holding /\ take \in Holding =>
               Hold(b, seen, take) \in [Layers -> BalanceRecord]
<1>0. \A p \in Layers : b[p] \in BalanceRecord /\ b[p].actual \in Int /\ b[p].reserved \in Nat
  BY DEF BalanceRecord
<1>1. ASSUME NEW p \in Layers, NEW n \in Nat
      PROVE  Minus(b[p].reserved, n) \in Nat
  BY <1>0, MinusIs
<1>2. ASSUME NEW B \in SUBSET Allocs
      PROVE  GiveBack(b, al, B) \in [Layers -> BalanceRecord]
  <2> DEFINE t == Held(al, {a \in B : ~al[a].released})
  <2>1. t \in Holding
    BY HeldIs
  <2> HIDE DEF t
  <2>2. \A p \in Layers : [b[p] EXCEPT !.reserved = Minus(@, t[p])] \in BalanceRecord
    BY <1>0, <1>1, <2>1 DEF Holding, BalanceRecord
  <2> QED BY <2>2 DEF GiveBack, t
<1>3. ASSUME NEW t \in Holding
      PROVE  TakeOut(b, t) \in [Layers -> BalanceRecord]
  <2>1. \A p \in Layers : [actual |-> b[p].actual - t[p], reserved |-> Minus(b[p].reserved, t[p])]
                             \in BalanceRecord
    BY <1>0, <1>1 DEF Holding, BalanceRecord
  <2> QED BY <2>1 DEF TakeOut
<1>4. ASSUME NEW seen, NEW take, seen.ledger \in Holding, take \in Holding
      PROVE  Hold(b, seen, take) \in [Layers -> BalanceRecord]
  <2>1. \A p \in Layers : [actual |-> seen.ledger[p], reserved |-> b[p].reserved + take[p]]
                             \in BalanceRecord
    BY <1>0, <1>4 DEF Holding, BalanceRecord
  <2> QED BY <1>0, <2>1 DEF Hold
<1> QED BY <1>2, <1>3, <1>4

-----------------------------------------------------------------------------
(* What a commit does to the walks in progress.                                *)

LEMMA NoticedIs ==
  ASSUME SagaType, NEW v \in Workers, NEW c, NEW P \in SUBSET Layers
  PROVE  /\ Noticed(v, c, P) \in WorkerRecord
         /\ Noticed(v, c, P).at = worker[v].at /\ Noticed(v, c, P).co = worker[v].co
         /\ Noticed(v, c, P).fresh => worker[v].fresh /\ worker[v].co # c
         /\ Noticed(v, c, P).ledger = worker[v].ledger
         /\ worker[v].at = "reading" => Noticed(v, c, P).changed = worker[v].changed \cup P
<1>1. worker[v] \in WorkerRecord
  BY DEF SagaType
<1> QED BY <1>1 DEF Noticed, WorkerRecord

LEMMA WorkersNotified ==
  ASSUME SagaType, WorkerInv, NEW c, NEW P \in SUBSET Layers, Notify(c, P),
         \A d \in Checkouts : d # c => checkout'[d].status = checkout[d].status
  PROVE  worker' \in [Workers -> WorkerRecord] /\ WorkerInv'
<1>1. \A v \in Workers : worker'[v] = Noticed(v, c, P)
  BY DEF Notify
<1>2. worker' = [v \in Workers |-> worker'[v]]
  BY DEF Notify
<1>3. worker' \in [Workers -> WorkerRecord]
  BY <1>1, <1>2, NoticedIs
<1>4. ASSUME NEW v \in Workers, worker'[v].at # "idle"
      PROVE  /\ worker'[v].co \in Checkouts
             /\ worker'[v].fresh => checkout'[worker'[v].co].status = "RESERVING"
  <2>1. worker[v].at # "idle" /\ worker'[v].co = worker[v].co
    BY <1>1, <1>4, NoticedIs
  <2>2. worker'[v].fresh => worker[v].fresh /\ worker[v].co # c
    BY <1>1, NoticedIs
  <2> QED BY <2>1, <2>2 DEF WorkerInv
<1> QED BY <1>3, <1>4 DEF WorkerInv

LEMMA WorkersCommitted ==
  ASSUME SagaType, WorkerInv, NEW w \in Workers, NEW c, NEW P \in SUBSET Layers,
         NEW r \in WorkerRecord, Commit(w, c, P, r),
         r.at # "idle" => r.co \in Checkouts /\ checkout'[r.co].status = "RESERVING",
         \A d \in Checkouts : d # c => checkout'[d].status = checkout[d].status
  PROVE  worker' \in [Workers -> WorkerRecord] /\ WorkerInv'
<1>1. \A v \in Workers : worker'[v] = IF v = w THEN r ELSE Noticed(v, c, P)
  BY DEF Commit
<1>2. worker' = [v \in Workers |-> worker'[v]]
  BY DEF Commit
<1>3. worker' \in [Workers -> WorkerRecord]
  BY <1>1, <1>2, NoticedIs
<1>4. ASSUME NEW v \in Workers, worker'[v].at # "idle"
      PROVE  /\ worker'[v].co \in Checkouts
             /\ worker'[v].fresh => checkout'[worker'[v].co].status = "RESERVING"
  <2>1. CASE v = w
    BY <1>1, <1>4, <2>1
  <2>2. CASE v # w
    <3>1. worker[v].at # "idle" /\ worker'[v].co = worker[v].co
      BY <1>1, <1>4, <2>2, NoticedIs
    <3>2. worker'[v].fresh => worker[v].fresh /\ worker[v].co # c
      BY <1>1, <2>2, NoticedIs
    <3> QED BY <3>1, <3>2 DEF WorkerInv
  <2> QED BY <2>1, <2>2
<1> QED BY <1>3, <1>4 DEF WorkerInv

-----------------------------------------------------------------------------
(* Steps that touch the holds of allocations and nothing else of a checkout.   *)

LEMMA HoldsKeep ==
  ASSUME SagaInv, UNCHANGED <<checkout, ledger, lane, stage, stray>>,
         alloc' \in [Allocs -> AllocRecord], Positions(alloc)',
         balance' \in [Layers -> BalanceRecord], worker' \in [Workers -> WorkerRecord], WorkerInv',
         \A c \in Checkouts : \A a \in Own(c) :
            /\ alloc'[a].moved = alloc[a].moved
            /\ (checkout[c].sold \/ checkout[c].status \in Stopped) /\ alloc[a].status \notin Live
                  => alloc'[a].status = alloc[a].status
  PROVE  SagaInv'
<1> USE DEF SagaInv
<1>1. SagaType'
  BY DEF SagaType
<1>2. CheckoutInv'
  <2>1. "CONSUMED" \notin Live
    BY DEF Live
  <2> QED BY <2>1 DEF CheckoutInv, Basket
<1>3. LaneInv'
  BY DEF LaneInv
<1>4. StageInv'
  BY DEF StageInv
<1>5. UnitsAddUp'
  BY DEF UnitsAddUp
<1> QED BY <1>1, <1>2, <1>3, <1>4, <1>5

LEMMA KeyIsForeign ==
  ASSUME NEW k \in Keys
  PROVE  <<k, 0>> \in Allocs /\ \A c \in Checkouts : <<k, 0>> \notin Own(c)
BY ConstantsAssumption DEF Allocs, Own

LEMMA KeyKeeps == ASSUME SagaInv, NEW k \in Keys, ReserveKey(k) PROVE SagaInv'
<1> USE DEF SagaInv
<1> DEFINE take == Plan(Current)
           a == <<k, 0>>
<1>1. Current.ledger \in Holding /\ Current.reserved \in Holding
  BY DEF Current, SagaType, Holding, BalanceRecord
<1>2. take \in Holding /\ Units(take) = Want
  BY <1>1, PlanIsWhole DEF ReserveKey
<1>3. /\ alloc' = Reserved(alloc, a, take) /\ balance' = Hold(balance, Current, take)
      /\ Notify(NoOne, Changed) /\ UNCHANGED <<checkout, ledger, lane, stage, stray>>
  BY DEF ReserveKey
<1> HIDE DEF take
<1>4. a \in Allocs /\ \A c \in Checkouts : a \notin Own(c)
  BY KeyIsForeign
<1> HIDE DEF a
<1>5. /\ alloc' \in [Allocs -> AllocRecord] /\ Positions(alloc')
      /\ \A x \in Allocs : x # a => alloc'[x] = alloc[x]
  BY <1>2, <1>3, <1>4, ReservedKeeps DEF SagaType
<1>6. balance' \in [Layers -> BalanceRecord]
  BY <1>1, <1>2, <1>3, BalanceKeeps DEF SagaType
<1>7. worker' \in [Workers -> WorkerRecord] /\ WorkerInv'
  BY <1>3, WorkersNotified DEF Changed
<1>8. \A c \in Checkouts : \A x \in Own(c) : alloc'[x] = alloc[x]
  BY <1>4, <1>5, Finite
<1> QED BY <1>3, <1>5, <1>6, <1>7, <1>8, HoldsKeep

\* Allocations of B end, whoever ends them.
LEMMA EndsKeep ==
  ASSUME SagaInv, NEW B \in SUBSET Allocs, NEW s \in Ended,
         alloc' = Finish(alloc, B, s), balance' = GiveBack(balance, alloc, B),
         Notify(NoOne, Changed), UNCHANGED <<checkout, ledger, lane, stage, stray>>
  PROVE  SagaInv'
<1> USE DEF SagaInv
<1>1. /\ alloc' \in [Allocs -> AllocRecord] /\ Positions(alloc')
      /\ \A a \in Allocs : /\ alloc'[a].moved = alloc[a].moved
                           /\ alloc[a].status \notin Live => alloc'[a].status = alloc[a].status
  <2>1. alloc \in [Allocs -> AllocRecord] /\ Positions(alloc)
    BY DEF SagaType
  <2>2. alloc' \in [Allocs -> AllocRecord] /\ Positions(alloc')
    BY <2>1, FinishKeeps
  <2>3. \A a \in Allocs :
           /\ alloc'[a].moved = alloc[a].moved
           /\ alloc'[a].status = IF a \in B /\ alloc[a].status \in Live THEN s ELSE alloc[a].status
    BY <2>1, FinishKeeps
  <2> QED BY <2>2, <2>3
<1>2. balance' \in [Layers -> BalanceRecord]
  BY BalanceKeeps DEF SagaType
<1>3. worker' \in [Workers -> WorkerRecord] /\ WorkerInv'
  BY WorkersNotified DEF Changed
<1> QED BY <1>1, <1>2, <1>3, Finite, HoldsKeep

LEMMA PassTimeKeeps == ASSUME SagaInv, NEW a \in Allocs, PassTime(a) PROVE SagaInv'
<1> USE DEF SagaInv
<1>1. /\ alloc' = [alloc EXCEPT ![a].due = TRUE] /\ alloc[a].status \in Live
      /\ UNCHANGED <<checkout, balance, ledger, lane, stage, stray, worker>>
  BY DEF PassTime, stock
<1>2. alloc[a] \in AllocRecord
  BY DEF SagaType
<1>3. /\ alloc' \in [Allocs -> AllocRecord]
      /\ \A x \in Allocs : /\ x # a => alloc'[x] = alloc[x]
                           /\ alloc'[x].status = alloc[x].status /\ alloc'[x].moved = alloc[x].moved
                           /\ alloc'[x].held = alloc[x].held /\ alloc'[x].released = alloc[x].released
  BY <1>1, <1>2 DEF AllocRecord, SagaType
<1>4. Positions(alloc')
  <2>1. alloc[a].status # "NONE"
    BY <1>1 DEF Live
  <2> QED BY <1>3, <2>1 DEF Positions
<1>5. WorkerInv' /\ worker' \in [Workers -> WorkerRecord] /\ balance' \in [Layers -> BalanceRecord]
  BY <1>1 DEF WorkerInv, SagaType
<1> QED BY <1>1, <1>3, <1>4, <1>5, Finite, HoldsKeep

-----------------------------------------------------------------------------
(* Steps of one checkout c, whose row becomes r.                               *)

LEMMA OthersKeep ==
  ASSUME SagaType, CheckoutInv, NEW c \in Checkouts, NEW r, checkout' = [checkout EXCEPT ![c] = r],
         \A d \in Checkouts \ {c} : \A a \in Own(d) : alloc'[a] = alloc[a],
         Basket(r, alloc', c)
  PROVE  CheckoutInv'
<1>1. checkout'[c] = r /\ \A d \in Checkouts \ {c} : checkout'[d] = checkout[d]
  BY DEF SagaType
<1>2. \A d \in Checkouts \ {c} : Basket(checkout'[d], alloc', d)
  BY <1>1 DEF CheckoutInv, Basket
<1> QED BY <1>1, <1>2 DEF CheckoutInv

\* Two checkouts under way have different lanes.
LEMMA LanesDiffer ==
  ASSUME LaneInv, NEW c \in Checkouts, NEW d \in Checkouts, c # d,
         checkout[c].status \in Working, checkout[d].status \in Working
  PROVE  checkout[c].lane # checkout[d].lane
<1>1. /\ lane[checkout[c].lane] = [status |-> "LOCKED", holder |-> c]
      /\ lane[checkout[d].lane] = [status |-> "LOCKED", holder |-> d]
  BY DEF LaneInv
<1> QED BY <1>1

LEMMA LaneStays ==
  ASSUME SagaType, LaneInv, NEW c \in Checkouts, NEW r, checkout' = [checkout EXCEPT ![c] = r],
         lane' = lane, r.lane = checkout[c].lane,
         r.status \in Working <=> checkout[c].status \in Working
  PROVE  LaneInv'
<1>1. checkout'[c] = r /\ \A d \in Checkouts \ {c} : checkout'[d] = checkout[d]
  BY DEF SagaType
<1>2. \A d \in Checkouts : /\ checkout'[d].lane = checkout[d].lane
                           /\ checkout'[d].status \in Working <=> checkout[d].status \in Working
  BY <1>1
<1>3. \A l \in Lanes : lane[l].holder \in Checkouts \cup {NoOne}
  BY DEF SagaType, LaneRecord
<1> QED BY <1>2, <1>3 DEF LaneInv

\* The lane that a checkout leaves is free, dirty or still a stranger's.
LEMMA LaneIsLeft ==
  ASSUME SagaType, LaneInv, NEW c \in Checkouts, NEW r, checkout' = [checkout EXCEPT ![c] = r],
         NEW l \in Lanes, l = checkout[c].lane, r.lane = l, r.status \notin Working,
         NEW left, lane' = [lane EXCEPT ![l] = LaneAfter(l, c, left)]
  PROVE  lane' \in [Lanes -> LaneRecord] /\ LaneInv'
<1> DEFINE after == LaneAfter(l, c, left)
<1>0. lane[l] \in LaneRecord
  BY DEF SagaType
<1>1. /\ after \in LaneRecord
      /\ after.holder \in {lane[l].holder, NoOne}
      /\ after.status = "LOCKED" => after = lane[l] /\ lane[l].holder \notin {NoOne, c}
      /\ after.status = "AVAILABLE" => after.holder = NoOne \/ after = lane[l]
      /\ lane[l].holder \notin {NoOne, c} => after = lane[l]
  BY <1>0 DEF LaneAfter, LaneRecord
<1> HIDE DEF after
<1>2. checkout'[c] = r /\ \A d \in Checkouts \ {c} : checkout'[d] = checkout[d]
  BY DEF SagaType
<1>3. lane'[l] = after /\ \A m \in Lanes \ {l} : lane'[m] = lane[m]
  BY DEF SagaType, after
<1>4. lane' \in [Lanes -> LaneRecord]
  BY <1>1 DEF SagaType, after
<1>5. \A m \in Lanes : lane[m].holder \in Checkouts \cup {NoOne}
  BY DEF SagaType, LaneRecord
<1>6. ASSUME NEW d \in Checkouts, checkout'[d].status \in Working
      PROVE  lane'[checkout'[d].lane] = [status |-> "LOCKED", holder |-> d]
  <2>1. d # c /\ checkout'[d] = checkout[d]
    BY <1>2, <1>6
  <2>2. lane[checkout[d].lane] = [status |-> "LOCKED", holder |-> d]
    BY <1>6, <2>1 DEF LaneInv
  <2>3. CASE checkout[d].lane = l
    <3>1. lane[l].holder = d /\ d # NoOne
      BY <2>2, <2>3, ConstantsAssumption
    <3> QED BY <1>1, <1>3, <2>1, <2>2, <2>3, <3>1
  <2>4. CASE checkout[d].lane # l
    <3>1. lane' = [lane EXCEPT ![l] = after]
      BY DEF after
    <3>2. lane'[checkout[d].lane] = lane[checkout[d].lane] \/ checkout[d].lane \notin Lanes
      BY <1>3, <2>4
    <3>3. checkout[d].lane \in Lanes \cup {NoOne}
      BY DEF SagaType, CheckoutRecord
    <3>4. CASE checkout[d].lane \in Lanes
      BY <2>1, <2>2, <3>2, <3>4
    <3>5. CASE checkout[d].lane = NoOne
      BY <2>1, <2>2, <3>1, <3>5, ConstantsAssumption DEF SagaType
    <3> QED BY <3>3, <3>4, <3>5
  <2> QED BY <2>3, <2>4
<1>7. ASSUME NEW m \in Lanes
      PROVE  /\ lane'[m].status = "AVAILABLE" => lane'[m].holder = NoOne
             /\ lane'[m].status = "LOCKED" =>
                   lane'[m].holder # NoOne /\ checkout'[lane'[m].holder].status \in Working
             /\ lane'[m].holder # NoOne => checkout'[lane'[m].holder].lane = m
  <2>1. /\ lane[m].status = "AVAILABLE" => lane[m].holder = NoOne
        /\ lane[m].status = "LOCKED" =>
              lane[m].holder # NoOne /\ checkout[lane[m].holder].status \in Working
        /\ lane[m].holder # NoOne => checkout[lane[m].holder].lane = m
    BY DEF LaneInv
  <2>2. \A d \in Checkouts : checkout'[d].lane = checkout[d].lane
    BY <1>2
  <2>3. CASE m = l
    BY <1>1, <1>2, <1>3, <1>5, <2>1, <2>2, <2>3
  <2>4. CASE m # l
    <3>1. lane'[m] = lane[m]
      BY <1>3, <2>4
    <3>2. lane[m].holder # c
      BY <2>1, <2>4, ConstantsAssumption
    <3> QED BY <1>2, <1>5, <2>1, <2>2, <3>1, <3>2
  <2> QED BY <2>3, <2>4
<1> QED BY <1>4, <1>6, <1>7 DEF LaneInv

LEMMA StageStays ==
  ASSUME SagaType, StageInv, NEW c \in Checkouts, NEW r, checkout' = [checkout EXCEPT ![c] = r],
         stage' = stage, checkout[c].status # "STOCK_PREPARED", r.status # "STOCK_PREPARED"
  PROVE  StageInv'
<1>1. checkout'[c] = r /\ \A d \in Checkouts \ {c} : checkout'[d] = checkout[d]
  BY DEF SagaType
<1> QED BY <1>1 DEF StageInv

LEMMA StageIsEntered ==
  ASSUME SagaType, LaneInv, StageInv, NEW c \in Checkouts, NEW r,
         checkout' = [checkout EXCEPT ![c] = r],
         NEW l \in Lanes, l = checkout[c].lane, r.lane = l, r.status = "STOCK_PREPARED",
         checkout[c].status \in Working \ {"STOCK_PREPARED"},
         stage' = [stage EXCEPT ![l] = stage[l] + Lines * Want]
  PROVE  StageInv'
<1>1. checkout'[c] = r /\ \A d \in Checkouts \ {c} : checkout'[d] = checkout[d]
  BY DEF SagaType
<1>2. \A d \in Checkouts \ {c} : checkout[d].status = "STOCK_PREPARED" => checkout[d].lane # l
  BY LanesDiffer DEF Working
<1>3. stage[l] = 0
  BY <1>2 DEF StageInv
<1>4. stage'[l] = Lines * Want /\ \A m \in Lanes \ {l} : stage'[m] = stage[m]
  BY <1>3, ConstantsAssumption DEF SagaType
<1>5. ASSUME NEW d \in Checkouts, checkout'[d].status = "STOCK_PREPARED"
      PROVE  stage'[checkout'[d].lane] = Lines * Want
  <2>1. CASE d = c
    BY <1>1, <1>4, <2>1
  <2>2. CASE d # c
    <3>1. checkout[d].lane # l /\ stage[checkout[d].lane] = Lines * Want /\ checkout'[d] = checkout[d]
      BY <1>1, <1>2, <1>5, <2>2 DEF StageInv
    <3> QED BY <3>1 DEF SagaType
  <2> QED BY <2>1, <2>2
<1>6. ASSUME NEW m \in Lanes, stage'[m] # 0
      PROVE  \E d \in Checkouts : checkout'[d].status = "STOCK_PREPARED" /\ checkout'[d].lane = m
  <2>1. CASE m = l
    BY <1>1, <2>1
  <2>2. CASE m # l
    <3>1. PICK d \in Checkouts : checkout[d].status = "STOCK_PREPARED" /\ checkout[d].lane = m
      BY <1>4, <1>6, <2>2 DEF StageInv
    <3> QED BY <1>1, <2>2, <3>1
  <2> QED BY <2>1, <2>2
<1> QED BY <1>5, <1>6 DEF StageInv

LEMMA StageIsLeft ==
  ASSUME SagaType, LaneInv, StageInv, NEW c \in Checkouts, NEW r,
         checkout' = [checkout EXCEPT ![c] = r],
         NEW l \in Lanes, l = checkout[c].lane, r.status # "STOCK_PREPARED",
         checkout[c].status = "STOCK_PREPARED", stage' = [stage EXCEPT ![l] = 0]
  PROVE  StageInv'
<1>1. checkout'[c] = r /\ \A d \in Checkouts \ {c} : checkout'[d] = checkout[d]
  BY DEF SagaType
<1>2. \A d \in Checkouts \ {c} : checkout[d].status = "STOCK_PREPARED" => checkout[d].lane # l
  BY LanesDiffer DEF Working
<1>3. stage'[l] = 0 /\ \A m \in Lanes \ {l} : stage'[m] = stage[m]
  BY DEF SagaType
<1>4. ASSUME NEW d \in Checkouts, checkout'[d].status = "STOCK_PREPARED"
      PROVE  stage'[checkout'[d].lane] = Lines * Want
  <2>1. d # c
    BY <1>1, <1>4
  <2>2. checkout[d].lane # l /\ stage[checkout[d].lane] = Lines * Want /\ checkout'[d] = checkout[d]
    BY <1>1, <1>2, <1>4, <2>1 DEF StageInv
  <2> QED BY <2>2 DEF SagaType
<1>5. ASSUME NEW m \in Lanes, stage'[m] # 0
      PROVE  \E d \in Checkouts : checkout'[d].status = "STOCK_PREPARED" /\ checkout'[d].lane = m
  <2>1. m # l
    BY <1>3, <1>5
  <2>2. PICK d \in Checkouts : checkout[d].status = "STOCK_PREPARED" /\ checkout[d].lane = m
    BY <1>3, <1>5, <2>1 DEF StageInv
  <2> QED BY <1>1, <2>1, <2>2
<1> QED BY <1>4, <1>5 DEF StageInv

-----------------------------------------------------------------------------
(* Where the units of a basket are: in the pools, in a lane, or invoiced.      *)

Invoiced(ck) ==
    SumOver([c \in Checkouts |-> IF ck[c].sold THEN Lines * Want ELSE 0], Checkouts)

LEMMA PoolsMove ==
  ASSUME NEW led \in Holding, NEW t \in Holding
  PROVE  /\ Units([p \in Layers |-> led[p] + t[p]]) = Units(led) + Units(t)
         /\ Units([p \in Layers |-> led[p] - t[p]]) = Units(led) - Units(t)
<1> DEFINE f == [p \in Layers |-> led[p] + t[p]]
           g == [p \in Layers |-> led[p] - t[p]]
<1>1. IsFiniteSet(Layers) /\ Ints(led, Layers) /\ Ints(t, Layers) /\ Ints(f, Layers) /\ Ints(g, Layers)
  BY Finite DEF Ints, Holding
<1>2. (\A p \in Layers : f[p] = led[p] + t[p]) /\ (\A p \in Layers : led[p] = g[p] + t[p])
  BY DEF Holding
<1> HIDE DEF f, g
<1>3. SumOver(f, Layers) = SumOver(led, Layers) + SumOver(t, Layers)
  BY <1>1, <1>2, SumPlus
<1>4. SumOver(led, Layers) = SumOver(g, Layers) + SumOver(t, Layers)
  BY <1>1, <1>2, SumPlus
<1>5. SumOver(g, Layers) \in Int /\ SumOver(t, Layers) \in Int /\ SumOver(led, Layers) \in Int
  BY <1>1, SumInt
<1>6. SumOver(g, Layers) = SumOver(led, Layers) - SumOver(t, Layers)
  BY <1>4, <1>5
<1> QED BY <1>3, <1>6 DEF Units, f, g

LEMMA LanesMove ==
  ASSUME NEW st \in [Lanes -> Nat], NEW l \in Lanes, NEW n \in Nat
  PROVE  SumOver([st EXCEPT ![l] = n], Lanes) = SumOver(st, Lanes) - st[l] + n
<1> DEFINE g == [st EXCEPT ![l] = n]
<1>1. IsFiniteSet(Lanes) /\ Ints(st, Lanes) /\ Ints(g, Lanes)
  BY ConstantsAssumption DEF Ints
<1>2. g[l] = n /\ \A m \in Lanes : m # l => st[m] = g[m]
  OBVIOUS
<1> HIDE DEF g
<1>3. SumOver(g, Lanes) = SumOver(st, Lanes) - st[l] + n
  BY <1>1, <1>2, SumMove
<1> QED BY <1>3 DEF g

LEMMA InvoicedSame ==
  ASSUME NEW ck, NEW new, \A c \in Checkouts : new[c].sold = ck[c].sold
  PROVE  Invoiced(new) = Invoiced(ck)
<1>1. [c \in Checkouts |-> IF new[c].sold THEN Lines * Want ELSE 0]
        = [c \in Checkouts |-> IF ck[c].sold THEN Lines * Want ELSE 0]
  OBVIOUS
<1> QED BY <1>1 DEF Invoiced

LEMMA InvoicedMoves ==
  ASSUME NEW ck, NEW new, NEW c \in Checkouts, ~ck[c].sold, new[c].sold,
         \A d \in Checkouts \ {c} : new[d].sold = ck[d].sold
  PROVE  Invoiced(new) = Invoiced(ck) + Lines * Want
<1> DEFINE f == [d \in Checkouts |-> IF ck[d].sold THEN Lines * Want ELSE 0]
           g == [d \in Checkouts |-> IF new[d].sold THEN Lines * Want ELSE 0]
<1>0. Lines * Want \in Int
  BY ConstantsAssumption
<1>1. IsFiniteSet(Checkouts) /\ Ints(f, Checkouts) /\ Ints(g, Checkouts)
  BY <1>0, ConstantsAssumption DEF Ints
<1>2. f[c] = 0 /\ g[c] = Lines * Want /\ \A d \in Checkouts : d # c => f[d] = g[d]
  OBVIOUS
<1> HIDE DEF f, g
<1>3. SumOver(g, Checkouts) = SumOver(f, Checkouts) - f[c] + g[c]
  BY <1>1, <1>2, SumMove
<1>4. SumOver(f, Checkouts) \in Int
  BY <1>1, SumInt
<1>5. SumOver(g, Checkouts) = SumOver(f, Checkouts) + Lines * Want
  BY <1>0, <1>2, <1>3, <1>4
<1> QED BY <1>5 DEF Invoiced, f, g

LEMMA TotalsAreInts ==
  ASSUME SagaType
  PROVE  /\ Units(ledger) \in Int /\ SumOver(stage, Lanes) \in Int /\ Invoiced(checkout) \in Int
         /\ Lines * Want \in Nat
<1>1. Lines * Want \in Nat
  BY ConstantsAssumption
<1>2. Units(ledger) \in Int
  BY UnitsNat DEF SagaType
<1>3. SumOver(stage, Lanes) \in Int
  BY SumInt, ConstantsAssumption DEF SagaType, Ints
<1> DEFINE f == [d \in Checkouts |-> IF checkout[d].sold THEN Lines * Want ELSE 0]
<1>4. Ints(f, Checkouts)
  BY <1>1 DEF Ints
<1>5. SumOver(f, Checkouts) \in Int
  <2> HIDE DEF f
  <2> QED BY <1>4, SumInt, ConstantsAssumption
<1> QED BY <1>1, <1>2, <1>3, <1>5 DEF Invoiced

\* One step moves a whole basket from one place to another, or nothing.
LEMMA MovesAddUp ==
  ASSUME SagaType, UnitsAddUp, NEW x \in Int, NEW y \in Int, NEW z \in Int, x + y + z = 0,
         Units(ledger') = Units(ledger) + x,
         SumOver(stage', Lanes) = SumOver(stage, Lanes) + y,
         Invoiced(checkout') = Invoiced(checkout) + z
  PROVE  UnitsAddUp'
<1>1. Units(OnHand) = Units(ledger) + SumOver(stage, Lanes) + Invoiced(checkout)
  BY DEF UnitsAddUp, Invoiced
<1>2. Units(OnHand) = Units(ledger') + SumOver(stage', Lanes) + Invoiced(checkout')
  BY <1>1, TotalsAreInts
<1> QED BY <1>2 DEF UnitsAddUp, Invoiced

LEMMA PlacesKeep ==
  ASSUME SagaType, UnitsAddUp, ledger' = ledger, stage' = stage,
         \A d \in Checkouts : checkout'[d].sold = checkout[d].sold
  PROVE  UnitsAddUp'
<1>1. Invoiced(checkout') = Invoiced(checkout)
  BY InvoicedSame
<1> QED BY <1>1, TotalsAreInts, MovesAddUp

-----------------------------------------------------------------------------
(* The steps of the saga, one lemma per action.                                *)

LEMMA WorkingOrNot ==
  /\ Working = {"RESERVING", "RESERVED", "STOCK_PREPARED"} /\ Stopped = {"CANCELLED", "COMPENSATED"}
  /\ Live = {"RESERVED", "PREPARED"} /\ Ended = {"CONSUMED", "RELEASED", "EXPIRED"}
BY DEF Working, Stopped, Live, Ended

LEMMA ClaimKeeps ==
  ASSUME SagaInv, NEW w \in Workers, NEW c \in Checkouts, Claim(w, c)
  PROVE  SagaInv'
<1> USE DEF SagaInv
<1>1. PICK l \in Lanes, stop \in StopAt :
        /\ IF checkout[c].lane = NoOne THEN Claimable(l, c) ELSE l = checkout[c].lane
        /\ lane' = IF checkout[c].lane = NoOne
                   THEN [lane EXCEPT ![l] = [status |-> "LOCKED", holder |-> c]] ELSE lane
        /\ checkout' = [checkout EXCEPT
                ![c].status = "RESERVING", ![c].lane = l,
                ![c].fiscal = IF checkout[c].status = "RESERVING" THEN @
                              ELSE IF c \in Fiscal THEN "PENDING" ELSE "NOT_REQUIRED"]
        /\ Commit(w, c, {}, [Idle EXCEPT !.at = "ready", !.co = c, !.stop = stop])
  BY DEF Claim
<1>2. checkout[c].status \in {"NONE", "RESERVING"} /\ UNCHANGED <<alloc, balance, ledger, stage, stray>>
  BY DEF Claim, stock
<1>3. PICK r : r = checkout'[c]
  OBVIOUS
<1>4. checkout[c] \in CheckoutRecord /\ Basket(checkout[c], alloc, c)
  BY DEF SagaType, CheckoutInv
<1>5. /\ r.status = "RESERVING" /\ r.lane = l /\ r.sold = checkout[c].sold /\ r \in CheckoutRecord
      /\ checkout' = [checkout EXCEPT ![c] = r]
      /\ r.sold = FALSE
  <2>1. /\ r.status = "RESERVING" /\ r.lane = l /\ r.sold = checkout[c].sold
        /\ r \in CheckoutRecord /\ checkout' = [checkout EXCEPT ![c] = r]
    BY <1>1, <1>3, <1>4 DEF CheckoutRecord, Statuses, SagaType
  <2>2. checkout[c].sold = FALSE
    BY <1>2, <1>4 DEF Basket, NoCheckout, CheckoutRecord, Working
  <2> QED BY <2>1, <2>2
<1>6. checkout'[c] = r /\ \A d \in Checkouts \ {c} : checkout'[d] = checkout[d]
  BY <1>5 DEF SagaType
<1>7. CheckoutInv'
  <2>1. Basket(r, alloc, c)
    BY <1>2, <1>4, <1>5 DEF Basket, Working, Stopped
  <2> QED BY <1>2, <1>5, <2>1, OthersKeep
<1>8. lane' \in [Lanes -> LaneRecord] /\ LaneInv'
  <2>1. CASE checkout[c].status = "RESERVING"
    <3>1. checkout[c].lane = l /\ lane' = lane
      BY <1>1, <1>4, <2>1, ConstantsAssumption DEF Basket
    <3> QED BY <1>5, <2>1, <3>1, LaneStays DEF SagaType, Working
  <2>2. CASE checkout[c].status = "NONE"
    <3>1. checkout[c].lane = NoOne
      BY <1>4, <2>2 DEF Basket, NoCheckout
    <3>2. lane' = [lane EXCEPT ![l] = [status |-> "LOCKED", holder |-> c]] /\ Claimable(l, c)
      BY <1>1, <3>1
    <3>3. lane[l].status = "AVAILABLE" /\ lane[l].holder = NoOne
      <4>1. ~(lane[l].status = "LOCKED" /\ lane[l].holder = c)
        BY <2>2 DEF LaneInv, Working
      <4> QED BY <3>2, <4>1 DEF Claimable, LaneInv
    <3>4. /\ lane'[l] = [status |-> "LOCKED", holder |-> c]
          /\ \A m \in Lanes \ {l} : lane'[m] = lane[m]
          /\ lane' \in [Lanes -> LaneRecord]
      BY <3>2 DEF SagaType, LaneRecord
    <3>5. \A m \in Lanes : lane[m].holder # c
      BY <3>1, <2>2, ConstantsAssumption DEF LaneInv
    <3>6. ASSUME NEW d \in Checkouts, checkout'[d].status \in Working
          PROVE  lane'[checkout'[d].lane] = [status |-> "LOCKED", holder |-> d]
      <4>1. CASE d = c
        BY <1>5, <1>6, <3>4, <4>1
      <4>2. CASE d # c
        <5>1. checkout'[d] = checkout[d] /\ checkout[d].lane \in Lanes
          BY <1>6, <3>6, <4>2 DEF CheckoutInv, Basket, Working
        <5>2. lane[checkout[d].lane] = [status |-> "LOCKED", holder |-> d]
          BY <3>6, <5>1 DEF LaneInv
        <5> QED BY <3>3, <3>4, <5>1, <5>2
      <4> QED BY <4>1, <4>2
    <3>7. ASSUME NEW m \in Lanes
          PROVE  /\ lane'[m].status = "AVAILABLE" => lane'[m].holder = NoOne
                 /\ lane'[m].status = "LOCKED" =>
                       lane'[m].holder # NoOne /\ checkout'[lane'[m].holder].status \in Working
                 /\ lane'[m].holder # NoOne => checkout'[lane'[m].holder].lane = m
      <4>1. CASE m = l
        BY <1>5, <1>6, <3>4, <4>1, ConstantsAssumption DEF Working
      <4>2. CASE m # l
        <5>1. lane'[m] = lane[m] /\ lane[m].holder \in Checkouts \cup {NoOne} /\ lane[m].holder # c
          BY <3>4, <3>5, <4>2 DEF SagaType, LaneRecord
        <5> QED BY <1>6, <5>1 DEF LaneInv
      <4> QED BY <4>1, <4>2
    <3> QED BY <3>4, <3>6, <3>7 DEF LaneInv
  <2> QED BY <1>2, <2>1, <2>2
<1>9. StageInv'
  BY <1>2, <1>5, StageStays
<1>10. worker' \in [Workers -> WorkerRecord] /\ WorkerInv'
  <2> DEFINE v == [Idle EXCEPT !.at = "ready", !.co = c, !.stop = stop]
  <2>1. v \in WorkerRecord /\ v.co = c
    <3>1. Nothing \in Holding /\ stop \in Stops
      BY ConstantsAssumption DEF Nothing, Holding
    <3> QED BY <3>1 DEF Idle, WorkerRecord
  <2>2. Commit(w, c, {}, v)
    BY <1>1
  <2> HIDE DEF v
  <2> QED BY <1>5, <1>6, <2>1, <2>2, WorkersCommitted
<1>11. UnitsAddUp'
  <2>1. \A d \in Checkouts : checkout'[d].sold = checkout[d].sold
    BY <1>5, <1>6
  <2> QED BY <1>2, <2>1, PlacesKeep
<1>12. SagaType'
  BY <1>2, <1>5, <1>8, <1>10 DEF SagaType
<1> QED BY <1>2, <1>7, <1>8, <1>9, <1>10, <1>11, <1>12

LEMMA ReadKeeps == ASSUME SagaInv, NEW w \in Workers, Read(w) PROVE SagaInv'
<1> USE DEF SagaInv
<1>1. /\ UNCHANGED <<checkout, alloc, balance, ledger, lane, stage, stray>>
      /\ worker[w].at = "ready"
      /\ worker' = [worker EXCEPT ![w] = [@ EXCEPT !.at = "reading", !.changed = {},
                    !.ledger = ledger, !.reserved = Current.reserved]]
  BY DEF Read, stock
<1>2. Current.reserved \in Holding /\ ledger \in Holding
  BY DEF Current, SagaType, Holding, BalanceRecord
<1>3. worker[w] \in WorkerRecord
  BY DEF SagaType
<1>4. /\ worker'[w] \in WorkerRecord /\ worker'[w].co = worker[w].co /\ worker'[w].fresh = worker[w].fresh
      /\ \A v \in Workers \ {w} : worker'[v] = worker[v]
      /\ worker' = [worker EXCEPT ![w] = worker'[w]]
  BY <1>1, <1>2, <1>3 DEF WorkerRecord, SagaType
<1>5. SagaType'
  BY <1>1, <1>4 DEF SagaType
<1>6. WorkerInv'
  BY <1>1, <1>4 DEF WorkerInv
<1>7. Positions(alloc)' /\ CheckoutInv' /\ LaneInv' /\ StageInv' /\ UnitsAddUp'
  BY <1>1 DEF CheckoutInv, LaneInv, StageInv, UnitsAddUp
<1> QED BY <1>5, <1>6, <1>7

LEMMA IdleIsWorker == Idle \in WorkerRecord
<1>1. Nothing \in Holding
  BY DEF Nothing, Holding
<1> QED BY <1>1 DEF Idle, WorkerRecord, Stops

LEMMA GiveUpKeeps == ASSUME SagaInv, NEW w \in Workers, GiveUp(w) PROVE SagaInv'
<1> USE DEF SagaInv
<1>1. /\ UNCHANGED <<checkout, alloc, balance, ledger, lane, stage, stray>>
      /\ worker' = [worker EXCEPT ![w] = Idle]
  BY DEF GiveUp, stock
<1>2. SagaType'
  BY <1>1, IdleIsWorker DEF SagaType
<1>3. WorkerInv'
  <2>1. worker'[w].at = "idle" /\ \A v \in Workers \ {w} : worker'[v] = worker[v]
    BY <1>1 DEF SagaType, Idle
  <2> QED BY <1>1, <2>1 DEF WorkerInv
<1>4. Positions(alloc)' /\ CheckoutInv' /\ LaneInv' /\ StageInv' /\ UnitsAddUp'
  BY <1>1 DEF CheckoutInv, LaneInv, StageInv, UnitsAddUp
<1> QED BY <1>2, <1>3, <1>4

LEMMA StrayKeeps == ASSUME SagaInv, NEW l \in Lanes, StrayUnit(l) PROVE SagaInv'
<1> USE DEF SagaInv
<1>1. /\ UNCHANGED <<checkout, alloc, balance, ledger, lane, stage, worker>>
      /\ stray' = stray \cup {l} /\ l \in StrayLanes
  BY DEF StrayUnit, stock
<1>2. SagaType'
  BY <1>1 DEF SagaType
<1>3. Positions(alloc)' /\ CheckoutInv' /\ LaneInv' /\ StageInv' /\ WorkerInv' /\ UnitsAddUp'
  BY <1>1 DEF CheckoutInv, LaneInv, StageInv, WorkerInv, UnitsAddUp
<1> QED BY <1>2, <1>3

LEMMA FiscalKeeps ==
  ASSUME SagaInv, NEW c \in Checkouts, NEW state \in {"DONE", "UNCERTAIN"}, FiscalResult(c, state)
  PROVE  SagaInv'
<1> USE DEF SagaInv
<1>1. /\ checkout[c].sold /\ Notify(c, {}) /\ UNCHANGED <<alloc, balance, ledger, lane, stage, stray>>
      /\ checkout' = [checkout EXCEPT ![c].fiscal = state,
            ![c].status = IF state = "DONE" /\ @ \in {"FISCAL_PENDING", "MANUAL_REVIEW"}
                          THEN "COMPLETED"
                          ELSE IF @ = "FISCAL_PENDING" THEN "MANUAL_REVIEW" ELSE @]
  BY DEF FiscalResult, stock
<1>2. checkout[c] \in CheckoutRecord /\ Basket(checkout[c], alloc, c)
  BY DEF SagaType, CheckoutInv
<1>3. PICK r : r = checkout'[c]
  OBVIOUS
<1>4. /\ checkout' = [checkout EXCEPT ![c] = r] /\ r \in CheckoutRecord
      /\ r.lane = checkout[c].lane /\ r.sold = checkout[c].sold
      /\ r.status = checkout[c].status \/ r.status \in {"COMPLETED", "MANUAL_REVIEW"}
      /\ r.status = "MANUAL_REVIEW" => checkout[c].status \in {"MANUAL_REVIEW", "FISCAL_PENDING"}
      /\ checkout[c].status = "NONE" => r.status = "NONE"
  BY <1>1, <1>2, <1>3 DEF CheckoutRecord, Statuses, SagaType
<1>5. checkout[c].status \notin Working \cup {"NONE"} /\ r.status \notin Working \cup {"NONE"}
  <2>1. checkout[c].status \notin Working \cup {"NONE"}
    BY <1>1, <1>2 DEF Basket, NoCheckout, CheckoutRecord
  <2> QED BY <1>4, <2>1 DEF Working
<1>6. checkout'[c] = r /\ \A d \in Checkouts \ {c} : checkout'[d] = checkout[d]
  BY <1>4 DEF SagaType
<1>7. CheckoutInv'
  <2>1. r.status \in Stopped => checkout[c].status \in Stopped
    BY <1>4 DEF Stopped
  <2>2. Basket(r, alloc', c)
    BY <1>1, <1>2, <1>4, <1>5, <2>1 DEF Basket, Working
  <2> QED BY <1>1, <1>4, <2>2, OthersKeep
<1>8. LaneInv'
  BY <1>1, <1>4, <1>5, LaneStays
<1>9. StageInv'
  BY <1>1, <1>4, <1>5, StageStays DEF Working
<1>10. worker' \in [Workers -> WorkerRecord] /\ WorkerInv'
  BY <1>1, <1>6, WorkersNotified
<1>11. UnitsAddUp'
  <2>1. \A d \in Checkouts : checkout'[d].sold = checkout[d].sold
    BY <1>4, <1>6
  <2> QED BY <1>1, <2>1, PlacesKeep
<1>12. SagaType'
  BY <1>1, <1>4, <1>10 DEF SagaType
<1> QED BY <1>1, <1>7, <1>8, <1>9, <1>10, <1>11, <1>12

LEMMA AbortReservedKeeps ==
  ASSUME SagaInv, NEW c \in Checkouts, AbortReserved(c) PROVE SagaInv'
<1> USE DEF SagaInv
<1> DEFINE l == checkout[c].lane
           r == [checkout[c] EXCEPT !.status = "CANCELLED"]
<1>1. /\ checkout[c].status \in {"RESERVING", "RESERVED", "MANUAL_REVIEW"}
      /\ alloc' = Finish(alloc, Own(c), "RELEASED")
      /\ balance' = GiveBack(balance, alloc, {a \in Own(c) : alloc[a].status \in Live})
      /\ lane' = [lane EXCEPT ![l] = LaneAfter(l, c, InLane(l))]
      /\ Notify(c, Changed) /\ UNCHANGED <<ledger, stage, stray>>
  BY DEF AbortReserved
<1>2. checkout[c] \in CheckoutRecord /\ Basket(checkout[c], alloc, c)
  BY DEF SagaType, CheckoutInv
<1>3. /\ checkout' = [checkout EXCEPT ![c] = r] /\ r \in CheckoutRecord
      /\ r.status = "CANCELLED" /\ r.lane = l /\ r.sold = checkout[c].sold
  BY <1>2 DEF CheckoutRecord, Statuses, Stopped, SagaType, AbortReserved
<1> HIDE DEF r
<1>4. checkout'[c] = r /\ \A d \in Checkouts \ {c} : checkout'[d] = checkout[d]
  BY <1>3 DEF SagaType
<1>5. l \in Lanes
  BY <1>1, <1>2 DEF Basket
<1> HIDE DEF l
<1>6. /\ alloc' \in [Allocs -> AllocRecord] /\ Positions(alloc')
      /\ \A a \in Allocs :
            /\ alloc'[a].moved = alloc[a].moved
            /\ alloc'[a].status = IF a \in Own(c) /\ alloc[a].status \in Live THEN "RELEASED"
                                  ELSE alloc[a].status
      /\ \A a \in Allocs \ Own(c) : alloc'[a] = alloc[a]
  <2>1. alloc \in [Allocs -> AllocRecord] /\ Positions(alloc) /\ Own(c) \in SUBSET Allocs /\ "RELEASED" \in Ended
    BY Finite DEF SagaType, Ended
  <2>2. alloc' \in [Allocs -> AllocRecord] /\ Positions(alloc')
    BY <1>1, <2>1, FinishKeeps
  <2>3. \A a \in Allocs :
           /\ alloc'[a].moved = alloc[a].moved
           /\ alloc'[a].status = IF a \in Own(c) /\ alloc[a].status \in Live THEN "RELEASED"
                                 ELSE alloc[a].status
    <3> DEFINE B == Own(c)
    <3>1. alloc' = Finish(alloc, B, "RELEASED") /\ B \in SUBSET Allocs
      BY <1>1, <2>1
    <3> HIDE DEF B
    <3>2. \A a \in Allocs :
             /\ alloc'[a].moved = alloc[a].moved
             /\ alloc'[a].status = IF a \in B /\ alloc[a].status \in Live THEN "RELEASED"
                                   ELSE alloc[a].status
      BY <2>1, <3>1, FinishKeeps
    <3> QED BY <3>2 DEF B
  <2>4. \A a \in Allocs \ Own(c) : alloc'[a] = alloc[a]
    BY <1>1 DEF Finish
  <2> QED BY <2>2, <2>3, <2>4
<1>7. CheckoutInv'
  <2>1. \A d \in Checkouts \ {c} : \A a \in Own(d) : alloc'[a] = alloc[a]
    BY <1>6, Finite
  <2>2. Basket(r, alloc', c)
    <3>1. \A a \in Own(c) : a \in Allocs
      BY Finite
    <3>2. \A a \in Own(c) : alloc'[a].status \notin Live
      BY <1>6, <3>1 DEF Live
    <3>3. \A a \in Own(c) : alloc'[a].moved # "PREPARED"
      BY <1>1, <1>2, <1>6, <3>1 DEF Basket
    <3>4. r.sold => \A a \in Own(c) : alloc'[a].status = "CONSUMED" /\ alloc'[a].moved = "CONSUMED"
      BY <1>2, <1>3, <1>6, <3>1 DEF Basket, Live
    <3> QED BY <1>3, <1>5, <3>2, <3>3, <3>4 DEF Basket, Working
  <2> QED BY <1>3, <2>1, <2>2, OthersKeep
<1>8. lane' \in [Lanes -> LaneRecord] /\ LaneInv'
  <2>1. r.status \notin Working /\ l = checkout[c].lane
    BY <1>3 DEF Working, l
  <2> QED BY <1>1, <1>3, <1>5, <2>1, LaneIsLeft
<1>9. StageInv'
  BY <1>1, <1>3, StageStays
<1>10. worker' \in [Workers -> WorkerRecord] /\ WorkerInv'
  BY <1>1, <1>4, WorkersNotified DEF Changed
<1>11. UnitsAddUp'
  <2>1. \A d \in Checkouts : checkout'[d].sold = checkout[d].sold
    BY <1>3, <1>4
  <2> QED BY <1>1, <2>1, PlacesKeep
<1>12. balance' \in [Layers -> BalanceRecord]
  <2>1. {a \in Own(c) : alloc[a].status \in Live} \in SUBSET Allocs
    BY Finite
  <2> QED BY <1>1, <2>1, BalanceKeeps DEF SagaType
<1>13. SagaType'
  BY <1>1, <1>3, <1>6, <1>8, <1>10, <1>12 DEF SagaType
<1> QED BY <1>6, <1>7, <1>8, <1>9, <1>10, <1>11, <1>13

\* Compensating a basket takes it out of its lane as a whole.
LEMMA StagedIsWhole ==
  ASSUME SagaInv, NEW c \in Checkouts, checkout[c].status = "STOCK_PREPARED"
  PROVE  /\ {a \in Own(c) : alloc[a].moved = "PREPARED"} = Own(c)
         /\ \A a \in Own(c) : alloc[a].status # "NONE" /\ alloc[a].status # "RESERVED"
         /\ Held(alloc, Own(c)) \in Holding
         /\ Units(Held(alloc, Own(c))) = Lines * Want
         /\ checkout[c].lane \in Lanes /\ stage[checkout[c].lane] = Lines * Want
         /\ ~checkout[c].sold
<1> USE DEF SagaInv
<1>1. Basket(checkout[c], alloc, c) /\ alloc \in [Allocs -> AllocRecord]
  BY DEF SagaType, CheckoutInv
<1>2. \A a \in Own(c) : alloc[a].moved = "PREPARED"
  BY <1>1 DEF Basket
<1>3. \A a \in Own(c) : alloc[a].status # "NONE" /\ alloc[a].status # "RESERVED"
  BY <1>2, Finite DEF Positions, NoAllocation
<1>4. Units(Held(alloc, Own(c))) = Lines * Want /\ Held(alloc, Own(c)) \in Holding
  BY <1>1, <1>3, Finite, WholeBasket, HeldIs
<1>5. checkout[c].lane \in Lanes /\ stage[checkout[c].lane] = Lines * Want /\ ~checkout[c].sold
  BY <1>1 DEF Basket, StageInv, Working
<1> QED BY <1>2, <1>3, <1>4, <1>5

LEMMA AbortStagedKeeps ==
  ASSUME SagaInv, NEW c \in Checkouts, AbortStaged(c) PROVE SagaInv'
<1> USE DEF SagaInv
<1> DEFINE l == checkout[c].lane
           A == Own(c)
           t == Held(alloc, A)
           r == [checkout[c] EXCEPT !.status = "COMPENSATED"]
           fin == Finish(alloc, A, "RELEASED")
<1>1. checkout[c].status = "STOCK_PREPARED"
  BY DEF AbortStaged
<1>2. /\ {a \in Own(c) : alloc[a].moved = "PREPARED"} = A
      /\ \A a \in A : alloc[a].status # "NONE" /\ alloc[a].status # "RESERVED"
      /\ t \in Holding /\ Units(t) = Lines * Want
      /\ l \in Lanes /\ stage[l] = Lines * Want /\ ~checkout[c].sold
  BY <1>1, StagedIsWhole
<1>3. /\ ledger' = [p \in Layers |-> ledger[p] + t[p]]
      /\ balance' = [p \in Layers |-> [balance[p] EXCEPT !.actual = @ + t[p]]]
      /\ stage' = [stage EXCEPT ![l] = @ - Units(t)]
      /\ alloc' = [a \in Allocs |-> IF a \in A THEN [fin[a] EXCEPT !.moved = "COMPENSATED"]
                                    ELSE alloc[a]]
      /\ lane' = [lane EXCEPT ![l] = LaneAfter(l, c, InLane(l) - Units(t))]
      /\ checkout' = [checkout EXCEPT ![c].status = "COMPENSATED"]
      /\ Notify(c, Changed) /\ UNCHANGED stray
  BY <1>2 DEF AbortStaged
<1>4. checkout[c] \in CheckoutRecord
  BY DEF SagaType
<1>5. /\ checkout' = [checkout EXCEPT ![c] = r] /\ r \in CheckoutRecord
      /\ r.status = "COMPENSATED" /\ r.lane = l /\ r.sold = checkout[c].sold
  BY <1>3, <1>4 DEF CheckoutRecord, Statuses, Stopped, SagaType
<1>6. A \in SUBSET Allocs /\ \A d \in Checkouts \ {c} : Own(d) \cap A = {} /\ Own(d) \subseteq Allocs
  BY Finite
<1>6a. \A p \in Layers : balance[p] \in BalanceRecord
  BY DEF SagaType
<1> HIDE DEF r, A, t, l
<1>7. checkout'[c] = r /\ \A d \in Checkouts \ {c} : checkout'[d] = checkout[d]
  BY <1>5 DEF SagaType
<1>8. /\ fin \in [Allocs -> AllocRecord] /\ Positions(fin)
      /\ \A a \in Allocs : fin[a].status = IF a \in A /\ alloc[a].status \in Live THEN "RELEASED"
                                           ELSE alloc[a].status
  BY <1>6, FinishKeeps DEF SagaType, Ended
<1> HIDE DEF fin
<1>9. \A a \in A : fin[a].status \notin Live \cup {"NONE"}
  BY <1>2, <1>6, <1>8 DEF Live
<1>10. \A a \in Allocs : /\ alloc'[a] \in AllocRecord
                         /\ a \notin A => alloc'[a] = alloc[a]
                         /\ a \in A => /\ alloc'[a].status = fin[a].status /\ alloc'[a].held = fin[a].held
                                       /\ alloc'[a].released = fin[a].released
                                       /\ alloc'[a].moved = "COMPENSATED"
  <2> TAKE a \in Allocs
  <2>1. fin[a] \in AllocRecord /\ alloc[a] \in AllocRecord
    BY <1>8 DEF SagaType
  <2>2. CASE a \in A
    <3>1. alloc'[a] = [fin[a] EXCEPT !.moved = "COMPENSATED"]
      BY <1>3, <2>2
    <3> QED BY <2>1, <2>2, <3>1 DEF AllocRecord
  <2>3. CASE a \notin A
    BY <1>3, <2>1, <2>3
  <2> QED BY <2>2, <2>3
<1>11. alloc' \in [Allocs -> AllocRecord]
  <2>1. alloc' = [a \in Allocs |-> alloc'[a]]
    BY <1>3
  <2> QED BY <1>10, <2>1
<1>12. Positions(alloc')
  <2> SUFFICES ASSUME NEW a \in Allocs
               PROVE  /\ alloc'[a].status = "NONE" => alloc'[a] = NoAllocation
                      /\ alloc'[a].status = "RESERVED" => ~alloc'[a].released /\ alloc'[a].moved = "NONE"
                      /\ alloc'[a].status \in {"PREPARED"} \cup Ended => alloc'[a].released
                      /\ alloc'[a].status # "NONE" => Units(alloc'[a].held) = Want
    BY DEF Positions
  <2>1. CASE a \in A
    BY <1>8, <1>9, <1>10, <2>1 DEF Positions, Live
  <2>2. CASE a \notin A
    BY <1>10, <2>2 DEF Positions
  <2> QED BY <2>1, <2>2
<1>13. CheckoutInv'
  <2>1. Basket(r, alloc', c)
    <3>1. \A a \in A : alloc'[a].status \notin Live /\ alloc'[a].moved # "PREPARED"
      BY <1>6, <1>9, <1>10
    <3> QED BY <1>2, <1>5, <3>1 DEF Basket, Working, A
  <2>2. \A d \in Checkouts \ {c} : \A a \in Own(d) : alloc'[a] = alloc[a]
    BY <1>6, <1>10
  <2> QED BY <1>5, <2>1, <2>2, OthersKeep
<1>14. lane' \in [Lanes -> LaneRecord] /\ LaneInv'
  <2>1. r.status \notin Working /\ l = checkout[c].lane
    BY <1>5 DEF Working, l
  <2> QED BY <1>2, <1>3, <1>5, <2>1, LaneIsLeft
<1>15. stage' = [stage EXCEPT ![l] = 0]
  <2>1. stage[l] - Units(t) = 0
    BY <1>2, TotalsAreInts
  <2> QED BY <1>3, <2>1
<1>16. StageInv'
  <2>1. l = checkout[c].lane
    BY DEF l
  <2> QED BY <1>1, <1>2, <1>5, <1>15, <2>1, StageIsLeft
<1>17. worker' \in [Workers -> WorkerRecord] /\ WorkerInv'
  BY <1>3, <1>7, WorkersNotified DEF Changed
<1>18. UnitsAddUp'
  <2>1. Units(ledger') = Units(ledger) + Lines * Want
    BY <1>2, <1>3, PoolsMove DEF SagaType
  <2>2. SumOver(stage', Lanes) = SumOver(stage, Lanes) - Lines * Want
    <3>1. SumOver(stage', Lanes) = SumOver(stage, Lanes) - stage[l] + 0
      BY <1>2, <1>15, LanesMove DEF SagaType
    <3> QED BY <1>2, <3>1, TotalsAreInts
  <2>3. Invoiced(checkout') = Invoiced(checkout)
    <3>1. \A d \in Checkouts : checkout'[d].sold = checkout[d].sold
      BY <1>5, <1>7
    <3> QED BY <3>1, InvoicedSame
  <2>4. PICK x \in Int, y \in Int : x = Lines * Want /\ y = -x
    BY TotalsAreInts
  <2>5. /\ Units(ledger') = Units(ledger) + x /\ SumOver(stage', Lanes) = SumOver(stage, Lanes) + y
        /\ Invoiced(checkout') = Invoiced(checkout) + 0 /\ x + y + 0 = 0
    BY <2>1, <2>2, <2>3, <2>4, TotalsAreInts
  <2> QED BY <2>5, MovesAddUp
<1>19. balance' \in [Layers -> BalanceRecord] /\ ledger' \in Holding /\ stage' \in [Lanes -> Nat]
  <2>1. \A p \in Layers : ledger[p] \in Nat /\ t[p] \in Nat
    BY <1>2 DEF SagaType, Holding
  <2>2. \A p \in Layers : [balance[p] EXCEPT !.actual = @ + t[p]] \in BalanceRecord
    BY <1>6a, <2>1 DEF BalanceRecord
  <2>3. \A p \in Layers : ledger[p] + t[p] \in Nat
    BY <2>1
  <2>4. balance' \in [Layers -> BalanceRecord]
    BY <1>3, <2>2
  <2>5. ledger' \in Holding
    BY <1>3, <2>3 DEF Holding
  <2>6. stage' \in [Lanes -> Nat]
    BY <1>15 DEF SagaType
  <2> QED BY <2>4, <2>5, <2>6
<1>20. SagaType'
  BY <1>3, <1>5, <1>11, <1>14, <1>17, <1>19 DEF SagaType
<1> QED BY <1>12, <1>13, <1>14, <1>16, <1>17, <1>18, <1>20

\* What one transaction of _prepare and _sell does, over the allocations al and the
\* balances b that it has written before: the basket is taken as a whole.
LEMMA WalkKeeps ==
  ASSUME SagaInv, NEW c \in Checkouts, checkout[c].status \in {"RESERVING", "RESERVED"},
         NEW al \in [Allocs -> AllocRecord], Positions(al), NEW b \in [Layers -> BalanceRecord],
         \A x \in Allocs \ Own(c) : al[x] = alloc[x],
         \A x \in Own(c) : al[x].moved # "PREPARED",
         NEW stop \in Stops, Walk(c, al, b, stop), stray' = stray
  PROVE  /\ \A d \in Checkouts \ {c} : checkout'[d] = checkout[d]
         /\ worker' \in [Workers -> WorkerRecord] /\ WorkerInv' => SagaInv'
<1> USE DEF SagaInv
<1> DEFINE l == checkout[c].lane
           A == Own(c)
           t == Held(al, A)
<1>1. checkout[c] \in CheckoutRecord /\ Basket(checkout[c], alloc, c)
  BY DEF SagaType, CheckoutInv
<1>2. l \in Lanes /\ ~checkout[c].sold /\ checkout[c].status \in Working \ {"STOCK_PREPARED"}
  BY <1>1 DEF Basket, Working
<1>3. A \in SUBSET Allocs /\ \A d \in Checkouts \ {c} : Own(d) \cap A = {} /\ Own(d) \subseteq Allocs
  BY Finite
<1>4. t \in Holding
  BY <1>3, HeldIs
<1>5. CASE /\ alloc' = al /\ balance' = b
           /\ checkout' = [checkout EXCEPT ![c].status = "RESERVED"]
           /\ UNCHANGED <<ledger, lane, stage>>
  <2> DEFINE r == [checkout[c] EXCEPT !.status = "RESERVED"]
  <2>1. /\ checkout' = [checkout EXCEPT ![c] = r] /\ r \in CheckoutRecord
        /\ r.status = "RESERVED" /\ r.lane = l /\ r.sold = checkout[c].sold
    BY <1>1, <1>5 DEF CheckoutRecord, Statuses, SagaType
  <2> HIDE DEF r, l, A, t
  <2>2. checkout'[c] = r /\ \A d \in Checkouts \ {c} : checkout'[d] = checkout[d]
    BY <2>1 DEF SagaType
  <2>3. CheckoutInv'
    <3>1. Basket(r, al, c)
      BY <1>2, <2>1 DEF Basket, Working, Stopped
    <3>2. \A d \in Checkouts \ {c} : \A a \in Own(d) : al[a] = alloc[a]
      BY <1>3 DEF A
    <3> QED BY <1>5, <2>1, <3>1, <3>2, OthersKeep
  <2>4. LaneInv'
    BY <1>2, <1>5, <2>1, LaneStays DEF Working, l
  <2>5. StageInv'
    BY <1>2, <1>5, <2>1, StageStays
  <2>6. UnitsAddUp'
    <3>1. \A d \in Checkouts : checkout'[d].sold = checkout[d].sold
      BY <2>1, <2>2
    <3> QED BY <1>5, <3>1, PlacesKeep
  <2>7. worker' \in [Workers -> WorkerRecord] => SagaType'
    BY <1>5, <2>1 DEF SagaType
  <2> QED BY <1>5, <2>2, <2>3, <2>4, <2>5, <2>6, <2>7
<1>6. CASE /\ \A a \in Own(c) : al[a].status = "RESERVED"
           /\ \A p \in Layers : t[p] =< ledger[p] /\ (t[p] > 0 => b[p].reserved =< b[p].actual)
           /\ ledger' = [p \in Layers |-> ledger[p] - t[p]]
           /\ balance' = TakeOut(b, t)
           /\ \/ /\ stop = "STOCK_PREPARED"
                 /\ alloc' = Mark(al, Own(c), "PREPARED", "PREPARED")
                 /\ stage' = [stage EXCEPT ![l] = @ + Units(t)]
                 /\ checkout' = [checkout EXCEPT ![c].status = "STOCK_PREPARED"]
                 /\ lane' = lane
              \/ /\ stop = "none"
                 /\ InLane(l) = 0
                 /\ alloc' = Mark(al, Own(c), "CONSUMED", "CONSUMED")
                 /\ stage' = stage
                 /\ checkout' = [checkout EXCEPT ![c] = Sold(c)]
                 /\ lane' = [lane EXCEPT ![l] = LaneAfter(l, c, 0)]
  <2>1. Units(t) = Lines * Want
    BY <1>6, WholeBasket
  <2>2. ledger' \in Holding /\ balance' \in [Layers -> BalanceRecord]
    <3>1. \A p \in Layers : ledger[p] - t[p] \in Nat
      BY <1>4, <1>6 DEF SagaType, Holding
    <3> HIDE DEF t
    <3>2. ledger' \in Holding
      BY <1>6, <3>1 DEF Holding
    <3>3. balance' \in [Layers -> BalanceRecord]
      BY <1>4, <1>6, BalanceKeeps
    <3> QED BY <3>2, <3>3
  <2>3. Units(ledger') = Units(ledger) - Lines * Want
    BY <1>4, <1>6, <2>1, PoolsMove DEF SagaType
  <2>4. \A a \in A : al[a].status # "NONE"
    BY <1>6
  <2>5. PICK x \in Int, y \in Int : x = Lines * Want /\ y = -x
    BY TotalsAreInts
  <2>6. CASE /\ alloc' = Mark(al, Own(c), "PREPARED", "PREPARED")
             /\ stage' = [stage EXCEPT ![l] = @ + Units(t)]
             /\ checkout' = [checkout EXCEPT ![c].status = "STOCK_PREPARED"]
             /\ lane' = lane
    <3> DEFINE r == [checkout[c] EXCEPT !.status = "STOCK_PREPARED"]
    <3>1. /\ checkout' = [checkout EXCEPT ![c] = r] /\ r \in CheckoutRecord
          /\ r.status = "STOCK_PREPARED" /\ r.lane = l /\ r.sold = checkout[c].sold
      BY <1>1, <2>6 DEF CheckoutRecord, Statuses, SagaType
    <3>2. stage' = [stage EXCEPT ![l] = stage[l] + Lines * Want]
      BY <2>1, <2>6
    <3> HIDE DEF r, l, A, t
    <3>3. checkout'[c] = r /\ \A d \in Checkouts \ {c} : checkout'[d] = checkout[d]
      BY <3>1 DEF SagaType
    <3>4. /\ alloc' \in [Allocs -> AllocRecord] /\ Positions(alloc')
          /\ \A a \in Allocs : /\ a \notin A => alloc'[a] = al[a]
                               /\ a \in A => alloc'[a].moved = "PREPARED"
      BY <1>3, <2>4, <2>6, MarkKeeps DEF A
    <3>5. CheckoutInv'
      <4>1. Basket(r, alloc', c)
        BY <1>2, <1>3, <3>1, <3>4 DEF Basket, Working, Stopped, A
      <4>2. \A d \in Checkouts \ {c} : \A a \in Own(d) : alloc'[a] = alloc[a]
        BY <1>3, <3>4 DEF A
      <4> QED BY <3>1, <4>1, <4>2, OthersKeep
    <3>6. LaneInv'
      BY <1>2, <2>6, <3>1, LaneStays DEF Working, l
    <3>7. StageInv'
      <4>1. l = checkout[c].lane
        BY DEF l
      <4> QED BY <1>2, <3>1, <3>2, <4>1, StageIsEntered
    <3>8. UnitsAddUp'
      <4>1. SumOver(stage', Lanes) = SumOver(stage, Lanes) + Lines * Want
        <5>1. stage[l] \in Nat /\ stage[l] + Lines * Want \in Nat
          BY <1>2, TotalsAreInts DEF SagaType
        <5>2. SumOver(stage', Lanes) = SumOver(stage, Lanes) - stage[l] + (stage[l] + Lines * Want)
          BY <1>2, <3>2, <5>1, LanesMove DEF SagaType
        <5> QED BY <5>1, <5>2, TotalsAreInts
      <4>2. Invoiced(checkout') = Invoiced(checkout)
        <5>1. \A d \in Checkouts : checkout'[d].sold = checkout[d].sold
          BY <3>1, <3>3
        <5> QED BY <5>1, InvoicedSame
      <4>3. /\ Units(ledger') = Units(ledger) + y /\ SumOver(stage', Lanes) = SumOver(stage, Lanes) + x
            /\ Invoiced(checkout') = Invoiced(checkout) + 0 /\ y + x + 0 = 0
        BY <2>3, <2>5, <4>1, <4>2, TotalsAreInts
      <4> QED BY <4>3, MovesAddUp
    <3>9. stage' \in [Lanes -> Nat]
      <4>1. stage[l] + Lines * Want \in Nat
        BY <1>2, TotalsAreInts DEF SagaType
      <4> QED BY <3>2, <4>1 DEF SagaType
    <3>10. worker' \in [Workers -> WorkerRecord] => SagaType'
      BY <2>2, <2>6, <3>1, <3>4, <3>9 DEF SagaType
    <3> QED BY <3>3, <3>4, <3>5, <3>6, <3>7, <3>8, <3>10
  <2>7. CASE /\ alloc' = Mark(al, Own(c), "CONSUMED", "CONSUMED")
             /\ stage' = stage
             /\ checkout' = [checkout EXCEPT ![c] = Sold(c)]
             /\ lane' = [lane EXCEPT ![l] = LaneAfter(l, c, 0)]
    <3> DEFINE r == Sold(c)
    <3>1. /\ checkout' = [checkout EXCEPT ![c] = r] /\ r \in CheckoutRecord
          /\ r.status \in {"FISCAL_PENDING", "COMPLETED"} /\ r.lane = l /\ r.sold = TRUE
      BY <1>1, <2>7 DEF CheckoutRecord, Statuses, Sold
    <3> HIDE DEF r, l, A, t
    <3>2. checkout'[c] = r /\ \A d \in Checkouts \ {c} : checkout'[d] = checkout[d]
      BY <3>1 DEF SagaType
    <3>3. /\ alloc' \in [Allocs -> AllocRecord] /\ Positions(alloc')
          /\ \A a \in Allocs : /\ a \notin A => alloc'[a] = al[a]
                               /\ a \in A => alloc'[a].moved = "CONSUMED" /\ alloc'[a].status = "CONSUMED"
      BY <1>3, <2>4, <2>7, MarkKeeps DEF A
    <3>4. CheckoutInv'
      <4>1. Basket(r, alloc', c)
        BY <1>2, <1>3, <3>1, <3>3 DEF Basket, Working, Stopped, A
      <4>2. \A d \in Checkouts \ {c} : \A a \in Own(d) : alloc'[a] = alloc[a]
        BY <1>3, <3>3 DEF A
      <4> QED BY <3>1, <4>1, <4>2, OthersKeep
    <3>5. lane' \in [Lanes -> LaneRecord] /\ LaneInv'
      <4>1. r.status \notin Working /\ l = checkout[c].lane
        BY <3>1 DEF Working, l
      <4> QED BY <1>2, <2>7, <3>1, <4>1, LaneIsLeft
    <3>6. StageInv'
      BY <1>2, <2>7, <3>1, StageStays
    <3>7. UnitsAddUp'
      <4>1. Invoiced(checkout') = Invoiced(checkout) + Lines * Want
        <5>1. checkout'[c].sold /\ \A d \in Checkouts \ {c} : checkout'[d].sold = checkout[d].sold
          BY <3>1, <3>2
        <5> QED BY <1>2, <5>1, InvoicedMoves
      <4>2. /\ Units(ledger') = Units(ledger) + y /\ SumOver(stage', Lanes) = SumOver(stage, Lanes) + 0
            /\ Invoiced(checkout') = Invoiced(checkout) + x /\ y + 0 + x = 0
        BY <2>3, <2>5, <2>7, <4>1, TotalsAreInts
      <4> QED BY <4>2, MovesAddUp
    <3>8. worker' \in [Workers -> WorkerRecord] => SagaType'
      BY <2>2, <2>7, <3>1, <3>3, <3>5 DEF SagaType
    <3> QED BY <3>2, <3>3, <3>4, <3>5, <3>6, <3>7, <3>8
  <2> QED BY <1>6, <2>6, <2>7
<1> QED BY <1>5, <1>6 DEF Walk

\* Lines are numbered, so there is a first one among those that are open.
LEMMA FirstLine ==
  ASSUME NEW c, NEW open \in SUBSET Own(c), open # {}
  PROVE  \E x \in open : \A y \in open : x[2] =< y[2]
<1> DEFINE T == {x[2] : x \in open}
           R == OpToRel(<, Nat)
<1>1. \A x \in open : x[2] \in Nat
  BY ConstantsAssumption DEF Own
<1>2. T \subseteq Nat /\ T # {}
  BY <1>1
<1>3. PICK n \in T : \A m \in T : ~ (<<m, n>> \in R)
  <2> HIDE DEF T, R
  <2>1. IsWellFoundedOn(OpToRel(<, Nat), Nat)
    BY NatLessThanWellFounded
  <2> QED BY <1>2, <2>1, WFMin DEF R
<1>4. \A m \in T : n =< m
  <2> SUFFICES ASSUME NEW m \in T PROVE n =< m
    OBVIOUS
  <2>1. m \in Nat /\ n \in Nat
    BY <1>2
  <2>2. m < n => <<m, n>> \in R
    BY <2>1 DEF OpToRel
  <2> HIDE DEF R
  <2> QED BY <1>3, <2>1, <2>2
<1>5. PICK x \in open : x[2] = n
  OBVIOUS
<1> QED BY <1>4, <1>5

\* The line that ReserveLine holds next and what it writes for it.
Open(c)  == {a \in Own(c) : alloc[a].status = "NONE"}
NextOf(c) == CHOOSE x \in Open(c) : \A y \in Open(c) : x[2] =< y[2]

LEMMA LineIs ==
  ASSUME SagaInv, NEW w \in Workers, ReserveLine(w)
  PROVE  /\ worker[w].co \in Checkouts /\ checkout[worker[w].co].status = "RESERVING"
         /\ worker[w].ledger \in Holding /\ Plan(worker[w]) \in Holding
         /\ Units(Plan(worker[w])) = Want
         /\ NextOf(worker[w].co) \in Own(worker[w].co) /\ NextOf(worker[w].co) \in Allocs
         /\ alloc[NextOf(worker[w].co)] = NoAllocation
         /\ worker[w].stop \in Stops
<1> USE DEF SagaInv
<1> DEFINE c == worker[w].co
<1>1. worker[w] \in WorkerRecord /\ worker[w].at # "idle" /\ worker[w].fresh
  BY DEF SagaType, ReserveLine
<1>2. c \in Checkouts /\ checkout[c].status = "RESERVING"
  BY <1>1 DEF WorkerInv
<1>3. worker[w].ledger \in Holding /\ worker[w].reserved \in Holding /\ worker[w].stop \in Stops
  BY <1>1 DEF WorkerRecord
<1>4. Enough(worker[w]) /\ Open(c) # {}
  BY DEF ReserveLine, Open
<1>5. NextOf(c) \in Open(c)
  <2>1. \E x \in Open(c) : \A y \in Open(c) : x[2] =< y[2]
    BY <1>4, FirstLine DEF Open
  <2> QED BY <2>1 DEF NextOf
<1>6. NextOf(c) \in Own(c) /\ NextOf(c) \in Allocs /\ alloc[NextOf(c)].status = "NONE"
  BY <1>2, <1>5, Finite DEF Open
<1> QED BY <1>2, <1>3, <1>4, <1>6, PlanIsWhole DEF Positions

LEMMA LineKeeps == ASSUME SagaInv, NEW w \in Workers, ReserveLine(w) PROVE SagaInv'
<1> USE DEF SagaInv
<1> DEFINE c == worker[w].co
           a == NextOf(c)
           take == Plan(worker[w])
           al == Reserved(alloc, a, take)
           b == Hold(balance, worker[w], take)
<1>1. /\ c \in Checkouts /\ checkout[c].status = "RESERVING" /\ worker[w].ledger \in Holding
      /\ take \in Holding /\ Units(take) = Want
      /\ a \in Own(c) /\ a \in Allocs /\ alloc[a] = NoAllocation /\ worker[w].stop \in Stops
  BY LineIs
<1>2. /\ stray' = stray
      /\ \/ /\ alloc' = al /\ balance' = b /\ UNCHANGED <<checkout, ledger, lane, stage>>
            /\ Commit(w, c, Changed, [Idle EXCEPT !.at = "ready", !.co = c, !.stop = worker[w].stop])
         \/ Walk(c, al, b, worker[w].stop) /\ Commit(w, c, Changed, Idle)
  BY DEF ReserveLine, NextOf, Open
<1> HIDE DEF take, a, c
<1>3. /\ al \in [Allocs -> AllocRecord] /\ Positions(al)
      /\ \A x \in Allocs : x # a => al[x] = alloc[x]
      /\ al[a].status = "RESERVED" /\ al[a].moved = "NONE"
  BY <1>1, ReservedKeeps DEF SagaType
<1>4. b \in [Layers -> BalanceRecord]
  BY <1>1, BalanceKeeps DEF SagaType
<1>5. Changed \in SUBSET Layers
  BY DEF Changed
<1>6. alloc[a].moved = "NONE"
  BY <1>1 DEF NoAllocation
<1> HIDE DEF al, b
<1>7. CASE /\ alloc' = al /\ balance' = b /\ UNCHANGED <<checkout, ledger, lane, stage>>
           /\ Commit(w, c, Changed, [Idle EXCEPT !.at = "ready", !.co = c, !.stop = worker[w].stop])
  <2> DEFINE r == [Idle EXCEPT !.at = "ready", !.co = c, !.stop = worker[w].stop]
  <2>1. r \in WorkerRecord /\ r.co = c
    <3>1. Nothing \in Holding
      BY DEF Nothing, Holding
    <3> QED BY <1>1, <3>1 DEF Idle, WorkerRecord
  <2>2. Commit(w, c, Changed, r)
    BY <1>7
  <2> HIDE DEF r
  <2>3. worker' \in [Workers -> WorkerRecord] /\ WorkerInv'
    BY <1>1, <1>5, <1>7, <2>1, <2>2, WorkersCommitted
  <2>4. ASSUME NEW d \in Checkouts, NEW x \in Own(d)
        PROVE  /\ alloc'[x].moved = alloc[x].moved
               /\ (checkout[d].sold \/ checkout[d].status \in Stopped) /\ alloc[x].status \notin Live
                     => alloc'[x].status = alloc[x].status
    <3>1. x \in Allocs
      BY Finite
    <3>2. CASE x # a
      BY <1>3, <1>7, <3>1, <3>2
    <3>3. CASE x = a
      <4>1. d = c
        BY <1>1, <3>3, Finite
      <4>2. ~checkout[d].sold /\ checkout[d].status \notin Stopped
        BY <1>1, <4>1 DEF CheckoutInv, Basket, Working, Stopped
      <4> QED BY <1>3, <1>6, <1>7, <3>3, <4>2
    <3> QED BY <3>2, <3>3
  <2> QED BY <1>2, <1>3, <1>4, <1>7, <2>3, <2>4, HoldsKeep
<1>8. CASE Walk(c, al, b, worker[w].stop) /\ Commit(w, c, Changed, Idle)
  <2>1. \A x \in Allocs \ Own(c) : al[x] = alloc[x]
    BY <1>1, <1>3
  <2>2. \A x \in Own(c) : al[x].moved # "PREPARED"
    <3>1. \A x \in Own(c) : x \in Allocs /\ alloc[x].moved # "PREPARED"
      BY <1>1, Finite DEF CheckoutInv, Basket
    <3> QED BY <1>3, <3>1
  <2>3. /\ \A d \in Checkouts \ {c} : checkout'[d] = checkout[d]
        /\ worker' \in [Workers -> WorkerRecord] /\ WorkerInv' => SagaInv'
    BY <1>1, <1>2, <1>3, <1>4, <1>8, <2>1, <2>2, WalkKeeps
  <2>4. worker' \in [Workers -> WorkerRecord] /\ WorkerInv'
    <3>1. Idle.at = "idle"
      BY DEF Idle
    <3> QED BY <1>5, <1>8, <2>3, <3>1, IdleIsWorker, WorkersCommitted
  <2> QED BY <2>3, <2>4
<1> QED BY <1>2, <1>7, <1>8

LEMMA ResumeKeeps ==
  ASSUME SagaInv, NEW c \in Checkouts, NEW stop \in StopAt, Resume(c, stop) PROVE SagaInv'
<1> USE DEF SagaInv
<1>1. stop \in Stops /\ Notify(c, Changed) /\ stray' = stray /\ Changed \in SUBSET Layers
  BY ConstantsAssumption DEF Resume, Changed
<1>2. CASE checkout[c].status = "RESERVED" /\ Walk(c, alloc, balance, stop)
  <2>1. \A x \in Own(c) : alloc[x].moved # "PREPARED"
    BY <1>2 DEF CheckoutInv, Basket
  <2>2. /\ \A d \in Checkouts \ {c} : checkout'[d] = checkout[d]
        /\ worker' \in [Workers -> WorkerRecord] /\ WorkerInv' => SagaInv'
    BY <1>1, <1>2, <2>1, WalkKeeps DEF SagaType
  <2>3. worker' \in [Workers -> WorkerRecord] /\ WorkerInv'
    BY <1>1, <2>2, WorkersNotified
  <2> QED BY <2>2, <2>3
<1> DEFINE l == checkout[c].lane
           A == Own(c)
           r == Sold(c)
<1>3. CASE /\ checkout[c].status = "STOCK_PREPARED"
           /\ \A a \in Own(c) : alloc[a].status = "PREPARED"
           /\ stage' = [stage EXCEPT ![l] = 0]
           /\ lane' = [lane EXCEPT ![l] = LaneAfter(l, c, 0)]
           /\ alloc' = Mark(alloc, Own(c), "CONSUMED", "CONSUMED")
           /\ checkout' = [checkout EXCEPT ![c] = Sold(c)]
           /\ UNCHANGED <<balance, ledger>>
  <2>1. /\ \A a \in Own(c) : alloc[a].status # "NONE"
        /\ l \in Lanes /\ stage[l] = Lines * Want /\ ~checkout[c].sold
    BY <1>3, StagedIsWhole
  <2>2. checkout[c] \in CheckoutRecord
    BY DEF SagaType
  <2>3. /\ checkout' = [checkout EXCEPT ![c] = r] /\ r \in CheckoutRecord
        /\ r.status \in {"FISCAL_PENDING", "COMPLETED"} /\ r.lane = l /\ r.sold = TRUE
    BY <1>3, <2>2 DEF CheckoutRecord, Statuses, Sold
  <2> HIDE DEF r, l, A
  <2>4. checkout'[c] = r /\ \A d \in Checkouts \ {c} : checkout'[d] = checkout[d]
    BY <2>3 DEF SagaType
  <2>5. /\ alloc' \in [Allocs -> AllocRecord] /\ Positions(alloc')
        /\ \A a \in Allocs : /\ a \notin A => alloc'[a] = alloc[a]
                             /\ a \in A => alloc'[a].moved = "CONSUMED" /\ alloc'[a].status = "CONSUMED"
    BY <1>3, <2>1, Finite, MarkKeeps DEF A, SagaType
  <2>6. CheckoutInv'
    <3>1. Basket(r, alloc', c)
      <4>1. \A a \in Own(c) : a \in Allocs
        BY Finite
      <4> QED BY <2>1, <2>3, <2>5, <4>1 DEF Basket, Working, Stopped, Live, A
    <3>2. \A d \in Checkouts \ {c} : \A a \in Own(d) : alloc'[a] = alloc[a]
      BY <2>5, Finite DEF A
    <3> QED BY <2>3, <3>1, <3>2, OthersKeep
  <2>7. lane' \in [Lanes -> LaneRecord] /\ LaneInv'
    <3>1. r.status \notin Working /\ l = checkout[c].lane
      BY <2>3 DEF Working, l
    <3> QED BY <1>3, <2>1, <2>3, <3>1, LaneIsLeft
  <2>8. StageInv'
    <3>1. l = checkout[c].lane
      BY DEF l
    <3> QED BY <1>3, <2>1, <2>3, <3>1, StageIsLeft
  <2>9. UnitsAddUp'
    <3>1. Invoiced(checkout') = Invoiced(checkout) + Lines * Want
      <4>1. checkout'[c].sold /\ \A d \in Checkouts \ {c} : checkout'[d].sold = checkout[d].sold
        BY <2>3, <2>4
      <4> QED BY <2>1, <4>1, InvoicedMoves
    <3>2. SumOver(stage', Lanes) = SumOver(stage, Lanes) - Lines * Want + 0
      BY <1>3, <2>1, LanesMove DEF SagaType
    <3>3. PICK x \in Int, y \in Int : x = Lines * Want /\ y = -x
      BY TotalsAreInts
    <3>4. Units(ledger') = Units(ledger) + 0
      BY <1>3, TotalsAreInts
    <3>5. SumOver(stage', Lanes) = SumOver(stage, Lanes) + y
      BY <3>2, <3>3, TotalsAreInts
    <3>6. Invoiced(checkout') = Invoiced(checkout) + x
      BY <3>1, <3>3
    <3>7. 0 \in Int /\ 0 + y + x = 0
      BY <3>3
    <3> QED BY <3>3, <3>4, <3>5, <3>6, <3>7, MovesAddUp
  <2>10. worker' \in [Workers -> WorkerRecord] /\ WorkerInv'
    BY <1>1, <2>4, WorkersNotified
  <2>11. SagaType'
    <3>1. stage' \in [Lanes -> Nat]
      BY <1>3 DEF SagaType
    <3> QED BY <1>1, <1>3, <2>3, <2>5, <2>7, <2>10, <3>1 DEF SagaType
  <2> QED BY <2>5, <2>6, <2>7, <2>8, <2>9, <2>10, <2>11
<1> QED BY <1>2, <1>3 DEF Resume, stock

-----------------------------------------------------------------------------
(* The saga's invariant, and what follows from it whatever the database does   *)
(* about outdated snapshots.                                                   *)

LEMMA SagaInit == ASSUME Init PROVE SagaInv
<1> USE DEF Init
<1>1. Nothing \in Holding /\ OnHand \in Holding
  BY ConstantsAssumption DEF Nothing, Holding
<1>2. NoAllocation \in AllocRecord /\ NoCheckout \in CheckoutRecord /\ Idle \in WorkerRecord
  BY <1>1, IdleIsWorker DEF NoAllocation, AllocRecord, NoCheckout, CheckoutRecord, Statuses
<1>3. SagaType
  <2>1. balance \in [Layers -> BalanceRecord]
    BY ConstantsAssumption DEF BalanceRecord
  <2> QED BY <1>1, <1>2, <2>1 DEF SagaType, LaneRecord
<1>4. Positions(alloc)
  BY DEF Positions, NoAllocation, Ended
<1>5. CheckoutInv
  <2>1. \A c \in Checkouts : \A a \in Own(c) : alloc[a] = NoAllocation
    BY Finite
  <2>2. \A c \in Checkouts : checkout[c] = NoCheckout
    OBVIOUS
  <2>3. /\ NoCheckout.status = "NONE" /\ ~NoCheckout.sold
        /\ NoAllocation.moved # "PREPARED"
    BY DEF NoCheckout, NoAllocation
  <2> QED BY <2>1, <2>2, <2>3 DEF CheckoutInv, Basket, Working, Stopped
<1>6. LaneInv
  BY DEF LaneInv, NoCheckout, Working
<1>7. StageInv
  BY DEF StageInv, NoCheckout
<1>8. WorkerInv
  BY DEF WorkerInv, Idle
<1>9. UnitsAddUp
  <2>1. SumOver(stage, Lanes) = 0
    BY SumZero, ConstantsAssumption
  <2> DEFINE f == [c \in Checkouts |-> IF checkout[c].sold THEN Lines * Want ELSE 0]
  <2>2. \A c \in Checkouts : f[c] = 0
    BY DEF NoCheckout
  <2>3. SumOver(f, Checkouts) = 0
    <3> HIDE DEF f
    <3> QED BY <2>2, SumZero, ConstantsAssumption
  <2>4. Units(OnHand) \in Int
    BY <1>1, UnitsNat
  <2> QED BY <2>1, <2>3, <2>4 DEF UnitsAddUp
<1> QED BY <1>3, <1>4, <1>5, <1>6, <1>7, <1>8, <1>9 DEF SagaInv

LEMMA SagaStep == ASSUME SagaInv, [Next]_vars PROVE SagaInv'
<1>1. ASSUME NEW k \in Keys, ReserveKey(k) PROVE SagaInv'
  BY <1>1, KeyKeeps
<1>2. ASSUME NEW a \in Allocs, NEW s \in {"RELEASED", "CONSUMED"}, End(a, s) PROVE SagaInv'
  BY <1>2, EndsKeep DEF End, Ended
<1>3. ASSUME ExpireDue PROVE SagaInv'
  <2> DEFINE A == {a \in Allocs : alloc[a].status \in Live /\ alloc[a].due}
  <2>1. /\ alloc' = Finish(alloc, A, "EXPIRED") /\ balance' = GiveBack(balance, alloc, A)
        /\ Notify(NoOne, Changed) /\ UNCHANGED <<checkout, ledger, lane, stage, stray>>
    BY <1>3 DEF ExpireDue
  <2>2. A \in SUBSET Allocs /\ "EXPIRED" \in Ended
    BY DEF Ended
  <2> HIDE DEF A
  <2> QED BY <2>1, <2>2, EndsKeep
<1>4. ASSUME NEW w \in Workers, NEW c \in Checkouts, Claim(w, c) PROVE SagaInv'
  BY <1>4, ClaimKeeps
<1>5. ASSUME NEW w \in Workers, Read(w) \/ ReserveLine(w) \/ GiveUp(w) PROVE SagaInv'
  BY <1>5, ReadKeeps, LineKeeps, GiveUpKeeps
<1>6. ASSUME NEW c \in Checkouts, NEW stop \in StopAt, Resume(c, stop) PROVE SagaInv'
  BY <1>6, ResumeKeeps
<1>7. ASSUME NEW c \in Checkouts, AbortReserved(c) \/ AbortStaged(c) PROVE SagaInv'
  BY <1>7, AbortReservedKeeps, AbortStagedKeeps
<1>8. ASSUME NEW c \in Checkouts, NEW s \in {"DONE", "UNCERTAIN"}, FiscalResult(c, s) PROVE SagaInv'
  BY <1>8, FiscalKeeps
<1>9. ASSUME NEW a \in Allocs, PassTime(a) PROVE SagaInv'
  BY <1>9, PassTimeKeeps
<1>10. ASSUME NEW l \in Lanes, StrayUnit(l) PROVE SagaInv'
  BY <1>10, StrayKeeps
<1>11. CASE UNCHANGED vars
  BY <1>11 DEF vars, stock, SagaInv, SagaType, CheckoutInv, LaneInv, StageInv, WorkerInv, UnitsAddUp
<1> QED BY <1>1, <1>2, <1>3, <1>4, <1>5, <1>6, <1>7, <1>8, <1>9, <1>10, <1>11
        DEF Next, Api, Saga, Undo, Outside

LEMMA SagaAlways == Spec => []SagaInv
<1>1. Init => SagaInv
  BY SagaInit
<1>2. SagaInv /\ [Next]_vars => SagaInv'
  BY SagaStep
<1> QED BY <1>1, <1>2, PTL DEF Spec

\* No unit is lost, made or mixed with those of another checkout: pools, lanes and
\* invoices add up, and what waits in a lane is the whole basket of the one checkout
\* that holds the lane (prepare_checkout, sell_checkout, compensate_checkout).
THEOREM NoUnitIsLost == Spec => []StockIsConserved
<1>1. SagaInv => StockIsConserved
  <2> SUFFICES ASSUME SagaInv PROVE UnitsAddUp /\ LanesAreExclusive
    BY DEF StockIsConserved
  <2>1. UnitsAddUp
    BY DEF SagaInv
  <2>2. ASSUME NEW c \in Checkouts, checkout[c].status \in Working
        PROVE  lane[checkout[c].lane] = [status |-> "LOCKED", holder |-> c]
    BY <2>2 DEF SagaInv, LaneInv
  <2>3. ASSUME NEW l \in Lanes, stage[l] # 0
        PROVE  \E c \in Checkouts :
                 /\ checkout[c].status = "STOCK_PREPARED" /\ checkout[c].lane = l
                 /\ stage[l] = Units(Held(alloc, {a \in Own(c) : alloc[a].moved = "PREPARED"}))
    <3>1. PICK c \in Checkouts : checkout[c].status = "STOCK_PREPARED" /\ checkout[c].lane = l
      BY <2>3 DEF SagaInv, StageInv
    <3>2. stage[l] = Units(Held(alloc, {a \in Own(c) : alloc[a].moved = "PREPARED"}))
      BY <3>1, StagedIsWhole
    <3> QED BY <3>1, <3>2
  <2> QED BY <2>1, <2>2, <2>3 DEF LanesAreExclusive
<1> QED BY <1>1, SagaAlways, PTL

\* A checkout ends as a whole: sold with every line consumed in full and released, or
\* stopped with nothing held, nothing staged and its lane free or dirty, whichever
\* requests, aborts and expiries met it on the way (run_checkout, abort_checkout).
THEOREM CheckoutEndsWhole == Spec => []EndedIsWhole
<1>1. SagaInv => EndedIsWhole
  <2> SUFFICES ASSUME SagaInv PROVE SaleIsWhole /\ StoppedIsClean
    BY DEF EndedIsWhole
  <2> USE DEF SagaInv
  <2>1. ASSUME NEW c \in Checkouts, checkout[c].sold, NEW a \in Own(c)
        PROVE  /\ alloc[a].status = "CONSUMED" /\ alloc[a].moved = "CONSUMED"
               /\ alloc[a].released /\ Units(alloc[a].held) = Want
    <3>1. a \in Allocs /\ alloc[a].status = "CONSUMED" /\ alloc[a].moved = "CONSUMED"
      BY <2>1, Finite DEF CheckoutInv, Basket
    <3> QED BY <3>1 DEF Positions, Ended
  <2>2. ASSUME NEW c \in Checkouts, checkout[c].status \in Stopped
        PROVE  /\ \A a \in Own(c) : alloc[a].status \notin Live /\ alloc[a].moved # "PREPARED"
               /\ \A l \in Lanes : lane[l].holder = c => lane[l].status = "DIRTY"
    <3>1. \A a \in Own(c) : alloc[a].status \notin Live /\ alloc[a].moved # "PREPARED"
      BY <2>2 DEF CheckoutInv, Basket, Stopped
    <3>2. ASSUME NEW l \in Lanes, lane[l].holder = c
          PROVE  lane[l].status = "DIRTY"
      <4>1. lane[l].status \in {"AVAILABLE", "LOCKED", "DIRTY"} /\ c # NoOne
        BY ConstantsAssumption DEF SagaType, LaneRecord
      <4>2. lane[l].status # "LOCKED" /\ lane[l].status # "AVAILABLE"
        BY <2>2, <3>2, <4>1 DEF LaneInv, Working, Stopped
      <4> QED BY <4>1, <4>2
    <3> QED BY <3>1, <3>2
  <2> QED BY <2>1, <2>2 DEF SaleIsWhole, StoppedIsClean
<1> QED BY <1>1, SagaAlways, PTL

\* What ended stays ended: a consumed, released or expired allocation never changes its
\* status or its units again, and a posted invoice is never forgotten, in any step of a
\* request, of the scheduler or of an abort (_assert_transition, sell_checkout).
THEOREM EndedIsFinal == Spec => EndedStaysEnded
<1> DEFINE Final == /\ \A a \in Allocs : alloc[a].status \in Ended =>
                          alloc'[a].status = alloc[a].status /\ alloc'[a].held = alloc[a].held
                    /\ \A c \in Checkouts : checkout[c].sold => checkout'[c].sold
<1>1. ASSUME SagaInv, [Next]_vars PROVE Final
  <2> USE <1>1 DEF SagaInv
  <2>0. alloc \in [Allocs -> AllocRecord] /\ Positions(alloc) /\ checkout \in [Checkouts -> CheckoutRecord]
    BY DEF SagaType
  <2>1. \A c \in Checkouts : Own(c) \in SUBSET Allocs
    BY Finite
  <2>2. Ended \cap (Live \cup {"NONE"}) = {}
    BY DEF Ended, Live
  <2>3. ASSUME alloc' = alloc, checkout' = checkout PROVE Final
    BY <2>3
  <2>4. ASSUME NEW a \in Allocs, alloc[a].status = "NONE", NEW take,
               alloc' = Reserved(alloc, a, take), checkout' = checkout
        PROVE  Final
    <3>1. \A x \in Allocs \ {a} : alloc'[x] = alloc[x]
      BY <2>0, <2>4 DEF Reserved
    <3> QED BY <2>2, <2>4, <3>1
  <2>5. ASSUME NEW B \in SUBSET Allocs, NEW s, alloc' = Finish(alloc, B, s)
        PROVE  \A a \in Allocs : alloc[a].status \in Ended => alloc'[a] = alloc[a]
    BY <2>2, <2>5 DEF Finish
  <2>6. ASSUME NEW k \in Keys, ReserveKey(k) PROVE Final
    BY <2>4, <2>6, KeyIsForeign DEF ReserveKey
  <2>7. ASSUME NEW a \in Allocs, NEW s, End(a, s) PROVE Final
    BY <2>5, <2>7 DEF End
  <2>8. ASSUME ExpireDue PROVE Final
    <3>1. \E B \in SUBSET Allocs : alloc' = Finish(alloc, B, "EXPIRED") /\ checkout' = checkout
      BY <2>8 DEF ExpireDue
    <3> QED BY <2>5, <3>1
  <2>9. ASSUME NEW w \in Workers, NEW c \in Checkouts, Claim(w, c) PROVE Final
    <3>1. alloc' = alloc /\ \E r : checkout' = [checkout EXCEPT ![c] = r] /\ r.sold = checkout[c].sold
      <4>1. PICK l \in Lanes :
              checkout' = [checkout EXCEPT
                ![c].status = "RESERVING", ![c].lane = l,
                ![c].fiscal = IF checkout[c].status = "RESERVING" THEN @
                              ELSE IF c \in Fiscal THEN "PENDING" ELSE "NOT_REQUIRED"]
        BY <2>9 DEF Claim
      <4>2. checkout' = [checkout EXCEPT ![c] = checkout'[c]] /\ checkout'[c].sold = checkout[c].sold
        BY <2>0, <4>1 DEF CheckoutRecord
      <4> QED BY <2>9, <4>2 DEF Claim
    <3> QED BY <2>0, <3>1
  <2>10. ASSUME NEW c \in Checkouts, NEW al, NEW b, NEW stop, Walk(c, al, b, stop),
                \A a \in Allocs : alloc[a].status \in Ended => al[a] = alloc[a]
         PROVE  Final
    <3>1. CASE alloc' = al /\ checkout' = [checkout EXCEPT ![c].status = "RESERVED"]
      <4>1. \A d \in Checkouts : checkout'[d].sold = checkout[d].sold
        BY <2>0, <3>1 DEF CheckoutRecord
      <4> QED BY <2>10, <3>1, <4>1
    <3>2. CASE /\ \A a \in Own(c) : al[a].status = "RESERVED"
               /\ \/ /\ alloc' = Mark(al, Own(c), "PREPARED", "PREPARED")
                     /\ checkout' = [checkout EXCEPT ![c].status = "STOCK_PREPARED"]
                  \/ /\ alloc' = Mark(al, Own(c), "CONSUMED", "CONSUMED")
                     /\ checkout' = [checkout EXCEPT ![c] = Sold(c)]
      <4>1. \A a \in Allocs : a \notin Own(c) => alloc'[a] = al[a]
        BY <3>2 DEF Mark
      <4>2. \A a \in Own(c) : alloc[a].status \notin Ended
        BY <2>1, <2>2, <2>10, <3>2 DEF Live
      <4>3. \A d \in Checkouts : checkout[d].sold => checkout'[d].sold
        <5>1. CASE checkout' = [checkout EXCEPT ![c].status = "STOCK_PREPARED"]
          BY <2>0, <5>1 DEF CheckoutRecord
        <5>2. CASE checkout' = [checkout EXCEPT ![c] = Sold(c)]
          <6>1. Sold(c).sold
            BY <2>0 DEF Sold, CheckoutRecord
          <6> QED BY <2>0, <5>2, <6>1
        <5> QED BY <3>2, <5>1, <5>2
      <4> QED BY <2>10, <4>1, <4>2, <4>3
    <3> QED BY <2>10, <3>1, <3>2 DEF Walk
  <2>11. ASSUME NEW w \in Workers, ReserveLine(w) PROVE Final
    <3> DEFINE c == worker[w].co
               a == NextOf(c)
               take == Plan(worker[w])
               al == Reserved(alloc, a, take)
    <3>1. c \in Checkouts /\ a \in Allocs /\ alloc[a].status = "NONE"
      BY <2>11, LineIs DEF NoAllocation
    <3>2. \/ alloc' = al /\ checkout' = checkout
          \/ Walk(c, al, Hold(balance, worker[w], take), worker[w].stop)
      BY <2>11 DEF ReserveLine, NextOf, Open
    <3> HIDE DEF c, a, take
    <3>3. \A x \in Allocs : alloc[x].status \in Ended => al[x] = alloc[x]
      BY <2>0, <2>2, <3>1 DEF Reserved
    <3> HIDE DEF al
    <3> QED BY <2>4, <2>10, <3>1, <3>2, <3>3 DEF al
  <2>12. ASSUME NEW c \in Checkouts, NEW stop \in StopAt, Resume(c, stop) PROVE Final
    <3>1. CASE Walk(c, alloc, balance, stop)
      BY <2>10, <3>1
    <3>2. CASE /\ \A a \in Own(c) : alloc[a].status = "PREPARED"
               /\ alloc' = Mark(alloc, Own(c), "CONSUMED", "CONSUMED")
               /\ checkout' = [checkout EXCEPT ![c] = Sold(c)]
      <4>1. \A a \in Allocs : alloc[a].status \in Ended => alloc'[a] = alloc[a]
        BY <2>2, <3>2 DEF Mark, Live
      <4>2. \A d \in Checkouts : checkout[d].sold => checkout'[d].sold
        BY <2>0, <3>2 DEF Sold, CheckoutRecord
      <4> QED BY <4>1, <4>2
    <3> QED BY <2>12, <3>1, <3>2 DEF Resume
  <2>13. ASSUME NEW c \in Checkouts, AbortReserved(c) PROVE Final
    <3>1. \A a \in Allocs : alloc[a].status \in Ended => alloc'[a] = alloc[a]
      BY <2>1, <2>5, <2>13 DEF AbortReserved
    <3>2. \A d \in Checkouts : checkout'[d].sold = checkout[d].sold
      BY <2>0, <2>13 DEF AbortReserved, CheckoutRecord
    <3> QED BY <3>1, <3>2
  <2>14. ASSUME NEW c \in Checkouts, AbortStaged(c) PROVE Final
    <3> DEFINE A == {a \in Own(c) : alloc[a].moved = "PREPARED"}
               fin == Finish(alloc, A, "RELEASED")
    <3>1. alloc' = [a \in Allocs |-> IF a \in A THEN [fin[a] EXCEPT !.moved = "COMPENSATED"] ELSE alloc[a]]
      BY <2>14 DEF AbortStaged
    <3>2. \A a \in Allocs : alloc[a].status \in Ended => fin[a] = alloc[a]
      BY <2>2 DEF Finish
    <3>3. \A a \in Allocs : alloc[a] \in AllocRecord
      BY <2>0
    <3> HIDE DEF A, fin
    <3>4. \A a \in Allocs : alloc[a].status \in Ended =>
             alloc'[a].status = alloc[a].status /\ alloc'[a].held = alloc[a].held
      <4> SUFFICES ASSUME NEW a \in Allocs, alloc[a].status \in Ended
                   PROVE  alloc'[a].status = alloc[a].status /\ alloc'[a].held = alloc[a].held
        OBVIOUS
      <4>1. CASE a \in A
        <5>1. alloc'[a] = [alloc[a] EXCEPT !.moved = "COMPENSATED"]
          BY <3>1, <3>2, <4>1
        <5> QED BY <3>3, <5>1 DEF AllocRecord
      <4>2. CASE a \notin A
        BY <3>1, <4>2
      <4> QED BY <4>1, <4>2
    <3>5. \A d \in Checkouts : checkout'[d].sold = checkout[d].sold
      BY <2>0, <2>14 DEF AbortStaged, CheckoutRecord
    <3> QED BY <3>4, <3>5
  <2>15. ASSUME NEW c \in Checkouts, NEW s, FiscalResult(c, s) PROVE Final
    <3>1. \A d \in Checkouts : checkout'[d].sold = checkout[d].sold
      BY <2>0, <2>15 DEF FiscalResult, CheckoutRecord
    <3>2. alloc' = alloc
      BY <2>15 DEF FiscalResult
    <3> QED BY <3>1, <3>2
  <2>16. ASSUME NEW a \in Allocs, PassTime(a) PROVE Final
    <3>1. \A x \in Allocs : alloc'[x].status = alloc[x].status /\ alloc'[x].held = alloc[x].held
      BY <2>0, <2>16 DEF PassTime, AllocRecord
    <3> QED BY <2>16, <3>1 DEF PassTime
  <2>17. ASSUME NEW w \in Workers, Read(w) \/ GiveUp(w) PROVE Final
    BY <2>3, <2>17 DEF Read, GiveUp
  <2>18. ASSUME NEW l \in Lanes, StrayUnit(l) PROVE Final
    BY <2>3, <2>18 DEF StrayUnit
  <2>19. CASE UNCHANGED vars
    BY <2>3, <2>19 DEF vars
  <2> HIDE DEF Final
  <2> QED BY <2>6, <2>7, <2>8, <2>9, <2>11, <2>12, <2>13, <2>14, <2>15, <2>16, <2>17, <2>18, <2>19
          DEF Next, Api, Saga, Undo, Outside
<1>2. SagaInv /\ [Next]_vars => [Final]_vars
  BY <1>1
<1> QED BY <1>2, SagaAlways, PTL DEF Spec, EndedStaysEnded

-----------------------------------------------------------------------------
(* The counters of the layers.                                                 *)

\* What a set holds that grows by B, while the others hold what they held.
LEMMA HeldJoins ==
  ASSUME NEW al \in [Allocs -> AllocRecord], NEW be \in [Allocs -> AllocRecord],
         NEW A \in SUBSET Allocs, NEW B \in SUBSET Allocs, A \cap B = {},
         \A a \in A : al[a].held = be[a].held, NEW p \in Layers
  PROVE  Held(be, A \cup B)[p] = Held(al, A)[p] + Held(be, B)[p]
<1>1. IsFiniteSet(A) /\ IsFiniteSet(B) /\ A \cup B \in SUBSET Allocs
  BY Finite, FS_Subset
<1>2. /\ Held(be, A \cup B)[p] = SumOver(HeldAt(be, p), A \cup B)
      /\ Held(al, A)[p] = SumOver(HeldAt(al, p), A)
      /\ Held(be, B)[p] = SumOver(HeldAt(be, p), B)
      /\ Ints(HeldAt(be, p), A \cup B)
  BY <1>1, HeldIs DEF Ints
<1>3. \A a \in A : HeldAt(al, p)[a] = HeldAt(be, p)[a]
  BY DEF HeldAt
<1>4. SumOver(HeldAt(al, p), A) = SumOver(HeldAt(be, p), A)
  BY <1>1, <1>3, SumAgree
<1>5. SumOver(HeldAt(be, p), A \cup B) = SumOver(HeldAt(be, p), A) + SumOver(HeldAt(be, p), B)
  BY <1>1, <1>2, SumUnion
<1> QED BY <1>2, <1>4, <1>5

LEMMA HeldSame ==
  ASSUME NEW al \in [Allocs -> AllocRecord], NEW be \in [Allocs -> AllocRecord],
         NEW A \in SUBSET Allocs, \A a \in A : al[a].held = be[a].held, NEW p \in Layers
  PROVE  Held(be, A)[p] = Held(al, A)[p]
<1>1. Held(be, A \cup {})[p] = Held(al, A)[p] + Held(be, {})[p]
  BY HeldJoins
<1>2. Held(be, {})[p] = 0 /\ Held(al, A)[p] \in Nat /\ A \cup {} = A
  BY HeldIs, SumEmpty DEF Holding
<1> QED BY <1>1, <1>2

LEMMA HeldOne ==
  ASSUME NEW al \in [Allocs -> AllocRecord], NEW a \in Allocs, NEW p \in Layers
  PROVE  Held(al, {a})[p] = al[a].held[p]
<1>1. /\ Held(al, {a})[p] = SumOver(HeldAt(al, p), {a}) /\ Ints(HeldAt(al, p), Allocs)
      /\ HeldAt(al, p)[a] = al[a].held[p] /\ al[a].held[p] \in Nat
  BY HeldIs DEF HeldAt, AllocRecord, Holding
<1>2. IsFiniteSet({}) /\ Ints(HeldAt(al, p), {} \cup {a}) /\ {} \cup {a} = {a}
  BY <1>1, FS_EmptySet DEF Ints
<1>3. SumOver(HeldAt(al, p), {} \cup {a}) = HeldAt(al, p)[a] + SumOver(HeldAt(al, p), {})
  BY <1>2, SumAdd
<1> QED BY <1>1, <1>2, <1>3, SumEmpty

LEMMA StockFacts ==
  ASSUME NEW al \in [Allocs -> AllocRecord], NEW b \in [Layers -> BalanceRecord],
         NEW led \in Holding, NEW O, StockOf(al, b, led, O), NEW p \in Layers
  PROVE  /\ b[p].actual \in Int /\ led[p] \in Nat /\ b[p].reserved \in Nat
         /\ b[p].reserved =< b[p].actual /\ (p \notin O => b[p].actual = led[p])
         /\ b[p].reserved = Held(al, ReservedIn(al))[p]
         /\ ReservedIn(al) \in SUBSET Allocs
BY DEF StockOf, BalanceRecord, Holding, ReservedIn

\* A hold keeps the counters right, and makes those of the layers it takes from agree
\* with the ledger if that is what it read of it.
LEMMA HoldIsSafe ==
  ASSUME NEW al \in [Allocs -> AllocRecord], Positions(al), NEW b \in [Layers -> BalanceRecord],
         NEW led \in Holding, NEW O, StockOf(al, b, led, O),
         NEW a \in Allocs, al[a] = NoAllocation, NEW seen, NEW take \in Holding, Units(take) = Want,
         Fits(b, seen, take), seen.ledger \in Holding,
         NEW P, \A p \in Layers \ P : IF take[p] > 0 THEN seen.ledger[p] = led[p] ELSE p \notin O
  PROVE  StockOf(Reserved(al, a, take), Hold(b, seen, take), led, P)
<1> DEFINE be == Reserved(al, a, take)
           R == ReservedIn(al)
           h == Hold(b, seen, take)
<1>1. /\ be \in [Allocs -> AllocRecord]
      /\ \A x \in Allocs : x # a => be[x] = al[x]
      /\ be[a].status = "RESERVED" /\ be[a].held = take
  BY ReservedKeeps
<1> HIDE DEF be
<1>2. ReservedIn(be) = R \cup {a} /\ a \notin R /\ R \in SUBSET Allocs
  BY <1>1 DEF ReservedIn, NoAllocation
<1> HIDE DEF R
<1>3. ASSUME NEW p \in Layers
      PROVE  /\ h[p].reserved = b[p].reserved + take[p] /\ h[p].reserved =< h[p].actual
             /\ p \notin P => h[p].actual = led[p]
  <2>1. /\ b[p].reserved \in Nat /\ b[p].reserved =< b[p].actual /\ take[p] \in Nat
        /\ p \notin O => b[p].actual = led[p]
    BY StockFacts DEF Holding
  <2>2. CASE take[p] = 0
    BY <2>1, <2>2 DEF Hold
  <2>3. CASE take[p] # 0
    <3>1. take[p] > 0
      BY <2>1, <2>3
    <3>2. b[p].reserved + take[p] =< seen.ledger[p] /\ (p \notin P => seen.ledger[p] = led[p])
      BY <3>1 DEF Fits
    <3> QED BY <2>3, <3>2 DEF Hold
  <2> QED BY <2>2, <2>3
<1> HIDE DEF h
<1>4. ASSUME NEW p \in Layers
      PROVE  h[p].reserved = Held(be, ReservedIn(be))[p]
  <2>1. Held(be, R \cup {a})[p] = Held(al, R)[p] + Held(be, {a})[p]
    BY <1>1, <1>2, HeldJoins
  <2>2. Held(be, {a})[p] = take[p]
    BY <1>1, HeldOne
  <2>3. b[p].reserved = Held(al, R)[p]
    BY StockFacts DEF R
  <2> QED BY <1>2, <1>3, <2>1, <2>2, <2>3
<1> QED BY <1>3, <1>4 DEF StockOf, be, h

\* The allocations in R leave RESERVED, and what all of them hold stays.
Leaves(al, be, R) ==
    /\ R \in SUBSET ReservedIn(al) /\ ReservedIn(be) = ReservedIn(al) \ R
    /\ \A a \in Allocs : be[a].held = al[a].held

\* Allocations that leave RESERVED give back what they hold, once.
LEMMA GivenBack ==
  ASSUME NEW al \in [Allocs -> AllocRecord], NEW be \in [Allocs -> AllocRecord],
         NEW R, Leaves(al, be, R), NEW p \in Layers,
         NEW n \in Nat, n = Held(al, ReservedIn(al))[p]
  PROVE  /\ Held(al, R)[p] \in Nat /\ Held(al, R)[p] =< n
         /\ Minus(n, Held(al, R)[p]) = Held(be, ReservedIn(be))[p]
         /\ Minus(n, Held(al, R)[p]) = n - Held(al, R)[p]
<1> DEFINE S == ReservedIn(be)
           t == Held(al, R)[p]
           m == Held(be, S)[p]
<1>1. R \in SUBSET Allocs /\ S \in SUBSET Allocs /\ S \cap R = {} /\ S \cup R = ReservedIn(al)
  BY DEF ReservedIn, Leaves
<1>2. Held(al, S \cup R)[p] = m + t
  BY <1>1, HeldJoins DEF Leaves
<1>3. m \in Nat /\ t \in Nat
  BY <1>1, HeldIs DEF Holding
<1> HIDE DEF m, t, S
<1>4. n = m + t
  BY <1>1, <1>2
<1>5. Minus(n, t) = n - t /\ n - t = m /\ t =< n
  BY <1>3, <1>4, MinusIs
<1> QED BY <1>3, <1>5 DEF m, t, S

\* Releasing, consuming and expiring.
LEMMA EndIsSafe ==
  ASSUME NEW al \in [Allocs -> AllocRecord], Positions(al), NEW b \in [Layers -> BalanceRecord],
         NEW led \in Holding, NEW O, StockOf(al, b, led, O),
         NEW B \in SUBSET Allocs, NEW s \in Ended
  PROVE  StockOf(Finish(al, B, s), GiveBack(b, al, {a \in B : al[a].status \in Live}), led, O)
<1> DEFINE be == Finish(al, B, s)
           R == {a \in {x \in B : al[x].status \in Live} : ~al[a].released}
           g == GiveBack(b, al, {a \in B : al[a].status \in Live})
<1>1. /\ be \in [Allocs -> AllocRecord]
      /\ \A a \in Allocs : be[a].held = al[a].held
      /\ \A a \in Allocs : be[a].status = IF a \in B /\ al[a].status \in Live THEN s ELSE al[a].status
  <2>1. be \in [Allocs -> AllocRecord]
    BY FinishKeeps
  <2>2. \A a \in Allocs : /\ be[a].held = al[a].held
                          /\ be[a].status = IF a \in B /\ al[a].status \in Live THEN s ELSE al[a].status
    BY FinishKeeps
  <2> HIDE DEF be
  <2> QED BY <2>1, <2>2
<1> HIDE DEF be
<1>2. R \in SUBSET ReservedIn(al) /\ ReservedIn(be) = ReservedIn(al) \ R
  <2>1. \A a \in Allocs : a \in R <=> a \in B /\ al[a].status = "RESERVED"
    BY DEF Positions, Live
  <2>2. s # "RESERVED"
    BY DEF Ended
  <2>3. R \subseteq Allocs
    OBVIOUS
  <2> HIDE DEF R
  <2> QED BY <1>1, <2>1, <2>2, <2>3 DEF ReservedIn, Live
<1>3. \A p \in Layers : g[p] = [b[p] EXCEPT !.reserved = Minus(@, Held(al, R)[p])]
  BY DEF GiveBack
<1> HIDE DEF R, g
<1>4. ASSUME NEW p \in Layers
      PROVE  /\ g[p].reserved =< g[p].actual /\ g[p].reserved = Held(be, ReservedIn(be))[p]
             /\ p \notin O => g[p].actual = led[p]
  <2>1. b[p] \in BalanceRecord
    OBVIOUS
  <2>2. g[p].actual = b[p].actual /\ g[p].reserved = Minus(b[p].reserved, Held(al, R)[p])
    BY <1>3, <2>1 DEF BalanceRecord
  <2>3. /\ b[p].actual \in Int /\ b[p].reserved \in Nat /\ b[p].reserved =< b[p].actual
        /\ p \notin O => b[p].actual = led[p]
    BY StockFacts
  <2>4. /\ Held(al, R)[p] \in Nat
        /\ Minus(b[p].reserved, Held(al, R)[p]) = Held(be, ReservedIn(be))[p]
        /\ Minus(b[p].reserved, Held(al, R)[p]) = b[p].reserved - Held(al, R)[p]
    <3>1. be \in [Allocs -> AllocRecord] /\ Leaves(al, be, R)
      BY <1>1, <1>2 DEF Leaves
    <3>2. b[p].reserved = Held(al, ReservedIn(al))[p] /\ b[p].reserved \in Nat
      BY StockFacts
    <3> QED BY <3>1, <3>2, GivenBack
  <2> QED BY <2>2, <2>3, <2>4
<1> QED BY <1>4 DEF StockOf, be, g

\* Staging or selling a basket takes it out of the pools and out of the holds.
LEMMA TakeIsSafe ==
  ASSUME NEW al \in [Allocs -> AllocRecord], Positions(al), NEW b \in [Layers -> BalanceRecord],
         NEW led \in Holding, NEW O, StockOf(al, b, led, O),
         NEW B \in SUBSET Allocs, \A a \in B : al[a].status = "RESERVED", NEW s \in {"PREPARED", "CONSUMED"}
  PROVE  StockOf(Mark(al, B, s, s), TakeOut(b, Held(al, B)), [p \in Layers |-> led[p] - Held(al, B)[p]], O)
<1> DEFINE be == Mark(al, B, s, s)
           o == TakeOut(b, Held(al, B))
           l2 == [p \in Layers |-> led[p] - Held(al, B)[p]]
<1>1. /\ be \in [Allocs -> AllocRecord]
      /\ \A a \in Allocs : /\ be[a].held = al[a].held
                           /\ a \notin B => be[a] = al[a]
                           /\ a \in B => be[a].status = s
  BY MarkKeeps
<1> HIDE DEF be
<1>2. B \in SUBSET ReservedIn(al) /\ ReservedIn(be) = ReservedIn(al) \ B
  BY <1>1 DEF ReservedIn
<1>3. ASSUME NEW p \in Layers
      PROVE  /\ o[p].reserved =< o[p].actual /\ o[p].reserved = Held(be, ReservedIn(be))[p]
             /\ p \notin O => o[p].actual = l2[p]
  <2>1. o[p].actual = b[p].actual - Held(al, B)[p] /\ o[p].reserved = Minus(b[p].reserved, Held(al, B)[p])
    BY DEF TakeOut
  <2>2. /\ b[p].actual \in Int /\ b[p].reserved \in Nat /\ b[p].reserved =< b[p].actual
        /\ p \notin O => b[p].actual = led[p]
    BY StockFacts
  <2>3. /\ Held(al, B)[p] \in Nat
        /\ Minus(b[p].reserved, Held(al, B)[p]) = Held(be, ReservedIn(be))[p]
        /\ Minus(b[p].reserved, Held(al, B)[p]) = b[p].reserved - Held(al, B)[p]
    <3>1. be \in [Allocs -> AllocRecord] /\ Leaves(al, be, B)
      BY <1>1, <1>2 DEF Leaves
    <3>2. b[p].reserved = Held(al, ReservedIn(al))[p] /\ b[p].reserved \in Nat
      BY StockFacts
    <3> QED BY <3>1, <3>2, GivenBack
  <2>4. l2[p] = led[p] - Held(al, B)[p]
    OBVIOUS
  <2> HIDE DEF o, l2
  <2> QED BY <2>1, <2>2, <2>3, <2>4
<1> QED BY <1>3 DEF StockOf, be, o, l2

\* Steps that leave the set of reserved allocations and what they hold alone.
LEMMA SameIsSafe ==
  ASSUME NEW al \in [Allocs -> AllocRecord], NEW be \in [Allocs -> AllocRecord],
         NEW b \in [Layers -> BalanceRecord], NEW led \in Holding, NEW O, StockOf(al, b, led, O),
         ReservedIn(be) = ReservedIn(al), \A a \in ReservedIn(al) : be[a].held = al[a].held,
         NEW t \in Holding
  PROVE  StockOf(be, [p \in Layers |-> [b[p] EXCEPT !.actual = @ + t[p]]], [p \in Layers |-> led[p] + t[p]], O)
<1> DEFINE g == [p \in Layers |-> [b[p] EXCEPT !.actual = @ + t[p]]]
           l2 == [p \in Layers |-> led[p] + t[p]]
<1>1. ASSUME NEW p \in Layers
      PROVE  /\ g[p].reserved =< g[p].actual /\ g[p].reserved = Held(be, ReservedIn(be))[p]
             /\ p \notin O => g[p].actual = l2[p]
  <2>1. b[p] \in BalanceRecord /\ t[p] \in Nat
    BY DEF Holding
  <2>2. g[p].actual = b[p].actual + t[p] /\ g[p].reserved = b[p].reserved
    BY <2>1 DEF BalanceRecord
  <2>3. /\ b[p].actual \in Int /\ b[p].reserved \in Nat /\ b[p].reserved =< b[p].actual
        /\ p \notin O => b[p].actual = led[p]
        /\ b[p].reserved = Held(al, ReservedIn(al))[p] /\ ReservedIn(al) \in SUBSET Allocs
    BY StockFacts
  <2>4. Held(be, ReservedIn(be))[p] = Held(al, ReservedIn(al))[p]
    BY <2>3, HeldSame
  <2>5. l2[p] = led[p] + t[p]
    OBVIOUS
  <2> HIDE DEF g, l2
  <2> QED BY <2>1, <2>2, <2>3, <2>4, <2>5
<1> QED BY <1>1 DEF StockOf, g, l2

-----------------------------------------------------------------------------
(* What a walk has read, and the steps of the others.                          *)

LEMMA SnapshotNotified ==
  ASSUME SagaType, SnapshotInv, NEW c, NEW P \in SUBSET Layers, Notify(c, P),
         \A p \in Layers \ P : ledger'[p] = ledger[p]
  PROVE  SnapshotInv'
<1>1. \A v \in Workers : worker'[v] = Noticed(v, c, P)
  BY DEF Notify
<1>2. ASSUME NEW v \in Workers, worker'[v].at = "reading", NEW p \in Layers \ worker'[v].changed
      PROVE  worker'[v].ledger[p] = ledger'[p]
  <2>1. /\ worker[v].at = "reading" /\ worker'[v].ledger = worker[v].ledger
        /\ worker'[v].changed = worker[v].changed \cup P
    BY <1>1, <1>2, NoticedIs
  <2>2. worker[v].ledger[p] = ledger[p] /\ ledger'[p] = ledger[p]
    BY <1>2, <2>1 DEF SnapshotInv
  <2> QED BY <2>1, <2>2
<1> QED BY <1>2 DEF SnapshotInv

LEMMA SnapshotCommitted ==
  ASSUME SagaType, SnapshotInv, NEW w \in Workers, NEW c, NEW P \in SUBSET Layers, NEW r,
         Commit(w, c, P, r), r.at # "reading",
         \A p \in Layers \ P : ledger'[p] = ledger[p]
  PROVE  SnapshotInv'
<1>1. \A v \in Workers : worker'[v] = IF v = w THEN r ELSE Noticed(v, c, P)
  BY DEF Commit
<1>2. ASSUME NEW v \in Workers, worker'[v].at = "reading", NEW p \in Layers \ worker'[v].changed
      PROVE  worker'[v].ledger[p] = ledger'[p]
  <2>1. v # w /\ worker'[v] = Noticed(v, c, P)
    BY <1>1, <1>2
  <2>2. /\ worker[v].at = "reading" /\ worker'[v].ledger = worker[v].ledger
        /\ worker'[v].changed = worker[v].changed \cup P
    BY <1>2, <2>1, NoticedIs
  <2>3. worker[v].ledger[p] = ledger[p] /\ ledger'[p] = ledger[p]
    BY <1>2, <2>2 DEF SnapshotInv
  <2> QED BY <2>2, <2>3
<1> QED BY <1>2 DEF SnapshotInv

-----------------------------------------------------------------------------
(* The steps of the layers, one lemma per action that moves their counters.    *)

LEMMA KeyIsSafe ==
  ASSUME SagaInv, StockInv, NEW k \in Keys, ReserveKey(k) PROVE StockInv'
<1> USE DEF SagaInv, StockInv
<1> DEFINE take == Plan(Current)
           a == <<k, 0>>
<1>1. Current.ledger = ledger /\ Current.ledger \in Holding /\ Current.reserved \in Holding
  BY DEF Current, SagaType, Holding, BalanceRecord
<1>2. take \in Holding /\ Units(take) = Want
  BY <1>1, PlanIsWhole DEF ReserveKey
<1>3. /\ alloc' = Reserved(alloc, a, take) /\ balance' = Hold(balance, Current, take) /\ ledger' = ledger
      /\ Notify(NoOne, Changed) /\ alloc[a].status = "NONE" /\ Fits(balance, Current, take)
      /\ outdated' = outdated \ From(take)
  BY DEF ReserveKey
<1> HIDE DEF take
<1>4. a \in Allocs
  BY KeyIsForeign
<1> HIDE DEF a
<1>5. StockOf(alloc', balance', ledger', outdated')
  <2>1. alloc[a] = NoAllocation
    BY <1>3, <1>4 DEF Positions
  <2>2. \A p \in Layers \ outdated' :
           IF take[p] > 0 THEN Current.ledger[p] = ledger[p] ELSE p \notin outdated
    BY <1>1, <1>3 DEF From
  <2>3. StockOf(Reserved(alloc, a, take), Hold(balance, Current, take), ledger, outdated')
    BY <1>1, <1>2, <1>3, <1>4, <2>1, <2>2, HoldIsSafe DEF SagaType
  <2> QED BY <1>3, <2>3
<1>6. SnapshotInv'
  <2>1. Changed \in SUBSET Layers
    BY DEF Changed
  <2> QED BY <1>3, <2>1, SnapshotNotified
<1>7. OutdatedInv'
  BY <1>3 DEF OutdatedInv
<1> QED BY <1>5, <1>6, <1>7

LEMMA EndsAreSafe ==
  ASSUME SagaInv, StockInv, NEW B \in SUBSET Allocs, NEW s \in Ended, NEW c,
         alloc' = Finish(alloc, B, s),
         balance' = GiveBack(balance, alloc, {a \in B : alloc[a].status \in Live}),
         ledger' = ledger, outdated' = outdated, Notify(c, Changed)
  PROVE  StockInv'
<1> USE DEF SagaInv, StockInv
<1>1. StockOf(alloc', balance', ledger', outdated')
  BY EndIsSafe DEF SagaType
<1>2. SnapshotInv'
  <2>1. Changed \in SUBSET Layers
    BY DEF Changed
  <2> QED BY <2>1, SnapshotNotified
<1> QED BY <1>1, <1>2 DEF OutdatedInv

\* Steps that leave the counters alone.
LEMMA QuietIsSafe ==
  ASSUME SagaInv, StockInv, UNCHANGED <<balance, ledger, outdated>>,
         ReservedIn(alloc)' = ReservedIn(alloc),
         alloc' \in [Allocs -> AllocRecord],
         \A a \in ReservedIn(alloc) : alloc'[a].held = alloc[a].held
  PROVE  StockOf(alloc, balance, ledger, outdated)'
<1> USE DEF SagaInv, StockInv
<1>1. SagaType
  OBVIOUS
<1>2. ReservedIn(alloc) \in SUBSET Allocs
  BY DEF ReservedIn
<1>3. \A p \in Layers : Held(alloc', ReservedIn(alloc))[p] = Held(alloc, ReservedIn(alloc))[p]
  BY <1>2, HeldSame DEF SagaType
<1>4. ReservedIn(alloc') = ReservedIn(alloc)
  OBVIOUS
<1> QED BY <1>3, <1>4 DEF StockOf

\* Staging, selling or stopping a walk.
LEMMA WalkIsSafe ==
  ASSUME SagaInv, NEW c \in Checkouts,
         NEW al \in [Allocs -> AllocRecord], Positions(al), NEW b \in [Layers -> BalanceRecord],
         StockOf(al, b, ledger, outdated'), NEW stop, Walk(c, al, b, stop)
  PROVE  StockOf(alloc, balance, ledger, outdated)'
<1> DEFINE A == Own(c)
           t == Held(al, A)
<1>1. CASE alloc' = al /\ balance' = b /\ ledger' = ledger
  BY <1>1
<1>2. CASE /\ \A a \in A : al[a].status = "RESERVED"
           /\ ledger' = [p \in Layers |-> ledger[p] - t[p]]
           /\ balance' = TakeOut(b, t)
           /\ \E s \in {"PREPARED", "CONSUMED"} : alloc' = Mark(al, A, s, s)
  <2>1. ledger \in Holding /\ A \in SUBSET Allocs
    BY Finite DEF SagaInv, SagaType
  <2>2. PICK s \in {"PREPARED", "CONSUMED"} : alloc' = Mark(al, A, s, s)
    BY <1>2
  <2> HIDE DEF A
  <2>3. StockOf(Mark(al, A, s, s), TakeOut(b, t), [p \in Layers |-> ledger[p] - t[p]], outdated')
    BY <1>2, <2>1, TakeIsSafe
  <2> QED BY <1>2, <2>2, <2>3
<1> QED BY <1>1, <1>2 DEF Walk

LEMMA LineIsSafe ==
  ASSUME SagaInv, StockInv, NEW w \in Workers, ReserveLine(w) PROVE StockInv'
<1> USE DEF SagaInv, StockInv
<1> DEFINE c == worker[w].co
           a == NextOf(c)
           take == Plan(worker[w])
           al == Reserved(alloc, a, take)
           b == Hold(balance, worker[w], take)
<1>1. /\ c \in Checkouts /\ worker[w].ledger \in Holding
      /\ take \in Holding /\ Units(take) = Want /\ a \in Allocs /\ alloc[a] = NoAllocation
  BY LineIs
<1>2. /\ \/ /\ alloc' = al /\ balance' = b /\ ledger' = ledger
            /\ Commit(w, c, Changed, [Idle EXCEPT !.at = "ready", !.co = c, !.stop = worker[w].stop])
         \/ Walk(c, al, b, worker[w].stop) /\ Commit(w, c, Changed, Idle)
      /\ Fits(balance, worker[w], take) /\ worker[w].at = "reading"
      /\ SnapshotIsolation => \A p \in worker[w].changed : take[p] = 0
      /\ outdated' = (outdated \ From(take)) \cup {p \in From(take) : worker[w].ledger[p] # ledger[p]}
  BY DEF ReserveLine, NextOf, Open
<1> HIDE DEF take, a, c
<1>3. \A p \in Layers \ outdated' :
         IF take[p] > 0 THEN worker[w].ledger[p] = ledger[p] ELSE p \notin outdated
  BY <1>2 DEF From
<1>4. StockOf(al, b, ledger, outdated')
  BY <1>1, <1>2, <1>3, HoldIsSafe DEF SagaType
<1>5. al \in [Allocs -> AllocRecord] /\ Positions(al) /\ b \in [Layers -> BalanceRecord]
  <2>1. al \in [Allocs -> AllocRecord] /\ Positions(al)
    BY <1>1, ReservedKeeps DEF SagaType
  <2>2. b \in [Layers -> BalanceRecord]
    BY <1>1, BalanceKeeps DEF SagaType
  <2> QED BY <2>1, <2>2
<1> HIDE DEF al, b
<1>6. StockOf(alloc, balance, ledger, outdated)'
  <2>1. CASE alloc' = al /\ balance' = b /\ ledger' = ledger
    BY <1>4, <2>1
  <2>2. CASE Walk(c, al, b, worker[w].stop)
    BY <1>1, <1>4, <1>5, <2>2, WalkIsSafe
  <2> QED BY <1>2, <2>1, <2>2
<1>7. SnapshotInv'
  <2>1. Changed \in SUBSET Layers /\ \A p \in Layers \ Changed : ledger'[p] = ledger[p]
    BY DEF Changed
  <2>2. \E r : r.at # "reading" /\ Commit(w, c, Changed, r)
    <3>1. Idle.at # "reading" /\ [Idle EXCEPT !.at = "ready", !.co = c, !.stop = worker[w].stop].at # "reading"
      BY DEF Idle
    <3> QED BY <1>2, <3>1
  <2> QED BY <2>1, <2>2, SnapshotCommitted
<1>8. OutdatedInv'
  <2>1. ASSUME SnapshotIsolation, NEW p \in Layers, take[p] > 0
        PROVE  worker[w].ledger[p] = ledger[p]
    <3>1. p \notin worker[w].changed
      BY <1>2, <2>1
    <3> QED BY <1>2, <3>1 DEF SnapshotInv
  <2> QED BY <1>2, <2>1 DEF OutdatedInv, From
<1> QED BY <1>6, <1>7, <1>8

LEMMA ResumeIsSafe ==
  ASSUME SagaInv, StockInv, NEW c \in Checkouts, NEW stop \in StopAt, Resume(c, stop) PROVE StockInv'
<1> USE DEF SagaInv, StockInv
<1>0. outdated' = outdated
  BY DEF Resume
<1>1. StockOf(alloc, balance, ledger, outdated)'
  <2>1. CASE Walk(c, alloc, balance, stop)
    BY <1>0, <2>1, WalkIsSafe DEF SagaType
  <2>2. CASE /\ \A a \in Own(c) : alloc[a].status = "PREPARED"
             /\ alloc' = Mark(alloc, Own(c), "CONSUMED", "CONSUMED")
             /\ UNCHANGED <<balance, ledger, outdated>>
    <3>1. \A a \in Allocs : a \notin Own(c) => alloc'[a] = alloc[a]
      BY <2>2 DEF Mark
    <3>2. alloc' \in [Allocs -> AllocRecord] /\ \A a \in Own(c) : a \in Allocs /\ alloc'[a].status = "CONSUMED"
      BY <2>2, Finite, MarkKeeps DEF SagaType
    <3>3. ReservedIn(alloc') = ReservedIn(alloc)
      BY <2>2, <3>1, <3>2 DEF ReservedIn
    <3>4. \A a \in ReservedIn(alloc) : alloc'[a].held = alloc[a].held
      BY <2>2, <3>1 DEF ReservedIn
    <3> QED BY <2>2, <3>2, <3>3, <3>4, QuietIsSafe
  <2> QED BY <1>0, <2>1, <2>2 DEF Resume, stock
<1>2. SnapshotInv'
  <2>1. Changed \in SUBSET Layers /\ \A p \in Layers \ Changed : ledger'[p] = ledger[p]
    BY DEF Changed
  <2> QED BY <2>1, SnapshotNotified DEF Resume
<1> QED BY <1>0, <1>1, <1>2 DEF OutdatedInv

\* The status of what was finished and of what was not.
LEMMA FinishStatus ==
  ASSUME NEW al \in [Allocs -> AllocRecord], Positions(al), NEW B \in SUBSET Allocs, NEW s \in Ended
  PROVE  \A a \in Allocs : Finish(al, B, s)[a].status =
                              IF a \in B /\ al[a].status \in Live THEN s ELSE al[a].status
<1>1. \A a \in Allocs :
         /\ Finish(al, B, s)[a].held = al[a].held /\ Finish(al, B, s)[a].moved = al[a].moved
         /\ Finish(al, B, s)[a].due = al[a].due
         /\ Finish(al, B, s)[a].status = IF a \in B /\ al[a].status \in Live THEN s ELSE al[a].status
  BY FinishKeeps
<1> QED BY <1>1

LEMMA AbortStagedIsSafe ==
  ASSUME SagaInv, StockInv, NEW c \in Checkouts, AbortStaged(c) PROVE StockInv'
<1> USE DEF SagaInv, StockInv
<1> DEFINE A == Own(c)
           t == Held(alloc, A)
           fin == Finish(alloc, A, "RELEASED")
<1>1. /\ {a \in Own(c) : alloc[a].moved = "PREPARED"} = A
      /\ \A a \in A : alloc[a].status # "NONE" /\ alloc[a].status # "RESERVED"
      /\ t \in Holding
  BY StagedIsWhole DEF AbortStaged
<1>2. /\ ledger' = [p \in Layers |-> ledger[p] + t[p]]
      /\ balance' = [p \in Layers |-> [balance[p] EXCEPT !.actual = @ + t[p]]]
      /\ alloc' = [a \in Allocs |-> IF a \in A THEN [fin[a] EXCEPT !.moved = "COMPENSATED"]
                                    ELSE alloc[a]]
      /\ Notify(c, Changed) /\ outdated' = outdated
  BY <1>1 DEF AbortStaged
<1>3. alloc' \in [Allocs -> AllocRecord]
  BY AbortStagedKeeps DEF SagaType
<1>4. A \in SUBSET Allocs
  BY Finite
<1> HIDE DEF A, t
<1>5. \A a \in A : fin[a].status # "RESERVED" /\ fin[a] \in AllocRecord
  <2>1. alloc \in [Allocs -> AllocRecord] /\ Positions(alloc) /\ "RELEASED" \in Ended
    BY DEF SagaType, Ended
  <2>2. fin \in [Allocs -> AllocRecord]
    BY <1>4, <2>1, FinishKeeps
  <2>3. \A a \in Allocs : fin[a].status = IF a \in A /\ alloc[a].status \in Live THEN "RELEASED"
                                          ELSE alloc[a].status
    BY <1>4, <2>1, FinishStatus
  <2> HIDE DEF fin
  <2> QED BY <1>1, <1>4, <2>2, <2>3
<1> HIDE DEF fin
<1>6. \A a \in Allocs : /\ a \notin A => alloc'[a] = alloc[a]
                        /\ a \in A => alloc'[a].status # "RESERVED"
  <2> TAKE a \in Allocs
  <2>1. CASE a \in A
    <3>1. alloc'[a] = [fin[a] EXCEPT !.moved = "COMPENSATED"]
      BY <1>2, <2>1
    <3> QED BY <1>5, <2>1, <3>1 DEF AllocRecord
  <2>2. CASE a \notin A
    BY <1>2, <2>2
  <2> QED BY <2>1, <2>2
<1>7. ReservedIn(alloc') = ReservedIn(alloc) /\ \A a \in ReservedIn(alloc) : alloc'[a].held = alloc[a].held
  BY <1>1, <1>6 DEF ReservedIn
<1>8. StockOf(alloc', balance', ledger', outdated')
  <2>1. /\ alloc \in [Allocs -> AllocRecord] /\ balance \in [Layers -> BalanceRecord]
        /\ ledger \in Holding /\ StockOf(alloc, balance, ledger, outdated)
    BY DEF SagaType
  <2>2. PICK be : be = alloc'
    OBVIOUS
  <2>3. StockOf(be, [p \in Layers |-> [balance[p] EXCEPT !.actual = @ + t[p]]],
                    [p \in Layers |-> ledger[p] + t[p]], outdated)
    BY <1>1, <1>3, <1>7, <2>1, <2>2, SameIsSafe
  <2> QED BY <1>2, <2>2, <2>3
<1>9. SnapshotInv'
  <2>1. Changed \in SUBSET Layers /\ \A p \in Layers \ Changed : ledger'[p] = ledger[p]
    BY DEF Changed
  <2> QED BY <1>2, <2>1, SnapshotNotified
<1> QED BY <1>2, <1>8, <1>9 DEF OutdatedInv

\* Steps of a walk, of the clock and of the outside that move no stock.
LEMMA OthersAreSafe ==
  ASSUME SagaInv, StockInv,
         \/ \E w \in Workers : Read(w) \/ GiveUp(w)
         \/ \E w \in Workers, c \in Checkouts : Claim(w, c)
         \/ \E c \in Checkouts, s \in {"DONE", "UNCERTAIN"} : FiscalResult(c, s)
         \/ \E a \in Allocs : PassTime(a)
         \/ \E l \in Lanes : StrayUnit(l)
         \/ UNCHANGED vars
  PROVE  StockInv'
<1> USE DEF SagaInv, StockInv
<1>0. balance' = balance /\ ledger' = ledger /\ outdated' = outdated
  BY DEF Read, GiveUp, Claim, FiscalResult, PassTime, StrayUnit, vars, stock
<1>1. StockOf(alloc, balance, ledger, outdated)'
  <2>1. CASE alloc' = alloc
    BY <1>0, <2>1
  <2>2. CASE \E a \in Allocs : PassTime(a)
    <3>1. PICK a \in Allocs : alloc' = [alloc EXCEPT ![a].due = TRUE]
      BY <2>2 DEF PassTime
    <3>2. /\ alloc' \in [Allocs -> AllocRecord]
          /\ \A x \in Allocs : alloc'[x].status = alloc[x].status /\ alloc'[x].held = alloc[x].held
      <4>1. alloc[a] \in AllocRecord
        BY DEF SagaType
      <4> QED BY <3>1, <4>1 DEF AllocRecord, SagaType
    <3> QED BY <1>0, <3>2, QuietIsSafe DEF ReservedIn
  <2> QED BY <2>1, <2>2 DEF Read, GiveUp, Claim, FiscalResult, StrayUnit, vars
<1>2. SnapshotInv'
  <2>1. ASSUME worker' = worker PROVE SnapshotInv'
    BY <1>0, <2>1 DEF SnapshotInv
  <2>2. ASSUME NEW w \in Workers, Read(w) PROVE SnapshotInv'
    <3>1. worker[w] \in WorkerRecord
      BY DEF SagaType
    <3>2. worker'[w].ledger = ledger /\ \A v \in Workers \ {w} : worker'[v] = worker[v]
      BY <2>2, <3>1 DEF Read, SagaType, WorkerRecord
    <3> QED BY <1>0, <3>2 DEF SnapshotInv
  <2>3. ASSUME NEW w \in Workers, GiveUp(w) PROVE SnapshotInv'
    <3>1. worker'[w].at = "idle" /\ \A v \in Workers \ {w} : worker'[v] = worker[v]
      BY <2>3 DEF GiveUp, Idle, SagaType
    <3> QED BY <1>0, <3>1 DEF SnapshotInv
  <2>4. ASSUME NEW w \in Workers, NEW c \in Checkouts, Claim(w, c) PROVE SnapshotInv'
    <3>1. PICK stop \in StopAt : Commit(w, c, {}, [Idle EXCEPT !.at = "ready", !.co = c, !.stop = stop])
      BY <2>4 DEF Claim
    <3>2. [Idle EXCEPT !.at = "ready", !.co = c, !.stop = stop].at # "reading"
      BY DEF Idle
    <3> QED BY <1>0, <3>1, <3>2, SnapshotCommitted
  <2>5. ASSUME NEW c \in Checkouts, NEW s, FiscalResult(c, s) PROVE SnapshotInv'
    BY <1>0, <2>5, SnapshotNotified DEF FiscalResult
  <2> QED BY <2>1, <2>2, <2>3, <2>4, <2>5 DEF PassTime, StrayUnit, vars
<1> QED BY <1>0, <1>1, <1>2 DEF OutdatedInv

LEMMA StockInit == ASSUME Init PROVE StockInv
<1>1. SagaInv
  BY SagaInit
<1>2. ReservedIn(alloc) = {}
  BY DEF Init, ReservedIn, NoAllocation
<1>3. \A p \in Layers : Held(alloc, {})[p] = 0
  BY <1>1, HeldIs, SumEmpty DEF SagaInv, SagaType
<1>4. StockOf(alloc, balance, ledger, outdated)
  <2>1. \A p \in Layers : /\ balance[p].actual = OnHand[p] /\ balance[p].reserved = 0
                          /\ ledger[p] = OnHand[p] /\ OnHand[p] \in Nat
    BY ConstantsAssumption DEF Init
  <2> QED BY <1>2, <1>3, <2>1 DEF StockOf
<1>5. SnapshotInv
  BY DEF SnapshotInv, Init, Idle
<1> QED BY <1>4, <1>5 DEF StockInv, OutdatedInv, Init

LEMMA StockStep ==
  ASSUME SagaInv, StockInv, [Next]_vars PROVE StockInv'
<1>1. ASSUME NEW a \in Allocs, NEW s \in {"RELEASED", "CONSUMED"}, End(a, s) PROVE StockInv'
  <2>1. {x \in {a} : alloc[x].status \in Live} = {a}
    BY <1>1 DEF End
  <2> QED BY <1>1, <2>1, EndsAreSafe DEF End, Ended
<1>2. ASSUME ExpireDue PROVE StockInv'
  <2> DEFINE A == {a \in Allocs : alloc[a].status \in Live /\ alloc[a].due}
  <2>1. {x \in A : alloc[x].status \in Live} = A /\ A \in SUBSET Allocs /\ "EXPIRED" \in Ended
    BY DEF Ended
  <2>2. /\ alloc' = Finish(alloc, A, "EXPIRED") /\ balance' = GiveBack(balance, alloc, A)
        /\ Notify(NoOne, Changed) /\ ledger' = ledger /\ outdated' = outdated
    BY <1>2 DEF ExpireDue
  <2> HIDE DEF A
  <2> QED BY <2>1, <2>2, EndsAreSafe
<1>3. ASSUME NEW c \in Checkouts, AbortReserved(c) PROVE StockInv'
  <2>1. Own(c) \in SUBSET Allocs /\ "RELEASED" \in Ended
    BY Finite DEF Ended
  <2> QED BY <1>3, <2>1, EndsAreSafe DEF AbortReserved
<1> QED BY <1>1, <1>2, <1>3, KeyIsSafe, LineIsSafe, ResumeIsSafe, AbortStagedIsSafe, OthersAreSafe
        DEF Next, Api, Saga, Undo, Outside

LEMMA StockAlways == Spec => []StockInv
<1>1. Init => StockInv
  BY StockInit
<1>2. SagaInv /\ StockInv /\ [Next]_vars => StockInv'
  BY StockStep
<1> QED BY <1>1, <1>2, SagaAlways, PTL DEF Spec

\* In every order of requests, walks, aborts and expiries, what is reserved of a layer is
\* what its allocations hold and never more than its cached quantity, and no unit of a
\* layer is held twice unless its latest hold had read an older ledger; whatever the
\* database does about outdated snapshots (reserve_allocation, release_positions, _hold_one).
THEOREM StockStaysSafe == Spec => []StockIsSafe
<1>1. SagaInv /\ StockInv => StockIsSafe
  <2> SUFFICES ASSUME SagaInv, StockInv PROVE StockIsSafe
    OBVIOUS
  <2>1. {a \in Allocs : alloc[a].status \in Live /\ ~alloc[a].released} = ReservedIn(alloc)
    BY DEF SagaInv, Positions, ReservedIn, Live
  <2>2. HoldsAreCounted
    BY <2>1 DEF StockInv, StockOf, HoldsAreCounted
  <2>3. \A p \in Layers : balance[p].reserved =< balance[p].actual
    BY DEF StockInv, StockOf
  <2>4. \A p \in Layers \ outdated : IsCovered(p)
    BY DEF StockInv, StockOf, IsCovered
  <2> QED BY <2>2, <2>3, <2>4 DEF StockIsSafe
<1> QED BY <1>1, SagaAlways, StockAlways, PTL

\* Where the database does refuse to overwrite a row that changed since the transaction
\* read it, no hold is outdated, and no unit is held twice at all (_hold_one).
COROLLARY IsolationPreventsOverselling == ASSUME SnapshotIsolation PROVE Spec => []NeverOversold
<1>1. StockInv => NeverOversold
  BY DEF StockInv, StockOf, OutdatedInv, NeverOversold, IsCovered
<1> QED BY <1>1, StockAlways, PTL

\* Every record keeps the fields and values of its DocType: no counter of a layer, cached
\* or counted by the ledger, turns negative (GSF Layer Balance).
THEOREM GroupTypeCorrect == Spec => []TypeOK
<1>1. SagaInv /\ StockInv => TypeOK
  <2> SUFFICES ASSUME SagaInv, StockInv PROVE TypeOK
    OBVIOUS
  <2>1. SagaType /\ outdated \subseteq Layers
    BY DEF SagaInv, StockInv, OutdatedInv
  <2>2. balance \in [Layers -> [actual : Nat, reserved : Nat]]
    <3>1. \A p \in Layers : balance[p] \in BalanceRecord /\ balance[p].reserved =< balance[p].actual
      BY <2>1 DEF StockInv, StockOf, SagaType
    <3>2. \A p \in Layers : balance[p] \in [actual : Nat, reserved : Nat]
      BY <3>1 DEF BalanceRecord
    <3> QED BY <2>1, <3>2 DEF SagaType
  <2> QED BY <2>1, <2>2 DEF TypeOK, SagaType, CheckoutRecord, AllocRecord, LaneRecord, WorkerRecord
<1> QED BY <1>1, SagaAlways, StockAlways, PTL
=============================================================================
