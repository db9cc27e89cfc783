----------------------------- MODULE GroupCheckout -----------------------------
(***************************************************************************)
(* Group stock FIFO: reservations of layers (services/allocations.py),     *)
(* stage lanes (staging.py) and the checkout saga that reserves, stages,   *)
(* sells or undoes (checkout.py, reallocation.py, sale.py,                 *)
(* compensation.py), for baskets of one item served by the GSF provider.   *)
(*                                                                         *)
(* A step is a database transaction.  The ones that take the scope lock    *)
(* before they read are atomic.  The saga reads first, so reserving a line *)
(* is two steps: the first consistent read fixes what the transaction      *)
(* sees, the second waits for the locks, checks, writes and commits.       *)
(***************************************************************************)
EXTENDS Integers, FiniteSets, FiniteSetsExt, Sums

CONSTANTS
    Checkouts,           \* idempotency keys of checkouts
    Lines,               \* lines of every basket
    Keys,                \* idempotency keys of reservations made through the API
    Want,                \* units one line or one reservation asks for
    LayerCount, OnHand,  \* layers 1..LayerCount, oldest first, and their units
    Lanes,               \* stage lanes of the seller
    StrayLanes,          \* lanes into whose warehouse a foreign unit may come
    Fiscal,              \* checkouts that need fiscalization
    StopAt,              \* the stop_at arguments used; "none" walks to the end
    Workers,             \* requests that walk a checkout at the same time
    SnapshotIsolation,   \* does the database refuse a write to a row that changed
                         \* since the transaction's first read (error 1020)
    NoOne                \* no checkout, no lane

Layers == 1 .. LayerCount
Stops  == {"none", "RESERVED", "STOCK_PREPARED"}

ASSUME ConstantsAssumption ==
    /\ IsFiniteSet(Checkouts) /\ IsFiniteSet(Keys) /\ IsFiniteSet(Lanes)
    /\ Lines \in Nat \ {0}
    /\ Want \in Nat \ {0}
    /\ LayerCount \in Nat \ {0}
    /\ OnHand \in [Layers -> Nat]
    /\ StrayLanes \subseteq Lanes
    /\ Fiscal \subseteq Checkouts
    /\ StopAt \subseteq Stops
    /\ SnapshotIsolation \in BOOLEAN
    /\ NoOne \notin Checkouts \cup Lanes

VARIABLES
    checkout,  \* GSF Checkout: status, staging lane, fiscal_state, invoice posted
    alloc,     \* GSF Allocation and its GSF Stock Reallocation ("moved")
    balance,   \* GSF Layer Balance: actual_qty_cache and reserved_qty_cache
    ledger,    \* units of a layer in its pool, by the Stock Ledger Entries
    lane,      \* GSF Staging Lane: status and current_checkout
    stage,     \* units of a lane's warehouse that a preparation put there
    stray,     \* lanes whose warehouse holds a foreign unit too
    worker,    \* the walks in progress
    outdated   \* history: layers last held by a walk that had read an older ledger

stock == <<balance, ledger>>
vars  == <<checkout, alloc, stock, lane, stage, stray, worker, outdated>>

Allocs        == (Checkouts \X (1 .. Lines)) \cup (Keys \X {0})
Own(c)        == {c} \X (1 .. Lines)
Live          == {"RESERVED", "PREPARED"}
Ended         == {"CONSUMED", "RELEASED", "EXPIRED"}
Working       == {"RESERVING", "RESERVED", "STOCK_PREPARED"}
Stopped       == {"CANCELLED", "COMPENSATED"}
Nothing       == [p \in Layers |-> 0]
NoCheckout    == [status |-> "NONE", lane |-> NoOne, fiscal |-> "NONE", sold |-> FALSE]
NoAllocation  == [status |-> "NONE", held |-> Nothing, released |-> FALSE,
                  due |-> FALSE, moved |-> "NONE"]
Idle          == [at |-> "idle", co |-> NoOne, stop |-> "none", fresh |-> TRUE,
                  changed |-> {}, ledger |-> Nothing, reserved |-> Nothing]

Init ==
    /\ checkout = [c \in Checkouts |-> NoCheckout]
    /\ alloc = [a \in Allocs |-> NoAllocation]
    /\ balance = [p \in Layers |-> [actual |-> OnHand[p], reserved |-> 0]]
    /\ ledger = OnHand
    /\ lane = [l \in Lanes |-> [status |-> "AVAILABLE", holder |-> NoOne]]
    /\ stage = [l \in Lanes |-> 0]
    /\ stray = {}
    /\ worker = [w \in Workers |-> Idle]
    /\ outdated = {}

-----------------------------------------------------------------------------
(* Quantities.                                                             *)

Units(q)       == SumOver(q, Layers)
Held(al, A)    == [p \in Layers |-> SumOver([a \in A |-> al[a].held[p]], A)]
Minus(x, y)    == Max({x - y, 0})
Available(seen, p) == Minus(seen.ledger[p], seen.reserved[p])
Older(seen, p) == SumOver([q \in 1 .. (p - 1) |-> Available(seen, q)], 1 .. (p - 1))
Enough(seen)   == Older(seen, LayerCount + 1) >= Want
\* The oldest layers first, each as far as it goes.
Plan(seen)     == [p \in Layers |-> Min({Available(seen, p), Minus(Want, Older(seen, p))})]
InLane(l)      == stage[l] + (IF l \in stray THEN 1 ELSE 0)

From(take)     == {p \in Layers : take[p] > 0}

\* The conditional UPDATE of one position, and what it writes.
Fits(b, seen, take) == \A p \in Layers : take[p] > 0 => b[p].reserved + take[p] =< seen.ledger[p]
Hold(b, seen, take) ==
    [p \in Layers |-> IF take[p] = 0 THEN b[p]
                      ELSE [actual |-> seen.ledger[p], reserved |-> b[p].reserved + take[p]]]
\* Bug: what preparation has released already is released once more.
GiveBackTwice(b, al, A) ==
    LET t == Held(al, A)
    IN  [p \in Layers |-> [b[p] EXCEPT !.reserved = Minus(@, t[p])]]
GiveBack(b, al, A) ==
    LET t == Held(al, {a \in A : ~al[a].released})
    IN  [p \in Layers |-> [b[p] EXCEPT !.reserved = Minus(@, t[p])]]
TakeOut(b, t) ==
    [p \in Layers |-> [actual |-> b[p].actual - t[p], reserved |-> Minus(b[p].reserved, t[p])]]

Mark(al, A, status, moved) ==
    [a \in Allocs |-> IF a \in A
                      THEN [al[a] EXCEPT !.status = status, !.released = TRUE, !.moved = moved]
                      ELSE al[a]]
\* Bug: the transition is not validated.
FinishAny(al, A, status) ==
    [a \in Allocs |-> IF a \in A THEN [al[a] EXCEPT !.status = status, !.released = TRUE] ELSE al[a]]
\* The terminal transitions of allocations that still hold.
Finish(al, A, status) ==
    [a \in Allocs |-> IF a \in A /\ al[a].status \in Live
                      THEN [al[a] EXCEPT !.status = status, !.released = TRUE]
                      ELSE al[a]]

\* release_lane: refused to a stranger, and a lane that is not empty turns dirty.
LaneAfter(l, c, left) ==
    IF lane[l].holder \notin {NoOne, c} THEN lane[l]
    ELSE IF left > 0 THEN [lane[l] EXCEPT !.status = "DIRTY"]
    ELSE [status |-> "AVAILABLE", holder |-> NoOne]

\* What a commit means for the walks in progress: the rows of layers P changed,
\* and whoever read checkout c holds an outdated copy.
\* Bug: a save does not compare the time stamp of the copy it was read from.
NoticedLate(v, c, P) ==
    [worker[v] EXCEPT !.changed = IF worker[v].at = "reading" THEN @ \cup P ELSE @]
Noticed(v, c, P) ==
    [worker[v] EXCEPT !.fresh = @ /\ worker[v].co # c,
                      !.changed = IF worker[v].at = "reading" THEN @ \cup P ELSE @]
Notify(c, P)       == worker' = [v \in Workers |-> Noticed(v, c, P)]
Commit(w, c, P, r) == worker' = [v \in Workers |-> IF v = w THEN r ELSE Noticed(v, c, P)]
Changed            == {p \in Layers : balance'[p] # balance[p] \/ ledger'[p] # ledger[p]}

-----------------------------------------------------------------------------
(* Reservations through the API, and the scheduler.                        *)

Current == [ledger |-> ledger, reserved |-> [p \in Layers |-> balance[p].reserved]]
Reserved(al, a, take) ==
    [al EXCEPT ![a] = [status |-> "RESERVED", held |-> take, released |-> FALSE,
                       due |-> FALSE, moved |-> "NONE"]]

\* reserve drops the snapshot of its preflight, so it reads under the scope lock.
ReserveKey(k) ==
    LET take == Plan(Current)
    IN  /\ alloc[<<k, 0>>].status = "NONE"
        /\ Enough(Current)
        /\ Fits(balance, Current, take)
        /\ alloc' = Reserved(alloc, <<k, 0>>, take)
        /\ balance' = Hold(balance, Current, take)
        /\ outdated' = outdated \ From(take)
        /\ UNCHANGED <<checkout, ledger, lane, stage, stray>>
        /\ Notify(NoOne, Changed)

\* release_allocation and consume_allocation, on any live allocation.
End(a, status) ==
    /\ alloc[a].status \in Live
    /\ alloc' = Finish(alloc, {a}, status)
    /\ balance' = GiveBack(balance, alloc, {a})
    /\ UNCHANGED <<checkout, ledger, lane, stage, stray, outdated>>
    /\ Notify(NoOne, Changed)

PassTime(a) ==
    /\ alloc[a].status \in Live /\ ~alloc[a].due
    /\ alloc' = [alloc EXCEPT ![a].due = TRUE]
    /\ UNCHANGED <<checkout, stock, lane, stage, stray, worker, outdated>>

\* Bug: the sweep looks for prepared allocations only.
ExpireDuePrepared ==
    LET A == {a \in Allocs : alloc[a].status = "PREPARED" /\ alloc[a].due}
    IN  /\ A # {}
        /\ alloc' = Finish(alloc, A, "EXPIRED")
        /\ balance' = GiveBack(balance, alloc, A)
        /\ UNCHANGED <<checkout, ledger, lane, stage, stray, outdated>>
        /\ Notify(NoOne, Changed)

\* One transaction for every allocation that is due.
ExpireDue ==
    LET A == {a \in Allocs : alloc[a].status \in Live /\ alloc[a].due}
    IN  /\ A # {}
        /\ alloc' = Finish(alloc, A, "EXPIRED")
        /\ balance' = GiveBack(balance, alloc, A)
        /\ UNCHANGED <<checkout, ledger, lane, stage, stray, outdated>>
        /\ Notify(NoOne, Changed)

-----------------------------------------------------------------------------
(* The walk: run() and its steps.                                          *)

\* Bug: an empty lane is taken whoever holds it.
ClaimableEmpty(l, c) == InLane(l) = 0
Claimable(l, c) ==
    \/ lane[l].status = "LOCKED" /\ lane[l].holder = c
    \/ lane[l].status = "AVAILABLE" /\ InLane(l) = 0

\* Open or resume: claim the lane and commit before the first reservation.
Claim(w, c) ==
    /\ worker[w].at = "idle"
    /\ checkout[c].status \in {"NONE", "RESERVING"}
    /\ \E l \in Lanes, stop \in StopAt :
        /\ IF checkout[c].lane = NoOne THEN Claimable(l, c) ELSE l = checkout[c].lane
        /\ lane' = IF checkout[c].lane = NoOne
                   THEN [lane EXCEPT ![l] = [status |-> "LOCKED", holder |-> c]] ELSE lane
        /\ checkout' = [checkout EXCEPT
                ![c].status = "RESERVING", ![c].lane = l,
                ![c].fiscal = IF checkout[c].status = "RESERVING" THEN @
                              ELSE IF c \in Fiscal THEN "PENDING" ELSE "NOT_REQUIRED"]
        /\ Commit(w, c, {}, [Idle EXCEPT !.at = "ready", !.co = c, !.stop = stop])
    /\ UNCHANGED <<alloc, stock, stage, stray, outdated>>

\* The first consistent read of the transaction that reserves the next line.
Read(w) ==
    /\ worker[w].at = "ready"
    /\ worker' = [worker EXCEPT ![w] = [@ EXCEPT !.at = "reading", !.changed = {},
                    !.ledger = ledger, !.reserved = Current.reserved]]
    /\ UNCHANGED <<checkout, alloc, stock, lane, stage, stray, outdated>>

\* A refusal, an exception or a killed process: the transaction is rolled back.
GiveUp(w) ==
    /\ worker[w].at # "idle"
    /\ worker' = [worker EXCEPT ![w] = Idle]
    /\ UNCHANGED <<checkout, alloc, stock, lane, stage, stray, outdated>>

Sold(c) == [checkout[c] EXCEPT !.sold = TRUE,
                !.status = IF c \in Fiscal THEN "FISCAL_PENDING" ELSE "COMPLETED"]

\* _prepare and _sell over what the transaction has written so far, al and b:
\* every allocation of the checkout moves, or nothing does.
Walk(c, al, b, stop) ==
    LET t == Held(al, Own(c))
        l == checkout[c].lane
    IN  \/ /\ stop = "RESERVED"
           /\ alloc' = al /\ balance' = b
           /\ checkout' = [checkout EXCEPT ![c].status = "RESERVED"]
           /\ UNCHANGED <<ledger, lane, stage>>
        \/ /\ stop # "RESERVED"
           /\ \A a \in Own(c) : al[a].status = "RESERVED"
           /\ \A p \in Layers : t[p] =< ledger[p] /\ (t[p] > 0 => b[p].reserved =< b[p].actual)
           /\ ledger' = [p \in Layers |-> ledger[p] - t[p]]
           /\ balance' = TakeOut(b, t)
           /\ \/ /\ stop = "STOCK_PREPARED"
                 /\ alloc' = Mark(al, Own(c), "PREPARED", "PREPARED")
                 /\ stage' = [stage EXCEPT ![l] = @ + Units(t)]
                 /\ checkout' = [checkout EXCEPT ![c].status = "STOCK_PREPARED"]
                 /\ lane' = lane
              \/ /\ stop = "none"
                 /\ InLane(l) = 0
                 /\ alloc' = Mark(al, Own(c), "CONSUMED", "CONSUMED")
                 /\ stage' = stage
                 /\ checkout' = [checkout EXCEPT ![c] = Sold(c)]
                 /\ lane' = [lane EXCEPT ![l] = LaneAfter(l, c, 0)]

\* The write half of a line: lock, check, hold, save the checkout; the last
\* line goes on to prepare and sell in the same transaction.  A balance that the
\* transaction did not write itself is saved only if it is the one it read.
ReserveLine(w) ==
    LET c == worker[w].co
        open == {a \in Own(c) : alloc[a].status = "NONE"}
        a == CHOOSE x \in open : \A y \in open : x[2] =< y[2]
        take == Plan(worker[w])
        al == Reserved(alloc, a, take)
        b == Hold(balance, worker[w], take)
    IN  /\ worker[w].at = "reading" /\ worker[w].fresh
        /\ open # {}
        /\ Enough(worker[w])
        /\ Fits(balance, worker[w], take)
        /\ SnapshotIsolation => \A p \in worker[w].changed : take[p] = 0
        /\ IF open # {a}
           THEN /\ alloc' = al /\ balance' = b
                /\ UNCHANGED <<checkout, ledger, lane, stage>>
                /\ Commit(w, c, Changed, [Idle EXCEPT !.at = "ready", !.co = c, !.stop = worker[w].stop])
           ELSE /\ worker[w].stop # "RESERVED" =>
                       \A p \in worker[w].changed : take[p] > 0 \/ Held(alloc, Own(c))[p] = 0
                /\ Walk(c, al, b, worker[w].stop)
                /\ Commit(w, c, Changed, Idle)
        /\ outdated' = (outdated \ From(take)) \cup
              {p \in From(take) : worker[w].ledger[p] # ledger[p]}
        /\ UNCHANGED stray

\* run() again on a checkout that was stopped on purpose.
Resume(c, stop) ==
    /\ \/ /\ checkout[c].status = "RESERVED" /\ stop # "RESERVED"
          /\ Walk(c, alloc, balance, stop)
       \/ /\ checkout[c].status = "STOCK_PREPARED" /\ stop # "STOCK_PREPARED"
          /\ \A a \in Own(c) : alloc[a].status = "PREPARED"
          /\ LET l == checkout[c].lane
             IN  /\ InLane(l) = Units(Held(alloc, Own(c)))
                 /\ stage' = [stage EXCEPT ![l] = 0]
                 /\ lane' = [lane EXCEPT ![l] = LaneAfter(l, c, 0)]
          /\ alloc' = Mark(alloc, Own(c), "CONSUMED", "CONSUMED")
          /\ checkout' = [checkout EXCEPT ![c] = Sold(c)]
          /\ UNCHANGED stock
    /\ Notify(c, Changed)
    /\ UNCHANGED <<stray, outdated>>

-----------------------------------------------------------------------------
(* Undoing, and the fiscal result.                                         *)

\* abort() before anything was staged, and after a review.
AbortReserved(c) ==
    LET l == checkout[c].lane
    IN  /\ checkout[c].status \in {"RESERVING", "RESERVED", "MANUAL_REVIEW"}
        /\ alloc' = Finish(alloc, Own(c), "RELEASED")
        /\ balance' = GiveBack(balance, alloc, {a \in Own(c) : alloc[a].status \in Live})
        /\ lane' = [lane EXCEPT ![l] = LaneAfter(l, c, InLane(l))]
        /\ checkout' = [checkout EXCEPT ![c].status = "CANCELLED"]
        /\ UNCHANGED <<ledger, stage, stray, outdated>>
        /\ Notify(c, Changed)

\* abort() of staged stock: _compensate posts every reallocation backwards.
AbortStaged(c) ==
    LET l == checkout[c].lane
        A == {a \in Own(c) : alloc[a].moved = "PREPARED"}
        t == Held(alloc, A)
    IN  /\ checkout[c].status = "STOCK_PREPARED"
        /\ ledger' = [p \in Layers |-> ledger[p] + t[p]]
        /\ balance' = [p \in Layers |-> [balance[p] EXCEPT !.actual = @ + t[p]]]
        /\ stage' = [stage EXCEPT ![l] = @ - Units(t)]
        /\ alloc' = [a \in Allocs |-> IF a \in A
                        THEN [Finish(alloc, A, "RELEASED")[a] EXCEPT !.moved = "COMPENSATED"]
                        ELSE alloc[a]]
        /\ lane' = [lane EXCEPT ![l] = LaneAfter(l, c, InLane(l) - Units(t))]
        /\ checkout' = [checkout EXCEPT ![c].status = "COMPENSATED"]
        /\ Notify(c, Changed)
        /\ UNCHANGED <<stray, outdated>>

\* record_fiscal_result: the point of sale reports what became of the receipt.
FiscalResult(c, state) ==
    /\ c \in Fiscal /\ checkout[c].sold
    /\ checkout[c].fiscal # "DONE"
    /\ checkout' = [checkout EXCEPT ![c].fiscal = state,
            ![c].status = IF state = "DONE" /\ @ \in {"FISCAL_PENDING", "MANUAL_REVIEW"}
                          THEN "COMPLETED"
                          ELSE IF @ = "FISCAL_PENDING" THEN "MANUAL_REVIEW" ELSE @]
    /\ Notify(c, {})
    /\ UNCHANGED <<alloc, stock, lane, stage, stray, outdated>>

\* A stock document outside GSF brings a unit into the warehouse of a lane.
StrayUnit(l) ==
    /\ l \in StrayLanes \ stray
    /\ stray' = stray \cup {l}
    /\ UNCHANGED <<checkout, alloc, stock, lane, stage, worker, outdated>>

Api      == \/ \E k \in Keys : ReserveKey(k)
            \/ \E a \in Allocs, s \in {"RELEASED", "CONSUMED"} : End(a, s)
Saga     == \/ \E w \in Workers, c \in Checkouts : Claim(w, c)
            \/ \E w \in Workers : Read(w) \/ ReserveLine(w) \/ GiveUp(w)
            \/ \E c \in Checkouts, stop \in StopAt : Resume(c, stop)
Undo     == \E c \in Checkouts : AbortReserved(c) \/ AbortStaged(c)
Outside  == \/ \E c \in Checkouts, s \in {"DONE", "UNCERTAIN"} : FiscalResult(c, s)
            \/ \E a \in Allocs : PassTime(a)
            \/ \E l \in Lanes : StrayUnit(l)
Next == Api \/ ExpireDue \/ Saga \/ Undo \/ Outside

Spec == Init /\ [][Next]_vars

-----------------------------------------------------------------------------
(* Properties.                                                             *)

Statuses == {"NONE", "RESERVING", "RESERVED", "STOCK_PREPARED", "FISCAL_PENDING",
             "MANUAL_REVIEW", "COMPLETED"} \cup Stopped
Holding  == [Layers -> Nat]

\* Every record keeps the fields and values of its DocType.
TypeOK ==
    /\ checkout \in [Checkouts -> [status : Statuses, lane : Lanes \cup {NoOne}, sold : BOOLEAN,
            fiscal : {"NONE", "NOT_REQUIRED", "PENDING", "DONE", "UNCERTAIN"}]]
    /\ alloc \in [Allocs -> [status : {"NONE"} \cup Live \cup Ended, held : Holding,
            released : BOOLEAN, due : BOOLEAN,
            moved : {"NONE", "PREPARED", "CONSUMED", "COMPENSATED"}]]
    /\ balance \in [Layers -> [actual : Nat, reserved : Nat]]
    /\ ledger \in Holding
    /\ lane \in [Lanes -> [status : {"AVAILABLE", "LOCKED", "DIRTY"}, holder : Checkouts \cup {NoOne}]]
    /\ stage \in [Lanes -> Nat]
    /\ stray \subseteq StrayLanes
    /\ worker \in [Workers -> [at : {"idle", "ready", "reading"}, co : Checkouts \cup {NoOne},
            stop : Stops, fresh : BOOLEAN, changed : SUBSET Layers,
            ledger : Holding, reserved : Holding]]
    /\ outdated \subseteq Layers

\* The reserved quantity of a layer, one number shared by everyone who holds
\* it, is exactly what the allocations that were not released hold: however
\* reservations, releases, expiries and preparations interleave, no hold is
\* given back twice and none is left behind (release_positions).
HoldsAreCounted ==
    \A p \in Layers : balance[p].reserved =
        Held(alloc, {a \in Allocs : alloc[a].status \in Live /\ ~alloc[a].released})[p]

\* No layer has more reserved than the ledger has in its pool, and the cached
\* quantity is that of the ledger: two requests never hold the same unit (the
\* conditional UPDATE of _hold_one).
IsCovered(p) == balance[p].reserved =< ledger[p] /\ balance[p].actual = ledger[p]

\* The counters of a layer agree with its allocations in every order of requests and
\* jobs: whoever sells, releases, expires or compensates gives back just what it held,
\* and never is more reserved than the cached quantity.  They agree with the ledger as
\* well, so that no unit is held twice, also when two walks hold from the same snapshot;
\* the one exception is a layer whose latest hold counted units that had left the pool
\* since its snapshot, which a database without snapshot isolation lets pass.
StockIsSafe ==
    /\ HoldsAreCounted
    /\ \A p \in Layers : balance[p].reserved =< balance[p].actual
    /\ \A p \in Layers \ outdated : IsCovered(p)

\* Units are neither lost nor made: what is left in the pools, what waits in
\* the lanes and what was invoiced add up to what there was.
UnitsAddUp ==
    Units(OnHand) = Units(ledger)
        + SumOver(stage, Lanes)
        + SumOver([c \in Checkouts |-> IF checkout[c].sold THEN Lines * Want ELSE 0], Checkouts)

\* A lane serves one checkout: every checkout under way owns a lane that is
\* locked for it, and what a preparation left in a lane's warehouse is exactly
\* the staged stock of the one checkout that stopped there (staging.py).
LanesAreExclusive ==
    /\ \A c \in Checkouts : checkout[c].status \in Working =>
            lane[checkout[c].lane] = [status |-> "LOCKED", holder |-> c]
    /\ \A l \in Lanes : stage[l] # 0 => \E c \in Checkouts :
            /\ checkout[c].status = "STOCK_PREPARED" /\ checkout[c].lane = l
            /\ stage[l] = Units(Held(alloc, {a \in Own(c) : alloc[a].moved = "PREPARED"}))

\* No unit is lost, made, or mixed with those of another checkout on its way
\* through a lane, whoever stops where and is resumed, compensated or replaced.
StockIsConserved == UnitsAddUp /\ LanesAreExclusive

\* A checkout is sold as a whole: when the invoice is there, every line was
\* reserved in full, staged and consumed, and nothing of it is held.
SaleIsWhole ==
    \A c \in Checkouts : checkout[c].sold => \A a \in Own(c) :
        /\ alloc[a].status = "CONSUMED" /\ alloc[a].moved = "CONSUMED"
        /\ alloc[a].released /\ Units(alloc[a].held) = Want

\* A stopped checkout leaves nothing behind, even when a walk was under way:
\* none of its allocations is live, none of its stock is staged, and its lane is
\* free again or left dirty for an operator (abort).
StoppedIsClean ==
    \A c \in Checkouts : checkout[c].status \in Stopped =>
        /\ \A a \in Own(c) : alloc[a].status \notin Live /\ alloc[a].moved # "PREPARED"
        /\ \A l \in Lanes : lane[l].holder = c => lane[l].status = "DIRTY"

\* A checkout ends as a whole, sold or undone, also when an abort, the expiry job or
\* a second request meets it half way.
EndedIsWhole == SaleIsWhole /\ StoppedIsClean

\* What ended stays ended: an allocation that was consumed, released or expired
\* never holds stock or changes again, and a posted invoice is never forgotten.
EndedStaysEnded ==
    [][/\ \A a \in Allocs : alloc[a].status \in Ended =>
              alloc'[a].status = alloc[a].status /\ alloc'[a].held = alloc[a].held
       /\ \A c \in Checkouts : checkout[c].sold => checkout'[c].sold]_vars

\* docs/group-stock-fifo/release/phase-6-8.md:91-94 says the preflight reads before the
\* transaction that writes: no layer is ever held from an older state, or oversold.
NeverOversold == \A p \in Layers : IsCovered(p)

\* checkout.py says of abort that after the invoice exists it is too late:
\* a cancelled checkout has no invoice.
CancelledWasNotSold == \A c \in Checkouts : checkout[c].status \in Stopped => ~checkout[c].sold

-----------------------------------------------------------------------------
(* Liveness: the scheduler runs, time passes, and requests are tried again. *)

Scheduler   == WF_vars(ExpireDue) /\ \A a \in Allocs : WF_vars(PassTime(a))
TimedSpec   == Spec /\ Scheduler
Retried     == \A w \in Workers :
                  /\ SF_vars(Read(w)) /\ SF_vars(ReserveLine(w)) /\ WF_vars(GiveUp(w))
                  /\ \A c \in Checkouts : SF_vars(Claim(w, c))
RetriedSpec == Spec /\ Retried

\* No hold lasts for ever: whoever abandons a reservation, its units come back
\* to the pool or are used (expire_due_allocations).
HoldsEnd == \A a \in Allocs : alloc[a].status = "RESERVED" ~> alloc[a].status # "RESERVED"

\* checkout_states.py says that a resumed step converges: a checkout whose walk
\* is tried again and again leaves RESERVING.
ResumeConverges ==
    \A c \in Checkouts : checkout[c].status = "RESERVING" ~> checkout[c].status # "RESERVING"
=============================================================================
