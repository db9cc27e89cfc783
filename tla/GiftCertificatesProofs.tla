------------------------ MODULE GiftCertificatesProofs ------------------------
(***************************************************************************)
(* The three properties of GiftCertificates that TLC checks on a small     *)
(* instance, for all orders, certificates, reservations and returns: value *)
(* is conserved, certificates, reservations and orders agree about what is *)
(* held, and returns restore what was taken.                               *)
(***************************************************************************)
EXTENDS GiftCertificates, SumProofs, TLAPS

Unsold(c) == c.status \in {None, "Issued", "Reserved For Sale", "Payment Pending"}

CertStatus == {None, "Issued", "Reserved For Sale", "Payment Pending", "Active",
               "Partially Redeemed", "Fully Redeemed", "Expired", "Replaced"}
CertType == [status : CertStatus, paid : Int, promo : Int, reserved : Int,
             redeemed : BOOLEAN, due : BOOLEAN, single : BOOLEAN, by : Spares \cup {None}]
HoldType == [cert : Certs \cup {None}, order : Orders \cup {None}, amt : Nat, paid : Nat,
             forfeit : Nat, status : Open \cup {None, "Consumed", "Released", "Expired"},
             late : BOOLEAN]
OrderType == [status : {"Building", "Awaiting Payment", "Payment In Progress", "Payment Unknown",
                        "Completed", "Cancelled"},
              total : Int, invoice : {None, "posted", "cancelled"}]
QuoteType == [cert : Certs, amt : Nat, paid : Nat, forfeit : Nat]
BackType == [status : {None, "planned", "posted", "cancelled"}, order : Orders \cup {None},
             qty : Nat, amt : Nat, paid : Nat, to : Certs \cup {None}, used : BOOLEAN]
RequestType == [at : {"idle", "prepared", "waiting"}, order : Orders \cup {None},
                rows : SUBSET Holds, fresh : BOOLEAN]
Typed == /\ hold \in [Holds -> HoldType]
         /\ order \in [Orders -> OrderType]
         /\ back \in [Returns -> BackType]
         /\ books \in [in : Int, out : Int]
         /\ request \in [Requests -> RequestType]
         /\ \A q \in Requests : request[q].at # "idle" => request[q].order \in Orders

\* Every step of the lineage of a replaced certificate leads to a lower rank.
Ranks(f) == [Certs -> 0..Cardinality({c \in Certs : f[c].status = "Replaced"})]
Falls(f, r) == \A c \in Certs : f[c].status = "Replaced" => r[f[c].by] < r[c]

\* A certificate that was not sold, or was replaced, carries and holds nothing;
\* what replaces one has been activated.
Empty(c) == Balance(c) = 0 /\ c.reserved = 0
CertsOK(f) ==
    /\ f \in [Certs -> CertType] /\ \A c \in Certs : Sound(f[c])
    /\ \A c \in Certs : Unsold(f[c]) => Empty(f[c])
    /\ \A c \in Certs : f[c].status = "Replaced" =>
          Empty(f[c]) /\ f[c].by \in Certs /\ ~Unsold(f[f[c].by])
    /\ \E r \in Ranks(f) : Falls(f, r)

\* A reservation is of a certificate that was sold, for an order, and when it
\* is consumed the order has its invoice.
HoldsKnown ==
    \A h \in Holds : hold[h].status # None =>
        /\ hold[h].cert \in Certs /\ ~Unsold(cert[hold[h].cert])
        /\ hold[h].order \in Orders
        /\ hold[h].amt > 0 /\ hold[h].paid <= hold[h].amt
        /\ hold[h].status = "Consumed" => order[hold[h].order].invoice # None

\* An order has one open reservation at most, and one that was consumed.
OneOpen  == \A o \in Orders : \A g, h \in HoldsOf(o) : g = h
OneTaken == \A o \in Orders : \A g, h \in Allocation(o) : g = h

\* A quote is for an order that holds nothing.
Quoted ==
  /\ DOMAIN quote = Orders
  /\ \A o \in Orders : quote[o] # None =>
        /\ quote[o] \in QuoteType /\ quote[o].amt > 0 /\ quote[o].paid <= quote[o].amt
        /\ HoldsOf(o) = {}

NoInvoiceYet == \A o \in Orders : order[o].status = "Building" => order[o].invoice = None

\* A return is of an order with an invoice, and what it restored is on a
\* certificate that was sold.
BacksKnown ==
    \A t \in Returns :
        /\ back[t].status # None => back[t].order \in Orders /\ order[back[t].order].invoice # None
                                     /\ back[t].qty > 0
        /\ back[t].status \notin {"posted", "cancelled"} => back[t].amt = 0 /\ back[t].paid = 0
        /\ back[t].amt > 0 => back[t].to \in Certs /\ ~Unsold(cert[back[t].to])

GiftInv == /\ Typed /\ CertsOK(cert) /\ HoldsKnown /\ OneOpen /\ OneTaken /\ Quoted
           /\ NoInvoiceYet /\ BacksKnown
           /\ HoldsAreReserved /\ OrderTotalIsHeld /\ ValueAddsUp /\ RestoredExactly

-----------------------------------------------------------------------------
(* Entries.                                                                *)

\* An entry of amounts p, q, r makes n of certificate c.
Adds(n, c, p, q, r) ==
    n \in CertType /\ n.paid = c.paid + p /\ n.promo = c.promo + q /\ n.reserved = c.reserved + r
Enters(n, c, p, q, r) == Adds(n, c, p, q, r) /\ n.status = c.status
KindKept(n, c) == (~Unsold(c) => ~Unsold(n)) /\ (n.status = "Replaced" => c.status = "Replaced")

\* The components of a certificate after an entry.
LEMMA EnteredFacts ==
  ASSUME NEW c \in CertType, NEW type, NEW p \in Int, NEW q \in Int, NEW r \in Int
  PROVE  Enters(Entered(c, type, p, q, r), c, p, q, r)
<1>1. PICK b \in BOOLEAN : b <=> (c.redeemed \/ (type = "Redeem" /\ p + q < 0))
  OBVIOUS
<1>2. c.redeemed \in BOOLEAN
  BY DEF CertType
<1>3. (c.redeemed \/ (type = "Redeem" /\ p + q < 0)) = b
  BY <1>1, <1>2
<1>4. PICK x, y, z \in Int : x = c.paid + p /\ y = c.promo + q /\ z = c.reserved + r
  BY DEF CertType
<1>5. PICK m : m = [c EXCEPT !.paid = x, !.promo = y, !.reserved = z, !.redeemed = b]
  OBVIOUS
<1>6. Entered(c, type, p, q, r) = m
  BY <1>3, <1>4, <1>5, Zenon DEF Entered
<1>7. m \in CertType /\ m.status = c.status /\ m.paid = x /\ m.promo = y /\ m.reserved = z
  BY <1>5 DEF CertType
<1>8. Enters(m, c, p, q, r)
  BY <1>4, <1>7 DEF Enters, Adds
<1> QED BY <1>6, <1>8

\* An entry changes the components by its amounts, neither sells nor replaces.
LEMMA EntryFacts ==
  ASSUME GiftAssumption, NEW c \in CertType, NEW type, NEW p \in Int, NEW q \in Int, NEW r \in Int
  PROVE  Adds(Entry(c, type, p, q, r), c, p, q, r) /\ KindKept(Entry(c, type, p, q, r), c)
<1>0. PICK m : m = Entered(c, type, p, q, r)
  OBVIOUS
<1>1. Enters(m, c, p, q, r)
  BY <1>0, EnteredFacts
<1> DEFINE s == NextStatus(m)
           n == [m EXCEPT !.status = s]
<1>2. Entry(c, type, p, q, r) = n
  BY <1>0 DEF Entry
<1>3. s = m.status \/ (m.status \notin Void /\ s \in {"Active", "Partially Redeemed", "Fully Redeemed"})
  BY DEF NextStatus, StatusAfter
<1> HIDE DEF s
<1>4. /\ n \in CertType /\ n.status = s
      /\ n.paid = m.paid /\ n.promo = m.promo /\ n.reserved = m.reserved
  BY <1>1, <1>3 DEF Enters, Adds, CertType, CertStatus
<1> HIDE DEF n
<1>5. m.status = c.status
  BY <1>1 DEF Enters
<1>6. ~Unsold(c) => ~Unsold(n)
  BY <1>3, <1>4, <1>5 DEF Unsold, GiftAssumption, Statuses
<1>7. n.status = "Replaced" => c.status = "Replaced"
  BY <1>3, <1>4, <1>5 DEF Void
<1>8. Adds(n, c, p, q, r)
  BY <1>1, <1>4 DEF Enters, Adds
<1> QED BY <1>2, <1>6, <1>7, <1>8 DEF KindKept

\* The amounts of a certificate, and its balance, are integers.
LEMMA ComponentsInt ==
  ASSUME NEW c \in CertType
  PROVE  c.paid \in Int /\ c.promo \in Int /\ c.reserved \in Int /\ Balance(c) \in Int
BY DEF CertType, Balance

\* What a pair of entries does, of the paid and then of the promotional part.
LEMMA EntriesFacts ==
  ASSUME GiftAssumption, NEW c \in CertType, NEW type, NEW p \in Int, NEW q \in Int, NEW r \in Int
  PROVE  LET n == Entry(Entry(c, type, p, 0, r), type, 0, q, 0) IN Adds(n, c, p, q, r) /\ KindKept(n, c)
<1>1. PICK m : m = Entry(c, type, p, 0, r)
  OBVIOUS
<1>2. Adds(m, c, p, 0, r) /\ KindKept(m, c)
  BY <1>1, EntryFacts
<1>3. PICK n : n = Entry(m, type, 0, q, 0)
  OBVIOUS
<1>4. m \in CertType
  BY <1>2 DEF Adds
<1>5. Adds(n, m, 0, q, 0) /\ KindKept(n, m)
  BY <1>3, <1>4, EntryFacts
<1>6. c.paid \in Int /\ c.promo \in Int /\ c.reserved \in Int
  BY ComponentsInt
<1>7. Adds(n, c, p, q, r)
  BY <1>2, <1>5, <1>6 DEF Adds
<1>8. KindKept(n, c)
  BY <1>2, <1>5 DEF KindKept
<1> QED BY <1>1, <1>3, <1>7, <1>8

-----------------------------------------------------------------------------
(* Certificates.                                                           *)

BalancesOf(f) == [c \in Certs |-> Balance(f[c])]
SoldKept(f, g) == \A c \in Certs : ~Unsold(f[c]) => ~Unsold(g[c])
ReservedKept(f, g) == \A c \in Certs : g[c].reserved = f[c].reserved
TotalMoves(f, g, n) == SumOver(BalancesOf(g), Certs) = SumOver(BalancesOf(f), Certs) + n

\* The certificates are finitely many, and so are the balances on them.
LEMMA CertsFinite ==
  ASSUME GiftAssumption
  PROVE  IsFiniteSet(Certs) /\ Cardinality(Certs) \in Nat /\ None \notin Certs
<1>1. IsFiniteSet(Originals) /\ IsFiniteSet(Spares) /\ None \notin Originals /\ None \notin Spares
  BY DEF GiftAssumption
<1>2. IsFiniteSet(Certs)
  BY <1>1, FS_Union DEF Certs
<1> QED BY <1>1, <1>2, FS_CardinalityType DEF Certs

\* The balances of all certificates have an integer sum.
LEMMA BalancesInt ==
  ASSUME GiftAssumption, NEW f \in [Certs -> CertType]
  PROVE  Ints(BalancesOf(f), Certs) /\ SumOver(BalancesOf(f), Certs) \in Int
<1>1. Ints(BalancesOf(f), Certs)
  <2>1. \A c \in Certs : f[c] \in CertType /\ BalancesOf(f)[c] = Balance(f[c])
    BY DEF BalancesOf
  <2> QED BY <2>1, ComponentsInt DEF Ints
<1> QED BY <1>1, CertsFinite, SumInt

\* The total moves by as much as the balance of the one certificate that changes.
LEMMA MoveOne ==
  ASSUME GiftAssumption, NEW f \in [Certs -> CertType], NEW c \in Certs, NEW y \in CertType,
         NEW g, g = [f EXCEPT ![c] = y]
  PROVE  TotalMoves(f, g, Balance(y) - Balance(f[c]))
<1>0. /\ g \in [Certs -> CertType] /\ g[c] = y /\ \A d \in Certs : d # c => g[d] = f[d]
  OBVIOUS
<1> DEFINE F == BalancesOf(f)
           G == BalancesOf(g)
<1>1. IsFiniteSet(Certs) /\ Ints(F, Certs) /\ Ints(G, Certs) /\ SumOver(F, Certs) \in Int
  BY <1>0, CertsFinite, BalancesInt
<1>2. (\A d \in Certs : d # c => F[d] = G[d]) /\ F[c] = Balance(f[c]) /\ G[c] = Balance(y)
  BY <1>0 DEF BalancesOf
<1>3. F[c] \in Int /\ G[c] \in Int
  BY <1>1 DEF Ints
<1> HIDE DEF F, G
<1>4. SumOver(G, Certs) = SumOver(F, Certs) - F[c] + G[c]
  BY <1>1, <1>2, SumMove
<1>5. SumOver(G, Certs) = SumOver(F, Certs) + (G[c] - F[c])
  BY <1>1, <1>3, <1>4
<1> QED BY <1>2, <1>5 DEF TotalMoves, F, G

\* A certificate that was not replaced may change its balance: the others stay.
LEMMA ChangeOne ==
  ASSUME GiftAssumption, NEW f, CertsOK(f), NEW c \in Certs, NEW y \in CertType,
         Sound(y), Unsold(y) => Unsold(f[c]) /\ Empty(y),
         y.status # "Replaced", f[c].status # "Replaced",
         NEW g, g = [f EXCEPT ![c] = y]
  PROVE  /\ CertsOK(g) /\ SoldKept(f, g)
         /\ TotalMoves(f, g, Balance(y) - Balance(f[c]))
         /\ y.reserved = f[c].reserved => ReservedKept(f, g)
<1>1. /\ g \in [Certs -> CertType] /\ f \in [Certs -> CertType]
      /\ g[c] = y /\ \A d \in Certs : d # c => g[d] = f[d]
  BY DEF CertsOK
<1>2. \A d \in Certs : Sound(g[d])
  BY <1>1 DEF CertsOK
<1>3. SoldKept(f, g)
  BY <1>1 DEF SoldKept
<1>4. \A d \in Certs : Unsold(g[d]) => Empty(g[d])
  BY <1>1 DEF CertsOK
<1>5. ASSUME NEW d \in Certs, g[d].status = "Replaced"
      PROVE  Empty(g[d]) /\ g[d].by \in Certs /\ ~Unsold(g[g[d].by])
  <2>1. d # c /\ g[d] = f[d]
    BY <1>1, <1>5
  <2>2. Empty(f[d]) /\ f[d].by \in Certs /\ ~Unsold(f[f[d].by])
    BY <1>5, <2>1 DEF CertsOK
  <2> QED BY <1>3, <2>1, <2>2 DEF SoldKept
<1>6. \E r \in Ranks(g) : Falls(g, r)
  <2>1. PICK r \in Ranks(f) : Falls(f, r)
    BY DEF CertsOK
  <2>2. \A d \in Certs : g[d].status = "Replaced" <=> f[d].status = "Replaced"
    BY <1>1
  <2>3. {d \in Certs : g[d].status = "Replaced"} = {d \in Certs : f[d].status = "Replaced"}
    BY <2>2
  <2>4. r \in Ranks(g)
    BY <2>3 DEF Ranks
  <2>5. Falls(g, r)
    BY <1>1, <2>1, <2>2 DEF Falls
  <2> QED BY <2>4, <2>5
<1>7. TotalMoves(f, g, Balance(y) - Balance(f[c]))
  BY <1>1, MoveOne
<1>8. CertsOK(g)
  BY <1>1, <1>2, <1>4, <1>5, <1>6 DEF CertsOK
<1>9. y.reserved = f[c].reserved => ReservedKept(f, g)
  BY <1>1 DEF ReservedKept
<1> QED BY <1>3, <1>7, <1>8, <1>9

-----------------------------------------------------------------------------
(* Where the lineage of a certificate leads.                               *)

\* b[i] follows the lineage of a certificate by i steps.
Step(f, i, prev, d) == IF i = 0 \/ f[d].status # "Replaced" THEN d ELSE prev[f[d].by]
IsHeirs(b, f, n) == b = [i \in 0..n |-> [d \in Certs |-> Step(f, i, b[i - 1], d)]]

\* The recursive function that Heir is written with exists.
LEMMA HeirsExist ==
  ASSUME NEW f
  PROVE  \A n \in Nat : \E b : IsHeirs(b, f, n)
<1> DEFINE G == {n \in Nat : \E b : IsHeirs(b, f, n)}
<1>1. 0 \in G
  <2> DEFINE b == [i \in 0..0 |-> [d \in Certs |-> d]]
  <2>1. \A i \in 0..0 : [d \in Certs |-> d] = [d \in Certs |-> Step(f, i, b[i - 1], d)]
    BY DEF Step
  <2>2. b = [i \in 0..0 |-> [d \in Certs |-> Step(f, i, b[i - 1], d)]]
    BY <2>1
  <2> QED BY <2>2 DEF IsHeirs
<1>2. ASSUME NEW n \in Nat, n \in G
      PROVE  n + 1 \in G
  <2>1. PICK b : IsHeirs(b, f, n)
    BY <1>2
  <2> DEFINE last == [d \in Certs |-> Step(f, n + 1, b[n], d)]
             e == [i \in 0..(n + 1) |-> IF i \in 0..n THEN b[i] ELSE last]
  <2>2. \A i \in 0..n : e[i] = b[i] /\ b[i] = [d \in Certs |-> Step(f, i, b[i - 1], d)]
    <3>1. \A i \in 0..n : i \in 0..(n + 1)
      OBVIOUS
    <3> QED BY <2>1, <3>1 DEF IsHeirs
  <2>3. e[n + 1] = last /\ (n + 1) - 1 = n /\ e[n] = b[n]
    BY <2>2
  <2>4. ASSUME NEW i \in 0..(n + 1)
        PROVE  e[i] = [d \in Certs |-> Step(f, i, e[i - 1], d)]
    <3>1. CASE i = n + 1
      BY <2>3, <3>1
    <3>2. CASE i \in 0..n /\ i # 0
      <4>1. i - 1 \in 0..n
        BY <3>2
      <4> QED BY <2>2, <3>2, <4>1
    <3>3. CASE i = 0
      <4>1. 0 \in 0..n
        OBVIOUS
      <4>2. e[0] = [d \in Certs |-> Step(f, 0, b[0 - 1], d)]
        BY <2>2, <4>1
      <4>3. \A d : Step(f, 0, b[0 - 1], d) = Step(f, 0, e[0 - 1], d)
        BY DEF Step
      <4> HIDE DEF e
      <4> QED BY <3>3, <4>2, <4>3
    <3> QED BY <3>1, <3>2, <3>3
  <2>5. DOMAIN e = 0..(n + 1) /\ e = [i \in 0..(n + 1) |-> e[i]]
    OBVIOUS
  <2> HIDE DEF e
  <2>6. e = [i \in 0..(n + 1) |-> [d \in Certs |-> Step(f, i, e[i - 1], d)]]
    BY <2>4, <2>5
  <2>7. IsHeirs(e, f, n + 1)
    BY <2>6 DEF IsHeirs
  <2> QED BY <2>7
<1>3. \A n \in Nat : n \in G
  <2> HIDE DEF G
  <2> QED BY <1>1, <1>2, NatSetInduction
<1> QED BY <1>3

\* What a replaced certificate is led to: one that was not, sold if it was.
Leads(f, c, d) == d \in Certs /\ f[d].status # "Replaced" /\ (~Unsold(f[c]) => ~Unsold(f[d]))
\* A certificate with a rank is led to one that was not replaced, in as many steps.
LEMMA HeirsLead ==
  ASSUME NEW f, CertsOK(f), NEW r \in Ranks(f), Falls(f, r), NEW N \in Nat,
         NEW b, IsHeirs(b, f, N)
  PROVE  \A c \in Certs : r[c] <= N => Leads(f, c, b[N][c])
<1> DEFINE G == {n \in Nat : n <= N => \A c \in Certs : r[c] <= n => Leads(f, c, b[n][c])}
<1>0. \A c \in Certs : r[c] \in Nat
  <2>1. PICK K : K = Cardinality({c \in Certs : f[c].status = "Replaced"})
    OBVIOUS
  <2>2. r \in [Certs -> 0..K]
    BY <2>1 DEF Ranks
  <2> QED BY <2>2
<1>1. 0 \in G
  <2> SUFFICES ASSUME NEW c \in Certs, r[c] <= 0 PROVE Leads(f, c, b[0][c])
    OBVIOUS
  <2>1. f[c].status # "Replaced"
    <3> SUFFICES ASSUME f[c].status = "Replaced" PROVE FALSE
      OBVIOUS
    <3>1. f[c].by \in Certs /\ r[f[c].by] < r[c]
      BY DEF CertsOK, Falls
    <3> QED BY <1>0, <3>1
  <2>2. b[0][c] = c
    BY DEF IsHeirs, Step
  <2> QED BY <2>1, <2>2 DEF Leads
<1>2. ASSUME NEW n \in Nat, n \in G
      PROVE  n + 1 \in G
  <2> SUFFICES ASSUME n + 1 <= N, NEW c \in Certs, r[c] <= n + 1 PROVE Leads(f, c, b[n + 1][c])
    OBVIOUS
  <2>1. n + 1 \in 0..N /\ (n + 1) - 1 = n /\ n + 1 # 0 /\ n <= N
    OBVIOUS
  <2>2. b[n + 1][c] = Step(f, n + 1, b[n], c)
    BY <2>1 DEF IsHeirs
  <2>3. CASE f[c].status # "Replaced"
    <3>1. b[n + 1][c] = c
      BY <2>2, <2>3 DEF Step
    <3> QED BY <2>3, <3>1 DEF Leads
  <2>4. CASE f[c].status = "Replaced"
    <3>1. f[c].by \in Certs /\ r[f[c].by] < r[c] /\ ~Unsold(f[f[c].by])
      BY <2>4 DEF CertsOK, Falls
    <3>2. b[n + 1][c] = b[n][f[c].by]
      BY <2>1, <2>2, <2>4 DEF Step
    <3>3. r[f[c].by] <= n
      BY <1>0, <3>1
    <3>4. Leads(f, f[c].by, b[n][f[c].by])
      BY <1>2, <2>1, <3>1, <3>3
    <3> QED BY <3>1, <3>2, <3>4 DEF Leads
  <2> QED BY <2>3, <2>4
<1>3. \A n \in Nat : n \in G
  <2> HIDE DEF G
  <2> QED BY <1>1, <1>2, NatSetInduction
<1> QED BY <1>3

\* The lineage of a certificate, however long, ends with one that was not replaced.
LEMMA HeirFacts ==
  ASSUME GiftAssumption, CertsOK(cert), NEW c \in Certs
  PROVE  Leads(cert, c, Heir(c))
<1> DEFINE N == Cardinality(Certs)
           R == {d \in Certs : cert[d].status = "Replaced"}
<1>1. PICK r \in Ranks(cert) : Falls(cert, r)
  BY DEF CertsOK
<1>2. IsFiniteSet(Certs) /\ N \in Nat
  BY CertsFinite
<1>3. Cardinality(R) <= N /\ Cardinality(R) \in Nat
  <2>1. R \in SUBSET Certs
    OBVIOUS
  <2> HIDE DEF R
  <2> QED BY <1>2, <2>1, FS_Subset, FS_CardinalityType
<1>4. r[c] <= N
  <2>1. r[c] \in 0..Cardinality(R)
    BY DEF Ranks
  <2> HIDE DEF R, N
  <2> QED BY <1>2, <1>3, <2>1
<1>5. PICK b : b = CHOOSE e : IsHeirs(e, cert, N)
  OBVIOUS
<1>6. IsHeirs(b, cert, N)
  <2> HIDE DEF N
  <2> QED BY <1>2, <1>5, HeirsExist
<1>7. Heir(c) = b[N][c]
  BY <1>5 DEF Heir, IsHeirs, Step
<1> HIDE DEF N
<1> QED BY <1>1, <1>2, <1>4, <1>6, <1>7, HeirsLead

-----------------------------------------------------------------------------
(* Replacing a certificate, and restoring value to one.                    *)

Retired(z, n)   == /\ z \in CertType /\ z.status = "Replaced" /\ ~Unsold(z) /\ Empty(z)
                   /\ z.by = n /\ Sound(z)
TakesOver(y, c) == /\ y \in CertType /\ y.status # "Replaced" /\ ~Unsold(y) /\ Sound(y)
                   /\ Balance(y) = Balance(c) /\ y.reserved = 0

\* A certificate becomes z, replaced by n, which takes over its balance as y.
LEMMA ReplaceOne ==
  ASSUME GiftAssumption, NEW f, CertsOK(f), NEW c \in Certs, NEW n \in Certs,
         f[c].status # "Replaced", ~Unsold(f[c]), f[c].reserved = 0, Unsold(f[n]),
         f[n].status # "Replaced",
         NEW z, Retired(z, n), NEW y, TakesOver(y, f[c]),
         NEW g, g = [f EXCEPT ![c] = z, ![n] = y]
  PROVE  CertsOK(g) /\ SoldKept(f, g) /\ TotalMoves(f, g, 0) /\ ReservedKept(f, g)
<1>a. /\ z \in CertType /\ z.status = "Replaced" /\ ~Unsold(z) /\ Empty(z)
      /\ z.by = n /\ Sound(z)
  BY DEF Retired
<1>b. /\ y \in CertType /\ y.status # "Replaced" /\ ~Unsold(y) /\ Sound(y)
      /\ Balance(y) = Balance(f[c]) /\ y.reserved = 0
  BY DEF TakesOver
<1>0. c # n
  OBVIOUS
<1>1. /\ g \in [Certs -> CertType] /\ f \in [Certs -> CertType]
      /\ g[c] = z /\ g[n] = y /\ \A d \in Certs : d # c /\ d # n => g[d] = f[d]
  BY <1>a, <1>b, <1>0 DEF CertsOK
<1>2. SoldKept(f, g)
  BY <1>a, <1>b, <1>1 DEF SoldKept
<1>3. Empty(f[n])
  BY DEF CertsOK
<1>4. ReservedKept(f, g)
  BY <1>a, <1>b, <1>1, <1>3 DEF ReservedKept, Empty
<1>5. \A d \in Certs : Sound(g[d])
  BY <1>a, <1>b, <1>1 DEF CertsOK
<1>6. \A d \in Certs : Unsold(g[d]) => Empty(g[d])
  BY <1>a, <1>b, <1>1 DEF CertsOK
<1>7. ASSUME NEW d \in Certs, g[d].status = "Replaced"
      PROVE  Empty(g[d]) /\ g[d].by \in Certs /\ ~Unsold(g[g[d].by])
  <2>1. CASE d = c
    BY <1>a, <1>b, <1>1, <2>1
  <2>2. CASE d # c
    <3>1. d # n /\ g[d] = f[d]
      BY <1>a, <1>b, <1>1, <1>7, <2>2
    <3>2. Empty(f[d]) /\ f[d].by \in Certs /\ ~Unsold(f[f[d].by])
      BY <1>7, <3>1 DEF CertsOK
    <3> QED BY <1>2, <3>1, <3>2 DEF SoldKept
  <2> QED BY <2>1, <2>2
<1>8. \E r \in Ranks(g) : Falls(g, r)
  <2> DEFINE R == {d \in Certs : f[d].status = "Replaced"}
             S == {d \in Certs : g[d].status = "Replaced"}
  <2>1. PICK r \in Ranks(f) : Falls(f, r)
    BY DEF CertsOK
  <2>2. S = R \cup {c} /\ c \notin R /\ R \in SUBSET Certs
    BY <1>a, <1>b, <1>1
  <2>3. r \in [Certs -> 0..Cardinality(R)]
    BY DEF Ranks
  <2>4. \A d \in R : r[f[d].by] < r[d] /\ f[d].by # n /\ f[d].by \in Certs /\ g[d] = f[d]
    <3> SUFFICES ASSUME NEW d \in R
                 PROVE  r[f[d].by] < r[d] /\ f[d].by # n /\ f[d].by \in Certs /\ g[d] = f[d]
      OBVIOUS
    <3>1. d \in Certs /\ f[d].status = "Replaced"
      OBVIOUS
    <3>2. f[d].by \in Certs /\ ~Unsold(f[f[d].by])
      BY <3>1 DEF CertsOK
    <3>3. d # c /\ d # n
      BY <3>1
    <3> QED BY <1>a, <1>b, <1>1, <2>1, <3>1, <3>2, <3>3 DEF Falls
  <2> DEFINE q == [d \in Certs |-> IF d = n THEN 0 ELSE r[d] + 1]
  <2>5. Cardinality(S) = Cardinality(R) + 1 /\ Cardinality(R) \in Nat
    <3> HIDE DEF R, S
    <3> QED BY <2>2, CertsFinite, FS_Subset, FS_AddElement, FS_CardinalityType
  <2> HIDE DEF R
  <2>6. q \in [Certs -> 0..Cardinality(S)]
    <3> HIDE DEF S
    <3> QED BY <2>3, <2>5
  <2>7. q \in Ranks(g)
    BY <2>6 DEF Ranks
  <2>8. ASSUME NEW d \in S
        PROVE  q[g[d].by] < q[d]
    <3>1. CASE d = c
      <4>1. g[d].by = n /\ d # n /\ r[d] \in Nat
        BY <1>a, <1>b, <1>0, <1>1, <2>3, <2>5, <3>1
      <4> QED BY <4>1, <3>1
    <3>2. CASE d \in R
      <4>1. /\ r[f[d].by] < r[d] /\ f[d].by # n /\ f[d].by \in Certs /\ g[d] = f[d]
            /\ d \in Certs
        BY <2>2, <2>4, <3>2
      <4>2. d # n
        BY <1>a, <1>b, <1>1, <2>8
      <4>3. r[f[d].by] \in Int /\ r[d] \in Int
        BY <2>3, <2>5, <4>1
      <4>4. q[f[d].by] = r[f[d].by] + 1 /\ q[d] = r[d] + 1
        BY <4>1, <4>2
      <4> HIDE DEF q
      <4> QED BY <4>1, <4>3, <4>4
    <3> HIDE DEF q, S
    <3> QED BY <2>2, <2>8, <3>1, <3>2
  <2>9. Falls(g, q)
    <3> HIDE DEF q
    <3> QED BY <2>8 DEF Falls
  <2> HIDE DEF q
  <2> QED BY <2>7, <2>9
<1>9. TotalMoves(f, g, 0)
  <2>1. PICK k : k = [f EXCEPT ![c] = z]
    OBVIOUS
  <2>2. k \in [Certs -> CertType] /\ g = [k EXCEPT ![n] = y] /\ k[n] = f[n]
    BY <1>a, <1>b, <1>0, <1>1, <2>1
  <2>3. TotalMoves(f, k, Balance(z) - Balance(f[c]))
    BY <1>a, <1>b, <1>1, <2>1, MoveOne
  <2>4. TotalMoves(k, g, Balance(y) - Balance(k[n]))
    BY <1>b, <2>2, MoveOne
  <2>5. Balance(z) = 0 /\ Balance(k[n]) = 0 /\ Balance(f[c]) \in Int
    BY <1>a, <1>b, <1>1, <1>3, <2>2, ComponentsInt DEF Empty
  <2>6. SumOver(BalancesOf(f), Certs) \in Int
    BY <1>a, <1>b, <1>1, BalancesInt
  <2> QED BY <1>b, <2>3, <2>4, <2>5, <2>6 DEF TotalMoves
<1>10. CertsOK(g)
  BY <1>a, <1>b, <1>1, <1>5, <1>6, <1>7, <1>8 DEF CertsOK
<1> QED BY <1>2, <1>4, <1>9, <1>10

\* A replacement leaves every total and every hold as it was.
LEMMA ReplacedFacts ==
  ASSUME GiftAssumption, CertsOK(cert), NEW c \in Certs, cert[c].status # "Replaced",
         ~Unsold(cert[c]), cert[c].reserved = 0, NEW n \in Spares, cert[n].status = None,
         NEW g, g = Replaced(c, n)
  PROVE  /\ CertsOK(g) /\ SoldKept(cert, g) /\ TotalMoves(cert, g, 0) /\ ReservedKept(cert, g)
         /\ ~Unsold(g[n]) /\ g[n].status # "Replaced"
<1>1. /\ cert[c] \in CertType /\ cert[c].paid \in Int /\ cert[c].promo \in Int
      /\ cert[c].reserved \in Int /\ Balance(cert[c]) \in Int
  BY ComponentsInt DEF CertsOK
<1>2. -cert[c].paid \in Int /\ -cert[c].promo \in Int
  BY <1>1
<1>3. PICK m : m = Entry(Entry(cert[c], "Replace", -cert[c].paid, 0, 0), "Replace", 0, -cert[c].promo, 0)
  OBVIOUS
<1>4. Adds(m, cert[c], -cert[c].paid, -cert[c].promo, 0)
  BY <1>1, <1>2, <1>3, EntriesFacts
<1>5. m \in CertType /\ m.paid = 0 /\ m.promo = 0 /\ m.reserved = 0
  BY <1>1, <1>4 DEF Adds
<1>6. PICK z : z = [m EXCEPT !.status = "Replaced", !.by = n]
  OBVIOUS
<1>7. /\ z \in CertType /\ z.status = "Replaced" /\ z.by = n
      /\ z.paid = 0 /\ z.promo = 0 /\ z.reserved = 0
  BY <1>5, <1>6 DEF CertType, CertStatus
<1>8. Empty(z) /\ Sound(z)
  BY <1>7 DEF Empty, Sound, Balance
<1>9. PICK y : y = [cert[c] EXCEPT !.status = "Active", !.reserved = 0, !.redeemed = FALSE, !.by = None]
  OBVIOUS
<1>10. /\ y \in CertType /\ y.status = "Active" /\ y.reserved = 0
       /\ y.paid = cert[c].paid /\ y.promo = cert[c].promo
  BY <1>1, <1>9 DEF CertType, CertStatus
<1>11. Sound(cert[c])
  BY DEF CertsOK
<1>12. Balance(y) = Balance(cert[c]) /\ Sound(y)
  BY <1>1, <1>10, <1>11 DEF Balance, Sound
<1>13. ~Unsold(z) /\ ~Unsold(y)
  BY <1>7, <1>10 DEF Unsold, GiftAssumption, Statuses
<1>14. g = [cert EXCEPT ![c] = z, ![n] = y]
  BY <1>3, <1>6, <1>9 DEF Replaced
<1>15. n \in Certs /\ Unsold(cert[n])
  BY DEF Unsold, Certs
<1>16. cert[n].status # "Replaced"
  BY DEF GiftAssumption, Statuses
<1>17. y.status # "Replaced"
  BY <1>10
<1>18. CertsOK(g) /\ SoldKept(cert, g) /\ TotalMoves(cert, g, 0) /\ ReservedKept(cert, g)
  <2>1. Retired(z, n) /\ TakesOver(y, cert[c])
    BY <1>7, <1>8, <1>10, <1>12, <1>13, <1>17 DEF Retired, TakesOver
  <2> QED BY <2>1, <1>14, <1>15, <1>16, ReplaceOne
<1>19. g[n] = y
  BY <1>14, <1>15 DEF CertsOK
<1> QED BY <1>13, <1>17, <1>18, <1>19

\* Where value is restored to, and what the certificates are then.
LEMMA TargetFacts ==
  ASSUME GiftAssumption, CertsOK(cert), NEW c \in Certs, ~Unsold(cert[c]), NEW target \in Targets(c)
  PROVE  /\ target.to \in Certs /\ ~Unsold(target.certs[target.to])
         /\ target.certs[target.to].status # "Replaced"
         /\ CertsOK(target.certs) /\ SoldKept(cert, target.certs)
         /\ TotalMoves(cert, target.certs, 0) /\ ReservedKept(cert, target.certs)
<1>1. Heir(c) \in Certs /\ cert[Heir(c)].status # "Replaced" /\ ~Unsold(cert[Heir(c)])
  BY HeirFacts DEF Leads
<1>2. CASE ~NeedsHeir(Heir(c))
  <2>1. target.to = Heir(c) /\ target.certs = cert
    BY <1>2 DEF Targets
  <2>2. SoldKept(cert, cert) /\ ReservedKept(cert, cert)
    BY DEF SoldKept, ReservedKept
  <2>3. SumOver(BalancesOf(cert), Certs) \in Int
    BY BalancesInt DEF CertsOK
  <2>4. TotalMoves(cert, cert, 0)
    BY <2>3 DEF TotalMoves
  <2> QED BY <1>1, <2>1, <2>2, <2>4
<1>3. CASE NeedsHeir(Heir(c))
  <2>1. PICK n \in Spares : /\ cert[n].status = None /\ cert[Heir(c)].reserved = 0
                            /\ target = [to |-> n, certs |-> Replaced(Heir(c), n)]
    BY <1>3 DEF Targets
  <2>2. target.to = n /\ target.certs = Replaced(Heir(c), n) /\ n \in Certs
    BY <2>1 DEF Certs
  <2> QED BY <1>1, <2>1, <2>2, ReplacedFacts
<1> QED BY <1>2, <1>3

\* What a restoration does to the certificates.
LEMMA RestoreFacts ==
  ASSUME GiftAssumption, CertsOK(cert), NEW c \in Certs, ~Unsold(cert[c]), NEW target \in Targets(c),
         NEW amount \in Int, NEW paid \in Int, RestoreTo(target, amount, paid)
  PROVE  /\ CertsOK(cert') /\ SoldKept(cert, cert') /\ TotalMoves(cert, cert', amount)
         /\ ReservedKept(cert, cert') /\ target.to \in Certs /\ ~Unsold(cert'[target.to])
<1>1. PICK d : d = target.to
  OBVIOUS
<1>2. PICK f : f = target.certs
  OBVIOUS
<1>3. /\ d \in Certs /\ ~Unsold(f[d]) /\ f[d].status # "Replaced" /\ CertsOK(f)
      /\ SoldKept(cert, f) /\ TotalMoves(cert, f, 0) /\ ReservedKept(cert, f)
  BY <1>1, <1>2, TargetFacts
<1>4. f[d] \in CertType /\ f \in [Certs -> CertType] /\ cert \in [Certs -> CertType]
  BY <1>3 DEF CertsOK
<1>5. amount - paid \in Int
  OBVIOUS
<1>6. PICK n : n = Entry(Entry(f[d], "Restore", paid, 0, 0), "Restore", 0, amount - paid, 0)
  OBVIOUS
<1>7. Adds(n, f[d], paid, amount - paid, 0) /\ KindKept(n, f[d])
  BY <1>4, <1>5, <1>6, EntriesFacts
<1>8. Sound(n) /\ cert' = [f EXCEPT ![d] = n]
  BY <1>1, <1>2, <1>6 DEF RestoreTo
<1>9. n \in CertType /\ ~Unsold(n) /\ n.status # "Replaced"
  BY <1>3, <1>7 DEF Adds, KindKept
<1>10. /\ CertsOK(cert') /\ SoldKept(f, cert') /\ TotalMoves(f, cert', Balance(n) - Balance(f[d]))
  BY <1>3, <1>8, <1>9, ChangeOne
<1>11. /\ f[d].paid \in Int /\ f[d].promo \in Int /\ f[d].reserved \in Int
  BY <1>4, ComponentsInt
<1>12. Balance(n) - Balance(f[d]) = amount /\ n.reserved = f[d].reserved
  BY <1>7, <1>11 DEF Adds, Balance
<1>13. SumOver(BalancesOf(cert), Certs) \in Int
  BY <1>4, BalancesInt
<1>14. TotalMoves(cert, cert', amount)
  BY <1>3, <1>10, <1>12, <1>13 DEF TotalMoves
<1>15. cert'[d] = n /\ \A e \in Certs : e # d => cert'[e] = f[e]
  BY <1>3, <1>4, <1>8
<1>16. ReservedKept(cert, cert')
  BY <1>3, <1>12, <1>15 DEF ReservedKept
<1>17. SoldKept(cert, cert')
  BY <1>3, <1>10 DEF SoldKept
<1> QED BY <1>1, <1>3, <1>9, <1>10, <1>14, <1>15, <1>16, <1>17

-----------------------------------------------------------------------------
(* Steps that leave every reservation where it is.                         *)

SameHolds ==
    \A h \in Holds :
        /\ hold'[h].cert = hold[h].cert /\ hold'[h].order = hold[h].order
        /\ hold'[h].amt = hold[h].amt /\ hold'[h].paid = hold[h].paid
        /\ hold'[h].status = hold[h].status \/ (hold[h].status \in Open /\ hold'[h].status \in Open)

\* What an order counts on stays while it has no invoice; it keeps its invoice.
OrdersKept ==
    \A o \in Orders :
        /\ order'[o].invoice = None => order[o].invoice = None /\ order'[o].total = order[o].total
        /\ order[o].invoice # None => order'[o].invoice # None
        /\ order'[o].status = "Building" =>
              order[o].status = "Building" /\ order'[o].invoice = order[o].invoice

\* A quote is kept or dropped.
QuotesFall == DOMAIN quote' = Orders /\ \A o \in Orders : quote'[o] = None \/ quote'[o] = quote[o]

\* A step that leaves the quotes alone gives none.
LEMMA QuotesStand ==
  ASSUME GiftInv, quote' = quote
  PROVE  QuotesFall
BY DEF GiftInv, Quoted, QuotesFall

\* The amounts of the reservations can be summed.
LEMMA AmountsNat ==
  ASSUME Typed
  PROVE  Nats(Amounts, Holds) /\ Ints(Amounts, Holds)
BY DEF Typed, HoldType, Nats, Ints, Amounts

\* A record that does not exist has none of the statuses.
LEMMA NoneIsNoStatus ==
  ASSUME GiftAssumption
  PROVE  /\ None # "Consumed" /\ None \notin Open /\ None # "planned" /\ None # "posted"
         /\ None # "cancelled" /\ None # "Released" /\ None # "Expired" /\ "Consumed" \notin Open
BY DEF GiftAssumption, Statuses, Open

\* A step that keeps the reservations keeps what is open or consumed of an order
\* and of a certificate.
LEMMA SameSets ==
  ASSUME GiftAssumption, SameHolds
  PROVE  /\ Amounts' = Amounts
         /\ \A o : HoldsOf(o)' = HoldsOf(o) /\ Allocation(o)' = Allocation(o)
         /\ \A c : HoldsOn(c)' = HoldsOn(c)
<1>1. Amounts' = Amounts
  BY DEF Amounts, SameHolds
<1>2. \A h \in Holds : /\ hold'[h].status \in Open <=> hold[h].status \in Open
                       /\ hold'[h].status = "Consumed" <=> hold[h].status = "Consumed"
  BY NoneIsNoStatus DEF SameHolds
<1>3. ASSUME NEW o
      PROVE  HoldsOf(o)' = HoldsOf(o) /\ Allocation(o)' = Allocation(o)
  BY <1>2 DEF HoldsOf, Allocation, SameHolds
<1>4. ASSUME NEW c
      PROVE  HoldsOn(c)' = HoldsOn(c)
  BY <1>2 DEF HoldsOn, SameHolds
<1> QED BY <1>1, <1>3, <1>4

\* What is said of reservations alone holds after such a step.
LEMMA StandingHolds ==
  ASSUME GiftAssumption, GiftInv, SameHolds, OrdersKept, SoldKept(cert, cert'), ReservedKept(cert, cert')
  PROVE  /\ HoldsKnown' /\ OneOpen' /\ OneTaken' /\ NoInvoiceYet'
         /\ HoldsAreReserved' /\ OrderTotalIsHeld'
         /\ QuotesFall => Quoted'
<1>1. /\ Amounts' = Amounts
      /\ \A o : HoldsOf(o)' = HoldsOf(o) /\ Allocation(o)' = Allocation(o)
      /\ \A c : HoldsOn(c)' = HoldsOn(c)
  BY SameSets
<1>2. HoldsKnown'
  <2> SUFFICES ASSUME NEW h \in Holds, hold'[h].status # None
               PROVE  /\ hold'[h].cert \in Certs /\ ~Unsold(cert'[hold'[h].cert])
                      /\ hold'[h].order \in Orders
                      /\ hold'[h].amt > 0 /\ hold'[h].paid <= hold'[h].amt
                      /\ hold'[h].status = "Consumed" => order'[hold'[h].order].invoice # None
    BY DEF HoldsKnown, Unsold
  <2>1. hold[h].status # None
    BY NoneIsNoStatus DEF SameHolds
  <2>2. /\ hold[h].cert \in Certs /\ ~Unsold(cert[hold[h].cert]) /\ hold[h].order \in Orders
        /\ hold[h].amt > 0 /\ hold[h].paid <= hold[h].amt
        /\ hold[h].status = "Consumed" => order[hold[h].order].invoice # None
    BY <2>1 DEF GiftInv, HoldsKnown
  <2>3. hold'[h].status = "Consumed" => hold[h].status = "Consumed"
    BY NoneIsNoStatus DEF SameHolds
  <2>4. ~Unsold(cert'[hold[h].cert])
    BY <2>2 DEF SoldKept
  <2> QED BY <2>2, <2>3, <2>4 DEF SameHolds, OrdersKept
<1>3. OneOpen' /\ OneTaken'
  BY <1>1 DEF OneOpen, OneTaken, GiftInv
<1>4. NoInvoiceYet'
  BY DEF NoInvoiceYet, GiftInv, OrdersKept
<1>5. HoldsAreReserved'
  BY <1>1 DEF HoldsAreReserved, GiftInv, ReservedKept
<1>6. OrderTotalIsHeld'
  BY <1>1 DEF OrderTotalIsHeld, GiftInv, OrdersKept, HeldFor
<1>7. QuotesFall => Quoted'
  BY <1>1 DEF Quoted, GiftInv, QuotesFall
<1> QED BY <1>2, <1>3, <1>4, <1>5, <1>6, <1>7

\* An invoice stays.
InvoicesStay == \A o \in Orders : order[o].invoice # None => order'[o].invoice = order[o].invoice

\* What is said of returns holds after a step that leaves returns and reservations alone.
LEMMA StandingBacks ==
  ASSUME GiftAssumption, GiftInv, SameHolds, OrdersKept, SoldKept(cert, cert'), back' = back
  PROVE  BacksKnown' /\ RestoredExactly'
<1>1. BacksKnown'
  <2> SUFFICES ASSUME NEW t \in Returns
               PROVE  /\ back[t].status # None => back[t].order \in Orders
                                          /\ order'[back[t].order].invoice # None /\ back[t].qty > 0
                      /\ back[t].status \notin {"posted", "cancelled"} => back[t].amt = 0 /\ back[t].paid = 0
                      /\ back[t].amt > 0 => back[t].to \in Certs /\ ~Unsold(cert'[back[t].to])
    BY DEF BacksKnown, Unsold
  <2>1. /\ back[t].status # None => back[t].order \in Orders
                                      /\ order[back[t].order].invoice # None /\ back[t].qty > 0
        /\ back[t].status \notin {"posted", "cancelled"} => back[t].amt = 0 /\ back[t].paid = 0
        /\ back[t].amt > 0 => back[t].to \in Certs /\ ~Unsold(cert[back[t].to])
    BY DEF GiftInv, BacksKnown
  <2> QED BY <2>1 DEF OrdersKept, SoldKept
<1>2. RestoredExactly'
  <2>1. \A o : Prior(o)' = Prior(o) /\ Allocation(o)' = Allocation(o)
    BY SameSets DEF Prior, Units, Restored, RestoredPaid, Rows, RestoredBy
  <2>2. \A o : \A h \in Allocation(o) : hold'[h].amt = hold[h].amt /\ hold'[h].paid = hold[h].paid
    BY DEF Allocation, SameHolds
  <2> QED BY <2>1, <2>2 DEF GiftInv, RestoredExactly
<1> QED BY <1>1, <1>2

\* The terms of ValueAddsUp are integers.
LEMMA TermsInt ==
  ASSUME GiftAssumption, GiftInv
  PROVE  /\ SumOver(Balances, Certs) \in Int /\ SumOver(Amounts, Billed) \in Int
         /\ SumOver(Restored, Returned) \in Int /\ books.in \in Int /\ books.out \in Int
         /\ IsFiniteSet(Holds) /\ IsFiniteSet(Returns) /\ Ints(Restored, Returns)
<1>1. IsFiniteSet(Holds) /\ IsFiniteSet(Returns)
  BY DEF GiftAssumption
<1>2. SumOver(Balances, Certs) \in Int
  BY BalancesInt DEF GiftInv, CertsOK, Balances, BalancesOf
<1>3. Ints(Amounts, Holds) /\ Billed \in SUBSET Holds
  BY AmountsNat DEF GiftInv, Billed
<1>4. Ints(Restored, Returns) /\ Returned \in SUBSET Returns
  BY DEF GiftInv, Typed, BackType, Ints, Restored, Returned
<1>5. IsFiniteSet(Billed) /\ IsFiniteSet(Returned) /\ Ints(Amounts, Billed) /\ Ints(Restored, Returned)
  BY <1>1, <1>3, <1>4, FS_Subset DEF Ints
<1>6. SumOver(Amounts, Billed) \in Int /\ SumOver(Restored, Returned) \in Int
  BY <1>5, SumInt
<1>7. books.in \in Int /\ books.out \in Int
  BY DEF GiftInv, Typed
<1> QED BY <1>1, <1>2, <1>4, <1>6, <1>7

\* What certificates gain is what comes in less what goes out.
LEMMA StandingValue ==
  ASSUME GiftAssumption, GiftInv, Typed', SameHolds, InvoicesStay, back' = back,
         TotalMoves(cert, cert', (books'.in - books.in) - (books'.out - books.out))
  PROVE  ValueAddsUp'
<1>1. Amounts' = Amounts
  BY SameSets
<1>2. Billed' = Billed
  <2>1. \A h \in Holds : hold'[h].status = "Consumed" <=> hold[h].status = "Consumed"
    BY NoneIsNoStatus DEF SameHolds
  <2>2. \A h \in Holds : hold[h].status = "Consumed" =>
                            order'[hold'[h].order].invoice = order[hold[h].order].invoice
    BY NoneIsNoStatus DEF GiftInv, HoldsKnown, SameHolds, InvoicesStay
  <2> QED BY <2>1, <2>2 DEF Billed
<1>3. SumOver(Restored, Returned)' = SumOver(Restored, Returned)
  BY DEF Restored, Returned
<1>4. SumOver(Balances, Certs)'
        = SumOver(Balances, Certs) + ((books'.in - books.in) - (books'.out - books.out))
  BY DEF TotalMoves, Balances, BalancesOf
<1>5. books'.in \in Int /\ books'.out \in Int
  BY DEF Typed
<1>6. SumOver(Amounts, Billed)' = SumOver(Amounts, Billed)
  BY <1>1, <1>2
<1>7. SumOver(Balances, Certs) + SumOver(Amounts, Billed) + books.out
        = books.in + SumOver(Restored, Returned)
  BY DEF GiftInv, ValueAddsUp
<1>8. SumOver(Balances, Certs)' + SumOver(Amounts, Billed)' + books'.out
        = books'.in + SumOver(Restored, Returned)'
  BY <1>3, <1>4, <1>5, <1>6, <1>7, TermsInt
<1> QED BY <1>8 DEF ValueAddsUp

\* A step that changes certificates only: value may come in or go out.
LEMMA StandingStep ==
  ASSUME GiftAssumption, GiftInv, Typed', SameHolds, InvoicesStay, OrdersKept, back' = back,
         CertsOK(cert'), SoldKept(cert, cert'), ReservedKept(cert, cert'),
         TotalMoves(cert, cert', (books'.in - books.in) - (books'.out - books.out)), Quoted'
  PROVE  GiftInv'
BY StandingHolds, StandingBacks, StandingValue DEF GiftInv

\* Certificates that are left alone.
LEMMA CertsStand ==
  ASSUME GiftAssumption, GiftInv, cert' = cert
  PROVE  /\ CertsOK(cert') /\ SoldKept(cert, cert') /\ ReservedKept(cert, cert')
         /\ TotalMoves(cert, cert', 0)
<1>1. SumOver(BalancesOf(cert), Certs) \in Int
  BY BalancesInt DEF GiftInv, CertsOK
<1> QED BY <1>1 DEF GiftInv, SoldKept, ReservedKept, TotalMoves

\* Books that are left alone see nothing come in or go out.
LEMMA BooksStand ==
  ASSUME GiftInv, books' = books
  PROVE  (books'.in - books.in) - (books'.out - books.out) = 0
BY DEF GiftInv, Typed

\* A step that moves no value at all.
LEMMA QuietStep ==
  ASSUME GiftAssumption, GiftInv, Typed', SameHolds, InvoicesStay, OrdersKept,
         cert' = cert, back' = back, books' = books, QuotesFall
  PROVE  GiftInv'
<1>1. Quoted'
  BY CertsStand, StandingHolds
<1> QED BY <1>1, CertsStand, BooksStand, StandingStep

-----------------------------------------------------------------------------
(* Selling, quoting, and the validity of a certificate.                    *)

\* What comes in and what goes out.
LEMMA BooksIn ==
  ASSUME NEW b \in [in : Int, out : Int], NEW n \in Int, NEW d, d = [b EXCEPT !.in = n]
  PROVE  d \in [in : Int, out : Int] /\ d.in = n /\ d.out = b.out /\ b.in \in Int /\ b.out \in Int
OBVIOUS

\* What goes out is booked, and nothing else is.
LEMMA BooksOut ==
  ASSUME NEW b \in [in : Int, out : Int], NEW n \in Int, NEW d, d = [b EXCEPT !.out = n]
  PROVE  d \in [in : Int, out : Int] /\ d.out = n /\ d.in = b.in /\ b.in \in Int /\ b.out \in Int
OBVIOUS

\* A certificate with the components of a sound one is sound.
LEMMA SoundAs ==
  ASSUME NEW c, NEW d, Sound(c), d.paid = c.paid, d.promo = c.promo, d.reserved = c.reserved
  PROVE  Sound(d) /\ Balance(d) = Balance(c)
BY DEF Sound, Balance

\* One certificate changes, by what comes in or goes out.
LEMMA OneCertStep ==
  ASSUME GiftAssumption, GiftInv, NEW c \in Certs, NEW y \in CertType,
         Sound(y), Unsold(y) => Unsold(cert[c]) /\ Empty(y),
         y.status # "Replaced", cert[c].status # "Replaced", y.reserved = cert[c].reserved,
         cert' = [cert EXCEPT ![c] = y],
         books' \in [in : Int, out : Int],
         Balance(y) - Balance(cert[c]) = (books'.in - books.in) - (books'.out - books.out),
         UNCHANGED <<hold, order, request, back>>, QuotesFall
  PROVE  GiftInv'
<1>1. /\ CertsOK(cert') /\ SoldKept(cert, cert') /\ ReservedKept(cert, cert')
      /\ TotalMoves(cert, cert', Balance(y) - Balance(cert[c]))
  BY ChangeOne DEF GiftInv
<1>2. TotalMoves(cert, cert', (books'.in - books.in) - (books'.out - books.out))
  BY <1>1
<1>3. Typed'
  BY DEF GiftInv, Typed
<1>4. SameHolds /\ InvoicesStay
  BY DEF SameHolds, InvoicesStay
<1>5. OrdersKept
  BY DEF OrdersKept
<1>6. Quoted'
  BY <1>1, <1>4, <1>5, StandingHolds
<1> QED BY <1>1, <1>2, <1>3, <1>4, <1>5, <1>6, StandingStep

\* One certificate changes, but not its balance.
LEMMA NoMoneyStep ==
  ASSUME GiftAssumption, GiftInv, NEW c \in Certs, NEW y \in CertType,
         Unsold(y) => Unsold(cert[c]), y.status # "Replaced", cert[c].status # "Replaced",
         y.paid = cert[c].paid, y.promo = cert[c].promo, y.reserved = cert[c].reserved,
         cert' = [cert EXCEPT ![c] = y],
         UNCHANGED <<hold, order, request, back, books>>, QuotesFall
  PROVE  GiftInv'
<1>1. cert[c] \in CertType /\ Sound(cert[c]) /\ (Unsold(cert[c]) => Empty(cert[c]))
  BY DEF GiftInv, CertsOK
<1>2. Balance(y) = Balance(cert[c])
  BY DEF Balance
<1>3. Sound(y)
  BY <1>1, <1>2 DEF Sound
<1>4. Unsold(y) => Unsold(cert[c]) /\ Empty(y)
  BY <1>1, <1>2 DEF Empty
<1>5. Balance(cert[c]) \in Int
  BY <1>1, ComponentsInt
<1>6. Balance(y) - Balance(cert[c]) = (books'.in - books.in) - (books'.out - books.out)
  BY <1>2, <1>5, BooksStand
<1>7. books' \in [in : Int, out : Int]
  BY DEF GiftInv, Typed
<1> QED BY <1>3, <1>4, <1>6, <1>7, OneCertStep

\* A certificate is offered, taken to the till, or put back.
LEMMA SaleKeeps ==
  ASSUME GiftAssumption, GiftInv, NEW c \in Originals,
         AddSaleRow(c) \/ PrepareSale(c) \/ ReleasePendingSale(c)
  PROVE  GiftInv'
<1>1. PICK s \in {"Issued", "Reserved For Sale", "Payment Pending"} :
         /\ cert[c].status \in {"Issued", "Reserved For Sale", "Payment Pending"}
         /\ cert' = [cert EXCEPT ![c].status = s]
         /\ UNCHANGED <<hold, order, quote, request, back, sweep, books>>
  BY DEF AddSaleRow, PrepareSale, ReleasePendingSale
<1>2. c \in Certs /\ cert[c] \in CertType /\ cert \in [Certs -> CertType]
  BY DEF Certs, GiftInv, CertsOK
<1>3. PICK y : y = [cert[c] EXCEPT !.status = s]
  OBVIOUS
<1>4. /\ y \in CertType /\ y.status = s /\ y.paid = cert[c].paid /\ y.promo = cert[c].promo
      /\ y.reserved = cert[c].reserved
  BY <1>1, <1>2, <1>3 DEF CertType, CertStatus
<1>5. cert' = [cert EXCEPT ![c] = y]
  BY <1>1, <1>3
<1>6. Unsold(cert[c]) /\ y.status # "Replaced" /\ cert[c].status # "Replaced"
  BY <1>1, <1>4 DEF Unsold
<1>7. QuotesFall
  BY <1>1, QuotesStand
<1> QED BY <1>1, <1>2, <1>4, <1>5, <1>6, <1>7, NoMoneyStep

\* What the buyer paid for, and what was granted, come in with the activation.
LEMMA ActivateKeeps ==
  ASSUME GiftAssumption, GiftInv, NEW c \in Originals, ActivateCertificate(c)
  PROVE  GiftInv'
<1>1. c \in Certs /\ cert[c] \in CertType /\ cert \in [Certs -> CertType]
  BY DEF Certs, GiftInv, CertsOK
<1>2. Paid \in Nat /\ Promo \in Nat
  BY DEF GiftAssumption
<1>3. PICK n : n = Entry(Entry(cert[c], "Activate", Paid, 0, 0), "Activate", 0, Promo, 0)
  OBVIOUS
<1>4. Adds(n, cert[c], Paid, Promo, 0)
  BY <1>1, <1>2, <1>3, EntriesFacts
<1>5. PICK y : y = [n EXCEPT !.status = "Active"]
  OBVIOUS
<1>6. /\ cert[c].status = "Payment Pending" /\ Sound(n) /\ cert' = [cert EXCEPT ![c] = y]
      /\ books' = [books EXCEPT !.in = @ + Paid + Promo]
      /\ UNCHANGED <<hold, order, quote, request, back, sweep>>
  BY <1>3, <1>5 DEF ActivateCertificate
<1>7. cert[c].paid \in Int /\ cert[c].promo \in Int /\ cert[c].reserved \in Int
  BY <1>1, ComponentsInt
<1>8. /\ y \in CertType /\ y.status = "Active" /\ y.paid = n.paid /\ y.promo = n.promo
      /\ y.reserved = n.reserved
  BY <1>4, <1>5 DEF Adds, CertType, CertStatus
<1>9. Sound(y) /\ Balance(y) - Balance(cert[c]) = Paid + Promo /\ y.reserved = cert[c].reserved
  <2>1. Sound(y) /\ Balance(y) = Balance(n)
    BY <1>6, <1>8, SoundAs
  <2>2. n.paid = cert[c].paid + Paid /\ n.promo = cert[c].promo + Promo /\ n.reserved = cert[c].reserved
    BY <1>4, <1>7 DEF Adds
  <2>3. Balance(n) - Balance(cert[c]) = Paid + Promo
    BY <1>2, <1>7, <2>2 DEF Balance
  <2> QED BY <1>8, <2>1, <2>2, <2>3
<1>10. ~Unsold(y)
  BY <1>8 DEF Unsold, GiftAssumption, Statuses
<1>11. /\ books' \in [in : Int, out : Int]
       /\ (books'.in - books.in) - (books'.out - books.out) = Paid + Promo
  <2>1. books \in [in : Int, out : Int] /\ books.in \in Int
    BY DEF GiftInv, Typed
  <2>2. PICK n1 \in Int : n1 = books.in + Paid + Promo
    BY <1>2, <2>1
  <2>3. books' = [books EXCEPT !.in = n1]
    BY <1>6, <2>2
  <2>4. /\ books' \in [in : Int, out : Int] /\ books'.in = n1 /\ books'.out = books.out
        /\ books.out \in Int
    BY <2>1, <2>3, BooksIn
  <2> QED BY <1>2, <2>1, <2>2, <2>4
<1>12. QuotesFall
  BY <1>6, QuotesStand
<1>13. y.status # "Replaced" /\ cert[c].status # "Replaced"
  BY <1>6, <1>8
<1> QED BY <1>1, <1>6, <1>8, <1>9, <1>10, <1>11, <1>12, <1>13, OneCertStep

\* The end of a certificate's validity changes only that it is due.
LEMMA ValidityKeeps ==
  ASSUME GiftAssumption, GiftInv, NEW c \in Certs, ValidityEnds(c)
  PROVE  GiftInv'
<1>1. cert[c] \in CertType /\ cert \in [Certs -> CertType]
  BY DEF GiftInv, CertsOK
<1>2. PICK y : y = [cert[c] EXCEPT !.due = TRUE]
  OBVIOUS
<1>3. /\ y \in CertType /\ y.status = cert[c].status /\ y.paid = cert[c].paid
      /\ y.promo = cert[c].promo /\ y.reserved = cert[c].reserved
  BY <1>1, <1>2 DEF CertType
<1>4. /\ cert[c].status \in {"Active", "Partially Redeemed"} /\ cert' = [cert EXCEPT ![c] = y]
      /\ UNCHANGED <<hold, order, quote, request, back, sweep, books>>
  BY <1>2 DEF ValidityEnds
<1>5. Unsold(y) => Unsold(cert[c])
  BY <1>3 DEF Unsold
<1>6. QuotesFall
  BY <1>4, QuotesStand
<1>7. y.status # "Replaced" /\ cert[c].status # "Replaced"
  BY <1>3, <1>4
<1> QED BY <1>3, <1>4, <1>5, <1>6, <1>7, NoMoneyStep

\* Quotes for some orders, or of some certificates, are dropped, the others kept.
LEMMA DropFacts ==
  ASSUME NEW os, NEW cs, Drop(os, cs)
  PROVE  QuotesFall /\ \A o \in os \cap Orders : quote'[o] = None
BY DEF Drop, QuotesFall

\* An expired certificate held nothing: what was left of it goes out.
LEMMA ExpireKeeps ==
  ASSUME GiftAssumption, GiftInv, NEW c \in Certs, ExpireCertificate(c)
  PROVE  GiftInv'
<1>1. cert[c] \in CertType /\ cert \in [Certs -> CertType] /\ Sound(cert[c])
  BY DEF GiftInv, CertsOK
<1>2. QuotesFall
  BY DropFacts DEF ExpireCertificate
<1>3. /\ cert[c].status \in {"Active", "Partially Redeemed"} /\ cert[c].reserved = 0
      /\ UNCHANGED <<hold, order, request, back, sweep>>
      /\ books' = [books EXCEPT !.out = @ + IF Breakage THEN Balance(cert[c]) ELSE 0]
  BY DEF ExpireCertificate
<1>4. /\ cert[c].paid \in Int /\ cert[c].promo \in Int /\ cert[c].reserved \in Int
      /\ Balance(cert[c]) \in Int
  BY <1>1, ComponentsInt
<1>5. books \in [in : Int, out : Int]
  BY DEF GiftInv, Typed
<1>6. CASE Breakage
  <2>1. PICK n : n = Entry(Entry(cert[c], "Expire", -cert[c].paid, 0, 0), "Expire", 0, -cert[c].promo, 0)
    OBVIOUS
  <2>2. -cert[c].paid \in Int /\ -cert[c].promo \in Int
    BY <1>4
  <2>3. Adds(n, cert[c], -cert[c].paid, -cert[c].promo, 0)
    BY <1>1, <2>1, <2>2, EntriesFacts
  <2>4. n \in CertType /\ n.paid = 0 /\ n.promo = 0 /\ n.reserved = cert[c].reserved
    BY <1>4, <2>3 DEF Adds
  <2>5. PICK y : y = [n EXCEPT !.status = "Expired"]
    OBVIOUS
  <2>6. /\ y \in CertType /\ y.status = "Expired" /\ y.paid = 0 /\ y.promo = 0
        /\ y.reserved = cert[c].reserved
    BY <2>4, <2>5 DEF CertType, CertStatus
  <2>7. cert' = [cert EXCEPT ![c] = y]
    BY <1>6, <2>1, <2>5 DEF ExpireCertificate
  <2>8. Sound(y) /\ Balance(y) = 0
    <3>1. Balance(y) = 0
      BY <2>6 DEF Balance
    <3>2. y.reserved = 0
      BY <1>3, <2>6
    <3>3. y.paid >= 0 /\ y.promo >= 0 /\ y.reserved \in 0..Balance(y)
      BY <2>6, <3>1, <3>2
    <3> QED BY <3>1, <3>3 DEF Sound
  <2>9. ~Unsold(y)
    BY <2>6 DEF Unsold, GiftAssumption, Statuses
  <2>10. /\ books' \in [in : Int, out : Int]
         /\ Balance(y) - Balance(cert[c]) = (books'.in - books.in) - (books'.out - books.out)
    <3>1. PICK n1 \in Int : n1 = books.out + Balance(cert[c])
      BY <1>4, <1>5
    <3>2. books' = [books EXCEPT !.out = n1]
      BY <1>3, <1>6, <3>1
    <3>3. /\ books' \in [in : Int, out : Int] /\ books'.out = n1 /\ books'.in = books.in
          /\ books.out \in Int /\ books.in \in Int
      BY <1>5, <3>2, BooksOut
    <3> QED BY <1>4, <2>8, <3>1, <3>3
  <2> QED BY <1>2, <1>3, <2>6, <2>7, <2>8, <2>9, <2>10, OneCertStep
<1>7. CASE ~Breakage
  <2>1. PICK y : y = [cert[c] EXCEPT !.status = "Expired"]
    OBVIOUS
  <2>2. /\ y \in CertType /\ y.status = "Expired" /\ y.paid = cert[c].paid
        /\ y.promo = cert[c].promo /\ y.reserved = cert[c].reserved
    BY <1>1, <2>1 DEF CertType, CertStatus
  <2>3. cert' = [cert EXCEPT ![c] = y]
    BY <1>7, <2>1 DEF ExpireCertificate
  <2>4. ~Unsold(y)
    BY <2>2 DEF Unsold, GiftAssumption, Statuses
  <2>5. books' = books
    <3>1. books' = [books EXCEPT !.out = books.out + 0]
      BY <1>3, <1>7
    <3>2. books.out \in Int /\ books.out + 0 = books.out
      BY <1>5
    <3>3. [books EXCEPT !.out = books.out] = books
      BY <1>5
    <3> QED BY <3>1, <3>2, <3>3
  <2> QED BY <1>2, <1>3, <2>2, <2>3, <2>4, <2>5, NoMoneyStep
<1> QED BY <1>6, <1>7

-----------------------------------------------------------------------------
(* Rounding, and shares of an amount.                                      *)

\* The smaller of two numbers is one of them and bounds both.
LEMMA MinOfTwo ==
  ASSUME NEW a \in Int, NEW b \in Int
  PROVE  Min({a, b}) \in {a, b} /\ Min({a, b}) <= a /\ Min({a, b}) <= b
<1>1. \E x \in {a, b} : \A y \in {a, b} : x <= y
  <2>1. CASE a <= b
    BY <2>1
  <2>2. CASE ~(a <= b)
    <3>1. b <= a
      BY <2>2
    <3> QED BY <3>1
  <2> QED BY <2>1, <2>2
<1> QED BY <1>1 DEF Min

\* So is the smallest of three.
LEMMA MinOfThree ==
  ASSUME NEW a \in Int, NEW b \in Int, NEW c \in Int
  PROVE  /\ Min({a, b, c}) \in {a, b, c}
         /\ Min({a, b, c}) <= a /\ Min({a, b, c}) <= b /\ Min({a, b, c}) <= c
<1>1. \E x \in {a, b, c} : \A y \in {a, b, c} : x <= y
  <2>1. CASE a <= b /\ a <= c
    BY <2>1
  <2>2. CASE b <= a /\ b <= c
    BY <2>2
  <2>3. CASE c <= a /\ c <= b
    BY <2>3
  <2> QED BY <2>1, <2>2, <2>3
<1> QED BY <1>1 DEF Min

\* A rounded quotient of naturals is natural.
LEMMA RoundNat ==
  ASSUME NEW a \in Nat, NEW b \in Nat \ {0}
  PROVE  Round(a, b) \in Nat
<1>1. PICK n \in Nat : n = 2 * a + b
  OBVIOUS
<1>2. PICK d \in Nat \ {0} : d = 2 * b
  OBVIOUS
<1>3. n \div d \in Nat
  BY SMT
<1> QED BY <1>1, <1>2, <1>3 DEF Round

\* A product of naturals is natural (a step of its own: it is not linear).
LEMMA ProductNat == ASSUME NEW a \in Nat, NEW b \in Nat PROVE a * b \in Nat
OBVIOUS

\* What an order takes of the paid part is no more than it takes.
LEMMA PaidPartFits ==
  ASSUME NEW c \in CertType, Sound(c), NEW a \in Nat, a > 0, a <= Balance(c)
  PROVE  PaidPart(c, a) \in Nat /\ PaidPart(c, a) <= a
<1>1. c.paid \in Nat /\ c.promo \in Nat /\ Balance(c) \in Nat \ {0}
  <2>1. c.paid \in Int /\ c.promo \in Int /\ c.paid >= 0 /\ c.promo >= 0
    BY ComponentsInt DEF Sound
  <2> QED BY <2>1 DEF Balance
<1>2. PICK r \in Nat : r = Round(a * c.paid, Balance(c))
  BY <1>1, ProductNat, RoundNat
<1>3. PICK s : s = Min({r, c.paid, a})
  OBVIOUS
<1>4. s \in Nat /\ s <= a
  <2>1. r \in Int /\ c.paid \in Int /\ a \in Int
    BY <1>1
  <2>2. s \in {r, c.paid, a} /\ s <= a
    BY <2>1, <1>3, MinOfThree
  <2> QED BY <1>1, <2>2
<1>5. PaidPart(c, a) = IF a - s > c.promo THEN a - c.promo ELSE s
  BY <1>2, <1>3 DEF PaidPart
<1>6. CASE a - s > c.promo
  BY <1>1, <1>4, <1>5, <1>6
<1>7. CASE ~(a - s > c.promo)
  BY <1>4, <1>5, <1>7
<1> QED BY <1>6, <1>7

-----------------------------------------------------------------------------
(* Quotes, and the commits of a checkout that move no value.               *)

\* A quote is for a certificate of the desk, of no more than it has.
LEMMA QuoteKeeps ==
  ASSUME GiftAssumption, GiftInv, NEW o \in Orders, NEW c \in Certs, NEW a \in 1..Price,
         QuoteRedemption(o, c, a)
  PROVE  GiftInv'
<1>1. cert[c] \in CertType /\ Sound(cert[c])
  BY DEF GiftInv, CertsOK
<1>2. PICK q : q = [cert |-> c, amt |-> a, paid |-> PaidPart(cert[c], a),
                    forfeit |-> IF cert[c].single THEN Balance(cert[c]) - a ELSE 0]
  OBVIOUS
<1>3. /\ HoldsOf(o) = {} /\ quote' = [quote EXCEPT ![o] = q] /\ a \in 1..Min({Price, Available(cert[c])})
      /\ cert[c].status \in {"Active", "Partially Redeemed"}
      /\ UNCHANGED <<cert, hold, order, request, back, sweep, books>>
  BY <1>2 DEF QuoteRedemption
<1>4. /\ cert[c].paid \in Int /\ cert[c].promo \in Int /\ cert[c].reserved \in Int
      /\ Balance(cert[c]) \in Int
  BY <1>1, ComponentsInt
<1>5. Available(cert[c]) = Balance(cert[c]) - cert[c].reserved
  BY <1>3 DEF Available, Void
<1>6. Price \in Int
  BY DEF GiftAssumption
<1>7. PICK v \in Int : v = Available(cert[c])
  BY <1>4, <1>5
<1>8. Min({Price, v}) \in Int /\ Min({Price, v}) <= v
  BY <1>6, <1>7, MinOfTwo
<1>9. a \in Nat /\ a > 0 /\ a <= v
  <2>1. a \in 1..Min({Price, v})
    BY <1>3, <1>7
  <2> QED BY <1>8, <2>1
<1>10. cert[c].reserved >= 0
  BY <1>1, <1>4 DEF Sound
<1>11. a <= Balance(cert[c])
  BY <1>4, <1>5, <1>7, <1>9, <1>10
<1>12. PaidPart(cert[c], a) \in Nat /\ PaidPart(cert[c], a) <= a
  BY <1>1, <1>9, <1>11, PaidPartFits
<1>13. PICK f \in Nat : f = IF cert[c].single THEN Balance(cert[c]) - a ELSE 0
  BY <1>4, <1>9, <1>11
<1>14. q \in QuoteType /\ q.amt > 0 /\ q.paid <= q.amt
  BY <1>2, <1>9, <1>12, <1>13 DEF QuoteType
<1>15. DOMAIN quote' = Orders /\ quote'[o] = q /\ \A p \in Orders : p # o => quote'[p] = quote[p]
  BY <1>3 DEF GiftInv, Quoted
<1>16. Quoted'
  <2> SUFFICES ASSUME NEW p \in Orders, quote'[p] # None
               PROVE  /\ quote'[p] \in QuoteType /\ quote'[p].amt > 0 /\ quote'[p].paid <= quote'[p].amt
                      /\ HoldsOf(p) = {}
    BY <1>3, <1>15 DEF Quoted, HoldsOf
  <2>1. CASE p = o /\ quote'[p] = q
    BY <1>3, <1>14, <2>1
  <2>2. CASE quote'[p] = quote[p]
    BY <2>2 DEF GiftInv, Quoted
  <2>3. CASE p = o
    BY <1>15, <2>1, <2>3
  <2>4. CASE p # o
    BY <1>15, <2>2, <2>4
  <2> QED BY <2>3, <2>4
<1>17. Typed' /\ SameHolds /\ InvoicesStay /\ OrdersKept
  BY <1>3 DEF GiftInv, Typed, SameHolds, InvoicesStay, OrdersKept
<1> QED BY <1>3, <1>16, <1>17, CertsStand, BooksStand, StandingStep

Requested(r) == /\ r \in [Requests -> RequestType]
                /\ \A q \in Requests : r[q].at # "idle" => r[q].order \in Orders

\* The requests that become outdated remain requests of the same orders.
LEMMA OutdateTyped ==
  ASSUME GiftInv, NEW o, NEW me, Outdate(o, me)
  PROVE  Requested(request')
<1>1. /\ request \in [Requests -> RequestType]
      /\ \A q \in Requests : request[q].at # "idle" => request[q].order \in Orders
  BY DEF GiftInv, Typed
<1>2. DOMAIN request' = Requests
  BY DEF Outdate
<1>3. ASSUME NEW q \in Requests
      PROVE  request'[q] \in RequestType /\ (request'[q].at # "idle" => request'[q].order \in Orders)
  <2>1. CASE q # me /\ request[q].order = o /\ request[q].at = "waiting"
    <3>1. request'[q] = [request[q] EXCEPT !.fresh = FALSE]
      BY <2>1 DEF Outdate
    <3>2. request[q] \in RequestType /\ request[q].order \in Orders
      BY <1>1, <2>1
    <3>3. request'[q] \in RequestType /\ request'[q].order = request[q].order
      BY <3>1, <3>2 DEF RequestType
    <3> QED BY <3>2, <3>3
  <2>2. CASE q = me
    <3>1. request'[q] = [request[q] EXCEPT !.at = "idle", !.order = None, !.rows = {}, !.fresh = TRUE]
      BY <2>2 DEF Outdate
    <3>2. request[q] \in RequestType
      BY <1>1
    <3>3. request'[q] \in RequestType /\ request'[q].at = "idle"
      BY <3>1, <3>2 DEF RequestType
    <3> QED BY <3>3
  <2>3. CASE q # me /\ ~(request[q].order = o /\ request[q].at = "waiting")
    <3>1. request'[q] = request[q]
      BY <2>3 DEF Outdate
    <3> QED BY <1>1, <3>1
  <2> QED BY <2>1, <2>2, <2>3
<1>4. request' = [q \in Requests |-> request'[q]]
  BY <1>2 DEF Outdate
<1> QED BY <1>3, <1>4 DEF Requested

\* A checkout that commits again: another's copy of the order is out of date.
LEMMA CommitTyped ==
  ASSUME GiftInv, NEW o \in Orders, NEW q \in Requests, NEW r \in RequestType, r.order \in Orders,
         request' = [p \in Requests |->
                       IF p = q THEN r
                       ELSE IF request[p].order = o /\ request[p].at = "waiting"
                         THEN [request[p] EXCEPT !.fresh = FALSE] ELSE request[p]]
  PROVE  Requested(request')
<1>1. /\ request \in [Requests -> RequestType]
      /\ \A p \in Requests : request[p].at # "idle" => request[p].order \in Orders
  BY DEF GiftInv, Typed
<1>2. ASSUME NEW p \in Requests
      PROVE  request'[p] \in RequestType /\ (request'[p].at # "idle" => request'[p].order \in Orders)
  <2>1. CASE p = q
    BY <2>1
  <2>2. CASE p # q /\ request[p].order = o /\ request[p].at = "waiting"
    <3>1. request'[p] = [request[p] EXCEPT !.fresh = FALSE]
      BY <2>2
    <3> QED BY <1>1, <3>1 DEF RequestType
  <2>3. CASE p # q /\ ~(request[p].order = o /\ request[p].at = "waiting")
    <3>1. request'[p] = request[p]
      BY <2>3
    <3> QED BY <1>1, <3>1
  <2> QED BY <2>1, <2>2, <2>3
<1>3. request' = [p \in Requests |-> request'[p]]
  OBVIOUS
<1> QED BY <1>2, <1>3 DEF Requested

\* Another status of one order, which is not that of an order being built.
LEMMA StatusOnly ==
  ASSUME GiftInv, NEW o \in Orders, NEW s \in {"Awaiting Payment", "Payment In Progress", "Payment Unknown",
                                               "Completed", "Cancelled"},
         order' = [order EXCEPT ![o].status = s]
  PROVE  order' \in [Orders -> OrderType] /\ InvoicesStay /\ OrdersKept
<1>1. order \in [Orders -> OrderType]
  BY DEF GiftInv, Typed
<1>2. PICK y : y = [order[o] EXCEPT !.status = s]
  OBVIOUS
<1>3. y \in OrderType /\ y.status = s /\ y.total = order[o].total /\ y.invoice = order[o].invoice
  BY <1>1, <1>2 DEF OrderType
<1>4. order' = [order EXCEPT ![o] = y]
  BY <1>2
<1>5. order' \in [Orders -> OrderType] /\ order'[o] = y /\ \A p \in Orders : p # o => order'[p] = order[p]
  BY <1>1, <1>3, <1>4
<1>6. InvoicesStay /\ OrdersKept
  BY <1>3, <1>5 DEF InvoicesStay, OrdersKept
<1> QED BY <1>5, <1>6

\* A reservation whose time is over is only marked so.
LEMMA OverdueKeeps ==
  ASSUME GiftAssumption, GiftInv, NEW h \in Holds, Overdue(h)
  PROVE  GiftInv'
<1>1. PICK y : y = [hold[h] EXCEPT !.late = TRUE]
  OBVIOUS
<1>2. hold \in [Holds -> HoldType]
  BY DEF GiftInv, Typed
<1>3. /\ y \in HoldType /\ y.cert = hold[h].cert /\ y.order = hold[h].order /\ y.amt = hold[h].amt
      /\ y.paid = hold[h].paid /\ y.status = hold[h].status
  BY <1>1, <1>2 DEF HoldType
<1>4. hold' = [hold EXCEPT ![h] = y] /\ UNCHANGED <<cert, order, quote, request, back, sweep, books>>
  BY <1>1 DEF Overdue
<1>5. hold' \in [Holds -> HoldType] /\ SameHolds
  BY <1>2, <1>3, <1>4 DEF SameHolds
<1>6. Typed'
  BY <1>4, <1>5 DEF GiftInv, Typed
<1>7. InvoicesStay /\ OrdersKept /\ QuotesFall
  BY <1>4, QuotesStand DEF InvoicesStay, OrdersKept
<1> QED BY <1>4, <1>5, <1>6, <1>7, QuietStep

\* The list of the job, or the end of a request, is nothing to the certificates.
LEMMA IdleKeeps ==
  ASSUME GiftAssumption, GiftInv, Requested(request'), UNCHANGED <<cert, hold, order, quote, back, books>>
  PROVE  GiftInv'
<1>1. Typed'
  BY DEF GiftInv, Typed, Requested
<1>2. SameHolds /\ InvoicesStay /\ OrdersKept /\ QuotesFall
  BY QuotesStand DEF SameHolds, InvoicesStay, OrdersKept
<1> QED BY <1>1, <1>2, QuietStep

\* The end of a request touches no certificate, reservation or order.
LEMMA EndKeeps ==
  ASSUME GiftAssumption, GiftInv, NEW q \in Requests, RequestEnds(q)
  PROVE  GiftInv'
<1>1. /\ request \in [Requests -> RequestType]
      /\ \A p \in Requests : request[p].at # "idle" => request[p].order \in Orders
  BY DEF GiftInv, Typed
<1>2. PICK r : r = [at |-> "idle", order |-> None, rows |-> {}, fresh |-> TRUE]
  OBVIOUS
<1>3. r \in RequestType /\ r.at = "idle"
  BY <1>2 DEF RequestType
<1>4. request' = [request EXCEPT ![q] = r]
  BY <1>2 DEF RequestEnds
<1>5. Requested(request')
  BY <1>1, <1>3, <1>4 DEF Requested
<1> QED BY <1>5, IdleKeeps DEF RequestEnds

\* The holds of an order become Consuming.
LEMMA PrepareKeeps ==
  ASSUME GiftAssumption, GiftInv, NEW q \in Requests, NEW o \in Orders, PrepareCheckout(q, o)
  PROVE  GiftInv'
<1>1. hold \in [Holds -> HoldType]
  BY DEF GiftInv, Typed
<1>2. ASSUME NEW h \in Holds
      PROVE  /\ hold'[h] \in HoldType
             /\ hold'[h].cert = hold[h].cert /\ hold'[h].order = hold[h].order
             /\ hold'[h].amt = hold[h].amt /\ hold'[h].paid = hold[h].paid
             /\ hold'[h].status = hold[h].status \/ (hold[h].status \in Open /\ hold'[h].status \in Open)
  <2>1. CASE h \in HoldsOf(o)
    <3>1. hold'[h] = [hold[h] EXCEPT !.status = "Consuming", !.late = FALSE]
      BY <2>1 DEF PrepareCheckout
    <3>2. hold[h].status \in Open
      BY <2>1 DEF HoldsOf
    <3> QED BY <1>1, <3>1, <3>2 DEF HoldType, Open
  <2>2. CASE h \notin HoldsOf(o)
    <3>1. hold'[h] = hold[h]
      BY <2>2 DEF PrepareCheckout
    <3> QED BY <1>1, <3>1
  <2> QED BY <2>1, <2>2
<1>3. hold' = [h \in Holds |-> hold'[h]]
  BY DEF PrepareCheckout
<1>4. hold' \in [Holds -> HoldType] /\ SameHolds
  BY <1>2, <1>3 DEF SameHolds
<1>5. PICK r : r = [at |-> "prepared", order |-> o, rows |-> HoldsOf(o), fresh |-> TRUE]
  OBVIOUS
<1>6. r \in RequestType /\ r.order \in Orders
  BY <1>5 DEF RequestType, HoldsOf
<1>7. Requested(request')
  <2>1. request' = [p \in Requests |->
                      IF p = q THEN r
                      ELSE IF request[p].order = o /\ request[p].at = "waiting"
                        THEN [request[p] EXCEPT !.fresh = FALSE] ELSE request[p]]
    BY <1>5 DEF PrepareCheckout
  <2> QED BY <1>6, <2>1, CommitTyped
<1>8. UNCHANGED <<cert, order, back, sweep, books>> /\ QuotesFall
  BY DropFacts DEF PrepareCheckout
<1>9. Typed'
  BY <1>4, <1>7, <1>8 DEF GiftInv, Typed, Requested
<1>10. InvoicesStay /\ OrdersKept
  BY <1>8 DEF InvoicesStay, OrdersKept
<1> QED BY <1>4, <1>8, <1>9, <1>10, QuietStep

\* The order is saved and nothing else of value changes.
LEMMA SavedKeeps ==
  ASSUME GiftAssumption, GiftInv, NEW o \in Orders,
         NEW s \in {"Awaiting Payment", "Payment In Progress", "Payment Unknown", "Completed", "Cancelled"},
         order' = [order EXCEPT ![o].status = s], Requested(request'), QuotesFall,
         UNCHANGED <<cert, hold, back, books>>
  PROVE  GiftInv'
<1>1. order' \in [Orders -> OrderType] /\ InvoicesStay /\ OrdersKept
  BY StatusOnly
<1>2. Typed'
  BY <1>1 DEF GiftInv, Typed, Requested
<1>3. SameHolds
  BY DEF SameHolds
<1> QED BY <1>1, <1>2, <1>3, QuietStep

\* The card payment that starts moves the status of its order alone.
LEMMA StartKeeps ==
  ASSUME GiftAssumption, GiftInv, NEW q \in Requests, StartCard(q)
  PROVE  GiftInv'
<1>1. PICK o \in Orders : o = request[q].order
  BY DEF StartCard, GiftInv, Typed
<1>2. PICK r : r = [request[q] EXCEPT !.at = "waiting", !.fresh = TRUE]
  OBVIOUS
<1>3. request[q] \in RequestType
  BY DEF GiftInv, Typed
<1>4. r \in RequestType /\ r.order = o
  BY <1>1, <1>2, <1>3 DEF RequestType
<1>5. Requested(request')
  <2>1. request' = [p \in Requests |->
                      IF p = q THEN r
                      ELSE IF request[p].order = o /\ request[p].at = "waiting"
                        THEN [request[p] EXCEPT !.fresh = FALSE] ELSE request[p]]
    BY <1>1, <1>2 DEF StartCard
  <2> QED BY <1>4, <2>1, CommitTyped
<1>6. order' = [order EXCEPT ![o].status = "Payment In Progress"] /\ QuotesFall
  BY <1>1, DropFacts DEF StartCard
<1> QED BY <1>5, <1>6, SavedKeeps DEF StartCard

\* So does the card payment whose outcome is unknown.
LEMMA UnknownKeeps ==
  ASSUME GiftAssumption, GiftInv, NEW q \in Requests, CardUnknown(q)
  PROVE  GiftInv'
<1>1. PICK o \in Orders : o = request[q].order
  BY DEF CardUnknown, GiftInv, Typed
<1>2. order' = [order EXCEPT ![o].status = "Payment Unknown"] /\ QuotesFall /\ Requested(request')
  BY <1>1, DropFacts, OutdateTyped DEF CardUnknown
<1> QED BY <1>1, <1>2, SavedKeeps DEF CardUnknown

-----------------------------------------------------------------------------
(* Steps that change one reservation.                                      *)

\* What a reservation holds back, and what a step makes of that.
Weight(h) == IF hold[h].status \in Open THEN hold[h].amt ELSE 0
Change(h) == Weight(h)' - Weight(h)

\* Reservation h, of certificate c for order o, is made, given back or consumed.
OneHold(h, c, o) ==
    /\ \A g \in Holds \ {h} : hold'[g] = hold[g]
    /\ \/ hold[h].status = None
       \/ hold[h].status \in Open /\ hold[h].cert = c /\ hold[h].order = o
    /\ hold'[h].cert = c /\ hold'[h].order = o
    /\ hold'[h].amt > 0 /\ hold'[h].paid <= hold'[h].amt
    /\ HoldsOf(o) \subseteq {h}
    /\ hold'[h].status = "Consumed" => order[o].invoice = None /\ order'[o].invoice = "posted"

\* No order but o changes, and an invoice stays.
OneOrder(o) ==
    \A p \in Orders :
        /\ p # o => order'[p] = order[p]
        /\ order[p].invoice # None => order'[p].invoice = order[p].invoice
        /\ order'[p].status = "Building" => order[p].status = "Building" /\ order'[p].invoice = order[p].invoice

Shifted(f, g, T, U, x) == SumOver(g, U) = SumOver(f, T) - (IF x \in T THEN f[x] ELSE 0)
                                                        + (IF x \in U THEN g[x] ELSE 0)
ShiftOf(h, T, U) == SumOver(Amounts', U) = SumOver(Amounts, T) - (IF h \in T THEN hold[h].amt ELSE 0)
                                                             + (IF h \in U THEN hold'[h].amt ELSE 0)

\* SumShift, with its conclusion under a name.
LEMMA ShiftFacts ==
  ASSUME NEW S, IsFiniteSet(S), NEW f, NEW g, Ints(f, S), Ints(g, S), NEW x,
         NEW T \in SUBSET S, NEW U \in SUBSET S, T \ {x} = U \ {x},
         \A y \in T \ {x} : f[y] = g[y]
  PROVE  Shifted(f, g, T, U, x)
BY SumShift DEF Shifted

\* A sum over a set of reservations changes by what h puts into it.
LEMMA HoldShift ==
  ASSUME GiftAssumption, GiftInv, Typed', NEW h \in Holds,
         \A g \in Holds \ {h} : hold'[g] = hold[g],
         NEW T \in SUBSET Holds, NEW U \in SUBSET Holds, T \ {h} = U \ {h}
  PROVE  ShiftOf(h, T, U)
<1>1. IsFiniteSet(Holds)
  BY DEF GiftAssumption
<1>2. Ints(Amounts, Holds)
  BY AmountsNat DEF GiftInv
<1> DEFINE A == Amounts
           B == Amounts'
<1>3. Ints(B, Holds)
  BY DEF Typed, HoldType, Ints, Amounts
<1>4. (\A g \in Holds \ {h} : A[g] = B[g]) /\ A[h] = hold[h].amt /\ B[h] = hold'[h].amt
  BY DEF Amounts
<1> HIDE DEF A, B
<1>5. \A g \in T \ {h} : A[g] = B[g]
  BY <1>4
<1>6. Ints(A, Holds)
  BY <1>2 DEF A
<1>7. Shifted(A, B, T, U, h)
  BY <1>1, <1>3, <1>5, <1>6, ShiftFacts
<1>8. SumOver(B, U) = SumOver(A, T) - (IF h \in T THEN A[h] ELSE 0) + (IF h \in U THEN B[h] ELSE 0)
  BY <1>7 DEF Shifted
<1>9. ShiftOf(h, T, U)
  BY <1>4, <1>8 DEF A, B, ShiftOf
<1> QED BY <1>9

\* Certificates and orders hold more or less by what the reservation does.
LEMMA HoldsMove ==
  ASSUME GiftAssumption, GiftInv, Typed', NEW h \in Holds, NEW c \in Certs, NEW o \in Orders,
         OneHold(h, c, o)
  PROVE  /\ \A d \in Certs : SumOver(Amounts, HoldsOn(d))'
                               = SumOver(Amounts, HoldsOn(d)) + (IF d = c THEN Change(h) ELSE 0)
         /\ \A p \in Orders : HeldFor(p)' = HeldFor(p) + (IF p = o THEN Change(h) ELSE 0)
         /\ \A p \in Orders : p # o => HoldsOf(p)' = HoldsOf(p)
         /\ HoldsOf(o)' \subseteq {h}
<1>0. \A g \in Holds \ {h} : hold'[g] = hold[g]
  BY DEF OneHold
<1>1. None \notin Open
  BY NoneIsNoStatus
<1>2. IsFiniteSet(Holds) /\ Ints(Amounts, Holds)
  BY AmountsNat DEF GiftInv, GiftAssumption
<1>3. \A T \in SUBSET Holds : SumOver(Amounts, T) \in Int
  <2> SUFFICES ASSUME NEW T \in SUBSET Holds PROVE SumOver(Amounts, T) \in Int
    OBVIOUS
  <2>1. IsFiniteSet(T) /\ Ints(Amounts, T)
    BY <1>2, FS_Subset DEF Ints
  <2> QED BY <2>1, SumInt
<1>4. hold[h].amt \in Int /\ hold'[h].amt \in Int
  BY DEF GiftInv, Typed, HoldType
<1>5. Weight(h) = (IF hold[h].status \in Open THEN hold[h].amt ELSE 0)
      /\ Weight(h)' = (IF hold'[h].status \in Open THEN hold'[h].amt ELSE 0)
  BY DEF Weight
<1>6. ASSUME NEW d \in Certs
      PROVE  SumOver(Amounts, HoldsOn(d))'
               = SumOver(Amounts, HoldsOn(d)) + (IF d = c THEN Change(h) ELSE 0)
  <2>1. PICK T \in SUBSET Holds : T = HoldsOn(d)
    BY DEF HoldsOn
  <2>2. PICK U \in SUBSET Holds : U = HoldsOn(d)'
    BY DEF HoldsOn
  <2>3. T \ {h} = U \ {h}
    BY <1>0, <2>1, <2>2 DEF HoldsOn
  <2>4. h \in T <=> hold[h].status \in Open /\ d = c
    BY <1>1, <2>1 DEF HoldsOn, OneHold
  <2>5. h \in U <=> hold'[h].status \in Open /\ d = c
    BY <2>2 DEF HoldsOn, OneHold
  <2>6. ShiftOf(h, T, U)
    BY <1>0, <2>3, HoldShift
  <2>7. PICK k \in Int : k = SumOver(Amounts, T)
    BY <1>3
  <2>8. SumOver(Amounts', U) = k + (IF d = c THEN Change(h) ELSE 0)
    BY <1>4, <1>5, <2>4, <2>5, <2>6, <2>7 DEF Change, ShiftOf
  <2> QED BY <2>1, <2>2, <2>7, <2>8
<1>7. ASSUME NEW p \in Orders
      PROVE  HeldFor(p)' = HeldFor(p) + (IF p = o THEN Change(h) ELSE 0)
  <2>1. PICK T \in SUBSET Holds : T = HoldsOf(p)
    BY DEF HoldsOf
  <2>2. PICK U \in SUBSET Holds : U = HoldsOf(p)'
    BY DEF HoldsOf
  <2>3. T \ {h} = U \ {h}
    BY <1>0, <2>1, <2>2 DEF HoldsOf
  <2>4. h \in T <=> hold[h].status \in Open /\ p = o
    BY <1>1, <2>1 DEF HoldsOf, OneHold
  <2>5. h \in U <=> hold'[h].status \in Open /\ p = o
    BY <2>2 DEF HoldsOf, OneHold
  <2>6. ShiftOf(h, T, U)
    BY <1>0, <2>3, HoldShift
  <2>7. PICK k \in Int : k = SumOver(Amounts, T)
    BY <1>3
  <2>8. SumOver(Amounts', U) = k + (IF p = o THEN Change(h) ELSE 0)
    BY <1>4, <1>5, <2>4, <2>5, <2>6, <2>7 DEF Change, ShiftOf
  <2> QED BY <2>1, <2>2, <2>7, <2>8 DEF HeldFor
<1>8. ASSUME NEW p \in Orders, p # o
      PROVE  HoldsOf(p)' = HoldsOf(p)
  <2>1. \A g \in Holds : g \in HoldsOf(p)' <=> g \in HoldsOf(p)
    BY <1>0, <1>1, <1>8 DEF HoldsOf, OneHold
  <2> QED BY <2>1 DEF HoldsOf
<1>9. HoldsOf(o)' \subseteq {h}
  BY <1>0 DEF HoldsOf, OneHold
<1> QED BY <1>6, <1>7, <1>8, <1>9

\* What invoices redeemed grows by the reservation when it is consumed.
Took(h) == IF hold'[h].status = "Consumed" THEN hold'[h].amt ELSE 0

\* What all invoices took moves by what the reservation that changes brings.
LEMMA BilledMoves ==
  ASSUME GiftAssumption, GiftInv, Typed', NEW h \in Holds, NEW c \in Certs, NEW o \in Orders,
         OneHold(h, c, o), OneOrder(o)
  PROVE  SumOver(Amounts, Billed)' = SumOver(Amounts, Billed) + Took(h)
<1>0. \A g \in Holds \ {h} : hold'[g] = hold[g]
  BY DEF OneHold
<1>1. None \notin Open /\ None # "Consumed" /\ "Consumed" \notin Open
  BY NoneIsNoStatus
<1>2. PICK T \in SUBSET Holds : T = Billed
  BY DEF Billed
<1>3. PICK U \in SUBSET Holds : U = Billed'
  BY DEF Billed
<1>4. \A g \in Holds \ {h} : g \in T <=> g \in U
  <2> SUFFICES ASSUME NEW g \in Holds \ {h}
               PROVE  hold[g].status = "Consumed" =>
                        (order[hold[g].order].invoice = "posted" <=> order'[hold[g].order].invoice = "posted")
    BY <1>0, <1>2, <1>3 DEF Billed
  <2>1. hold[g].status = "Consumed" => hold[g].order \in Orders /\ order[hold[g].order].invoice # None
    BY <1>1 DEF GiftInv, HoldsKnown
  <2> QED BY <2>1 DEF OneOrder
<1>5. h \notin T
  BY <1>1, <1>2 DEF OneHold, Billed
<1>6. h \in U <=> hold'[h].status = "Consumed"
  BY <1>3 DEF OneHold, Billed
<1>7. T \ {h} = U \ {h}
  BY <1>4
<1>8. ShiftOf(h, T, U)
  BY <1>0, <1>7, HoldShift
<1>9. PICK k \in Int : k = SumOver(Amounts, T)
  BY <1>2, TermsInt
<1>10. hold'[h].amt \in Int
  BY DEF Typed, HoldType
<1>11. SumOver(Amounts', U) = k + Took(h)
  BY <1>5, <1>6, <1>8, <1>9, <1>10 DEF Took, ShiftOf
<1> QED BY <1>2, <1>3, <1>9, <1>11

\* A return keeps all but whether its value was used since.
UsedOnly ==
    \A t \in Returns :
        /\ back'[t].status = back[t].status /\ back'[t].order = back[t].order
        /\ back'[t].qty = back[t].qty /\ back'[t].amt = back[t].amt
        /\ back'[t].paid = back[t].paid /\ back'[t].to = back[t].to

\* Every reservation is still known after such a step.
LEMMA HoldStepKnown ==
  ASSUME GiftAssumption, GiftInv, Typed', NEW h \in Holds, NEW c \in Certs, NEW o \in Orders,
         OneHold(h, c, o), OneOrder(o), SoldKept(cert, cert'), ~Unsold(cert'[c])
  PROVE  HoldsKnown' /\ OneOpen' /\ OneTaken' /\ NoInvoiceYet'
<1>0. \A g \in Holds \ {h} : hold'[g] = hold[g]
  BY DEF OneHold
<1>1. HoldsKnown'
  <2> SUFFICES ASSUME NEW g \in Holds, hold'[g].status # None
               PROVE  /\ hold'[g].cert \in Certs /\ ~Unsold(cert'[hold'[g].cert])
                      /\ hold'[g].order \in Orders
                      /\ hold'[g].amt > 0 /\ hold'[g].paid <= hold'[g].amt
                      /\ hold'[g].status = "Consumed" => order'[hold'[g].order].invoice # None
    BY DEF HoldsKnown, Unsold
  <2>1. CASE g = h
    BY <2>1, NoneIsNoStatus DEF OneHold
  <2>2. CASE g # h
    <3>1. hold'[g] = hold[g]
      BY <1>0, <2>2
    <3>2. /\ hold[g].cert \in Certs /\ ~Unsold(cert[hold[g].cert])
          /\ hold[g].order \in Orders
          /\ hold[g].amt > 0 /\ hold[g].paid <= hold[g].amt
          /\ hold[g].status = "Consumed" => order[hold[g].order].invoice # None
      BY <3>1 DEF GiftInv, HoldsKnown
    <3>3. ~Unsold(cert'[hold[g].cert])
      BY <3>2 DEF SoldKept
    <3> QED BY <3>1, <3>2, <3>3 DEF OneOrder
  <2> QED BY <2>1, <2>2
<1>2. OneOpen'
  <2> SUFFICES ASSUME NEW p \in Orders, NEW f \in HoldsOf(p)', NEW g \in HoldsOf(p)'
               PROVE  f = g
    BY DEF OneOpen
  <2>1. CASE p = o
    BY <2>1, HoldsMove
  <2>2. CASE p # o
    <3>1. HoldsOf(p)' = HoldsOf(p)
      BY <2>2, HoldsMove
    <3> QED BY <3>1 DEF GiftInv, OneOpen
  <2> QED BY <2>1, <2>2
<1>3. OneTaken'
  <2> SUFFICES ASSUME NEW p \in Orders, NEW f \in Allocation(p)', NEW g \in Allocation(p)'
               PROVE  f = g
    BY DEF OneTaken
  <2>1. \A e \in Holds : e # h /\ e \in Allocation(p)' => e \in Allocation(p)
    BY <1>0 DEF Allocation
  <2>2. f \in Holds /\ g \in Holds
    BY DEF Allocation
  <2>3. h \in Allocation(p)' => p = o /\ Allocation(p) = {}
    <3> SUFFICES ASSUME h \in Allocation(p)' PROVE p = o /\ Allocation(p) = {}
      OBVIOUS
    <3>1. p = o /\ hold'[h].status = "Consumed"
      BY DEF Allocation, OneHold
    <3>2. order[o].invoice = None
      BY <3>1 DEF OneHold
    <3>3. \A e \in Holds : hold[e].status = "Consumed" => order[hold[e].order].invoice # None
      BY NoneIsNoStatus DEF GiftInv, HoldsKnown
    <3> QED BY <3>1, <3>2, <3>3 DEF Allocation
  <2>4. \A e, d \in Allocation(p) : e = d
    BY DEF GiftInv, OneTaken
  <2> QED BY <2>1, <2>2, <2>3, <2>4
<1>4. NoInvoiceYet'
  BY DEF NoInvoiceYet, GiftInv, OneOrder
<1> QED BY <1>1, <1>2, <1>3, <1>4

\* What was restored stays as it was: an order is consumed before any return of it.
LEMMA HoldStepBacks ==
  ASSUME GiftAssumption, GiftInv, Typed', NEW h \in Holds, NEW c \in Certs, NEW o \in Orders,
         OneHold(h, c, o), OneOrder(o), UsedOnly, SoldKept(cert, cert')
  PROVE  BacksKnown' /\ RestoredExactly'
<1>0. \A g \in Holds \ {h} : hold'[g] = hold[g]
  BY DEF OneHold
<1>1. BacksKnown'
  <2> SUFFICES ASSUME NEW t \in Returns
               PROVE  /\ back'[t].status # None => back'[t].order \in Orders
                                          /\ order'[back'[t].order].invoice # None /\ back'[t].qty > 0
                      /\ back'[t].status \notin {"posted", "cancelled"} => back'[t].amt = 0 /\ back'[t].paid = 0
                      /\ back'[t].amt > 0 => back'[t].to \in Certs /\ ~Unsold(cert'[back'[t].to])
    BY DEF BacksKnown, Unsold
  <2>1. /\ back[t].status # None => back[t].order \in Orders
                                      /\ order[back[t].order].invoice # None /\ back[t].qty > 0
        /\ back[t].status \notin {"posted", "cancelled"} => back[t].amt = 0 /\ back[t].paid = 0
        /\ back[t].amt > 0 => back[t].to \in Certs /\ ~Unsold(cert[back[t].to])
    BY DEF GiftInv, BacksKnown
  <2> QED BY <2>1 DEF OneOrder, SoldKept, UsedOnly
<1>2. \A p : Rows(p)' = Rows(p) /\ RestoredBy(p)' = RestoredBy(p)
  BY DEF Rows, RestoredBy, UsedOnly
<1>3. Units' = Units /\ Restored' = Restored /\ RestoredPaid' = RestoredPaid
  BY DEF Units, Restored, RestoredPaid, UsedOnly
<1>4. \A p : Prior(p)' = Prior(p)
  BY <1>2, <1>3 DEF Prior
<1>5. RestoredExactly'
  <2> SUFFICES ASSUME NEW p \in Orders, NEW g \in Allocation(p)'
               PROVE  /\ Prior(p).amt <= hold'[g].amt /\ Prior(p).paid <= hold'[g].paid
                      /\ Prior(p).qty = Sold => Prior(p).amt = hold'[g].amt
                      /\ Prior(p).amt = hold'[g].amt => Prior(p).paid = hold'[g].paid
    BY <1>4 DEF RestoredExactly
  <2>1. CASE g # h
    <3>1. hold'[g] = hold[g] /\ g \in Allocation(p)
      BY <1>0, <2>1 DEF Allocation
    <3> QED BY <3>1 DEF GiftInv, RestoredExactly
  <2>2. CASE g = h
    <3>1. p = o /\ hold'[h].status = "Consumed"
      BY <2>2 DEF Allocation, OneHold
    <3>2. order[o].invoice = None
      BY <3>1 DEF OneHold
    <3>3. \A t \in Returns : back[t].status \in {"posted", "cancelled"} => back[t].order # o
      BY <3>2, NoneIsNoStatus DEF GiftInv, BacksKnown
    <3>4. Rows(o) = {}
      BY <3>3 DEF Rows, RestoredBy
    <3>5. Prior(o).qty = 0 /\ Prior(o).amt = 0 /\ Prior(o).paid = 0
      BY <3>4, SumEmpty DEF Prior
    <3>6. Sold # 0
      BY DEF GiftAssumption
    <3>7. hold'[h].amt > 0 /\ hold'[h].amt \in Nat /\ hold'[h].paid \in Nat
      BY DEF OneHold, Typed, HoldType
    <3> QED BY <2>2, <3>1, <3>5, <3>6, <3>7
  <2> QED BY <2>1, <2>2
<1> QED BY <1>1, <1>5

\* One reservation changes with its certificate, its order and the books.
LEMMA HoldStep ==
  ASSUME GiftAssumption, GiftInv, Typed', NEW h \in Holds, NEW c \in Certs, NEW o \in Orders,
         OneHold(h, c, o), OneOrder(o), UsedOnly,
         NEW y \in CertType, Sound(y), ~Unsold(y), y.status # "Replaced", cert[c].status # "Replaced",
         cert' = [cert EXCEPT ![c] = y], y.reserved = cert[c].reserved + Change(h),
         order'[o].invoice = None => order'[o].total = HeldFor(o) + Change(h),
         Balance(y) - Balance(cert[c]) + Took(h) = (books'.in - books.in) - (books'.out - books.out),
         QuotesFall, quote'[o] = None
  PROVE  GiftInv'
<1>1. cert \in [Certs -> CertType] /\ cert'[c] = y /\ \A d \in Certs : d # c => cert'[d] = cert[d]
  BY DEF GiftInv, CertsOK
<1>2. /\ CertsOK(cert') /\ SoldKept(cert, cert')
      /\ TotalMoves(cert, cert', Balance(y) - Balance(cert[c]))
  BY ChangeOne DEF GiftInv
<1>3. HoldsKnown' /\ OneOpen' /\ OneTaken' /\ NoInvoiceYet'
  BY <1>1, <1>2, HoldStepKnown
<1>4. BacksKnown' /\ RestoredExactly'
  BY <1>2, HoldStepBacks
<1>5. Quoted'
  <2> SUFFICES ASSUME NEW p \in Orders, quote'[p] # None
               PROVE  /\ quote'[p] \in QuoteType /\ quote'[p].amt > 0 /\ quote'[p].paid <= quote'[p].amt
                      /\ HoldsOf(p)' = {}
    BY DEF QuotesFall, Quoted
  <2>1. p # o /\ quote'[p] = quote[p]
    BY DEF QuotesFall
  <2>2. HoldsOf(p)' = HoldsOf(p)
    BY <2>1, HoldsMove
  <2> QED BY <2>1, <2>2 DEF GiftInv, Quoted
<1>6. HoldsAreReserved'
  <2> SUFFICES ASSUME NEW d \in Certs
               PROVE  cert'[d].reserved = SumOver(Amounts, HoldsOn(d))'
    BY DEF HoldsAreReserved
  <2>1. cert[d].reserved = SumOver(Amounts, HoldsOn(d)) /\ cert[d].reserved \in Int
    BY <1>1, ComponentsInt DEF GiftInv, HoldsAreReserved
  <2>2. SumOver(Amounts, HoldsOn(d))' = SumOver(Amounts, HoldsOn(d)) + (IF d = c THEN Change(h) ELSE 0)
    <3>1. \A e \in Certs : SumOver(Amounts, HoldsOn(e))'
                             = SumOver(Amounts, HoldsOn(e)) + (IF e = c THEN Change(h) ELSE 0)
      BY HoldsMove
    <3> QED BY <3>1
  <2>3. CASE d = c
    BY <1>1, <2>1, <2>2, <2>3
  <2>4. CASE d # c
    BY <1>1, <2>1, <2>2, <2>4
  <2> QED BY <2>3, <2>4
<1>7. OrderTotalIsHeld'
  <2> SUFFICES ASSUME NEW p \in Orders, order'[p].invoice = None
               PROVE  order'[p].total = HeldFor(p)'
    BY DEF OrderTotalIsHeld
  <2>1. HeldFor(p)' = HeldFor(p) + (IF p = o THEN Change(h) ELSE 0)
    BY HoldsMove
  <2>2. CASE p = o
    BY <2>1, <2>2
  <2>3. CASE p # o
    <3>1. order'[p] = order[p]
      BY <2>3 DEF OneOrder
    <3>2. order[p].total = HeldFor(p) /\ order[p].total \in Int
      BY <3>1 DEF GiftInv, OrderTotalIsHeld, Typed, OrderType
    <3> QED BY <2>1, <2>3, <3>1, <3>2
  <2> QED BY <2>2, <2>3
<1>8. ValueAddsUp'
  <2>1. SumOver(Amounts, Billed)' = SumOver(Amounts, Billed) + Took(h)
    BY BilledMoves
  <2>2. SumOver(Balances, Certs)' = SumOver(Balances, Certs) + (Balance(y) - Balance(cert[c]))
    BY <1>2 DEF TotalMoves, Balances, BalancesOf
  <2>3. Restored' = Restored /\ Returned' = Returned
    BY DEF UsedOnly, Restored, Returned
  <2>4. SumOver(Restored, Returned)' = SumOver(Restored, Returned)
    BY <2>3
  <2>5. books'.in \in Int /\ books'.out \in Int
    BY DEF Typed
  <2>6. SumOver(Balances, Certs) + SumOver(Amounts, Billed) + books.out
          = books.in + SumOver(Restored, Returned)
    BY DEF GiftInv, ValueAddsUp
  <2>7. Balance(y) \in Int /\ Balance(cert[c]) \in Int /\ Took(h) \in Int
    <3>1. cert[c] \in CertType
      BY <1>1
    <3>2. hold'[h] \in HoldType
      BY DEF Typed
    <3>3. hold'[h].amt \in Int
      BY <3>2 DEF HoldType
    <3> QED BY <3>1, <3>3, ComponentsInt DEF Took
  <2>8. SumOver(Balances, Certs)' + SumOver(Amounts, Billed)' + books'.out
          = books'.in + SumOver(Restored, Returned)'
    BY <2>1, <2>2, <2>4, <2>5, <2>6, <2>7, TermsInt
  <2> QED BY <2>8 DEF ValueAddsUp
<1> QED BY <1>2, <1>3, <1>4, <1>5, <1>6, <1>7, <1>8 DEF GiftInv

-----------------------------------------------------------------------------
(* Giving a reservation back.                                              *)

\* What is known of an open reservation h, of certificate c for order o.
Standing(h, c, o) ==
    /\ c \in Certs /\ cert[c] \in CertType /\ ~Unsold(cert[c]) /\ cert[c].status # "Replaced"
    /\ o \in Orders /\ HoldsOf(o) = {h} /\ HeldFor(o) = hold[h].amt
    /\ hold[h] \in HoldType /\ hold[h].amt > 0 /\ hold[h].paid <= hold[h].amt

\* Only a certificate that can be used is held.
LEMMA OpenFacts ==
  ASSUME GiftAssumption, GiftInv, NEW h \in Holds, hold[h].status \in Open,
         NEW c, c = hold[h].cert, NEW o, o = hold[h].order
  PROVE  Standing(h, c, o)
<1>1. hold[h] \in HoldType
  BY DEF GiftInv, Typed
<1>2. /\ c \in Certs /\ ~Unsold(cert[c]) /\ o \in Orders
      /\ hold[h].amt > 0 /\ hold[h].paid <= hold[h].amt
  BY NoneIsNoStatus DEF GiftInv, HoldsKnown
<1>3. cert[c] \in CertType
  BY <1>2 DEF GiftInv, CertsOK
<1>4. IsFiniteSet(Holds) /\ Nats(Amounts, Holds) /\ Ints(Amounts, Holds)
  BY AmountsNat DEF GiftInv, GiftAssumption
<1>5. Amounts[h] = hold[h].amt
  BY DEF Amounts
<1>6. cert[c].status # "Replaced"
  <2>1. IsFiniteSet(HoldsOn(c)) /\ Nats(Amounts, HoldsOn(c)) /\ h \in HoldsOn(c)
    BY <1>4, FS_Subset DEF HoldsOn, Nats
  <2>2. hold[h].amt =< SumOver(Amounts, HoldsOn(c))
    BY <1>5, <2>1, SumMember
  <2>3. cert[c].reserved = SumOver(Amounts, HoldsOn(c))
    BY <1>2 DEF GiftInv, HoldsAreReserved
  <2>4. cert[c].reserved \in Int /\ hold[h].amt \in Int
    BY <1>1, <1>3, ComponentsInt DEF HoldType
  <2>5. cert[c].reserved # 0
    BY <1>2, <2>2, <2>3, <2>4
  <2> QED BY <1>2, <2>5 DEF GiftInv, CertsOK, Empty
<1>7. HoldsOf(o) = {h}
  <2>1. h \in HoldsOf(o)
    BY DEF HoldsOf
  <2>2. \A f, g \in HoldsOf(o) : f = g
    BY <1>2 DEF GiftInv, OneOpen
  <2> QED BY <2>1, <2>2
<1>8. HeldFor(o) = hold[h].amt
  <2>1. IsFiniteSet({h}) /\ Ints(Amounts, {h}) /\ {h} \ {h} = {} /\ h \in {h}
    BY <1>4, FS_Singleton DEF Ints
  <2>2. SumOver(Amounts, {h}) = Amounts[h] + SumOver(Amounts, {h} \ {h})
    BY <2>1, SumRemove
  <2>3. SumOver(Amounts, {h}) = Amounts[h] + 0
    BY <2>1, <2>2, SumEmpty
  <2>4. hold[h].amt \in Int
    BY <1>1 DEF HoldType
  <2> QED BY <1>5, <1>7, <2>3, <2>4 DEF HeldFor
<1> QED BY <1>1, <1>2, <1>3, <1>6, <1>7, <1>8 DEF Standing

\* Reservation h of order o is given back, the order saved without it.
LEMMA ReleaseKeeps ==
  ASSUME GiftAssumption, GiftInv, NEW h \in Holds, hold[h].status \in Open,
         NEW o, o = hold[h].order, NEW s \in {"Released", "Expired"}, Released({h}, s),
         order' \in [Orders -> OrderType], OneOrder(o),
         order'[o].invoice = None => order'[o].total = 0,
         Requested(request'), UNCHANGED <<back, books>>, QuotesFall, quote'[o] = None
  PROVE  GiftInv'
<1>1. PICK c : c = hold[h].cert
  OBVIOUS
<1>2. Standing(h, c, o)
  BY <1>1, OpenFacts
<1>3. /\ c \in Certs /\ cert[c] \in CertType /\ ~Unsold(cert[c]) /\ cert[c].status # "Replaced"
      /\ o \in Orders /\ HoldsOf(o) = {h} /\ HeldFor(o) = hold[h].amt
      /\ hold[h] \in HoldType /\ hold[h].amt > 0 /\ hold[h].paid <= hold[h].amt
  BY <1>2 DEF Standing
<1>4. PICK z : z = [hold[h] EXCEPT !.status = s, !.late = FALSE]
  OBVIOUS
<1>5. /\ z \in HoldType /\ z.status = s /\ z.cert = c /\ z.order = o /\ z.amt = hold[h].amt
      /\ z.paid = hold[h].paid
  BY <1>1, <1>3, <1>4 DEF HoldType
<1>6. hold \in [Holds -> HoldType] /\ hold' \in [Holds -> HoldType] /\ hold'[h] = z
      /\ \A g \in Holds \ {h} : hold'[g] = hold[g]
  <2>1. hold \in [Holds -> HoldType]
    BY DEF GiftInv, Typed
  <2>2. hold' = [g \in Holds |-> IF g = h THEN z ELSE hold[g]]
    BY <1>4 DEF Released
  <2> QED BY <1>5, <2>1, <2>2
<1>7. s \notin Open /\ s # "Consumed" /\ s # None
  BY NoneIsNoStatus DEF Open
<1>8. Change(h) = -hold[h].amt /\ hold[h].amt \in Int
  BY <1>3, <1>5, <1>6, <1>7 DEF Change, Weight, HoldType
<1>9. Took(h) = 0
  BY <1>5, <1>6, <1>7 DEF Took
<1>10. SumOver(Amounts, {h}) = hold[h].amt
  BY <1>3 DEF HeldFor
<1>11. PICK y : y = Entry(cert[c], "Release", 0, 0, -hold[h].amt)
  OBVIOUS
<1>12. /\ Adds(y, cert[c], 0, 0, -hold[h].amt) /\ KindKept(y, cert[c])
  BY <1>3, <1>8, <1>11, EntryFacts
<1>13. cert' = [d \in Certs |-> IF d = c THEN y ELSE cert[d]]
  <2>1. \A d \in Certs : {g \in {h} : hold[g].cert = d} = IF d = c THEN {h} ELSE {}
    BY <1>1
  <2>2. cert' = [d \in Certs |->
                  LET mine == {g \in {h} : hold[g].cert = d}
                  IN  IF mine = {} THEN cert[d]
                      ELSE Entry(cert[d], "Release", 0, 0, -SumOver(Amounts, mine))]
    BY DEF Released
  <2>3. ASSUME NEW d \in Certs
        PROVE  cert'[d] = IF d = c THEN y ELSE cert[d]
    <3>1. CASE d = c
      BY <1>10, <1>11, <2>1, <2>2, <3>1
    <3>2. CASE d # c
      BY <2>1, <2>2, <3>2
    <3> QED BY <3>1, <3>2
  <2>4. cert' = [d \in Certs |-> cert'[d]]
    BY <2>2
  <2> QED BY <2>3, <2>4
<1>14. cert' = [cert EXCEPT ![c] = y] /\ cert'[c] = y
  BY <1>3, <1>13 DEF GiftInv, CertsOK
<1>15. Sound(y)
  BY <1>3, <1>14 DEF Released
<1>16. cert[c].paid \in Int /\ cert[c].promo \in Int /\ cert[c].reserved \in Int
  BY <1>3, ComponentsInt
<1>17. /\ y \in CertType /\ y.paid = cert[c].paid /\ y.promo = cert[c].promo
       /\ y.reserved = cert[c].reserved + Change(h)
  BY <1>8, <1>12, <1>16 DEF Adds
<1>18. ~Unsold(y) /\ y.status # "Replaced"
  BY <1>3, <1>12 DEF KindKept
<1>19. Balance(y) - Balance(cert[c]) + Took(h) = (books'.in - books.in) - (books'.out - books.out)
  <2>1. Balance(y) = Balance(cert[c]) /\ Balance(cert[c]) \in Int
    BY <1>16, <1>17 DEF Balance
  <2> QED BY <1>9, <2>1, BooksStand
<1>20. OneHold(h, c, o)
  BY <1>1, <1>3, <1>5, <1>6, <1>7 DEF OneHold
<1>21. Typed'
  BY <1>6 DEF GiftInv, Typed, Requested
<1>22. UsedOnly
  BY DEF UsedOnly
<1>23. order'[o].invoice = None => order'[o].total = HeldFor(o) + Change(h)
  BY <1>3, <1>8
<1> QED BY <1>3, <1>14, <1>15, <1>17, <1>18, <1>19, <1>20, <1>21, <1>22, <1>23, HoldStep

\* The total of an order is saved with its status; the invoice stays.
LEMMA TotalOnly ==
  ASSUME GiftInv, NEW o \in Orders, NEW y \in OrderType,
         y.invoice = order[o].invoice,
         y.status = "Building" => order[o].status = "Building", order' = [order EXCEPT ![o] = y]
  PROVE  order' \in [Orders -> OrderType] /\ OneOrder(o) /\ order'[o] = y
<1>1. order \in [Orders -> OrderType]
  BY DEF GiftInv, Typed
<1>2. order' \in [Orders -> OrderType] /\ order'[o] = y /\ \A p \in Orders : p # o => order'[p] = order[p]
  BY <1>1
<1> QED BY <1>2 DEF OneOrder

\* Cited on its own where a step's sets hold strings.
LEMMA ZeroInt == 0 \in Int
OBVIOUS

\* An order with another total is an order.
LEMMA TotalTyped ==
  ASSUME NEW y \in OrderType, NEW n \in Int, NEW z, z = [y EXCEPT !.total = n]
  PROVE  /\ z \in OrderType /\ z.total = n
         /\ z.invoice = y.invoice /\ z.status = y.status
BY DEF OrderType

\* A hold the cashier or the job gives back: the order counts on nothing any more.
LEMMA GiveBackKeeps ==
  ASSUME GiftAssumption, GiftInv, NEW h \in Holds, hold[h].status \in Open,
         NEW o, o = hold[h].order, NEW s \in {"Released", "Expired"}, Released({h}, s),
         order' = [order EXCEPT ![o].total = TotalAfter(o, {h})],
         Drop({o}, {hold[h].cert}), Outdate(o, None), UNCHANGED <<back, books>>
  PROVE  GiftInv'
<1>1. PICK c : c = hold[h].cert
  OBVIOUS
<1>2. o \in Orders /\ HoldsOf(o) = {h}
  BY <1>1, OpenFacts DEF Standing
<1>3. TotalAfter(o, {h}) = 0
  <2>1. {h} \ {h} = {}
    OBVIOUS
  <2> QED BY <1>2, <2>1, SumEmpty DEF TotalAfter
<1>4. PICK y : y = [order[o] EXCEPT !.total = 0]
  OBVIOUS
<1>5. order[o] \in OrderType
  BY <1>2 DEF GiftInv, Typed
<1>6. /\ y \in OrderType /\ y.total = 0 /\ y.invoice = order[o].invoice
      /\ y.status = order[o].status /\ order' = [order EXCEPT ![o] = y]
  <2>1. order' = [order EXCEPT ![o].total = 0]
    BY <1>3
  <2>2. order' = [order EXCEPT ![o] = y]
    BY <1>4, <2>1
  <2>3. PICK z : z = order[o]
    OBVIOUS
  <2>4. z \in OrderType /\ y = [z EXCEPT !.total = 0]
    BY <1>4, <1>5, <2>3
  <2>5. /\ y \in OrderType /\ y.total = 0
        /\ y.invoice = z.invoice /\ y.status = z.status
    BY <2>4, ZeroInt, TotalTyped
  <2> QED BY <2>2, <2>3, <2>5
<1>7. order' \in [Orders -> OrderType] /\ OneOrder(o) /\ order'[o] = y
  <2>1. o \in Orders /\ y \in OrderType
    BY <1>2, <1>6
  <2>2. y.invoice = order[o].invoice /\ (y.status = "Building" => order[o].status = "Building")
    BY <1>6
  <2>3. order' = [order EXCEPT ![o] = y]
    BY <1>6
  <2> QED BY <2>1, <2>2, <2>3, TotalOnly
<1>8. QuotesFall /\ quote'[o] = None
  BY <1>2, DropFacts
<1>9. Requested(request')
  BY OutdateTyped
<1>10. order'[o].invoice = None => order'[o].total = 0
  BY <1>6, <1>7
<1> QED BY <1>7, <1>8, <1>9, <1>10, ReleaseKeeps

\* Every reservation of an order is given back.
LEMMA ReleaseAllKeeps ==
  ASSUME GiftAssumption, GiftInv, NEW o \in Orders, Released(HoldsOf(o), "Released"),
         NEW y \in OrderType, y.invoice = order[o].invoice, y.status # "Building",
         y.total = IF HoldsOf(o) = {} THEN order[o].total ELSE 0,
         order' = [order EXCEPT ![o] = y], Drop({o}, {hold[h].cert : h \in HoldsOf(o)}),
         Requested(request'), UNCHANGED <<back, books>>
  PROVE  GiftInv'
<1>1. order' \in [Orders -> OrderType] /\ OneOrder(o) /\ order'[o] = y
  BY TotalOnly
<1>2. QuotesFall /\ quote'[o] = None
  BY DropFacts
<1>3. CASE HoldsOf(o) = {}
  <2>1. hold' = hold /\ cert' = cert
    <3>1. hold \in [Holds -> HoldType] /\ cert \in [Certs -> CertType]
      BY DEF GiftInv, Typed, CertsOK
    <3>2. hold' = [h \in Holds |-> hold[h]]
      BY <1>3 DEF Released
    <3>3. cert' = [c \in Certs |-> cert[c]]
      <4>1. \A c \in Certs : {h \in {} : hold[h].cert = c} = {}
        OBVIOUS
      <4>2. cert' = [c \in Certs |->
                  LET mine == {h \in {} : hold[h].cert = c}
                  IN  IF mine = {} THEN cert[c]
                      ELSE Entry(cert[c], "Release", 0, 0, -SumOver(Amounts, mine))]
        BY <1>3 DEF Released
      <4> QED BY <4>1, <4>2
    <3>4. hold = [h \in Holds |-> hold[h]] /\ cert = [c \in Certs |-> cert[c]]
      BY <3>1
    <3> QED BY <3>2, <3>3, <3>4
  <2>2. SameHolds
    BY <2>1 DEF SameHolds
  <2>3. InvoicesStay
    BY <1>1 DEF InvoicesStay, OneOrder
  <2>4. OrdersKept
    <3>1. y.total = order[o].total
      BY <1>3
    <3>2. \A p \in Orders : p # o => order'[p] = order[p]
      BY <1>1 DEF OneOrder
    <3> QED BY <1>1, <3>1, <3>2 DEF OrdersKept
  <2>5. Typed'
    BY <1>1, <2>1 DEF GiftInv, Typed, Requested
  <2> QED BY <1>2, <2>1, <2>2, <2>3, <2>4, <2>5, QuietStep
<1>4. CASE HoldsOf(o) # {}
  <2>1. PICK h \in Holds : h \in HoldsOf(o)
    BY <1>4 DEF HoldsOf
  <2>2. hold[h].status \in Open /\ hold[h].order = o
    BY <2>1 DEF HoldsOf
  <2>3. PICK c : c = hold[h].cert
    OBVIOUS
  <2>4. HoldsOf(o) = {h}
    BY <2>2, <2>3, OpenFacts DEF Standing
  <2>5. Released({h}, "Released")
    BY <2>4
  <2>6. order'[o].invoice = None => order'[o].total = 0
    BY <1>1, <1>4
  <2> QED BY <1>1, <1>2, <2>2, <2>5, <2>6, ReleaseKeeps
<1> QED BY <1>3, <1>4

\* The cashier gives a reservation back.
LEMMA RedemptionKeeps ==
  ASSUME GiftAssumption, GiftInv, NEW h \in Holds, ReleaseRedemption(h)
  PROVE  GiftInv'
<1>1. PICK o : o = hold[h].order
  OBVIOUS
<1>2. /\ hold[h].status \in Open /\ Released({h}, "Released")
      /\ order' = [order EXCEPT ![o].total = TotalAfter(o, {h})]
      /\ Drop({o}, {hold[h].cert}) /\ Outdate(o, None) /\ UNCHANGED <<back, books>>
  BY <1>1 DEF ReleaseRedemption
<1> QED BY <1>1, <1>2, GiveBackKeeps

\* The job gives one back, whatever has become of it since it was listed.
LEMMA StaleKeeps ==
  ASSUME GiftAssumption, GiftInv, NEW h \in Holds, ReleaseStale(h)
  PROVE  GiftInv'
<1>1. CASE CanExpire(h)
  <2>1. PICK o : o = hold[h].order
    OBVIOUS
  <2>2. hold[h].status \in Open
    BY <1>1 DEF CanExpire, Open
  <2>3. /\ Released({h}, "Expired")
        /\ order' = [order EXCEPT ![o].total = TotalAfter(o, {h})]
        /\ Drop({o}, {hold[h].cert}) /\ Outdate(o, None) /\ UNCHANGED <<back, books>>
    BY <1>1, <2>1 DEF ReleaseStale
  <2> QED BY <2>1, <2>2, <2>3, GiveBackKeeps
<1>2. CASE ~CanExpire(h)
  <2>1. UNCHANGED <<cert, hold, order, quote, request, back, books>>
    BY <1>2 DEF ReleaseStale
  <2>2. Requested(request')
    BY <2>1 DEF GiftInv, Typed, Requested
  <2> QED BY <2>1, <2>2, IdleKeeps
<1> QED BY <1>1, <1>2

\* The job lists reservations.
LEMMA ListKeeps ==
  ASSUME GiftAssumption, GiftInv, ListStale
  PROVE  GiftInv'
<1>1. UNCHANGED <<cert, hold, order, quote, request, back, books>>
  BY DEF ListStale
<1>2. Requested(request')
  BY <1>1 DEF GiftInv, Typed, Requested
<1> QED BY <1>1, <1>2, IdleKeeps

\* An order that is being built is given up.
LEMMA CancelOrderKeeps ==
  ASSUME GiftAssumption, GiftInv, NEW o \in Orders, CancelOrder(o)
  PROVE  GiftInv'
<1>1. PICK y : y = [status |-> "Cancelled", total |-> 0, invoice |-> None]
  OBVIOUS
<1>2. y \in OrderType /\ y.invoice = None /\ y.status # "Building" /\ y.total = 0
  BY <1>1 DEF OrderType
<1>3. order[o].invoice = None
  BY DEF CancelOrder, GiftInv, NoInvoiceYet
<1>4. HoldsOf(o) = {} => order[o].total = 0
  <2>1. order[o].total = HeldFor(o)
    BY <1>3 DEF GiftInv, OrderTotalIsHeld
  <2> QED BY <2>1, SumEmpty DEF HeldFor
<1>5. y.total = IF HoldsOf(o) = {} THEN order[o].total ELSE 0
  BY <1>2, <1>4
<1>6. /\ Released(HoldsOf(o), "Released") /\ order' = [order EXCEPT ![o] = y]
      /\ Drop({o}, {hold[h].cert : h \in HoldsOf(o)}) /\ UNCHANGED <<back, books>>
  BY <1>1 DEF CancelOrder
<1>7. Requested(request')
  BY OutdateTyped DEF CancelOrder
<1> QED BY <1>2, <1>3, <1>5, <1>6, <1>7, ReleaseAllKeeps

OrderDeclined(o) ==
    order' = [order EXCEPT ![o].status = "Awaiting Payment",
                           ![o].total = IF HoldsOf(o) = {} THEN @ ELSE 0]

\* A payment fails: at once, or as card_status learns later.
LEMMA DeclineKeeps ==
  ASSUME GiftAssumption, GiftInv, NEW o \in Orders, Released(HoldsOf(o), "Released"), OrderDeclined(o),
         Drop({o}, {hold[h].cert : h \in HoldsOf(o)}), Requested(request'), UNCHANGED <<back, books>>
  PROVE  GiftInv'
<1>1. order \in [Orders -> OrderType] /\ order[o] \in OrderType
  BY DEF GiftInv, Typed
<1>2. PICK n \in Int : n = IF HoldsOf(o) = {} THEN order[o].total ELSE 0
  <2>1. order[o].total \in Int
    BY <1>1 DEF OrderType
  <2>2. CASE HoldsOf(o) = {}
    BY <2>1, <2>2
  <2>3. CASE HoldsOf(o) # {}
    <3>1. 0 = IF HoldsOf(o) = {} THEN order[o].total ELSE 0
      BY <2>3, Zenon
    <3> QED BY <3>1, ZeroInt, Zenon
  <2> QED BY <2>2, <2>3
<1>3. PICK y : y = [order[o] EXCEPT !.status = "Awaiting Payment", !.total = n]
  OBVIOUS
<1>4. /\ y \in OrderType /\ y.invoice = order[o].invoice /\ y.status = "Awaiting Payment" /\ y.total = n
  BY <1>1, <1>3 DEF OrderType
<1>5. order' = [order EXCEPT ![o] = y]
  <2>1. order' = [order EXCEPT ![o].status = "Awaiting Payment", ![o].total = n]
    BY <1>1, <1>2 DEF OrderDeclined
  <2> QED BY <1>1, <1>3, <2>1
<1>6. y.total = IF HoldsOf(o) = {} THEN order[o].total ELSE 0
  BY <1>2, <1>4
<1> QED BY <1>4, <1>5, <1>6, ReleaseAllKeeps

\* The card is declined.
LEMMA DeclinesKeeps ==
  ASSUME GiftAssumption, GiftInv, NEW q \in Requests, CardDeclines(q)
  PROVE  GiftInv'
<1>1. PICK o \in Orders : o = request[q].order
  BY DEF CardDeclines, GiftInv, Typed
<1>2. /\ Released(HoldsOf(o), "Released") /\ OrderDeclined(o)
      /\ Drop({o}, {hold[h].cert : h \in HoldsOf(o)}) /\ Outdate(o, q) /\ UNCHANGED <<back, books>>
  BY <1>1 DEF CardDeclines, OrderDeclined
<1>3. Requested(request')
  BY <1>2, OutdateTyped
<1> QED BY <1>2, <1>3, DeclineKeeps

-----------------------------------------------------------------------------
(* Reserving.                                                              *)

\* A reservation takes what its certificate can spare.
LEMMA ReserveKeeps ==
  ASSUME GiftAssumption, GiftInv, NEW o \in Orders, NEW h \in Holds, ReserveRedemption(o, h)
  PROVE  GiftInv'
<1>1. PICK t : t = quote[o]
  OBVIOUS
<1>2. PICK c : c = t.cert
  OBVIOUS
<1>3. PICK y : y = Entry(cert[c], "Reserve", 0, 0, t.amt)
  OBVIOUS
<1>4. PICK z : z = [cert |-> c, order |-> o, amt |-> t.amt, paid |-> t.paid, forfeit |-> t.forfeit,
                    status |-> "Active", late |-> FALSE]
  OBVIOUS
<1>5. /\ t # None /\ hold[h].status = None /\ t.amt <= Available(cert[c]) /\ Sound(y)
      /\ cert' = [cert EXCEPT ![c] = y] /\ hold' = [hold EXCEPT ![h] = z]
      /\ order' = [order EXCEPT ![o].total = @ + t.amt]
      /\ Drop({o}, {c}) /\ Outdate(o, None) /\ UNCHANGED <<back, sweep, books>>
  BY <1>1, <1>2, <1>3, <1>4 DEF ReserveRedemption
<1>6. t \in QuoteType /\ t.amt > 0 /\ t.paid <= t.amt /\ HoldsOf(o) = {}
  BY <1>1, <1>5 DEF GiftInv, Quoted
<1>7. c \in Certs /\ t.amt \in Nat /\ t.paid \in Nat /\ t.forfeit \in Nat
  BY <1>2, <1>6 DEF QuoteType
<1>8. cert[c] \in CertType /\ cert \in [Certs -> CertType]
  BY <1>7 DEF GiftInv, CertsOK
<1>9. /\ cert[c].paid \in Int /\ cert[c].promo \in Int /\ cert[c].reserved \in Int
      /\ Balance(cert[c]) \in Int
  BY <1>8, ComponentsInt
<1>10. cert[c].status # "Replaced" /\ ~Unsold(cert[c])
  <2>1. Available(cert[c]) # 0
    BY <1>5, <1>6, <1>7
  <2>2. cert[c].status \notin Void
    BY <2>1 DEF Available
  <2>3. Balance(cert[c]) - cert[c].reserved # 0
    BY <2>1, <2>2 DEF Available
  <2>4. ~Empty(cert[c])
    BY <2>3 DEF Empty
  <2> QED BY <1>7, <2>2, <2>4 DEF Void, GiftInv, CertsOK
<1>11. Adds(y, cert[c], 0, 0, t.amt) /\ KindKept(y, cert[c])
  BY <1>3, <1>7, <1>8, EntryFacts
<1>12. z \in HoldType /\ z.status = "Active" /\ z.cert = c /\ z.order = o /\ z.amt = t.amt /\ z.paid = t.paid
  BY <1>4, <1>7 DEF HoldType, Open
<1>13. /\ hold \in [Holds -> HoldType] /\ hold' \in [Holds -> HoldType] /\ hold'[h] = z
       /\ \A g \in Holds \ {h} : hold'[g] = hold[g]
  <2>1. hold \in [Holds -> HoldType]
    BY DEF GiftInv, Typed
  <2> QED BY <1>5, <1>12, <2>1
<1>14. Change(h) = t.amt /\ Took(h) = 0
  <2>1. hold[h].status \notin Open
    BY <1>5, NoneIsNoStatus
  <2>2. Weight(h) = 0
    BY <2>1 DEF Weight
  <2>3. Weight(h)' = t.amt
    BY <1>12, <1>13 DEF Weight, Open
  <2>4. Took(h) = 0
    BY <1>12, <1>13 DEF Took
  <2> QED BY <1>7, <2>2, <2>3, <2>4 DEF Change
<1>15. OneHold(h, c, o)
  <2>1. hold'[h].cert = c /\ hold'[h].order = o /\ hold'[h].status = "Active"
    BY <1>12, <1>13
  <2>2. hold'[h].amt > 0 /\ hold'[h].paid <= hold'[h].amt
    BY <1>6, <1>12, <1>13
  <2>3. HoldsOf(o) \subseteq {h}
    BY <1>6
  <2>4. hold'[h].status = "Consumed" => order[o].invoice = None /\ order'[o].invoice = "posted"
    BY <2>1
  <2>5. hold[h].status = None
          \/ (hold[h].status \in Open /\ hold[h].cert = c /\ hold[h].order = o)
    BY <1>5
  <2> QED BY <1>13, <2>1, <2>2, <2>3, <2>4, <2>5, Zenon DEF OneHold
<1>16. order[o] \in OrderType /\ order[o].total \in Int
  BY DEF GiftInv, Typed, OrderType
<1>17. PICK n \in Int : n = order[o].total + t.amt
  BY <1>7, <1>16
<1>18. PICK x : x = [order[o] EXCEPT !.total = n]
  OBVIOUS
<1>19. order' = [order EXCEPT ![o] = x]
  <2>1. order' = [order EXCEPT ![o].total = n]
    BY <1>5, <1>17 DEF GiftInv, Typed
  <2> QED BY <1>18, <2>1
<1>20. x \in OrderType /\ x.total = n /\ x.invoice = order[o].invoice /\ x.status = order[o].status
  BY <1>16, <1>18, TotalTyped
<1>21. order' \in [Orders -> OrderType] /\ OneOrder(o) /\ order'[o] = x
  BY <1>19, <1>20, TotalOnly
<1>22. order'[o].invoice = None => order'[o].total = HeldFor(o) + Change(h)
  BY <1>14, <1>17, <1>19, <1>20, <1>21 DEF GiftInv, OrderTotalIsHeld
<1>23. QuotesFall /\ quote'[o] = None
  BY <1>5, DropFacts
<1>24. Typed'
  <2>1. Requested(request')
    BY <1>5, OutdateTyped
  <2> QED BY <1>5, <1>13, <1>21, <2>1 DEF GiftInv, Typed, Requested
<1>25. UsedOnly
  BY <1>5 DEF UsedOnly
<1>26. /\ y \in CertType /\ y.paid = cert[c].paid /\ y.promo = cert[c].promo
       /\ y.reserved = cert[c].reserved + Change(h)
  BY <1>9, <1>11, <1>14 DEF Adds
<1>27. ~Unsold(y) /\ y.status # "Replaced"
  BY <1>10, <1>11 DEF KindKept
<1>28. Balance(y) - Balance(cert[c]) + Took(h) = (books'.in - books.in) - (books'.out - books.out)
  <2>1. Balance(y) = Balance(cert[c])
    BY <1>26 DEF Balance
  <2> QED BY <1>5, <1>9, <1>14, <2>1, BooksStand
<1> QED BY <1>5, <1>7, <1>10, <1>15, <1>21, <1>22, <1>23, <1>24, <1>25, <1>26, <1>27, <1>28, HoldStep

-----------------------------------------------------------------------------
(* Posting an invoice.                                                     *)

\* What consuming a reservation leaves of its certificate.
Spent(y, c, amt, forfeit) ==
    /\ y \in CertType /\ KindKept(y, c)
    /\ y.reserved = c.reserved - amt /\ Balance(y) = Balance(c) - amt - forfeit

\* The entries of a redemption add up to the amount that was reserved and what
\* is forfeited with it.
LEMMA StepsFacts ==
  ASSUME GiftAssumption, NEW h \in Holds, hold[h] \in HoldType, NEW c \in CertType, c = cert[hold[h].cert]
  PROVE  Spent(Steps(h)[4], c, hold[h].amt, hold[h].forfeit)
<1>1. PICK a, p, f \in Int : a = hold[h].amt /\ p = hold[h].paid /\ f = hold[h].forfeit
  BY DEF HoldType
<1>2. -p \in Int /\ -a \in Int /\ -(a - p) \in Int
  BY <1>1
<1>3. PICK c1 : c1 = Entry(c, "Redeem", -p, 0, -a)
  OBVIOUS
<1>4. Adds(c1, c, -p, 0, -a) /\ KindKept(c1, c)
  BY <1>2, <1>3, EntryFacts
<1>5. PICK c2 : c2 = Entry(c1, "Redeem", 0, -(a - p), 0)
  OBVIOUS
<1>6. c1 \in CertType
  BY <1>4 DEF Adds
<1>7. Adds(c2, c1, 0, -(a - p), 0) /\ KindKept(c2, c1)
  BY <1>2, <1>5, <1>6, EntryFacts
<1>8. c2 \in CertType
  BY <1>7 DEF Adds
<1>9. PICK m \in Int : m = Min({c2.paid, f})
  BY <1>1, <1>8, ComponentsInt, MinOfTwo
<1>10. -m \in Int /\ -(f - m) \in Int
  BY <1>1, <1>9
<1>11. PICK c3 : c3 = Entry(c2, "Forfeit", -m, 0, 0)
  OBVIOUS
<1>12. Adds(c3, c2, -m, 0, 0) /\ KindKept(c3, c2)
  BY <1>8, <1>10, <1>11, EntryFacts
<1>13. c3 \in CertType
  BY <1>12 DEF Adds
<1>14. PICK y : y = Entry(c3, "Forfeit", 0, -(f - m), 0)
  OBVIOUS
<1>15. Adds(y, c3, 0, -(f - m), 0) /\ KindKept(y, c3)
  BY <1>10, <1>13, <1>14, EntryFacts
<1>16. Steps(h) = <<c1, c2, c3, y>>
  BY <1>1, <1>3, <1>5, <1>9, <1>11, <1>14, Zenon DEF Steps
<1>17. Steps(h)[4] = y
  BY <1>16
<1>18. c.paid \in Int /\ c.promo \in Int /\ c.reserved \in Int
  BY ComponentsInt
<1>19. y \in CertType /\ y.reserved = c.reserved - a /\ Balance(y) = Balance(c) - a - f
  BY <1>1, <1>4, <1>7, <1>9, <1>12, <1>15, <1>18 DEF Adds, Balance
<1>20. KindKept(y, c)
  BY <1>4, <1>7, <1>12, <1>15 DEF KindKept
<1> QED BY <1>1, <1>17, <1>19, <1>20 DEF Spent

\* Whether its value was used is all that changes of a return.
LEMMA UsedFacts ==
  ASSUME GiftInv, NEW X, X \in [Returns -> BOOLEAN],
         NEW b, \A t \in Returns : b[t] = [back[t] EXCEPT !.used = X[t]],
         back' = [t \in Returns |-> b[t]]
  PROVE  /\ back' \in [Returns -> BackType] /\ UsedOnly
         /\ (\A t \in Returns : X[t] = back[t].used) => back' = back
<1>1. back \in [Returns -> BackType]
  BY DEF GiftInv, Typed
<1>2. ASSUME NEW t \in Returns
      PROVE  /\ back'[t] \in BackType
             /\ back'[t].status = back[t].status /\ back'[t].order = back[t].order
             /\ back'[t].qty = back[t].qty /\ back'[t].amt = back[t].amt
             /\ back'[t].paid = back[t].paid /\ back'[t].to = back[t].to
             /\ X[t] = back[t].used => back'[t] = back[t]
  <2>1. back[t] \in BackType
    BY <1>1
  <2>2. back'[t] = [back[t] EXCEPT !.used = X[t]]
    OBVIOUS
  <2>3. X[t] \in BOOLEAN
    OBVIOUS
  <2> QED BY <2>1, <2>2, <2>3 DEF BackType
<1>3. back' = [t \in Returns |-> back'[t]]
  OBVIOUS
<1>4. back' \in [Returns -> BackType] /\ UsedOnly
  BY <1>2, <1>3 DEF UsedOnly
<1>5. (\A t \in Returns : X[t] = back[t].used) => back' = back
  BY <1>1, <1>2, <1>3
<1> QED BY <1>4, <1>5

\* The invoice of an order is posted; its reservation, if it has one, is consumed.
LEMMA PostKeeps ==
  ASSUME GiftAssumption, GiftInv, NEW o \in Orders, Post(o), Requested(request')
  PROVE  GiftInv'
<1>1. order \in [Orders -> OrderType] /\ order[o] \in OrderType /\ hold \in [Holds -> HoldType]
      /\ back \in [Returns -> BackType] /\ books \in [in : Int, out : Int]
  BY DEF GiftInv, Typed
<1>2. CASE order[o].invoice # None
  <2>1. /\ order' = [order EXCEPT ![o].status = "Completed"] /\ UNCHANGED <<cert, hold, back, books>>
        /\ Drop({o}, {})
    BY <1>2 DEF Post
  <2>2. QuotesFall
    BY <2>1, DropFacts
  <2> QED BY <2>1, <2>2, SavedKeeps
<1>3. CASE order[o].invoice = None
  <2>1. CanPost(o)
    BY <1>3 DEF Post
  <2>2. order[o].total = HeldFor(o)
    BY <1>3 DEF GiftInv, OrderTotalIsHeld
  <2>3. PICK x : x = [order[o] EXCEPT !.status = "Completed", !.invoice = "posted"]
    OBVIOUS
  <2>4. x \in OrderType /\ x.status = "Completed" /\ x.invoice = "posted"
    BY <1>1, <2>3 DEF OrderType
  <2>5. order' = [order EXCEPT ![o] = x]
    BY <1>1, <1>3, <2>3 DEF Post
  <2>6. /\ order' \in [Orders -> OrderType] /\ order'[o] = x
        /\ \A p \in Orders : p # o => order'[p] = order[p]
    BY <1>1, <2>4, <2>5
  <2>7. OneOrder(o) /\ InvoicesStay /\ OrdersKept
    BY <1>3, <2>4, <2>6, NoneIsNoStatus DEF OneOrder, InvoicesStay, OrdersKept
  <2>8. QuotesFall /\ quote'[o] = None
    BY <1>3, DropFacts DEF Post
  <2>9. /\ back' \in [Returns -> BackType] /\ UsedOnly
        /\ Debited(o) = {} => back' = back
    <3> DEFINE X == [t \in Returns |-> back[t].used \/ \E h \in Debited(o) : Used(t, hold[h].cert)]
               b == [t \in Returns |-> [back[t] EXCEPT !.used = X[t]]]
    <3>1. X \in [Returns -> BOOLEAN]
      OBVIOUS
    <3>2. \A t \in Returns : back[t].used \in BOOLEAN
      BY <1>1 DEF BackType
    <3>3. Debited(o) = {} => \A t \in Returns : X[t] = back[t].used
      BY <3>2
    <3>4. back' = [t \in Returns |-> b[t]]
      BY <1>3 DEF Post
    <3>5. \A t \in Returns : b[t] = [back[t] EXCEPT !.used = X[t]]
      OBVIOUS
    <3> HIDE DEF X, b
    <3> QED BY <3>1, <3>3, <3>4, <3>5, UsedFacts
  <2>10. CASE HoldsOf(o) = {}
    <3>1. Debited(o) = {}
      BY <2>10 DEF Debited
    <3>2. back' = back
      BY <2>9, <3>1
    <3>3. hold' = hold
      <4>1. hold' = [h \in Holds |-> hold[h]]
        BY <1>3, <3>1 DEF Post
      <4> QED BY <1>1, <4>1
    <3>4. cert' = cert
      <4>1. cert' = [c \in Certs |-> cert[c]]
        BY <1>3, <3>1 DEF Post
      <4> QED BY <4>1 DEF GiftInv, CertsOK
    <3>5. books' = books
      <4>1. books' = [books EXCEPT !.out = books.out + 0]
        BY <1>3, <3>1, SumEmpty DEF Post
      <4>2. books.out \in Int /\ books.out + 0 = books.out
        BY <1>1
      <4>3. [books EXCEPT !.out = books.out] = books
        BY <1>1
      <4> QED BY <4>1, <4>2, <4>3
    <3>6. SameHolds
      BY <3>3 DEF SameHolds
    <3>7. Typed'
      BY <2>6, <3>2, <3>3, <3>5 DEF GiftInv, Typed, Requested
    <3> QED BY <2>7, <2>8, <3>2, <3>4, <3>5, <3>6, <3>7, QuietStep
  <2>11. CASE HoldsOf(o) # {}
    <3>1. PICK h \in Holds : h \in HoldsOf(o)
      BY <2>11 DEF HoldsOf
    <3>2. hold[h].status \in Open /\ hold[h].order = o
      BY <3>1 DEF HoldsOf
    <3>3. PICK c : c = hold[h].cert
      OBVIOUS
    <3>4. Standing(h, c, o)
      BY <3>2, <3>3, OpenFacts
    <3>5. /\ c \in Certs /\ cert[c] \in CertType /\ ~Unsold(cert[c]) /\ cert[c].status # "Replaced"
          /\ HoldsOf(o) = {h} /\ HeldFor(o) = hold[h].amt
          /\ hold[h] \in HoldType /\ hold[h].amt > 0 /\ hold[h].paid <= hold[h].amt
      BY <3>4 DEF Standing
    <3>6. hold[h].amt \in Nat /\ hold[h].forfeit \in Nat
      BY <3>5 DEF HoldType
    <3>7. Debited(o) = {h} /\ order[o].total > 0
      BY <2>2, <3>5 DEF Debited
    <3>8. PICK y : y = Steps(h)[4]
      OBVIOUS
    <3>9. Spent(y, cert[c], hold[h].amt, hold[h].forfeit)
      BY <3>3, <3>5, <3>8, StepsFacts
    <3>10. Sound(y)
      <4>1. \A i \in 1..4 : Sound(Steps(h)[i])
        BY <2>1, <3>5, <3>7 DEF CanPost
      <4> QED BY <3>8, <4>1
    <3>11. cert' = [cert EXCEPT ![c] = y]
      <4>1. \A d \in Certs : (\E g \in {h} : hold[g].cert = d) <=> d = c
        BY <3>3
      <4>2. (CHOOSE g \in {h} : hold[g].cert = c) = h
        BY <3>3
      <4>3. cert' = [d \in Certs |-> IF \E g \in {h} : hold[g].cert = d
                                     THEN Steps(CHOOSE g \in {h} : hold[g].cert = d)[4]
                                     ELSE cert[d]]
        <5>1. cert' = [d \in Certs |-> IF \E g \in Debited(o) : hold[g].cert = d
                                       THEN Steps(CHOOSE g \in Debited(o) : hold[g].cert = d)[4]
                                       ELSE cert[d]]
          BY <1>3 DEF Post
        <5>2. Debited(o) = {h}
          BY <3>7
        <5> QED BY <5>1, <5>2, Zenon
      <4>4. \A d \in Certs : cert'[d] = IF d = c THEN y ELSE cert[d]
        BY <3>8, <4>1, <4>2, <4>3
      <4>5. cert' = [d \in Certs |-> IF d = c THEN y ELSE cert[d]]
        BY <4>3, <4>4
      <4> QED BY <3>5, <4>5 DEF GiftInv, CertsOK
    <3>12. PICK z : z = [hold[h] EXCEPT !.status = "Consumed"]
      OBVIOUS
    <3>13. /\ z \in HoldType /\ z.status = "Consumed" /\ z.cert = c /\ z.order = o
           /\ z.amt = hold[h].amt /\ z.paid = hold[h].paid
      BY <3>2, <3>3, <3>5, <3>12 DEF HoldType
    <3>14. /\ hold' \in [Holds -> HoldType] /\ hold'[h] = z
           /\ \A g \in Holds \ {h} : hold'[g] = hold[g]
      <4>1. hold' = [g \in Holds |-> IF g = h THEN z ELSE hold[g]]
        BY <1>3, <3>7, <3>12 DEF Post
      <4> QED BY <1>1, <3>13, <4>1
    <3>15. OneHold(h, c, o)
      BY <1>3, <2>4, <2>6, <3>2, <3>3, <3>5, <3>13, <3>14 DEF OneHold
    <3>16. Change(h) = -hold[h].amt /\ Took(h) = hold[h].amt
      <4>1. Weight(h) = hold[h].amt
        BY <3>2 DEF Weight
      <4>2. Weight(h)' = 0
        BY <3>13, <3>14, NoneIsNoStatus DEF Weight
      <4>3. Took(h) = hold[h].amt
        BY <3>13, <3>14 DEF Took
      <4> QED BY <3>6, <4>1, <4>2, <4>3 DEF Change
    <3>17. /\ books' \in [in : Int, out : Int] /\ books'.in = books.in
           /\ books'.out = books.out + hold[h].forfeit /\ books.in \in Int /\ books.out \in Int
      <4> DEFINE F == [g \in Holds |-> hold[g].forfeit]
      <4>1. SumOver(F, {h}) = hold[h].forfeit
        <5>1. F[h] = hold[h].forfeit
          OBVIOUS
        <5> HIDE DEF F
        <5>2. IsFiniteSet({h}) /\ Ints(F, {h}) /\ h \in {h} /\ {h} \ {h} = {}
          <6>1. F[h] \in Int
            BY <3>6, <5>1
          <6>2. IsFiniteSet({h})
            BY FS_Singleton
          <6> QED BY <6>1, <6>2 DEF Ints
        <5>3. SumOver(F, {h}) = F[h] + SumOver(F, {h} \ {h})
          BY <5>2, SumRemove
        <5>4. SumOver(F, {h}) = F[h] + 0
          BY <5>2, <5>3, SumEmpty
        <5> QED BY <3>6, <5>1, <5>4
      <4>2. books' = [books EXCEPT !.out = books.out + SumOver(F, {h})]
        BY <1>3, <3>7 DEF Post
      <4> HIDE DEF F
      <4>3. PICK n \in Int : n = books.out + hold[h].forfeit
        BY <1>1, <3>6
      <4>4. books' = [books EXCEPT !.out = n]
        BY <4>1, <4>2, <4>3
      <4> QED BY <1>1, <4>3, <4>4, BooksOut
    <3>18. /\ y \in CertType /\ ~Unsold(y) /\ y.status # "Replaced"
           /\ y.reserved = cert[c].reserved + Change(h)
           /\ Balance(y) - Balance(cert[c]) + Took(h) = (books'.in - books.in) - (books'.out - books.out)
      <4>1. Balance(cert[c]) \in Int /\ cert[c].reserved \in Int
        BY <3>5, ComponentsInt
      <4>2. /\ y \in CertType /\ KindKept(y, cert[c]) /\ y.reserved = cert[c].reserved - hold[h].amt
            /\ Balance(y) = Balance(cert[c]) - hold[h].amt - hold[h].forfeit
        BY <3>9 DEF Spent
      <4>3. ~Unsold(y) /\ y.status # "Replaced"
        BY <3>5, <4>2 DEF KindKept
      <4>4. y.reserved = cert[c].reserved + Change(h)
        BY <3>6, <3>16, <4>1, <4>2
      <4>5. Balance(y) - Balance(cert[c]) + Took(h) = (books'.in - books.in) - (books'.out - books.out)
        BY <3>6, <3>16, <3>17, <4>1, <4>2
      <4> QED BY <4>2, <4>3, <4>4, <4>5
    <3>19. Typed'
      BY <2>6, <2>9, <3>14, <3>17 DEF Typed, Requested
    <3>20. order'[o].invoice = None => order'[o].total = HeldFor(o) + Change(h)
      BY <2>4, <2>6, NoneIsNoStatus
    <3> QED BY <2>7, <2>8, <2>9, <3>5, <3>10, <3>11, <3>15, <3>18, <3>19, <3>20, HoldStep
  <2> QED BY <2>10, <2>11
<1> QED BY <1>2, <1>3

\* Cash is paid, or the card is charged.
LEMMA PaidKeeps ==
  ASSUME GiftAssumption, GiftInv, NEW q \in Requests, PayByCash(q) \/ CardConfirms(q)
  PROVE  GiftInv'
<1>1. PICK o \in Orders : o = request[q].order
  BY DEF PayByCash, CardConfirms, GiftInv, Typed
<1>2. Post(o) /\ Outdate(o, q)
  BY <1>1 DEF PayByCash, CardConfirms
<1>3. Requested(request')
  BY <1>2, OutdateTyped
<1> QED BY <1>2, <1>3, PostKeeps

\* The bank says what became of a payment.
LEMMA StatusKeeps ==
  ASSUME GiftAssumption, GiftInv, NEW o \in Orders, CardStatus(o)
  PROVE  GiftInv'
<1>1. Outdate(o, None)
  BY DEF CardStatus
<1>2. Requested(request')
  BY <1>1, OutdateTyped
<1>3. CASE Post(o)
  BY <1>2, <1>3, PostKeeps
<1>4. CASE ~Post(o)
  <2>1. /\ Released(HoldsOf(o), "Released") /\ OrderDeclined(o)
        /\ Drop({o}, {hold[h].cert : h \in HoldsOf(o)}) /\ UNCHANGED <<back, books>>
    BY <1>4 DEF CardStatus, OrderDeclined
  <2> QED BY <1>2, <2>1, DeclineKeeps
<1> QED BY <1>3, <1>4

-----------------------------------------------------------------------------
(* Steps that change one return.                                           *)

\* The other returns keep all but whether their value was used.
OneBack(t) ==
    \A s \in Returns \ {t} :
        /\ back'[s].status = back[s].status /\ back'[s].order = back[s].order
        /\ back'[s].qty = back[s].qty /\ back'[s].amt = back[s].amt
        /\ back'[s].paid = back[s].paid /\ back'[s].to = back[s].to

\* What the earlier returns restored is a sum of integers.
LEMMA PriorInt ==
  ASSUME GiftAssumption, GiftInv, NEW p
  PROVE  Prior(p).qty \in Int /\ Prior(p).amt \in Int /\ Prior(p).paid \in Int
<1>1. IsFiniteSet(Returns) /\ Rows(p) \in SUBSET Returns
  BY DEF GiftAssumption, Rows, RestoredBy
<1>2. IsFiniteSet(Rows(p))
  BY <1>1, FS_Subset
<1>3. Ints(Units, Rows(p)) /\ Ints(Restored, Rows(p)) /\ Ints(RestoredPaid, Rows(p))
  BY <1>1 DEF GiftInv, Typed, BackType, Ints, Units, Restored, RestoredPaid
<1>4. /\ SumOver(Units, Rows(p)) \in Int /\ SumOver(Restored, Rows(p)) \in Int
      /\ SumOver(RestoredPaid, Rows(p)) \in Int
  BY <1>2, <1>3, SumInt
<1> QED BY <1>4 DEF Prior

\* The return that changes is the only row by which the earlier returns differ.
LEMMA RowsShift ==
  ASSUME GiftAssumption, GiftInv, Typed', NEW t \in Returns, OneBack(t), NEW p
  PROVE  /\ Shifted(Units, Units', Rows(p), Rows(p)', t)
         /\ Shifted(Restored, Restored', Rows(p), Rows(p)', t)
         /\ Shifted(RestoredPaid, RestoredPaid', Rows(p), Rows(p)', t)
<1>1. IsFiniteSet(Returns)
  BY DEF GiftAssumption
<1>2. PICK T \in SUBSET Returns : T = Rows(p)
  BY DEF Rows, RestoredBy
<1>3. PICK U \in SUBSET Returns : U = Rows(p)'
  BY DEF Rows, RestoredBy
<1>4. T \ {t} = U \ {t}
  BY <1>2, <1>3 DEF Rows, RestoredBy, OneBack
<1> DEFINE A == Units
           B == Units'
           C == Restored
           D == Restored'
           E == RestoredPaid
           F == RestoredPaid'
<1>5. Ints(A, Returns) /\ Ints(C, Returns) /\ Ints(E, Returns)
  BY DEF GiftInv, Typed, BackType, Ints, Units, Restored, RestoredPaid
<1>6. Ints(B, Returns) /\ Ints(D, Returns) /\ Ints(F, Returns)
  BY DEF Typed, BackType, Ints, Units, Restored, RestoredPaid
<1>7. \A s \in T \ {t} : A[s] = B[s] /\ C[s] = D[s] /\ E[s] = F[s]
  BY DEF OneBack, Units, Restored, RestoredPaid
<1> HIDE DEF A, B, C, D, E, F
<1>8. Shifted(A, B, T, U, t)
  BY <1>1, <1>4, <1>5, <1>6, <1>7, ShiftFacts
<1>9. Shifted(C, D, T, U, t)
  BY <1>1, <1>4, <1>5, <1>6, <1>7, ShiftFacts
<1>10. Shifted(E, F, T, U, t)
  BY <1>1, <1>4, <1>5, <1>6, <1>7, ShiftFacts
<1> QED BY <1>2, <1>3, <1>8, <1>9, <1>10 DEF A, B, C, D, E, F

\* What a return has restored for good, and how much more after a step.
Gain(t) == IF back[t].status = "posted" THEN back[t].amt ELSE 0

\* What all returns restored moves by what the return that changes brings.
LEMMA ReturnedMoves ==
  ASSUME GiftAssumption, GiftInv, Typed', NEW t \in Returns, OneBack(t)
  PROVE  SumOver(Restored, Returned)' = SumOver(Restored, Returned) + (Gain(t)' - Gain(t))
<1>1. IsFiniteSet(Returns)
  BY DEF GiftAssumption
<1>2. PICK T \in SUBSET Returns : T = Returned
  BY DEF Returned
<1>3. PICK U \in SUBSET Returns : U = Returned'
  BY DEF Returned
<1>4. T \ {t} = U \ {t}
  BY <1>2, <1>3 DEF Returned, OneBack
<1> DEFINE A == Restored
           B == Restored'
<1>5. Ints(A, Returns) /\ Ints(B, Returns)
  BY DEF GiftInv, Typed, BackType, Ints, Restored
<1>6. \A s \in T \ {t} : A[s] = B[s]
  BY DEF OneBack, Restored
<1>7. A[t] = back[t].amt /\ B[t] = back'[t].amt
  BY DEF Restored
<1>8. t \in T <=> back[t].status = "posted"
  BY <1>2 DEF Returned
<1>9. t \in U <=> back'[t].status = "posted"
  BY <1>3 DEF Returned
<1>10. Gain(t) = (IF t \in T THEN A[t] ELSE 0) /\ Gain(t)' = (IF t \in U THEN B[t] ELSE 0)
  BY <1>7, <1>8, <1>9 DEF Gain
<1>11. SumOver(Restored, Returned)' = SumOver(B, U)
  BY <1>3
<1> HIDE DEF A, B
<1>12. Shifted(A, B, T, U, t)
  BY <1>1, <1>4, <1>5, <1>6, ShiftFacts
<1>13. A[t] \in Int /\ B[t] \in Int
  BY <1>5 DEF Ints
<1>14. SumOver(A, T) \in Int
  BY <1>2, TermsInt DEF A
<1>15. SumOver(B, U) = SumOver(A, T) + (Gain(t)' - Gain(t))
  BY <1>10, <1>12, <1>13, <1>14 DEF Shifted
<1> QED BY <1>2, <1>11, <1>15 DEF A

PriorSame(p) == /\ Prior(p)'.qty = Prior(p).qty /\ Prior(p)'.amt = Prior(p).amt
                /\ Prior(p)'.paid = Prior(p).paid
PriorWith(p, t) == /\ Prior(p)'.qty = Prior(p).qty + back'[t].qty
                   /\ Prior(p)'.amt = Prior(p).amt + back'[t].amt
                   /\ Prior(p)'.paid = Prior(p).paid + back'[t].paid

\* The rows of an order add up to the same, or to more when a return gets one.
LEMMA PriorMoves ==
  ASSUME GiftAssumption, GiftInv, Typed', NEW t \in Returns, OneBack(t), NEW p
  PROVE  /\ (t \notin Rows(p) /\ t \notin Rows(p)') => PriorSame(p)
         /\ (t \in Rows(p) /\ t \in Rows(p)' /\ back'[t].qty = back[t].qty
               /\ back'[t].amt = back[t].amt /\ back'[t].paid = back[t].paid) => PriorSame(p)
         /\ (t \notin Rows(p) /\ t \in Rows(p)') => PriorWith(p, t)
<1>1. /\ Shifted(Units, Units', Rows(p), Rows(p)', t)
      /\ Shifted(Restored, Restored', Rows(p), Rows(p)', t)
      /\ Shifted(RestoredPaid, RestoredPaid', Rows(p), Rows(p)', t)
  BY RowsShift
<1>2. Prior(p).qty \in Int /\ Prior(p).amt \in Int /\ Prior(p).paid \in Int
  BY PriorInt
<1>3. /\ Prior(p).qty = SumOver(Units, Rows(p)) /\ Prior(p).amt = SumOver(Restored, Rows(p))
      /\ Prior(p).paid = SumOver(RestoredPaid, Rows(p))
  BY DEF Prior
<1>4. /\ Prior(p)'.qty = SumOver(Units', Rows(p)') /\ Prior(p)'.amt = SumOver(Restored', Rows(p)')
      /\ Prior(p)'.paid = SumOver(RestoredPaid', Rows(p)')
  BY DEF Prior
<1>5. /\ Units[t] = back[t].qty /\ Restored[t] = back[t].amt /\ RestoredPaid[t] = back[t].paid
      /\ Units'[t] = back'[t].qty /\ Restored'[t] = back'[t].amt /\ RestoredPaid'[t] = back'[t].paid
  BY DEF Units, Restored, RestoredPaid
<1>6. /\ back[t].qty \in Int /\ back[t].amt \in Int /\ back[t].paid \in Int
      /\ back'[t].qty \in Int /\ back'[t].amt \in Int /\ back'[t].paid \in Int
  BY DEF GiftInv, Typed, BackType
<1>7. ASSUME t \notin Rows(p), t \notin Rows(p)'
      PROVE  PriorSame(p)
  BY <1>1, <1>2, <1>3, <1>4, <1>5, <1>6, <1>7 DEF Shifted, PriorSame
<1>8. ASSUME t \in Rows(p), t \in Rows(p)', back'[t].qty = back[t].qty,
             back'[t].amt = back[t].amt, back'[t].paid = back[t].paid
      PROVE  PriorSame(p)
  BY <1>1, <1>2, <1>3, <1>4, <1>5, <1>6, <1>8 DEF Shifted, PriorSame
<1>9. ASSUME t \notin Rows(p), t \in Rows(p)'
      PROVE  PriorWith(p, t)
  BY <1>1, <1>2, <1>3, <1>4, <1>5, <1>6, <1>9 DEF Shifted, PriorWith
<1> QED BY <1>7, <1>8, <1>9

\* Of a return and what it restored.
ReturnKnown(t) ==
    /\ back'[t].order \in Orders /\ order[back'[t].order].invoice # None /\ back'[t].qty > 0
    /\ back'[t].status \in {"planned", "posted", "cancelled"}
    /\ back'[t].status = "planned" => back'[t].amt = 0 /\ back'[t].paid = 0
    /\ back'[t].amt > 0 => back'[t].to \in Certs /\ ~Unsold(cert'[back'[t].to])

\* One return changes, and one certificate with it.
LEMMA BackStep ==
  ASSUME GiftAssumption, GiftInv, NEW t \in Returns, OneBack(t), ReturnKnown(t),
         back' \in [Returns -> BackType], UNCHANGED <<hold, order, request, books>>,
         CertsOK(cert'), SoldKept(cert, cert'), ReservedKept(cert, cert'),
         TotalMoves(cert, cert', Gain(t)' - Gain(t)), QuotesFall,
         \A p \in Orders : \/ PriorSame(p)
                           \/ \A h \in Allocation(p) :
                                /\ Prior(p)'.amt <= hold[h].amt /\ Prior(p)'.paid <= hold[h].paid
                                /\ Prior(p)'.qty = Sold => Prior(p)'.amt = hold[h].amt
                                /\ Prior(p)'.amt = hold[h].amt => Prior(p)'.paid = hold[h].paid
  PROVE  GiftInv'
<1>1. Typed'
  BY DEF GiftInv, Typed
<1>2. SameHolds /\ OrdersKept
  BY DEF SameHolds, OrdersKept
<1>3. /\ HoldsKnown' /\ OneOpen' /\ OneTaken' /\ NoInvoiceYet'
      /\ HoldsAreReserved' /\ OrderTotalIsHeld' /\ Quoted'
  BY <1>2, StandingHolds
<1>4. BacksKnown'
  <2> SUFFICES ASSUME NEW s \in Returns
               PROVE  /\ back'[s].status # None => back'[s].order \in Orders
                                          /\ order'[back'[s].order].invoice # None /\ back'[s].qty > 0
                      /\ back'[s].status \notin {"posted", "cancelled"} => back'[s].amt = 0 /\ back'[s].paid = 0
                      /\ back'[s].amt > 0 => back'[s].to \in Certs /\ ~Unsold(cert'[back'[s].to])
    BY DEF BacksKnown, Unsold
  <2>1. CASE s = t
    BY <2>1 DEF ReturnKnown
  <2>2. CASE s # t
    <3>1. /\ back[s].status # None => back[s].order \in Orders
                                        /\ order[back[s].order].invoice # None /\ back[s].qty > 0
          /\ back[s].status \notin {"posted", "cancelled"} => back[s].amt = 0 /\ back[s].paid = 0
          /\ back[s].amt > 0 => back[s].to \in Certs /\ ~Unsold(cert[back[s].to])
      BY DEF GiftInv, BacksKnown
    <3>2. /\ back'[s].status = back[s].status /\ back'[s].order = back[s].order
          /\ back'[s].qty = back[s].qty /\ back'[s].amt = back[s].amt
          /\ back'[s].paid = back[s].paid /\ back'[s].to = back[s].to
      BY <2>2 DEF OneBack
    <3> QED BY <3>1, <3>2 DEF SoldKept
  <2> QED BY <2>1, <2>2
<1>5. RestoredExactly'
  <2> SUFFICES ASSUME NEW p \in Orders, NEW h \in Allocation(p)'
               PROVE  /\ Prior(p)'.amt <= hold[h].amt /\ Prior(p)'.paid <= hold[h].paid
                      /\ Prior(p)'.qty = Sold => Prior(p)'.amt = hold[h].amt
                      /\ Prior(p)'.amt = hold[h].amt => Prior(p)'.paid = hold[h].paid
    BY DEF RestoredExactly
  <2>1. h \in Allocation(p)
    BY DEF Allocation
  <2>2. CASE PriorSame(p)
    <3>1. /\ Prior(p).amt <= hold[h].amt /\ Prior(p).paid <= hold[h].paid
          /\ Prior(p).qty = Sold => Prior(p).amt = hold[h].amt
          /\ Prior(p).amt = hold[h].amt => Prior(p).paid = hold[h].paid
      BY <2>1 DEF GiftInv, RestoredExactly
    <3> QED BY <2>2, <3>1 DEF PriorSame
  <2>3. CASE ~PriorSame(p)
    BY <2>1, <2>3
  <2> QED BY <2>2, <2>3
<1>6. ValueAddsUp'
  <2>1. SumOver(Restored, Returned)' = SumOver(Restored, Returned) + (Gain(t)' - Gain(t))
    BY <1>1, ReturnedMoves
  <2>2. SumOver(Amounts, Billed)' = SumOver(Amounts, Billed)
    BY DEF Amounts, Billed
  <2>3. SumOver(Balances, Certs)' = SumOver(Balances, Certs) + (Gain(t)' - Gain(t))
    BY DEF TotalMoves, Balances, BalancesOf
  <2>4. Gain(t) \in Int /\ Gain(t)' \in Int
    BY <1>1 DEF GiftInv, Typed, BackType, Gain
  <2>5. SumOver(Balances, Certs) + SumOver(Amounts, Billed) + books.out
          = books.in + SumOver(Restored, Returned)
    BY DEF GiftInv, ValueAddsUp
  <2>6. SumOver(Balances, Certs)' + SumOver(Amounts, Billed)' + books'.out
          = books'.in + SumOver(Restored, Returned)'
    BY <2>1, <2>2, <2>3, <2>4, <2>5, TermsInt
  <2> QED BY <2>6 DEF ValueAddsUp
<1> QED BY <1>1, <1>3, <1>4, <1>5, <1>6 DEF GiftInv

\* A return order is made: nothing is restored yet.
LEMMA CreateKeeps ==
  ASSUME GiftAssumption, GiftInv, NEW t \in Returns, NEW o \in Orders, NEW n \in 1..Sold,
         CreateReturn(t, o, n)
  PROVE  GiftInv'
<1>1. back \in [Returns -> BackType] /\ back[t] \in BackType
  BY DEF GiftInv, Typed
<1>2. PICK z : z = [back[t] EXCEPT !.status = "planned", !.order = o, !.qty = n]
  OBVIOUS
<1>3. n \in Nat /\ n > 0
  BY DEF GiftAssumption
<1>4. /\ z \in BackType /\ z.status = "planned" /\ z.order = o /\ z.qty = n /\ z.amt = back[t].amt
      /\ z.paid = back[t].paid
  BY <1>1, <1>2, <1>3 DEF BackType
<1>5. /\ back[t].status = None /\ order[o].invoice = "posted" /\ back' = [back EXCEPT ![t] = z]
      /\ UNCHANGED <<cert, hold, order, quote, request, sweep, books>>
  BY <1>1, <1>2 DEF CreateReturn
<1>6. back' \in [Returns -> BackType] /\ back'[t] = z /\ \A s \in Returns \ {t} : back'[s] = back[s]
  BY <1>1, <1>4, <1>5
<1>7. OneBack(t)
  BY <1>6 DEF OneBack
<1>8. back[t].amt = 0 /\ back[t].paid = 0
  BY <1>5, NoneIsNoStatus DEF GiftInv, BacksKnown
<1>9. ReturnKnown(t)
  BY <1>3, <1>4, <1>5, <1>6, <1>8, NoneIsNoStatus DEF ReturnKnown
<1>10. Typed'
  BY <1>5, <1>6 DEF GiftInv, Typed
<1>11. \A p \in Orders : PriorSame(p)
  <2> SUFFICES ASSUME NEW p \in Orders PROVE PriorSame(p)
    OBVIOUS
  <2>1. t \notin Rows(p) /\ t \notin Rows(p)'
    BY <1>4, <1>6, <1>8 DEF Rows
  <2> QED BY <1>7, <1>10, <2>1, PriorMoves
<1>12. Gain(t)' - Gain(t) = 0
  BY <1>4, <1>5, <1>6, NoneIsNoStatus DEF Gain
<1>13. QuotesFall
  BY <1>5, QuotesStand
<1>14. /\ CertsOK(cert') /\ SoldKept(cert, cert') /\ ReservedKept(cert, cert')
       /\ TotalMoves(cert, cert', Gain(t)' - Gain(t))
  BY <1>5, <1>12, CertsStand
<1> QED BY <1>5, <1>6, <1>7, <1>9, <1>11, <1>13, <1>14, BackStep

-----------------------------------------------------------------------------
(* Returns and cancellations.                                              *)

\* The smaller of a rounded share and what is left.
LEMMA LeastShare ==
  ASSUME NEW r \in Nat, NEW d \in Nat
  PROVE  Min({r, d}) \in Nat /\ Min({r, d}) <= d /\ Min({d, r}) \in Nat /\ Min({d, r}) <= d
<1>1. r \in Int /\ d \in Int
  OBVIOUS
<1>2. Min({r, d}) \in {r, d} /\ Min({r, d}) <= d
  BY <1>1, MinOfTwo
<1>3. Min({d, r}) \in {d, r} /\ Min({d, r}) <= d
  BY <1>1, MinOfTwo
<1> QED BY <1>2, <1>3

\* A return restores what is left of an allocation, or less of it.
LEMMA ShareFits ==
  ASSUME GiftAssumption, NEW h, NEW a \in Nat, hold[h].amt = a, NEW n \in Nat, NEW prior,
         NEW d \in Nat, d = a - prior.amt
  PROVE  /\ RestoreShare(h, n, prior) \in Nat /\ RestoreShare(h, n, prior) <= d
         /\ prior.qty + n = Sold => RestoreShare(h, n, prior) = d
<1>1. Sold \in Nat \ {0}
  BY DEF GiftAssumption
<1>2. PICK r \in Nat : r = Round(a * n, Sold)
  BY <1>1, ProductNat, RoundNat
<1>3. RestoreShare(h, n, prior) = IF prior.qty + n = Sold THEN d ELSE Min({r, d})
  BY <1>2 DEF RestoreShare
<1>4. Min({r, d}) \in Nat /\ Min({r, d}) <= d
  BY LeastShare
<1> QED BY <1>3, <1>4

\* The paid part that is restored fits in what is left of it, and the last
\* restoration takes all of it.
LEMMA PaidFits ==
  ASSUME NEW h, NEW a \in Nat \ {0}, hold[h].amt = a, NEW x \in Nat, NEW p \in Nat, hold[h].paid = p,
         NEW prior, NEW d \in Nat, d = a - prior.amt, NEW e \in Nat, e = p - prior.paid
  PROVE  /\ RestorePaid(h, x, prior) \in Nat /\ RestorePaid(h, x, prior) <= e
         /\ x = d => RestorePaid(h, x, prior) = e
<1>1. PICK r \in Nat : r = Round(x * p, a)
  BY ProductNat, RoundNat
<1>2. RestorePaid(h, x, prior) = IF x = d THEN e ELSE Min({e, r})
  BY <1>1 DEF RestorePaid
<1>3. Min({e, r}) \in Nat /\ Min({e, r}) <= e
  BY LeastShare
<1> QED BY <1>2, <1>3

\* What is known of an allocation, and of what is left of it.
LEMMA LeftFacts ==
  ASSUME GiftAssumption, GiftInv, NEW o \in Orders, NEW h \in Allocation(o)
  PROVE  /\ h \in Holds /\ hold[h].cert \in Certs /\ ~Unsold(cert[hold[h].cert])
         /\ hold[h].amt \in Nat \ {0} /\ hold[h].paid \in Nat
         /\ hold[h].amt - Prior(o).amt \in Nat /\ hold[h].paid - Prior(o).paid \in Nat
         /\ \A g \in Allocation(o) : g = h
<1>1. h \in Holds /\ hold[h].status = "Consumed"
  BY DEF Allocation
<1>2. hold[h] \in HoldType
  BY <1>1 DEF GiftInv, Typed
<1>3. hold[h].cert \in Certs /\ ~Unsold(cert[hold[h].cert]) /\ hold[h].amt > 0
  BY <1>1, NoneIsNoStatus DEF GiftInv, HoldsKnown
<1>4. hold[h].amt \in Nat \ {0} /\ hold[h].paid \in Nat
  BY <1>2, <1>3 DEF HoldType
<1>5. Prior(o).amt <= hold[h].amt /\ Prior(o).paid <= hold[h].paid
  BY DEF GiftInv, RestoredExactly
<1>6. Prior(o).amt \in Int /\ Prior(o).paid \in Int
  BY PriorInt
<1>7. hold[h].amt - Prior(o).amt \in Nat
  BY <1>4, <1>5, <1>6
<1>8. hold[h].paid - Prior(o).paid \in Nat
  BY <1>4, <1>5, <1>6
<1>9. \A g \in Allocation(o) : g = h
  BY DEF GiftInv, OneTaken
<1> QED BY <1>1, <1>3, <1>4, <1>7, <1>8, <1>9

\* The return t of order o restores its share of allocation h.
RestoresTo(t, o, h, target) ==
    LET amount == RestoreShare(h, back[t].qty, Prior(o))
        paid   == RestorePaid(h, amount, Prior(o))
    IN  IF amount = 0
        THEN /\ back' = [back EXCEPT ![t].status = "posted"]
             /\ UNCHANGED <<cert, quote>>
        ELSE /\ RestoreTo(target, amount, paid)
             /\ back' = [back EXCEPT ![t].status = "posted", ![t].amt = amount,
                                     ![t].paid = paid, ![t].to = target.to]
             /\ Drop({}, {target.to})

\* A return is completed, and the share it restores is where it can be spent.
LEMMA PostReturnKeeps ==
  ASSUME GiftAssumption, GiftInv, NEW t \in Returns, PostReturn(t)
  PROVE  GiftInv'
<1>1. back \in [Returns -> BackType] /\ back[t] \in BackType
  BY DEF GiftInv, Typed
<1>2. PICK o : o = back[t].order
  OBVIOUS
<1>3. /\ back[t].status = "planned" /\ order[o].invoice = "posted"
      /\ Prior(o).qty + back[t].qty <= Sold
      /\ UNCHANGED <<hold, order, request, sweep, books>>
  BY <1>2 DEF PostReturn
<1>4. o \in Orders /\ order[o].invoice # None /\ back[t].qty > 0 /\ back[t].amt = 0 /\ back[t].paid = 0
  BY <1>2, <1>3, NoneIsNoStatus DEF GiftInv, BacksKnown
<1>5. back[t].qty \in Nat
  BY <1>1 DEF BackType
<1>6. PICK h \in Allocation(o) : \E target \in Targets(hold[h].cert) : RestoresTo(t, o, h, target)
  BY <1>2 DEF PostReturn, RestoresTo
<1>7. /\ h \in Holds /\ hold[h].cert \in Certs /\ ~Unsold(cert[hold[h].cert])
      /\ hold[h].amt \in Nat \ {0} /\ hold[h].paid \in Nat
      /\ hold[h].amt - Prior(o).amt \in Nat /\ hold[h].paid - Prior(o).paid \in Nat
      /\ \A g \in Allocation(o) : g = h
  BY <1>4, LeftFacts
<1>8. PICK d \in Nat, e \in Nat : d = hold[h].amt - Prior(o).amt /\ e = hold[h].paid - Prior(o).paid
  BY <1>7
<1>9. PICK x : x = RestoreShare(h, back[t].qty, Prior(o))
  OBVIOUS
<1>10. PICK y : y = RestorePaid(h, x, Prior(o))
  OBVIOUS
<1>11. x \in Nat /\ x <= d /\ (Prior(o).qty + back[t].qty = Sold => x = d)
  BY <1>5, <1>7, <1>8, <1>9, ShareFits
<1>12. y \in Nat /\ y <= e /\ (x = d => y = e)
  <2>1. PICK a \in Nat \ {0}, p \in Nat : a = hold[h].amt /\ p = hold[h].paid
    BY <1>7
  <2>2. PICK r : r = Prior(o)
    OBVIOUS
  <2>3. d = a - r.amt /\ e = p - r.paid /\ x \in Nat /\ hold[h].amt = a /\ hold[h].paid = p
    BY <1>8, <1>11, <2>1, <2>2
  <2>4. RestorePaid(h, x, r) \in Nat /\ RestorePaid(h, x, r) <= e /\ (x = d => RestorePaid(h, x, r) = e)
    BY <2>3, PaidFits
  <2> QED BY <1>10, <2>2, <2>4
<1>13. t \notin Rows(o) /\ \A p \in Orders : p # o => t \notin Rows(p)
  BY <1>2, <1>4 DEF Rows, RestoredBy
<1>14. Prior(o).qty \in Int /\ Prior(o).amt \in Int /\ Prior(o).paid \in Int
  BY PriorInt
<1>15. PICK target \in Targets(hold[h].cert) : RestoresTo(t, o, h, target)
  BY <1>6
<1>16. CASE x = 0
  <2>1. back' = [back EXCEPT ![t].status = "posted"] /\ UNCHANGED <<cert, quote>>
    BY <1>9, <1>15, <1>16 DEF RestoresTo
  <2>2. PICK z : z = [back[t] EXCEPT !.status = "posted"]
    OBVIOUS
  <2>3. /\ z \in BackType /\ z.status = "posted" /\ z.order = o /\ z.qty = back[t].qty
        /\ z.amt = 0 /\ z.paid = 0
    BY <1>1, <1>2, <1>4, <2>2 DEF BackType
  <2>4. back' \in [Returns -> BackType] /\ back'[t] = z /\ \A s \in Returns \ {t} : back'[s] = back[s]
    BY <1>1, <2>1, <2>2, <2>3
  <2>5. OneBack(t)
    BY <2>4 DEF OneBack
  <2>6. ReturnKnown(t)
    BY <1>4, <2>3, <2>4 DEF ReturnKnown
  <2>7. Typed'
    BY <1>3, <2>4 DEF GiftInv, Typed
  <2>8. \A p \in Orders : PriorSame(p)
    <3> SUFFICES ASSUME NEW p \in Orders PROVE PriorSame(p)
      OBVIOUS
    <3>1. t \notin Rows(p)
      BY <1>13
    <3>2. t \notin Rows(p)'
      BY <2>3, <2>4 DEF Rows
    <3> QED BY <2>5, <2>7, <3>1, <3>2, PriorMoves
  <2>9. Gain(t)' - Gain(t) = 0
    BY <1>3, <2>3, <2>4 DEF Gain
  <2>10. QuotesFall
    BY <2>1, QuotesStand
  <2>11. /\ CertsOK(cert') /\ SoldKept(cert, cert') /\ ReservedKept(cert, cert')
         /\ TotalMoves(cert, cert', Gain(t)' - Gain(t))
    BY <2>1, <2>9, CertsStand
  <2> QED BY <1>3, <2>4, <2>5, <2>6, <2>8, <2>10, <2>11, BackStep
<1>17. CASE x # 0
  <2>1. /\ RestoreTo(target, x, y) /\ Drop({}, {target.to})
        /\ back' = [back EXCEPT ![t].status = "posted", ![t].amt = x, ![t].paid = y, ![t].to = target.to]
    BY <1>9, <1>10, <1>15, <1>17 DEF RestoresTo
  <2>2. CertsOK(cert)
    BY DEF GiftInv
  <2>3. x \in Int /\ y \in Int
    BY <1>11, <1>12
  <2>4. /\ CertsOK(cert') /\ SoldKept(cert, cert') /\ TotalMoves(cert, cert', x)
        /\ ReservedKept(cert, cert') /\ target.to \in Certs /\ ~Unsold(cert'[target.to])
    BY <1>7, <2>1, <2>2, <2>3, RestoreFacts
  <2>5. PICK n \in Certs : n = target.to
    BY <2>4
  <2>6. PICK z : z = [back[t] EXCEPT !.status = "posted", !.amt = x, !.paid = y, !.to = n]
    OBVIOUS
  <2>7. /\ z \in BackType /\ z.status = "posted" /\ z.order = o /\ z.qty = back[t].qty
        /\ z.amt = x /\ z.paid = y /\ z.to = n
    BY <1>1, <1>2, <1>11, <1>12, <2>6 DEF BackType
  <2>8. back' = [back EXCEPT ![t] = z]
    BY <1>1, <2>1, <2>5, <2>6
  <2>9. back' \in [Returns -> BackType] /\ back'[t] = z /\ \A s \in Returns \ {t} : back'[s] = back[s]
    BY <1>1, <2>7, <2>8
  <2>10. OneBack(t)
    BY <2>9 DEF OneBack
  <2>11. ReturnKnown(t)
    BY <1>4, <2>4, <2>5, <2>7, <2>9 DEF ReturnKnown
  <2>12. Typed'
    BY <1>3, <2>9 DEF GiftInv, Typed
  <2>13. t \in Rows(o)' /\ \A p \in Orders : p # o => t \notin Rows(p)'
    BY <1>11, <1>17, <2>7, <2>9 DEF Rows, RestoredBy
  <2>14. PriorWith(o, t)
    BY <1>13, <2>10, <2>12, <2>13, PriorMoves
  <2>15. /\ Prior(o)'.qty = Prior(o).qty + back[t].qty /\ Prior(o)'.amt = Prior(o).amt + x
         /\ Prior(o)'.paid = Prior(o).paid + y
    BY <2>7, <2>9, <2>14 DEF PriorWith
  <2>16. /\ Prior(o)'.amt <= hold[h].amt /\ Prior(o)'.paid <= hold[h].paid
         /\ Prior(o)'.qty = Sold => Prior(o)'.amt = hold[h].amt
         /\ Prior(o)'.amt = hold[h].amt => Prior(o)'.paid = hold[h].paid
    BY <1>7, <1>8, <1>11, <1>12, <1>14, <2>15
  <2>17. ASSUME NEW p \in Orders
         PROVE  \/ PriorSame(p)
                \/ \A g \in Allocation(p) :
                     /\ Prior(p)'.amt <= hold[g].amt /\ Prior(p)'.paid <= hold[g].paid
                     /\ Prior(p)'.qty = Sold => Prior(p)'.amt = hold[g].amt
                     /\ Prior(p)'.amt = hold[g].amt => Prior(p)'.paid = hold[g].paid
    <3>1. CASE p = o
      BY <1>7, <2>16, <3>1
    <3>2. CASE p # o
      BY <1>13, <2>10, <2>12, <2>13, <3>2, PriorMoves
    <3> QED BY <3>1, <3>2
  <2>18. Gain(t)' - Gain(t) = x
    BY <1>3, <1>11, <2>7, <2>9 DEF Gain
  <2>19. QuotesFall
    BY <2>1, DropFacts
  <2>20. TotalMoves(cert, cert', Gain(t)' - Gain(t))
    BY <2>4, <2>18
  <2> QED BY <1>3, <2>4, <2>9, <2>10, <2>11, <2>17, <2>19, <2>20, BackStep
<1> QED BY <1>16, <1>17

\* A return is cancelled: what it restored is taken from the certificate again.
LEMMA CancelReturnKeeps ==
  ASSUME GiftAssumption, GiftInv, NEW t \in Returns, CancelReturn(t)
  PROVE  GiftInv'
<1>1. back \in [Returns -> BackType] /\ back[t] \in BackType
  BY DEF GiftInv, Typed
<1>2. PICK c : c = back[t].to
  OBVIOUS
<1>3. PICK p, a \in Int : p = back[t].paid /\ a = back[t].amt
  BY <1>1 DEF BackType
<1>4. PICK y : y = Entry(Entry(cert[c], "Redeem", -p, 0, 0), "Redeem", 0, -(a - p), 0)
  OBVIOUS
<1>5. /\ back[t].status = "posted" /\ a > 0 /\ Sound(y) /\ cert' = [cert EXCEPT ![c] = y]
      /\ back' = [s \in Returns |-> IF s = t THEN [back[t] EXCEPT !.status = "cancelled"]
                                     ELSE [back[s] EXCEPT !.used = Used(s, c)]]
      /\ Drop({}, {c}) /\ UNCHANGED <<hold, order, request, sweep, books>>
  BY <1>2, <1>3, <1>4 DEF CancelReturn
<1>6. c \in Certs /\ ~Unsold(cert[c])
  BY <1>2, <1>3, <1>5 DEF GiftInv, BacksKnown
<1>7. /\ back[t].order \in Orders /\ order[back[t].order].invoice # None /\ back[t].qty > 0
  BY <1>5, NoneIsNoStatus DEF GiftInv, BacksKnown
<1>8. cert[c] \in CertType
  BY <1>6 DEF GiftInv, CertsOK
<1>9. -p \in Int /\ -(a - p) \in Int
  BY <1>3
<1>10. Adds(y, cert[c], -p, -(a - p), 0) /\ KindKept(y, cert[c])
  BY <1>4, <1>8, <1>9, EntriesFacts
<1>11. cert[c].paid \in Int /\ cert[c].promo \in Int /\ cert[c].reserved \in Int /\ Balance(cert[c]) \in Int
  BY <1>8, ComponentsInt
<1>12. /\ y \in CertType /\ y.reserved = cert[c].reserved /\ Balance(y) - Balance(cert[c]) = 0 - a
       /\ Balance(y) = Balance(cert[c]) - a
  BY <1>3, <1>10, <1>11 DEF Adds, Balance
<1>13. cert[c].status # "Replaced"
  <2> SUFFICES ASSUME cert[c].status = "Replaced" PROVE FALSE
    OBVIOUS
  <2>1. Balance(cert[c]) = 0
    BY <1>6 DEF GiftInv, CertsOK, Empty
  <2>2. y.paid \in Int /\ y.promo \in Int
    BY <1>12, ComponentsInt
  <2>3. Balance(y) >= 0
    BY <1>5, <2>2 DEF Sound, Balance
  <2> QED BY <1>3, <1>5, <1>12, <2>1, <2>3
<1>14. ~Unsold(y) /\ y.status # "Replaced"
  BY <1>6, <1>10, <1>13 DEF KindKept
<1>15. /\ CertsOK(cert') /\ SoldKept(cert, cert')
       /\ TotalMoves(cert, cert', Balance(y) - Balance(cert[c])) /\ ReservedKept(cert, cert')
  BY <1>5, <1>6, <1>12, <1>13, <1>14, ChangeOne DEF GiftInv
<1>16. PICK z : z = [back[t] EXCEPT !.status = "cancelled"]
  OBVIOUS
<1>17. /\ z \in BackType /\ z.status = "cancelled" /\ z.order = back[t].order /\ z.qty = back[t].qty
       /\ z.amt = back[t].amt /\ z.paid = back[t].paid /\ z.to = c
  BY <1>1, <1>2, <1>16 DEF BackType
<1>18. back'[t] = z
  BY <1>5, <1>16
<1>19. ASSUME NEW s \in Returns, s # t
       PROVE  /\ back'[s] \in BackType
              /\ back'[s].status = back[s].status /\ back'[s].order = back[s].order
              /\ back'[s].qty = back[s].qty /\ back'[s].amt = back[s].amt
              /\ back'[s].paid = back[s].paid /\ back'[s].to = back[s].to
  <2>1. back[s] \in BackType
    BY <1>1
  <2>2. PICK u \in BOOLEAN : u <=> Used(s, c)
    OBVIOUS
  <2>3. Used(s, c) = u
    <3>1. back[s].used \in BOOLEAN
      BY <2>1 DEF BackType
    <3> QED BY <2>2, <3>1 DEF Used
  <2>4. back'[s] = [back[s] EXCEPT !.used = u]
    BY <1>5, <1>19, <2>3
  <2> QED BY <2>1, <2>4 DEF BackType
<1>20. back' \in [Returns -> BackType]
  <2>1. back' = [s \in Returns |-> back'[s]]
    BY <1>5
  <2> QED BY <1>17, <1>18, <1>19, <2>1
<1>21. OneBack(t)
  BY <1>19 DEF OneBack
<1>22. ~Unsold(cert'[c])
  BY <1>6, <1>15 DEF SoldKept
<1>23. ReturnKnown(t)
  BY <1>6, <1>7, <1>17, <1>18, <1>22 DEF ReturnKnown
<1>24. Typed'
  BY <1>5, <1>20 DEF GiftInv, Typed
<1>25. ASSUME NEW q \in Orders
       PROVE  PriorSame(q)
  <2>1. t \in Rows(q) <=> back[t].order = q
    BY <1>3, <1>5 DEF Rows, RestoredBy
  <2>2. t \in Rows(q)' <=> back[t].order = q
    BY <1>3, <1>5, <1>17, <1>18 DEF Rows, RestoredBy
  <2> QED BY <1>17, <1>18, <1>21, <1>24, <2>1, <2>2, PriorMoves
<1>26. Gain(t)' - Gain(t) = 0 - a
  BY <1>3, <1>5, <1>17, <1>18 DEF Gain
<1>27. TotalMoves(cert, cert', Gain(t)' - Gain(t))
  BY <1>12, <1>15, <1>26
<1>28. QuotesFall
  BY <1>5, DropFacts
<1> QED BY <1>5, <1>15, <1>20, <1>21, <1>23, <1>25, <1>27, <1>28, BackStep

\* The invoice of a sale is cancelled: all it redeemed is restored.
LEMMA CancelSaleKeeps ==
  ASSUME GiftAssumption, GiftInv, NEW o \in Orders, CancelSale(o)
  PROVE  GiftInv'
<1>1. order \in [Orders -> OrderType] /\ order[o] \in OrderType
  BY DEF GiftInv, Typed
<1>2. /\ order[o].invoice = "posted" /\ order' = [order EXCEPT ![o].invoice = "cancelled"]
      /\ UNCHANGED <<hold, request, back, sweep, books>>
  BY DEF CancelSale
<1>3. PICK h \in Allocation(o) : \E target \in Targets(hold[h].cert) :
         RestoreTo(target, hold[h].amt, hold[h].paid) /\ Drop({}, {target.to})
  BY DEF CancelSale
<1>4. /\ h \in Holds /\ hold[h].cert \in Certs /\ ~Unsold(cert[hold[h].cert])
      /\ hold[h].amt \in Nat \ {0} /\ hold[h].paid \in Nat /\ \A g \in Allocation(o) : g = h
  BY LeftFacts
<1>5. PICK target \in Targets(hold[h].cert) :
         RestoreTo(target, hold[h].amt, hold[h].paid) /\ Drop({}, {target.to})
  BY <1>3
<1>6. PICK a \in Int, p \in Int : a = hold[h].amt /\ p = hold[h].paid
  BY <1>4
<1>7. CertsOK(cert') /\ SoldKept(cert, cert') /\ TotalMoves(cert, cert', a) /\ ReservedKept(cert, cert')
  <2>1. CertsOK(cert) /\ RestoreTo(target, a, p)
    BY <1>5, <1>6 DEF GiftInv
  <2> QED BY <1>4, <2>1, RestoreFacts
<1>8. PICK x : x = [order[o] EXCEPT !.invoice = "cancelled"]
  OBVIOUS
<1>9. x \in OrderType /\ x.status = order[o].status /\ x.total = order[o].total /\ x.invoice = "cancelled"
  BY <1>1, <1>8 DEF OrderType
<1>10. order' = [order EXCEPT ![o] = x]
  BY <1>2, <1>8
<1>11. order' \in [Orders -> OrderType] /\ order'[o] = x /\ \A q \in Orders : q # o => order'[q] = order[q]
  BY <1>1, <1>9, <1>10
<1>12. order[o].status # "Building"
  BY <1>2, NoneIsNoStatus DEF GiftInv, NoInvoiceYet
<1>13. OrdersKept
  BY <1>9, <1>11, <1>12, NoneIsNoStatus DEF OrdersKept
<1>14. SameHolds
  BY <1>2 DEF SameHolds
<1>15. QuotesFall
  BY <1>5, DropFacts
<1>16. Typed'
  BY <1>2, <1>11 DEF GiftInv, Typed
<1>17. /\ HoldsKnown' /\ OneOpen' /\ OneTaken' /\ NoInvoiceYet'
       /\ HoldsAreReserved' /\ OrderTotalIsHeld' /\ Quoted'
  BY <1>7, <1>13, <1>14, <1>15, StandingHolds
<1>18. BacksKnown' /\ RestoredExactly'
  BY <1>2, <1>7, <1>13, <1>14, StandingBacks
<1>19. ValueAddsUp'
  <2>1. PICK T \in SUBSET Holds : T = Billed
    BY DEF Billed
  <2>2. h \in T
    BY <1>2, <1>4, <2>1 DEF Billed, Allocation
  <2>3. Billed' = T \ {h}
    <3>1. \A g \in Holds : g # h => (hold[g].status = "Consumed" => hold[g].order # o)
      BY <1>4 DEF Allocation
    <3>2. h \notin Billed'
      BY <1>2, <1>9, <1>11 DEF Billed, Allocation
    <3>3. \A g \in Holds : hold[g].status = "Consumed" => hold[g].order \in Orders
      BY NoneIsNoStatus DEF GiftInv, HoldsKnown
    <3>4. \A g \in Holds : g # h => (g \in Billed' <=> g \in T)
      BY <1>2, <1>11, <2>1, <3>1, <3>3 DEF Billed
    <3> QED BY <3>2, <3>4 DEF Billed
  <2>4. IsFiniteSet(Holds) /\ Ints(Amounts, Holds)
    BY AmountsNat DEF GiftInv, GiftAssumption
  <2>5. IsFiniteSet(T) /\ Ints(Amounts, T) /\ Amounts[h] = a
    BY <1>4, <1>6, <2>4, FS_Subset DEF Ints, Amounts
  <2>6. SumOver(Amounts, T) = a + SumOver(Amounts, T \ {h})
    BY <2>2, <2>5, SumRemove
  <2>7. SumOver(Amounts, Billed)' = SumOver(Amounts, T \ {h})
    <3>1. Amounts' = Amounts
      BY <1>2 DEF Amounts
    <3> QED BY <2>3, <3>1
  <2>8. SumOver(Amounts, T \ {h}) \in Int
    <3>1. IsFiniteSet(T \ {h}) /\ Ints(Amounts, T \ {h})
      BY <2>5, FS_Subset DEF Ints
    <3> QED BY <3>1, SumInt
  <2>9. SumOver(Balances, Certs)' = SumOver(Balances, Certs) + a
    BY <1>7 DEF TotalMoves, Balances, BalancesOf
  <2>10. SumOver(Restored, Returned)' = SumOver(Restored, Returned)
    BY <1>2 DEF Restored, Returned
  <2>11. SumOver(Balances, Certs) + SumOver(Amounts, T) + books.out
          = books.in + SumOver(Restored, Returned)
    BY <2>1 DEF GiftInv, ValueAddsUp
  <2>12. SumOver(Balances, Certs)' + SumOver(Amounts, Billed)' + books'.out
          = books'.in + SumOver(Restored, Returned)'
    BY <1>2, <1>6, <2>6, <2>7, <2>8, <2>9, <2>10, <2>11, TermsInt
  <2> QED BY <2>12 DEF ValueAddsUp
<1> QED BY <1>7, <1>16, <1>17, <1>18, <1>19 DEF GiftInv

-----------------------------------------------------------------------------
(* The theorems.                                                           *)

\* Certificates that are offered, or are names for heirs, carry nothing.
LEMMA InitCerts ==
  ASSUME GiftAssumption, Init
  PROVE  CertsOK(cert) /\ (\A c \in Certs : Balance(cert[c]) = 0 /\ cert[c].reserved = 0)
<1>1. ASSUME NEW c \in Certs
      PROVE  /\ cert[c] \in CertType /\ cert[c].paid = 0 /\ cert[c].promo = 0 /\ cert[c].reserved = 0
             /\ cert[c].status \in {"Issued", None}
  <2>1. cert[c] \in [status : {"Issued", None}, paid : {0}, promo : {0}, reserved : {0},
                     redeemed : {FALSE}, due : {FALSE}, single : BOOLEAN, by : {None}]
    BY DEF Init
  <2>2. PICK y : y = cert[c]
    OBVIOUS
  <2>3. y.status \in {"Issued", None}
    BY <2>1, <2>2
  <2>4. /\ y.paid = 0 /\ y.promo = 0 /\ y.reserved = 0
        /\ y.redeemed = FALSE /\ y.due = FALSE /\ y.single \in BOOLEAN /\ y.by = None
    BY <2>1, <2>2
  <2>5. y = [status |-> y.status, paid |-> y.paid, promo |-> y.promo, reserved |-> y.reserved,
             redeemed |-> y.redeemed, due |-> y.due, single |-> y.single, by |-> y.by]
    BY <2>1, <2>2
  <2>6. y.status \in CertStatus
    BY <2>3, Zenon DEF CertStatus
  <2>7. /\ y.paid \in Int /\ y.promo \in Int /\ y.reserved \in Int /\ y.redeemed \in BOOLEAN
        /\ y.due \in BOOLEAN /\ y.single \in BOOLEAN /\ y.by \in Spares \cup {None}
    <3>1. y.paid \in Int /\ y.promo \in Int /\ y.reserved \in Int
      BY <2>4
    <3>2. y.redeemed \in BOOLEAN /\ y.due \in BOOLEAN /\ y.single \in BOOLEAN
      BY <2>4, Zenon
    <3>3. y.by \in Spares \cup {None}
      BY <2>4, Zenon
    <3> QED BY <3>1, <3>2, <3>3
  <2>8. y \in CertType
    BY <2>5, <2>6, <2>7 DEF CertType
  <2> QED BY <2>2, <2>3, <2>4, <2>8
<1>2. cert \in [Certs -> CertType]
  <2>1. cert = [c \in Certs |-> cert[c]]
    BY DEF Init
  <2> QED BY <1>1, <2>1
<1>3. \A c \in Certs : Balance(cert[c]) = 0 /\ cert[c].reserved = 0
  BY <1>1 DEF Balance
<1>4. \A c \in Certs : Sound(cert[c])
  <2> SUFFICES ASSUME NEW c \in Certs PROVE Sound(cert[c])
    OBVIOUS
  <2>1. cert[c].paid = 0 /\ cert[c].promo = 0 /\ cert[c].reserved = 0 /\ Balance(cert[c]) = 0
    BY <1>1, <1>3
  <2> QED BY <2>1 DEF Sound
<1>5. \A c \in Certs : cert[c].status # "Replaced"
  BY <1>1, Zenon DEF GiftAssumption, Statuses
<1>6. \E r \in Ranks(cert) : Falls(cert, r)
  <2> DEFINE r == [c \in Certs |-> 0]
  <2>1. {c \in Certs : cert[c].status = "Replaced"} = {}
    BY <1>5
  <2>2. r \in Ranks(cert)
    BY <2>1, FS_EmptySet DEF Ranks
  <2>3. Falls(cert, r)
    BY <1>5 DEF Falls
  <2> QED BY <2>2, <2>3
<1> QED BY <1>2, <1>3, <1>4, <1>5, <1>6 DEF CertsOK, Empty

\* Nothing is reserved, posted or returned yet.
LEMMA InitKeeps ==
  ASSUME GiftAssumption, Init
  PROVE  GiftInv
<1>1. PICK z : z = [cert |-> None, order |-> None, amt |-> 0, paid |-> 0,
                    forfeit |-> 0, status |-> None, late |-> FALSE]
  OBVIOUS
<1>2. z \in HoldType /\ z.status = None
  BY <1>1 DEF HoldType
<1>3. hold = [h \in Holds |-> z]
  BY <1>1 DEF Init
<1>4. PICK x : x = [status |-> "Building", total |-> 0, invoice |-> None]
  OBVIOUS
<1>5. x \in OrderType /\ x.invoice = None /\ x.total = 0
  BY <1>4 DEF OrderType
<1>6. order = [o \in Orders |-> x]
  BY <1>4 DEF Init
<1>7. PICK b : b = [status |-> None, order |-> None, qty |-> 0, amt |-> 0,
                    paid |-> 0, to |-> None, used |-> FALSE]
  OBVIOUS
<1>8. b \in BackType /\ b.status = None /\ b.amt = 0 /\ b.paid = 0
  BY <1>7 DEF BackType
<1>9. back = [t \in Returns |-> b]
  BY <1>7 DEF Init
<1>10. PICK r : r = [at |-> "idle", order |-> None, rows |-> {}, fresh |-> TRUE]
  OBVIOUS
<1>11. r \in RequestType /\ r.at = "idle"
  BY <1>10 DEF RequestType
<1>12. request = [q \in Requests |-> r]
  BY <1>10 DEF Init
<1>13. books = [in |-> 0, out |-> 0] /\ quote = [o \in Orders |-> None]
  BY DEF Init
<1>14. Typed
  <2>1. books \in [in : Int, out : Int]
    BY <1>13
  <2> QED BY <1>2, <1>3, <1>5, <1>6, <1>8, <1>9, <1>11, <1>12, <2>1 DEF Typed
<1>15. \A h \in Holds : hold[h].status = None
  BY <1>2, <1>3
<1>16. HoldsKnown
  BY <1>15 DEF HoldsKnown
<1>17. (\A o : HoldsOf(o) = {} /\ Allocation(o) = {}) /\ (\A c : HoldsOn(c) = {}) /\ Billed = {}
  BY <1>15, NoneIsNoStatus DEF HoldsOf, Allocation, HoldsOn, Billed
<1>18. OneOpen /\ OneTaken /\ RestoredExactly
  BY <1>17 DEF OneOpen, OneTaken, RestoredExactly
<1>19. Quoted
  BY <1>13 DEF Quoted
<1>20. NoInvoiceYet
  BY <1>5, <1>6 DEF NoInvoiceYet
<1>21. BacksKnown
  BY <1>8, <1>9 DEF BacksKnown
<1>22. CertsOK(cert) /\ \A c \in Certs : Balance(cert[c]) = 0 /\ cert[c].reserved = 0
  BY InitCerts
<1>23. HoldsAreReserved
  BY <1>17, <1>22, SumEmpty DEF HoldsAreReserved
<1>24. OrderTotalIsHeld
  BY <1>5, <1>6, <1>17, SumEmpty DEF OrderTotalIsHeld, HeldFor
<1>25. ValueAddsUp
  <2>1. Returned = {}
    BY <1>8, <1>9, NoneIsNoStatus DEF Returned
  <2>2. SumOver(Amounts, Billed) = 0 /\ SumOver(Restored, Returned) = 0
    BY <1>17, <2>1, SumEmpty
  <2>3. SumOver(Balances, Certs) = 0
    <3>1. \A c \in Certs : Balances[c] = 0
      BY <1>22 DEF Balances
    <3> QED BY <3>1, CertsFinite, SumZero
  <2>4. books.in = 0 /\ books.out = 0
    BY <1>13
  <2> QED BY <2>2, <2>3, <2>4 DEF ValueAddsUp
<1> QED BY <1>14, <1>16, <1>18, <1>19, <1>20, <1>21, <1>22, <1>23, <1>24, <1>25 DEF GiftInv

\* Nothing the invariant is about changes.
LEMMA StutterKeeps ==
  ASSUME GiftAssumption, GiftInv, UNCHANGED vars
  PROVE  GiftInv'
<1>1. UNCHANGED <<cert, hold, order, quote, request, back, books>>
  BY DEF vars
<1>2. Requested(request')
  BY <1>1 DEF GiftInv, Typed, Requested
<1> QED BY <1>1, <1>2, IdleKeeps

\* No step breaks the invariant.
LEMMA NextKeeps ==
  ASSUME GiftAssumption, GiftInv, [Next]_vars
  PROVE  GiftInv'
<1>1. CASE Sale
  BY <1>1, SaleKeeps, ActivateKeeps DEF Sale
<1>2. CASE Reserve
  BY <1>2, QuoteKeeps, ReserveKeeps, CancelOrderKeeps DEF Reserve
<1>3. CASE Release
  BY <1>3, RedemptionKeeps, OverdueKeeps, StaleKeeps DEF Release
<1>4. CASE ListStale
  BY <1>4, ListKeeps
<1>5. CASE Checkout
  BY <1>5, PrepareKeeps, PaidKeeps, StartKeeps, DeclinesKeeps, UnknownKeeps, EndKeeps DEF Checkout
<1>6. CASE \E o \in Orders : CardStatus(o)
  BY <1>6, StatusKeeps
<1>7. CASE Undo
  BY <1>7, CreateKeeps, PostReturnKeeps, CancelReturnKeeps, CancelSaleKeeps DEF Undo
<1>8. CASE Expire
  BY <1>8, ValidityKeeps, ExpireKeeps DEF Expire
<1>9. CASE UNCHANGED vars
  BY <1>9, StutterKeeps
<1> QED BY <1>1, <1>2, <1>3, <1>4, <1>5, <1>6, <1>7, <1>8, <1>9 DEF Next

\* The inductive invariant of the gift certificates, for all orders,
\* certificates, reservations, returns and checkouts.
THEOREM CertificateInvariance == Spec => []GiftInv
<1>1. Init => GiftInv
  BY InitKeeps, GiftAssumption
<1>2. GiftInv /\ [Next]_vars => GiftInv'
  BY NextKeeps, GiftAssumption
<1> QED BY <1>1, <1>2, PTL DEF Spec

\* What the inductive invariant says of a replaced certificate and its heirs.
LEMMA ReplacedFollows ==
  ASSUME GiftAssumption, GiftInv
  PROVE  ReplacedIsEmpty
<1> SUFFICES ASSUME NEW c \in Certs, cert[c].status = "Replaced"
             PROVE  /\ Balance(cert[c]) = 0 /\ cert[c].reserved = 0
                    /\ cert[Heir(c)].status # "Replaced"
  BY DEF ReplacedIsEmpty
<1>1. CertsOK(cert)
  BY DEF GiftInv
<1>2. Leads(cert, c, Heir(c))
  BY <1>1, HeirFacts
<1>3. Empty(cert[c])
  BY <1>1 DEF CertsOK
<1> QED BY <1>2, <1>3 DEF Leads, Empty

\* Value is conserved: no retry, return, cancellation, expiry or replacement
\* makes value, loses it or leaves it where it cannot be spent.
THEOREM ValueStays == Spec => []ValueIsConserved
<1>1. GiftInv => ValueIsConserved
  BY ReplacedFollows, GiftAssumption DEF GiftInv, ValueIsConserved
<1> QED BY <1>1, CertificateInvariance, PTL

\* What certificates hold back is what reservations hold, and an order that is
\* not posted counts on exactly what is held for it.
THEOREM HoldsAlwaysAgree == Spec => []HoldsAgree
<1>1. GiftInv => HoldsAgree
  BY DEF GiftInv, HoldsAgree
<1> QED BY <1>1, CertificateInvariance, PTL

\* Returns restore no more than was taken, and all of it with the last row.
THEOREM ReturnsAreExact == Spec => []RestoredExactly
<1>1. GiftInv => RestoredExactly
  BY DEF GiftInv
<1> QED BY <1>1, CertificateInvariance, PTL
=============================================================================
