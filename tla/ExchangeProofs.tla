--------------------------- MODULE ExchangeProofs ---------------------------
(***************************************************************************)
(* The order exchange, for every set of traders, prices and amounts and    *)
(* every sequence of transactions.                                         *)
(*                                                                         *)
(* First the book: it is never crossed.  BookInv says what the running     *)
(* transaction is: a limit order at its own price, whose loop has not yet  *)
(* spent its amount, and a book without empty orders.  Without the last, a *)
(* limit order could stop at an empty order and be recorded although it    *)
(* still crosses the book.                                                 *)
(*                                                                         *)
(* Then the money: nothing is made or lost, no payment finds too little,   *)
(* what is frozen is what the open orders need, and no transaction takes   *)
(* more than was verified.  MoneyInv is what these have in common: at any  *)
(* point inside a transaction, what is frozen equals what the book and the *)
(* results not yet paid need, and the sender still has what its results    *)
(* and its resting order may cost.  The sums over the book and over the    *)
(* results are those of Sums, whose laws (SumLaws) the proofs name; at the *)
(* end the laws are those SumTheorems proves, and the theorems follow.     *)
(***************************************************************************)
EXTENDS Exchange, Sums, TLAPS

\* The part of job the book depends on.
Running ==
    /\ job.type \in {"buy", "sell"}
    /\ job.mode \in {"only_price", "all_price"}
    /\ job.from \in Address
    /\ job.price \in Nat /\ job.num \in Nat /\ job.trxid \in Nat
    /\ job.spend \in Nat
    /\ phase = "match" => /\ job.from \in Trader
                          /\ job.mode = "only_price" => job.price # 0

\* The book holds only proper orders, and is not crossed.
BookInv ==
    /\ orders \subseteq Order
    /\ now \in Nat /\ next \in Nat
    /\ job = [from |-> job.from, type |-> job.type, mode |-> job.mode, price |-> job.price,
              num |-> job.num, trxid |-> job.trxid, spend |-> job.spend, free |-> job.free,
              hadBRC |-> job.hadBRC, hadCookies |-> job.hadCookies]
    /\ Running
    /\ NotCrossed

\* Every part of an order the loop takes is a part of it, and of what is left.
LEMMA TakenFacts ==
    ASSUME BookInv, NEW o \in orders, job.spend > 0
    PROVE  /\ Taken(o) \in Nat /\ Taken(o) <= o.amount
           /\ ~(job.mode = "all_price" /\ job.type = "buy") =>
                 Taken(o) <= job.spend /\ Taken(o) > 0
           /\ o.price \in Nat \ {0} /\ o.amount \in Nat \ {0}
           /\ o.amount * o.price \in Nat
<1>1. o.price \in Nat \ {0} /\ o.amount \in Nat \ {0}
  BY DEF BookInv, Order
<1>2. o.amount * o.price \in Nat
  BY <1>1
<1>3. job.spend \in Nat
  BY DEF BookInv, Running
<1>4. CASE job.mode = "all_price" /\ job.type = "buy"
  <2>1. CASE o.amount * o.price <= job.spend
    BY <1>1, <1>2, <1>4, <2>1 DEF Taken
  <2>2. CASE ~(o.amount * o.price <= job.spend)
    <3> DEFINE q == job.spend \div o.price
    <3>1. q \in Nat /\ q * o.price <= job.spend
      BY <1>1, <1>3
    <3>2. q * o.price < o.amount * o.price
      BY <1>2, <1>3, <1>1, <2>2, <3>1
    <3> HIDE DEF q
    <3>3. q < o.amount
      BY <1>1, <3>1, <3>2
    <3>4. Taken(o) = q
      BY <1>4, <2>2 DEF Taken, q
    <3> QED
      BY <1>1, <1>2, <1>4, <3>1, <3>3, <3>4
  <2> QED
    BY <2>1, <2>2
<1>5. CASE ~(job.mode = "all_price" /\ job.type = "buy")
  BY <1>1, <1>2, <1>3, <1>5 DEF Taken
<1> QED
  BY <1>4, <1>5

LEMMA InitBook == Init => BookInv
  BY ExchangeAssumption DEF Init, BookInv, Running, NoJob, NotCrossed, Side, Address, Order

\* A transaction begins.
LEMMA BeginBook ==
    ASSUME BookInv, ExchangeAssumption, NEW from \in Trader, NEW type \in {"buy", "sell"},
           NEW mode \in {"only_price", "all_price"},
           NEW price \in Prices \cup {0}, NEW num \in Amounts \cup {0},
           pendingOrders(from, type, mode, price, num)
    PROVE  BookInv'
<1>1. price \in Nat /\ num \in Nat
  BY DEF ExchangeAssumption
<1>2. price * PRICEPRECISION \in Nat
  BY <1>1 DEF ExchangeAssumption
<1>3. /\ orders' = orders /\ now' = now /\ next' = next + 1 /\ next \in Nat
      /\ mode = "only_price" => price # 0
  BY DEF pendingOrders, BookInv
<1>4. /\ job'.from = from /\ job'.type = type /\ job'.mode = mode /\ job'.price = price
      /\ job'.num = num /\ job'.trxid = next
      /\ job'.spend = IF mode = "all_price" /\ type = "buy" THEN price * PRICEPRECISION ELSE num
  BY DEF pendingOrders
<1>5. job' = [from |-> job.from, type |-> job.type, mode |-> job.mode, price |-> job.price,
              num |-> job.num, trxid |-> job.trxid, spend |-> job.spend, free |-> job.free,
              hadBRC |-> job.hadBRC, hadCookies |-> job.hadCookies]'
  BY DEF pendingOrders
<1>6. Running'
  BY <1>1, <1>2, <1>3, <1>4 DEF Running, Address
<1>7. NotCrossed'
  BY <1>3 DEF NotCrossed, Side, BookInv
<1> QED
  BY <1>3, <1>5, <1>6, <1>7 DEF BookInv

\* An iteration replaces an order by a smaller one at the same price, or
\* removes it: what is not crossed before is not crossed after.
LEMMA MatchBook ==
    ASSUME BookInv, NEW o \in orders, match(o)
    PROVE  BookInv'
<1> DEFINE n == Taken(o)
<1>0. o \in Order /\ job.spend > 0 /\ job.spend \in Nat
  BY DEF match, BookInv, Running
<1>1. /\ n \in Nat /\ n <= o.amount /\ n > 0
      /\ ~(job.mode = "all_price" /\ job.type = "buy") => n <= job.spend
      /\ o.price \in Nat \ {0} /\ o.amount \in Nat \ {0} /\ o.amount * o.price \in Nat
  BY <1>0, TakenFacts DEF match
<1>2. orders' = Reduced(o, n)
  BY DEF match
<1>3. ASSUME NEW p \in orders'
      PROVE  p \in Order /\ \E q \in orders : q.type = p.type /\ q.price = p.price
  <2>1. CASE p \in orders
    BY <2>1 DEF BookInv
  <2>2. CASE p \notin orders
    <3>1. p = [o EXCEPT !.amount = @ - n] /\ n < o.amount
      BY <1>2, <1>3, <2>2 DEF Reduced
    <3>2. p \in Order /\ p.type = o.type /\ p.price = o.price
      BY <1>0, <1>1, <3>1 DEF Order
    <3> QED
      BY <3>2
  <2> QED
    BY <2>1, <2>2
<1>4. NotCrossed'
  BY <1>3 DEF NotCrossed, Side, BookInv
<1>5. /\ now' = now /\ next' = next /\ phase' = phase
      /\ job' = [job EXCEPT !.spend =
                   IF ~(job.mode = "all_price" /\ job.type = "buy") THEN @ - n
                   ELSE IF n = o.amount THEN @ - n * o.price ELSE 0]
  BY DEF match
<1>6. job'.spend \in Nat
  <2>1. CASE ~(job.mode = "all_price" /\ job.type = "buy")
    BY <1>0, <1>1, <1>5, <2>1 DEF BookInv
  <2>2. CASE (job.mode = "all_price" /\ job.type = "buy") /\ n # o.amount
    BY <1>0, <1>1, <1>5, <2>2 DEF BookInv
  <2>3. CASE (job.mode = "all_price" /\ job.type = "buy") /\ n = o.amount
    <3>1. o.amount * o.price <= job.spend
      <4>1. SUFFICES ASSUME ~(o.amount * o.price <= job.spend) PROVE FALSE
        OBVIOUS
      <4>2. n = job.spend \div o.price
        BY <2>3, <4>1 DEF Taken
      <4>3. n * o.price <= job.spend
        BY <1>0, <1>1, <4>2
      <4> QED
        BY <1>0, <1>1, <2>3, <4>1, <4>3
    <3>2. job'.spend = job.spend - o.amount * o.price
      BY <1>5, <2>3 DEF BookInv
    <3> HIDE DEF n
    <3> QED
      BY <1>0, <1>1, <3>1, <3>2
  <2> QED
    BY <2>1, <2>2, <2>3
<1>7. Running'
  <2>1. /\ job'.type = job.type /\ job'.mode = job.mode /\ job'.from = job.from
        /\ job'.price = job.price /\ job'.num = job.num /\ job'.trxid = job.trxid
    BY <1>5 DEF BookInv
  <2> QED
    BY <1>5, <1>6, <2>1 DEF Running, BookInv
<1>8. job' = [from |-> job.from, type |-> job.type, mode |-> job.mode, price |-> job.price,
              num |-> job.num, trxid |-> job.trxid, spend |-> job.spend, free |-> job.free,
              hadBRC |-> job.hadBRC, hadCookies |-> job.hadCookies]'
  BY <1>5 DEF BookInv
<1> QED
  BY <1>3, <1>4, <1>5, <1>7, <1>8 DEF BookInv

\* The loop ends.  A limit order with something left has an empty range, for
\* no order of the range can stop it: so it crosses nothing it is added to.
LEMMA EndMatchBook ==
    ASSUME BookInv, endMatch
    PROVE  BookInv'
<1>1. /\ now' = now /\ next' = next /\ job' = job /\ phase' = "pay" /\ phase = "match"
  BY DEF endMatch
<1>2. CASE ~(job.mode = "only_price" /\ job.spend > 0)
  <2>1. orders' = orders
    BY <1>2 DEF endMatch
  <2> QED
    BY <1>1, <2>1 DEF BookInv, Running, NotCrossed, Side
<1>3. CASE job.mode = "only_price" /\ job.spend > 0
  <2> DEFINE r == [trxid |-> job.trxid, sender |-> job.from, type |-> job.type,
                   price |-> job.price, amount |-> job.spend, time |-> now]
  <2>1. orders' = orders \cup {r}
    BY <1>3 DEF endMatch
  <2>2. r \in Order
    BY <1>1, <1>3 DEF BookInv, Running, Order
  <2>3. ASSUME NEW o \in orders PROVE ~InRange(o, job)
    <3>1. SUFFICES ASSUME InRange(o, job) PROVE FALSE
      OBVIOUS
    <3>2. Reach(job) # {}
      BY <3>1, <2>3 DEF Reach
    <3>3. PICK p \in First(job) : Taken(p) = 0
      BY <1>3, <3>2 DEF endMatch, BookInv, Running
    <3>4. p \in orders
      BY <3>3 DEF First, Reach
    <3> QED
      BY <1>3, <3>3, <3>4, TakenFacts
  <2>4. NotCrossed'
    <3>1. SUFFICES ASSUME NEW b \in orders', NEW s \in orders', b.type = "buy", s.type = "sell"
                   PROVE  b.price < s.price
      BY DEF NotCrossed, Side
    <3>2. b.price \in Nat /\ s.price \in Nat
      BY <2>1, <2>2 DEF BookInv, Order
    <3>3. CASE b \in orders /\ s \in orders
      BY <3>1, <3>3 DEF BookInv, NotCrossed, Side
    <3>4. CASE b = r /\ s \in orders
      <4>1. job.type = "buy" /\ b.price = job.price
        BY <3>1, <3>4
      <4>2. ~(s.price <= job.price)
        BY <2>3, <3>1, <3>4, <4>1 DEF InRange
      <4> QED
        BY <3>2, <4>1, <4>2
    <3>5. CASE b \in orders /\ s = r
      <4>1. job.type = "sell" /\ s.price = job.price
        BY <3>1, <3>5
      <4>2. ~(b.price >= job.price)
        BY <2>3, <3>1, <3>5, <4>1 DEF InRange
      <4> QED
        BY <3>2, <4>1, <4>2
    <3>6. CASE b = r /\ s = r
      BY <3>1, <3>6
    <3> QED
      BY <2>1, <3>3, <3>4, <3>5, <3>6
  <2> QED
    BY <1>1, <2>1, <2>2, <2>4 DEF BookInv, Running
<1> QED
  BY <1>2, <1>3

\* A step that only removes orders, and at most lowers what is to be frozen.
LEMMA SmallerBook ==
    ASSUME BookInv, orders' \subseteq orders, now' \in Nat, next' = next,
           phase' # "match", job' = job \/ \E x : job' = [job EXCEPT !.free = x]
    PROVE  BookInv'
<1>1. NotCrossed'
  BY DEF BookInv, NotCrossed, Side
<1>2. /\ job'.type = job.type /\ job'.mode = job.mode /\ job'.from = job.from
      /\ job'.price = job.price /\ job'.num = job.num /\ job'.trxid = job.trxid
      /\ job'.spend = job.spend
  BY DEF BookInv
<1>3. job' = [from |-> job.from, type |-> job.type, mode |-> job.mode, price |-> job.price,
              num |-> job.num, trxid |-> job.trxid, spend |-> job.spend, free |-> job.free,
              hadBRC |-> job.hadBRC, hadCookies |-> job.hadCookies]'
  BY DEF BookInv
<1> QED
  BY <1>1, <1>2, <1>3 DEF BookInv, Running

LEMMA NextBook == BookInv /\ [Next]_vars => BookInv'
<1> SUFFICES ASSUME BookInv, [Next]_vars PROVE BookInv'
  OBVIOUS
<1> USE ExchangeAssumption
<1>0. now \in Nat /\ next \in Nat
  BY DEF BookInv
<1>1. ASSUME NEW from \in Trader, NEW type \in {"buy", "sell"},
             NEW mode \in {"only_price", "all_price"},
             NEW price \in Prices \cup {0}, NEW num \in Amounts \cup {0},
             pendingOrders(from, type, mode, price, num)
      PROVE  BookInv'
  BY <1>1, BeginBook
<1>2. ASSUME NEW o \in orders, match(o) PROVE BookInv'
  BY <1>2, MatchBook, Zenon
<1>3. ASSUME NEW o \in orders, cancelPendingOrders(o) PROVE BookInv'
  BY <1>0, <1>3, SmallerBook DEF cancelPendingOrders, fail
<1>4. CASE endMatch
  BY <1>4, EndMatchBook
<1>5. CASE pay
  <2>1. orders' = orders /\ now' = now /\ next' = next /\ phase' # "match"
    BY <1>5 DEF pay, fail
  <2>2. job' = job \/ \E x : job' = [job EXCEPT !.free = x]
    BY <1>5, Zenon DEF pay, fail
  <2> QED
    BY <1>0, <2>1, <2>2, SmallerBook
<1>6. CASE endPending
  BY <1>0, <1>6, SmallerBook DEF endPending, fail
<1>7. CASE newBlock
  BY <1>0, <1>7, SmallerBook DEF newBlock
<1>8. CASE UNCHANGED vars
  BY <1>8 DEF vars, BookInv, Running, NotCrossed, Side
<1> QED
  BY <1>1, <1>2, <1>3, <1>4, <1>5, <1>6, <1>7, <1>8, ZenonT(60) DEF Next

\* However orders are placed, matched in part or whole, and cancelled, the book
\* never holds a buy order and a sell order that could have been matched.
THEOREM BookUncrossed == Spec => []NotCrossed
<1>1. BookInv => NotCrossed
  BY DEF BookInv
<1> QED
  BY InitBook, NextBook, <1>1, PTL DEF Spec

-----------------------------------------------------------------------------
(* What the running transaction owes and what is frozen for whom.          *)

Result == [acceptor : Trader, amount : Nat \ {0}, price : Nat \ {0}]

Job == [from : Address, type : {"buy", "sell"}, mode : {"only_price", "all_price"},
        price : Nat, num : Nat, trxid : Nat, spend : Nat, free : Int,
        hadBRC : Nat, hadCookies : Nat]

\* Values of an order and of a result, as functions to sum over.
RefundOf == [o \in Order |-> Refund(o)]
AmountOf == [o \in Order |-> o.amount]

Cookies      == [r \in Result |-> r.amount]
Paid         == [r \in Result |-> Cost(r.amount, r.price)]
AtPrice(p)   == [r \in Result |-> Cost(r.amount, p)]
CookiesOf(a) == [r \in Result |-> IF r.acceptor = a THEN r.amount ELSE 0]
PaidTo(a)    == [r \in Result |-> IF r.acceptor = a THEN Cost(r.amount, r.price) ELSE 0]

MoneyTypes ==
    /\ BRC \in [Address -> Nat] /\ FBRC \in [Address -> Nat]
    /\ balance \in [Address -> Nat] /\ FBalance \in [Address -> Nat]
    /\ orders \subseteq Order /\ IsFiniteSet(orders)
    /\ now \in Nat /\ next \in Nat /\ phase \in {"idle", "match", "pay"}
    /\ job \in Job /\ results \in Seq(Result)
    /\ failed \in BOOLEAN /\ split \in BOOLEAN

\* A transaction id names one order; the running one is not in the book before
\* its loop is over.
Keyed ==
    /\ \A o, p \in orders : o.trxid = p.trxid => o = p
    /\ \A o \in orders : o.trxid < next
    /\ phase # "idle" => job.trxid = next - 1
    /\ phase = "match" => \A o \in orders : o.trxid < job.trxid

\* Amounts and prices that verifyPendingOrders lets in.
Multiples == {k * Granularity : k \in Nat}

Granular ==
    /\ \A o \in orders : o.price \in Multiples
    /\ phase # "idle" => job.price \in Multiples
    /\ ~split => /\ \A o \in orders : o.amount \in Multiples
                 /\ \A i \in DOMAIN results : results[i].amount \in Multiples
                 /\ phase # "idle" /\ ~(job.mode = "all_price" /\ job.type = "buy")
                       => job.spend \in Multiples

\* What the running transaction can still pay and freeze.
Covered ==
    /\ job.from \in Trader
    /\ job.type = "buy" /\ job.mode = "only_price" =>
          /\ job.hadBRC >= Cost(job.num, job.price)
          /\ job.hadBRC - BRC[job.from] + job.free <= Cost(job.num, job.price)
          /\ job.free >= Cost(job.spend, job.price) + SeqSum(AtPrice(job.price), results)
          /\ ~split => job.free = Cost(job.spend, job.price) + SeqSum(AtPrice(job.price), results)
          /\ \A i \in DOMAIN results : results[i].price <= job.price
    /\ job.type = "buy" /\ job.mode = "all_price" =>
          /\ job.free = 0 /\ job.hadBRC >= job.price
          /\ job.hadBRC - BRC[job.from] + SeqSum(Paid, results) <= job.price
          /\ phase = "match" =>
                /\ BRC[job.from] = job.hadBRC
                /\ SeqSum(Paid, results) * PRICEPRECISION + job.spend <= job.price * PRICEPRECISION
    /\ job.type = "sell" =>
          /\ job.hadCookies >= job.num
          /\ job.hadCookies - balance[job.from] + job.spend + SeqSum(Cookies, results) <= job.num
          /\ job.free = IF job.mode = "only_price" THEN job.spend + SeqSum(Cookies, results) ELSE 0

\* The resting order of the running transaction is in the book before what it
\* may cost is frozen.
Recorded(type, a) ==
    phase = "pay" /\ job.type = type /\ job.mode = "only_price" /\ job.from = a

Unpaid(type) == phase # "idle" /\ job.type = type

Frozen ==
    \A a \in Trader :
      /\ FBalance[a] + (IF Recorded("sell", a) THEN job.spend ELSE 0)
           = OpenCookies(a) + (IF Unpaid("buy") THEN SeqSum(CookiesOf(a), results) ELSE 0)
      /\ FBRC[a] + (IF Recorded("buy", a) THEN Cost(job.spend, job.price) ELSE 0)
           >= OpenCost(a) + (IF Unpaid("sell") THEN SeqSum(PaidTo(a), results) ELSE 0)
      /\ ~split =>
           FBRC[a] + (IF Recorded("buy", a) THEN Cost(job.spend, job.price) ELSE 0)
             = OpenCost(a) + (IF Unpaid("sell") THEN SeqSum(PaidTo(a), results) ELSE 0)

MoneyInv ==
    /\ MoneyTypes /\ Keyed /\ Granular /\ Frozen /\ ~failed
    /\ phase # "idle" => Covered
    /\ phase = "idle" => results = <<>>

-----------------------------------------------------------------------------
(* Rounding. *)

\* What n cookies cost, rounded down.
LEMMA CostBounds ==
    ASSUME NEW n \in Nat, NEW p \in Nat
    PROVE  /\ Cost(n, p) \in Nat /\ n * p \in Nat
           /\ Cost(n, p) * PRICEPRECISION <= n * p
           /\ n * p < Cost(n, p) * PRICEPRECISION + PRICEPRECISION
<1>1. n * p \in Nat /\ PRICEPRECISION \in Nat \ {0}
  BY ExchangeAssumption
<1> DEFINE x == n * p
<1>2. x \in Nat
  BY <1>1
<1> HIDE DEF x
<1>3. /\ x \div PRICEPRECISION \in Nat
      /\ (x \div PRICEPRECISION) * PRICEPRECISION <= x
      /\ x < (x \div PRICEPRECISION) * PRICEPRECISION + PRICEPRECISION
  BY <1>1, <1>2
<1> QED
  BY <1>1, <1>3 DEF Cost, x

LEMMA CostZero == ASSUME NEW p \in Nat PROVE Cost(0, p) = 0
<1>1. 0 * p = 0 /\ PRICEPRECISION \in Nat \ {0}
  BY ExchangeAssumption
<1>2. 0 \div PRICEPRECISION = 0
  BY <1>1
<1> QED
  BY <1>1, <1>2 DEF Cost

\* A whole number of units is compared by its product.
LEMMA Distributes == ASSUME NEW a \in Nat, NEW b \in Nat, NEW c \in Nat PROVE (a + b) * c = a * c + b * c
  OBVIOUS

LEMMA UnitCompare ==
    ASSUME NEW c \in Int, NEW d \in Int, NEW u \in Nat \ {0}, c * u < d * u + u
    PROVE  c <= d
<1> SUFFICES ASSUME c >= d + 1 PROVE FALSE
  OBVIOUS
<1>1. c * u >= (d + 1) * u
  OBVIOUS
<1>2. (d + 1) * u = d * u + u
  OBVIOUS
<1> QED
  BY <1>1, <1>2

\* Paying in two parts costs no more than paying at once.
LEMMA CostSplits ==
    ASSUME NEW a \in Nat, NEW b \in Nat, NEW p \in Nat
    PROVE  Cost(a, p) + Cost(b, p) <= Cost(a + b, p)
<1> DEFINE u == PRICEPRECISION
           c == Cost(a, p)
           d == Cost(b, p)
           e == Cost(a + b, p)
<1>1. a + b \in Nat /\ u \in Nat \ {0}
  BY ExchangeAssumption
<1>2. /\ c \in Nat /\ d \in Nat /\ e \in Nat /\ a * p \in Nat /\ b * p \in Nat
      /\ c * u <= a * p /\ d * u <= b * p /\ (a + b) * p < e * u + u
  BY <1>1, CostBounds, Zenon
<1>3. (a + b) * p = a * p + b * p
  OBVIOUS
<1> HIDE DEF c, d, e, u
<1>4. (c + d) * u = c * u + d * u
  BY <1>1, <1>2
<1>5. (c + d) * u < e * u + u
  <2> DEFINE cu == c * u
             du == d * u
             eu == e * u
             ap == a * p
             bp == b * p
  <2>1. cu \in Int /\ du \in Int /\ eu \in Int /\ ap \in Int /\ bp \in Int
    BY <1>1, <1>2
  <2>2. cu <= ap /\ du <= bp /\ ap + bp < eu + u
    BY <1>2, <1>3
  <2> HIDE DEF cu, du, eu, ap, bp
  <2>3. cu + du < eu + u
    BY <1>1, <2>1, <2>2
  <2> QED
    BY <1>4, <2>3 DEF cu, du, eu
<1>6. c + d \in Int /\ e \in Int
  BY <1>2
<1>7. c + d <= e
  BY <1>1, <1>5, <1>6, UnitCompare
<1> QED
  BY <1>7 DEF c, d, e

\* A lower price costs no more.
LEMMA CostCheaper ==
    ASSUME NEW n \in Nat, NEW p \in Nat, NEW q \in Nat, p <= q
    PROVE  Cost(n, p) <= Cost(n, q)
<1> DEFINE u == PRICEPRECISION
           c == Cost(n, p)
           e == Cost(n, q)
<1>1. u \in Nat \ {0}
  BY ExchangeAssumption
<1>2. c \in Nat /\ e \in Nat /\ c * u <= n * p /\ n * q < e * u + u
  BY CostBounds, Zenon
<1>3. n * p <= n * q /\ n * p \in Int /\ n * q \in Int
  OBVIOUS
<1> HIDE DEF c, e, u
<1>4. c * u < e * u + u
  <2>1. c * u \in Int /\ e * u \in Int
    BY <1>1, <1>2
  <2> QED
    BY <1>1, <1>2, <1>3, <2>1
<1>5. c <= e
  BY <1>1, <1>2, <1>4, UnitCompare
<1> QED
  BY <1>5 DEF c, e

\* Amounts and prices of the granularity have no rest to round off.
LEMMA CostExact ==
    ASSUME NEW n \in Multiples, NEW p \in Multiples
    PROVE  n \in Nat /\ p \in Nat /\ Cost(n, p) * PRICEPRECISION = n * p
<1> DEFINE g == Granularity
           u == PRICEPRECISION
<1>1. g \in Nat \ {0} /\ u \in Nat \ {0}
  BY ExchangeAssumption
<1>2. PICK k \in Nat : n = k * g
  BY DEF Multiples
<1>3. PICK l \in Nat : p = l * g
  BY DEF Multiples
<1>4. n \in Nat /\ p \in Nat
  BY <1>1, <1>2, <1>3
<1>5. PICK m \in Nat : g * g = m * u
  <2> DEFINE gg == g * g
  <2>1. gg \in Nat /\ gg % u = 0
    BY <1>1, GranularityAssumption
  <2> HIDE DEF gg
  <2>2. gg = (gg \div u) * u /\ gg \div u \in Nat
    BY <1>1, <2>1
  <2> QED
    BY <2>2 DEF gg
<1>6. n * p = (k * l * m) * u
  <2>1. n * p = (k * l) * (g * g)
    BY <1>1, <1>2, <1>3
  <2>2. (k * l) * (m * u) = (k * l * m) * u
    BY <1>1
  <2> QED
    BY <1>5, <2>1, <2>2
<1> DEFINE w == k * l * m
<1>7. w \in Nat
  OBVIOUS
<1>8. n * p = w * u
  BY <1>6
<1> HIDE DEF w, u
<1>9. (w * u) \div u = w
  BY <1>1, <1>7
<1> QED
  BY <1>4, <1>8, <1>9 DEF Cost, u

LEMMA CostSplitsExactly ==
    ASSUME NEW a \in Multiples, NEW b \in Multiples, NEW p \in Multiples, a + b \in Multiples
    PROVE  Cost(a, p) + Cost(b, p) = Cost(a + b, p)
<1> DEFINE u == PRICEPRECISION
           c == Cost(a, p)
           d == Cost(b, p)
           e == Cost(a + b, p)
<1>1. u \in Nat \ {0}
  BY ExchangeAssumption
<1>2. a \in Nat /\ b \in Nat /\ p \in Nat /\ c * u = a * p /\ d * u = b * p /\ e * u = (a + b) * p
  BY CostExact
<1>3. c \in Nat /\ d \in Nat /\ e \in Nat
  <2>1. a + b \in Nat
    BY <1>2
  <2> QED
    BY <1>2, <2>1, CostBounds
<1> HIDE DEF c, d, e, u
<1>4. (c + d) * u = e * u
  <2>1. (c + d) * u = c * u + d * u
    BY <1>1, <1>3
  <2>2. (a + b) * p = a * p + b * p
    BY <1>2
  <2> QED
    BY <1>2, <2>1, <2>2
<1>5. c + d = e
  BY <1>1, <1>3, <1>4
<1> QED
  BY <1>5 DEF c, d, e

LEMMA MultiplesFacts ==
    /\ Multiples \subseteq Nat /\ 0 \in Multiples
    /\ \A a, b \in Multiples : a - b >= 0 => a - b \in Multiples
    /\ \A n \in Nat : n % Granularity = 0 => n \in Multiples
<1> DEFINE g == Granularity
<1>1. g \in Nat \ {0}
  BY ExchangeAssumption
<1>2. Multiples \subseteq Nat /\ 0 \in Multiples
  <2>1. 0 = 0 * g
    BY <1>1
  <2> QED
    BY <1>1, <2>1 DEF Multiples
<1>3. ASSUME NEW a \in Multiples, NEW b \in Multiples, a - b >= 0 PROVE a - b \in Multiples
  <2>1. PICK k \in Nat : a = k * g
    BY DEF Multiples
  <2>2. PICK l \in Nat : b = l * g
    BY DEF Multiples
  <2>3. a - b = (k - l) * g
    BY <1>1, <2>1, <2>2
  <2>4. k - l >= 0
    BY <1>1, <1>3, <2>3
  <2> QED
    BY <2>3, <2>4 DEF Multiples
<1>4. ASSUME NEW n \in Nat, n % g = 0 PROVE n \in Multiples
  <2> HIDE DEF g
  <2>1. n = (n \div g) * g /\ n \div g \in Nat
    BY <1>1, <1>4
  <2> QED
    BY <2>1 DEF Multiples, g
<1> QED
  BY <1>2, <1>3, <1>4

-----------------------------------------------------------------------------
(* The book and the results as sums. *)

-----------------------------------------------------------------------------
(* The laws of sums, as the proofs below cite them. *)

LEMMA FiniteEmpty == ASSUME SumLaws PROVE IsFiniteSet({})
  BY DEF SumLaws, FiniteSetLaws

LEMMA FiniteSubset == ASSUME SumLaws, NEW S, IsFiniteSet(S), NEW T, T \subseteq S PROVE IsFiniteSet(T)
  BY Zenon DEF SumLaws, FiniteSetLaws

LEMMA FiniteInsert == ASSUME SumLaws, NEW S, IsFiniteSet(S), NEW x PROVE IsFiniteSet(S \cup {x})
  BY Zenon DEF SumLaws, FiniteSetLaws

LEMMA FiniteCount == ASSUME SumLaws, NEW S, IsFiniteSet(S) PROVE Cardinality(S) \in Nat
  BY Zenon DEF SumLaws, FiniteSetLaws

LEMMA EmptySum == ASSUME SumLaws, NEW f PROVE SumFunctionOnSet(f, {}) = 0
  BY Zenon DEF SumLaws, SumOfNone

LEMMA IntSum ==
  ASSUME SumLaws, NEW f, NEW S, IsFiniteSet(S), \A x \in S : f[x] \in Int
  PROVE  SumFunctionOnSet(f, S) \in Int
  BY Zenon DEF SumLaws, SumTypes

LEMMA NatSum ==
  ASSUME SumLaws, NEW f, NEW S, IsFiniteSet(S), \A x \in S : f[x] \in Nat
  PROVE  SumFunctionOnSet(f, S) \in Nat
  BY Zenon DEF SumLaws, SumTypes

LEMMA RemovedSum ==
  ASSUME SumLaws, NEW f, NEW S, IsFiniteSet(S), \A x \in S : f[x] \in Int, NEW y \in S
  PROVE  SumFunctionOnSet(f, S) = f[y] + SumFunctionOnSet(f, S \ {y})
  BY DEF SumLaws, SumRemoves

LEMMA EqualSums ==
  ASSUME SumLaws, NEW f, NEW g, NEW S, IsFiniteSet(S), \A x \in S : f[x] = g[x]
  PROVE  SumFunctionOnSet(f, S) = SumFunctionOnSet(g, S)
  BY Zenon DEF SumLaws, SumEquals

LEMMA UpdatedSum ==
  ASSUME SumLaws, NEW S, IsFiniteSet(S), NEW f, NEW g, NEW y \in S,
         \A x \in S : f[x] \in Int /\ g[x] \in Int,
         \A x \in S : x # y => g[x] = f[x]
  PROVE  SumFunctionOnSet(g, S) = (SumFunctionOnSet(f, S) - f[y]) + g[y]
  BY DEF SumLaws, SumUpdates

LEMMA UnionSum ==
  ASSUME SumLaws, NEW f, NEW A, NEW B, IsFiniteSet(A), IsFiniteSet(B), A \cap B = {},
         \A x \in A \cup B : f[x] \in Int
  PROVE  SumFunctionOnSet(f, A \cup B) = SumFunctionOnSet(f, A) + SumFunctionOnSet(f, B)
  BY Zenon DEF SumLaws, SumUnites

LEMMA ConstantSum ==
  ASSUME SumLaws, NEW f, NEW S, IsFiniteSet(S), NEW c \in Int, \A x \in S : f[x] = c
  PROVE  SumFunctionOnSet(f, S) = c * Cardinality(S)
  BY Zenon DEF SumLaws, SumMultiplies

LEMMA EmptySeqSum == ASSUME SumLaws, NEW v PROVE SeqSum(v, <<>>) = 0
  BY Zenon DEF SumLaws, SeqSumTypes

LEMMA NatSeqSum ==
  ASSUME SumLaws, NEW R, NEW v \in [R -> Nat], NEW s \in Seq(R)
  PROVE  SeqSum(v, s) \in Nat
  BY Zenon DEF SumLaws, SeqSumTypes

LEMMA AppendedSeqSum ==
  ASSUME SumLaws, NEW R, NEW v \in [R -> Int], NEW s \in Seq(R), NEW x \in R
  PROVE  SeqSum(v, Append(s, x)) = SeqSum(v, s) + v[x]
  BY DEF SumLaws, SeqSumAppends

LEMMA TailSeqSum ==
  ASSUME SumLaws, NEW R, NEW v \in [R -> Int], NEW s \in Seq(R), s # <<>>
  PROVE  SeqSum(v, s) = v[Head(s)] + SeqSum(v, Tail(s))
  BY Zenon DEF SumLaws, SeqSumSplits

-----------------------------------------------------------------------------
(* Sums over the book and over the results. *)

Mine(B, type, a) == {o \in B : o.type = type /\ o.sender = a}
BookCookies(B, a) == SumFunctionOnSet(AmountOf, Mine(B, "sell", a))
BookCost(B, a) == SumFunctionOnSet(RefundOf, Mine(B, "buy", a))

\* What the book loses for account a when n cookies of order o are taken.
CookiesLess(o, n, a) == IF o.type = "sell" /\ o.sender = a THEN n ELSE 0
CostLess(o, n, a) ==
    IF o.type = "buy" /\ o.sender = a
    THEN Cost(o.amount, o.price) - Cost(o.amount - n, o.price) ELSE 0

LEMMA OrderValues ==
    /\ RefundOf \in [Order -> Nat] /\ AmountOf \in [Order -> Nat]
    /\ \A o \in Order : RefundOf[o] = Cost(o.amount, o.price) /\ AmountOf[o] = o.amount
<1>1. ASSUME NEW o \in Order PROVE o.amount \in Nat /\ o.price \in Nat
  BY DEF Order
<1>2. ASSUME NEW o \in Order PROVE Refund(o) \in Nat /\ Refund(o) = Cost(o.amount, o.price)
  BY <1>1, CostBounds, Zenon DEF Refund
<1> QED
  BY <1>1, <1>2 DEF RefundOf, AmountOf

LEMMA ResultValues ==
    /\ Cookies \in [Result -> Nat] /\ Paid \in [Result -> Nat]
    /\ \A p \in Nat : AtPrice(p) \in [Result -> Nat]
    /\ \A a : CookiesOf(a) \in [Result -> Nat] /\ PaidTo(a) \in [Result -> Nat]
<1>1. ASSUME NEW r \in Result PROVE r.amount \in Nat /\ r.price \in Nat
  BY DEF Result
<1>2. ASSUME NEW r \in Result PROVE /\ Cost(r.amount, r.price) \in Nat
                                    /\ \A p \in Nat : Cost(r.amount, p) \in Nat
  BY <1>1, CostBounds, Zenon
<1> QED
  BY <1>1, <1>2 DEF Cookies, Paid, AtPrice, CookiesOf, PaidTo

\* What the open orders of an account cost and offer, as sums over the book B.
LEMMA MineFinite ==
    ASSUME SumLaws, NEW B, B \subseteq Order, IsFiniteSet(B), NEW type, NEW a, NEW M, M = Mine(B, type, a)
    PROVE  /\ IsFiniteSet(M) /\ M \subseteq Order /\ M \subseteq B
           /\ \A o \in M : RefundOf[o] \in Nat /\ AmountOf[o] \in Nat
<1>1. M \subseteq B
  BY DEF Mine
<1>2. IsFiniteSet(M)
  BY <1>1, FiniteSubset
<1>3. \A o \in M : RefundOf[o] \in Nat /\ AmountOf[o] \in Nat
  BY <1>1, OrderValues
<1> QED
  BY <1>1, <1>2, <1>3

LEMMA BookSums ==
    ASSUME SumLaws, NEW B, B \subseteq Order, IsFiniteSet(B), NEW a
    PROVE  /\ SumFunctionOnSet([o \in B |-> Refund(o)],
                               {o \in {o \in B : o.type = "buy"} : o.sender = a}) = BookCost(B, a)
           /\ SumFunctionOnSet([o \in B |-> o.amount],
                               {o \in {o \in B : o.type = "sell"} : o.sender = a}) = BookCookies(B, a)
           /\ BookCost(B, a) \in Nat /\ BookCookies(B, a) \in Nat
<1> DEFINE M == Mine(B, "sell", a)
           N == Mine(B, "buy", a)
           v == [o \in B |-> o.amount]
           w == [o \in B |-> Refund(o)]
<1>1. /\ M = {o \in {o \in B : o.type = "sell"} : o.sender = a}
      /\ N = {o \in {o \in B : o.type = "buy"} : o.sender = a}
  BY DEF Mine
<1>2. IsFiniteSet(M) /\ M \subseteq B /\ \A o \in M : AmountOf[o] \in Nat
  BY MineFinite
<1>3. IsFiniteSet(N) /\ N \subseteq B /\ \A o \in N : RefundOf[o] \in Nat
  BY MineFinite
<1>4. (\A o \in M : v[o] = AmountOf[o]) /\ (\A o \in N : w[o] = RefundOf[o])
  BY <1>2, <1>3 DEF AmountOf, RefundOf
<1> HIDE DEF M, N, v, w
<1>5. SumFunctionOnSet(AmountOf, M) \in Nat /\ SumFunctionOnSet(RefundOf, N) \in Nat
  BY <1>2, <1>3, NatSum
<1>6. SumFunctionOnSet(v, M) = SumFunctionOnSet(AmountOf, M)
  BY <1>2, <1>4, EqualSums
<1>7. SumFunctionOnSet(w, N) = SumFunctionOnSet(RefundOf, N)
  BY <1>3, <1>4, EqualSums
<1> QED
  BY <1>1, <1>5, <1>6, <1>7, Zenon DEF M, N, v, w, BookCost, BookCookies

\* An order leaves the book.
LEMMA BookWithout ==
    ASSUME SumLaws, NEW B, B \subseteq Order, IsFiniteSet(B), NEW o \in B, NEW a
    PROVE  /\ BookCookies(B, a) = BookCookies(B \ {o}, a)
                 + (IF o.type = "sell" /\ o.sender = a THEN o.amount ELSE 0)
           /\ BookCost(B, a) = BookCost(B \ {o}, a)
                 + (IF o.type = "buy" /\ o.sender = a THEN Cost(o.amount, o.price) ELSE 0)
<1> DEFINE M == Mine(B, "sell", a)
           N == Mine(B, "buy", a)
           C == B \ {o}
           P == Mine(C, "sell", a)
           Q == Mine(C, "buy", a)
<1>0. C \subseteq Order /\ IsFiniteSet(C)
  BY FiniteSubset
<1>1. IsFiniteSet(M) /\ \A x \in M : AmountOf[x] \in Int
  BY MineFinite
<1>2. IsFiniteSet(N) /\ \A x \in N : RefundOf[x] \in Int
  BY MineFinite
<1>3. BookCookies(C, a) \in Nat /\ BookCost(C, a) \in Nat
  BY <1>0, BookSums, Zenon
<1>4. AmountOf[o] = o.amount /\ RefundOf[o] = Cost(o.amount, o.price)
  BY OrderValues
<1>5. o.amount \in Nat /\ Cost(o.amount, o.price) \in Nat
  BY <1>4, OrderValues
<1>6. IF o.type = "sell" /\ o.sender = a THEN o \in M /\ P = M \ {o} ELSE P = M
  BY DEF Mine
<1>7. IF o.type = "buy" /\ o.sender = a THEN o \in N /\ Q = N \ {o} ELSE Q = N
  BY DEF Mine
<1> HIDE DEF M, N, P, Q
<1>8. o \in M => SumFunctionOnSet(AmountOf, M) = AmountOf[o] + SumFunctionOnSet(AmountOf, M \ {o})
  BY <1>1, RemovedSum
<1>9. o \in N => SumFunctionOnSet(RefundOf, N) = RefundOf[o] + SumFunctionOnSet(RefundOf, N \ {o})
  BY <1>2, RemovedSum
<1>10. SumFunctionOnSet(AmountOf, P) \in Nat /\ SumFunctionOnSet(RefundOf, Q) \in Nat
  BY <1>3 DEF P, Q, BookCookies, BookCost
<1>11. SumFunctionOnSet(AmountOf, M) = SumFunctionOnSet(AmountOf, P)
          + (IF o.type = "sell" /\ o.sender = a THEN o.amount ELSE 0)
  <2> DEFINE x == SumFunctionOnSet(AmountOf, P)
             n == o.amount
             mine == o.type = "sell" /\ o.sender = a
  <2>1. x \in Nat /\ n \in Nat
    BY <1>5, <1>10
  <2>2. mine => SumFunctionOnSet(AmountOf, M) = n + x
    BY <1>4, <1>6, <1>8, Zenon
  <2>3. ~mine => SumFunctionOnSet(AmountOf, M) = x
    BY <1>6
  <2> HIDE DEF x, n, mine
  <2>4. SumFunctionOnSet(AmountOf, M) = x + (IF mine THEN n ELSE 0)
    BY <2>1, <2>2, <2>3
  <2> QED
    BY <2>4 DEF x, n, mine
<1>12. SumFunctionOnSet(RefundOf, N) = SumFunctionOnSet(RefundOf, Q)
          + (IF o.type = "buy" /\ o.sender = a THEN Cost(o.amount, o.price) ELSE 0)
  <2> DEFINE x == SumFunctionOnSet(RefundOf, Q)
             n == Cost(o.amount, o.price)
             mine == o.type = "buy" /\ o.sender = a
  <2>1. x \in Nat /\ n \in Nat
    BY <1>5, <1>10
  <2>2. mine => SumFunctionOnSet(RefundOf, N) = n + x
    BY <1>4, <1>7, <1>9
  <2>3. ~mine => SumFunctionOnSet(RefundOf, N) = x
    BY <1>7
  <2> HIDE DEF x, n, mine
  <2>4. SumFunctionOnSet(RefundOf, N) = x + (IF mine THEN n ELSE 0)
    BY <2>1, <2>2, <2>3
  <2> QED
    BY <2>4 DEF x, n, mine
<1> QED
  BY <1>11, <1>12 DEF M, N, P, Q, BookCookies, BookCost

\* An order joins the book.
LEMMA BookWith ==
    ASSUME SumLaws, NEW B, B \subseteq Order, IsFiniteSet(B), NEW o \in Order, o \notin B, NEW a
    PROVE  /\ BookCookies(B \cup {o}, a) = BookCookies(B, a)
                 + (IF o.type = "sell" /\ o.sender = a THEN o.amount ELSE 0)
           /\ BookCost(B \cup {o}, a) = BookCost(B, a)
                 + (IF o.type = "buy" /\ o.sender = a THEN Cost(o.amount, o.price) ELSE 0)
<1> DEFINE C == B \cup {o}
<1>1. C \subseteq Order /\ IsFiniteSet(C) /\ o \in C /\ C \ {o} = B
  BY FiniteInsert
<1> HIDE DEF C
<1>2. /\ BookCookies(C, a) = BookCookies(C \ {o}, a)
                 + (IF o.type = "sell" /\ o.sender = a THEN o.amount ELSE 0)
      /\ BookCost(C, a) = BookCost(C \ {o}, a)
                 + (IF o.type = "buy" /\ o.sender = a THEN Cost(o.amount, o.price) ELSE 0)
  BY <1>1, BookWithout
<1> QED
  BY <1>1, <1>2 DEF C

\* n cookies of order o are taken: the book loses n cookies of its sender, or
\* the BRC by which the smaller order is cheaper.
LEMMA BookReduced ==
    ASSUME SumLaws, orders \subseteq Order, IsFiniteSet(orders), NEW o \in orders, NEW n \in Nat,
           n > 0, n <= o.amount, \A p \in orders : p.trxid = o.trxid => p = o, NEW a
    PROVE  /\ Reduced(o, n) \subseteq Order /\ IsFiniteSet(Reduced(o, n))
           /\ o.amount - n \in Nat
           /\ BookCookies(orders, a) = BookCookies(Reduced(o, n), a) + CookiesLess(o, n, a)
           /\ BookCost(orders, a) = BookCost(Reduced(o, n), a) + CostLess(o, n, a)
<1> DEFINE B == orders
           C == Reduced(o, n)
           D == B \ {o}
           m == o.amount - n
           p == [o EXCEPT !.amount = m]
           c == Cost(o.amount, o.price)
           d == Cost(m, o.price)
<1>1. /\ o \in Order /\ o.amount \in Nat /\ o.price \in Nat /\ m \in Nat
      /\ o = [trxid |-> o.trxid, sender |-> o.sender, type |-> o.type, price |-> o.price,
              amount |-> o.amount, time |-> o.time]
  BY DEF Order
<1>2. c \in Nat /\ d \in Nat
  BY <1>1, CostBounds
<1>3. /\ BookCookies(B, a) = BookCookies(D, a)
           + (IF o.type = "sell" /\ o.sender = a THEN o.amount ELSE 0)
      /\ BookCost(B, a) = BookCost(D, a)
           + (IF o.type = "buy" /\ o.sender = a THEN c ELSE 0)
  BY BookWithout
<1>4. D \subseteq Order /\ IsFiniteSet(D)
  BY FiniteSubset
<1>5. BookCookies(D, a) \in Nat /\ BookCost(D, a) \in Nat
  BY <1>4, BookSums, Zenon
<1>6. /\ C \subseteq Order /\ IsFiniteSet(C)
      /\ BookCookies(C, a) = BookCookies(D, a)
           + (IF o.type = "sell" /\ o.sender = a THEN m ELSE 0)
      /\ BookCost(C, a) = BookCost(D, a)
           + (IF o.type = "buy" /\ o.sender = a THEN d ELSE 0)
  <2>1. CASE n < o.amount
    <3>1. /\ p \in Order /\ p.trxid = o.trxid /\ p.type = o.type /\ p.sender = o.sender
          /\ p.amount = m /\ p.price = o.price /\ p # o
      BY <1>1, <2>1 DEF Order
    <3>2. p \notin D
      BY <3>1, Zenon
    <3>3. C = D \cup {p}
      BY <2>1 DEF Reduced
    <3> HIDE DEF p, D, C, m
    <3>4. C \subseteq Order /\ IsFiniteSet(C)
      BY <1>4, <3>1, <3>3, FiniteInsert, Zenon
    <3>5. /\ BookCookies(D \cup {p}, a) = BookCookies(D, a)
               + (IF p.type = "sell" /\ p.sender = a THEN p.amount ELSE 0)
          /\ BookCost(D \cup {p}, a) = BookCost(D, a)
               + (IF p.type = "buy" /\ p.sender = a THEN Cost(p.amount, p.price) ELSE 0)
      BY <1>4, <3>1, <3>2, BookWith
    <3> QED
      BY <3>1, <3>3, <3>4, <3>5
  <2>2. CASE ~(n < o.amount)
    <3>1. m = 0 /\ C = D
      BY <1>1, <2>2 DEF Reduced
    <3>2. d = 0
      BY <1>1, <3>1, CostZero
    <3> HIDE DEF C, D, d, m
    <3> QED
      BY <1>4, <1>5, <3>1, <3>2
  <2> QED
    BY <2>1, <2>2
<1>7. m = o.amount - n /\ o.amount - n \in Nat
  BY <1>1
<1> HIDE DEF D, C, c, d, m
<1>8. BookCookies(B, a) = BookCookies(C, a) + (IF o.type = "sell" /\ o.sender = a THEN n ELSE 0)
  BY <1>1, <1>3, <1>5, <1>6, <1>7
<1>9. BookCost(B, a) = BookCost(C, a) + (IF o.type = "buy" /\ o.sender = a THEN c - d ELSE 0)
  BY <1>2, <1>3, <1>5, <1>6
<1> QED
  BY <1>6, <1>7, <1>8, <1>9 DEF C, c, d, m, CookiesLess, CostLess

LEMMA OpenNow ==
    ASSUME SumLaws, orders \subseteq Order, IsFiniteSet(orders), NEW a
    PROVE  /\ OpenCost(a) = BookCost(orders, a) /\ OpenCookies(a) = BookCookies(orders, a)
           /\ BookCost(orders, a) \in Nat /\ BookCookies(orders, a) \in Nat
  BY BookSums, Zenon DEF OpenCost, OpenCookies, Side

LEMMA OpenThen ==
    ASSUME SumLaws, orders' \subseteq Order, IsFiniteSet(orders'), NEW a
    PROVE  /\ OpenCost(a)' = BookCost(orders', a) /\ OpenCookies(a)' = BookCookies(orders', a)
           /\ BookCost(orders', a) \in Nat /\ BookCookies(orders', a) \in Nat
<1> DEFINE B == orders'
<1>1. B \subseteq Order /\ IsFiniteSet(B)
  OBVIOUS
<1>2. /\ OpenCost(a)' = SumFunctionOnSet([o \in B |-> Refund(o)],
                               {o \in {o \in B : o.type = "buy"} : o.sender = a})
      /\ OpenCookies(a)' = SumFunctionOnSet([o \in B |-> o.amount],
                               {o \in {o \in B : o.type = "sell"} : o.sender = a})
  BY DEF OpenCost, OpenCookies, Side, Refund, Cost
<1> HIDE DEF B
<1>3. /\ OpenCost(a)' = BookCost(B, a) /\ OpenCookies(a)' = BookCookies(B, a)
      /\ BookCost(B, a) \in Nat /\ BookCookies(B, a) \in Nat
  BY <1>1, <1>2, BookSums, Zenon
<1> QED
  BY <1>3 DEF B

\* What is owed to the acceptors, and what the running order may cost.
LEMMA ResultSums ==
    ASSUME SumLaws, results \in Seq(Result), job \in Job, NEW a
    PROVE  /\ SeqSum(CookiesOf(a), results) \in Nat /\ SeqSum(PaidTo(a), results) \in Nat
           /\ SeqSum(Cookies, results) \in Nat /\ SeqSum(Paid, results) \in Nat
           /\ SeqSum(AtPrice(job.price), results) \in Nat
           /\ Cost(job.spend, job.price) \in Nat /\ Cost(job.num, job.price) \in Nat
<1>1. job.price \in Nat /\ job.spend \in Nat /\ job.num \in Nat
  BY DEF Job
<1> QED
  BY <1>1, ResultValues, NatSeqSum, CostBounds, Zenon

LEMMA ValuesAt ==
    ASSUME NEW r \in Result, NEW a, NEW p \in Nat
    PROVE  /\ Cookies[r] = r.amount /\ Paid[r] = Cost(r.amount, r.price)
           /\ AtPrice(p)[r] = Cost(r.amount, p)
           /\ CookiesOf(a)[r] = (IF r.acceptor = a THEN r.amount ELSE 0)
           /\ PaidTo(a)[r] = (IF r.acceptor = a THEN Cost(r.amount, r.price) ELSE 0)
  BY DEF Cookies, Paid, AtPrice, CookiesOf, PaidTo

LEMMA AppendSums ==
    ASSUME SumLaws, NEW s \in Seq(Result), NEW r \in Result, NEW t, t = Append(s, r)
    PROVE  /\ SeqSum(Cookies, t) = SeqSum(Cookies, s) + r.amount
           /\ SeqSum(Paid, t) = SeqSum(Paid, s) + Cost(r.amount, r.price)
           /\ \A p \in Nat : SeqSum(AtPrice(p), t) = SeqSum(AtPrice(p), s) + Cost(r.amount, p)
<1>1. ASSUME NEW v \in [Result -> Nat] PROVE SeqSum(v, t) = SeqSum(v, s) + v[r]
  <2>1. v \in [Result -> Int]
    OBVIOUS
  <2> QED
    BY <2>1, AppendedSeqSum
<1>2. /\ SeqSum(Cookies, t) = SeqSum(Cookies, s) + r.amount
      /\ SeqSum(Paid, t) = SeqSum(Paid, s) + Cost(r.amount, r.price)
  <2>1. Cookies[r] = r.amount /\ Paid[r] = Cost(r.amount, r.price)
    BY ValuesAt, Zenon
  <2> QED
    BY <1>1, <2>1, ResultValues, Zenon
<1>3. ASSUME NEW p \in Nat
      PROVE  SeqSum(AtPrice(p), t) = SeqSum(AtPrice(p), s) + Cost(r.amount, p)
  <2>1. AtPrice(p)[r] = Cost(r.amount, p) /\ AtPrice(p) \in [Result -> Nat]
    BY ValuesAt, ResultValues, Zenon
  <2> QED
    BY <1>1, <2>1
<1> QED
  BY <1>2, <1>3

LEMMA AppendOwed ==
    ASSUME SumLaws, NEW s \in Seq(Result), NEW r \in Result, NEW t, t = Append(s, r), NEW a \in Trader
    PROVE  /\ SeqSum(CookiesOf(a), t) = SeqSum(CookiesOf(a), s)
                + (IF r.acceptor = a THEN r.amount ELSE 0)
           /\ SeqSum(PaidTo(a), t) = SeqSum(PaidTo(a), s)
                + (IF r.acceptor = a THEN Cost(r.amount, r.price) ELSE 0)
<1>1. ASSUME NEW v \in [Result -> Nat] PROVE SeqSum(v, t) = SeqSum(v, s) + v[r]
  <2>1. v \in [Result -> Int]
    OBVIOUS
  <2> QED
    BY <2>1, AppendedSeqSum
<1>2. /\ CookiesOf(a)[r] = (IF r.acceptor = a THEN r.amount ELSE 0)
      /\ PaidTo(a)[r] = (IF r.acceptor = a THEN Cost(r.amount, r.price) ELSE 0)
      /\ CookiesOf(a) \in [Result -> Nat] /\ PaidTo(a) \in [Result -> Nat]
  BY ResultValues, Zenon DEF CookiesOf, PaidTo
<1> QED
  BY <1>1, <1>2

LEMMA TailSums ==
    ASSUME SumLaws, NEW s \in Seq(Result), s # <<>>
    PROVE  /\ SeqSum(Cookies, s) = Head(s).amount + SeqSum(Cookies, Tail(s))
           /\ SeqSum(Paid, s) = Cost(Head(s).amount, Head(s).price) + SeqSum(Paid, Tail(s))
           /\ \A p \in Nat : SeqSum(AtPrice(p), s)
                               = Cost(Head(s).amount, p) + SeqSum(AtPrice(p), Tail(s))
<1> DEFINE r == Head(s)
           t == Tail(s)
<1>1. r \in Result
  OBVIOUS
<1>2. ASSUME NEW v \in [Result -> Nat] PROVE SeqSum(v, s) = v[r] + SeqSum(v, t)
  <2>1. v \in [Result -> Int]
    OBVIOUS
  <2> QED
    BY <2>1, TailSeqSum
<1> HIDE DEF r, t
<1>3. /\ SeqSum(Cookies, s) = r.amount + SeqSum(Cookies, t)
      /\ SeqSum(Paid, s) = Cost(r.amount, r.price) + SeqSum(Paid, t)
  <2>1. Cookies[r] = r.amount /\ Paid[r] = Cost(r.amount, r.price)
    BY <1>1, ValuesAt
  <2> QED
    BY <1>2, <2>1, ResultValues, Zenon
<1>4. ASSUME NEW p \in Nat
      PROVE  SeqSum(AtPrice(p), s) = Cost(r.amount, p) + SeqSum(AtPrice(p), t)
  <2>1. AtPrice(p)[r] = Cost(r.amount, p) /\ AtPrice(p) \in [Result -> Nat]
    BY <1>1, ValuesAt, ResultValues, Zenon
  <2> QED
    BY <1>2, <2>1
<1> QED
  BY <1>3, <1>4 DEF r, t

LEMMA TailOwed ==
    ASSUME SumLaws, NEW s \in Seq(Result), s # <<>>, NEW a \in Trader
    PROVE  /\ SeqSum(CookiesOf(a), s)
                = (IF Head(s).acceptor = a THEN Head(s).amount ELSE 0)
                    + SeqSum(CookiesOf(a), Tail(s))
           /\ SeqSum(PaidTo(a), s)
                = (IF Head(s).acceptor = a THEN Cost(Head(s).amount, Head(s).price) ELSE 0)
                    + SeqSum(PaidTo(a), Tail(s))
<1> DEFINE r == Head(s)
           t == Tail(s)
<1>1. r \in Result
  OBVIOUS
<1>2. ASSUME NEW v \in [Result -> Nat] PROVE SeqSum(v, s) = v[r] + SeqSum(v, t)
  <2>1. v \in [Result -> Int]
    OBVIOUS
  <2> QED
    BY <2>1, TailSeqSum
<1> HIDE DEF r, t
<1>3. /\ CookiesOf(a)[r] = (IF r.acceptor = a THEN r.amount ELSE 0)
      /\ PaidTo(a)[r] = (IF r.acceptor = a THEN Cost(r.amount, r.price) ELSE 0)
      /\ CookiesOf(a) \in [Result -> Nat] /\ PaidTo(a) \in [Result -> Nat]
  BY <1>1, ResultValues, Zenon DEF CookiesOf, PaidTo
<1>4. /\ SeqSum(CookiesOf(a), s) = (IF r.acceptor = a THEN r.amount ELSE 0) + SeqSum(CookiesOf(a), t)
      /\ SeqSum(PaidTo(a), s)
           = (IF r.acceptor = a THEN Cost(r.amount, r.price) ELSE 0) + SeqSum(PaidTo(a), t)
  BY <1>2, <1>3
<1> QED
  BY <1>4 DEF r, t

-----------------------------------------------------------------------------
(* The actions. *)

LEMMA BeginMoney ==
    ASSUME SumLaws, MoneyInv, NEW from \in Trader, NEW type \in {"buy", "sell"},
           NEW mode \in {"only_price", "all_price"},
           NEW price \in Prices \cup {0}, NEW num \in Amounts \cup {0},
           pendingOrders(from, type, mode, price, num)
    PROVE  MoneyInv'
<1>1. /\ price \in Nat /\ num \in Nat /\ PRICEPRECISION \in Nat \ {0} /\ from \in Address
      /\ price * PRICEPRECISION \in Nat
  BY ExchangeAssumption DEF Address
<1>2. Cost(num, price) \in Nat
  BY <1>1, CostBounds
<1>3. /\ MoneyTypes /\ Keyed /\ Granular /\ Frozen /\ ~failed
      /\ phase = "idle" /\ results = <<>>
      /\ BRC[from] \in Nat /\ balance[from] \in Nat
  BY <1>1, Zenon DEF MoneyInv, pendingOrders, MoneyTypes
<1>4. /\ BRC' = BRC /\ FBRC' = FBRC /\ balance' = balance /\ FBalance' = FBalance
      /\ orders' = orders /\ now' = now /\ next' = next + 1 /\ phase' = "match"
      /\ results' = results /\ failed' = failed /\ split' = split
  BY Zenon DEF pendingOrders, accounts
<1>5. job' = [from |-> from, type |-> type, mode |-> mode, price |-> price, num |-> num,
              trxid |-> next,
              spend |-> IF mode = "all_price" /\ type = "buy" THEN price * PRICEPRECISION ELSE num,
              free |-> IF mode = "all_price" THEN 0 ELSE IF type = "buy" THEN Cost(num, price) ELSE num,
              hadBRC |-> BRC[from], hadCookies |-> balance[from]]
  BY Zenon DEF pendingOrders
<1>6. /\ job'.from = from /\ job'.type = type /\ job'.mode = mode /\ job'.price = price
      /\ job'.num = num /\ job'.trxid = next /\ job'.hadBRC = BRC[from]
      /\ job'.hadCookies = balance[from]
      /\ job'.spend = IF mode = "all_price" /\ type = "buy" THEN price * PRICEPRECISION ELSE num
      /\ job'.free = IF mode = "all_price" THEN 0 ELSE IF type = "buy" THEN Cost(num, price) ELSE num
  BY <1>5, Zenon
<1>7. num % Granularity = 0 /\ price % Granularity = 0
  BY Zenon DEF pendingOrders, verifyPendingOrders
<1>8. num \in Multiples /\ price \in Multiples
  BY <1>1, <1>7, MultiplesFacts
<1>9. /\ type = "buy" /\ mode = "only_price" => Cost(num, price) <= BRC[from]
      /\ type = "buy" /\ mode = "all_price" => price <= BRC[from]
      /\ type = "sell" => num <= balance[from]
  BY Zenon DEF pendingOrders, verifyPendingOrders
<1>10. MoneyTypes'
  <2>1. job' \in Job
    BY <1>1, <1>2, <1>3, <1>5, SMTT(30) DEF Job, MoneyTypes
  <2> QED
    BY <1>3, <1>4, <2>1 DEF MoneyTypes
<1>11. Keyed'
  <2>1. next \in Nat /\ \A o \in orders : o.trxid \in Nat /\ o.trxid < next
    BY <1>3 DEF Keyed, MoneyTypes, Order
  <2>2. \A o \in orders : o.trxid < next + 1
    BY <2>1
  <2> QED
    BY <1>3, <1>4, <1>6, <2>1, <2>2 DEF Keyed
<1>12. Granular'
  <2>1. DOMAIN results' = {}
    BY <1>3, <1>4
  <2>2. ~(job'.mode = "all_price" /\ job'.type = "buy") => job'.spend \in Multiples
    BY <1>6, <1>8
  <2> QED
    BY <1>3, <1>4, <1>6, <1>8, <2>1, <2>2, Zenon DEF Granular
<1>13. \A v : SeqSum(v, results') = 0 /\ SeqSum(v, results) = 0
  BY <1>3, <1>4, EmptySeqSum, SMTT(30)
<1>14. Frozen'
  <2> SUFFICES ASSUME NEW a \in Trader
               PROVE  /\ FBalance[a] + 0 = OpenCookies(a)' + 0
                      /\ FBRC[a] + 0 >= OpenCost(a)' + 0
                      /\ ~split => FBRC[a] + 0 = OpenCost(a)' + 0
    BY <1>4, <1>13, Zenon DEF Frozen, Recorded, Unpaid
  <2>1. OpenCookies(a)' = OpenCookies(a) /\ OpenCost(a)' = OpenCost(a)
    BY <1>4 DEF OpenCookies, OpenCost, Side
  <2> QED
    BY <1>3, <2>1, Zenon DEF Frozen, Recorded, Unpaid
<1>15. Covered'
  <2>1. CASE type = "buy" /\ mode = "only_price"
    BY <1>1, <1>2, <1>3, <1>4, <1>6, <1>9, <1>13, <2>1, SMTT(30) DEF Covered
  <2>2. CASE type = "buy" /\ mode = "all_price"
    BY <1>1, <1>2, <1>3, <1>4, <1>6, <1>9, <1>13, <2>2, SMTT(30) DEF Covered
  <2>3. CASE type = "sell"
    BY <1>1, <1>2, <1>3, <1>4, <1>6, <1>9, <1>13, <2>3, SMTT(30) DEF Covered
  <2> QED
    BY <2>1, <2>2, <2>3, SMTT(30)
<1> QED
  BY <1>3, <1>4, <1>10, <1>11, <1>12, <1>14, <1>15 DEF MoneyInv

\* One iteration of the matching.
LEMMA MatchMoney ==
    ASSUME SumLaws, MoneyInv, BookInv, NEW o \in orders, match(o)
    PROVE  MoneyInv'
<1> DEFINE n == Taken(o)
           r == [acceptor |-> o.sender, amount |-> n, price |-> o.price]
           market == job.mode = "all_price" /\ job.type = "buy"
           x == Cost(n, o.price)
<1>1. /\ MoneyTypes /\ Keyed /\ Granular /\ Frozen /\ ~failed /\ Covered /\ phase = "match"
      /\ orders \subseteq Order /\ IsFiniteSet(orders) /\ o \in Order /\ job \in Job
      /\ job.spend > 0 /\ job.spend \in Nat /\ results \in Seq(Result)
  <2>1. /\ MoneyTypes /\ Keyed /\ Granular /\ Frozen /\ ~failed /\ Covered /\ phase = "match"
        /\ orders \subseteq Order /\ IsFiniteSet(orders) /\ job \in Job
        /\ job.spend > 0 /\ results \in Seq(Result)
    BY ZenonT(60) DEF MoneyInv, match, MoneyTypes
  <2>2. job.spend \in Nat /\ o \in Order
    BY <2>1 DEF Job
  <2> QED
    BY <2>1, <2>2, Zenon
<1>2. /\ n \in Nat /\ n <= o.amount /\ n > 0
      /\ ~market => n <= job.spend
      /\ o.price \in Nat \ {0} /\ o.amount \in Nat \ {0} /\ o.amount * o.price \in Nat
      /\ o.sender \in Trader /\ o.type \in {"buy", "sell"}
  <2>1. o.sender \in Trader /\ o.type \in {"buy", "sell"}
    BY <1>1 DEF Order
  <2> QED
    BY <1>1, <2>1, TakenFacts DEF match
<1>3. r \in Result
  BY <1>2 DEF Result
<1>4. InRange(o, job) /\ o.type # job.type
  BY DEF match, First, Reach, InRange
<1>5. /\ BRC' = BRC /\ FBRC' = FBRC /\ balance' = balance /\ FBalance' = FBalance
      /\ now' = now /\ next' = next /\ phase' = "match" /\ failed' = failed
      /\ orders' = Reduced(o, n) /\ results' = Append(results, r)
      /\ split' = (split \/ (market /\ n # o.amount))
      /\ job' = [job EXCEPT !.spend = IF ~market THEN @ - n
                                      ELSE IF n = o.amount THEN @ - n * o.price ELSE 0]
  BY <1>1 DEF match, accounts
<1>6. market => n * o.price \in Nat /\ n * o.price <= job.spend
  <2>1. n * o.price \in Nat
    BY <1>2
  <2>2. CASE market /\ o.amount * o.price <= job.spend
    BY <2>1, <2>2 DEF Taken
  <2>3. CASE market /\ ~(o.amount * o.price <= job.spend)
    <3>1. n = job.spend \div o.price
      BY <2>3 DEF Taken
    <3> DEFINE s == job.spend
               q == o.price
    <3>2. s \in Nat /\ q \in Nat \ {0}
      BY <1>1, <1>2
    <3>3. n = s \div q
      BY <3>1
    <3> HIDE DEF n, s, q
    <3>4. (s \div q) * q <= s
      BY <3>2
    <3> QED
      BY <2>1, <3>3, <3>4 DEF s, q
  <2> QED
    BY <2>2, <2>3
<1>7. job'.spend \in Nat /\ job'.spend = IF ~market THEN job.spend - n
                          ELSE IF n = o.amount THEN job.spend - n * o.price ELSE 0
  <2>1. job'.spend = IF ~market THEN job.spend - n
                          ELSE IF n = o.amount THEN job.spend - n * o.price ELSE 0
    BY <1>1, <1>5 DEF Job
  <2> DEFINE np == n * o.price
  <2>2. market => np \in Nat /\ np <= job.spend
    BY <1>6
  <2> HIDE DEF n, np, market
  <2>3. (IF ~market THEN job.spend - n ELSE IF n = o.amount THEN job.spend - np ELSE 0) \in Nat
    BY <1>1, <1>2, <2>2
  <2> QED
    BY <2>1, <2>3 DEF np
<1>8. /\ job' \in Job
      /\ job'.from = job.from /\ job'.type = job.type /\ job'.mode = job.mode
      /\ job'.price = job.price /\ job'.num = job.num /\ job'.trxid = job.trxid
      /\ job'.free = job.free /\ job'.hadBRC = job.hadBRC /\ job'.hadCookies = job.hadCookies
  <2> DEFINE t == job'.spend
  <2>1. job' = [job EXCEPT !.spend = t] /\ t \in Nat
    BY <1>1, <1>5, <1>7 DEF Job
  <2> HIDE DEF t
  <2> QED
    BY <1>1, <2>1, SMTT(30) DEF Job
<1>9. \A p \in orders : p.trxid = o.trxid => p = o
  BY <1>1 DEF Keyed
<1>10. \A p \in orders' : \/ p \in orders
                          \/ /\ p.trxid = o.trxid /\ p.price = o.price /\ p.amount = o.amount - n
                             /\ o \notin orders'
  <2> SUFFICES ASSUME NEW p \in orders', p \notin orders
               PROVE  /\ p.trxid = o.trxid /\ p.price = o.price /\ p.amount = o.amount - n
                      /\ o \notin orders'
    OBVIOUS
  <2>1. p = [o EXCEPT !.amount = @ - n] /\ orders' = (orders \ {o}) \cup {p}
    BY <1>5 DEF Reduced
  <2> QED
    BY <1>1, <2>1 DEF Order
<1>11. /\ orders' \subseteq Order /\ IsFiniteSet(orders') /\ o.amount - n \in Nat
       /\ \A a : /\ BookCookies(orders, a) = BookCookies(orders', a) + CookiesLess(o, n, a)
                 /\ BookCost(orders, a) = BookCost(orders', a) + CostLess(o, n, a)
  <2>1. n \in Nat /\ n > 0 /\ n <= o.amount /\ orders' = Reduced(o, n)
    BY <1>2, <1>5
  <2> HIDE DEF n
  <2> QED
    BY <1>1, <1>9, <2>1, BookReduced, Zenon
<1>12. MoneyTypes'
  <2>1. results' \in Seq(Result)
    BY <1>1, <1>3, <1>5
  <2>2. split' \in BOOLEAN
    BY <1>1, <1>5 DEF MoneyTypes
  <2> QED
    BY <1>1, <1>5, <1>8, <1>11, <2>1, <2>2 DEF MoneyTypes
<1>13. Keyed'
  <2>1. \A p, q \in orders' : p.trxid = q.trxid => p = q
    <3> SUFFICES ASSUME NEW p \in orders', NEW q \in orders', p.trxid = q.trxid, p # q
                 PROVE  FALSE
      OBVIOUS
    <3>1. CASE p \in orders /\ q \in orders
      BY <1>1, <3>1 DEF Keyed
    <3>2. CASE p \in orders /\ q \notin orders
      BY <1>9, <1>10, <3>2
    <3>3. CASE p \notin orders /\ q \in orders
      BY <1>9, <1>10, <3>3
    <3>4. CASE p \notin orders /\ q \notin orders
      <4>1. p = [o EXCEPT !.amount = @ - n] /\ q = [o EXCEPT !.amount = @ - n]
        BY <1>5, <3>4 DEF Reduced
      <4> QED
        BY <4>1
    <3> QED
      BY <3>1, <3>2, <3>3, <3>4
  <2> QED
    BY <1>1, <1>5, <1>8, <1>10, <2>1 DEF Keyed
<1>14. ~split' => ~split /\ n \in Multiples /\ o.amount \in Multiples /\ o.price \in Multiples
                  /\ (~market => job.spend \in Multiples)
  BY <1>1, <1>5, <1>2, Zenon DEF Granular, Taken
<1>15. Granular'
  <2>1. \A p \in orders' : p.price \in Multiples
    BY <1>1, <1>10 DEF Granular
  <2>2. ASSUME ~split', NEW p \in orders' PROVE p.amount \in Multiples
    <3>1. o.amount - n >= 0
      BY <1>2
    <3>2. o.amount - n \in Multiples
      BY <1>14, <2>2, <3>1, MultiplesFacts, Zenon
    <3> QED
      BY <1>1, <1>10, <1>14, <2>2, <3>2 DEF Granular
  <2>3. ASSUME ~split', NEW i \in DOMAIN results' PROVE results'[i].amount \in Multiples
    <3>1. i \in 1..(Len(results) + 1)
      BY <1>1, <1>3, <1>5
    <3>2. CASE i = Len(results) + 1
      <4>1. results'[i] = r
        BY <1>1, <1>3, <1>5, <3>2, SMTT(30)
      <4> QED
        BY <1>14, <2>3, <4>1
    <3>3. CASE i \in 1..Len(results)
      <4>1. results'[i] = results[i] /\ i \in DOMAIN results
        BY <1>1, <1>3, <1>5, <3>3
      <4> QED
        BY <1>1, <1>14, <2>3, <4>1, Zenon DEF Granular
    <3> QED
      BY <1>1, <3>1, <3>2, <3>3
  <2>4. ~split' /\ ~market => job'.spend \in Multiples
    <3>1. ~market => job.spend - n >= 0
      BY <1>1, <1>2
    <3> QED
      BY <1>7, <1>14, <3>1, MultiplesFacts, Zenon
  <2> QED
    BY <1>1, <1>5, <1>8, <2>1, <2>2, <2>3, <2>4 DEF Granular
<1>0. r.acceptor = o.sender /\ r.amount = n /\ r.price = o.price
  OBVIOUS
<1>16. /\ SeqSum(Cookies, results') = SeqSum(Cookies, results) + n
       /\ SeqSum(Paid, results') = SeqSum(Paid, results) + x
       /\ \A p \in Nat : SeqSum(AtPrice(p), results') = SeqSum(AtPrice(p), results) + Cost(n, p)
  <2>2. results' = Append(results, r) /\ results \in Seq(Result)
    BY <1>1, <1>5
  <2> HIDE DEF r
  <2>3. SeqSum(Cookies, results') = SeqSum(Cookies, results) + r.amount
    BY <1>3, <2>2, AppendSums, Zenon
  <2>4. SeqSum(Paid, results') = SeqSum(Paid, results) + Cost(r.amount, r.price)
    BY <1>3, <2>2, AppendSums, Zenon
  <2>5. \A p \in Nat : SeqSum(AtPrice(p), results') = SeqSum(AtPrice(p), results) + Cost(r.amount, p)
    BY <1>3, <2>2, AppendSums, ZenonT(60)
  <2> QED
    BY <1>0, <2>3, <2>4, <2>5, Zenon
<1>20. ASSUME NEW a \in Trader
       PROVE  /\ SeqSum(CookiesOf(a), results') = SeqSum(CookiesOf(a), results)
                    + (IF o.sender = a THEN n ELSE 0)
              /\ SeqSum(PaidTo(a), results') = SeqSum(PaidTo(a), results)
                    + (IF o.sender = a THEN x ELSE 0)
  <2>2. results' = Append(results, r) /\ results \in Seq(Result)
    BY <1>1, <1>5
  <2> HIDE DEF r
  <2>3. /\ SeqSum(CookiesOf(a), results') = SeqSum(CookiesOf(a), results)
               + (IF r.acceptor = a THEN r.amount ELSE 0)
         /\ SeqSum(PaidTo(a), results') = SeqSum(PaidTo(a), results)
               + (IF r.acceptor = a THEN Cost(r.amount, r.price) ELSE 0)
    BY <1>3, <2>2, AppendOwed, ZenonT(60)
  <2> QED
    BY <1>0, <2>3, Zenon
<1>17. /\ x \in Nat /\ Cost(o.amount, o.price) \in Nat /\ Cost(o.amount - n, o.price) \in Nat
       /\ x <= Cost(o.amount, o.price) - Cost(o.amount - n, o.price)
       /\ ~split' => x = Cost(o.amount, o.price) - Cost(o.amount - n, o.price)
  <2> DEFINE m == o.amount - n
  <2>1. m \in Nat /\ n + m = o.amount /\ m >= 0
    BY <1>2
  <2>2. x \in Nat /\ Cost(o.amount, o.price) \in Nat /\ Cost(m, o.price) \in Nat
    BY <1>2, <2>1, CostBounds, Zenon
  <2>3. Cost(n, o.price) + Cost(m, o.price) <= Cost(n + m, o.price)
    BY <1>2, <2>1, CostSplits, Zenon
  <2>4. ~split' => m \in Multiples
    BY <1>14, <2>1, MultiplesFacts, Zenon
  <2>5. ~split' => Cost(n, o.price) + Cost(m, o.price) = Cost(n + m, o.price)
    BY <1>14, <2>1, <2>4, CostSplitsExactly
  <2> DEFINE c == Cost(o.amount, o.price)
             d == Cost(m, o.price)
  <2>6. x \in Nat /\ c \in Nat /\ d \in Nat /\ x + d <= c /\ (~split' => x + d = c)
    BY <2>1, <2>2, <2>3, <2>5
  <2> HIDE DEF x, c, d
  <2>7. x <= c - d /\ (~split' => x = c - d)
    BY <2>6, SMTT(30)
  <2> QED
    BY <2>6, <2>7 DEF c, d
<1>18. Frozen'
  <2> SUFFICES ASSUME NEW a \in Trader
               PROVE  /\ FBalance[a] + 0 = OpenCookies(a)'
                            + (IF job.type = "buy" THEN SeqSum(CookiesOf(a), results') ELSE 0)
                      /\ FBRC[a] + 0 >= OpenCost(a)'
                            + (IF job.type = "sell" THEN SeqSum(PaidTo(a), results') ELSE 0)
                      /\ ~split' => FBRC[a] + 0 = OpenCost(a)'
                            + (IF job.type = "sell" THEN SeqSum(PaidTo(a), results') ELSE 0)
    BY <1>5, <1>8 DEF Frozen, Recorded, Unpaid
  <2> DEFINE K == BookCookies(orders, a)
             KK == BookCookies(orders', a)
             C == BookCost(orders, a)
             CC == BookCost(orders', a)
             S == SeqSum(CookiesOf(a), results)
             P == SeqSum(PaidTo(a), results)
             e == Cost(o.amount, o.price) - Cost(o.amount - n, o.price)
  <2>1. /\ OpenCookies(a) = K /\ OpenCost(a) = C /\ K \in Nat /\ C \in Nat
    BY <1>1, OpenNow
  <2>2. /\ OpenCookies(a)' = KK /\ OpenCost(a)' = CC /\ KK \in Nat /\ CC \in Nat
    BY <1>11, OpenThen
  <2>3. S \in Nat /\ P \in Nat
    BY <1>1, ResultSums
  <2>4. /\ FBalance[a] \in Nat /\ FBRC[a] \in Nat
    BY <1>1 DEF MoneyTypes, Address
  <2>5. /\ FBalance[a] + 0 = OpenCookies(a) + (IF job.type = "buy" THEN S ELSE 0)
        /\ FBRC[a] + 0 >= OpenCost(a) + (IF job.type = "sell" THEN P ELSE 0)
        /\ ~split => FBRC[a] + 0 = OpenCost(a) + (IF job.type = "sell" THEN P ELSE 0)
    BY <1>1, Zenon DEF Frozen, Recorded, Unpaid
  <2>6. /\ SeqSum(CookiesOf(a), results') = S + (IF o.sender = a THEN n ELSE 0)
        /\ SeqSum(PaidTo(a), results') = P + (IF o.sender = a THEN x ELSE 0)
        /\ K = KK + (IF o.type = "sell" /\ o.sender = a THEN n ELSE 0)
        /\ C = CC + (IF o.type = "buy" /\ o.sender = a THEN e ELSE 0)
    <3>1. K = KK + CookiesLess(o, n, a) /\ C = CC + CostLess(o, n, a)
      BY <1>11
    <3>2. /\ SeqSum(CookiesOf(a), results') = S + (IF o.sender = a THEN n ELSE 0)
          /\ SeqSum(PaidTo(a), results') = P + (IF o.sender = a THEN x ELSE 0)
      BY <1>20
    <3> QED
      BY <3>1, <3>2 DEF CookiesLess, CostLess
  <2>7. x \in Nat /\ e \in Int /\ x <= e /\ (~split' => x = e)
    BY <1>17, SMTT(30)
  <2> HIDE DEF K, KK, C, CC, S, P, e, n, x
  <2>8. CASE job.type = "buy"
    <3>1. o.type = "sell"
      BY <1>2, <1>4, <2>8, SMTT(30)
    <3> DEFINE d == IF o.sender = a THEN n ELSE 0
               F == FBRC[a]
               G == FBalance[a]
               SS == SeqSum(CookiesOf(a), results')
    <3>2. /\ G + 0 = K + S /\ SS = S + d /\ K = KK + d
          /\ F + 0 >= C + 0 /\ (~split => F + 0 = C + 0) /\ C = CC + 0
      BY <2>1, <2>5, <2>6, <2>8, <3>1, SMTT(30)
    <3>3. /\ n \in Nat /\ F \in Nat /\ G \in Nat /\ (~split' => ~split)
      BY <1>2, <1>14, <2>4, Zenon
    <3>4. d \in Nat
      BY <3>3
    <3> HIDE DEF d, F, G, SS
    <3>5. /\ G + 0 = KK + SS /\ F + 0 >= CC + 0 /\ (~split' => F + 0 = CC + 0)
      BY <2>1, <2>2, <2>3, <3>2, <3>3, <3>4, SMTT(30)
    <3> QED
      BY <2>2, <2>8, <3>5, Zenon DEF F, G, SS
  <2>9. CASE job.type = "sell"
    <3>1. o.type = "buy"
      BY <1>2, <1>4, <2>9
    <3> DEFINE d == IF o.sender = a THEN x ELSE 0
               y == IF o.sender = a THEN e ELSE 0
               F == FBRC[a]
               PP == SeqSum(PaidTo(a), results')
    <3>2. /\ F + 0 >= C + P /\ (~split => F + 0 = C + P)
          /\ FBalance[a] + 0 = K + 0 /\ PP = P + d /\ K = KK + 0 /\ C = CC + y
      BY <2>1, <2>5, <2>6, <2>9, <3>1
    <3>3. /\ d \in Nat /\ y \in Int /\ d <= y /\ (~split' => d = y) /\ F \in Nat
          /\ (~split' => ~split)
      BY <1>14, <2>4, <2>7
    <3> HIDE DEF d, y, F, PP
    <3>4. F + 0 >= CC + PP /\ (~split' => F + 0 = CC + PP) /\ FBalance[a] + 0 = KK + 0
      BY <2>1, <2>2, <2>3, <2>4, <3>2, <3>3
    <3> QED
      BY <2>2, <2>9, <3>4, Zenon DEF F, PP
  <2>10. job.type \in {"buy", "sell"}
    BY <1>1 DEF Job
  <2> QED
    BY <2>8, <2>9, <2>10, Zenon
<1>19. Covered'
  <2> DEFINE p == job.price
             f == job.from
  <2>0. /\ f \in Trader /\ p \in Nat /\ BRC[f] \in Nat /\ balance[f] \in Nat /\ job.free \in Int
        /\ job.hadBRC \in Nat /\ job.hadCookies \in Nat /\ job.num \in Nat
    BY <1>1, Zenon DEF Covered, MoneyTypes, Job, Address
  <2>1. CASE job.type = "buy" /\ job.mode = "only_price"
    <3> DEFINE s == job.spend
               S == SeqSum(AtPrice(p), results)
               m == s - n
    <3>1. /\ job.hadBRC >= Cost(job.num, p)
          /\ job.hadBRC - BRC[f] + job.free <= Cost(job.num, p)
          /\ job.free >= Cost(s, p) + S
          /\ ~split => job.free = Cost(s, p) + S
          /\ \A i \in DOMAIN results : results[i].price <= p
      BY <1>1, <2>1, Zenon DEF Covered
    <3>2. m \in Nat /\ m >= 0 /\ m + n = s /\ job'.spend = m
      BY <1>1, <1>2, <1>7, <2>1, SMTT(30)
    <3>3. /\ Cost(m, p) \in Nat /\ Cost(n, p) \in Nat /\ Cost(s, p) \in Nat
          /\ Cost(m, p) + Cost(n, p) <= Cost(s, p)
      BY <1>1, <1>2, <2>0, <3>2, CostBounds, CostSplits, Zenon
    <3>4. ~split' => m \in Multiples /\ n \in Multiples /\ p \in Multiples
      BY <1>1, <1>14, <2>1, <3>2, MultiplesFacts, Zenon DEF Granular
    <3>5. ~split' => Cost(m, p) + Cost(n, p) = Cost(s, p)
      <4>1. ~split' => m + n \in Multiples
        BY <1>14, <2>1, <3>2, SMTT(30)
      <4> QED
        BY <3>2, <3>4, <4>1, CostSplitsExactly
    <3>6. S \in Nat /\ SeqSum(AtPrice(p), results') = S + Cost(n, p)
      BY <1>1, <1>16, <2>0, ResultSums, ZenonT(60)
    <3>7. \A i \in DOMAIN results' : results'[i].price <= p
      <4> SUFFICES ASSUME NEW i \in DOMAIN results' PROVE results'[i].price <= p
        OBVIOUS
      <4>1. i \in 1..(Len(results) + 1)
        BY <1>1, <1>3, <1>5
      <4>2. CASE i = Len(results) + 1
        <5>1. results'[i] = r
          BY <1>1, <1>3, <1>5, <4>2
        <5> QED
          BY <1>4, <2>1, <5>1, SMTT(30) DEF InRange
      <4>3. CASE i \in 1..Len(results)
        <5>1. results'[i] = results[i] /\ i \in DOMAIN results
          BY <1>1, <1>3, <1>5, <4>3
        <5> QED
          BY <3>1, <5>1, SMTT(30)
      <4> QED
        BY <1>1, <4>1, <4>2, <4>3
    <3> DEFINE cm == Cost(m, p)
               cn == Cost(n, p)
               cs == Cost(s, p)
    <3>8. /\ cm \in Nat /\ cn \in Nat /\ cs \in Nat /\ cm + cn <= cs /\ (~split' => cm + cn = cs)
          /\ job.free >= cs + S /\ (~split => job.free = cs + S) /\ S \in Nat
      BY <3>1, <3>3, <3>5, <3>6, Zenon
    <3> HIDE DEF cm, cn, cs, S
    <3>9. job.free >= cm + (S + cn) /\ (~split' => job.free = cm + (S + cn))
      BY <1>14, <2>0, <3>8
    <3>10. /\ job.free >= Cost(m, p) + SeqSum(AtPrice(p), results')
           /\ ~split' => job.free = Cost(m, p) + SeqSum(AtPrice(p), results')
      BY <3>6, <3>9 DEF cm, cn
    <3> QED
      BY <1>5, <1>8, <2>0, <2>1, <3>1, <3>2, <3>7, <3>10, Zenon DEF Covered
  <2>2. CASE job.type = "buy" /\ job.mode = "all_price"
    <3> DEFINE u == PRICEPRECISION
               P == SeqSum(Paid, results)
               s == job.spend
               t == job'.spend
               w == n * o.price
               h == job.hadBRC
               b == BRC[f]
    <3>1. job.free = 0 /\ h >= p /\ b = h /\ P * u + s <= p * u
      BY <1>1, <2>2, Zenon DEF Covered
    <3>2. P \in Nat /\ u \in Nat /\ u # 0 /\ SeqSum(Paid, results') = P + x
      BY <1>1, <1>16, ResultSums, ExchangeAssumption, Zenon
    <3>3. w \in Nat /\ w <= s /\ t <= s - w /\ t \in Nat
      <4>1. w \in Nat /\ w <= s
        BY <1>6, <2>2
      <4>2. t = IF n = o.amount THEN s - w ELSE 0
        BY <1>7, <2>2
      <4> HIDE DEF w
      <4> QED
        BY <1>1, <1>7, <4>1, <4>2, SMTT(30)
    <3>4. x * u <= w /\ x \in Nat
      BY <1>2, CostBounds, Zenon
    <3> HIDE DEF x, u, P, s, t, w, h, b
    <3>5. s \in Nat /\ b \in Nat /\ h \in Nat
      BY <1>1, <2>0 DEF s, h, b
    <3>6. (P + x) * u = P * u + x * u
      BY <3>2, <3>4, Distributes, Zenon
    <3>7. (P + x) * u + t <= p * u
      <4> DEFINE Pu == P * u
                 xu == x * u
                 pu == p * u
      <4>1. Pu \in Int /\ xu \in Int /\ pu \in Int /\ Pu + s <= pu /\ xu <= w
        BY <2>0, <3>1, <3>2, <3>4
      <4> HIDE DEF Pu, xu, pu
      <4>2. Pu + xu + t <= pu
        BY <3>3, <3>5, <4>1, SMTT(30)
      <4> QED
        BY <3>6, <4>2 DEF Pu, xu, pu
    <3>8. P + x <= p
      <4>1. (P + x) * u \in Int /\ p * u \in Int /\ P + x \in Int
        BY <2>0, <3>2, <3>4
      <4>2. (P + x) * u < p * u + u
        BY <3>2, <3>3, <3>7, <4>1, SMTT(30)
      <4> QED
        BY <2>0, <3>2, <4>1, <4>2, UnitCompare, SMTT(30)
    <3>9. h - b + (P + x) <= p
      BY <2>0, <3>1, <3>2, <3>4, <3>5, <3>8, SMTT(30)
    <3> QED
      BY <1>5, <1>8, <2>0, <2>2, <3>1, <3>2, <3>7, <3>9, Zenon DEF Covered, h, b, u, t
  <2>3. CASE job.type = "sell"
    <3> DEFINE S == SeqSum(Cookies, results)
    <3>1. /\ job.hadCookies >= job.num
          /\ job.hadCookies - balance[f] + job.spend + S <= job.num
          /\ job.free = IF job.mode = "only_price" THEN job.spend + S ELSE 0
      BY <1>1, <2>3, Zenon DEF Covered
    <3>2. S \in Nat /\ SeqSum(Cookies, results') = S + n
      BY <1>1, <1>16, ResultSums, Zenon
    <3>3. job'.spend = job.spend - n
      BY <1>7, <2>3, SMTT(30)
    <3> HIDE DEF S, n
    <3>4. /\ job.hadCookies - balance[f] + (job.spend - n) + (S + n) <= job.num
          /\ job.free = IF job.mode = "only_price" THEN (job.spend - n) + (S + n) ELSE 0
      <4> DEFINE s == job.spend
                 d == job.hadCookies - balance[f]
      <4>1. d + s + S <= job.num /\ d \in Int /\ s \in Nat
        BY <1>1, <2>0, <3>1, SMTT(30)
      <4> HIDE DEF s, d
      <4>2. (s - n) + (S + n) = s + S /\ d + (s - n) + (S + n) <= job.num
        BY <1>2, <2>0, <3>2, <4>1
      <4> QED
        BY <3>1, <4>2, Zenon DEF s, d
    <3> QED
      BY <1>5, <1>8, <2>0, <2>3, <3>1, <3>2, <3>3, <3>4, SMTT(30) DEF Covered
  <2>4. job.type \in {"buy", "sell"} /\ job.mode \in {"only_price", "all_price"}
    BY <1>1 DEF Job
  <2> QED
    BY <2>1, <2>2, <2>3, <2>4, SMTT(30)
<1> QED
  BY <1>1, <1>5, <1>12, <1>13, <1>15, <1>18, <1>19, SMTT(30) DEF MoneyInv

\* The end of the loop: the rest of a limit order joins the book, under the
\* transaction's own id.
LEMMA EndMatchMoney ==
    ASSUME SumLaws, MoneyInv, BookInv, endMatch
    PROVE  MoneyInv'
<1> DEFINE new == [trxid |-> job.trxid, sender |-> job.from, type |-> job.type,
                   price |-> job.price, amount |-> job.spend, time |-> now]
           rest == job.mode = "only_price" /\ job.spend > 0
           c == Cost(job.spend, job.price)
<1>1. /\ MoneyTypes /\ Keyed /\ Granular /\ Frozen /\ ~failed /\ Covered /\ phase = "match"
      /\ orders \subseteq Order /\ IsFiniteSet(orders) /\ job \in Job
      /\ job.spend \in Nat /\ job.price \in Nat /\ results \in Seq(Result) /\ job.from \in Trader
      /\ job.type \in {"buy", "sell"} /\ job.mode \in {"only_price", "all_price"}
  BY Zenon DEF MoneyInv, endMatch, MoneyTypes, Job, Covered
<1>2. /\ BRC' = BRC /\ FBRC' = FBRC /\ balance' = balance /\ FBalance' = FBalance
      /\ now' = now /\ next' = next /\ phase' = "pay" /\ failed' = failed
      /\ results' = results /\ split' = split /\ job' = job
      /\ orders' = IF rest THEN orders \cup {new} ELSE orders
  BY Zenon DEF endMatch, accounts
<1>3. c \in Nat /\ (job.spend = 0 => c = 0)
  BY <1>1, CostBounds, CostZero, Zenon
<1>4. rest => new \in Order /\ new \notin orders
  <2>1. rest => new \in Order
    BY <1>1 DEF BookInv, Running, Order
  <2>2. \A o \in orders : o.trxid # new.trxid
    <3>1. job.trxid \in Nat /\ \A o \in orders : o.trxid \in Nat /\ o.trxid < job.trxid
      BY <1>1 DEF Keyed, Order, Job
    <3>2. \A o \in orders : o.trxid # job.trxid
      BY <3>1
    <3> QED
      BY <3>2, Zenon
  <2> QED
    BY <2>1, <2>2
<1>5. orders' \subseteq Order /\ IsFiniteSet(orders')
  <2>1. IsFiniteSet(orders \cup {new})
    <3> HIDE DEF new
    <3> QED
      BY <1>1, FiniteInsert, Zenon
  <2> QED
    BY <1>1, <1>2, <1>4, <2>1, Zenon
<1>6. MoneyTypes'
  BY <1>1, <1>2, <1>5, Zenon DEF MoneyTypes
<1>7. Keyed'
  <2>1. /\ job.trxid = next - 1 /\ next \in Nat /\ new.trxid = job.trxid
        /\ \A o \in orders : o.trxid < job.trxid /\ o.trxid \in Nat
    BY <1>1, Zenon DEF Keyed, Order, MoneyTypes
  <2>2. \A o \in orders' : o.trxid < next
    BY <1>1, <1>2, <2>1, SMTT(30) DEF Keyed
  <2>3. \A o, p \in orders' : o.trxid = p.trxid => o = p
    BY <1>1, <1>2, <2>1, SMTT(30) DEF Keyed
  <2> QED
    BY <1>2, <2>1, <2>2, <2>3, Zenon DEF Keyed
<1>8. Granular'
  <2>1. \A o \in orders' : o \in orders \/ (rest /\ o = new)
    BY <1>2
  <2>2. new.price = job.price /\ new.amount = job.spend
    BY SMTT(30)
  <2> HIDE DEF new
  <2> QED
    BY <1>1, <1>2, <2>1, <2>2, Zenon DEF Granular
<1>9. Covered'
  BY <1>1, <1>2, ZenonT(60) DEF Covered
<1>10. Frozen'
  <2> SUFFICES ASSUME NEW a \in Trader
               PROVE  /\ FBalance[a] + (IF Recorded("sell", a)' THEN job.spend ELSE 0)
                           = OpenCookies(a)'
                            + (IF job.type = "buy" THEN SeqSum(CookiesOf(a), results) ELSE 0)
                      /\ FBRC[a] + (IF Recorded("buy", a)' THEN c ELSE 0)
                           >= OpenCost(a)'
                            + (IF job.type = "sell" THEN SeqSum(PaidTo(a), results) ELSE 0)
                      /\ ~split => FBRC[a] + (IF Recorded("buy", a)' THEN c ELSE 0)
                           = OpenCost(a)'
                            + (IF job.type = "sell" THEN SeqSum(PaidTo(a), results) ELSE 0)
    BY <1>2, Zenon DEF Frozen, Unpaid
  <2> DEFINE K == BookCookies(orders, a)
             KK == BookCookies(orders', a)
             C == BookCost(orders, a)
             CC == BookCost(orders', a)
             S == IF job.type = "buy" THEN SeqSum(CookiesOf(a), results) ELSE 0
             P == IF job.type = "sell" THEN SeqSum(PaidTo(a), results) ELSE 0
             s == IF Recorded("sell", a)' THEN job.spend ELSE 0
             b == IF Recorded("buy", a)' THEN c ELSE 0
  <2>1. /\ OpenCookies(a) = K /\ OpenCost(a) = C /\ K \in Nat /\ C \in Nat
    BY <1>1, OpenNow
  <2>2. /\ OpenCookies(a)' = KK /\ OpenCost(a)' = CC
    BY <1>5, OpenThen
  <2>3. S \in Nat /\ P \in Nat
    BY <1>1, ResultSums
  <2>4. FBalance[a] \in Nat /\ FBRC[a] \in Nat
    BY <1>1, SMTT(30) DEF MoneyTypes, Address
  <2>5. /\ FBalance[a] + 0 = OpenCookies(a) + S
        /\ FBRC[a] + 0 >= OpenCost(a) + P
        /\ ~split => FBRC[a] + 0 = OpenCost(a) + P
    BY <1>1, Zenon DEF Frozen, Recorded, Unpaid
  <2>6. KK = K + s /\ CC = C + b /\ s \in Nat /\ b \in Nat
    <3>1. /\ s = IF job.type = "sell" /\ job.mode = "only_price" /\ job.from = a
                 THEN job.spend ELSE 0
          /\ b = IF job.type = "buy" /\ job.mode = "only_price" /\ job.from = a THEN c ELSE 0
      BY <1>2, Zenon DEF Recorded
    <3>2. CASE rest
      <4>1. /\ new.type = job.type /\ new.sender = job.from /\ new.amount = job.spend
            /\ new.price = job.price
        BY Zenon
      <4>2. orders' = orders \cup {new} /\ new \in Order /\ new \notin orders
        BY <1>2, <1>4, <3>2, Zenon
      <4> HIDE DEF new
      <4>3. /\ BookCookies(orders \cup {new}, a) = BookCookies(orders, a)
                 + (IF new.type = "sell" /\ new.sender = a THEN new.amount ELSE 0)
            /\ BookCost(orders \cup {new}, a) = BookCost(orders, a)
                 + (IF new.type = "buy" /\ new.sender = a THEN Cost(new.amount, new.price) ELSE 0)
        BY <1>1, <4>2, BookWith, Zenon
      <4> QED
        BY <1>1, <1>3, <3>1, <3>2, <4>1, <4>2, <4>3, Zenon
    <3>3. CASE ~rest
      <4>1. KK = K /\ CC = C
        BY <1>2, <3>3, Zenon
      <4>2. s = 0 /\ b = 0
        BY <1>1, <1>3, <3>1, <3>3, SMTT(30)
      <4> HIDE DEF K, KK, C, CC, s, b
      <4> QED
        BY <2>1, <4>1, <4>2
    <3> QED
      BY <3>2, <3>3, Zenon
  <2> HIDE DEF K, KK, C, CC, S, P, s, b
  <2>7. FBalance[a] + s = KK + S /\ FBRC[a] + b >= CC + P /\ (~split => FBRC[a] + b = CC + P)
    BY <2>1, <2>3, <2>4, <2>5, <2>6
  <2> QED
    BY <2>2, <2>7, Zenon DEF S, P, s, b
<1> QED
  BY <1>1, <1>2, <1>6, <1>7, <1>8, <1>9, <1>10, Zenon DEF MoneyInv

-----------------------------------------------------------------------------
(* Transfers between accounts. *)

LEMMA FeeBounds == ASSUME NEW n \in Nat PROVE Fee(n) \in Nat /\ Fee(n) <= n
<1> DEFINE m == MATCHINGFEERATIO
           q == n \div m
<1>1. m \in Nat \ {0}
  BY ExchangeAssumption
<1> HIDE DEF m
<1>2. q \in Nat /\ q * m <= n
  BY <1>1
<1> HIDE DEF q
<1>3. q <= q * m
  BY <1>1, <1>2
<1>4. q <= n
  BY <1>1, <1>2, <1>3
<1> QED
  BY <1>2, <1>4 DEF Fee, q, m

LEMMA TotalChange ==
    ASSUME SumLaws, NEW f \in [Address -> Int], NEW g \in [Address -> Int], NEW a \in Address,
           \A b \in Address : b # a => g[b] = f[b]
    PROVE  Total(g) = (Total(f) - f[a]) + g[a]
<1>1. IsFiniteSet(Address)
  BY ExchangeAssumption, FiniteInsert, Zenon DEF Address
<1>2. \A b \in Address : f[b] \in Int /\ g[b] \in Int
  OBVIOUS
<1> QED
  BY <1>1, <1>2, UpdatedSum DEF Total

LEMMA TotalIsInt == ASSUME SumLaws, NEW f \in [Address -> Int] PROVE Total(f) \in Int
<1>1. IsFiniteSet(Address)
  BY ExchangeAssumption, FiniteInsert DEF Address
<1>2. \A b \in Address : f[b] \in Int
  OBVIOUS
<1> QED
  BY <1>1, <1>2, IntSum DEF Total

LEMMA Deposit ==
    ASSUME SumLaws, NEW f \in [Address -> Int], NEW a \in Address, NEW n \in Int
    PROVE  Total(Add(f, a, n)) = Total(f) + n /\ Total(Sub(f, a, n)) = Total(f) - n
<1> DEFINE g == Add(f, a, n)
           h == Sub(f, a, n)
<1>1. /\ g \in [Address -> Int] /\ g[a] = f[a] + n /\ f[a] \in Int
      /\ \A b \in Address : b # a => g[b] = f[b]
  BY DEF Add
<1>2. /\ h \in [Address -> Int] /\ h[a] = f[a] - n
      /\ \A b \in Address : b # a => h[b] = f[b]
  BY DEF Sub
<1> HIDE DEF g, h
<1>3. Total(g) = (Total(f) - f[a]) + g[a]
  BY <1>1, TotalChange
<1>4. Total(h) = (Total(f) - f[a]) + h[a]
  BY <1>2, TotalChange
<1>5. Total(f) \in Int
  BY TotalIsInt
<1>6. Total(g) = Total(f) + n /\ Total(h) = Total(f) - n
  BY <1>1, <1>2, <1>3, <1>4, <1>5
<1> QED
  BY <1>6 DEF g, h

LEMMA AddTo ==
    ASSUME NEW f \in [Address -> Nat], NEW a \in Address, NEW n \in Nat
    PROVE  /\ Add(f, a, n) \in [Address -> Nat] /\ Add(f, a, n)[a] = f[a] + n
           /\ \A b \in Address : b # a => Add(f, a, n)[b] = f[b]
  BY DEF Add

\* The payer of x may be the payee too; the fee goes to PdSystemAddress, which
\* places no orders.
Moved(f, from, to, x) ==
    Add(Add(Sub(f, from, x), to, x - Fee(x)), PdSystemAddress, Fee(x))

LEMMA Transferred ==
    ASSUME SumLaws, NEW f \in [Address -> Nat], NEW from \in Trader, NEW to \in Trader,
           NEW x \in Nat, x <= f[from]
    PROVE  /\ Moved(f, from, to, x) \in [Address -> Nat]
           /\ Moved(f, from, to, x)[from] >= f[from] - x
           /\ Total(Moved(f, from, to, x)) = Total(f)
<1> DEFINE g == Moved(f, from, to, x)
           e == Fee(x)
           P == PdSystemAddress
           d == x - e
           f1 == Sub(f, from, x)
           f2 == Add(f1, to, d)
<1>1. e \in Nat /\ e <= x /\ d \in Nat
  BY FeeBounds
<1>2. from \in Address /\ to \in Address /\ P \in Address /\ P # from /\ P # to
  BY ExchangeAssumption DEF Address
<1>3. g = Add(f2, P, e)
  BY DEF Moved
<1> HIDE DEF e, P, d, g
<1>4. /\ f1 \in [Address -> Nat] /\ f1[from] = f[from] - x
  BY <1>2 DEF Sub
<1>5. /\ f2 \in [Address -> Nat] /\ f2[from] >= f1[from]
  <2> HIDE DEF f1
  <2> QED
    BY <1>1, <1>2, <1>4 DEF Add
<1>6. /\ g \in [Address -> Nat] /\ g[from] = f2[from]
  <2> HIDE DEF f2
  <2> QED
    <3>1. Add(f2, P, e) \in [Address -> Nat]
      BY <1>1, <1>2, <1>5, AddTo, Zenon
    <3>2. \A b \in Address : b # P => Add(f2, P, e)[b] = f2[b]
      BY <1>1, <1>2, <1>5, AddTo, ZenonT(60)
    <3>3. Add(f2, P, e)[from] = f2[from]
      BY <1>2, <3>2, Zenon
    <3> QED
      BY <1>3, <3>1, <3>3, Zenon
<1>7. f \in [Address -> Int] /\ f1 \in [Address -> Int] /\ f2 \in [Address -> Int]
      /\ x \in Int /\ d \in Int /\ e \in Int /\ x - e = d
  BY <1>1, <1>4, <1>5 DEF d
<1>8. Total(f1) = Total(f) - x
  BY <1>2, <1>7, Deposit, Zenon
<1>9. Total(f2) = Total(f1) + d
  <2> HIDE DEF f1
  <2> QED
    BY <1>2, <1>7, Deposit, Zenon
<1>10. Total(g) = Total(f2) + e
  <2> HIDE DEF f2
  <2> QED
    <3>1. Total(Add(f2, P, e)) = Total(f2) + e
      BY <1>2, <1>7, Deposit, Zenon
    <3> QED
      BY <1>3, <3>1, Zenon
<1>11. Total(f) \in Int
  BY <1>7, TotalIsInt
<1> HIDE DEF f1, f2
<1>12. Total(g) = Total(f)
  BY <1>1, <1>7, <1>8, <1>9, <1>10, <1>11, SMTT(30)
<1>13. g[from] >= f[from] - x
  BY <1>2, <1>4, <1>5, <1>6, SMTT(30)
<1> QED
  BY <1>6, <1>12, <1>13 DEF g

\* What the other side of a transfer is given, less its fee.
Given(f, from, x) == Add(Add(f, from, x - Fee(x)), PdSystemAddress, Fee(x))

LEMMA Credited ==
    ASSUME SumLaws, NEW f \in [Address -> Nat], NEW from \in Trader, NEW x \in Nat
    PROVE  /\ Given(f, from, x) \in [Address -> Nat]
           /\ Given(f, from, x)[from] >= f[from]
           /\ Total(Given(f, from, x)) = Total(f) + x
<1> DEFINE g == Given(f, from, x)
           e == Fee(x)
           P == PdSystemAddress
           d == x - e
           f1 == Add(f, from, d)
<1>1. e \in Nat /\ e <= x /\ d \in Nat
  BY FeeBounds
<1>2. from \in Address /\ P \in Address /\ P # from
  BY ExchangeAssumption DEF Address
<1>3. g = Add(f1, P, e)
  BY DEF Given
<1> HIDE DEF e, P, d, g
<1>4. /\ f1 \in [Address -> Nat] /\ f1[from] >= f[from]
  BY <1>1, <1>2 DEF Add
<1>5. /\ g \in [Address -> Nat] /\ g[from] = f1[from]
  <2> HIDE DEF f1
  <2> QED
    <3>1. Add(f1, P, e) \in [Address -> Nat]
      BY <1>1, <1>2, <1>4, AddTo, Zenon
    <3>2. \A b \in Address : b # P => Add(f1, P, e)[b] = f1[b]
      BY <1>1, <1>2, <1>4, AddTo, ZenonT(60)
    <3>3. Add(f1, P, e)[from] = f1[from]
      BY <1>2, <3>2
    <3> QED
      BY <1>3, <3>1, <3>3, Zenon
<1>6. f \in [Address -> Int] /\ f1 \in [Address -> Int] /\ d \in Int /\ e \in Int /\ x - e = d
  BY <1>1, <1>4 DEF d
<1>7. Total(f1) = Total(f) + d
  BY <1>2, <1>6, Deposit, Zenon
<1>8. Total(g) = Total(f1) + e
  <2> HIDE DEF f1
  <2> QED
    BY <1>2, <1>3, <1>6, Deposit, Zenon
<1>9. Total(f) \in Int
  BY <1>6, TotalIsInt
<1> HIDE DEF f1
<1>10. Total(g) = Total(f) + x
  BY <1>1, <1>6, <1>7, <1>8, <1>9
<1>11. g[from] >= f[from]
  BY <1>2, <1>4, <1>5
<1> QED
  BY <1>5, <1>10, <1>11 DEF g

\* An account is debited what it has.
LEMMA Debited ==
    ASSUME SumLaws, NEW f \in [Address -> Nat], NEW a \in Trader, NEW x \in Nat, x <= f[a]
    PROVE  /\ Sub(f, a, x) \in [Address -> Nat] /\ Total(Sub(f, a, x)) = Total(f) - x
           /\ Sub(f, a, x)[a] = f[a] - x
           /\ \A b \in Trader : b # a => Sub(f, a, x)[b] = f[b]
<1>1. a \in Address /\ f \in [Address -> Int] /\ x \in Int
  BY DEF Address
<1>2. Total(Sub(f, a, x)) = Total(f) - x
  BY <1>1, Deposit, Zenon
<1> QED
  BY <1>1, <1>2 DEF Sub, Address

StockKept ==
    /\ Total(BRC)' + Total(FBRC)' = Total(BRC) + Total(FBRC)
    /\ Total(balance)' + Total(FBalance)' = Total(balance) + Total(FBalance)

\* A result of a purchase is paid: the sender has what it costs, and the
\* acceptor's cookies are frozen.
LEMMA PayBuyMoney ==
    ASSUME SumLaws, MoneyInv, pay, job.type = "buy"
    PROVE  MoneyInv' /\ StockKept
<1> DEFINE r == Head(results)
           t == Tail(results)
           x == Cost(r.amount, r.price)
           f == job.from
           to == r.acceptor
           n == r.amount
           p == job.price
<1>1. /\ MoneyTypes /\ Keyed /\ Granular /\ Frozen /\ ~failed /\ Covered /\ phase = "pay"
      /\ orders \subseteq Order /\ IsFiniteSet(orders) /\ job \in Job
      /\ results \in Seq(Result) /\ results # <<>>
      /\ BRC \in [Address -> Nat] /\ FBRC \in [Address -> Nat]
      /\ balance \in [Address -> Nat] /\ FBalance \in [Address -> Nat]
  BY ZenonT(60) DEF MoneyInv, pay, MoneyTypes
<1>2. /\ f \in Trader /\ p \in Nat /\ job.spend \in Nat /\ job.free \in Int /\ job.hadBRC \in Nat
      /\ job.num \in Nat /\ job.mode \in {"only_price", "all_price"}
      /\ r \in Result /\ n \in Nat /\ r.price \in Nat /\ to \in Trader /\ t \in Seq(Result)
  <2>1. r \in Result /\ t \in Seq(Result)
    BY <1>1
  <2> QED
    BY <1>1, <2>1, Zenon DEF Covered, Job, Result
<1>3. /\ x \in Nat /\ Cost(n, p) \in Nat /\ Cost(job.spend, p) \in Nat /\ Cost(job.num, p) \in Nat
      /\ BRC[f] \in Nat /\ FBalance[to] \in Nat
  <2>1. BRC[f] \in Nat /\ FBalance[to] \in Nat
    BY <1>1, <1>2, Zenon DEF Address
  <2> QED
    BY <1>2, <2>1, CostBounds, Zenon
<1>4. /\ SeqSum(Paid, results) = x + SeqSum(Paid, t)
      /\ SeqSum(AtPrice(p), results) = Cost(n, p) + SeqSum(AtPrice(p), t)
  <2>1. results \in Seq(Result) /\ results # <<>> /\ p \in Nat
    BY <1>1, <1>2
  <2> HIDE DEF p
  <2> QED
    BY <2>1, TailSums
<1>5. /\ SeqSum(Paid, t) \in Nat /\ SeqSum(AtPrice(p), t) \in Nat
  <2>1. Paid \in [Result -> Nat] /\ AtPrice(p) \in [Result -> Nat]
    BY <1>2, ResultValues, Zenon
  <2> QED
    BY <1>2, <2>1, NatSeqSum, Zenon
<1>6. ASSUME NEW a \in Trader
      PROVE  /\ SeqSum(CookiesOf(a), results)
                   = (IF to = a THEN n ELSE 0) + SeqSum(CookiesOf(a), t)
             /\ SeqSum(CookiesOf(a), t) \in Nat
  <2>1. SeqSum(CookiesOf(a), results) = (IF to = a THEN n ELSE 0) + SeqSum(CookiesOf(a), t)
    BY <1>1, TailOwed, Zenon
  <2>2. CookiesOf(a) \in [Result -> Nat]
    BY ResultValues
  <2> QED
    BY <1>2, <2>1, <2>2, NatSeqSum, Zenon
<1>7. n <= FBalance[to]
  <2> DEFINE K == BookCookies(orders, to)
             T == SeqSum(CookiesOf(to), t)
  <2>1. OpenCookies(to) = K /\ K \in Nat
    BY <1>1, <1>2, OpenNow, Zenon
  <2>2. FBalance[to] + 0 = K + (n + T) /\ T \in Nat
    BY <1>1, <1>2, <1>6, <2>1, Zenon DEF Frozen, Recorded, Unpaid
  <2>3. FBalance[to] \in Nat /\ n \in Nat
    BY <1>2, <1>3, Zenon
  <2> HIDE DEF K, T, n
  <2> QED
    BY <2>1, <2>2, <2>3, SMTT(30)
<1>8. x <= BRC[f]
  <2>1. CASE job.mode = "only_price"
    <3>1. r.price <= p
      <4>1. 1 \in DOMAIN results /\ r = results[1]
        BY <1>1
      <4> QED
        BY <1>1, <2>1, <4>1, Zenon DEF Covered
    <3>2. x <= Cost(n, p)
      BY <1>2, <3>1, CostCheaper, Zenon
    <3>3. /\ job.hadBRC >= Cost(job.num, p)
          /\ job.hadBRC - BRC[f] + job.free <= Cost(job.num, p)
          /\ job.free >= Cost(job.spend, p) + (Cost(n, p) + SeqSum(AtPrice(p), t))
      BY <1>1, <1>4, <2>1, Zenon DEF Covered
    <3> DEFINE cs == Cost(job.spend, p)
               cn == Cost(n, p)
               ca == Cost(job.num, p)
               S == SeqSum(AtPrice(p), t)
               b == BRC[f]
               h == job.hadBRC
               fr == job.free
    <3>4. /\ cs \in Nat /\ cn \in Nat /\ ca \in Nat /\ S \in Nat /\ b \in Nat /\ h \in Nat /\ fr \in Int
          /\ x \in Nat /\ x <= cn /\ h >= ca /\ h - b + fr <= ca /\ fr >= cs + (cn + S)
      BY <1>2, <1>3, <1>5, <3>2, <3>3, Zenon
    <3> HIDE DEF cs, cn, ca, S, b, h, fr, x
    <3>5. x <= b
      BY <3>4, SMTT(30)
    <3> QED
      BY <3>5, Zenon DEF b
  <2>2. CASE job.mode = "all_price"
    <3> DEFINE S == SeqSum(Paid, t)
               b == BRC[f]
               h == job.hadBRC
    <3>1. h >= p /\ h - b + (x + S) <= p
      BY <1>1, <1>4, <2>2, Zenon DEF Covered
    <3>2. S \in Nat /\ b \in Nat /\ h \in Nat /\ x \in Nat /\ p \in Nat
      BY <1>2, <1>3, <1>5, Zenon
    <3> HIDE DEF S, b, h, x, p
    <3>3. x <= b
      BY <3>1, <3>2
    <3> QED
      BY <3>3 DEF b
  <2> QED
    BY <1>2, <2>1, <2>2, Zenon
<1>9. /\ transferBuy(f, to, n, x)
      /\ job' = IF job.mode = "only_price" THEN [job EXCEPT !.free = @ - Unfrozen(r)] ELSE job
      /\ results' = t
      /\ orders' = orders /\ now' = now /\ next' = next /\ phase' = "pay"
      /\ failed' = failed /\ split' = split
  BY <1>1, <1>7, <1>8 DEF pay
<1>10. /\ BRC' = Moved(BRC, f, to, x) /\ FBalance' = Sub(FBalance, to, n)
       /\ balance' = Given(balance, f, n) /\ FBRC' = FBRC
  BY <1>9 DEF transferBuy, Moved, Given
<1> HIDE DEF x, n, to, f, t, r
<1>11. BRC' \in [Address -> Nat] /\ BRC'[f] >= BRC[f] - x /\ Total(BRC') = Total(BRC)
  <2>1. BRC \in [Address -> Nat] /\ f \in Trader /\ to \in Trader /\ x \in Nat /\ x <= BRC[f]
    BY <1>1, <1>2, <1>3, <1>8
  <2>2. Moved(BRC, f, to, x) \in [Address -> Nat] /\ Moved(BRC, f, to, x)[f] >= BRC[f] - x
    BY <2>1, Transferred, Zenon
  <2>3. Total(Moved(BRC, f, to, x)) = Total(BRC)
    BY <2>1, Transferred, Zenon
  <2> QED
    BY <1>10, <2>2, <2>3, Zenon
<1>12. /\ FBalance' \in [Address -> Nat] /\ Total(FBalance') = Total(FBalance) - n
       /\ FBalance'[to] = FBalance[to] - n
       /\ \A b \in Trader : b # to => FBalance'[b] = FBalance[b]
  <2>1. FBalance \in [Address -> Nat] /\ to \in Trader /\ n \in Nat /\ n <= FBalance[to]
    BY <1>1, <1>2, <1>7
  <2>2. /\ Sub(FBalance, to, n) \in [Address -> Nat]
        /\ Total(Sub(FBalance, to, n)) = Total(FBalance) - n
        /\ Sub(FBalance, to, n)[to] = FBalance[to] - n
    BY <2>1, Debited, Zenon
  <2>3. \A b \in Trader : b # to => Sub(FBalance, to, n)[b] = FBalance[b]
    BY <2>1, Debited, Zenon
  <2> QED
    BY <1>10, <2>2, <2>3, Zenon
<1>13. balance' \in [Address -> Nat] /\ Total(balance') = Total(balance) + n
  BY <1>1, <1>2, <1>10, Credited, Zenon
<1>14. /\ job' \in Job
       /\ job'.from = job.from /\ job'.type = job.type /\ job'.mode = job.mode
       /\ job'.price = job.price /\ job'.num = job.num /\ job'.trxid = job.trxid
       /\ job'.spend = job.spend /\ job'.hadBRC = job.hadBRC /\ job'.hadCookies = job.hadCookies
       /\ job'.free = IF job.mode = "only_price" THEN job.free - Cost(n, p) ELSE job.free
  <2>1. Unfrozen(r) = Cost(n, p)
    BY DEF Unfrozen, n
  <2>2. job.free - Cost(n, p) \in Int
    BY <1>2, <1>3, SMTT(30)
  <2> QED
    BY <1>1, <1>9, <2>1, <2>2, Zenon DEF Job
<1>15. MoneyTypes'
  BY <1>1, <1>2, <1>9, <1>10, <1>11, <1>12, <1>13, <1>14, Zenon DEF MoneyTypes
<1>16. Keyed'
  BY <1>1, <1>9, <1>14 DEF Keyed
<1>17. \A i \in DOMAIN results' : i + 1 \in DOMAIN results /\ results'[i] = results[i + 1]
  <2>1. results' = Tail(results)
    BY <1>9 DEF t
  <2> QED
    BY <1>1, <2>1
<1>18. Granular'
  BY <1>1, <1>9, <1>14, <1>17, SMTT(30) DEF Granular
<1>19. Frozen'
  <2> SUFFICES ASSUME NEW a \in Trader
               PROVE  /\ FBalance'[a] + 0 = OpenCookies(a)' + SeqSum(CookiesOf(a), t)
                      /\ FBRC[a] + (IF Recorded("buy", a)' THEN Cost(job.spend, p) ELSE 0)
                           >= OpenCost(a)' + 0
                      /\ ~split => FBRC[a] + (IF Recorded("buy", a)' THEN Cost(job.spend, p) ELSE 0)
                           = OpenCost(a)' + 0
    BY <1>9, <1>10, <1>14 DEF Frozen, Unpaid, Recorded
  <2> DEFINE K == BookCookies(orders, a)
             T == SeqSum(CookiesOf(a), t)
  <2>1. /\ OpenCookies(a) = K /\ OpenCost(a) = BookCost(orders, a) /\ K \in Nat
    BY <1>1, OpenNow
  <2>2. /\ OpenCookies(a)' = K /\ OpenCost(a)' = BookCost(orders, a)
    BY <1>1, <1>9, OpenThen
  <2>3. Recorded("buy", a)' <=> Recorded("buy", a)
    BY <1>1, <1>9, <1>14, SMTT(30) DEF Recorded
  <2>4. FBalance[a] + 0 = K + ((IF to = a THEN n ELSE 0) + T) /\ T \in Nat
    BY <1>1, <1>6, <2>1, Zenon DEF Frozen, Unpaid, Recorded
  <2>5. /\ FBRC[a] + (IF Recorded("buy", a) THEN Cost(job.spend, p) ELSE 0) >= OpenCost(a) + 0
        /\ ~split => FBRC[a] + (IF Recorded("buy", a) THEN Cost(job.spend, p) ELSE 0) = OpenCost(a) + 0
    BY <1>1, Zenon DEF Frozen, Unpaid
  <2>6. FBalance[a] \in Nat /\ FBalance'[a] = IF to = a THEN FBalance[a] - n ELSE FBalance[a]
    BY <1>1, <1>12, Zenon DEF Address
  <2> HIDE DEF K, T
  <2>7. FBalance'[a] + 0 = K + T
    BY <1>2, <2>1, <2>4, <2>6
  <2> QED
    BY <2>1, <2>2, <2>3, <2>5, <2>7, Zenon DEF T
<1>20. Covered'
  <2> DEFINE b == BRC[f]
             bb == BRC'[f]
             h == job.hadBRC
  <2>0. b \in Nat /\ bb \in Nat /\ h \in Nat /\ bb >= b - x /\ x \in Nat
    BY <1>2, <1>3, <1>11, Zenon DEF Address
  <2>1. CASE job.mode = "only_price"
    <3> DEFINE cs == Cost(job.spend, p)
               cn == Cost(n, p)
               ca == Cost(job.num, p)
               S == SeqSum(AtPrice(p), t)
               fr == job.free
    <3>1. /\ h >= ca /\ h - b + fr <= ca
          /\ fr >= cs + (cn + S) /\ (~split => fr = cs + (cn + S))
      BY <1>1, <1>4, <2>1, Zenon DEF Covered, f
    <3>2. cs \in Nat /\ cn \in Nat /\ ca \in Nat /\ S \in Nat /\ fr \in Int
      BY <1>2, <1>3, <1>5, ZenonT(60)
    <3>3. \A i \in DOMAIN results : results[i].price <= p
      BY <1>1, <2>1, Zenon DEF Covered
    <3>4. x <= cn
      <4>1. 1 \in DOMAIN results /\ r = results[1]
        BY <1>1 DEF r
      <4>2. r.price <= p
        BY <3>3, <4>1, Zenon
      <4> QED
        BY <1>2, <4>2, CostCheaper, SMTT(30) DEF x, n
    <3>5. \A i \in DOMAIN results' : results'[i].price <= p
      BY <1>17, <3>3
    <3> HIDE DEF cs, cn, ca, S, fr, b, bb, h
    <3>6. h - bb + (fr - cn) <= ca /\ fr - cn >= cs + S /\ (~split => fr - cn = cs + S)
      BY <2>0, <3>1, <3>2, <3>4
    <3>7. /\ job'.free = fr - cn /\ results' = t /\ split' = split
      BY <1>9, <1>14, <2>1 DEF fr, cn
    <3> QED
      BY <1>2, <1>14, <2>1, <3>1, <3>5, <3>6, <3>7, ZenonT(60) DEF Covered, cs, ca, S, b,
         bb, h, f
  <2>2. CASE job.mode = "all_price"
    <3> DEFINE S == SeqSum(Paid, t)
    <3>1. job.free = 0 /\ h >= p /\ h - b + (x + S) <= p
      BY <1>1, <1>4, <2>2, Zenon DEF Covered, f
    <3>2. S \in Nat /\ p \in Nat
      BY <1>2, <1>5
    <3> HIDE DEF S, b, bb, h, p
    <3>3. h - bb + S <= p
      BY <2>0, <3>1, <3>2, SMTT(30)
    <3> QED
      BY <1>2, <1>9, <1>14, <2>2, <3>1, <3>3, SMTT(30) DEF Covered, S, b, bb, h, f, p
  <2> QED
    BY <1>2, <2>1, <2>2, SMTT(30)
<1>21. StockKept
  <2>1. Total(balance) \in Int /\ Total(FBalance) \in Int
    <3>1. balance \in [Address -> Int] /\ FBalance \in [Address -> Int]
      BY <1>1
    <3> QED
      BY <3>1, TotalIsInt
  <2> QED
    BY <1>2, <1>10, <1>11, <1>12, <1>13, <2>1, SMTT(30) DEF StockKept, Total
<1> QED
  BY <1>1, <1>9, <1>15, <1>16, <1>18, <1>19, <1>20, <1>21, SMTT(30) DEF MoneyInv

\* A result of a sale is paid: the sender still has the cookies, and what the
\* acceptor pays is frozen.
LEMMA PaySellMoney ==
    ASSUME SumLaws, MoneyInv, pay, job.type = "sell"
    PROVE  MoneyInv' /\ StockKept
<1> DEFINE r == Head(results)
           t == Tail(results)
           x == Cost(r.amount, r.price)
           f == job.from
           to == r.acceptor
           n == r.amount
           S == SeqSum(Cookies, t)
<1>1. /\ MoneyTypes /\ Keyed /\ Granular /\ Frozen /\ ~failed /\ Covered /\ phase = "pay"
      /\ orders \subseteq Order /\ IsFiniteSet(orders) /\ job \in Job
      /\ results \in Seq(Result) /\ results # <<>>
      /\ BRC \in [Address -> Nat] /\ FBRC \in [Address -> Nat]
      /\ balance \in [Address -> Nat] /\ FBalance \in [Address -> Nat]
  BY ZenonT(60) DEF MoneyInv, pay, MoneyTypes
<1>2. /\ f \in Trader /\ job.spend \in Nat /\ job.free \in Int /\ job.hadCookies \in Nat
      /\ job.num \in Nat /\ job.mode \in {"only_price", "all_price"}
      /\ r \in Result /\ n \in Nat /\ r.price \in Nat /\ to \in Trader /\ t \in Seq(Result)
  <2>1. r \in Result /\ t \in Seq(Result)
    BY <1>1
  <2> QED
    BY <1>1, <2>1, Zenon DEF Covered, Job, Result
<1>3. /\ x \in Nat /\ balance[f] \in Nat /\ FBRC[to] \in Nat
  <2>1. balance[f] \in Nat /\ FBRC[to] \in Nat
    BY <1>1, <1>2, Zenon DEF Address
  <2> QED
    BY <1>2, <2>1, CostBounds, Zenon
<1>4. SeqSum(Cookies, results) = n + S
  BY <1>1, TailSums, Zenon
<1>5. S \in Nat
  <2>1. Cookies \in [Result -> Nat]
    BY ResultValues
  <2> QED
    BY <1>2, <2>1, NatSeqSum, Zenon
<1>6. ASSUME NEW a \in Trader
      PROVE  /\ SeqSum(PaidTo(a), results)
                   = (IF to = a THEN x ELSE 0) + SeqSum(PaidTo(a), t)
             /\ SeqSum(PaidTo(a), t) \in Nat
  <2>1. SeqSum(PaidTo(a), results) = (IF to = a THEN x ELSE 0) + SeqSum(PaidTo(a), t)
    BY <1>1, TailOwed, Zenon
  <2>2. PaidTo(a) \in [Result -> Nat]
    BY ResultValues
  <2> QED
    BY <1>2, <2>1, <2>2, NatSeqSum, Zenon
<1>7. x <= FBRC[to]
  <2> DEFINE K == BookCost(orders, to)
             T == SeqSum(PaidTo(to), t)
  <2>1. OpenCost(to) = K /\ K \in Nat
    BY <1>1, <1>2, OpenNow, Zenon
  <2>2. FBRC[to] + 0 >= K + (x + T) /\ T \in Nat
    BY <1>1, <1>2, <1>6, <2>1, ZenonT(60) DEF Frozen, Recorded, Unpaid
  <2>3. FBRC[to] \in Nat /\ x \in Nat
    BY <1>2, <1>3, Zenon
  <2> HIDE DEF K, T, x
  <2> QED
    BY <2>1, <2>2, <2>3, SMTT(30)
<1>8. /\ job.hadCookies >= job.num
      /\ job.hadCookies - balance[f] + job.spend + (n + S) <= job.num
      /\ job.free = IF job.mode = "only_price" THEN job.spend + (n + S) ELSE 0
  BY <1>1, <1>4, Zenon DEF Covered
<1> HIDE DEF S
<1>9. n <= balance[f]
  <2> DEFINE b == balance[f]
             h == job.hadCookies
             N == job.num
             s == job.spend
  <2>1. /\ b \in Nat /\ h \in Nat /\ N \in Nat /\ s \in Nat /\ n \in Nat
        /\ h >= N /\ h - b + s + (n + S) <= N
    BY <1>2, <1>3, <1>8, Zenon
  <2> HIDE DEF b, h, N, s, n
  <2>2. n <= b
    BY <1>5, <2>1
  <2> QED
    BY <2>2, SMTT(30) DEF b
<1>10. /\ transferSell(f, to, n, x)
       /\ job' = IF job.mode = "only_price" THEN [job EXCEPT !.free = @ - Unfrozen(r)] ELSE job
       /\ results' = t
       /\ orders' = orders /\ now' = now /\ next' = next /\ phase' = "pay"
       /\ failed' = failed /\ split' = split
  BY <1>1, <1>7, <1>9 DEF pay
<1>11. /\ balance' = Moved(balance, f, to, n) /\ FBRC' = Sub(FBRC, to, x)
       /\ BRC' = Given(BRC, f, x) /\ FBalance' = FBalance
  BY <1>10 DEF transferSell, Moved, Given
<1> HIDE DEF x, n, to, f, t, r
<1>12. /\ balance' \in [Address -> Nat] /\ balance'[f] >= balance[f] - n
       /\ Total(balance') = Total(balance)
  <2>1. balance \in [Address -> Nat] /\ f \in Trader /\ to \in Trader /\ n \in Nat /\ n <= balance[f]
    BY <1>1, <1>2, <1>3, <1>9
  <2>2. Moved(balance, f, to, n) \in [Address -> Nat] /\ Moved(balance, f, to, n)[f] >= balance[f] - n
    BY <2>1, Transferred, Zenon
  <2>3. Total(Moved(balance, f, to, n)) = Total(balance)
    BY <2>1, Transferred, Zenon
  <2> QED
    BY <1>11, <2>2, <2>3, ZenonT(60)
<1>13. /\ FBRC' \in [Address -> Nat] /\ Total(FBRC') = Total(FBRC) - x
       /\ FBRC'[to] = FBRC[to] - x
       /\ \A b \in Trader : b # to => FBRC'[b] = FBRC[b]
  <2>1. FBRC \in [Address -> Nat] /\ to \in Trader /\ x \in Nat /\ x <= FBRC[to]
    BY <1>1, <1>2, <1>3, <1>7
  <2>2. /\ Sub(FBRC, to, x) \in [Address -> Nat]
        /\ Total(Sub(FBRC, to, x)) = Total(FBRC) - x
        /\ Sub(FBRC, to, x)[to] = FBRC[to] - x
    BY <2>1, Debited, Zenon
  <2>3. \A b \in Trader : b # to => Sub(FBRC, to, x)[b] = FBRC[b]
    BY <2>1, Debited, ZenonT(60)
  <2> QED
    BY <1>11, <2>2, <2>3, Zenon
<1>14. BRC' \in [Address -> Nat] /\ Total(BRC') = Total(BRC) + x
  BY <1>1, <1>2, <1>3, <1>11, Credited, Zenon
<1>15. /\ job' \in Job
       /\ job'.from = job.from /\ job'.type = job.type /\ job'.mode = job.mode
       /\ job'.price = job.price /\ job'.num = job.num /\ job'.trxid = job.trxid
       /\ job'.spend = job.spend /\ job'.hadBRC = job.hadBRC /\ job'.hadCookies = job.hadCookies
       /\ job'.free = IF job.mode = "only_price" THEN job.free - n ELSE job.free
  <2>1. Unfrozen(r) = n
    BY DEF Unfrozen, n
  <2>2. job.free - n \in Int
    BY <1>2
  <2> QED
    BY <1>1, <1>10, <2>1, <2>2, Zenon DEF Job
<1>16. MoneyTypes'
  BY <1>1, <1>2, <1>10, <1>11, <1>12, <1>13, <1>14, <1>15, Zenon DEF MoneyTypes
<1>17. Keyed'
  BY <1>1, <1>10, <1>15 DEF Keyed
<1>18. \A i \in DOMAIN results' : i + 1 \in DOMAIN results /\ results'[i] = results[i + 1]
  <2>1. results' = Tail(results)
    BY <1>10 DEF t
  <2> QED
    BY <1>1, <2>1
<1>19. Granular'
  BY <1>1, <1>10, <1>15, <1>18, SMTT(30) DEF Granular
<1>20. Frozen'
  <2> SUFFICES ASSUME NEW a \in Trader
               PROVE  /\ FBalance[a] + (IF Recorded("sell", a)' THEN job.spend ELSE 0)
                           = OpenCookies(a)' + 0
                      /\ FBRC'[a] + 0 >= OpenCost(a)' + SeqSum(PaidTo(a), t)
                      /\ ~split => FBRC'[a] + 0 = OpenCost(a)' + SeqSum(PaidTo(a), t)
    BY <1>10, <1>11, <1>15, SMTT(30) DEF Frozen, Unpaid, Recorded
  <2> DEFINE K == BookCost(orders, a)
             T == SeqSum(PaidTo(a), t)
  <2>1. /\ OpenCookies(a) = BookCookies(orders, a) /\ OpenCost(a) = K /\ K \in Nat
    BY <1>1, OpenNow
  <2>2. /\ OpenCookies(a)' = BookCookies(orders, a) /\ OpenCost(a)' = K
    BY <1>1, <1>10, OpenThen
  <2>3. Recorded("sell", a)' <=> Recorded("sell", a)
    BY <1>1, <1>10, <1>15, SMTT(30) DEF Recorded
  <2>4. /\ FBRC[a] + 0 >= K + ((IF to = a THEN x ELSE 0) + T)
        /\ ~split => FBRC[a] + 0 = K + ((IF to = a THEN x ELSE 0) + T)
        /\ T \in Nat
    BY <1>1, <1>6, <2>1, Zenon DEF Frozen, Unpaid, Recorded
  <2>5. FBalance[a] + (IF Recorded("sell", a) THEN job.spend ELSE 0) = OpenCookies(a) + 0
    BY <1>1 DEF Frozen, Unpaid
  <2>6. FBRC[a] \in Nat /\ FBRC'[a] = IF to = a THEN FBRC[a] - x ELSE FBRC[a]
    BY <1>1, <1>13, Zenon DEF Address
  <2> HIDE DEF K, T
  <2>7. FBRC'[a] + 0 >= K + T /\ (~split => FBRC'[a] + 0 = K + T)
    BY <1>3, <2>1, <2>4, <2>6
  <2> QED
    BY <2>1, <2>2, <2>3, <2>5, <2>7, Zenon DEF T
<1>21. Covered'
  <2> DEFINE b == balance[f]
             bb == balance'[f]
             h == job.hadCookies
             N == job.num
             s == job.spend
  <2>1. b \in Nat /\ bb \in Nat /\ h \in Nat /\ bb >= b - n /\ n \in Nat /\ N \in Nat /\ s \in Nat
    BY <1>2, <1>3, <1>12 DEF Address
  <2>2. h >= N /\ h - b + s + (n + S) <= N
    BY <1>8
  <2>3. job'.free = IF job.mode = "only_price" THEN s + S ELSE 0
    BY <1>2, <1>5, <1>8, <1>15
  <2> HIDE DEF b, bb, h, N, s
  <2>4. h - bb + s + S <= N
    BY <1>5, <2>1, <2>2
  <2>5. SeqSum(Cookies, results') = S
    BY <1>10 DEF S
  <2> QED
    BY <1>2, <1>10, <1>15, <2>2, <2>3, <2>4, <2>5, SMTT(30) DEF Covered, b, bb, h, N, s, f
<1>22. StockKept
  <2>1. Total(BRC) \in Int /\ Total(FBRC) \in Int
    <3>1. BRC \in [Address -> Int] /\ FBRC \in [Address -> Int]
      BY <1>1
    <3> QED
      BY <3>1, TotalIsInt
  <2> QED
    BY <1>3, <1>11, <1>12, <1>13, <1>14, <2>1, SMTT(30) DEF StockKept, Total
<1> QED
  BY <1>1, <1>10, <1>16, <1>17, <1>19, <1>20, <1>21, <1>22, SMTT(30) DEF MoneyInv

\* What the resting order may cost is frozen: the account has it, since the
\* matches have taken no more than their part.
LEMMA EndPendingMoney ==
    ASSUME SumLaws, MoneyInv, endPending
    PROVE  MoneyInv' /\ StockKept
<1> DEFINE f == job.from
           p == job.price
           n == job.free
<1>1. /\ MoneyTypes /\ Keyed /\ Granular /\ Frozen /\ ~failed /\ Covered /\ phase = "pay"
      /\ orders \subseteq Order /\ IsFiniteSet(orders) /\ job \in Job /\ results = <<>>
      /\ BRC \in [Address -> Nat] /\ FBRC \in [Address -> Nat]
      /\ balance \in [Address -> Nat] /\ FBalance \in [Address -> Nat]
  BY Zenon DEF MoneyInv, endPending, MoneyTypes
<1>2. /\ f \in Trader /\ f \in Address /\ p \in Nat /\ job.spend \in Nat /\ n \in Int
      /\ job.hadBRC \in Nat /\ job.hadCookies \in Nat /\ job.num \in Nat
      /\ job.mode \in {"only_price", "all_price"} /\ job.type \in {"buy", "sell"}
      /\ BRC[f] \in Nat /\ balance[f] \in Nat /\ FBRC[f] \in Nat /\ FBalance[f] \in Nat
  BY <1>1, Zenon DEF Covered, Job, Address
<1>3. Cost(job.spend, p) \in Nat /\ Cost(job.num, p) \in Nat
  BY <1>2, CostBounds, ZenonT(60)
<1>4. \A v : SeqSum(v, results) = 0
  BY <1>1, EmptySeqSum
<1>5. CASE job.type = "buy"
  <2>1. /\ n \in Nat /\ n <= BRC[f]
        /\ (job.mode = "only_price" => n >= Cost(job.spend, p))
        /\ (job.mode = "only_price" /\ ~split => n = Cost(job.spend, p))
        /\ (job.mode = "all_price" => n = 0)
    <3> DEFINE b == BRC[f]
               h == job.hadBRC
               cs == Cost(job.spend, p)
               ca == Cost(job.num, p)
    <3>1. CASE job.mode = "only_price"
      <4>1. /\ h >= ca /\ h - b + n <= ca /\ n >= cs + 0 /\ (~split => n = cs + 0)
        BY <1>1, <1>4, <1>5, <3>1, Zenon DEF Covered
      <4>2. h \in Nat /\ b \in Nat /\ cs \in Nat /\ ca \in Nat
        BY <1>2, <1>3, Zenon
      <4> HIDE DEF b, h, cs, ca, n
      <4>3. n \in Nat /\ n <= b /\ n >= cs /\ (~split => n = cs)
        BY <1>2, <4>1, <4>2
      <4> QED
        BY <3>1, <4>3, SMTT(30) DEF b, cs
    <3>2. CASE job.mode = "all_price"
      <4>1. n = 0
        BY <1>1, <1>5, <3>2, Zenon DEF Covered
      <4> QED
        BY <1>2, <3>2, <4>1, SMTT(30)
    <3> QED
      BY <1>2, <3>1, <3>2, Zenon
  <2>2. /\ BRC' = Sub(BRC, f, n) /\ FBRC' = Add(FBRC, f, n)
        /\ balance' = balance /\ FBalance' = FBalance
        /\ phase' = "idle" /\ orders' = orders /\ now' = now /\ next' = next /\ job' = job
        /\ results' = results /\ failed' = failed /\ split' = split
    BY <1>1, <1>2, <1>5, <2>1 DEF endPending, freeze
  <2> HIDE DEF f, n
  <2>3. /\ Sub(BRC, f, n) \in [Address -> Nat] /\ Total(Sub(BRC, f, n)) = Total(BRC) - n
    <3>1. BRC \in [Address -> Nat] /\ f \in Trader /\ n \in Nat /\ n <= BRC[f]
      BY <1>1, <1>2, <2>1, Zenon
    <3> QED
      BY <3>1, Debited, Zenon
  <2>4. /\ Add(FBRC, f, n) \in [Address -> Nat] /\ Add(FBRC, f, n)[f] = FBRC[f] + n
        /\ \A b \in Address : b # f => Add(FBRC, f, n)[b] = FBRC[b]
    <3>1. FBRC \in [Address -> Nat] /\ f \in Address /\ n \in Nat
      BY <1>1, <1>2, <2>1
    <3> QED
      BY <3>1, AddTo, Zenon
  <2>5. /\ FBRC \in [Address -> Int] /\ BRC \in [Address -> Int]
    BY <1>1
  <2>6. Total(Add(FBRC, f, n)) = Total(FBRC) + n
    BY <1>2, <2>5, Deposit, Zenon
  <2>7. Total(BRC) \in Int /\ Total(FBRC) \in Int
    BY <2>5, TotalIsInt, SMTT(30)
  <2>8. StockKept
    BY <1>2, <2>2, <2>3, <2>6, <2>7, SMTT(30) DEF StockKept, Total
  <2>9. MoneyTypes'
    BY <1>1, <2>2, <2>3, <2>4, Zenon DEF MoneyTypes
  <2>10. Keyed' /\ Granular'
    BY <1>1, <2>2, Zenon DEF Keyed, Granular
  <2>11. Frozen'
    <3> SUFFICES ASSUME NEW a \in Trader
                 PROVE  /\ FBalance[a] + 0 = OpenCookies(a)' + 0
                        /\ FBRC'[a] + 0 >= OpenCost(a)' + 0
                        /\ ~split => FBRC'[a] + 0 = OpenCost(a)' + 0
      BY <2>2, Zenon DEF Frozen, Unpaid, Recorded
    <3> DEFINE K == BookCost(orders, a)
               c == Cost(job.spend, p)
               d == IF job.mode = "only_price" /\ f = a THEN c ELSE 0
               F == FBRC[a]
    <3>1. /\ OpenCookies(a) = BookCookies(orders, a) /\ OpenCost(a) = K /\ K \in Nat
      BY <1>1, OpenNow, SMTT(30)
    <3>2. /\ OpenCookies(a)' = BookCookies(orders, a) /\ OpenCost(a)' = K
      BY <1>1, <2>2, OpenThen, Zenon
    <3>3. /\ FBalance[a] + 0 = OpenCookies(a) + 0
      BY <1>1, <1>4, <1>5, Zenon DEF Frozen, Unpaid, Recorded
    <3>4. /\ F + d >= K + 0 /\ (~split => F + d = K + 0)
      BY <1>1, <1>5, <3>1, Zenon DEF Frozen, Unpaid, Recorded, f
    <3>5. F \in Nat /\ FBRC'[a] = (IF f = a THEN F + n ELSE F)
      BY <1>1, <2>2, <2>4, Zenon DEF Address
    <3>6. c \in Nat /\ (f = a => n >= d) /\ (f = a /\ ~split => n = d) /\ (f # a => d = 0)
      BY <1>2, <1>3, <2>1
    <3>7. d \in Nat
      BY <3>6, SMTT(30)
    <3> HIDE DEF K, c, d, F
    <3>8. FBRC'[a] + 0 >= K /\ (~split => FBRC'[a] + 0 = K)
      BY <1>2, <3>1, <3>4, <3>5, <3>6, <3>7, SMTT(30)
    <3> QED
      BY <3>1, <3>2, <3>3, <3>8, SMTT(30)
  <2> QED
    BY <1>1, <2>2, <2>8, <2>9, <2>10, <2>11 DEF MoneyInv
<1>6. CASE job.type = "sell"
  <2>1. /\ n \in Nat /\ n <= balance[f]
        /\ n = IF job.mode = "only_price" THEN job.spend ELSE 0
    <3> DEFINE b == balance[f]
               h == job.hadCookies
               N == job.num
               s == job.spend
    <3>1. /\ h >= N /\ h - b + s + 0 <= N
          /\ n = IF job.mode = "only_price" THEN s + 0 ELSE 0
      BY <1>1, <1>4, <1>6, Zenon DEF Covered
    <3>2. b \in Nat /\ h \in Nat /\ N \in Nat /\ s \in Nat
      BY <1>2
    <3> HIDE DEF b, h, N, s, n
    <3>3. n \in Nat /\ n <= b /\ n = IF job.mode = "only_price" THEN s ELSE 0
      BY <3>1, <3>2, SMTT(30)
    <3> QED
      BY <3>3, SMTT(30) DEF b, s
  <2>2. /\ balance' = Sub(balance, f, n) /\ FBalance' = Add(FBalance, f, n)
        /\ BRC' = BRC /\ FBRC' = FBRC
        /\ phase' = "idle" /\ orders' = orders /\ now' = now /\ next' = next /\ job' = job
        /\ results' = results /\ failed' = failed /\ split' = split
    BY <1>1, <1>2, <1>6, <2>1 DEF endPending, freeze
  <2> HIDE DEF f, n
  <2>3. /\ Sub(balance, f, n) \in [Address -> Nat]
        /\ Total(Sub(balance, f, n)) = Total(balance) - n
    <3>1. balance \in [Address -> Nat] /\ f \in Trader /\ n \in Nat /\ n <= balance[f]
      BY <1>1, <1>2, <2>1, SMTT(30)
    <3> QED
      BY <3>1, Debited, Zenon
  <2>4. /\ Add(FBalance, f, n) \in [Address -> Nat] /\ Add(FBalance, f, n)[f] = FBalance[f] + n
        /\ \A b \in Address : b # f => Add(FBalance, f, n)[b] = FBalance[b]
    <3>1. FBalance \in [Address -> Nat] /\ f \in Address /\ n \in Nat
      BY <1>1, <1>2, <2>1, Zenon
    <3> QED
      BY <3>1, AddTo, Zenon
  <2>5. /\ FBalance \in [Address -> Int] /\ balance \in [Address -> Int]
    BY <1>1
  <2>6. Total(Add(FBalance, f, n)) = Total(FBalance) + n
    BY <1>2, <2>5, Deposit, ZenonT(60)
  <2>7. Total(balance) \in Int /\ Total(FBalance) \in Int
    BY <2>5, TotalIsInt
  <2>8. StockKept
    BY <1>2, <2>2, <2>3, <2>6, <2>7, SMTT(30) DEF StockKept, Total
  <2>9. MoneyTypes'
    BY <1>1, <2>2, <2>3, <2>4, Zenon DEF MoneyTypes
  <2>10. Keyed' /\ Granular'
    BY <1>1, <2>2, Zenon DEF Keyed, Granular
  <2>11. Frozen'
    <3> SUFFICES ASSUME NEW a \in Trader
                 PROVE  /\ FBalance'[a] + 0 = OpenCookies(a)' + 0
                        /\ FBRC[a] + 0 >= OpenCost(a)' + 0
                        /\ ~split => FBRC[a] + 0 = OpenCost(a)' + 0
      BY <2>2, Zenon DEF Frozen, Unpaid, Recorded
    <3> DEFINE K == BookCookies(orders, a)
               d == IF job.mode = "only_price" /\ f = a THEN job.spend ELSE 0
               F == FBalance[a]
    <3>1. /\ OpenCookies(a) = K /\ OpenCost(a) = BookCost(orders, a) /\ K \in Nat
      BY <1>1, OpenNow
    <3>2. /\ OpenCookies(a)' = K /\ OpenCost(a)' = BookCost(orders, a)
      BY <1>1, <2>2, OpenThen, Zenon
    <3>3. /\ FBRC[a] + 0 >= OpenCost(a) + 0 /\ (~split => FBRC[a] + 0 = OpenCost(a) + 0)
      BY <1>1, <1>4, <1>6, Zenon DEF Frozen, Unpaid, Recorded
    <3>4. F + d = K + 0
      BY <1>1, <1>6, <3>1, Zenon DEF Frozen, Unpaid, Recorded, f
    <3>5. F \in Nat /\ FBalance'[a] = (IF f = a THEN F + n ELSE F)
      BY <1>1, <2>2, <2>4, Zenon DEF Address
    <3>6. d \in Nat /\ (f = a => n = d) /\ (f # a => d = 0)
      BY <1>2, <2>1, Zenon
    <3> HIDE DEF K, d, F
    <3>7. FBalance'[a] + 0 = K + 0
      BY <1>2, <3>1, <3>4, <3>5, <3>6
    <3> QED
      BY <3>1, <3>2, <3>3, <3>7, Zenon
  <2> QED
    BY <1>1, <2>2, <2>8, <2>9, <2>10, <2>11, SMTT(30) DEF MoneyInv
<1> QED
  BY <1>2, <1>5, <1>6, SMTT(30)

\* The owner of an open order gets back what its remaining amount has frozen.
LEMMA CancelMoney ==
    ASSUME SumLaws, MoneyInv, NEW o \in orders, cancelPendingOrders(o)
    PROVE  MoneyInv' /\ StockKept
<1> DEFINE f == o.sender
           x == Cost(o.amount, o.price)
           n == o.amount
           B == orders \ {o}
<1>1. /\ MoneyTypes /\ Keyed /\ Granular /\ Frozen /\ ~failed /\ phase = "idle"
      /\ orders \subseteq Order /\ IsFiniteSet(orders) /\ job \in Job /\ results = <<>>
      /\ BRC \in [Address -> Nat] /\ FBRC \in [Address -> Nat]
      /\ balance \in [Address -> Nat] /\ FBalance \in [Address -> Nat]
  BY Zenon DEF MoneyInv, cancelPendingOrders, MoneyTypes
<1>2. /\ o \in Order /\ f \in Trader /\ f \in Address /\ n \in Nat /\ o.price \in Nat
      /\ o.type \in {"buy", "sell"}
  BY <1>1 DEF Order, Address
<1>3. x \in Nat /\ Refund(o) = x
  BY <1>2, CostBounds, ZenonT(60) DEF Refund
<1>4. B \subseteq Order /\ IsFiniteSet(B)
  BY <1>1, FiniteSubset
<1>5. ASSUME NEW a \in Trader
      PROVE  /\ OpenCookies(a) = BookCookies(B, a) + (IF o.type = "sell" /\ f = a THEN n ELSE 0)
             /\ OpenCost(a) = BookCost(B, a) + (IF o.type = "buy" /\ f = a THEN x ELSE 0)
             /\ BookCookies(B, a) \in Nat /\ BookCost(B, a) \in Nat
             /\ FBalance[a] + 0 = OpenCookies(a) + 0
             /\ FBRC[a] + 0 >= OpenCost(a) + 0
             /\ ~split => FBRC[a] + 0 = OpenCost(a) + 0
             /\ FBalance[a] \in Nat /\ FBRC[a] \in Nat
  <2>1. /\ OpenCost(a) = BookCost(orders, a) /\ OpenCookies(a) = BookCookies(orders, a)
    BY <1>1, OpenNow
  <2>2. /\ BookCookies(orders, a) = BookCookies(B, a) + (IF o.type = "sell" /\ f = a THEN n ELSE 0)
        /\ BookCost(orders, a) = BookCost(B, a) + (IF o.type = "buy" /\ f = a THEN x ELSE 0)
    <3>1. orders \subseteq Order /\ IsFiniteSet(orders) /\ o \in orders
      BY <1>1
    <3>2. BookCookies(orders, a) = BookCookies(orders \ {o}, a)
             + (IF o.type = "sell" /\ o.sender = a THEN o.amount ELSE 0)
      BY <3>1, BookWithout
    <3>3. BookCost(orders, a) = BookCost(orders \ {o}, a)
             + (IF o.type = "buy" /\ o.sender = a THEN Cost(o.amount, o.price) ELSE 0)
      BY <3>1, BookWithout
    <3> QED
      BY <3>2, <3>3
  <2>3. BookCookies(B, a) \in Nat /\ BookCost(B, a) \in Nat
    <3> HIDE DEF B
    <3> QED
      BY <1>4, BookSums, Zenon
  <2>4. /\ FBalance[a] + 0 = OpenCookies(a) + 0
        /\ FBRC[a] + 0 >= OpenCost(a) + 0
        /\ ~split => FBRC[a] + 0 = OpenCost(a) + 0
        /\ FBalance[a] \in Nat /\ FBRC[a] \in Nat
    BY <1>1, Zenon DEF Frozen, Unpaid, Recorded, Address
  <2> QED
    BY <2>1, <2>2, <2>3, <2>4, Zenon
<1>6. CASE o.type = "buy"
  <2>1. x <= FBRC[f]
    <3> DEFINE K == BookCost(B, f)
               C == OpenCost(f)
    <3>1. C = K + x /\ K \in Nat /\ FBRC[f] + 0 >= C + 0 /\ FBRC[f] \in Nat
      BY <1>2, <1>5, <1>6, Zenon
    <3> HIDE DEF K, C, x, f
    <3> QED
      BY <1>3, <3>1, SMTT(30)
  <2>2. /\ FBRC' = Sub(FBRC, f, x) /\ BRC' = Add(BRC, f, x)
        /\ balance' = balance /\ FBalance' = FBalance /\ orders' = B
        /\ phase' = phase /\ now' = now /\ next' = next /\ job' = job
        /\ results' = results /\ failed' = failed /\ split' = split
    BY <1>3, <1>6, <2>1, Zenon DEF cancelPendingOrders
  <2> HIDE DEF f, x, B, n
  <2>3. /\ Sub(FBRC, f, x) \in [Address -> Nat] /\ Total(Sub(FBRC, f, x)) = Total(FBRC) - x
        /\ Sub(FBRC, f, x)[f] = FBRC[f] - x
        /\ \A b \in Trader : b # f => Sub(FBRC, f, x)[b] = FBRC[b]
    <3>1. FBRC \in [Address -> Nat] /\ f \in Trader /\ x \in Nat /\ x <= FBRC[f]
      BY <1>1, <1>2, <1>3, <2>1
    <3> QED
      BY <3>1, Debited, Zenon
  <2>4. Add(BRC, f, x) \in [Address -> Nat]
    <3>1. BRC \in [Address -> Nat] /\ f \in Address /\ x \in Nat
      BY <1>1, <1>2, <1>3
    <3> QED
      BY <3>1, AddTo, ZenonT(60)
  <2>5. /\ FBRC \in [Address -> Int] /\ BRC \in [Address -> Int] /\ x \in Int
    BY <1>1, <1>3
  <2>6. Total(Add(BRC, f, x)) = Total(BRC) + x
    BY <1>2, <2>5, Deposit, Zenon
  <2>7. Total(BRC) \in Int /\ Total(FBRC) \in Int
    BY <2>5, TotalIsInt, SMTT(30)
  <2>8. StockKept
    BY <2>2, <2>3, <2>5, <2>6, <2>7, SMTT(30) DEF StockKept, Total
  <2>9. MoneyTypes'
    BY <1>1, <1>4, <2>2, <2>3, <2>4, Zenon DEF MoneyTypes
  <2>10. Keyed' /\ Granular'
    BY <1>1, <2>2, ZenonT(60) DEF Keyed, Granular, B
  <2>11. Frozen'
    <3> SUFFICES ASSUME NEW a \in Trader
                 PROVE  /\ FBalance[a] + 0 = OpenCookies(a)' + 0
                        /\ FBRC'[a] + 0 >= OpenCost(a)' + 0
                        /\ ~split => FBRC'[a] + 0 = OpenCost(a)' + 0
      BY <1>1, <2>2, ZenonT(60) DEF Frozen, Unpaid, Recorded
    <3> DEFINE K == BookCost(B, a)
               M == BookCookies(B, a)
               F == FBRC[a]
               H == FBalance[a]
    <3>1. /\ M \in Nat /\ K \in Nat /\ F \in Nat /\ H \in Nat
          /\ H + 0 = (M + 0) + 0
          /\ F + 0 >= (K + (IF f = a THEN x ELSE 0)) + 0
          /\ ~split => F + 0 = (K + (IF f = a THEN x ELSE 0)) + 0
      BY <1>5, <1>6, Zenon
    <3>2. OpenCookies(a)' = M /\ OpenCost(a)' = K
      BY <1>4, <2>2, OpenThen, SMTT(30)
    <3>3. FBRC'[a] = (IF f = a THEN F - x ELSE F)
      BY <2>2, <2>3
    <3> HIDE DEF K, M, F, H
    <3>4. H + 0 = M + 0 /\ FBRC'[a] + 0 >= K + 0 /\ (~split => FBRC'[a] + 0 = K + 0)
      BY <1>3, <3>1, <3>3, SMTT(30)
    <3> QED
      BY <3>2, <3>4, Zenon DEF H
  <2> QED
    BY <1>1, <2>2, <2>8, <2>9, <2>10, <2>11 DEF MoneyInv
<1>7. CASE o.type = "sell"
  <2>1. n <= FBalance[f]
    <3> DEFINE K == BookCookies(B, f)
               C == OpenCookies(f)
    <3>1. C = K + n /\ K \in Nat /\ FBalance[f] + 0 = C + 0 /\ FBalance[f] \in Nat
      BY <1>2, <1>5, <1>7, Zenon
    <3> HIDE DEF K, C, n, f
    <3> QED
      BY <1>2, <3>1, SMTT(30)
  <2>2. /\ FBalance' = Sub(FBalance, f, n) /\ balance' = Add(balance, f, n)
        /\ BRC' = BRC /\ FBRC' = FBRC /\ orders' = B
        /\ phase' = phase /\ now' = now /\ next' = next /\ job' = job
        /\ results' = results /\ failed' = failed /\ split' = split
    BY <1>7, <2>1, Zenon DEF cancelPendingOrders
  <2> HIDE DEF f, x, B, n
  <2>3. /\ Sub(FBalance, f, n) \in [Address -> Nat]
        /\ Total(Sub(FBalance, f, n)) = Total(FBalance) - n
        /\ Sub(FBalance, f, n)[f] = FBalance[f] - n
        /\ \A b \in Trader : b # f => Sub(FBalance, f, n)[b] = FBalance[b]
    <3>1. FBalance \in [Address -> Nat] /\ f \in Trader /\ n \in Nat /\ n <= FBalance[f]
      BY <1>1, <1>2, <2>1, SMTT(30)
    <3> QED
      BY <3>1, Debited, Zenon
  <2>4. Add(balance, f, n) \in [Address -> Nat]
    <3>1. balance \in [Address -> Nat] /\ f \in Address /\ n \in Nat
      BY <1>1, <1>2
    <3> QED
      BY <3>1, AddTo, Zenon
  <2>5. /\ FBalance \in [Address -> Int] /\ balance \in [Address -> Int] /\ n \in Int
    BY <1>1, <1>2
  <2>6. Total(Add(balance, f, n)) = Total(balance) + n
    BY <1>2, <2>5, Deposit, ZenonT(60)
  <2>7. Total(balance) \in Int /\ Total(FBalance) \in Int
    BY <2>5, TotalIsInt
  <2>8. StockKept
    BY <2>2, <2>3, <2>5, <2>6, <2>7, SMTT(30) DEF StockKept, Total
  <2>9. MoneyTypes'
    BY <1>1, <1>4, <2>2, <2>3, <2>4, Zenon DEF MoneyTypes
  <2>10. Keyed' /\ Granular'
    BY <1>1, <2>2, ZenonT(60) DEF Keyed, Granular, B
  <2>11. Frozen'
    <3> SUFFICES ASSUME NEW a \in Trader
                 PROVE  /\ FBalance'[a] + 0 = OpenCookies(a)' + 0
                        /\ FBRC[a] + 0 >= OpenCost(a)' + 0
                        /\ ~split => FBRC[a] + 0 = OpenCost(a)' + 0
      BY <1>1, <2>2, ZenonT(60) DEF Frozen, Unpaid, Recorded
    <3> DEFINE K == BookCost(B, a)
               M == BookCookies(B, a)
               F == FBRC[a]
               H == FBalance[a]
    <3>1. /\ M \in Nat /\ K \in Nat /\ F \in Nat /\ H \in Nat
          /\ H + 0 = (M + (IF f = a THEN n ELSE 0)) + 0
          /\ F + 0 >= (K + 0) + 0
          /\ ~split => F + 0 = (K + 0) + 0
      BY <1>5, <1>7, ZenonT(60)
    <3>2. OpenCookies(a)' = M /\ OpenCost(a)' = K
      BY <1>4, <2>2, OpenThen
    <3>3. FBalance'[a] = (IF f = a THEN H - n ELSE H)
      BY <2>2, <2>3, Zenon
    <3> HIDE DEF K, M, F, H
    <3>4. FBalance'[a] + 0 = M + 0 /\ F + 0 >= K + 0 /\ (~split => F + 0 = K + 0)
      BY <1>2, <3>1, <3>3
    <3> QED
      BY <3>2, <3>4, Zenon DEF F
  <2> QED
    BY <1>1, <2>2, <2>8, <2>9, <2>10, <2>11, Zenon DEF MoneyInv
<1> QED
  BY <1>2, <1>6, <1>7, SMTT(30)

LEMMA InitMoney ==
  ASSUME SumLaws
  PROVE  Init => MoneyInv
<1> SUFFICES ASSUME Init PROVE MoneyInv
  OBVIOUS
<1>1. MoneyTypes
  <2>1. NoJob \in Job
    BY DEF NoJob, Job, Address
  <2>2. <<>> \in Seq(Result) /\ IsFiniteSet({})
    BY FiniteEmpty
  <2> QED
    BY <2>1, <2>2, ExchangeAssumption, Zenon DEF Init, MoneyTypes
<1>2. Keyed /\ Granular
  BY DEF Init, Keyed, Granular
<1>3. Frozen
  <2> SUFFICES ASSUME NEW a \in Trader
               PROVE  OpenCookies(a) = 0 /\ OpenCost(a) = 0
    BY DEF Init, Frozen, Unpaid, Recorded, Address
  <2>1. orders = {} /\ {} \subseteq Order /\ IsFiniteSet({})
    BY FiniteEmpty DEF Init
  <2>2. OpenCookies(a) = BookCookies({}, a) /\ OpenCost(a) = BookCost({}, a)
    BY <2>1, OpenNow, Zenon
  <2>3. Mine({}, "sell", a) = {} /\ Mine({}, "buy", a) = {}
    BY Zenon DEF Mine
  <2>4. SumFunctionOnSet(AmountOf, {}) = 0 /\ SumFunctionOnSet(RefundOf, {}) = 0
    BY EmptySum, Zenon
  <2> QED
    BY <2>2, <2>3, <2>4, Zenon DEF BookCookies, BookCost
<1> QED
  BY <1>1, <1>2, <1>3 DEF MoneyInv, Init

\* Every step keeps the invariant and the amounts of BRC and of cookies.
LEMMA NextMoney ==
  ASSUME SumLaws
  PROVE  MoneyInv /\ BookInv /\ [Next]_vars => MoneyInv' /\ StockKept
<1> SUFFICES ASSUME MoneyInv, BookInv, [Next]_vars PROVE MoneyInv' /\ StockKept
  OBVIOUS
<1>1. ASSUME UNCHANGED accounts PROVE StockKept
  BY <1>1, Zenon DEF StockKept, Total, accounts
<1>2. ASSUME NEW from \in Trader, NEW type \in {"buy", "sell"},
             NEW mode \in {"only_price", "all_price"},
             NEW price \in Prices \cup {0}, NEW num \in Amounts \cup {0},
             pendingOrders(from, type, mode, price, num)
      PROVE  MoneyInv' /\ StockKept
  <2>1. UNCHANGED accounts
    BY <1>2, Zenon DEF pendingOrders
  <2> QED
    BY <1>1, <1>2, <2>1, BeginMoney, Zenon
<1>3. ASSUME NEW o \in orders, match(o) PROVE MoneyInv' /\ StockKept
  <2>1. UNCHANGED accounts
    BY <1>3 DEF match
  <2> QED
    BY <1>1, <1>3, <2>1, MatchMoney, ZenonT(60)
<1>4. ASSUME NEW o \in orders, cancelPendingOrders(o) PROVE MoneyInv' /\ StockKept
  BY <1>4, CancelMoney
<1>5. ASSUME endMatch PROVE MoneyInv' /\ StockKept
  <2>1. UNCHANGED accounts
    BY <1>5, Zenon DEF endMatch
  <2> QED
    BY <1>1, <1>5, <2>1, EndMatchMoney
<1>6. ASSUME pay PROVE MoneyInv' /\ StockKept
  <2>1. job.type \in {"buy", "sell"}
    BY DEF MoneyInv, MoneyTypes, Job
  <2> QED
    BY <1>6, <2>1, PayBuyMoney, PaySellMoney, SMTT(30)
<1>7. ASSUME endPending PROVE MoneyInv' /\ StockKept
  BY <1>7, EndPendingMoney
<1>8. ASSUME \/ newBlock \/ UNCHANGED vars
      PROVE  MoneyInv' /\ StockKept
  <2>1. UNCHANGED <<accounts, orders, next, phase, job, results, failed, split>> /\ now' \in Nat
    BY <1>8, Zenon DEF newBlock, vars, accounts, MoneyInv, MoneyTypes
  <2>2. MoneyTypes' /\ Keyed' /\ Granular' /\ (phase' # "idle" => Covered')
    BY <2>1, ZenonT(60) DEF MoneyInv, MoneyTypes, Keyed, Granular, Covered, accounts
  <2>3. Frozen'
    BY <2>1, ZenonT(60) DEF MoneyInv, Frozen, Recorded, Unpaid, OpenCost, OpenCookies,
       Side, accounts
  <2> QED
    BY <1>1, <2>1, <2>2, <2>3, Zenon DEF MoneyInv
<1> QED
  BY <1>2, <1>3, <1>4, <1>5, <1>6, <1>7, <1>8, Zenon DEF Next

LEMMA InitStock ==
  ASSUME SumLaws
  PROVE  Init => Conserved
<1> SUFFICES ASSUME Init PROVE Conserved
  OBVIOUS
<1>1. IsFiniteSet(Trader) /\ IsFiniteSet({PdSystemAddress}) /\ IsFiniteSet(Address)
      /\ Trader \cap {PdSystemAddress} = {}
  <2>1. IsFiniteSet(Trader) /\ PdSystemAddress \notin Trader
    BY ExchangeAssumption
  <2>2. IsFiniteSet({PdSystemAddress})
    <3>1. {PdSystemAddress} = {} \cup {PdSystemAddress}
      OBVIOUS
    <3> QED
      BY <3>1, FiniteEmpty, FiniteInsert, Zenon
  <2>3. IsFiniteSet(Address)
    BY <2>1, FiniteInsert DEF Address
  <2> QED
    BY <2>1, <2>2, <2>3
<1>2. ASSUME NEW f, NEW c \in Nat, f = [a \in Address |-> IF a \in Trader THEN c ELSE 0]
      PROVE  Total(f) = c * Cardinality(Trader)
  <2>1. /\ \A a \in Trader : f[a] = c
        /\ \A a \in Trader \cup {PdSystemAddress} : f[a] \in Int
        /\ \A a \in {PdSystemAddress} : f[a] = 0
    BY <1>1, <1>2, SMTT(30) DEF Address
  <2>2. SumFunctionOnSet(f, Trader) = c * Cardinality(Trader)
    BY <1>1, <2>1, ConstantSum, SMTT(30)
  <2>3. SumFunctionOnSet(f, {PdSystemAddress}) = 0 * Cardinality({PdSystemAddress})
    BY <1>1, <2>1, ConstantSum, Zenon
  <2>4. Cardinality(Trader) \in Nat /\ Cardinality({PdSystemAddress}) \in Nat
    BY <1>1, FiniteCount, SMTT(30)
  <2>5. Total(f) = SumFunctionOnSet(f, Trader) + SumFunctionOnSet(f, {PdSystemAddress})
    BY <1>1, <2>1, UnionSum, Zenon DEF Total, Address
  <2>6. 0 * Cardinality({PdSystemAddress}) = 0 /\ c * Cardinality(Trader) \in Int
    BY <2>4
  <2> HIDE DEF Total
  <2> QED
    BY <2>2, <2>3, <2>5, <2>6
<1>3. ASSUME NEW f, f = [a \in Address |-> 0] PROVE Total(f) = 0
  <2>1. \A a \in Address : f[a] = 0
    BY <1>3
  <2>2. SumFunctionOnSet(f, Address) = 0 * Cardinality(Address) /\ Cardinality(Address) \in Nat
    BY <1>1, <2>1, ConstantSum, FiniteCount, SMTT(30)
  <2> QED
    BY <2>2 DEF Total
<1>4. Total(BRC) = InitialBRC * Cardinality(Trader) /\ Total(FBRC) = 0
  BY <1>2, <1>3, ExchangeAssumption, Zenon DEF Init
<1>5. Total(balance) = InitialBalance * Cardinality(Trader) /\ Total(FBalance) = 0
  BY <1>2, <1>3, ExchangeAssumption, Zenon DEF Init
<1>6. InitialBRC * Cardinality(Trader) \in Int /\ InitialBalance * Cardinality(Trader) \in Int
  BY <1>1, FiniteCount, ExchangeAssumption
<1> QED
  BY <1>4, <1>5, <1>6 DEF Conserved

LEMMA MoneyAlways ==
  ASSUME SumLaws
  PROVE  Spec => [](MoneyInv /\ Conserved)
<1>1. Init => MoneyInv /\ BookInv /\ Conserved
  BY InitMoney, InitBook, InitStock
<1>2. MoneyInv /\ BookInv /\ Conserved /\ [Next]_vars => (MoneyInv /\ BookInv /\ Conserved)'
  <2>1. Conserved /\ StockKept => Conserved'
    BY Zenon DEF Conserved, StockKept
  <2> QED
    BY <2>1, NextMoney, NextBook, SMTT(30)
<1> QED
  BY <1>1, <1>2, PTL DEF Spec

-----------------------------------------------------------------------------
(* What the invariant says of the properties. *)

LEMMA MoneyTyped == MoneyInv => TypeOK
<1> SUFFICES ASSUME MoneyInv PROVE TypeOK
  OBVIOUS
<1>1. \A i \in DOMAIN results : results[i] \in Result
  BY DEF MoneyInv, MoneyTypes
<1>2. job.spend \in Nat /\ job.free \in Int
  BY DEF MoneyInv, MoneyTypes, Job
<1>3. {BRC, FBRC, balance, FBalance} \subseteq [Address -> Nat]
  BY DEF MoneyInv, MoneyTypes
<1> QED
  BY <1>1, <1>2, <1>3, Zenon DEF MoneyInv, MoneyTypes, TypeOK, Result

LEMMA MoneyEnough == MoneyInv => NeverShort
  BY SMTT(30) DEF MoneyInv, NeverShort

LEMMA MoneyFrozen == ASSUME SumLaws PROVE MoneyInv => FrozenMatchesBook
<1> SUFFICES ASSUME MoneyInv, phase = "idle", NEW a \in Trader
             PROVE  /\ FBalance[a] = OpenCookies(a)
                    /\ FBRC[a] >= OpenCost(a)
                    /\ ~split => FBRC[a] = OpenCost(a)
  BY Zenon DEF FrozenMatchesBook
<1>1. OpenCost(a) \in Nat /\ OpenCookies(a) \in Nat
  BY OpenNow, Zenon DEF MoneyInv, MoneyTypes
<1>2. FBalance[a] \in Nat /\ FBRC[a] \in Nat
  BY Zenon DEF MoneyInv, MoneyTypes, Address
<1>3. /\ FBalance[a] + 0 = OpenCookies(a) + 0
      /\ FBRC[a] + 0 >= OpenCost(a) + 0
      /\ ~split => FBRC[a] + 0 = OpenCost(a) + 0
  BY ZenonT(60) DEF MoneyInv, Frozen, Unpaid, Recorded
<1> QED
  BY <1>1, <1>2, <1>3, SMTT(30)

LEMMA MoneyVerified == ASSUME SumLaws PROVE MoneyInv => WithinVerified
<1> SUFFICES ASSUME MoneyInv, phase # "idle" PROVE WithinVerified
  BY Zenon DEF WithinVerified
<1>1. Covered /\ job \in Job /\ results \in Seq(Result) /\ balance \in [Address -> Nat]
      /\ BRC \in [Address -> Nat]
  BY ZenonT(60) DEF MoneyInv, MoneyTypes
<1>2. /\ SeqSum(Cookies, results) \in Nat /\ SeqSum(Paid, results) \in Nat
      /\ Cost(job.num, job.price) \in Nat
  BY <1>1, ResultSums, Zenon
<1>3. /\ job.type \in {"buy", "sell"} /\ job.mode \in {"only_price", "all_price"}
      /\ job.hadBRC \in Nat /\ job.hadCookies \in Nat /\ job.spend \in Nat /\ job.num \in Nat
      /\ job.price \in Nat /\ job.free \in Int
      /\ BRC[job.from] \in Nat /\ balance[job.from] \in Nat
  BY <1>1 DEF Job
<1> DEFINE b == BRC[job.from]
           c == balance[job.from]
           S == SeqSum(Cookies, results)
           P == SeqSum(Paid, results)
           C == Cost(job.num, job.price)
           h == job.hadBRC
           k == job.hadCookies
<1>4. CASE job.type = "buy" /\ job.mode = "only_price"
  BY <1>1, <1>4, ZenonT(60) DEF Covered, WithinVerified
<1>5. CASE job.type = "buy" /\ job.mode = "all_price"
  <2>1. h - b + P <= job.price
    BY <1>1, <1>5, Zenon DEF Covered
  <2>2. h - b + 0 <= job.price
    <3> HIDE DEF b, P, h
    <3>1. b \in Nat /\ P \in Nat /\ h \in Nat /\ job.price \in Nat
      BY <1>2, <1>3, Zenon DEF b, P, h
    <3> QED
      BY <2>1, <3>1, SMTT(30)
  <2> QED
    BY <1>5, <2>2, Zenon DEF WithinVerified
<1>6. CASE job.type = "sell"
  <2>1. /\ k - c + job.spend + S <= job.num
        /\ job.free = IF job.mode = "only_price" THEN job.spend + S ELSE 0
    BY <1>1, <1>6, Zenon DEF Covered
  <2>2. k - c + (IF job.mode = "only_price" THEN job.free ELSE 0) <= job.num
    <3> HIDE DEF c, S, k
    <3>1. c \in Nat /\ S \in Nat /\ k \in Nat /\ job.spend \in Nat /\ job.num \in Nat
      BY <1>2, <1>3, Zenon DEF c, S, k
    <3> QED
      BY <2>1, <3>1, SMTT(30)
  <2> QED
    BY <1>6, <2>2, Zenon DEF WithinVerified
<1> QED
  BY <1>3, <1>4, <1>5, <1>6, ZenonT(60)

-----------------------------------------------------------------------------
(* The laws hold: SumTheorems proves them.  It is brought in here, after    *)
(* the proofs that only name the laws, and by INSTANCE, so that its         *)
(* operators are the ones above under other names.                          *)

Proved == INSTANCE SumTheorems

LEMMA SameOperators ==
    /\ \A f, S : SumFunctionOnSet(f, S) = Proved!SumFunctionOnSet(f, S)
    /\ \A S : IsFiniteSet(S) = Proved!IsFiniteSet(S)
    /\ \A S : Cardinality(S) = Proved!Cardinality(S)
    /\ \A v, s : SeqSum(v, s) = Proved!SeqSum(v, s)
<1>1. \A f, S : SumFunctionOnSet(f, S) = Proved!SumFunctionOnSet(f, S)
  BY Zenon DEF SumFunctionOnSet, Proved!SumFunctionOnSet, FoldFunctionOnSet,
               Proved!FoldFunctionOnSet, MapThenFoldSet, Proved!MapThenFoldSet
<1>2. \A S : IsFiniteSet(S) = Proved!IsFiniteSet(S)
  BY Zenon DEF IsFiniteSet, Proved!IsFiniteSet
<1>3. \A S : Cardinality(S) = Proved!Cardinality(S)
  BY Zenon DEF Cardinality, Proved!Cardinality, IsFiniteSet, Proved!IsFiniteSet
<1>4. \A v, s : SeqSum(v, s) = Proved!SeqSum(v, s)
  BY <1>1, Zenon DEF SeqSum, Proved!SeqSum
<1> QED
  BY <1>1, <1>2, <1>3, <1>4, Zenon

LEMMA LawsHold == SumLaws
<1>1. FiniteSetLaws
  BY Proved!LawsOfSums, SameOperators, Zenon
  DEF Proved!SumLaws, Proved!FiniteSetLaws, FiniteSetLaws
<1>2. SumOfNone
  BY Proved!LawsOfSums, SameOperators, Zenon
  DEF Proved!SumLaws, Proved!SumOfNone, SumOfNone
<1>3. SumTypes
  BY Proved!LawsOfSums, SameOperators, Zenon
  DEF Proved!SumLaws, Proved!SumTypes, SumTypes
<1>4. SumRemoves
  <2> SUFFICES ASSUME NEW f, NEW S, NEW y, IsFiniteSet(S), \A x \in S : f[x] \in Int, y \in S
               PROVE  SumFunctionOnSet(f, S) = f[y] + SumFunctionOnSet(f, S \ {y})
    BY SMTT(30) DEF SumRemoves
  <2>1. Proved!SumRemoves /\ Proved!IsFiniteSet(S)
    BY Proved!LawsOfSums, SameOperators, Zenon DEF Proved!SumLaws
  <2>2. Proved!SumFunctionOnSet(f, S) = f[y] + Proved!SumFunctionOnSet(f, S \ {y})
    BY <2>1, SMTT(30) DEF Proved!SumRemoves
  <2>3. /\ SumFunctionOnSet(f, S) = Proved!SumFunctionOnSet(f, S)
        /\ SumFunctionOnSet(f, S \ {y}) = Proved!SumFunctionOnSet(f, S \ {y})
    BY SameOperators, Zenon
  <2> QED
    BY <2>2, <2>3, Zenon
<1>5. SumEquals
  <2> SUFFICES ASSUME NEW f, NEW g, NEW S, IsFiniteSet(S), \A x \in S : f[x] = g[x]
               PROVE  SumFunctionOnSet(f, S) = SumFunctionOnSet(g, S)
    BY SMTT(30) DEF SumEquals
  <2>1. Proved!SumEquals /\ Proved!IsFiniteSet(S)
    BY Proved!LawsOfSums, SameOperators, Zenon DEF Proved!SumLaws
  <2>2. Proved!SumFunctionOnSet(f, S) = Proved!SumFunctionOnSet(g, S)
    BY <2>1, Zenon DEF Proved!SumEquals
  <2> QED
    BY <2>2, SameOperators, Zenon
<1>6. SumUpdates
  BY Proved!LawsOfSums, SameOperators, SMTT(30)
  DEF Proved!SumLaws, Proved!SumUpdates, SumUpdates
<1>7. SumUnites
  BY Proved!LawsOfSums, SameOperators, ZenonT(60)
  DEF Proved!SumLaws, Proved!SumUnites, SumUnites
<1>8. SumMultiplies
  BY Proved!LawsOfSums, SameOperators, ZenonT(60)
  DEF Proved!SumLaws, Proved!SumMultiplies, SumMultiplies
<1>9. SeqSumTypes
  BY Proved!LawsOfSums, SameOperators, Zenon
  DEF Proved!SumLaws, Proved!SeqSumTypes, SeqSumTypes
<1>10. SeqSumAppends
  <2> SUFFICES ASSUME NEW R, NEW v \in [R -> Int], NEW s \in Seq(R), NEW x \in R
               PROVE  SeqSum(v, Append(s, x)) = SeqSum(v, s) + v[x]
    BY Zenon DEF SeqSumAppends
  <2>1. Proved!SeqSumAppends
    BY Proved!LawsOfSums, Zenon DEF Proved!SumLaws
  <2>2. Proved!SeqSum(v, Append(s, x)) = Proved!SeqSum(v, s) + v[x]
    BY <2>1, SMTT(30) DEF Proved!SeqSumAppends
  <2>3. /\ SeqSum(v, s) = Proved!SeqSum(v, s)
        /\ SeqSum(v, Append(s, x)) = Proved!SeqSum(v, Append(s, x))
    BY SameOperators, Zenon
  <2> QED
    BY <2>2, <2>3, Zenon
<1>11. SeqSumSplits
  BY Proved!LawsOfSums, SameOperators, ZenonT(60)
  DEF Proved!SumLaws, Proved!SeqSumSplits, SeqSumSplits
<1> QED
  BY <1>1, <1>2, <1>3, <1>4, <1>5, <1>6, <1>7, <1>8, <1>9, <1>10, <1>11,
     Zenon DEF SumLaws

LEMMA MoneyInvariant == Spec => [](MoneyInv /\ Conserved)
  BY LawsHold, MoneyAlways, Zenon

\* No account value is ever negative (a u256 would wrap around): the sub*
\* functions, called on amounts that were looked up several steps earlier,
\* never take more than there is.
THEOREM ExchangeTypes == Spec => []TypeOK
  BY MoneyInvariant, MoneyTyped, PTL

\* Matches, fees, freezes and refunds neither make nor lose BRC or cookies.
THEOREM StockConserved == Spec => []Conserved
  BY MoneyInvariant, PTL

\* No payment, freeze or refund finds too little ("I expect this never
\* happens" in subBalance, subBRC, subFBRC and subFBalance).
THEOREM AlwaysEnough == Spec => []NeverShort
  BY MoneyInvariant, MoneyEnough, PTL

\* Between transactions the frozen amounts are those of the open orders.
THEOREM FrozenIsBook == Spec => []FrozenMatchesBook
<1>1. MoneyInv => FrozenMatchesBook
  BY LawsHold, MoneyFrozen, Zenon
<1> QED
  BY <1>1, MoneyInvariant, PTL

\* A transaction takes no more than verifyPendingOrders looked for.
THEOREM NoMoreThanVerified == Spec => []WithinVerified
<1>1. MoneyInv => WithinVerified
  BY LawsHold, MoneyVerified, Zenon
<1> QED
  BY <1>1, MoneyInvariant, PTL
=============================================================================
