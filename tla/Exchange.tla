------------------------------ MODULE Exchange ------------------------------
(***************************************************************************)
(* The order exchange of BRC against cookies: ExdbState (the order book    *)
(* and the matching of an order against it), and the operations of State   *)
(* that pay for the matches, freeze what an open order may cost and give   *)
(* it back when the order is cancelled.                                    *)
(*                                                                         *)
(* A transaction carries exactly one order operation (Executive refuses a  *)
(* batch) and runs alone, so `job' is the transaction that is running.  It *)
(* goes through the loops of the code: insert_operation matches the order  *)
(* with one resting order per iteration, then State::pendingOrders pays    *)
(* one result per iteration, then it freezes the rest.                     *)
(***************************************************************************)
EXTENDS Integers, FiniteSets, Sequences, Functions

CONSTANTS Trader,           \* accounts that place orders
          PdSystemAddress,  \* the account that collects the fees
          Prices, Amounts,  \* what an order may ask for
          PRICEPRECISION,   \* fixed-point unit of a price
          Granularity,      \* amounts and prices are multiples of it
          MATCHINGFEERATIO, \* the fee is one part in this many
          COOKIELIMIT,      \* least size of a limit order
          InitialBRC, InitialBalance,
          MaxTransactions   \* bound: order transactions of a behaviour

ASSUME ExchangeAssumption ==
    /\ IsFiniteSet(Trader) /\ PdSystemAddress \notin Trader
    /\ PRICEPRECISION \in Nat \ {0}
    /\ Granularity \in Nat \ {0}
    /\ MATCHINGFEERATIO \in Nat \ {0}
    /\ Prices \subseteq Nat \ {0} /\ Amounts \subseteq Nat \ {0}
    /\ COOKIELIMIT \in Nat /\ InitialBRC \in Nat /\ InitialBalance \in Nat
    /\ MaxTransactions \in Nat

\* An amount times a price is a multiple of the unit: 10000 * 10000 = PRICEPRECISION.
ASSUME GranularityAssumption == (Granularity * Granularity) % PRICEPRECISION = 0

VARIABLES BRC, FBRC,          \* free and frozen BRC of an account
          balance, FBalance,  \* free and frozen cookies of an account
          orders,             \* the book: ExOrderMulti of ExdbSystemAddress
          now,                \* time stamp of the block being executed
          next,               \* order transactions so far: the next trxid
          phase,              \* where the running transaction is
          job,                \* the running (or last) order operation
          results,            \* its matches not yet paid: vector<result_order>
          failed,             \* some sub* threw NotEnoughCash, or the freeze threw
          split               \* a market purchase has left a part of an order

vars == <<BRC, FBRC, balance, FBalance, orders, now, next, phase, job, results, failed, split>>
accounts == <<BRC, FBRC, balance, FBalance>>

Address == Trader \cup {PdSystemAddress}

\* What n cookies cost at a price: u256 division rounds down.
Cost(n, price) == (n * price) \div PRICEPRECISION

Fee(n) == n \div MATCHINGFEERATIO

Add(f, a, n) == [f EXCEPT ![a] = @ + n]
Sub(f, a, n) == [f EXCEPT ![a] = @ - n]

NoJob == [from |-> PdSystemAddress, type |-> "buy", mode |-> "only_price", price |-> 0,
          num |-> 0, trxid |-> 0, spend |-> 0, free |-> 0, hadBRC |-> 0, hadCookies |-> 0]

Init ==
    /\ BRC = [a \in Address |-> IF a \in Trader THEN InitialBRC ELSE 0]
    /\ balance = [a \in Address |-> IF a \in Trader THEN InitialBalance ELSE 0]
    /\ FBRC = [a \in Address |-> 0] /\ FBalance = [a \in Address |-> 0]
    /\ orders = {} /\ now = 0 /\ next = 0
    /\ phase = "idle" /\ job = NoJob /\ results = <<>>
    /\ failed = FALSE /\ split = FALSE

-----------------------------------------------------------------------------
Side(type) == {o \in orders : o.type = type}

\* get_buy_itr: the sell orders no dearer than the price; the range of
\* get_sell_itr: the buy orders at least that good.  A market order takes
\* the whole side (bounds u256(-1) and 0).
InRange_Strict(o, j) ==
    /\ o.type # j.type
    /\ \/ j.mode = "all_price"
       \/ j.type = "buy" /\ o.price < j.price
       \/ j.type = "sell" /\ o.price > j.price

InRange(o, j) ==
    /\ o.type # j.type
    /\ \/ j.mode = "all_price"
       \/ j.type = "buy" /\ o.price <= j.price
       \/ j.type = "sell" /\ o.price >= j.price

Reach(j) == {o \in orders : InRange(o, j)}

\* The first of the range in the index ex_by_price_less (for a purchase) or
\* ex_by_price_greater (for a sale): best price, then oldest.  Orders of one
\* block share their create_time; the index keeps them in order of insertion,
\* which an update of the order changes, and the model leaves that tie open.
First(j) ==
    {o \in Reach(j) : \A p \in Reach(j) :
        IF p.price = o.price THEN o.time <= p.time
        ELSE IF j.type = "buy" THEN o.price < p.price ELSE o.price > p.price}

\* BRCTranscation::verifyPendingOrders, for the one operation of a transaction.
verifyPendingOrders_NoFunds(from, type, mode, price, num) ==
    /\ num % Granularity = 0 /\ price % Granularity = 0
    /\ mode = "only_price" /\ type = "sell" => num >= COOKIELIMIT
    /\ mode = "only_price" /\ type = "buy" => Cost(num, price) >= COOKIELIMIT
    /\ mode = "all_price" => Side(IF type = "buy" THEN "sell" ELSE "buy") # {}

verifyPendingOrders(from, type, mode, price, num) ==
    /\ num % Granularity = 0 /\ price % Granularity = 0
    /\ type = "buy" =>
          LET total == IF mode = "only_price" THEN Cost(num, price) ELSE price
          IN  total <= BRC[from] /\ (mode = "only_price" => total >= COOKIELIMIT)
    /\ type = "sell" =>
          num <= balance[from] /\ (mode = "only_price" => num >= COOKIELIMIT)
    /\ mode = "all_price" => Side(IF type = "buy" THEN "sell" ELSE "buy") # {}

\* The head of State::pendingOrders: the ex_order, and what it must freeze.
\* A market purchase states the BRC to spend as its price and no amount, a
\* market sale an amount and no price.  `spend' is what the matching loop of
\* insert_operation has left: BRC scaled by PRICEPRECISION for a market
\* purchase, cookies otherwise.
pendingOrders(from, type, mode, price, num) ==
    /\ phase = "idle" /\ ~failed
    /\ next < MaxTransactions
    /\ mode = "all_price" /\ type = "buy" => num = 0
    /\ mode = "all_price" /\ type = "sell" => price = 0
    /\ (mode = "only_price" \/ type = "buy") => price # 0
    /\ (mode = "only_price" \/ type = "sell") => num # 0
    /\ verifyPendingOrders(from, type, mode, price, num)
    /\ job' = [from |-> from, type |-> type, mode |-> mode, price |-> price, num |-> num,
               trxid |-> next,
               spend |-> IF mode = "all_price" /\ type = "buy"
                         THEN price * PRICEPRECISION ELSE num,
               free |-> IF mode = "all_price" THEN 0
                        ELSE IF type = "buy" THEN Cost(num, price) ELSE num,
               hadBRC |-> BRC[from], hadCookies |-> balance[from]]
    /\ next' = next + 1
    /\ phase' = "match"
    /\ UNCHANGED <<accounts, orders, now, results, failed, split>>

\* How much of resting order o the loop takes: all of it when it fits what is
\* left, a part otherwise (for a market purchase what the BRC left can buy).
Taken_Up(o) ==
    IF job.mode = "all_price" /\ job.type = "buy"
    THEN IF o.amount * o.price <= job.spend THEN o.amount
         ELSE (job.spend + o.price - 1) \div o.price
    ELSE IF o.amount <= job.spend THEN o.amount ELSE job.spend

Taken(o) ==
    IF job.mode = "all_price" /\ job.type = "buy"
    THEN IF o.amount * o.price <= job.spend THEN o.amount ELSE job.spend \div o.price
    ELSE IF o.amount <= job.spend THEN o.amount ELSE job.spend

\* The book after n cookies of order o are taken: add_exchangeOrder with the
\* smaller amount replaces the order, remove_exchangeOrder drops it.
Reduced(o, n) ==
    (orders \ {o}) \cup (IF n < o.amount THEN {[o EXCEPT !.amount = @ - n]} ELSE {})

\* One iteration of the loops of insert_operation and process_only_price: a
\* result for the first order of the range.  (process_only_price reads sender
\* and price of an order through an iterator it has just replaced; the build
\* gives the replacement the freed node, which holds the same two values.)
\* Consumed orders leave the book here, in the code at the end of the loop;
\* the loop itself has passed them either way.  A market purchase that cannot
\* buy one cookie, or that takes only a part, breaks out of its loop.
match(o) ==
    /\ phase = "match" /\ job.spend > 0
    /\ o \in First(job)
    /\ LET n == Taken(o)
           whole == n = o.amount
           market == job.mode = "all_price" /\ job.type = "buy"
       IN  /\ n > 0
           /\ orders' = Reduced(o, n)
           /\ results' = Append(results, [acceptor |-> o.sender, amount |-> n, price |-> o.price])
           /\ job' = [job EXCEPT !.spend =
                        IF ~market THEN @ - n ELSE IF whole THEN @ - n * o.price ELSE 0]
           /\ split' = (split \/ (market /\ ~whole))
    /\ UNCHANGED <<accounts, now, next, phase, failed>>

\* The end of the matching: what is left of a limit order is recorded in the
\* book, what is left of a market order is dropped.
endMatch ==
    /\ phase = "match"
    /\ job.spend = 0 \/ Reach(job) = {} \/ \E o \in First(job) : Taken(o) = 0
    /\ orders' = IF job.mode = "only_price" /\ job.spend > 0
                 THEN orders \cup {[trxid |-> job.trxid, sender |-> job.from, type |-> job.type,
                                    price |-> job.price, amount |-> job.spend, time |-> now]}
                 ELSE orders
    /\ phase' = "pay"
    /\ UNCHANGED <<accounts, now, next, job, results, failed, split>>

-----------------------------------------------------------------------------
\* pendingOrderTransfer for a purchase: the buyer pays the seller, whose
\* cookies are frozen; each side's fee goes to PdSystemAddress.
transferBuy_KeepFee(from, to, n, x) ==
    /\ BRC' = Add(Sub(BRC, from, x), to, x - Fee(x))
    /\ FBalance' = Sub(FBalance, to, n)
    /\ balance' = Add(Add(balance, from, n - Fee(n)), PdSystemAddress, Fee(n))
    /\ UNCHANGED FBRC

transferBuy(from, to, n, x) ==
    /\ BRC' = Add(Add(Sub(BRC, from, x), to, x - Fee(x)), PdSystemAddress, Fee(x))
    /\ FBalance' = Sub(FBalance, to, n)
    /\ balance' = Add(Add(balance, from, n - Fee(n)), PdSystemAddress, Fee(n))
    /\ UNCHANGED FBRC

\* pendingOrderTransfer for a sale: the seller hands over free cookies, the
\* buyer's BRC are frozen.
transferSell(from, to, n, x) ==
    /\ balance' = Add(Add(Sub(balance, from, n), to, n - Fee(n)), PdSystemAddress, Fee(n))
    /\ FBRC' = Sub(FBRC, to, x)
    /\ BRC' = Add(Add(BRC, from, x - Fee(x)), PdSystemAddress, Fee(x))
    /\ UNCHANGED FBalance

\* What a result takes off the amount to freeze: at the order's own price
\* (old_price), not at the price paid.
Unfrozen_Paid(r) == IF job.type = "buy" THEN Cost(r.amount, r.price) ELSE r.amount

Unfrozen(r) == IF job.type = "buy" THEN Cost(r.amount, job.price) ELSE r.amount

\* A sub* that finds too little throws NotEnoughCash, and so does the freeze
\* on a negative total: the transaction fails.
fail ==
    /\ failed' = TRUE /\ phase' = "idle" /\ results' = <<>>
    /\ UNCHANGED <<accounts, orders, now, next, job, split>>

\* One iteration of the loop of State::pendingOrders over the results.
pay ==
    /\ phase = "pay" /\ results # <<>>
    /\ LET r == Head(results)
           x == Cost(r.amount, r.price)
           enough == IF job.type = "buy"
                     THEN x <= BRC[job.from] /\ r.amount <= FBalance[r.acceptor]
                     ELSE r.amount <= balance[job.from] /\ x <= FBRC[r.acceptor]
       IN  IF enough
           THEN /\ IF job.type = "buy" THEN transferBuy(job.from, r.acceptor, r.amount, x)
                                       ELSE transferSell(job.from, r.acceptor, r.amount, x)
                /\ job' = IF job.mode = "only_price"
                          THEN [job EXCEPT !.free = @ - Unfrozen(r)] ELSE job
                /\ results' = Tail(results)
                /\ UNCHANGED <<orders, now, next, phase, failed, split>>
           ELSE fail

\* The end of State::pendingOrders: freeze what the resting order may cost.
freeze(free) ==
    IF job.type = "buy"
    THEN /\ BRC' = Sub(BRC, job.from, free) /\ FBRC' = Add(FBRC, job.from, free)
         /\ UNCHANGED <<balance, FBalance>>
    ELSE /\ balance' = Sub(balance, job.from, free) /\ FBalance' = Add(FBalance, job.from, free)
         /\ UNCHANGED <<BRC, FBRC>>

endPending ==
    /\ phase = "pay" /\ results = <<>>
    /\ LET enough == /\ job.free >= 0
                     /\ job.free <= IF job.type = "buy" THEN BRC[job.from] ELSE balance[job.from]
       IN  IF enough
           THEN /\ freeze(job.free)
                /\ phase' = "idle"
                /\ UNCHANGED <<orders, now, next, job, results, failed, split>>
           ELSE fail

\* cancelPendingOrders after verifyCancelPendingOrders: the owner of an open
\* order gets back what its remaining amount had frozen.
Refund(o) == Cost(o.amount, o.price)

cancelPendingOrders(o) ==
    /\ phase = "idle" /\ ~failed
    /\ o \in orders
    /\ LET x == Refund(o)
           enough == IF o.type = "buy" THEN x <= FBRC[o.sender] ELSE o.amount <= FBalance[o.sender]
       IN  IF enough
           THEN /\ orders' = orders \ {o}
                /\ IF o.type = "buy"
                   THEN /\ FBRC' = Sub(FBRC, o.sender, x) /\ BRC' = Add(BRC, o.sender, x)
                        /\ UNCHANGED <<balance, FBalance>>
                   ELSE /\ FBalance' = Sub(FBalance, o.sender, o.amount)
                        /\ balance' = Add(balance, o.sender, o.amount)
                        /\ UNCHANGED <<BRC, FBRC>>
                /\ UNCHANGED <<now, next, phase, job, results, failed, split>>
           ELSE fail

\* A new block begins: later orders carry a later time stamp.
newBlock ==
    /\ phase = "idle" /\ now < next
    /\ now' = next
    /\ UNCHANGED <<accounts, orders, next, phase, job, results, failed, split>>

Next ==
    \/ \E from \in Trader, type \in {"buy", "sell"}, mode \in {"only_price", "all_price"},
          price \in Prices \cup {0}, num \in Amounts \cup {0} :
             pendingOrders(from, type, mode, price, num)
    \/ \E o \in orders : match(o)
    \/ \E o \in orders : cancelPendingOrders(o)
    \/ endMatch \/ pay \/ endPending \/ newBlock

Spec == Init /\ [][Next]_vars

-----------------------------------------------------------------------------
Order == [trxid : Nat, sender : Trader, type : {"buy", "sell"}, price : Nat \ {0},
          amount : Nat \ {0}, time : Nat]

\* Types.  In particular no account value is ever negative (a u256 would wrap
\* around) and no order of amount zero stays in the book.
TypeOK ==
    /\ {BRC, FBRC, balance, FBalance} \subseteq [Address -> Nat]
    /\ orders \subseteq Order
    /\ now \in Nat /\ next \in Nat
    /\ phase \in {"idle", "match", "pay"}
    /\ job.spend \in Nat /\ job.free \in Int
    /\ \A i \in DOMAIN results :
          results[i] \in [acceptor : Trader, amount : Nat \ {0}, price : Nat \ {0}]
    /\ failed \in BOOLEAN /\ split \in BOOLEAN

Total(f) == SumFunctionOnSet(f, Address)

\* Every match, fee, freeze and refund moves BRC and cookies between accounts
\* (and between free and frozen) without making or losing any: what
\* pendingOrderTransfer rounds off one side it must not pay to the other.
Conserved ==
    /\ Total(BRC) + Total(FBRC) = InitialBRC * Cardinality(Trader)
    /\ Total(balance) + Total(FBalance) = InitialBalance * Cardinality(Trader)

\* The comment "I expect this never happens" in subBalance, subBRC, subFBRC
\* and subFBalance: what verifyPendingOrders checked before the matching, and
\* what was frozen when a resting order was placed, is enough for every later
\* payment, freeze and refund.
NeverShort == ~failed

\* What the open orders of an account may still cost it, and still offer.
OpenCost(a) ==
    SumFunctionOnSet([o \in orders |-> Refund(o)], {o \in Side("buy") : o.sender = a})
OpenCookies(a) ==
    SumFunctionOnSet([o \in orders |-> o.amount], {o \in Side("sell") : o.sender = a})

\* Between transactions, an account's frozen cookies are exactly what its open
\* sell orders still offer, and its frozen BRC cover its open buy orders.
\* Rounding each fill down may leave BRC frozen that no order needs, but only
\* after a market purchase has split an order into an amount that is no
\* multiple of the granularity verifyPendingOrders enforces.
FrozenMatchesBook ==
    phase = "idle" =>
        \A a \in Trader : /\ FBalance[a] = OpenCookies(a)
                          /\ FBRC[a] >= OpenCost(a)
                          /\ ~split => FBRC[a] = OpenCost(a)

\* The book is never crossed: insert_operation leaves no buy order and sell
\* order in it that could have been matched with each other.
NotCrossed ==
    \A b \in Side("buy"), s \in Side("sell") : b.price < s.price

\* A transaction never takes from its sender more than verifyPendingOrders
\* looked for: the cost at the limit price, the BRC offered by a market
\* purchase, the cookies on sale, although the payments are made one result
\* at a time at other orders' prices and each is rounded.
WithinVerified ==
    job # NoJob /\ phase # "idle" =>
        IF job.type = "buy"
        THEN job.hadBRC - BRC[job.from] + (IF job.mode = "only_price" THEN job.free ELSE 0)
                <= (IF job.mode = "only_price" THEN Cost(job.num, job.price) ELSE job.price)
        ELSE job.hadCookies - balance[job.from] + (IF job.mode = "only_price" THEN job.free ELSE 0)
                <= job.num
=============================================================================
