------------------------------ MODULE Checkout ------------------------------
(***************************************************************************)
(* A sale from the counter's side: the basket of PosPage, the draft it     *)
(* keeps in the browser, the amounts it shows, the tap that submits it,    *)
(* and the sale SalesService.create prices again from the catalogue, which *)
(* may have changed since the lines were added.  An answer may be lost,    *)
(* and the page may be left while one is on its way.  Money is in cents on  *)
(* both sides: that the page adds it up in floating point (PosPage.tsx:263- *)
(* 274) and the server in Decimal is left out.                             *)
(***************************************************************************)
EXTENDS Integers, FiniteSets, Sums

CONSTANTS NItems,          \* what is sold: products by the piece, retail or wholesale
          Services,        \* and the options of services, priced per page
          Prices,          \* the prices an administrator may set
          ListPrice,       \* the price every item starts at
          Wholesale,       \* the wholesale price of every product
          MaxUnits,        \* bound: pieces, or pages of all the jobs, on a line
          Changeable,      \* bound: the items whose price changes meanwhile
          Discounts,       \* the discounts a cashier may type
          Tendered,        \* the amounts of cash a cashier may type
          Rooms,           \* what the customer's credit limit may leave to be owed
          NoLimit,         \* the customer has no limit
          Attempts,        \* bound: the submissions that may be made
          EditsInFlight,   \* bound: lines and payment are edited while one is on its way
          NoLine, NoDraft, Nobody, Nothing

Items == 1..NItems
Products == Items \ Services

ASSUME CheckoutAssumption ==
    /\ NItems \in Nat /\ Services \subseteq Items /\ Changeable \subseteq Items /\ MaxUnits \in Nat
    /\ Prices \subseteq Nat \ {0} /\ ListPrice \in Prices /\ Wholesale \in Nat \ {0}
    /\ Discounts \subseteq Nat /\ 0 \in Discounts
    /\ Tendered \subseteq Nat /\ 0 \in Tendered
    /\ Rooms \ {NoLimit} \subseteq Int /\ EditsInFlight \in BOOLEAN
    /\ Nobody \notin Attempts

VARIABLES catalogue,  \* the retail price of every item, as the server has it
          cart,       \* the line of every item in the basket
          entered,    \* what the payment step holds besides
          step,       \* the drawer shows the basket or its payment
          asking,     \* the cashier is asked to confirm an unusual sale
          draft,      \* the basket in the browser's storage
          waiting,    \* the submission whose answer the page awaits
          sent,       \* what each submission asks for, until it is dealt with
          booked,     \* the submissions that became a sale
          unedited,   \* the submissions of the basket as it still stands
          unheard     \* those of them whose answer never reached the page

basket == <<cart, entered, step, draft, unedited>>
pageVars == <<basket, asking, waiting, unheard>>
checkoutVars == <<catalogue, pageVars, sent, booked>>

Lines == {l \in [quantity : 1..MaxUnits, pages : 1..MaxUnits, sellUnit : {"BASE", "BULK"},
                 retailPrice : Prices, discount : Discounts] : l.quantity * l.pages <= MaxUnits}

Payments == [payment : {"CASH", "CREDIT"}, received : Tendered, orderDiscount : Discounts]

NoPayment == [payment |-> "CASH", received |-> 0, orderDiscount |-> 0]
EmptyCart == [i \in Items |-> NoLine]

In(c) == {i \in Items : c[i] # NoLine}

CheckoutInit ==
    /\ catalogue = [i \in Items |-> ListPrice]
    /\ cart = EmptyCart
    /\ entered = NoPayment
    /\ step = "cart"
    /\ asking = FALSE
    /\ draft = NoDraft
    /\ waiting = Nobody
    /\ sent = [a \in Attempts |-> Nothing]
    /\ booked = {}
    /\ unedited = {}
    /\ unheard = {}

-----------------------------------------------------------------------------
\* The amounts the page shows, from the prices the lines were added at.
unitPrice(l) == IF l.sellUnit = "BULK" THEN Wholesale ELSE l.retailPrice
\* Mutant: a job is priced once whatever its pages.
LineGrossPerJob(l) == unitPrice(l) * l.quantity
lineGross(l) == unitPrice(l) * l.pages * l.quantity
lineTotal(l) == AtLeastZero(lineGross(l) - l.discount)

\* A column of the basket, and what its rows come to.
LineColumn(c, amount) == [i \in Items |-> IF c[i] = NoLine THEN 0 ELSE amount[i]]
Gross(c) == LineColumn(c, [i \in In(c) |-> lineGross(c[i])])
LineTotals(c) == LineColumn(c, [i \in In(c) |-> lineTotal(c[i])])
LineDiscounts(c) == LineColumn(c, [i \in In(c) |-> c[i].discount])

gross(c) == Total(Gross(c), NItems)
subtotal(c) == Total(LineTotals(c), NItems)
total(c, e) == AtLeastZero(subtotal(c) - e.orderDiscount)
creditBalance(c, e) == AtLeastZero(total(c, e) - e.received)

\* The amounts the server books, from the prices it has now (computeLines).
ServerGross(i, l) ==
    (IF l.sellUnit = "BULK" THEN Wholesale ELSE catalogue[i]) * l.pages * l.quantity
ServerLines(c) == LineColumn(c, [i \in In(c) |-> ServerGross(i, c[i])])
ServerSubtotal(c) == Total(ServerLines(c), NItems)
ServerDiscount(c, e) == Total(LineDiscounts(c), NItems) + e.orderDiscount
ServerTotal(c, e) == ServerSubtotal(c) - ServerDiscount(c, e)

\* What the page would have the cashier agree to before it submits.
Unusual(c, e) ==
    \/ total(c, e) = 0 /\ gross(c) > 0
    \/ 2 * (gross(c) - total(c, e)) >= gross(c) /\ gross(c) > 0
    \/ e.payment = "CREDIT" /\ total(c, e) > 0 /\ e.received >= total(c, e)

-----------------------------------------------------------------------------
\* What the draft keeps of the payment: not the cash tendered.
Kept(e) == [e EXCEPT !.received = 0]

\* The page renders a new basket: the draft follows it, and an empty basket goes
\* back to the first step.
Render(c, e, s) ==
    /\ cart' = c
    /\ entered' = e
    /\ step' = IF In(c) = {} THEN "cart" ELSE s
    /\ draft' = IF In(c) = {} THEN NoDraft
                ELSE [cart |-> c, entered |-> Kept(e)]

\* The cashier changes the basket or what goes with it.
Edit(c, e, s) ==
    /\ Render(c, e, s)
    /\ IF c = cart /\ Kept(e) = Kept(entered) THEN UNCHANGED <<unedited, unheard>>
                                             ELSE unedited' = {} /\ unheard' = {}
    /\ UNCHANGED <<catalogue, asking, waiting, sent, booked>>

\* A dialog covers the page: only its own buttons can be reached.
Reachable == ~asking

\* A product or service is tapped: a new line at today's price, or one more.
AddItem(i) ==
    /\ Reachable
    /\ IF cart[i] = NoLine
         THEN Edit([cart EXCEPT ![i] = [quantity |-> 1, pages |-> 1, sellUnit |-> "BASE",
                                        retailPrice |-> catalogue[i], discount |-> 0]],
                   entered, step)
         ELSE /\ (cart[i].quantity + 1) * cart[i].pages <= MaxUnits
              /\ Edit([cart EXCEPT ![i].quantity = @ + 1], entered, step)

\* A small instance may leave out editing while a submission is on its way, when
\* items can still be tapped and the basket cleared; PosPage does not.
Calm == EditsInFlight \/ \A a \in Attempts : sent[a] = Nothing

\* A line is edited in the drawer's first step.
UpdateLine(i, l) ==
    /\ Reachable /\ Calm
    /\ step = "cart"
    /\ cart[i] # NoLine
    /\ l.retailPrice = cart[i].retailPrice
    /\ i \in Products => l.pages = 1
    /\ i \in Services => l.sellUnit = "BASE"
    /\ Edit([cart EXCEPT ![i] = l], entered, step)

RemoveLine(i) ==
    /\ Reachable /\ Calm
    /\ step = "cart"
    /\ cart[i] # NoLine
    /\ Edit([cart EXCEPT ![i] = NoLine], entered, step)

\* The basket is emptied by hand, from the drawer or with Ctrl+X.
Clear ==
    /\ In(cart) # {}
    /\ Edit(EmptyCart, NoPayment, "cart")

\* The payment is entered, in the drawer's second step.
Enter(e) ==
    /\ Reachable /\ Calm
    /\ step = "pay"
    /\ Edit(cart, e, step)

\* The cashier goes to the payment or back to the basket.
GoTo(s) ==
    /\ Reachable
    /\ In(cart) # {}
    /\ step # s
    /\ step' = s
    /\ UNCHANGED <<catalogue, cart, entered, asking, draft, waiting, sent, booked,
                   unedited, unheard>>

-----------------------------------------------------------------------------
\* Mutant: a down payment of any size is let through.
AcceptableDownPayment ==
    /\ In(cart) # {}
    /\ entered.payment = "CASH" => entered.received >= total(cart, entered)

\* What complete() refuses before anything is sent.
Acceptable ==
    /\ In(cart) # {}
    /\ entered.payment = "CASH" => entered.received >= total(cart, entered)
    /\ entered.payment = "CREDIT" => entered.received <= total(cart, entered)

\* Mutant: the button stays live while a submission is on its way.
SubmitAgain(a) ==
    /\ sent[a] = Nothing /\ a \notin booked
    /\ sent' = [sent EXCEPT ![a] = [cart |-> cart, entered |-> entered]]
    /\ waiting' = a
    /\ unedited' = unedited \union {a}
    /\ UNCHANGED <<catalogue, cart, entered, step, draft, booked, unheard>>

\* The basket is submitted, under an idempotency key made for this submission.
SubmitSale(a) ==
    /\ waiting = Nobody
    /\ sent[a] = Nothing /\ a \notin booked
    /\ sent' = [sent EXCEPT ![a] = [cart |-> cart, entered |-> entered]]
    /\ waiting' = a
    /\ unedited' = unedited \union {a}
    /\ UNCHANGED <<catalogue, cart, entered, step, draft, booked, unheard>>

\* Complete is tapped: an ordinary sale is submitted at once.
Complete(a) ==
    /\ Reachable
    /\ step = "pay"
    /\ Acceptable
    /\ ~Unusual(cart, entered)
    /\ SubmitSale(a)
    /\ UNCHANGED asking

\* Complete is tapped: an unusual one is named first.
Ask ==
    /\ Reachable
    /\ waiting = Nobody
    /\ step = "pay"
    /\ Acceptable
    /\ Unusual(cart, entered)
    /\ asking' = TRUE
    /\ UNCHANGED <<catalogue, basket, waiting, sent, booked, unheard>>

\* The cashier agrees to it, again and again while it fails, or closes the dialog,
\* which a submission on its way does not prevent.
Confirm(a) == asking /\ SubmitSale(a) /\ UNCHANGED asking

Withdraw ==
    /\ asking
    /\ asking' = FALSE
    /\ UNCHANGED <<catalogue, basket, waiting, sent, booked, unheard>>

-----------------------------------------------------------------------------
\* The new debt is within what the customer's limit leaves, if there is a limit and
\* a debt.
WithinLimit(due, room) == room # NoLimit /\ due > 0 => due <= room

\* Every rule of SalesService.create that looks at prices and money, for a customer
\* whose limit leaves so much room (the account itself is in Receivables).
Chargeable(c, e, room) ==
    /\ In(c) # {}
    /\ \A i \in In(c) : c[i].discount <= ServerGross(i, c[i])
    /\ ServerTotal(c, e) >= 0
    /\ IF e.payment = "CASH" THEN e.received >= ServerTotal(c, e)
       ELSE /\ e.received <= ServerTotal(c, e)
            /\ WithinLimit(ServerTotal(c, e) - e.received, room)

\* The amounts of the sale that is then created.
Sale(c, e) ==
    LET due == IF e.payment = "CASH" THEN 0 ELSE ServerTotal(c, e) - e.received
    IN  [total |-> ServerTotal(c, e), due |-> due,
         change |-> e.received - (ServerTotal(c, e) - due)]

\* The server books the sale at the prices it has; other sales, repayments and the
\* owner may have left the customer any room.
Book(a) ==
    /\ sent[a] # Nothing
    /\ \E room \in Rooms : Chargeable(sent[a].cart, sent[a].entered, room)
    /\ booked' = booked \union {a}
    /\ sent' = [sent EXCEPT ![a] = Nothing]
    /\ UNCHANGED <<catalogue, pageVars>>

\* The server refuses it, for its prices or for anything else.
Refuse(a) ==
    /\ sent[a] # Nothing
    /\ sent' = [sent EXCEPT ![a] = Nothing]
    /\ UNCHANGED <<catalogue, booked, pageVars>>

\* The answer arrives: the receipt is shown and the basket emptied.
Receipt(a) ==
    /\ waiting = a
    /\ a \in booked
    /\ Render(EmptyCart, NoPayment, "cart")
    /\ asking' = FALSE
    /\ waiting' = Nobody
    /\ unedited' = {}
    /\ unheard' = {}
    /\ UNCHANGED <<catalogue, sent, booked>>

\* The server's refusal arrives: the basket stays.
Failed(a) ==
    /\ waiting = a
    /\ sent[a] = Nothing /\ a \notin booked
    /\ waiting' = Nobody
    /\ UNCHANGED <<catalogue, basket, asking, sent, booked, unheard>>

\* The connection is lost, with the request or with its answer: for the page it is
\* an error like any other.
Lost(a) ==
    /\ waiting = a
    /\ waiting' = Nobody
    /\ unheard' = unheard \union ({a} \intersect unedited)
    /\ UNCHANGED <<catalogue, basket, asking, sent, booked>>

\* The cashier leaves the page, or reloads it, and comes back to its draft; a
\* submission on its way finds no page to tell.
Return ==
    /\ cart' = IF draft = NoDraft THEN EmptyCart ELSE draft.cart
    /\ entered' = IF draft = NoDraft THEN NoPayment ELSE draft.entered
    /\ step' = "cart"
    /\ asking' = FALSE
    /\ waiting' = Nobody
    /\ unheard' = unheard \union ({waiting} \intersect unedited)
    /\ UNCHANGED <<catalogue, draft, sent, booked, unedited>>

\* Somebody changes a price in the catalogue.
SetPrice(i, p) ==
    /\ catalogue[i] # p
    /\ catalogue' = [catalogue EXCEPT ![i] = p]
    /\ UNCHANGED <<sent, booked, pageVars>>

-----------------------------------------------------------------------------
CheckoutNext ==
    \/ \E i \in Items : AddItem(i) \/ RemoveLine(i)
    \/ \E i \in Items, l \in Lines : UpdateLine(i, l)
    \/ \E i \in Changeable, p \in Prices : SetPrice(i, p)
    \/ \E e \in Payments : Enter(e)
    \/ \E s \in {"cart", "pay"} : GoTo(s)
    \/ Clear \/ Ask \/ Withdraw \/ Return
    \/ \E a \in Attempts :
           Complete(a) \/ Confirm(a) \/ Book(a) \/ Refuse(a) \/ Receipt(a) \/ Failed(a) \/ Lost(a)

CheckoutSpec == CheckoutInit /\ [][CheckoutNext]_checkoutVars

-----------------------------------------------------------------------------
\* The basket, the payment, the draft and the submissions are well formed; a draft
\* is kept exactly of the basket on the page, without the cash tendered.
CheckoutTypeOK ==
    /\ catalogue \in [Items -> Prices]
    /\ cart \in [Items -> Lines \union {NoLine}]
    /\ entered \in Payments
    /\ step \in {"cart", "pay"} /\ asking \in BOOLEAN
    /\ draft = IF In(cart) = {} THEN NoDraft ELSE [cart |-> cart, entered |-> Kept(entered)]
    /\ waiting \in Attempts \union {Nobody}
    /\ \A a \in Attempts : sent[a] # Nothing =>
           sent[a].cart \in [Items -> Lines \union {NoLine}] /\ sent[a].entered \in Payments
    /\ unheard \subseteq unedited /\ unedited \subseteq Attempts

\* The lines of a basket were added at the prices the catalogue still has.
Current(c) == \A i \in In(c) : c[i].retailPrice = catalogue[i]

\* While no price has changed under a basket, the sale booked is the one the page
\* showed: its total, what is left on credit and the change to hand back.  The two
\* sides work the amounts out apart, the page clamping at zero line by line where
\* the server refuses (PosPage.tsx, SalesService.create).
ChargedAsShown ==
    \A a \in Attempts :
        sent[a] # Nothing =>
            LET c == sent[a].cart
                e == sent[a].entered
                owed == IF e.payment = "CREDIT" THEN creditBalance(c, e) ELSE 0
            IN  Current(c) /\ (\E room \in Rooms : Chargeable(c, e, room)) =>
                    Sale(c, e) = [total |-> total(c, e), due |-> owed,
                        change |-> IF e.payment = "CASH" THEN e.received - total(c, e) ELSE 0]

\* No discount is larger than what it comes off: the page shows such a line, or such
\* a sale, as costing nothing and sends it.
DiscountsCovered(c, e) ==
    /\ \A i \in In(c) : c[i].discount <= lineGross(c[i])
    /\ e.orderDiscount <= subtotal(c)

\* While no price has changed, the server's rules on prices and money accept a basket
\* exactly when the page lets it through, its discounts are covered and what the
\* page shows as owing is within the customer's limit.  So these two are all the page
\* overlooks (it asks neither, PosPage.tsx:399-418), and it stops no sale the server
\* would take.
AcceptedAlike ==
    Current(cart) =>
        \A room \in Rooms :
            Chargeable(cart, entered, room) <=>
                /\ Acceptable
                /\ DiscountsCovered(cart, entered)
                /\ entered.payment = "CREDIT" =>
                       WithinLimit(creditBalance(cart, entered), room)

\* However often Complete is tapped, and the dialog confirmed, a basket is booked
\* once more only when the answer to an earlier submission was lost.
BookedOnceWhenHeard ==
    \A a \in unedited \intersect booked : a = waiting \/ a \in unheard

-----------------------------------------------------------------------------
\* What the repository says and the code does not keep.

\* A basket becomes one sale: "each sale sends an Idempotency-Key to prevent
\* duplicates" (frontend/README.md).  submitSale makes a new key at every tap, so
\* the retry after a lost answer is a new sale to the server.
OncePerBasket == Cardinality(unedited \intersect booked) <= 1
=============================================================================
