------------------------------ MODULE Cheques ------------------------------
(***************************************************************************)
(* services/cheque_service.py behind routes/cheques.py: the life of a      *)
(* cheque, the journal entries it posts, the receipt or payment it settles *)
(* and the cached balance of its party.                                    *)
(*                                                                         *)
(* Every route loads the cheque without a lock and checks the status it    *)
(* read.  The first statement of the handler is the UPDATE of the cheque:  *)
(* it waits for the row, nothing is read again, and everything up to the   *)
(* commit happens behind that lock.  A request is therefore two steps, a   *)
(* read and a write, and the write uses the values read.                   *)
(*                                                                         *)
(* A cheque's money is kept per cheque: what it has posted to the clearing *)
(* account (1150 or 2130), to its party, to the bank and to exchange       *)
(* differences, and what it has added to the cached balance of the party.  *)
(* Those totals are plain sums, added to under the locks of their rows.    *)
(***************************************************************************)
EXTENDS Integers, FiniteSets

CONSTANTS Cheque,   \* rows of the table cheques
          Request,  \* workers: requests served at the same time
          Limit,    \* bound on the requests of a behaviour
          Part,     \* sale payments a receipt is allocated to
          Amounts,  \* amounts a cheque may be written for
          Gains     \* exchange differences at clearance, 0 for a base-currency cheque

ASSUME ChequeAssumption == /\ Limit \in Nat
                           /\ Amounts \subseteq Nat \ {0}
                           /\ Gains \subseteq Int

\* How a cheque enters the books: with a receipt, on the cheque page for a
\* customer, with a supplier payment, on the cheque page for a supplier, or with
\* an expense.
Incoming == {"receipt", "entered"}
Outgoing == {"supplier", "issued", "expense"}
Kind     == Incoming \union Outgoing
Linked   == {"receipt", "supplier"}  \* a receipt or payment row points at it

Open   == {"pending", "deposited"}
Closed == {"cleared", "bounced", "cancelled"}
Absent == {"none", "purged"}
Status == Open \union Closed \union Absent

Operation == {"deposit", "clear", "bounce", "cancel", "edit", "delete", "restore"}

VARIABLES kind,    \* how each cheque entered the books
          row,     \* committed columns: st (status), amt (amount_aed), active
          book,    \* posted so far: held, party, bank, fx
          cached,  \* added to the cached balance of the party
          doc,     \* the linked receipt or payment: waiting, confirmed, rejected
          part,    \* payment_confirmed of the allocated sale payments
          req,     \* what each worker serves: pc, op, on (the cheque), st and amt as read
          served,  \* requests begun, at most Limit
          raced,   \* history: a write used a status or amount that had changed
          edited,  \* history: the amount was changed after it was posted
          was      \* history: the statuses the cheque has had

vars == <<kind, row, book, cached, doc, part, req, served,
          raced, edited, was>>

NoBook == [held |-> 0, party |-> 0, bank |-> 0, fx |-> 0]
NoRead == [pc |-> "idle", op |-> "none", on |-> "none", st |-> "none",
           amt |-> 0]

Init == /\ kind   = [c \in Cheque |-> "none"]
        /\ row    = [c \in Cheque |-> [st |-> "none", amt |-> 0, active |-> TRUE]]
        /\ book   = [c \in Cheque |-> NoBook]
        /\ cached = [c \in Cheque |-> 0]
        /\ doc    = [c \in Cheque |-> "none"]
        /\ part   = [c \in Cheque |-> [p \in Part |-> FALSE]]
        /\ req    = [r \in Request |-> NoRead]
        /\ served = 0
        /\ raced  = [c \in Cheque |-> FALSE]
        /\ edited = [c \in Cheque |-> FALSE]
        /\ was    = [c \in Cheque |-> {}]

---------------------------------------------------------------------------
\* Entering the books: one transaction, the row is not visible before it commits.

\* process_cheque_receive and process_cheque_issue (or the entry of the payment or
\* the expense): the party is settled against the clearing account.
IssueEntry(a) == [NoBook EXCEPT !.held = a, !.party = a]

Enter(c, k, a) ==
    /\ row[c].st = "none"
    /\ kind'   = [kind EXCEPT ![c] = k]
    /\ row'    = [row EXCEPT ![c] = [st |-> "pending", amt |-> a, active |-> TRUE]]
    /\ book'   = [book EXCEPT ![c] = IssueEntry(a)]
    /\ was'    = [was EXCEPT ![c] = {"pending"}]
    /\ UNCHANGED <<part, req, served, raced, edited>>

\* create_receipt, create_payment: an unconfirmed document, and the cached balance of
\* the party is told at once.
EnterReceipt(c, a) ==
    /\ Enter(c, "receipt", a)
    /\ cached' = [cached EXCEPT ![c] = a]
    /\ doc'    = [doc EXCEPT ![c] = "waiting"]

EnterPayment(c, a) ==
    /\ Enter(c, "supplier", a)
    /\ cached' = [cached EXCEPT ![c] = a]
    /\ doc'    = [doc EXCEPT ![c] = "waiting"]

\* The cheque page: a journal entry and nothing else.
EnterOnPage(c, k, a) == Enter(c, k, a) /\ UNCHANGED <<cached, doc>>

\* An expense paid by cheque: the expense account against 2130.
EnterExpense(c, a) == Enter(c, "expense", a) /\ UNCHANGED <<cached, doc>>

---------------------------------------------------------------------------
\* Requests.

On(r) == req[r].on

\* _get_cheque_or_404: no lock, an archived cheque is found too.
Read(r, op, c) ==
    /\ req[r].pc = "idle"
    /\ served < Limit
    /\ row[c].st \notin Absent
    /\ served' = served + 1
    /\ req' = [req EXCEPT ![r] = [pc |-> "read", op |-> op, on |-> c,
                                  st |-> row[c].st, amt |-> row[c].amt]]
    /\ UNCHANGED <<kind, row, book, cached, doc, part, raced, edited, was>>

Answer(r) == req' = [req EXCEPT ![r] = NoRead] /\ UNCHANGED served

Untouched == UNCHANGED <<kind, row, book, cached, doc, part, raced, edited, was>>

\* Mutant: the guard against bouncing forgets that a cleared cheque is paid.
BouncesCleared(k, s) == s \in {"deposited", "pending", "cleared"}

\* The statuses each handler accepts, on what it read.
MayDeposit(s)   == s = "pending"
MayClear(s)     == s \in {"deposited", "pending"}
MayBounce(k, s) == /\ s \in {"deposited", "pending"}
                   /\ ~(k \in Incoming /\ s = "pending")
MayCancel(s)    == s # "cleared"
MayEdit(s)      == s \in Open

Accepts(r) == LET s == req[r].st IN
              CASE req[r].op = "deposit" -> MayDeposit(s)
                [] req[r].op = "clear"   -> MayClear(s)
                [] req[r].op = "bounce"  -> MayBounce(kind[On(r)], s)
                [] req[r].op = "cancel"  -> MayCancel(s)
                [] req[r].op = "edit"    -> MayEdit(s)
                [] OTHER                 -> TRUE

\* Nothing is written: the status read is not accepted, a cheque read as cancelled is
\* cancelled again, the row was purged meanwhile, or a journal entry is refused
\* (closed period, a party row that stays locked) and all is rolled back.
Posting == {"clear", "bounce", "cancel"}

EndUnwritten(r) == /\ req[r].pc = "read"
                   /\ \/ ~Accepts(r)
                      \/ req[r].op \in Posting
                      \/ row[On(r)].st = "purged"
                   /\ Answer(r)
                   /\ Untouched

\* The write of r reaches the row.
Reaches(r, op) == /\ req[r].pc = "read" /\ req[r].op = op /\ Accepts(r)
                  /\ row[On(r)].st # "purged"

Stale(r) == row[On(r)].st # req[r].st \/ row[On(r)].amt # req[r].amt
Mark(r)  == raced' = [raced EXCEPT ![On(r)] = @ \/ Stale(r)]

SetStatus(r, s) == /\ row' = [row EXCEPT ![On(r)].st = s]
                   /\ was' = [was EXCEPT ![On(r)] = @ \union {s}]

\* process_cheque_deposit.
Deposit(r) == /\ Reaches(r, "deposit")
              /\ SetStatus(r, "deposited")
              /\ Mark(r)
              /\ Answer(r)
              /\ UNCHANGED <<kind, book, cached, doc, part, edited>>

\* _create_clearing_journal_entry: the clearing account gives back the amount of
\* issue, the bank moves by the actual amount, the difference is gain or loss.
ClearEntry(b, a, g) == [b EXCEPT !.held = @ - a, !.bank = @ + a + g, !.fx = @ + g]

\* _create_bounce_journal_entry and _create_cancel_journal_entry: the party owes, or
\* is owed, again.
ReturnEntry(b, a) == [b EXCEPT !.held = @ - a, !.party = @ - a]

\* Mutant: the sales paid from the receipt are not told.
ConfirmReceiptOnly(c) ==
    /\ doc' = [doc EXCEPT ![c] = IF @ = "none" THEN "none" ELSE "confirmed"]
    /\ UNCHANGED part

\* The linked receipt or payment is confirmed, and of the sale payments allocated
\* from a receipt the one the query returns first.
ConfirmFirst(c) ==
    /\ doc' = [doc EXCEPT ![c] = IF @ = "none" THEN "none" ELSE "confirmed"]
    /\ IF kind[c] = "receipt" /\ Part # {}
       THEN \E p \in Part : part' = [part EXCEPT ![c][p] = TRUE]
       ELSE UNCHANGED part

\* reject_payment, reject_receipt: the receipt and every allocated payment.
Reject(c) ==
    /\ doc'  = [doc EXCEPT ![c] = IF @ = "none" THEN "none" ELSE "rejected"]
    /\ part' = [part EXCEPT ![c] = [p \in Part |-> FALSE]]

\* process_cheque_clear.
Clear(r, g) == /\ Reaches(r, "clear")
               /\ SetStatus(r, "cleared")
               /\ book' = [book EXCEPT ![On(r)] = ClearEntry(@, req[r].amt, g)]
               /\ ConfirmFirst(On(r))
               /\ Mark(r)
               /\ Answer(r)
               /\ UNCHANGED <<kind, cached, edited>>

\* Mutant: the cached balance of the party is not told of a returned cheque.
NothingBack(k, a) == 0

\* A bounce restores the cached balance of the customer, or of the supplier.
BouncedBack(k, a) == IF k = "expense" THEN 0 ELSE a

\* process_cheque_bounce; its fee looks for a posted bounce entry of the cheque and
\* finds the one just posted, so it adds nothing.
Bounce(r) == /\ Reaches(r, "bounce")
             /\ SetStatus(r, "bounced")
             /\ book'   = [book EXCEPT ![On(r)] = ReturnEntry(@, req[r].amt)]
             /\ cached' = [cached EXCEPT ![On(r)] =
                             @ - BouncedBack(kind[On(r)], req[r].amt)]
             /\ Reject(On(r))
             /\ Mark(r)
             /\ Answer(r)
             /\ UNCHANGED <<kind, edited>>

\* Mutant: every cancellation posts its entry.
CancelPosts(b, s, a) == ReturnEntry(b, a)

\* A bounced cheque is already reversed in the journal.
CancelEntry(b, s, a) == IF s = "bounced" THEN b ELSE ReturnEntry(b, a)

\* The supplier's paid total is restored whatever the status was, a customer's
\* balance never.
CancelledBack(k, a) == IF k \in {"supplier", "issued"} THEN a ELSE 0

\* process_cheque_cancel; a cheque read as cancelled is left as it is.
Cancel(r) == /\ Reaches(r, "cancel") /\ req[r].st # "cancelled"
             /\ SetStatus(r, "cancelled")
             /\ book'   = [book EXCEPT ![On(r)] = CancelEntry(@, req[r].st, req[r].amt)]
             /\ cached' = [cached EXCEPT ![On(r)] =
                             @ - CancelledBack(kind[On(r)], req[r].amt)]
             /\ Reject(On(r))
             /\ Mark(r)
             /\ Answer(r)
             /\ UNCHANGED <<kind, edited>>

\* routes/cheques.py edit: the columns that changed are written, nothing is posted.
Edit(r, a) == /\ Reaches(r, "edit")
              /\ row'    = [row EXCEPT ![On(r)].amt = IF a = req[r].amt THEN @ ELSE a]
              /\ edited' = [edited EXCEPT ![On(r)] = @ \/ a # req[r].amt]
              /\ Mark(r)
              /\ Answer(r)
              /\ UNCHANGED <<kind, book, cached, doc, part, was>>

\* A cheque that left "pending", or that names its source document, is archived.
\* The receipt or payment points at the cheque, not the cheque at it; the journal is
\* searched for the old spellings of the reference types, which no entry carries.
HasLinks(k, s) == s # "pending" \/ k = "expense"

\* routes/cheques.py delete.
Delete(r) == /\ Reaches(r, "delete")
             /\ IF HasLinks(kind[On(r)], req[r].st)
                THEN /\ row' = [row EXCEPT ![On(r)].active = FALSE]
                     /\ UNCHANGED was
                ELSE SetStatus(r, "purged")
             /\ Mark(r)
             /\ Answer(r)
             /\ UNCHANGED <<kind, book, cached, doc, part, edited>>

\* routes/cheques.py restore.
Restore(r) == /\ Reaches(r, "restore")
              /\ row' = [row EXCEPT ![On(r)].active = TRUE]
              /\ Answer(r)
              /\ UNCHANGED <<kind, book, cached, doc, part, raced, edited, was>>

---------------------------------------------------------------------------
Write(r) == \/ Deposit(r) \/ Bounce(r) \/ Cancel(r) \/ Delete(r) \/ Restore(r)
            \/ \E g \in Gains : Clear(r, g)
            \/ \E a \in Amounts : Edit(r, a)

Serve(r) == Write(r) \/ EndUnwritten(r)

\* A cheque need never be written, a user need never ask.
Done == (\A r \in Request : req[r].pc # "read") /\ UNCHANGED vars

Next == \/ \E c \in Cheque, a \in Amounts :
              \/ EnterReceipt(c, a) \/ EnterPayment(c, a) \/ EnterExpense(c, a)
              \/ \E k \in {"entered", "issued"} : EnterOnPage(c, k, a)
        \/ \E r \in Request, op \in Operation, c \in Cheque : Read(r, op, c)
        \/ \E r \in Request : Serve(r)
        \/ Done

Spec == Init /\ [][Next]_vars

---------------------------------------------------------------------------
\* The checks of every handler were made on the status it wrote over, and the
\* amount posted is still the amount of the cheque.
Undisturbed(c) == ~raced[c] /\ ~edited[c] /\ row[c].st # "none"

\* The clearing account holds a cheque until it is cleared or returned, and then nothing
\* of it; the party stays settled, and the bank has moved by the actual amount, exactly when
\* the cheque was paid: no handler, in any order, posts twice or not at all.
JournalFollowsCheque ==
    \A c \in Cheque : Undisturbed(c) /\ row[c].st # "purged" =>
        LET paid == row[c].st = "cleared" IN
        /\ book[c].held = IF row[c].st \in Open THEN row[c].amt ELSE 0
        /\ row[c].st \in Closed =>
              /\ book[c].party = IF paid THEN row[c].amt ELSE 0
              /\ book[c].bank  = IF paid THEN row[c].amt + book[c].fx ELSE 0

\* The receipt or payment is confirmed exactly while its cheque is cleared, rejected
\* when it came back, and so are the sales paid from it: one of them (the query takes the first), never more.
ConfirmedOnClearance ==
    \A c \in Cheque : ~raced[c] /\ row[c].st \notin Absent =>
        /\ doc[c] = "confirmed" <=> kind[c] \in Linked /\ row[c].st = "cleared"
        /\ doc[c] = "rejected" <=> kind[c] \in Linked /\ row[c].st \in {"bounced", "cancelled"}
        /\ Cardinality({p \in Part : part[c][p]}) =
             IF kind[c] = "receipt" /\ row[c].st = "cleared" /\ Part # {} THEN 1 ELSE 0

\* The cached balance of a party that was settled by a receipt or a payment agrees
\* with the journal, save for the two cases the code forgets: a cancelled receipt,
\* and a cancellation after a bounce.
CacheFollowsJournal ==
    \A c \in Cheque :
        Undisturbed(c) /\ kind[c] \in Linked /\ row[c].st # "purged" =>
            \/ cached[c] = book[c].party
            \/ row[c].st = "cancelled" /\ (kind[c] = "receipt" \/ "bounced" \in was[c])

\* A cheque leaves "cleared" and "cancelled" only by a request that had read it before
\* (tests: cleared and cancelled are terminal).
FinalStays ==
    [][\A c \in Cheque : row[c].st \in {"cleared", "cancelled"} =>
           row'[c].st = row[c].st \/ raced'[c]]_vars
=============================================================================
