------------------------------ MODULE Journal ------------------------------
(***************************************************************************)
(* The general ledger of one tenant: services/gl_posting.py and            *)
(* gl_service.py, models/gl.py, services/advanced_journal_manager.py, and  *)
(* the documents that post to it: sales, returns, purchases, expenses and  *)
(* platform subscription fees.                                             *)
(*                                                                         *)
(* An entry is reversed by a second, opposite entry that carries the same  *)
(* document reference and is itself not marked reversed, so it is found    *)
(* again by the next search for the entries of the document.               *)
(*                                                                         *)
(* A request reads (the document or entry, the month it posts into) and    *)
(* later writes, in one transaction, on what it read; the month is looked  *)
(* up before the entry is inserted and may be closed in between.  Two      *)
(* months are enough: 1 is the fiscal year that can be closed, 2 is now.   *)
(* The fiscal year is the calendar year (fiscal_year_start is 1).          *)
(***************************************************************************)
EXTENDS Integers, Sequences, FiniteSets, Functions

CONSTANTS Doc,       \* documents
          Worker,    \* requests served at the same time
          Amounts,   \* amounts a document or manual entry may have
          Limit,     \* bound on the requests of a behaviour
          MaxEntry,  \* bound on the entries of the journal
          MaxClose   \* bound on how often months are closed

ASSUME JournalAssumption == /\ Limit \in Nat /\ MaxEntry \in Nat /\ MaxClose \in Nat
                            /\ Amounts \subseteq Nat \ {0}
                            /\ {"manual", "closing"} \cap Doc = {}

Kind    == {"sale", "return", "purchase", "expense", "fee"}
Account == {"revenue", "expense", "balance"}  \* "balance": every balance-sheet account
Year    == 1
Now     == 2
Month   == {Year, Now}

VARIABLES doc,      \* documents: kind, st, amt, on (month of their date), cancels, marks
          journal,  \* the entries, in order of insertion
          closed,   \* months closed in gl_periods
          closings, \* how often each month was closed
          req,      \* what each worker serves, with the values it read
          served    \* requests begun, at most Limit

vars == <<doc, journal, closed, closings, req, served>>

NoDoc  == [kind |-> "none", st |-> "none", amt |-> 0, on |-> Now, cancels |-> 0,
           paid |-> FALSE, edited |-> FALSE, clerk |-> FALSE, raced |-> FALSE]
NoRead == [pc |-> "idle", op |-> "none", d |-> "none", i |-> 0, kind |-> "none", m |-> Now,
           st |-> "none", seen |-> {}, marks |-> {}, pl |-> [x \in Account |-> 0], gen |-> 0,
           a |-> 0]

Init == /\ doc      = [d \in Doc |-> NoDoc]
        /\ journal  = << >>
        /\ closed   = {}
        /\ closings = [m \in Month |-> 0]
        /\ req      = [w \in Worker |-> NoRead]
        /\ served   = 0

---------------------------------------------------------------------------
\* The journal.

\* The account a document moves against the balance sheet.
AccountOf(k) == CASE k \in {"sale", "return"} -> "revenue"
                  [] k \in {"expense", "fee"} -> "expense"
                  [] OTHER -> "balance"

\* A return takes its amount off the sales account.
Signed(k, a) == IF k = "return" THEN -a ELSE a

Moves(x, a)  == [y \in Account |-> IF y = x THEN a ELSE 0]
Negated(mv)  == [x \in Account |-> -mv[x]]

\* create_journal_entry, with the status the caller leaves it in.
Entry(d, type, mv, m, st, late) ==
    [d |-> d, type |-> type, mv |-> mv, m |-> m, st |-> st, rev |-> FALSE, of |-> 0,
     shut |-> m \in closed, late |-> late, raced |-> FALSE]

Entries == DOMAIN journal

\* GLService.reverse_entry: every entry of the reference that is not marked
\* reversed, whatever its type.
LiveOf(d)   == {i \in Entries : journal[i].d = d /\ ~journal[i].rev}
MarkedOf(d) == {i \in Entries : journal[i].d = d /\ journal[i].rev}

\* GLJournalEntry.reverse_entry: a posted entry with the sides exchanged, dated now,
\* under the same reference; no period is checked.
Mirror(e, i) == [Entry(e.d, "reversing", Negated(e.mv), Now, "posted", FALSE) EXCEPT !.of = i]

\* The mark of a reversal; setting it again is a race if the request has read the entry
\* without it.
Marked(e, known) == [e EXCEPT !.rev = TRUE, !.raced = @ \/ (e.rev /\ ~known)]

\* The place of an entry among those to be reversed, the latest first.
Rank(picks, i)   == Cardinality({k \in picks : k > i}) + 1
Ranked(picks, r) == CHOOSE i \in picks : Rank(picks, i) = r

\* Reverse the entries in picks: mark them and append the mirrors.  The request has read
\* the marks of those in known.
Reversed(j, picks, known) ==
    LET n     == Len(j)
        at(i) == Ranked(picks, i - n)
    IN  [i \in 1 .. n + Cardinality(picks) |->
            IF i > n THEN Mirror(j[at(i)], at(i))
            ELSE IF i \in picks THEN Marked(j[i], i \in known)
            ELSE j[i]]

Moved(j, x) == [i \in DOMAIN j |-> j[i].mv[x]]

Balance(j, x, ms) ==
    SumFunctionOnSet(Moved(j, x), {i \in DOMAIN j : j[i].st = "posted" /\ j[i].m \in ms})

\* Mutant: the month is not looked up.
AnyMonth(m) == TRUE

\* assert_period_open: a plain read; a later closing does not stop the posting.
PeriodOpen(m) == m \notin closed

---------------------------------------------------------------------------
\* Requests.

Begin(w, r) == /\ req[w].pc = "idle" /\ served < Limit
               /\ served' = served + 1
               /\ req' = [req EXCEPT ![w] = r]
               /\ UNCHANGED <<doc, journal, closed, closings>>

Asked(op) == [NoRead EXCEPT !.pc = "read", !.op = op]

\* A new document is posted with the transaction that creates it: post_or_fail checks
\* the month of its date first.  A subscription fee is always dated now.
BeginPost(w, d, k, a, m) ==
    /\ doc[d].st = "none" /\ PeriodOpen(m)
    /\ k = "fee" => m = Now
    /\ Begin(w, [Asked("post") EXCEPT !.d = d, !.kind = k, !.m = m, !.a = a, !.gen = closings[m]])

\* A document is loaded without a lock; an expense's month is checked at once.
BeginOn(w, op, d, a) ==
    /\ doc[d].st # "none"
    /\ op = "cancel" => doc[d].kind # "return"
    /\ op = "edit" => doc[d].kind = "expense"
    /\ op = "pay"  => doc[d].kind = "fee"
    /\ doc[d].kind = "expense" => PeriodOpen(doc[d].on)
    /\ Begin(w, [Asked(op) EXCEPT !.d = d, !.kind = doc[d].kind, !.st = doc[d].st, !.a = a,
                                  !.seen = LiveOf(d), !.marks = MarkedOf(d)])

\* routes/ledger.py, admin_ledger.py, advanced_ledger.py: one entry, by its id.
BeginEntry(w, op, i) ==
    Begin(w, [Asked(op) EXCEPT !.i = i, !.st = journal[i].st,
                               !.marks = IF journal[i].rev THEN {i} ELSE {}])

\* create_manual_entry looks the month up and reads nothing else.
BeginManual(w, x, a) ==
    /\ PeriodOpen(Now)
    /\ Begin(w, [Asked("manual") EXCEPT !.pl = Moves(x, a), !.gen = closings[Now]])

\* validate_periods_closed and calculate_pl_balance.
BeginYear(w) ==
    /\ Year \in closed
    /\ Begin(w, [Asked("year") EXCEPT !.m = Year,
                                     !.pl = [x \in Account |-> Balance(journal, x, {Year})]])

Answer(w) == req' = [req EXCEPT ![w] = NoRead] /\ UNCHANGED <<served, closed, closings>>

\* Any exception: a lock or an entry number not obtained (two postings of a tenant can
\* choose the same number), a guard that fails, a closed month.
GiveUp(w) == /\ req[w].pc \in {"read", "checked"}
             /\ Answer(w)
             /\ UNCHANGED <<doc, journal>>

Serves(w, op) == req[w].pc = "read" /\ req[w].op = op
Posts(w, op)  == req[w].pc = "checked" /\ req[w].op = op
Room(j)       == Len(j) <= MaxEntry

\* post_or_fail or create_journal_entry looks up the month, which is now, inside a request
\* that has read its document or entry.
CheckMonth(w) == /\ \E op \in {"edit", "pay", "advanced"} : Serves(w, op)
                 /\ PeriodOpen(Now)
                 /\ req' = [req EXCEPT ![w].pc = "checked", ![w].gen = closings[Now]]
                 /\ UNCHANGED <<doc, journal, closed, closings, served>>

\* The month was closed since.
Late(w) == closings[req[w].m] # req[w].gen

---------------------------------------------------------------------------
\* Documents.

\* The document and its entry commit together.
Post(w) ==
    LET r == req[w] IN
    /\ Serves(w, "post") /\ doc[r.d].st = "none"
    /\ journal' = Append(journal, Entry(r.d, "auto", Moves(AccountOf(r.kind), Signed(r.kind, r.a)),
                                        r.m, "posted", Late(w)))
    /\ Room(journal')
    /\ doc' = [doc EXCEPT ![r.d] = [NoDoc EXCEPT !.kind = r.kind, !.st = "live",
                                                 !.amt = r.a, !.on = r.m]]
    /\ Answer(w)

\* cancel_sale and cancel_purchase refuse a cancelled document, waive_fee returns, the
\* cancellation of an expense looks at nothing.
MayCancel(k, s) == k # "expense" => s # "cancelled"

\* Mutant: a paid fee is reversed as well.
ReversesPaid(k, s) == TRUE

\* A fee that was paid keeps its entries.
Reverses(k, s) == k = "fee" => s = "live"

\* Sales and purchases update a row other cancellations wait for before they search
\* the journal; the others search it at some moment after they read the document.
Picked(w) == {LiveOf(req[w].d)} \union
             IF req[w].kind \in {"sale", "purchase"} THEN {} ELSE {req[w].seen}

Cancel(w) ==
    LET r == req[w]
        k == r.kind IN
    /\ Serves(w, "cancel") /\ MayCancel(k, r.st)
    /\ \E picks \in Picked(w) :
          journal' = IF Reverses(k, r.st) THEN Reversed(journal, picks, r.marks) ELSE journal
    /\ Room(journal')
    /\ doc' = [doc EXCEPT ![r.d].st = IF k = "expense" THEN @ ELSE "cancelled",
                          ![r.d].cancels = @ + 1,
                          ![r.d].raced = @ \/ doc[r.d].st # r.st
                                           \/ r.seen # LiveOf(r.d)]
    /\ Answer(w)

\* routes/expenses.py edit: the entries are reversed, the new amount is posted now.
EditExpense(w) ==
    LET r == req[w] IN
    /\ Posts(w, "edit")
    /\ \E picks \in Picked(w) :
          journal' = Append(Reversed(journal, picks, r.marks),
                            Entry(r.d, "auto", Moves("expense", r.a), Now, "posted", Late(w)))
    /\ Room(journal')
    /\ doc' = [doc EXCEPT ![r.d].amt = r.a, ![r.d].edited = TRUE,
                          ![r.d].raced = @ \/ r.seen # LiveOf(r.d)]
    /\ Answer(w)

\* AzadSubscriptionFeeService.record_payment: a second entry under the same reference.
PayFee(w) ==
    LET r == req[w] IN
    /\ Posts(w, "pay") /\ r.st = "live"
    /\ journal' = Append(journal, Entry(r.d, "auto", Moves("balance", doc[r.d].amt), Now,
                                        "posted", Late(w)))
    /\ Room(journal')
    /\ doc' = [doc EXCEPT ![r.d].st = "paid", ![r.d].paid = TRUE,
                          ![r.d].raced = @ \/ doc[r.d].st # r.st]
    /\ Answer(w)

---------------------------------------------------------------------------
\* Single entries.

MarkClerk(i) == IF journal[i].d \in Doc
                THEN doc' = [doc EXCEPT ![journal[i].d].clerk = TRUE]
                ELSE UNCHANGED doc

\* Mutant: an entry is reversed again.
ReversesAgain(w, i) == TRUE

\* The guard of both reversals of an entry: it has no mark when the request reads it.
MayReverse(w, i) == i \notin req[w].marks

\* The two "reverse" pages of the ledger; the status is not looked at.
ReverseEntry(w) ==
    LET i == req[w].i IN
    /\ Serves(w, "reverse") /\ MayReverse(w, i)
    /\ journal' = Reversed(journal, {i}, req[w].marks)
    /\ Room(journal')
    /\ MarkClerk(i)
    /\ Answer(w)

\* reverse_entry_advanced: a posted entry, mirrored by an entry without reference, which is
\* validated and posted in the same transaction.
ReverseAdvanced(w) ==
    LET i == req[w].i IN
    /\ Posts(w, "advanced") /\ MayReverse(w, i) /\ req[w].st = "posted"
    /\ journal' = Append([journal EXCEPT ![i] = Marked(@, i \in req[w].marks)],
                         [Mirror(journal[i], i) EXCEPT !.d = "manual", !.late = Late(w)])
    /\ Room(journal')
    /\ MarkClerk(i)
    /\ Answer(w)

\* create_manual_entry: a draft.
CreateManual(w) ==
    /\ Serves(w, "manual")
    /\ journal' = Append(journal, Entry("manual", "manual", req[w].pl, Now, "draft", Late(w)))
    /\ Room(journal')
    /\ Answer(w)
    /\ UNCHANGED doc

SetStatus(w, s) ==
    LET i == req[w].i IN
    /\ journal' = [journal EXCEPT ![i].st = s, ![i].raced = @ \/ journal[i].st # req[w].st]
    /\ Answer(w)
    /\ UNCHANGED doc

\* approve_entry is validate_entry; no route posts a validated entry.
Approve(w) == /\ Serves(w, "approve") /\ req[w].st \in {"draft", "error"}
              /\ SetStatus(w, "validated")

\* Mutant: a posted entry may be deleted.
DeleteAny(s) == s # "cancelled"

MayDelete(s) == s \in {"draft", "validated", "error"}

\* delete_entry: cancelled, the row stays.
DeleteEntry(w) == /\ Serves(w, "delete") /\ MayDelete(req[w].st) /\ journal[req[w].i].of = 0
                  /\ SetStatus(w, "cancelled")

---------------------------------------------------------------------------
\* Months and years.

\* routes/ledger.py gl_periods: one row, in one statement.
ClosePeriod(m) == /\ closings[m] < MaxClose
                  /\ closed' = closed \union {m}
                  /\ closings' = [closings EXCEPT ![m] = @ + 1]
                  /\ UNCHANGED <<doc, journal, req, served>>

OpenPeriod(m) == /\ m \in closed
                 /\ closed' = closed \ {m}
                 /\ UNCHANGED <<doc, journal, closings, req, served>>

Abs(n) == IF n < 0 THEN -n ELSE n

\* Mutant: revenue is closed, expenses are not.
CloseRevenueOnly(pl) == [x \in Account |-> IF x = "revenue" THEN -Abs(pl[x])
                                           ELSE IF x = "balance" THEN Abs(pl["revenue"]) ELSE 0]

\* Every revenue account is debited, every expense account credited, by the absolute
\* value of its balance; the difference goes to retained earnings.
ClosingMoves(pl) ==
    [x \in Account |-> IF x = "balance" THEN Abs(pl["revenue"]) - Abs(pl["expense"])
                       ELSE -Abs(pl[x])]

\* close_fiscal_year: posted into the closed year.
CloseYear(w) ==
    LET pl == req[w].pl IN
    /\ Serves(w, "year")
    /\ pl["revenue"] # 0 \/ pl["expense"] # 0
    /\ journal' = Append(journal, [Entry("closing", "closing", ClosingMoves(pl), Year, "posted",
                                         FALSE) EXCEPT
                             !.raced = \E x \in {"revenue", "expense"} :
                                           Balance(journal, x, {Year}) # pl[x]])
    /\ Room(journal')
    /\ closed' = closed \union {Year}
    /\ closings' = IF Year \in closed THEN closings ELSE [closings EXCEPT ![Year] = @ + 1]
    /\ req' = [req EXCEPT ![w] = NoRead]
    /\ UNCHANGED <<doc, served>>

---------------------------------------------------------------------------
Ask(w) == \/ \E d \in Doc, k \in Kind, a \in Amounts, m \in Month : BeginPost(w, d, k, a, m)
          \/ \E d \in Doc : BeginOn(w, "cancel", d, 0) \/ BeginOn(w, "pay", d, 0)
          \/ \E d \in Doc, a \in Amounts : BeginOn(w, "edit", d, a)
          \/ \E i \in Entries, op \in {"reverse", "advanced", "approve", "delete"} :
                BeginEntry(w, op, i)
          \/ \E x \in {"revenue", "expense"}, a \in Amounts : BeginManual(w, x, a)
          \/ BeginYear(w)

Write(w) == \/ Post(w) \/ Cancel(w) \/ EditExpense(w) \/ PayFee(w)
            \/ ReverseEntry(w) \/ ReverseAdvanced(w) \/ Approve(w) \/ DeleteEntry(w)
            \/ CreateManual(w) \/ CloseYear(w)

Serve(w) == CheckMonth(w) \/ Write(w) \/ GiveUp(w)

\* Nobody need ask for anything.
Done == (\A w \in Worker : req[w].pc = "idle") /\ UNCHANGED vars

Next == \/ \E w \in Worker : Ask(w) \/ Serve(w)
        \/ \E m \in Month : ClosePeriod(m) \/ OpenPeriod(m)
        \/ Done

Spec == Init /\ [][Next]_vars

---------------------------------------------------------------------------
\* An entry marked reversed has exactly one mirror, with the sides exchanged, and an
\* entry that is not marked has none: no reversal, from whichever page, is half done,
\* done to the wrong entry, or done twice, unless both requests read the entry before
\* either marked it.
MirrorsMatch ==
    \A i \in Entries :
        LET mirrors == {j \in Entries : journal[j].of = i} IN
        ~journal[i].raced =>
            /\ Cardinality(mirrors) = IF journal[i].rev THEN 1 ELSE 0
            /\ \A j \in mirrors : journal[j].mv = Negated(journal[i].mv)

\* What the entries of a document add up to on an account.
Net(d, x) == SumFunctionOnSet(Moved(journal, x), {i \in Entries : journal[i].d = d})

Gone(d) == CASE doc[d].kind = "expense" -> doc[d].cancels % 2 = 1
             [] doc[d].kind = "fee"     -> doc[d].st = "cancelled" /\ ~doc[d].paid
             [] OTHER                   -> doc[d].st = "cancelled"

Untroubled(d) == doc[d].st # "none" /\ ~doc[d].raced /\ ~doc[d].clerk

\* The entries of a document add up to its amount while it stands and to nothing once
\* it is cancelled, whatever was asked of it, in any order: a second cancellation of an
\* expense, which nothing refuses, brings its amount back.
DocumentNet ==
    \A d \in Doc : Untroubled(d) /\ ~doc[d].edited =>
        /\ Net(d, AccountOf(doc[d].kind)) = IF Gone(d) THEN 0
                                            ELSE Signed(doc[d].kind, doc[d].amt)
        /\ doc[d].kind = "fee" => Net(d, "balance") = IF doc[d].paid THEN doc[d].amt ELSE 0

\* An entry reaches a closed month only as a reversal, as the closing entry, or because
\* the month was closed between the check and the commit.
ClosedMonthKept ==
    \A i \in Entries :
        journal[i].shut => journal[i].type \in {"reversing", "closing"} \/ journal[i].late

\* After a closing entry the revenue and the expenses of the year are zero, unless an
\* entry slipped in between the computation and this or an earlier closing; an account
\* that stood on its other side (more returns than sales in the year) is doubled.
YearEndZero ==
    \A i \in Entries :
        LET closes == {j \in 1 .. i : journal[j].type = "closing"} IN
        i \in closes /\ (\A j \in closes : ~journal[j].raced) =>
            \A x \in {"revenue", "expense"} :
                LET before == Balance(SubSeq(journal, 1, i - 1), x, {Year}) IN
                Balance(SubSeq(journal, 1, i), x, {Year}) = IF before < 0 THEN 2 * before ELSE 0

\* A posted entry stays as it was posted; only the mark of its reversal is set, once.
PostedStays ==
    [][\A i \in Entries : journal[i].st = "posted" =>
          /\ i \in DOMAIN journal'
          /\ [journal'[i] EXCEPT !.rev = FALSE, !.raced = FALSE] =
                 [journal[i] EXCEPT !.rev = FALSE, !.raced = FALSE]
          /\ journal[i].rev => journal'[i].rev]_vars

---------------------------------------------------------------------------
\* routes/expenses.py: cancelling an expense reverses its journal entry.
CancelledExpenseGone ==
    \A d \in Doc : Untroubled(d) /\ doc[d].kind = "expense" /\ doc[d].cancels = 1
                      => Net(d, "expense") = 0
=============================================================================
