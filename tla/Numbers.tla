------------------------------ MODULE Numbers ------------------------------
(***************************************************************************)
(* Document and journal numbers of one tenant: models/document_sequence.py,*)
(* services/document_sequence_service.py and next_entry_number of          *)
(* services/gl_helpers.py, inside the transactions that ask for them.      *)
(*                                                                         *)
(* A document number comes from a counter row, locked until the commit.    *)
(* A journal number is the largest one in the table plus one; the lock     *)
(* taken on the row that carries it makes the second of two requests wait, *)
(* but then gives it the same row.  One transaction asks for several       *)
(* numbers, so requests can also wait for each other in a circle.          *)
(***************************************************************************)
EXTENDS Integers, Sequences, FiniteSets, FiniteSetsExt

CONSTANTS Worker,   \* requests served at the same time
          Plans,    \* what a request numbers, in order
          Limit,    \* bound on the requests of a behaviour
          MaxYear,  \* bound on the clock
          Largest   \* largest number that fits the padding: 9999 in the code

\* Sequence codes; an "entry" takes the next number of the journal.
Code   == {"sale", "payment"}
Nobody == "nobody"

\* A transaction takes at most one number from a sequence.
Once(p) == \A i, j \in DOMAIN p : p[i] = p[j] /\ p[i] \in Code => i = j

ASSUME NumbersAssumption == /\ Limit \in Nat
                            /\ MaxYear \in Nat \ {0}
                            /\ Largest \in Nat \ {0}
                            /\ Nobody \notin Worker
                            /\ Plans \subseteq Seq(Code \union {"entry"})
                            /\ \A p \in Plans : Once(p)

Year   == 1 .. MaxYear

\* A sale fulfilled and paid at once; a payment to a supplier; a journal entry.
SaleWithPayment == <<"sale", "entry", "payment", "entry">>
PaymentOut      == <<"payment", "entry">>
PlainEntry      == <<"entry">>

VARIABLES year,    \* the clock
          row,     \* committed rows of document_sequences
          lockOf,  \* who has locked (or inserted, uncommitted) each row
          docs,    \* numbers of the committed documents
          entries, \* numbers of the committed journal entries
          req,     \* what each worker serves
          served   \* requests begun, at most Limit

vars == <<year, row, lockOf, docs, entries, req, served>>

NoRow  == [there |-> FALSE, counter |-> 0, upd |-> 0, late |-> FALSE]
NoWork == [pc |-> "idle", plan |-> << >>, at |-> 1, date |-> 0, own |-> [c \in Code |-> NoRow],
           read |-> NoRow, docs |-> {}, entries |-> {}, held |-> {}, num |-> <<0, 0>>,
           seen |-> {}]

Init == /\ year    = 1
        /\ row     = [c \in Code |-> NoRow]
        /\ lockOf  = [c \in Code |-> Nobody]
        /\ docs    = [c \in Code |-> {}]
        /\ entries = {}
        /\ req     = [w \in Worker |-> NoWork]
        /\ served  = 0

---------------------------------------------------------------------------
\* The number a row gives on a date.

\* Mutant: the counter starts from one on every call.
AlwaysReset(r, y) == [r EXCEPT !.counter = 1, !.late = @ \/ y < r.upd]

\* get_next_number: the counter is reset when the date is not in the period in which the
\* row was last written, also when it is in an earlier one.
Period(r, y) == [r EXCEPT !.counter = IF r.upd # y THEN 1 ELSE @, !.late = @ \/ y < r.upd]

\* The row get_or_create inserts.
Fresh == [there |-> TRUE, counter |-> 1, upd |-> year, late |-> FALSE]

\* What the flush writes: the next counter and, by the clock of that moment, updated_at; but
\* a counter sent back to one and counted to the two it was loaded with is no change, and
\* without one the row is not written at all.
Stepped(r, y) == LET n == Period(r, y).counter + 1 IN
                 IF n = r.counter THEN r ELSE [Period(r, y) EXCEPT !.counter = n, !.upd = year]

---------------------------------------------------------------------------
Asks(w, pc) == req[w].pc = pc /\ req[w].at <= Len(req[w].plan)
Wanted(w)   == req[w].plan[req[w].at]

Own(w, r) == req' = [req EXCEPT ![w] = r]

Begin(w, p) == /\ req[w].pc = "idle" /\ served < Limit
               /\ served' = served + 1
               /\ Own(w, [NoWork EXCEPT !.pc = "next", !.plan = p])
               /\ UNCHANGED <<year, row, lockOf, docs, entries>>

Moved(w) == [req[w] EXCEPT !.pc = "next", !.at = @ + 1]

\* get_or_create: a plain read of the row, its own uncommitted one included.
Find(w) ==
    LET c == Wanted(w)
        r == IF req[w].own[c].there THEN req[w].own[c] ELSE row[c] IN
    /\ Asks(w, "next") /\ c \in Code
    /\ Own(w, [req[w] EXCEPT !.pc = IF r.there THEN "found" ELSE "create", !.read = r])
    /\ UNCHANGED <<year, row, lockOf, docs, entries, served>>

\* The insert waits for another uncommitted one; if that commits, the savepoint is rolled
\* back and the row is read again.
Create(w) ==
    LET c == Wanted(w) IN
    /\ req[w].pc = "create" /\ lockOf[c] = Nobody
    /\ IF row[c].there
         THEN /\ Own(w, [req[w] EXCEPT !.pc = "found", !.read = row[c]])
              /\ UNCHANGED lockOf
         ELSE /\ Own(w, [req[w] EXCEPT !.pc = "found", !.own[c] = Fresh, !.read = Fresh])
              /\ lockOf' = [lockOf EXCEPT ![c] = w]
    /\ UNCHANGED <<year, row, docs, entries, served>>

\* next_number takes the date before it waits for the row.
TakeDate(w) == /\ req[w].pc = "found"
               /\ Own(w, [req[w] EXCEPT !.pc = "dated", !.date = year])
               /\ UNCHANGED <<year, row, lockOf, docs, entries, served>>

\* Mutant: without populate_existing the copy read before the wait is used.
StaleRow(w, c) == req[w].read

\* The row as it is once the lock is obtained.
LockedRow(w, c) == IF lockOf[c] = w THEN req[w].own[c] ELSE row[c]

\* The row is locked, numbered and written; the document is inserted with the number.
Number(w) ==
    LET c   == Wanted(w)
        r   == LockedRow(w, c)
        num == <<req[w].date, Period(r, req[w].date).counter>> IN
    /\ req[w].pc = "dated" /\ lockOf[c] \in {Nobody, w}
    /\ lockOf' = [lockOf EXCEPT ![c] = w]
    /\ IF num \in docs[c]
         THEN Own(w, [req[w] EXCEPT !.pc = "collided", !.num = num])
         ELSE Own(w, [Moved(w) EXCEPT !.own[c] = Stepped(r, req[w].date),
                                      !.docs = @ \union {<<c, num>>}])
    /\ UNCHANGED <<year, row, docs, entries, served>>

---------------------------------------------------------------------------
\* The journal.

Others(w) == Worker \ {w}

\* Mutant: entries that other transactions have not committed yet are seen.
EverySeen(w) == entries \union UNION {req[u].entries : u \in Worker}

Visible(w) == entries \union req[w].entries

\* The largest number of a year in the order of the strings: a number beyond the padding
\* sorts before the largest padded one.
Latest(s, y) == LET padded == {n \in 1 .. Largest : <<y, n>> \in s} IN
                IF padded = {} THEN 0 ELSE Max(padded)

\* next_entry_number: the query picks the row; without a row there is nothing to lock.
LookEntry(w) ==
    /\ Asks(w, "next") /\ Wanted(w) = "entry"
    /\ Own(w, [req[w] EXCEPT !.num  = <<year, Latest(Visible(w), year) + 1>>,
                             !.pc   = IF Latest(Visible(w), year) = 0 THEN "numbered" ELSE "row",
                             !.seen = entries])
    /\ UNCHANGED <<year, row, lockOf, docs, entries, served>>

Picked(w) == <<req[w].num[1], req[w].num[2] - 1>>

\* The lock on the row picked; the holder did not change the row, so it is not picked anew.
LockEntry(w) ==
    /\ req[w].pc = "row"
    /\ \A u \in Others(w) : Picked(w) \notin req[u].held
    /\ Own(w, [req[w] EXCEPT !.pc = "numbered", !.held = @ \union {Picked(w)}])
    /\ UNCHANGED <<year, row, lockOf, docs, entries, served>>

\* The unique index makes the insert wait for another uncommitted one.
InsertEntry(w) ==
    /\ req[w].pc = "numbered"
    /\ \A u \in Others(w) : req[w].num \notin req[u].entries
    /\ IF req[w].num \in Visible(w)
         THEN Own(w, [req[w] EXCEPT !.pc = "collided"])
         ELSE Own(w, [Moved(w) EXCEPT !.entries = @ \union {req[w].num}])
    /\ UNCHANGED <<year, row, lockOf, docs, entries, served>>

---------------------------------------------------------------------------
\* Commit and rollback.

Released(w) == lockOf' = [c \in Code |-> IF lockOf[c] = w THEN Nobody ELSE lockOf[c]]

Commit(w) ==
    /\ req[w].pc = "next" /\ req[w].at > Len(req[w].plan)
    /\ row' = [c \in Code |-> IF req[w].own[c].there THEN req[w].own[c] ELSE row[c]]
    /\ docs' = [c \in Code |-> docs[c] \union {p[2] : p \in {q \in req[w].docs : q[1] = c}}]
    /\ entries' = entries \union req[w].entries
    /\ Released(w)
    /\ Own(w, NoWork)
    /\ UNCHANGED <<year, served>>

Rollback(w) == /\ Released(w)
               /\ Own(w, NoWork)
               /\ UNCHANGED <<year, row, docs, entries, served>>

\* A unique violation; generate_number_and_save would retry in an aborted transaction.
Fail(w) == req[w].pc = "collided" /\ Rollback(w)

\* Any other exception of the request.
GiveUp(w) == req[w].pc \notin {"idle", "collided"} /\ Rollback(w)

\* Whom a request waits for.
WaitsFor(w) ==
    CASE req[w].pc \in {"create", "dated"} -> {lockOf[Wanted(w)]} \ {Nobody, w}
      [] req[w].pc = "row"      -> {u \in Others(w) : Picked(w) \in req[u].held}
      [] req[w].pc = "numbered" -> {u \in Others(w) : req[w].num \in req[u].entries}
      [] OTHER                  -> {}

\* Mutant: the database lets them wait.
NoVictim(w) == FALSE

\* Two requests that wait for each other; the database ends one of them.
InCircle(w) == \E u \in WaitsFor(w) : w \in WaitsFor(u)

Victim(w) == InCircle(w) /\ Rollback(w)

\* archive_record deletes a document, and its number with it.
Archive(c, num) == /\ num \in docs[c]
                   /\ docs' = [docs EXCEPT ![c] = @ \ {num}]
                   /\ UNCHANGED <<year, row, lockOf, entries, req, served>>

Tick == /\ year < MaxYear
        /\ year' = year + 1
        /\ UNCHANGED <<row, lockOf, docs, entries, req, served>>

Proceed(w) == \/ Find(w) \/ Create(w) \/ TakeDate(w) \/ Number(w)
              \/ LookEntry(w) \/ LockEntry(w) \/ InsertEntry(w)
              \/ Commit(w) \/ Fail(w) \/ Victim(w)

\* Nobody need ask for anything.
Done == (\A w \in Worker : req[w].pc = "idle") /\ UNCHANGED vars

Next == \/ \E w \in Worker : (\E p \in Plans : Begin(w, p)) \/ Proceed(w) \/ GiveUp(w)
        \/ \E c \in Code : \E num \in docs[c] : Archive(c, num)
        \/ Tick
        \/ Done

\* A request served goes on, and the database ends a circle of waits.
Fairness == \A w \in Worker : WF_vars(Proceed(w))

Spec     == Init /\ [][Next]_vars
FairSpec == Spec /\ Fairness

---------------------------------------------------------------------------
\* A row that has given one number since it was last written in another year: it gives the
\* first number of the year y, and stays as it is.
Stuck(r, y) == r.counter = 2 /\ r.upd < y

\* The number the next request of this year would get is free, so that one lost race does
\* not refuse every later document; unless a request dated in an earlier year than the
\* row had been numbered, which sends the counter back to two, or the row is stuck.
NextIsFree ==
    \A c \in Code : row[c].there /\ ~row[c].late /\ ~Stuck(row[c], year) =>
        <<year, Period(row[c], year).counter>> \notin docs[c]

\* A request is refused a number for one of four reasons: the row it found was written in a
\* later year than its date, or was once numbered for such a date; the row is stuck; it
\* chose a journal number while another request was about to commit the same one; the
\* journal is past its padding.
CollisionsExplained ==
    \A w \in Worker : req[w].pc = "collided" =>
        LET num == req[w].num
            r   == row[Wanted(w)] IN
        IF Wanted(w) = "entry"
          THEN num[2] > Largest \/ num \notin req[w].seen
          ELSE num[1] < r.upd \/ r.late \/ Stuck(r, num[1])

\* The journal numbers of a year have no gap, whichever requests failed or were ended.
NoGaps == \A num \in entries : num[2] = 1 \/ <<num[1], num[2] - 1>> \in entries

\* Every request is answered, though requests wait for each other in circles.
EveryRequestAnswered == \A w \in Worker : req[w].pc # "idle" ~> req[w].pc = "idle"
=============================================================================
