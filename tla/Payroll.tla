------------------------------- MODULE Payroll -------------------------------
(***************************************************************************)
(* Salaries and salary advances (services/payroll_service.py), run for one *)
(* employee or a branch from routes/payroll.py or by the assistant's       *)
(* ai_knowledge/actions/payroll_processing.py.                             *)
(*                                                                         *)
(* A run is one transaction.  It takes the employees one after another,    *)
(* reading what is committed, and its writes appear together at the end.   *)
(* An advance is written as values computed from the row read, with no     *)
(* lock; that a month is paid once is left to a unique index, which makes  *)
(* the later of two runs fail.                                             *)
(*                                                                         *)
(* The slip and the advances are written before the entry is posted.  On   *)
(* the page an error takes them back; the assistant catches a ValueError,  *)
(* goes on to the next employee and commits what was written.              *)
(*                                                                         *)
(* The provisions posted with every salary follow it in the same           *)
(* transaction and add nothing here.                                       *)
(***************************************************************************)
EXTENDS Integers, FiniteSets, Functions

CONSTANTS Employee, Month, Advance,
          Runner,   \* workers that run a payroll
          Salaried, \* employees paid by the month; the others by the day
          Salary,   \* of each employee, for a month or for a day
          Loans,    \* amounts of an advance
          Terms,    \* days worked, allowances and deductions of one salary
          MaxRuns   \* bound on the runs of a behaviour

ASSUME PayrollAssumption == /\ Salary \in [Employee -> Nat] /\ MaxRuns \in Nat
                            /\ Loans \subseteq Nat \ {0}
                            /\ Terms \subseteq [days : Nat, plus : Nat, minus : Nat]
                            /\ IsFiniteSet(Month) /\ IsFiniteSet(Advance)
                            /\ Salaried \subseteq Employee
                            /\ "nobody" \notin Employee

VARIABLES adv,         \* the advances
          slip,        \* the rows of payroll_transactions: what each took off advances, and
                       \* history, the kind of the run that wrote it
          entries,     \* payroll entries of the journal
          receivable,  \* per employee, the balance of EMPLOYEE_ADVANCES
          run,         \* what each worker runs
          runs,        \* begun, at most MaxRuns
          overlapped   \* history: employees one of whose advances was written over

payroll == <<adv, slip, entries, receivable, run, runs, overlapped>>

NoSlip == [there |-> FALSE, off |-> 0, by |-> "none"]
NoRun  == [pc |-> "idle", kind |-> "none", m |-> 0, todo |-> {}, done |-> {}]
Plain  == [days |-> 0, plus |-> 0, minus |-> 0]

PayrollInit == /\ adv = [a \in Advance |->
                            [of |-> "nobody", total |-> 0, gone |-> 0, open |-> FALSE]]
               /\ slip = [e \in Employee |-> [m \in Month |-> NoSlip]]
               /\ entries = [e \in Employee |-> [m \in Month |-> 0]]
               /\ receivable = [e \in Employee |-> 0]
               /\ run = [w \in Runner |-> NoRun] /\ runs = 0
               /\ overlapped = {}

---------------------------------------------------------------------------
Left(a)    == adv[a].total - adv[a].gone
Pending(e) == {a \in Advance : adv[a].of = e /\ adv[a].open}
Due(e)     == SumFunctionOnSet([a \in Advance |-> Left(a)], Pending(e))

\* Before the advances are taken off.
Gross(e, t) == (IF e \in Salaried THEN Salary[e] ELSE Salary[e] * t.days) + t.plus - t.minus

\* What is taken off: all that is due, or as much as the salary bears.
Withheld(e, gross) == IF Due(e) <= gross THEN Due(e) ELSE gross

\* The advances are worked off in no particular order: one after another is taken whole,
\* the last perhaps in part.
Splits(e, off) ==
    {f \in [Pending(e) -> 0 .. off] :
        /\ SumFunctionOnSet(f, Pending(e)) = off
        /\ \A a \in Pending(e) : f[a] <= Left(a)
        /\ Cardinality({a \in Pending(e) : f[a] > 0 /\ f[a] < Left(a)}) <= 1}

\* Refused before anything is written: the net is negative and there is nothing to deduct
\* from.
Refused(e, gross) == gross - Due(e) < 0 /\ gross <= 0

\* The entry can be posted: a line of nothing is refused, so all that is due was taken off
\* and something is left to be paid.
Postable(e, gross) == gross > Due(e)

---------------------------------------------------------------------------
\* create_advance
CreateAdvance(a, e, x) ==
    /\ adv[a].of = "nobody"
    /\ adv' = [adv EXCEPT ![a] = [of |-> e, total |-> x, gone |-> 0, open |-> TRUE]]
    /\ receivable' = [receivable EXCEPT ![e] = @ + x]
    /\ UNCHANGED <<slip, entries, run, runs, overlapped>>

Run(w, kind, m, todo) ==
    /\ run[w].pc = "idle" /\ runs < MaxRuns
    /\ runs' = runs + 1
    /\ run' = [run EXCEPT ![w] = [NoRun EXCEPT !.pc = "run", !.kind = kind, !.m = m,
                                               !.todo = todo]]
    /\ UNCHANGED <<adv, slip, entries, receivable, overlapped>>

\* One employee's salary; a branch from the page; a branch from the assistant.
BeginOne(w, e, m)       == Run(w, "one", m, {e})
BeginBranch(w, m, kind) == Run(w, kind, m, Employee)

\* The page runs a branch without allowances and deductions; the clerk gives those of one
\* salary, the assistant those of each.
TermsOf(kind) == IF kind = "branch" THEN {Plain} ELSE Terms

\* The assistant reports an employee whose salary raised a ValueError, with no savepoint
\* to go back to; on the page the run fails.
GoesOn(kind) == kind = "assistant"

Stop(w) == /\ run' = [run EXCEPT ![w] = NoRun]
           /\ UNCHANGED <<adv, slip, entries, receivable, runs, overlapped>>

\* An error, a salary that cannot be posted, or the unique index refuses a slip: nothing of
\* the run stays.
Fails(w) == run[w].pc = "run" /\ Stop(w)

AtHand(w, e) == run[w].pc = "run" /\ e \in run[w].todo

\* Mutant: the page leaves out whoever has nothing left to be paid.
LeavesOutBroke(kind, e, t) ==
    kind # "one" /\ (e \notin Salaried \/ ~Postable(e, Gross(e, t)))

\* Nobody's days are known to a run of a branch, unless the assistant was told; and the
\* assistant goes on after a refusal.
LeftOut(kind, e, t) == \/ kind # "one" /\ e \notin Salaried
                       \/ GoesOn(kind) /\ Refused(e, Gross(e, t))

\* A run of a branch skips the next employee: paid for the month already, or left out.
Skip(w, e) ==
    /\ AtHand(w, e)
    /\ \/ run[w].kind # "one" /\ slip[e][run[w].m].there
       \/ \E t \in TermsOf(run[w].kind) : LeftOut(run[w].kind, e, t)
    /\ run' = [run EXCEPT ![w].todo = @ \ {e}]
    /\ UNCHANGED <<adv, slip, entries, receivable, runs, overlapped>>

\* process_payroll reads the pending advances, sees no slip of the month, flushes one and
\* the advances, and posts the entry; the assistant leaves it unposted when the month is
\* closed or the branch has no cash account.
Process(w, e, t, posted) ==
    LET gross == Gross(e, t) IN
    /\ AtHand(w, e)
    /\ run[w].kind = "branch" => e \in Salaried
    /\ ~slip[e][run[w].m].there /\ ~Refused(e, gross)
    /\ IF posted THEN Postable(e, gross) ELSE GoesOn(run[w].kind)
    /\ \E f \in Splits(e, Withheld(e, gross)) :
          run' = [run EXCEPT
              ![w].todo = @ \ {e},
              ![w].done = @ \cup {[e |-> e, off |-> Withheld(e, gross), f |-> f,
                                   was |-> [a \in Pending(e) |-> adv[a].gone],
                                   posted |-> posted]}]
    /\ UNCHANGED <<adv, slip, entries, receivable, runs, overlapped>>

\* Mutant: the index does not hold a second slip of the month up.
NoIndex(e, m) == TRUE

\* uq_payroll_tenant_employee_period
Free(e, m) == ~slip[e][m].there

\* Mutant: an advance taken in part is closed.
ClosedInPart(total, gone) == gone > 0

\* is_deducted
WorkedOff(total, gone) == gone >= total

\* The commit.  An advance nothing was taken from is not written, nor is is_deducted unless
\* it becomes true.
Commit(w) ==
    LET m    == run[w].m
        done == run[w].done
        Drawn(d) == {a \in DOMAIN d.f : d.f[a] > 0}
        Of(e) == CHOOSE d \in done : d.e = e
        paid  == {d.e : d \in done}
        Books(e) == e \in paid /\ Of(e).posted
    IN  /\ run[w].pc = "run" /\ run[w].todo = {} /\ \A e \in paid : Free(e, m)
        /\ slip' = [e \in Employee |->
              IF e \in paid
                THEN [slip[e] EXCEPT ![m] = [there |-> TRUE, off |-> Of(e).off, by |-> run[w].kind]]
                ELSE slip[e]]
        /\ entries' = [e \in Employee |->
              IF Books(e) THEN [entries[e] EXCEPT ![m] = @ + 1] ELSE entries[e]]
        /\ receivable' = [e \in Employee |->
              receivable[e] - (IF Books(e) THEN Of(e).off ELSE 0)]
        /\ adv' = [a \in Advance |->
              IF adv[a].of \in paid /\ a \in Drawn(Of(adv[a].of))
                THEN LET d == Of(adv[a].of)
                         gone == d.was[a] + d.f[a]
                     IN  [adv[a] EXCEPT !.gone = gone, !.open = @ /\ ~WorkedOff(adv[a].total, gone)]
                ELSE adv[a]]
        /\ overlapped' = overlapped \cup
              {e \in paid : \E a \in Drawn(Of(e)) : adv[a].gone # Of(e).was[a]}
        /\ run' = [run EXCEPT ![w] = NoRun] /\ UNCHANGED runs

---------------------------------------------------------------------------
\* Nobody runs a payroll.
NobodyRuns == (\A w \in Runner : run[w].pc = "idle") /\ UNCHANGED payroll

PayrollNext == \/ \E a \in Advance, e \in Employee, x \in Loans : CreateAdvance(a, e, x)
               \/ \E w \in Runner :
                     \/ \E m \in Month :
                           \/ \E e \in Employee : BeginOne(w, e, m)
                           \/ \E kind \in {"branch", "assistant"} : BeginBranch(w, m, kind)
                     \/ \E e \in Employee :
                           \/ Skip(w, e)
                           \/ \E t \in TermsOf(run[w].kind), posted \in BOOLEAN :
                                 Process(w, e, t, posted)
                     \/ Commit(w) \/ Fails(w)
               \/ NobodyRuns

PayrollSpec == PayrollInit /\ [][PayrollNext]_payroll

---------------------------------------------------------------------------
\* What the slips of an employee took off, and what of it no entry tells the ledger.
Deducted(e) == [m \in Month |-> slip[e][m].off]
Untold(e) == {m \in Month : entries[e][m] = 0}

\* Unless two runs worked on an employee's advances at once, everything taken off the
\* salaries is recorded on an advance, no advance is closed with money left on it, and the
\* ledger's claim on the employee is what the open advances have left and what slips
\* without an entry took off (each run of process_payroll writes deducted_amount from the
\* row it read, before it posts).
AdvancesCollected ==
    \A e \in Employee \ overlapped :
        LET mine == {a \in Advance : adv[a].of = e}
        IN  /\ receivable[e] = Due(e) + SumFunctionOnSet(Deducted(e), Untold(e))
            /\ SumFunctionOnSet(Deducted(e), Month) =
                  SumFunctionOnSet([a \in Advance |-> adv[a].gone], mine)
            /\ \A a \in mine : Left(a) >= 0

\* The journal pays an employee at most once for a month, however many runs overlap, never
\* without a slip, and for every slip but those the assistant left without an entry (the
\* check of process_payroll is unlocked, the index is not).
PaidOncePerMonth ==
    \A e \in Employee, m \in Month :
        /\ entries[e][m] \in {0, 1}
        /\ entries[e][m] = 1 => slip[e][m].there
        /\ slip[e][m].there /\ entries[e][m] = 0 => slip[e][m].by = "assistant"

\* A run of a branch from the page that succeeds leaves nobody on a monthly salary unpaid
\* for the month: one who cannot be paid stops it for all (generate_branch_payroll).
BranchIsWhole ==
    [][\A w \in Runner : Commit(w) /\ run[w].kind = "branch"
                            => \A e \in Salaried : slip'[e][run[w].m].there]_payroll

---------------------------------------------------------------------------
\* payroll_service.py: whatever fails rolls the salary back, so that an employee is never
\* paid while the ledger does not say so.
NeverPaidUnposted ==
    \A e \in Employee, m \in Month : slip[e][m].there => entries[e][m] = 1
=============================================================================
