----------------------------- MODULE MCPayroll -----------------------------
(* Instances of Payroll for TLC. *)
EXTENDS Payroll, TLC

\* One employee earns two a month, the other one a day.
Pay   == [e \in Employee |-> IF e = "monthly" THEN 2 ELSE 1]
Staff == {"monthly", "daily"}

OneOrThree == {1, 3}

\* A day and an allowance; a deduction of all there is.
Given == {[days |-> 1, plus |-> 1, minus |-> 0], [days |-> 1, plus |-> 0, minus |-> 2]}

\* Workers are alike, and so are advances.
Alike == Permutations(Runner) \cup Permutations(Advance)
=============================================================================
