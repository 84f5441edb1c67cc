---------------------------- MODULE MCPosSession ----------------------------
(***************************************************************************)
(* Instances of PosSession for TLC.  Amounts are chosen so that no two     *)
(* different cash movements can cancel out.                                *)
(***************************************************************************)
EXTENDS PosSession

CONSTANTS r1, r2, r3, k1

J(kind, key, amount, tender) ==
    [kind |-> kind, key |-> key, amount |-> amount, tender |-> tender]

CheckoutJob == J("checkout", k1, 7, 10)
CreditJob   == J("checkout", NoKey, 7, 2)
PayInJob    == J("payIn", NoKey, 40, 0)
PayOutJob   == J("payOut", NoKey, 20, 0)
RefundJob   == J("refund", k1, 1, 0)
RefundJob2  == J("refund", NoKey, 1, 0)
PauseJob    == J("pause", NoKey, 0, 0)
ResumeJob   == J("resume", NoKey, 0, 0)
CloseJob    == J("close", k1, 0, 0)
OpenJob     == J("open", k1, 100, 0)
ReceiptJob  == J("receipt", NoKey, 3, 0)
OtherSale   == J("checkout", k1, 9, 9)      \* the key of CheckoutJob reused

AllJobs == {CheckoutJob, CreditJob, PayInJob, PayOutJob, RefundJob, RefundJob2,
            PauseJob, ResumeJob, CloseJob, OpenJob, ReceiptJob, OtherSale}
=============================================================================
