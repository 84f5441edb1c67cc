------------------------------ MODULE Register ------------------------------
(***************************************************************************)
(* What a cashier's open session keeps beside its own totals: the shifts   *)
(* of routes/pos.py, the override tokens of services/pos_override_service  *)
(* and the parked carts of services/pos_cart_service.                      *)
(*                                                                         *)
(* Requests of several tabs are served at once.  A cash movement holds the *)
(* session's lock from before it reads the shift; a sale reads the shift   *)
(* first and takes the lock after; a refund, a reconciliation, an opening  *)
(* of the drawer and everything about carts take no lock, except that      *)
(* resuming a cart locks its row.                                          *)
(*                                                                         *)
(* The cashier is honest: what is entered as starting or counted cash is   *)
(* what lies in the drawer when the request is sent.  A shift is looked up *)
(* as an open one and closed only if it is not open, so the handler that   *)
(* closes a shift changes nothing in any state and has no action here.     *)
(***************************************************************************)
EXTENDS Integers, FiniteSets, Sequences, SequencesExt

CONSTANTS Worker, Token, Cart, Line,
          MaxShift, \* bound on the shifts of the session
          MaxCarts, \* MAX_CARTS_PER_SESSION
          Limit,    \* bound on the requests of a behaviour
          None      \* no shift, token or cart

ASSUME RegisterAssumption == /\ MaxShift \in Nat /\ MaxCarts \in Nat /\ Limit \in Nat
                             /\ None \notin Token \cup Cart /\ IsFiniteSet(Cart)

VARIABLES shift,   \* the shifts in order of their ids
          rows,    \* per shift, its rows of pos_cash_movements summed, pay-outs negative
          cash,    \* net cash payments of the sales of the session
          till,    \* what lies in the drawer
          flows,   \* history: how many times cash went in or out
          astray,  \* history: shifts that cash went past
          late,    \* history: shifts that were written after their reconciliation was computed
          token,   \* the override tokens
          cart,    \* the carts of the cashier
          voided,  \* history: the lines voided since the cart was parked
          req, served,
          flags    \* history: hazards that came about

vars == <<shift, rows, cash, till, flows, astray, late, token, cart, voided, req, served, flags>>
shifts == <<shift, rows, cash, till, flows, astray, late>>
carts  == <<cart, voided>>

Locked == {"pay", "discount"}  \* actions authorised under the session's lock
Acts   == Locked \cup {"drawer", "void"}

Idle == [pc |-> "idle", s |-> 0, x |-> 0, t |-> None, c |-> None, l |-> None, st |-> "none",
         was |-> 0, change |-> 0, saw |-> 0, got |-> {}]

Init == /\ shift = <<>> /\ rows = <<>> /\ cash = 0 /\ till = 0 /\ flows = 0
        /\ astray = {} /\ late = {}
        /\ token = [t \in Token |-> [act |-> "none", st |-> "none", uses |-> 0]]
        /\ cart = [c \in Cart |-> [st |-> "none", lines |-> {}]]
        /\ voided = [c \in Cart |-> {}]
        /\ req = [w \in Worker |-> Idle] /\ served = 0
        /\ flags = {}

---------------------------------------------------------------------------
\* _get_active_shift: the newest open shift, 0 if there is none.
ActiveShift == LET open == {s \in DOMAIN shift : shift[s].st = "open"}
               IN  IF open = {} THEN 0 ELSE CHOOSE s \in open : \A o \in open : o <= s

Held == \E w \in Worker : req[w].pc = "move"

Begin(w, r) == /\ req[w].pc = "idle" /\ served < Limit
               /\ served' = served + 1 /\ req' = [req EXCEPT ![w] = r]
               /\ UNCHANGED <<shifts, carts, flags>>

Answer(w) == req' = [req EXCEPT ![w] = Idle] /\ UNCHANGED served

Flow(x) == till' = till + x /\ flows' = flows + 1

\* An error or a lost connection: the transaction is rolled back.
GiveUp(w) == /\ req[w].pc # "idle" /\ Answer(w)
             /\ UNCHANGED <<shifts, token, carts, flags>>

\* Cash moved since the request read what it works with.
Crossed(w) == flows # req[w].saw

\* Open shifts that do not take in what shift s is charged with; s if it is reconciled.
PassedBy(s)   == {o \in DOMAIN shift : shift[o].st = "open" /\ o # s}
Reconciled(s) == {o \in DOMAIN shift : shift[o].st # "open" /\ o = s}

---------------------------------------------------------------------------
\* Override tokens.

\* authorize_with_pin
Authorize(t, a) == /\ token[t].st = "none"
                   /\ token' = [token EXCEPT ![t] = [act |-> a, st |-> "fresh", uses |-> 0]]
                   /\ UNCHANGED <<shifts, carts, req, served, flags>>

\* The sixty seconds are over.
Expire(t) == /\ token[t].st = "fresh"
             /\ token' = [token EXCEPT ![t].st = "expired"]
             /\ UNCHANGED <<shifts, carts, req, served, flags>>

\* Mutant: used_at is not looked at.
UsedToo(t, a) == t # None => token[t].act = a /\ token[t].st \in {"fresh", "used"}

\* require_permission_or_override: the permission of the user, or an unused token.
Allowed(t, a) == t # None => token[t].act = a /\ token[t].st = "fresh"

\* The token read is burnt, in the transaction of its use.
Burn(t) == IF t = None THEN UNCHANGED token
           ELSE token' = [token EXCEPT ![t] = [act |-> @.act, st |-> "used", uses |-> @.uses + 1]]

\* api_drawer_open
BeginDrawer(w, t) == /\ Allowed(t, "drawer") /\ t # None
                     /\ Begin(w, [Idle EXCEPT !.pc = "drawer", !.t = t]) /\ UNCHANGED token

OpenDrawer(w) == /\ req[w].pc = "drawer" /\ Burn(req[w].t) /\ Answer(w)
                 /\ UNCHANGED <<shifts, carts, flags>>

---------------------------------------------------------------------------
\* Shifts.

\* api_shift_open: refused while an open shift is seen.
BeginOpen(w) == /\ ActiveShift = 0 /\ Len(shift) < MaxShift
                /\ Begin(w, [Idle EXCEPT !.pc = "open", !.was = till, !.saw = flows])
                /\ UNCHANGED token

OpenShift(w) ==
    /\ req[w].pc = "open" /\ Len(shift) < MaxShift
    /\ shift' = Append(shift, [st |-> "open", start |-> req[w].was, change |-> 0, refunds |-> 0,
                               moves |-> 0, cash |-> 0, expected |-> 0, actual |-> 0,
                               before |-> cash])
    /\ rows' = Append(rows, 0)
    /\ astray' = astray \cup (IF Crossed(w) THEN {Len(shift) + 1} ELSE {})
    /\ Answer(w) /\ UNCHANGED <<cash, till, flows, late, token, carts, flags>>

\* api_checkout reads the shift, then waits for the session.
BeginSale(w, t) == /\ ActiveShift # 0
                   /\ Begin(w, [Idle EXCEPT !.pc = "sale", !.s = ActiveShift, !.t = t])
                   /\ UNCHANGED token

\* PosCheckoutService.checkout: one unit stays, one is given as change.  The increment is
\* made by the database; the status of the shift is that of the copy.
Sale(w) ==
    LET s == req[w].s IN
    /\ req[w].pc = "sale" /\ ~Held
    /\ Allowed(req[w].t, "discount") /\ Burn(req[w].t)
    /\ cash' = cash + 1 /\ Flow(1)
    /\ shift' = [shift EXCEPT ![s].change = @ + 1]
    /\ late' = late \cup Reconciled(s)
    /\ Answer(w) /\ UNCHANGED <<rows, astray, carts, flags>>

\* api_cash_movement_create, a pay-in or a pay-out.
BeginMove(w, x, t) ==
    /\ ~Held /\ Allowed(t, "pay")
    /\ Begin(w, [Idle EXCEPT !.pc = "move", !.s = ActiveShift, !.x = x, !.t = t,
                             !.was = IF ActiveShift = 0 THEN 0 ELSE shift[ActiveShift].moves])
    /\ UNCHANGED token

Move(w) ==
    LET s == req[w].s IN
    /\ req[w].pc = "move" /\ Burn(req[w].t) /\ Flow(req[w].x)
    /\ shift' = [o \in DOMAIN shift |->
          [shift[o] EXCEPT !.moves = IF o = s THEN req[w].was + req[w].x ELSE @]]
    /\ rows' = [o \in DOMAIN shift |-> rows[o] + (IF o = s THEN req[w].x ELSE 0)]
    /\ astray' = astray \cup PassedBy(s) /\ late' = late \cup Reconciled(s)
    /\ Answer(w) /\ UNCHANGED <<cash, carts, flags>>

\* api_pos_return_create, settled in cash.
BeginRefund(w) ==
    /\ cash > 0
    /\ Begin(w, [Idle EXCEPT !.pc = "refund", !.s = ActiveShift,
                             !.was = IF ActiveShift = 0 THEN 0 ELSE shift[ActiveShift].refunds])
    /\ UNCHANGED token

\* create_pos_return adds to the copy it read.
Refund(w) ==
    LET s == req[w].s IN
    /\ req[w].pc = "refund" /\ Flow(-1)
    /\ shift' = [o \in DOMAIN shift |->
          [shift[o] EXCEPT !.refunds = IF o = s THEN req[w].was + 1 ELSE @]]
    /\ astray' = astray \cup PassedBy(s)
                        \cup {o \in DOMAIN shift : o = s /\ shift[o].refunds # req[w].was}
    /\ late' = late \cup Reconciled(s)
    /\ Answer(w) /\ UNCHANGED <<rows, cash, token, carts, flags>>

\* api_shift_reconcile reads the newest open shift.
BeginReconcile(w) ==
    /\ ActiveShift # 0
    /\ Begin(w, [Idle EXCEPT !.pc = "reconcile", !.s = ActiveShift, !.x = till, !.saw = flows,
                             !.was = shift[ActiveShift].refunds,
                             !.change = shift[ActiveShift].change])
    /\ UNCHANGED token

\* Mutant: refunds are left out.
NoRefunds(r) == r.start + r.cash - r.change + r.moves

\* compute_expected_cash
ExpectedCash(r) == r.start + r.cash - r.change - r.refunds + r.moves

\* _accumulate_shift_totals and PosShift.reconcile: the cash of the whole session, grossed
\* up by the change of the copy; the movements of the shift; written whatever the status.
Reconcile(w) ==
    LET s == req[w].s
        r == [shift[s] EXCEPT !.cash = cash + req[w].change, !.moves = rows[s],
                              !.change = req[w].change, !.refunds = req[w].was]
    IN  /\ req[w].pc = "reconcile"
        /\ shift' = [shift EXCEPT ![s] = [@ EXCEPT
               !.st = "reconciled", !.cash = r.cash, !.moves = r.moves,
               !.actual = req[w].x, !.expected = ExpectedCash(r)]]
        /\ astray' = astray \cup (IF Crossed(w) THEN {s} ELSE {})
        /\ late' = late \cup (IF Crossed(w) THEN {s} ELSE {})
        /\ Answer(w) /\ UNCHANGED <<rows, cash, till, flows, token, carts, flags>>

---------------------------------------------------------------------------
\* Carts.
Parked == {c \in Cart : cart[c].st = "parked"}

\* Mutant: one cart too many.
RoomForOne == Cardinality(Parked) <= MaxCarts

RoomForCart == Cardinality(Parked) < MaxCarts

\* park_cart of a new cart: the parked ones are counted, then the row is inserted.
BeginPark(w, c) == /\ cart[c].st = "none" /\ RoomForCart
                   /\ Begin(w, [Idle EXCEPT !.pc = "park", !.c = c]) /\ UNCHANGED token

Park(w) ==
    LET c == req[w].c IN
    /\ req[w].pc = "park" /\ cart[c].st = "none"
    /\ cart' = [cart EXCEPT ![c] = [st |-> "parked", lines |-> Line]]
    /\ flags' = flags \cup (IF RoomForCart THEN {} ELSE {"overlapping parks"})
    /\ Answer(w) /\ UNCHANGED <<shifts, token, voided>>

\* park_cart of a known cart reads it whatever its status ...
BeginRepark(w, c) == /\ cart[c].st \in {"parked", "resumed"}
                     /\ Begin(w, [Idle EXCEPT !.pc = "repark", !.c = c, !.st = cart[c].st])
                     /\ UNCHANGED token

\* ... and writes what differs from the copy: a status read as parked is not written.
Repark(w) ==
    LET c  == req[w].c
        st == IF req[w].st = "parked" THEN cart[c].st ELSE "parked"
    IN  /\ req[w].pc = "repark" /\ cart[c].st # "deleted"
        /\ cart' = [cart EXCEPT ![c] = [st |-> st, lines |-> Line]]
        /\ voided' = [voided EXCEPT ![c] = {}]
        /\ flags' = flags \cup (IF st = cart[c].st THEN {} ELSE {"parked again"})
        /\ Answer(w) /\ UNCHANGED <<shifts, token>>

\* resume_cart, under the lock of the row
ResumeCart(c) == /\ cart[c].st = "parked" /\ served < Limit /\ served' = served + 1
                 /\ cart' = [cart EXCEPT ![c].st = "resumed"]
                 /\ UNCHANGED <<shifts, token, voided, req, flags>>

DeleteCart(c) == /\ cart[c].st \in {"parked", "resumed"} /\ served < Limit /\ served' = served + 1
                 /\ cart' = [cart EXCEPT ![c] = [st |-> "deleted", lines |-> {}]]
                 /\ voided' = [voided EXCEPT ![c] = {}]
                 /\ UNCHANGED <<shifts, token, req, flags>>

\* void_line of a parked cart, never of its last line
BeginVoid(w, c, l, t) ==
    /\ Allowed(t, "void")
    /\ cart[c].st = "parked" /\ l \in cart[c].lines /\ cart[c].lines # {l}
    /\ Begin(w, [Idle EXCEPT !.pc = "void", !.c = c, !.t = t, !.l = l, !.got = cart[c].lines])
    /\ UNCHANGED token

\* Mutant: the line stays.
KeptLines(r) == r.got

\* The lines left are those of the copy.
LeftLines(r) == r.got \ {r.l}

VoidLine(w) ==
    LET c == req[w].c IN
    /\ req[w].pc = "void" /\ cart[c].st # "deleted" /\ Burn(req[w].t)
    /\ cart' = [cart EXCEPT ![c].lines = LeftLines(req[w])]
    /\ voided' = [voided EXCEPT ![c] = @ \cup {req[w].l}]
    /\ flags' = flags \cup (IF cart[c].lines = req[w].got THEN {} ELSE {"overlapping voids"})
    /\ Answer(w) /\ UNCHANGED shifts

---------------------------------------------------------------------------
OptToken == Token \cup {None}

ShiftStep(w) == \/ BeginOpen(w) \/ OpenShift(w) \/ (\E t \in OptToken : BeginSale(w, t)) \/ Sale(w)
                \/ (\E x \in {1, -1}, t \in OptToken : BeginMove(w, x, t)) \/ Move(w)
                \/ BeginRefund(w) \/ Refund(w) \/ BeginReconcile(w) \/ Reconcile(w)

CartStep(w) == \/ (\E c \in Cart : BeginPark(w, c) \/ BeginRepark(w, c)) \/ Park(w) \/ Repark(w)
               \/ (\E c \in Cart, l \in Line, t \in OptToken : BeginVoid(w, c, l, t)) \/ VoidLine(w)

\* Nobody asks for anything.
Rest == (\A w \in Worker : req[w].pc = "idle") /\ UNCHANGED vars

Next == \/ \E t \in Token : Expire(t) \/ \E a \in Acts : Authorize(t, a)
        \/ \E c \in Cart : ResumeCart(c) \/ DeleteCart(c)
        \/ \E w \in Worker : \/ ShiftStep(w) \/ CartStep(w) \/ GiveUp(w) \/ OpenDrawer(w)
                             \/ \E t \in Token : BeginDrawer(w, t)
        \/ Rest

Spec == Init /\ [][Next]_vars

---------------------------------------------------------------------------
Statuses == {"none", "parked", "resumed", "deleted"}

Override == [act : Acts \cup {"none"}, uses : Nat, st : {"none", "fresh", "used", "expired"}]

Shift == [st : {"open", "reconciled"}, start : Int, change : Int, refunds : Int, moves : Int,
          cash : Int, expected : Int, actual : Int, before : Int]

Req == [pc : {"idle", "open", "sale", "move", "refund", "reconcile", "drawer", "park", "repark",
              "void"},
        s : Nat, x : Int, t : Token \cup {None}, c : Cart \cup {None}, l : Line \cup {None},
        st : Statuses, was : Int, change : Int, saw : Nat, got : SUBSET Line]

\* Shifts and their rows go together, a request knows the shift and the cart it works on,
\* and every value is of its kind.
TypeOK ==
    /\ shift \in Seq(Shift) /\ rows \in Seq(Int) /\ Len(rows) = Len(shift)
    /\ astray \subseteq DOMAIN shift /\ late \subseteq DOMAIN shift
    /\ cash \in Int /\ till \in Int /\ flows \in Nat /\ served \in Nat
    /\ token \in [Token -> Override]
    /\ cart \in [Cart -> [st : Statuses, lines : SUBSET Line]]
    /\ voided \in [Cart -> SUBSET Line]
    /\ flags \subseteq {"overlapping parks", "parked again", "overlapping voids"}
    /\ req \in [Worker -> Req]
    /\ \A w \in Worker : req[w].pc \in {"sale", "reconcile"} => req[w].s \in DOMAIN shift
    /\ \A w \in Worker : req[w].pc \in {"park", "repark", "void"} => req[w].c \in Cart
    /\ \A w \in Worker : req[w].pc = "void" => req[w].l \in Line

\* An honest count of a reconciled shift differs from the balance it expects by the cash
\* the session had taken before the shift was opened (_accumulate_shift_totals counts the
\* whole session), and by nothing else unless a movement or a refund missed the shift or
\* crossed its reconciliation; and unless a request came late its row still adds up.
CountBalances ==
    \A s \in DOMAIN shift : shift[s].st = "reconciled" =>
        /\ s \in astray \/ shift[s].expected = shift[s].actual + shift[s].before
        /\ s \in late \/ shift[s].expected = ExpectedCash(shift[s])

\* A token for a movement or a discount is burnt under the session's lock and read under
\* it, so it authorises one of them; one for the drawer or a line has no such lock.
LockedTokenOnce == \A t \in Token : token[t].act \in Locked => token[t].uses <= 1

\* A line voided on a supervisor's word does not come back into the parked cart, unless two
\* voids, or a void and a parking of the cart, overlapped (void_line writes the lines of
\* its copy).
VoidsHold == "overlapping voids" \in flags \/ \A c \in Cart : voided[c] \cap cart[c].lines = {}

\* More carts than MAX_CARTS_PER_SESSION are parked only when two parkings were counted
\* at once or a cart that had been resumed was parked again, which is not counted at all.
CartsWithinLimit == \/ flags \cap {"overlapping parks", "parked again"} # {}
                    \/ Cardinality(Parked) <= MaxCarts
=============================================================================
