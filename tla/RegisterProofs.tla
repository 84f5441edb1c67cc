--------------------------- MODULE RegisterProofs ---------------------------
(***************************************************************************)
(* Proofs about Register, for every number of tabs, shifts, tokens, carts  *)
(* and lines.                                                              *)
(***************************************************************************)
EXTENDS Register, FiniteSetTheorems, TLAPS

Opening(w) == \/ BeginOpen(w) \/ (\E t \in OptToken : BeginSale(w, t))
              \/ (\E x \in {1, -1}, t \in OptToken : BeginMove(w, x, t))
              \/ BeginRefund(w) \/ BeginReconcile(w)
              \/ (\E c \in Cart : BeginPark(w, c) \/ BeginRepark(w, c))
              \/ (\E c \in Cart, l \in Line, t \in OptToken : BeginVoid(w, c, l, t))
              \/ (\E t \in Token : BeginDrawer(w, t))

Till(w) == Sale(w) \/ Move(w) \/ Refund(w)

Closing(w) == \/ Till(w) \/ OpenShift(w) \/ Reconcile(w) \/ OpenDrawer(w)
              \/ Park(w) \/ Repark(w) \/ VoidLine(w) \/ GiveUp(w)

Aside == \/ \E t \in Token : Expire(t) \/ \E a \in Acts : Authorize(t, a)
         \/ \E c \in Cart : ResumeCart(c) \/ DeleteCart(c)
         \/ UNCHANGED vars

\* Among some shifts there is always a newest.
HasNewest == \A S \in SUBSET (DOMAIN shift) : S # {} => \E s \in S : \A o \in S : o <= s

---------------------------------------------------------------------------
(***************************************************************************)
(* Types                                                                   *)
(***************************************************************************)

\* The kinds of step.
LEMMA StepKinds ==
  ASSUME [Next]_vars
  PROVE  Aside \/ \E w \in Worker : Opening(w) \/ Closing(w)
BY DEF Next, ShiftStep, CartStep, Rest, Aside, Opening, Closing, Till

LEMMA Appended ==
  ASSUME NEW S, NEW q \in Seq(S), NEW x \in S
  PROVE  /\ Append(q, x) \in Seq(S) /\ Len(Append(q, x)) = Len(q) + 1
         /\ \A i \in 1..Len(q) : Append(q, x)[i] = q[i]
         /\ Append(q, x)[Len(q) + 1] = x
         /\ DOMAIN Append(q, x) = 1..(Len(q) + 1) /\ DOMAIN q = 1..Len(q) /\ Len(q) \in Nat
OBVIOUS

LEMMA Rewritten ==
  ASSUME NEW S, NEW T, NEW q \in Seq(T), NEW f \in [DOMAIN q -> S]
  PROVE  f \in Seq(S) /\ Len(f) = Len(q) /\ DOMAIN f = DOMAIN q
<1>1. DOMAIN q = 1..Len(q) /\ Len(q) \in Nat
  OBVIOUS
<1> QED
  BY <1>1

\* The shifts and their rows are numbered alike.
LEMMA Numbered ==
  ASSUME TypeOK
  PROVE  /\ shift \in Seq(Shift) /\ rows \in Seq(Int) /\ Len(shift) \in Nat
         /\ DOMAIN shift = 1..Len(shift) /\ DOMAIN rows = DOMAIN shift
         /\ Len(rows) = Len(shift)
<1>1. shift \in Seq(Shift) /\ rows \in Seq(Int) /\ Len(rows) = Len(shift)
  BY DEF TypeOK
<1> QED
  BY <1>1

\* The shift a request works on is 0 or a shift, and one that is open when it is read.
LEMMA Newest ==
  ASSUME TypeOK, HasNewest
  PROVE  /\ ActiveShift \in Nat
         /\ ActiveShift # 0 => ActiveShift \in DOMAIN shift /\ shift[ActiveShift].st = "open"
<1> DEFINE open == {s \in DOMAIN shift : shift[s].st = "open"}
<1>1. DOMAIN shift = 1..Len(shift)
  BY Numbered
<1>2. CASE open = {}
  BY <1>2 DEF ActiveShift
<1>3. CASE open # {}
  <2>1. \E s \in open : \A o \in open : o <= s
    BY <1>3 DEF HasNewest
  <2>2. ActiveShift \in open
    BY <1>3, <2>1 DEF ActiveShift
  <2> QED
    BY <1>1, <2>2
<1> QED
  BY <1>2, <1>3

LEMMA IdleTyped == Idle \in Req
BY DEF Idle, Req, Statuses

LEMMA ShiftTyped ==
  ASSUME TypeOK, NEW s \in DOMAIN shift
  PROVE  shift[s] \in Shift /\ rows[s] \in Int /\ s \in Nat
<1>1. s \in 1..Len(shift) /\ s \in 1..Len(rows)
  BY Numbered
<1> QED
  BY <1>1, Numbered

LEMMA InitTypes == Init => TypeOK /\ HasNewest
<1> SUFFICES ASSUME Init PROVE TypeOK /\ HasNewest
  OBVIOUS
<1>1. HasNewest
  BY DEF Init, HasNewest
<1>2. shift \in Seq(Shift) /\ rows \in Seq(Int) /\ Len(rows) = Len(shift)
  BY DEF Init
<1>8. astray \subseteq DOMAIN shift /\ late \subseteq DOMAIN shift
  BY DEF Init
<1>3. req \in [Worker -> Req] /\ \A w \in Worker : req[w].pc = "idle"
  BY IdleTyped DEF Init, Idle
<1>4. token \in [Token -> Override]
  BY DEF Init, Override
<1>5. cart \in [Cart -> [st : Statuses, lines : SUBSET Line]] /\ voided \in [Cart -> SUBSET Line]
  BY DEF Init, Statuses
<1>6. /\ cash \in Int /\ till \in Int /\ flows \in Nat /\ served \in Nat
      /\ flags \subseteq {"overlapping parks", "parked again", "overlapping voids"}
  BY DEF Init
<1>7. TypeOK
  BY <1>2, <1>3, <1>4, <1>5, <1>6, <1>8 DEF TypeOK
<1> QED
  BY <1>1, <1>7

\* A request that begins is well typed, and nothing else changes.
LEMMA OpeningTypes ==
  ASSUME TypeOK, HasNewest, NEW w \in Worker, Opening(w)
  PROVE  TypeOK' /\ HasNewest'
<1> DEFINE Good(r) == /\ r \in Req
                      /\ r.pc \in {"sale", "reconcile"} => r.s \in DOMAIN shift
                      /\ r.pc \in {"park", "repark", "void"} => r.c \in Cart
                      /\ r.pc = "void" => r.l \in Line
<1>1. ASSUME NEW r, Good(r), Begin(w, r), UNCHANGED token
      PROVE  TypeOK' /\ HasNewest'
  <2>1. /\ UNCHANGED <<shift, rows, cash, till, flows, astray, late, cart, voided, flags, token>>
        /\ req' = [req EXCEPT ![w] = r] /\ served' = served + 1
    BY <1>1 DEF Begin, shifts, carts
  <2>2. req' \in [Worker -> Req] /\ \A u \in Worker : req'[u] = IF u = w THEN r ELSE req[u]
    BY <1>1, <2>1 DEF TypeOK
  <2>3. HasNewest'
    BY <2>1 DEF HasNewest
  <2>4. served' \in Nat
    <3>1. served \in Nat
      BY DEF TypeOK
    <3> QED
      BY <2>1, <3>1
  <2>5. ASSUME NEW u \in Worker
        PROVE  /\ req'[u].pc \in {"sale", "reconcile"} => req'[u].s \in DOMAIN shift'
               /\ req'[u].pc \in {"park", "repark", "void"} => req'[u].c \in Cart
               /\ req'[u].pc = "void" => req'[u].l \in Line
    BY <1>1, <2>1, <2>2 DEF TypeOK
  <2> QED
    BY <2>1, <2>2, <2>3, <2>4, <2>5 DEF TypeOK
<1>2. CASE BeginOpen(w)
  BY <1>1, <1>2, IdleTyped DEF BeginOpen, Req, Idle, TypeOK
<1>3. CASE \E t \in OptToken : BeginSale(w, t)
  BY <1>1, <1>3, IdleTyped, Newest DEF BeginSale, Req, Idle, TypeOK, OptToken
<1>4. ASSUME NEW x \in {1, -1}, NEW t \in OptToken, BeginMove(w, x, t)
      PROVE  TypeOK' /\ HasNewest'
  <2>1. ActiveShift # 0 => shift[ActiveShift].moves \in Int
    BY Newest, ShiftTyped DEF Shift
  <2> DEFINE n == IF ActiveShift = 0 THEN 0 ELSE shift[ActiveShift].moves
             r == [Idle EXCEPT !.pc = "move", !.s = ActiveShift, !.x = x, !.t = t, !.was = n]
  <2>2. n \in Int /\ x \in Int /\ ActiveShift \in Nat /\ t \in Token \cup {None}
    BY <2>1, Newest DEF OptToken
  <2>3. Begin(w, r) /\ UNCHANGED token
    BY <1>4 DEF BeginMove
  <2> HIDE DEF n
  <2>4. r \in Req /\ r.pc = "move"
    BY <2>2, IdleTyped DEF Req, Idle
  <2> QED
    BY <1>1, <2>3, <2>4
<1>5. CASE BeginRefund(w)
  <2>1. ActiveShift # 0 => shift[ActiveShift].refunds \in Int
    BY Newest, ShiftTyped DEF Shift
  <2> QED
    BY <1>1, <1>5, <2>1, IdleTyped, Newest DEF BeginRefund, Req, Idle, TypeOK
<1>6. CASE BeginReconcile(w)
  <2>1. /\ ActiveShift \in DOMAIN shift
        /\ shift[ActiveShift].refunds \in Int /\ shift[ActiveShift].change \in Int
    BY <1>6, Newest, ShiftTyped DEF Shift, BeginReconcile
  <2> QED
    BY <1>1, <1>6, <2>1, IdleTyped, Newest DEF BeginReconcile, Req, Idle, TypeOK
<1>7. ASSUME NEW c \in Cart, BeginPark(w, c) PROVE TypeOK' /\ HasNewest'
  BY <1>1, <1>7, IdleTyped DEF BeginPark, Req, Idle
<1>8. ASSUME NEW c \in Cart, BeginRepark(w, c) PROVE TypeOK' /\ HasNewest'
  BY <1>1, <1>8, IdleTyped DEF BeginRepark, Req, Idle, Statuses
<1>9. ASSUME NEW c \in Cart, NEW l \in Line, NEW t \in OptToken, BeginVoid(w, c, l, t)
      PROVE TypeOK' /\ HasNewest'
  <2>1. cart[c].lines \subseteq Line
    BY DEF TypeOK
  <2> QED
    BY <1>1, <1>9, <2>1, IdleTyped DEF BeginVoid, Req, Idle, OptToken
<1>10. ASSUME NEW t \in Token, BeginDrawer(w, t) PROVE TypeOK' /\ HasNewest'
  BY <1>1, <1>10, IdleTyped DEF BeginDrawer, Req, Idle
<1> QED
  BY <1>2, <1>3, <1>4, <1>5, <1>6, <1>7, <1>8, <1>9, <1>10 DEF Opening

\* A token stays a token when it is used.
LEMMA BurnTypes ==
  ASSUME TypeOK, NEW t \in Token \cup {None}, Burn(t)
  PROVE  /\ token' \in [Token -> Override]
         /\ \A u \in Token : token'[u].act = token[u].act
<1>0. token \in [Token -> Override]
  BY DEF TypeOK
<1>1. CASE t = None
  BY <1>0, <1>1 DEF Burn
<1>2. CASE t # None
  <2> DEFINE new == [act |-> token[t].act, st |-> "used", uses |-> token[t].uses + 1]
  <2>1. t \in Token /\ token' = [token EXCEPT ![t] = new]
    BY <1>2 DEF Burn
  <2>2. new \in Override /\ new.act = token[t].act
    BY <1>0, <2>1 DEF Override
  <2> HIDE DEF new
  <2> QED
    BY <1>0, <2>1, <2>2
<1> QED
  BY <1>1, <1>2

\* An answered request is idle, the others are as they were.
LEMMA Answered ==
  ASSUME TypeOK, NEW w \in Worker, Answer(w)
  PROVE  /\ req' \in [Worker -> Req] /\ UNCHANGED served
         /\ \A u \in Worker : req'[u] = IF u = w THEN Idle ELSE req[u]
BY IdleTyped DEF Answer, TypeOK

LEMMA AsideTypes ==
  ASSUME TypeOK, HasNewest, Aside
  PROVE  TypeOK' /\ HasNewest'
<1>1. ASSUME NEW t \in Token, Expire(t) \/ \E a \in Acts : Authorize(t, a)
      PROVE  TypeOK' /\ HasNewest'
  <2>1. UNCHANGED <<shift, rows, cash, till, flows, astray, late, cart, voided, req, served, flags>>
    BY <1>1 DEF Expire, Authorize, shifts, carts
  <2>2. token' \in [Token -> Override]
    <3>1. token \in [Token -> Override]
      BY DEF TypeOK
    <3>2. CASE Expire(t)
      BY <3>1, <3>2 DEF Expire, Override
    <3>3. CASE \E a \in Acts : Authorize(t, a)
      BY <3>1, <3>3 DEF Authorize, Override
    <3> QED
      BY <1>1, <3>2, <3>3
  <2> QED
    BY <2>1, <2>2 DEF TypeOK, HasNewest
<1>2. ASSUME NEW c \in Cart, ResumeCart(c) \/ DeleteCart(c)
      PROVE  TypeOK' /\ HasNewest'
  <2>1. UNCHANGED <<shift, rows, cash, till, flows, astray, late, token, req, flags>>
    BY <1>2 DEF ResumeCart, DeleteCart, shifts
  <2>2. cart' \in [Cart -> [st : Statuses, lines : SUBSET Line]] /\ voided' \in [Cart -> SUBSET Line]
    <3>1. cart \in [Cart -> [st : Statuses, lines : SUBSET Line]] /\ voided \in [Cart -> SUBSET Line]
      BY DEF TypeOK
    <3> QED
      BY <1>2, <3>1 DEF ResumeCart, DeleteCart, Statuses
  <2>3. served' \in Nat
    <3>1. served \in Nat /\ served' = served + 1
      BY <1>2 DEF TypeOK, ResumeCart, DeleteCart
    <3> QED
      BY <3>1
  <2> QED
    BY <2>1, <2>2, <2>3 DEF TypeOK, HasNewest
<1>3. CASE UNCHANGED vars
  BY <1>3 DEF vars, TypeOK, HasNewest
<1> QED
  BY <1>1, <1>2, <1>3 DEF Aside

\* A sale, a movement or a refund rewrites the shifts it finds.
LEMMA TillTypes ==
  ASSUME TypeOK, NEW w \in Worker, Till(w)
  PROVE  /\ shift' \in [DOMAIN shift -> Shift] /\ rows' \in [DOMAIN shift -> Int]
         /\ cash' \in Int /\ till' \in Int /\ flows' = flows + 1
         /\ astray' \subseteq DOMAIN shift /\ late' \subseteq DOMAIN shift
         /\ token' \in [Token -> Override] /\ Answer(w) /\ UNCHANGED <<carts, flags>>
<1> DEFINE s == req[w].s
<1>1. /\ cash \in Int /\ till \in Int /\ flows \in Nat /\ req[w] \in Req
      /\ astray \subseteq DOMAIN shift /\ late \subseteq DOMAIN shift
  BY DEF TypeOK
<1>2. req[w].t \in Token \cup {None} /\ req[w].was \in Int /\ req[w].x \in Int
  BY <1>1 DEF Req
<1>3. PassedBy(s) \subseteq DOMAIN shift /\ Reconciled(s) \subseteq DOMAIN shift
  BY DEF PassedBy, Reconciled
<1>4. rows \in [DOMAIN shift -> Int] /\ shift \in [DOMAIN shift -> Shift]
  BY Numbered
<1>5. \A t \in Token \cup {None} : Burn(t) => token' \in [Token -> Override]
  BY BurnTypes
<1>6. CASE Sale(w)
  <2>1. /\ shift' = [shift EXCEPT ![s].change = @ + 1] /\ UNCHANGED <<rows, astray, carts, flags>>
        /\ cash' = cash + 1 /\ Flow(1) /\ late' = late \cup Reconciled(s)
        /\ Burn(req[w].t) /\ Answer(w)
    BY <1>6 DEF Sale
  <2>2. s \in DOMAIN shift
    BY <1>6 DEF Sale, TypeOK
  <2>3. [shift[s] EXCEPT !.change = @ + 1] \in Shift
    BY <1>4, <2>2 DEF Shift
  <2>4. shift' \in [DOMAIN shift -> Shift]
    BY <1>4, <2>1, <2>3
  <2> QED
    BY <1>1, <1>2, <1>3, <1>4, <1>5, <2>1, <2>4 DEF Flow
<1>7. CASE Move(w)
  <2>1. /\ shift' = [o \in DOMAIN shift |->
              [shift[o] EXCEPT !.moves = IF o = s THEN req[w].was + req[w].x ELSE @]]
        /\ rows' = [o \in DOMAIN shift |-> rows[o] + (IF o = s THEN req[w].x ELSE 0)]
        /\ astray' = astray \cup PassedBy(s) /\ late' = late \cup Reconciled(s)
        /\ Burn(req[w].t) /\ Flow(req[w].x) /\ Answer(w) /\ UNCHANGED <<cash, carts, flags>>
    BY <1>7 DEF Move
  <2>2. ASSUME NEW o \in DOMAIN shift
        PROVE  [shift[o] EXCEPT !.moves = IF o = s THEN req[w].was + req[w].x ELSE @] \in Shift
    BY <1>2, <1>4 DEF Shift
  <2>3. shift' \in [DOMAIN shift -> Shift] /\ rows' \in [DOMAIN shift -> Int]
    BY <1>2, <1>4, <2>1, <2>2
  <2> QED
    BY <1>1, <1>2, <1>3, <1>5, <2>1, <2>3 DEF Flow
<1>8. CASE Refund(w)
  <2>1. /\ shift' = [o \in DOMAIN shift |->
              [shift[o] EXCEPT !.refunds = IF o = s THEN req[w].was + 1 ELSE @]]
        /\ astray' = astray \cup PassedBy(s)
                            \cup {o \in DOMAIN shift : o = s /\ shift[o].refunds # req[w].was}
        /\ late' = late \cup Reconciled(s)
        /\ Flow(-1) /\ Answer(w) /\ UNCHANGED <<rows, cash, token, carts, flags>>
    BY <1>8 DEF Refund
  <2>2. ASSUME NEW o \in DOMAIN shift
        PROVE  [shift[o] EXCEPT !.refunds = IF o = s THEN req[w].was + 1 ELSE @] \in Shift
    BY <1>2, <1>4 DEF Shift
  <2>3. shift' \in [DOMAIN shift -> Shift] /\ UNCHANGED token
    BY <2>1, <2>2
  <2>4. token' \in [Token -> Override] /\ rows' \in [DOMAIN shift -> Int]
    BY <1>4, <2>1 DEF TypeOK
  <2>5. till' \in Int /\ flows' = flows + 1 /\ cash' \in Int
    BY <1>1, <2>1 DEF Flow
  <2>6. astray' \subseteq DOMAIN shift /\ late' \subseteq DOMAIN shift
    BY <1>1, <1>3, <2>1
  <2> QED
    BY <2>1, <2>3, <2>4, <2>5, <2>6
<1> QED
  BY <1>6, <1>7, <1>8 DEF Till

LEMMA OpenShiftTypes ==
  ASSUME TypeOK, HasNewest, NEW w \in Worker, OpenShift(w)
  PROVE  /\ shift' \in Seq(Shift) /\ rows' \in Seq(Int) /\ Len(rows') = Len(shift')
         /\ DOMAIN shift \subseteq DOMAIN shift' /\ HasNewest'
         /\ astray' \subseteq DOMAIN shift' /\ late' \subseteq DOMAIN shift'
<1> DEFINE new == [st |-> "open", start |-> req[w].was, change |-> 0, refunds |-> 0, moves |-> 0,
                   cash |-> 0, expected |-> 0, actual |-> 0, before |-> cash]
           n == Len(shift)
<1>1. new \in Shift
  <2>1. req[w].was \in Int /\ cash \in Int
    BY DEF TypeOK, Req
  <2> QED
    BY <2>1 DEF Shift
<1>2. shift' = Append(shift, new) /\ rows' = Append(rows, 0)
  BY DEF OpenShift
<1> HIDE DEF new
<1>3. /\ shift' \in Seq(Shift) /\ Len(shift') = n + 1 /\ DOMAIN shift' = 1..(n + 1)
      /\ DOMAIN shift = 1..n /\ n \in Nat
  BY <1>1, <1>2, Numbered, Appended
<1>4. rows' \in Seq(Int) /\ Len(rows') = n + 1
  BY <1>2, Numbered, Appended
<1>5. HasNewest'
  <2> SUFFICES ASSUME NEW S \in SUBSET (1..(n + 1)), S # {}
               PROVE  \E s \in S : \A o \in S : o <= s
    BY <1>3 DEF HasNewest
  <2>1. CASE n + 1 \in S
    BY <1>3, <2>1
  <2>2. CASE n + 1 \notin S
    <3>1. S \in SUBSET (1..n)
      BY <1>3, <2>2
    <3> QED
      BY <1>3, <3>1 DEF HasNewest
  <2> QED
    BY <2>1, <2>2
<1>6. astray \subseteq 1..n /\ late \subseteq 1..n
  BY <1>3 DEF TypeOK
<1>7. astray' \subseteq 1..(n + 1) /\ late' \subseteq 1..(n + 1)
  <2>1. /\ late' = late
        /\ astray' = astray \cup (IF Crossed(w) THEN {n + 1} ELSE {})
    BY DEF OpenShift
  <2>2. 1..n \subseteq 1..(n + 1) /\ n + 1 \in 1..(n + 1)
    BY <1>3
  <2> QED
    BY <1>6, <2>1, <2>2
<1> QED
  BY <1>3, <1>4, <1>5, <1>7

LEMMA ReconcileTypes ==
  ASSUME TypeOK, NEW w \in Worker, Reconcile(w)
  PROVE  /\ shift' \in [DOMAIN shift -> Shift]
         /\ astray' \subseteq DOMAIN shift /\ late' \subseteq DOMAIN shift
<1> DEFINE s == req[w].s
           r == [shift[s] EXCEPT !.cash = cash + req[w].change, !.moves = rows[s],
                                 !.change = req[w].change, !.refunds = req[w].was]
           x == ExpectedCash(r)
<1>1. s \in DOMAIN shift
  BY DEF Reconcile, TypeOK
<1>2. req[w].x \in Int /\ req[w].was \in Int /\ req[w].change \in Int /\ cash \in Int
  BY DEF TypeOK, Req
<1>3. shift[s] \in Shift /\ rows[s] \in Int
  BY <1>1, ShiftTyped
<1>4. /\ r.start = shift[s].start /\ r.cash = cash + req[w].change /\ r.moves = rows[s]
      /\ r.change = req[w].change /\ r.refunds = req[w].was
  BY <1>3 DEF Shift
<1>5. x \in Int /\ r.cash \in Int /\ r.moves \in Int
  <2>1. shift[s].start \in Int
    BY <1>3 DEF Shift
  <2> HIDE DEF r
  <2> QED
    BY <1>2, <1>3, <1>4, <2>1 DEF ExpectedCash
<1>6. shift' = [shift EXCEPT ![s] = [@ EXCEPT !.st = "reconciled", !.cash = r.cash,
                    !.moves = r.moves, !.actual = req[w].x, !.expected = x]]
  BY DEF Reconcile
<1> HIDE DEF r, x
<1>7. [shift[s] EXCEPT !.st = "reconciled", !.cash = r.cash, !.moves = r.moves,
                       !.actual = req[w].x, !.expected = x] \in Shift
  BY <1>2, <1>3, <1>5 DEF Shift
<1>8. shift' \in [DOMAIN shift -> Shift]
  BY <1>1, <1>6, <1>7, Numbered
<1>9. astray' \subseteq DOMAIN shift /\ late' \subseteq DOMAIN shift
  <2>1. /\ astray' = astray \cup (IF Crossed(w) THEN {s} ELSE {})
        /\ late' = late \cup (IF Crossed(w) THEN {s} ELSE {})
    BY DEF Reconcile
  <2> QED
    BY <1>1, <2>1 DEF TypeOK
<1> QED
  BY <1>8, <1>9

\* What a request does to the carts.
LEMMA CartTypes ==
  ASSUME TypeOK, NEW w \in Worker, Park(w) \/ Repark(w) \/ VoidLine(w)
  PROVE  /\ cart' \in [Cart -> [st : Statuses, lines : SUBSET Line]]
         /\ voided' \in [Cart -> SUBSET Line]
         /\ flags' \subseteq {"overlapping parks", "parked again", "overlapping voids"}
         /\ token' \in [Token -> Override] /\ Answer(w) /\ UNCHANGED shifts
<1> DEFINE c == req[w].c
<1>1. /\ cart \in [Cart -> [st : Statuses, lines : SUBSET Line]] /\ voided \in [Cart -> SUBSET Line]
      /\ token \in [Token -> Override] /\ req[w] \in Req
      /\ flags \subseteq {"overlapping parks", "parked again", "overlapping voids"}
  BY DEF TypeOK
<1>2. c \in Cart
  BY DEF TypeOK, Park, Repark, VoidLine
<1>3. req[w].got \subseteq Line /\ req[w].t \in Token \cup {None} /\ req[w].l \in Line \cup {None}
  BY <1>1 DEF Req
<1>4. CASE Park(w)
  <2>1. [st |-> "parked", lines |-> Line] \in [st : Statuses, lines : SUBSET Line]
    BY DEF Statuses
  <2>2. /\ cart' = [cart EXCEPT ![c] = [st |-> "parked", lines |-> Line]]
        /\ flags' = flags \cup (IF RoomForCart THEN {} ELSE {"overlapping parks"})
        /\ Answer(w) /\ UNCHANGED shifts /\ UNCHANGED token /\ UNCHANGED voided
    BY <1>4 DEF Park
  <2> QED
    BY <1>1, <1>2, <2>1, <2>2
<1>5. CASE Repark(w)
  <2> DEFINE st == IF req[w].st = "parked" THEN cart[c].st ELSE "parked"
  <2>1. /\ cart' = [cart EXCEPT ![c] = [st |-> st, lines |-> Line]]
        /\ voided' = [voided EXCEPT ![c] = {}]
        /\ flags' = flags \cup (IF st = cart[c].st THEN {} ELSE {"parked again"})
        /\ Answer(w) /\ UNCHANGED shifts /\ UNCHANGED token
    BY <1>5 DEF Repark
  <2>2. st \in Statuses
    BY <1>1, <1>2 DEF Statuses
  <2> HIDE DEF st
  <2>3. [st |-> st, lines |-> Line] \in [st : Statuses, lines : SUBSET Line]
    BY <2>2
  <2> QED
    BY <1>1, <1>2, <2>1, <2>3
<1>6. CASE VoidLine(w)
  <2>1. /\ Burn(req[w].t) /\ cart' = [cart EXCEPT ![c].lines = LeftLines(req[w])]
        /\ voided' = [voided EXCEPT ![c] = @ \cup {req[w].l}]
        /\ flags' = flags \cup (IF cart[c].lines = req[w].got THEN {} ELSE {"overlapping voids"})
        /\ Answer(w) /\ UNCHANGED shifts
    BY <1>6 DEF VoidLine
  <2>2. token' \in [Token -> Override]
    BY <1>3, <2>1, BurnTypes
  <2>3. req[w].l \in Line
    BY <1>6 DEF TypeOK, VoidLine
  <2> DEFINE new == [cart[c] EXCEPT !.lines = LeftLines(req[w])]
  <2>4. new \in [st : Statuses, lines : SUBSET Line]
    BY <1>1, <1>2, <1>3 DEF LeftLines
  <2>5. cart' = [cart EXCEPT ![c] = new]
    BY <2>1
  <2> HIDE DEF new
  <2> QED
    BY <1>1, <1>2, <2>1, <2>2, <2>3, <2>4, <2>5
<1> QED
  BY <1>4, <1>5, <1>6

\* Every step of a request keeps TypeOK.
LEMMA ClosingTypes ==
  ASSUME TypeOK, HasNewest, NEW w \in Worker, Closing(w)
  PROVE  TypeOK' /\ HasNewest'
<1>1. Answer(w)
  BY TillTypes, CartTypes DEF Closing, OpenShift, Reconcile, OpenDrawer, GiveUp
<1>2. /\ req' \in [Worker -> Req] /\ served' \in Nat
      /\ \A u \in Worker : req'[u].pc # "idle" => u # w /\ req'[u] = req[u]
  <2>1. req \in [Worker -> Req] /\ served \in Nat
    BY DEF TypeOK
  <2>2. Idle.pc = "idle" /\ served' = served
    BY <1>1 DEF Idle, Answer
  <2> QED
    BY <1>1, <2>1, <2>2, Answered
<1>3. /\ \A u \in Worker : req[u].pc \in {"sale", "reconcile"} => req[u].s \in DOMAIN shift
      /\ \A u \in Worker : req[u].pc \in {"park", "repark", "void"} => req[u].c \in Cart
      /\ \A u \in Worker : req[u].pc = "void" => req[u].l \in Line
  BY DEF TypeOK
<1>4. \A u \in Worker : /\ req'[u].pc \in {"park", "repark", "void"} => req'[u].c \in Cart
                        /\ req'[u].pc = "void" => req'[u].l \in Line
  BY <1>2, <1>3
<1> DEFINE Rows == /\ shift' \in Seq(Shift) /\ rows' \in Seq(Int) /\ Len(rows') = Len(shift')
                   /\ astray' \subseteq DOMAIN shift' /\ late' \subseteq DOMAIN shift'
                   /\ DOMAIN shift \subseteq DOMAIN shift' /\ HasNewest'
                   /\ cash' \in Int /\ till' \in Int /\ flows' \in Nat
           Rest2 == /\ token' \in [Token -> Override]
                    /\ cart' \in [Cart -> [st : Statuses, lines : SUBSET Line]]
                    /\ voided' \in [Cart -> SUBSET Line]
                    /\ flags' \subseteq {"overlapping parks", "parked again", "overlapping voids"}
<1>5. /\ UNCHANGED shifts => Rows
      /\ UNCHANGED <<token, carts, flags>> => Rest2
  BY Numbered DEF shifts, carts, TypeOK, HasNewest
<1>6. Rows
  <2>1. ASSUME shift' \in [DOMAIN shift -> Shift], rows' \in [DOMAIN shift -> Int]
        PROVE  /\ shift' \in Seq(Shift) /\ rows' \in Seq(Int) /\ Len(rows') = Len(shift')
               /\ DOMAIN shift' = DOMAIN shift /\ HasNewest'
    <3>1. /\ shift' \in Seq(Shift) /\ rows' \in Seq(Int) /\ Len(rows') = Len(shift')
          /\ DOMAIN shift' = DOMAIN shift
      BY <2>1, Rewritten, Numbered
    <3> QED
      BY <3>1 DEF HasNewest
  <2>2. CASE Till(w)
    <3>1. /\ shift' \in [DOMAIN shift -> Shift] /\ rows' \in [DOMAIN shift -> Int]
          /\ astray' \subseteq DOMAIN shift /\ late' \subseteq DOMAIN shift
          /\ cash' \in Int /\ till' \in Int /\ flows' = flows + 1
      BY <2>2, TillTypes
    <3>2. flows \in Nat
      BY DEF TypeOK
    <3>4. flows' \in Nat
      BY <3>1, <3>2
    <3> QED
      BY <2>1, <3>1, <3>4
  <2>3. CASE OpenShift(w)
    <3>1. UNCHANGED <<cash, till, flows>>
      BY <2>3 DEF OpenShift
    <3> QED
      BY <2>3, <3>1, OpenShiftTypes DEF TypeOK
  <2>4. CASE Reconcile(w)
    <3>1. UNCHANGED <<cash, till, flows, rows>>
      BY <2>4 DEF Reconcile
    <3>2. rows' \in [DOMAIN shift -> Int]
      BY <3>1, Numbered
    <3> QED
      BY <2>1, <2>4, <3>1, <3>2, ReconcileTypes DEF TypeOK
  <2>5. CASE OpenDrawer(w) \/ GiveUp(w)
    BY <1>5, <2>5 DEF OpenDrawer, GiveUp
  <2>6. CASE Park(w) \/ Repark(w) \/ VoidLine(w)
    BY <1>5, <2>6, CartTypes
  <2> QED
    BY <2>2, <2>3, <2>4, <2>5, <2>6 DEF Closing
<1>7. Rest2
  <2>1. CASE Till(w)
    BY <2>1, TillTypes DEF TypeOK, carts
  <2>2. CASE OpenShift(w) \/ Reconcile(w) \/ GiveUp(w)
    BY <1>5, <2>2 DEF OpenShift, Reconcile, GiveUp
  <2>3. CASE OpenDrawer(w)
    <3>1. req[w].t \in Token \cup {None}
      BY DEF TypeOK, Req
    <3>2. token' \in [Token -> Override] /\ UNCHANGED <<carts, flags>>
      BY <2>3, <3>1, BurnTypes DEF OpenDrawer
    <3> QED
      BY <3>2 DEF carts, TypeOK
  <2>4. CASE Park(w) \/ Repark(w) \/ VoidLine(w)
    BY <2>4, CartTypes
  <2> QED
    BY <2>1, <2>2, <2>3, <2>4 DEF Closing
<1>8. \A u \in Worker : req'[u].pc \in {"sale", "reconcile"} => req'[u].s \in DOMAIN shift'
  BY <1>2, <1>3, <1>6
<1> QED
  BY <1>2, <1>4, <1>6, <1>7, <1>8 DEF TypeOK

LEMMA NextTypes ==
  ASSUME TypeOK, HasNewest, [Next]_vars
  PROVE  TypeOK' /\ HasNewest'
BY StepKinds, AsideTypes, OpeningTypes, ClosingTypes

\* Every reachable state is well typed.
THEOREM TypesHold == Spec => []TypeOK
<1>1. Init => TypeOK /\ HasNewest
  BY InitTypes
<1>2. TypeOK /\ HasNewest /\ [Next]_vars => (TypeOK /\ HasNewest)'
  BY NextTypes
<1> QED
  BY <1>1, <1>2, PTL DEF Spec

---------------------------------------------------------------------------
(***************************************************************************)
(* Tokens                                                                  *)
(***************************************************************************)

\* What a request in hand knows of its token.
TokenOf(r) == r.t # None =>
    /\ r.t \in Token
    /\ r.pc = "drawer" => token[r.t].st # "none" /\ token[r.t].act = "drawer"
    /\ r.pc = "void"   => token[r.t].st # "none" /\ token[r.t].act = "void"
    /\ r.pc = "move"   => token[r.t].st # "none" /\ token[r.t].act = "pay" /\ token[r.t].uses = 0

OnceEach == \A t \in Token : token[t].act \in Locked =>
                token[t].uses = 0 \/ (token[t].uses = 1 /\ token[t].st = "used")

\* A token for a movement or a discount is either unused or burnt; whoever holds the lock
\* of the session for a movement is alone and has a token that is not used yet.
TokenUse == /\ OnceEach
            /\ \A w \in Worker : TokenOf(req[w])
            /\ \A w, u \in Worker : req[w].pc = "move" /\ req[u].pc = "move" => w = u

LEMMA TokenOpening ==
  ASSUME TypeOK, TokenUse, NEW w \in Worker, Opening(w)
  PROVE  TokenUse'
<1>1. req \in [Worker -> Req]
  BY DEF TypeOK
<1>2. ASSUME NEW r, Begin(w, r), UNCHANGED token, TokenOf(r), r.pc = "move" => ~Held
      PROVE  TokenUse'
  <2>1. \A u \in Worker : req'[u] = IF u = w THEN r ELSE req[u]
    BY <1>1, <1>2 DEF Begin
  <2>2. \A u \in Worker : TokenOf(req[u])' = IF u = w THEN TokenOf(r) ELSE TokenOf(req[u])
    BY <1>2, <2>1 DEF TokenOf
  <2>3. OnceEach'
    BY <1>2 DEF TokenUse, OnceEach
  <2> QED
    BY <1>2, <2>1, <2>2, <2>3 DEF TokenUse, Held
<1>3. ASSUME NEW r, Begin(w, r), UNCHANGED token, r.t = None, r.pc # "move"
      PROVE  TokenUse'
  BY <1>2, <1>3 DEF TokenOf
<1>4. CASE BeginOpen(w) \/ BeginRefund(w) \/ BeginReconcile(w)
  BY <1>3, <1>4 DEF BeginOpen, BeginRefund, BeginReconcile, Idle
<1>5. ASSUME NEW t \in OptToken, BeginSale(w, t) PROVE TokenUse'
  BY <1>2, <1>5 DEF BeginSale, Idle, TokenOf, OptToken
<1>6. ASSUME NEW x \in {1, -1}, NEW t \in OptToken, BeginMove(w, x, t) PROVE TokenUse'
  <2> DEFINE r == [Idle EXCEPT !.pc = "move", !.s = ActiveShift, !.x = x, !.t = t,
                     !.was = IF ActiveShift = 0 THEN 0 ELSE shift[ActiveShift].moves]
  <2>1. Begin(w, r) /\ UNCHANGED token /\ ~Held /\ Allowed(t, "pay")
    BY <1>6 DEF BeginMove
  <2>2. r.pc = "move" /\ r.t = t
    BY DEF Idle
  <2>3. t # None => t \in Token /\ token[t].uses = 0
    BY <2>1 DEF TokenUse, OnceEach, Allowed, Locked, OptToken
  <2>4. TokenOf(r)
    BY <2>1, <2>2, <2>3 DEF TokenOf, Allowed
  <2> QED
    BY <1>2, <2>1, <2>4
<1>7. ASSUME NEW c \in Cart, BeginPark(w, c) \/ BeginRepark(w, c) PROVE TokenUse'
  BY <1>3, <1>7 DEF BeginPark, BeginRepark, Idle
<1>8. ASSUME NEW c \in Cart, NEW l \in Line, NEW t \in OptToken, BeginVoid(w, c, l, t)
      PROVE  TokenUse'
  BY <1>2, <1>8 DEF BeginVoid, Idle, TokenOf, OptToken, Allowed
<1>9. ASSUME NEW t \in Token, BeginDrawer(w, t) PROVE TokenUse'
  BY <1>2, <1>9 DEF BeginDrawer, Idle, TokenOf, Allowed
<1> QED
  BY <1>4, <1>5, <1>6, <1>7, <1>8, <1>9 DEF Opening

\* Nothing but an answered request, and perhaps the token it used.
LEMMA TokenClosing ==
  ASSUME TypeOK, TokenUse, NEW w \in Worker, Closing(w)
  PROVE  TokenUse'
<1>1. /\ req \in [Worker -> Req] /\ token \in [Token -> Override] /\ req[w].t \in Token \cup {None}
  BY DEF TypeOK, Req
<1>2. Answer(w)
  BY TillTypes, CartTypes DEF Closing, OpenShift, Reconcile, OpenDrawer, GiveUp
<1>3. \A u \in Worker : req'[u] = IF u = w THEN Idle ELSE req[u]
  BY <1>2, Answered
<1>4. TokenOf(Idle) /\ TokenOf(Idle)' /\ Idle.pc = "idle"
  BY DEF Idle, TokenOf
<1>5. ASSUME \A u \in Worker : u # w => TokenOf(req[u])', OnceEach' PROVE TokenUse'
  <2>1. \A u \in Worker : TokenOf(req[u])'
    BY <1>3, <1>4, <1>5 DEF TokenOf
  <2> QED
    BY <1>3, <1>4, <1>5, <2>1 DEF TokenUse
<1>6. CASE UNCHANGED token
  BY <1>3, <1>5, <1>6 DEF TokenUse, OnceEach, TokenOf
<1>7. ASSUME NEW t \in Token, req[w].t = t, Burn(t),
             token[t].act \in Locked => token[t].uses = 0 /\ \A u \in Worker : u # w => req[u].pc # "move"
      PROVE  TokenUse'
  <2>1. t # None
    BY RegisterAssumption
  <2>2. token' = [token EXCEPT ![t] = [act |-> token[t].act, st |-> "used", uses |-> token[t].uses + 1]]
    BY <2>1, <1>7 DEF Burn
  <2>3. \A v \in Token : v # t => token'[v] = token[v]
    BY <1>1, <2>2
  <2>4. token'[t].act = token[t].act /\ token'[t].st = "used" /\ token'[t].uses = token[t].uses + 1
    BY <1>1, <2>2
  <2>5. OnceEach'
    BY <1>7, <2>3, <2>4 DEF TokenUse, OnceEach
  <2>6. ASSUME NEW u \in Worker, u # w PROVE TokenOf(req[u])'
    <3>1. req'[u] = req[u] /\ TokenOf(req[u])
      BY <1>3, <2>6 DEF TokenUse
    <3>2. CASE req[u].t # t
      BY <2>3, <3>1, <3>2 DEF TokenOf
    <3>3. CASE req[u].t = t
      <4>1. req[u].pc # "move"
        BY <1>7, <2>1, <2>6, <3>1, <3>3 DEF TokenOf, Locked
      <4> QED
        BY <2>4, <3>1, <3>3, <4>1 DEF TokenOf
    <3> QED
      BY <3>2, <3>3
  <2> QED
    BY <1>5, <2>5, <2>6
<1>8. ASSUME Burn(req[w].t),
             req[w].t # None /\ token[req[w].t].act \in Locked =>
                 token[req[w].t].uses = 0 /\ \A u \in Worker : u # w => req[u].pc # "move"
      PROVE  TokenUse'
  BY <1>1, <1>6, <1>7, <1>8 DEF Burn
<1>9. CASE Sale(w)
  BY <1>1, <1>8, <1>9 DEF Sale, Allowed, Held, TokenUse, OnceEach
<1>10. CASE Move(w)
  BY <1>1, <1>8, <1>10 DEF Move, TokenUse, TokenOf
<1>11. CASE OpenDrawer(w)
  BY <1>1, <1>8, <1>11 DEF OpenDrawer, TokenUse, TokenOf, Locked
<1>12. CASE VoidLine(w)
  BY <1>1, <1>8, <1>12 DEF VoidLine, TokenUse, TokenOf, Locked
<1>13. CASE Refund(w) \/ OpenShift(w) \/ Reconcile(w) \/ Park(w) \/ Repark(w) \/ GiveUp(w)
  BY <1>6, <1>13 DEF Refund, OpenShift, Reconcile, Park, Repark, GiveUp
<1> QED
  BY <1>9, <1>10, <1>11, <1>12, <1>13 DEF Closing, Till

LEMMA TokenAside ==
  ASSUME TypeOK, TokenUse, Aside
  PROVE  TokenUse'
<1>1. CASE UNCHANGED <<token, req>>
  BY <1>1 DEF TokenUse, OnceEach, TokenOf
<1>2. ASSUME NEW t \in Token, Expire(t) \/ \E a \in Acts : Authorize(t, a)
      PROVE  TokenUse'
  <2>1. token \in [Token -> Override] /\ UNCHANGED req
    BY <1>2 DEF TypeOK, Expire, Authorize
  <2>2. \A v \in Token : v # t => token'[v] = token[v]
    BY <1>2, <2>1 DEF Expire, Authorize
  <2>3. CASE Expire(t)
    <3>1. /\ token[t].st = "fresh" /\ token'[t].st = "expired" /\ token'[t].act = token[t].act
          /\ token'[t].uses = token[t].uses
      BY <2>1, <2>3 DEF Expire, Override
    <3> QED
      BY <2>1, <2>2, <3>1 DEF TokenUse, OnceEach, TokenOf
  <2>4. CASE \E a \in Acts : Authorize(t, a)
    <3>1. token[t].st = "none" /\ token'[t].uses = 0
      BY <2>1, <2>4 DEF Authorize
    <3>2. ASSUME NEW u \in Worker PROVE TokenOf(req[u])'
      BY <2>1, <2>2, <3>1 DEF TokenUse, TokenOf
    <3>3. OnceEach'
      BY <2>2, <3>1 DEF TokenUse, OnceEach
    <3> QED
      BY <2>1, <3>2, <3>3 DEF TokenUse
  <2> QED
    BY <1>2, <2>3, <2>4
<1> QED
  BY <1>1, <1>2 DEF Aside, ResumeCart, DeleteCart, vars

\* A token for a movement or a discount is used once, whatever else uses tokens meanwhile
\* (pos_override_service under the lock of the session).
THEOREM TokenOnce == Spec => []LockedTokenOnce
<1>1. Init => TokenUse
  BY DEF Init, TokenUse, OnceEach, TokenOf, Idle
<1>2. TypeOK /\ HasNewest /\ TokenUse /\ [Next]_vars => TokenUse'
  BY StepKinds, TokenAside, TokenOpening, TokenClosing
<1>3. TypeOK /\ TokenUse => LockedTokenOnce
  BY DEF TokenUse, OnceEach, LockedTokenOnce
<1> QED
  BY <1>1, <1>2, <1>3, InitTypes, NextTypes, PTL DEF Spec

---------------------------------------------------------------------------
(***************************************************************************)
(* Carts                                                                   *)
(***************************************************************************)

\* A cart not parked yet has lost no line, one whose line is being voided has been parked,
\* and what was voided is gone unless requests overlapped.
VoidState == /\ VoidsHold
             /\ \A c \in Cart : cart[c].st = "none" => voided[c] = {}
             /\ \A w \in Worker : req[w].pc = "void" => cart[req[w].c].st # "none"

LEMMA CartFields ==
  ASSUME NEW q \in [st : Statuses, lines : SUBSET Line], NEW L, NEW st
  PROVE  /\ [q EXCEPT !.lines = L] = [st |-> q.st, lines |-> L]
         /\ [q EXCEPT !.st = st] = [st |-> st, lines |-> q.lines]
OBVIOUS

\* One step changes one cart, and no parked cart becomes a new one.
LEMMA VoidKept ==
  ASSUME TypeOK, VoidState, NEW c \in Cart, NEW st \in Statuses, NEW L \in SUBSET Line,
         NEW V \in SUBSET Line, flags \subseteq flags',
         cart' = [cart EXCEPT ![c] = [st |-> st, lines |-> L]],
         voided' = [voided EXCEPT ![c] = V],
         cart[c].st # "none" => st # "none", st = "none" => V = {},
         "overlapping voids" \in flags' \/ V \cap L = {},
         \A u \in Worker : req'[u].pc = "void" => req'[u] = req[u]
  PROVE  VoidState'
<1>1. /\ cart \in [Cart -> [st : Statuses, lines : SUBSET Line]] /\ voided \in [Cart -> SUBSET Line]
      /\ \A u \in Worker : req[u].pc = "void" => req[u].c \in Cart
  BY DEF TypeOK
<1>2. /\ cart'[c].st = st /\ cart'[c].lines = L /\ voided'[c] = V
      /\ \A d \in Cart : d # c => cart'[d] = cart[d] /\ voided'[d] = voided[d]
  BY <1>1
<1>3. VoidsHold'
  BY <1>2 DEF VoidState, VoidsHold
<1>4. \A d \in Cart : cart'[d].st = "none" => voided'[d] = {}
  BY <1>2 DEF VoidState
<1>5. \A u \in Worker : req'[u].pc = "void" => cart'[req'[u].c].st # "none"
  BY <1>1, <1>2 DEF VoidState
<1> QED
  BY <1>3, <1>4, <1>5 DEF VoidState

LEMMA VoidNext ==
  ASSUME TypeOK, VoidState, [Next]_vars
  PROVE  VoidState'
<1>1. /\ cart \in [Cart -> [st : Statuses, lines : SUBSET Line]] /\ voided \in [Cart -> SUBSET Line]
      /\ req \in [Worker -> Req] /\ \A u \in Worker : req[u].pc = "void" => req[u].c \in Cart
  BY DEF TypeOK
<1>2. ASSUME UNCHANGED <<cart, voided, flags>>,
             \A u \in Worker : req'[u].pc = "void" => \/ req'[u] = req[u]
                                                      \/ cart[req'[u].c].st # "none"
      PROVE  VoidState'
  BY <1>2 DEF VoidState, VoidsHold
<1>3. ASSUME NEW w \in Worker, Answer(w)
      PROVE  \A u \in Worker : req'[u].pc = "void" => req'[u] = req[u]
  BY <1>3, Answered DEF Idle
<1>4. ASSUME NEW w \in Worker, Opening(w) PROVE VoidState'
  <2>1. ASSUME NEW r, Begin(w, r), r.pc = "void" => cart[r.c].st # "none" PROVE VoidState'
    <3>1. \A u \in Worker : req'[u] = IF u = w THEN r ELSE req[u]
      BY <1>1, <2>1 DEF Begin
    <3> QED
      BY <1>2, <2>1, <3>1 DEF Begin, carts
  <2>2. CASE BeginOpen(w) \/ BeginRefund(w) \/ BeginReconcile(w) \/ \E t \in OptToken : BeginSale(w, t)
    BY <2>1, <2>2 DEF BeginOpen, BeginRefund, BeginReconcile, BeginSale, Idle
  <2>3. ASSUME NEW x \in {1, -1}, NEW t \in OptToken, BeginMove(w, x, t) PROVE VoidState'
    BY <2>1, <2>3 DEF BeginMove, Idle
  <2>4. ASSUME NEW c \in Cart, BeginPark(w, c) \/ BeginRepark(w, c) PROVE VoidState'
    BY <2>1, <2>4 DEF BeginPark, BeginRepark, Idle
  <2>5. ASSUME NEW c \in Cart, NEW l \in Line, NEW t \in OptToken, BeginVoid(w, c, l, t)
        PROVE  VoidState'
    BY <2>1, <2>5 DEF BeginVoid, Idle
  <2>6. ASSUME NEW t \in Token, BeginDrawer(w, t) PROVE VoidState'
    BY <2>1, <2>6 DEF BeginDrawer, Idle
  <2> QED
    BY <1>4, <2>2, <2>3, <2>4, <2>5, <2>6 DEF Opening
<1>5. ASSUME NEW w \in Worker, Closing(w) PROVE VoidState'
  <2>1. CASE Till(w) \/ OpenShift(w) \/ Reconcile(w) \/ OpenDrawer(w) \/ GiveUp(w)
    <3>1. UNCHANGED <<carts, flags>> /\ Answer(w)
      BY <2>1, TillTypes DEF OpenShift, Reconcile, OpenDrawer, GiveUp
    <3> QED
      BY <1>2, <1>3, <3>1 DEF carts
  <2>2. CASE Park(w)
    <3>1. /\ req[w].c \in Cart /\ "parked" \in Statuses /\ cart[req[w].c].st = "none"
          /\ cart' = [cart EXCEPT ![req[w].c] = [st |-> "parked", lines |-> Line]]
          /\ Answer(w) /\ voided' = voided /\ flags \subseteq flags'
      BY <2>2 DEF Park, TypeOK, Statuses
    <3>2. voided[req[w].c] = {} /\ voided' = [voided EXCEPT ![req[w].c] = {}]
      BY <1>1, <3>1 DEF VoidState
    <3>3. \A u \in Worker : req'[u].pc = "void" => req'[u] = req[u]
      BY <1>3, <3>1
    <3> DEFINE st == "parked"
    <3>4. /\ req[w].c \in Cart /\ st \in Statuses /\ st # "none" /\ flags \subseteq flags'
          /\ cart' = [cart EXCEPT ![req[w].c] = [st |-> st, lines |-> Line]]
          /\ {} \cap Line = {} /\ {} \in SUBSET Line /\ Line \in SUBSET Line
      BY <3>1
    <3> HIDE DEF st
    <3> QED
      BY <3>2, <3>3, <3>4, VoidKept
  <2>3. CASE Repark(w)
    <3> DEFINE st == IF req[w].st = "parked" THEN cart[req[w].c].st ELSE "parked"
    <3>1. /\ req[w].c \in Cart /\ Answer(w) /\ flags \subseteq flags'
          /\ cart' = [cart EXCEPT ![req[w].c] = [st |-> st, lines |-> Line]]
          /\ voided' = [voided EXCEPT ![req[w].c] = {}]
      BY <2>3 DEF Repark, TypeOK
    <3>2. st \in Statuses /\ (cart[req[w].c].st # "none" => st # "none")
      BY <1>1, <3>1 DEF Statuses
    <3>3. \A u \in Worker : req'[u].pc = "void" => req'[u] = req[u]
      BY <1>3, <3>1
    <3>4. (st = "none" => {} = {}) /\ {} \cap Line = {} /\ {} \in SUBSET Line /\ Line \in SUBSET Line
      OBVIOUS
    <3> HIDE DEF st
    <3> QED
      BY <3>1, <3>2, <3>3, <3>4, VoidKept
  <2>4. CASE VoidLine(w)
    <3> DEFINE c == req[w].c
               L == req[w].got \ {req[w].l}
               V == voided[c] \cup {req[w].l}
    <3>1. /\ cart' = [cart EXCEPT ![c].lines = LeftLines(req[w])]
          /\ voided' = [voided EXCEPT ![c] = V] /\ req[w].pc = "void"
          /\ flags' = flags \cup (IF cart[c].lines = req[w].got THEN {} ELSE {"overlapping voids"})
          /\ Answer(w)
      BY <2>4 DEF VoidLine
    <3>2. c \in Cart /\ req[w].l \in Line /\ req[w].got \subseteq Line /\ cart[c].st # "none"
      BY <1>1, <3>1 DEF TypeOK, Req, VoidState
    <3>3. /\ cart' = [cart EXCEPT ![c] = [st |-> cart[c].st, lines |-> L]]
          /\ L \subseteq Line /\ V \subseteq Line /\ cart[c].st \in Statuses
      <4>1. cart' = [cart EXCEPT ![c] = [cart[c] EXCEPT !.lines = L]]
        BY <3>1 DEF LeftLines
      <4>2. cart[c] \in [st : Statuses, lines : SUBSET Line]
        BY <1>1, <3>2
      <4> QED
        BY <1>1, <3>2, <4>1, <4>2, CartFields
    <3>4. "overlapping voids" \in flags' \/ V \cap L = {}
      BY <3>1, <3>2 DEF VoidState, VoidsHold
    <3> HIDE DEF L, V
    <3> QED
      BY <1>3, <3>1, <3>2, <3>3, <3>4, VoidKept
  <2> QED
    BY <1>5, <2>1, <2>2, <2>3, <2>4 DEF Closing
<1>6. ASSUME NEW c \in Cart, ResumeCart(c) PROVE VoidState'
  <2>1. /\ cart' = [cart EXCEPT ![c] = [st |-> "resumed", lines |-> cart[c].lines]]
        /\ cart[c].st = "parked" /\ UNCHANGED <<voided, req, flags>>
    <3>1. cart' = [cart EXCEPT ![c] = [cart[c] EXCEPT !.st = "resumed"]]
      BY <1>6 DEF ResumeCart
    <3> QED
      BY <1>1, <1>6, <3>1, CartFields DEF ResumeCart
  <2>2. voided' = [voided EXCEPT ![c] = voided[c]] /\ "resumed" \in Statuses
    BY <1>1, <2>1 DEF Statuses
  <2>3. "overlapping voids" \in flags \/ voided[c] \cap cart[c].lines = {}
    BY DEF VoidState, VoidsHold
  <2> QED
    <3>1. /\ cart[c].st # "none" => "resumed" # "none"
          /\ "resumed" = "none" => voided[c] = {}
          /\ \A u \in Worker : req'[u].pc = "void" => req'[u] = req[u]
          /\ cart[c].lines \in SUBSET Line /\ voided[c] \in SUBSET Line /\ flags' = flags
      BY <1>1, <2>1
    <3> QED
      BY <2>1, <2>2, <2>3, <3>1, VoidKept
<1>7. ASSUME NEW c \in Cart, DeleteCart(c) PROVE VoidState'
  <2>1. "deleted" \in Statuses
    BY DEF Statuses
  <2> QED
    BY <1>7, <2>1, VoidKept DEF DeleteCart
<1>8. CASE (\E t \in Token : Expire(t) \/ \E a \in Acts : Authorize(t, a)) \/ UNCHANGED vars
  BY <1>2, <1>8 DEF Expire, Authorize, carts, vars
<1> QED
  BY <1>4, <1>5, <1>6, <1>7, <1>8, StepKinds DEF Aside

\* A line voided on a supervisor's word stays out of the cart, unless requests for the cart
\* overlapped (void_line, park_cart).
THEOREM VoidedStaysOut == Spec => []VoidsHold
<1>1. Init => VoidState
  BY DEF Init, VoidState, VoidsHold, Idle
<1>2. VoidState => VoidsHold
  BY DEF VoidState
<1> QED
  BY <1>1, <1>2, InitTypes, NextTypes, VoidNext, PTL DEF Spec

LEMMA LimitNext ==
  ASSUME TypeOK, CartsWithinLimit, [Next]_vars
  PROVE  CartsWithinLimit'
<1>1. /\ cart \in [Cart -> [st : Statuses, lines : SUBSET Line]]
      /\ \A u \in Worker : req[u].pc \in {"park", "repark", "void"} => req[u].c \in Cart
  BY DEF TypeOK
<1>2. /\ IsFiniteSet(Parked) /\ Cardinality(Parked) \in Nat /\ MaxCarts \in Nat
      /\ \A S : S \subseteq Parked => Cardinality(S) \in Nat /\ Cardinality(S) <= Cardinality(Parked)
  <2>1. IsFiniteSet(Parked) /\ MaxCarts \in Nat
    BY FS_Subset, RegisterAssumption DEF Parked
  <2> QED
    BY <2>1, FS_Subset, FS_CardinalityType
<1>3. ASSUME Parked' \subseteq Parked, flags \subseteq flags' PROVE CartsWithinLimit'
  <2>1. Cardinality(Parked') \in Nat /\ Cardinality(Parked') <= Cardinality(Parked)
    BY <1>2, <1>3
  <2> DEFINE n == Cardinality(Parked)
             m == Cardinality(Parked')
  <2>2. /\ flags \cap {"overlapping parks", "parked again"} # {} \/ n <= MaxCarts
        /\ n \in Nat /\ m \in Nat /\ m <= n /\ MaxCarts \in Nat
    BY <1>2, <2>1 DEF CartsWithinLimit
  <2> HIDE DEF n, m
  <2>3. flags' \cap {"overlapping parks", "parked again"} # {} \/ m <= MaxCarts
    <3>1. n \in Nat /\ m \in Nat /\ m <= n /\ MaxCarts \in Nat
      BY <2>2
    <3>2. n <= MaxCarts => m <= MaxCarts
      BY <3>1
    <3> QED
      BY <1>3, <2>2, <3>2
  <2> QED
    BY <2>3 DEF CartsWithinLimit, m
<1>4. ASSUME UNCHANGED <<cart, flags>> PROVE CartsWithinLimit'
  BY <1>3, <1>4 DEF Parked
<1>5. ASSUME NEW w \in Worker, Opening(w) PROVE CartsWithinLimit'
  BY <1>4, <1>5 DEF Opening, BeginOpen, BeginSale, BeginMove, BeginRefund, BeginReconcile,
       BeginPark, BeginRepark, BeginVoid, BeginDrawer, Begin, carts
<1>6. ASSUME NEW w \in Worker, Park(w) PROVE CartsWithinLimit'
  <2>1. /\ req[w].c \in Cart /\ flags' = flags \cup (IF RoomForCart THEN {} ELSE {"overlapping parks"})
        /\ cart' = [cart EXCEPT ![req[w].c] = [st |-> "parked", lines |-> Line]]
    BY <1>1, <1>6 DEF Park
  <2>2. CASE ~RoomForCart
    BY <2>1, <2>2 DEF CartsWithinLimit
  <2>3. CASE RoomForCart
    <3>1. Parked' = Parked \cup {req[w].c}
      BY <1>1, <2>1 DEF Parked
    <3>2. Cardinality(Parked') <= Cardinality(Parked) + 1
      BY <1>2, <3>1, FS_AddElement
    <3>3. Cardinality(Parked) + 1 <= MaxCarts
      BY <1>2, <2>3 DEF RoomForCart
    <3>4. IsFiniteSet(Parked')
      BY <1>2, <3>1, FS_AddElement
    <3>5. Cardinality(Parked') \in Nat
      BY <3>4, FS_CardinalityType
    <3> DEFINE n == Cardinality(Parked)
               m == Cardinality(Parked')
    <3>6. n \in Nat /\ m \in Nat /\ m <= n + 1 /\ n + 1 <= MaxCarts /\ MaxCarts \in Nat
      BY <1>2, <3>2, <3>3, <3>5
    <3> HIDE DEF n, m
    <3>7. m <= MaxCarts
      BY <3>6
    <3> QED
      BY <3>7 DEF CartsWithinLimit, m
  <2> QED
    BY <2>2, <2>3
<1>7. ASSUME NEW w \in Worker, Repark(w) PROVE CartsWithinLimit'
  <2> DEFINE c == req[w].c
             st == IF req[w].st = "parked" THEN cart[c].st ELSE "parked"
  <2>1. /\ c \in Cart /\ flags' = flags \cup (IF st = cart[c].st THEN {} ELSE {"parked again"})
        /\ cart' = [cart EXCEPT ![c] = [st |-> st, lines |-> Line]]
    BY <1>1, <1>7 DEF Repark
  <2> HIDE DEF st
  <2>2. CASE st # cart[c].st
    BY <2>1, <2>2 DEF CartsWithinLimit
  <2>3. CASE st = cart[c].st
    BY <1>1, <1>3, <2>1, <2>3 DEF Parked
  <2> QED
    BY <2>2, <2>3
<1>8. ASSUME NEW w \in Worker, VoidLine(w) PROVE CartsWithinLimit'
  <2>1. /\ req[w].c \in Cart /\ flags \subseteq flags'
        /\ cart' = [cart EXCEPT ![req[w].c].lines = LeftLines(req[w])]
    BY <1>1, <1>8 DEF VoidLine
  <2> QED
    BY <1>1, <1>3, <2>1 DEF Parked
<1>9. ASSUME NEW w \in Worker, Closing(w) PROVE CartsWithinLimit'
  <2>1. CASE Till(w) \/ OpenShift(w) \/ Reconcile(w) \/ OpenDrawer(w) \/ GiveUp(w)
    BY <1>4, <2>1, TillTypes DEF OpenShift, Reconcile, OpenDrawer, GiveUp, carts
  <2> QED
    BY <1>6, <1>7, <1>8, <1>9, <2>1 DEF Closing
<1>10. ASSUME NEW c \in Cart, ResumeCart(c) \/ DeleteCart(c) PROVE CartsWithinLimit'
  <2>1. Parked' \subseteq Parked
    BY <1>1, <1>10 DEF ResumeCart, DeleteCart, Parked
  <2> QED
    BY <1>3, <1>10, <2>1 DEF ResumeCart, DeleteCart
<1>11. CASE (\E t \in Token : Expire(t) \/ \E a \in Acts : Authorize(t, a)) \/ UNCHANGED vars
  BY <1>4, <1>11 DEF Expire, Authorize, carts, vars
<1> QED
  BY <1>5, <1>9, <1>10, <1>11, StepKinds DEF Aside

\* The limit of parked carts is passed only by overlapping parkings and by parking a resumed
\* cart again (park_cart counts before it inserts, and only for a new cart).
THEOREM LimitKept == Spec => []CartsWithinLimit
<1>1. Init => CartsWithinLimit
  <2> SUFFICES ASSUME Init PROVE CartsWithinLimit
    OBVIOUS
  <2>1. Parked = {}
    BY DEF Init, Parked
  <2>2. Cardinality(Parked) = 0
    BY <2>1, FS_EmptySet
  <2>3. 0 <= MaxCarts
    BY RegisterAssumption
  <2> QED
    BY <2>2, <2>3 DEF CartsWithinLimit
<1> QED
  BY <1>1, InitTypes, NextTypes, LimitNext, PTL DEF Spec

---------------------------------------------------------------------------
(***************************************************************************)
(* The count of the drawer                                                 *)
(***************************************************************************)

\* What an open shift is charged with is what lies in the drawer.
Even(s) == shift[s].start + cash - shift[s].refunds + rows[s] = till + shift[s].before

\* The two promises of CountBalances about one shift.
Counted(s) == s \in astray \/ shift[s].expected = shift[s].actual + shift[s].before
Written(s) == s \in late \/ shift[s].expected = ExpectedCash(shift[s])

\* What a request has read is true as long as no cash moved.
Fresh(w) ==
    /\ req[w].pc \in {"open", "reconcile"} => req[w].saw <= flows
    /\ req[w].pc = "open" /\ req[w].saw = flows => req[w].was = till
    /\ req[w].pc = "reconcile" /\ req[w].saw = flows =>
         LET s == req[w].s IN
         /\ shift[s].refunds = req[w].was /\ shift[s].change = req[w].change
         /\ \/ s \in astray
            \/ shift[s].start + cash - req[w].was + rows[s] = req[w].x + shift[s].before

ShiftBook(s) == /\ shift[s].st = "open" => s \in astray \/ Even(s)
                /\ shift[s].st = "reconciled" => Counted(s) /\ Written(s)

\* The open shifts are even with the drawer, and a request that is about to write a shift
\* either knows its figures or writes them when cash has moved.
Book == /\ \A s \in DOMAIN shift : ShiftBook(s)
        /\ \A w \in Worker : Fresh(w)

LEMMA Numbers ==
  ASSUME TypeOK
  PROVE  /\ cash \in Int /\ till \in Int /\ flows \in Nat
         /\ \A s \in DOMAIN shift :
              /\ rows[s] \in Int /\ shift[s].st \in {"open", "reconciled"}
              /\ shift[s].start \in Int /\ shift[s].change \in Int /\ shift[s].refunds \in Int
              /\ shift[s].moves \in Int /\ shift[s].cash \in Int /\ shift[s].before \in Int
              /\ shift[s].expected \in Int /\ shift[s].actual \in Int
         /\ \A w \in Worker :
              /\ req[w].saw \in Nat /\ req[w].was \in Int /\ req[w].x \in Int
              /\ req[w].change \in Int
<1>1. cash \in Int /\ till \in Int /\ flows \in Nat /\ req \in [Worker -> Req]
  BY DEF TypeOK
<1>2. \A s \in DOMAIN shift : rows[s] \in Int /\ shift[s] \in Shift
  BY ShiftTyped
<1> QED
  BY <1>1, <1>2 DEF Shift, Req

\* What a request that takes or gives cash changes of a shift.
LEMMA TillFields ==
  ASSUME TypeOK, NEW w \in Worker, Till(w), NEW o \in DOMAIN shift
  PROVE  /\ shift'[o].st = shift[o].st /\ shift'[o].start = shift[o].start
         /\ shift'[o].before = shift[o].before /\ shift'[o].cash = shift[o].cash
         /\ shift'[o].expected = shift[o].expected /\ shift'[o].actual = shift[o].actual
         /\ Sale(w) => /\ shift'[o].refunds = shift[o].refunds
                       /\ shift'[o].moves = shift[o].moves
                       /\ o # req[w].s => shift'[o].change = shift[o].change
         /\ Move(w) => /\ shift'[o].refunds = shift[o].refunds
                       /\ shift'[o].change = shift[o].change
                       /\ o # req[w].s => shift'[o].moves = shift[o].moves
         /\ Refund(w) => /\ shift'[o].moves = shift[o].moves
                         /\ shift'[o].change = shift[o].change
                         /\ shift'[o].refunds = IF o = req[w].s THEN req[w].was + 1
                                                ELSE shift[o].refunds
<1>1. shift[o] \in Shift /\ shift \in [DOMAIN shift -> Shift]
  BY ShiftTyped, Numbered
<1>2. ASSUME NEW v PROVE
        /\ [shift[o] EXCEPT !.change = v].st = shift[o].st
        /\ [shift[o] EXCEPT !.change = v].start = shift[o].start
        /\ [shift[o] EXCEPT !.change = v].before = shift[o].before
        /\ [shift[o] EXCEPT !.change = v].cash = shift[o].cash
        /\ [shift[o] EXCEPT !.change = v].expected = shift[o].expected
        /\ [shift[o] EXCEPT !.change = v].actual = shift[o].actual
        /\ [shift[o] EXCEPT !.change = v].refunds = shift[o].refunds
        /\ [shift[o] EXCEPT !.change = v].moves = shift[o].moves
  BY <1>1 DEF Shift
<1>3. CASE Sale(w)
  <2>1. shift' = [shift EXCEPT ![req[w].s].change = @ + 1]
    BY <1>3 DEF Sale
  <2>2. shift'[o] = IF o = req[w].s THEN [shift[o] EXCEPT !.change = shift[o].change + 1]
                    ELSE shift[o]
    BY <1>1, <2>1
  <2>3. ~Move(w) /\ ~Refund(w)
    BY <1>3 DEF Sale, Move, Refund
  <2> QED
    BY <1>2, <2>2, <2>3
<1>4. CASE Move(w)
  <2>1. shift'[o] = [shift[o] EXCEPT !.moves =
                        IF o = req[w].s THEN req[w].was + req[w].x ELSE shift[o].moves]
    BY <1>1, <1>4 DEF Move
  <2>2. ~Sale(w) /\ ~Refund(w)
    BY <1>4 DEF Sale, Move, Refund
  <2> QED
    BY <1>1, <2>1, <2>2 DEF Shift
<1>5. CASE Refund(w)
  <2>1. shift'[o] = [shift[o] EXCEPT !.refunds =
                        IF o = req[w].s THEN req[w].was + 1 ELSE shift[o].refunds]
    BY <1>1, <1>5 DEF Refund
  <2>2. ~Sale(w) /\ ~Move(w)
    BY <1>5 DEF Sale, Move, Refund
  <2> QED
    BY <1>1, <2>1, <2>2 DEF Shift
<1> QED
  BY <1>3, <1>4, <1>5 DEF Till

LEMMA TillBook ==
  ASSUME TypeOK, Book, NEW w \in Worker, Till(w)
  PROVE  Book'
<1> DEFINE s == req[w].s
<1>1. /\ flows' = flows + 1 /\ DOMAIN shift' = DOMAIN shift
      /\ \A u \in Worker : req'[u] = IF u = w THEN Idle ELSE req[u]
  BY TillTypes, Answered
<1>2. astray \subseteq astray' /\ late' = late \cup Reconciled(s)
  BY DEF Till, Sale, Move, Refund
<1>3. ASSUME NEW u \in Worker PROVE Fresh(u)'
  <2>1. CASE u = w
    BY <1>1, <2>1 DEF Fresh, Idle
  <2>2. CASE u # w
    <3>1. req'[u] = req[u] /\ (req[u].pc \in {"open", "reconcile"} => req[u].saw <= flows)
      BY <1>1, <2>2 DEF Book, Fresh
    <3>2. req[u].pc \in {"open", "reconcile"} => req[u].saw <= flows' /\ req[u].saw # flows'
      BY <1>1, <3>1, Numbers
    <3> QED
      BY <3>1, <3>2 DEF Fresh
  <2> QED
    BY <2>1, <2>2
<1>4. ASSUME NEW o \in DOMAIN shift PROVE ShiftBook(o)'
  <2>1. CASE shift[o].st = "reconciled"
    <3>1. shift'[o].st = "reconciled" /\ Counted(o) /\ Written(o)
      BY <2>1, TillFields DEF Book, ShiftBook
    <3>2. Counted(o)'
      BY <1>2, <3>1, TillFields DEF Counted
    <3>3. Written(o)'
      <4>1. CASE o = s
        BY <1>2, <2>1, <4>1 DEF Written, Reconciled
      <4>2. CASE o # s
        BY <1>2, <3>1, <4>2, TillFields DEF Written, ExpectedCash, Till
      <4> QED
        BY <4>1, <4>2
    <3> QED
      BY <3>1, <3>2, <3>3 DEF ShiftBook
  <2>2. CASE shift[o].st = "open"
    <3>1. shift'[o].st = "open" /\ (o \in astray \/ Even(o))
      BY <2>2, TillFields DEF Book, ShiftBook
    <3>2. /\ shift'[o].start = shift[o].start /\ shift'[o].before = shift[o].before
      BY TillFields
    <3>3. /\ cash \in Int /\ till \in Int /\ rows[o] \in Int /\ shift[o].start \in Int
          /\ shift[o].refunds \in Int /\ shift[o].before \in Int /\ req[w].x \in Int
          /\ rows \in [DOMAIN shift -> Int]
      BY Numbers, Numbered
    <3>4. o \in astray' \/ Even(o)'
      <4>1. CASE o \in astray
        BY <1>2, <4>1
      <4>2. CASE Sale(w) /\ Even(o)
        <5>1. /\ cash' = cash + 1 /\ till' = till + 1 /\ rows' = rows
              /\ shift'[o].refunds = shift[o].refunds
          BY <4>2, TillFields DEF Sale, Flow
        <5>2. shift[o].start + cash - shift[o].refunds + rows[o] = till + shift[o].before
          BY <4>2 DEF Even
        <5>3. shift[o].start + (cash + 1) - shift[o].refunds + rows[o] = till + 1 + shift[o].before
          BY <3>3, <5>2
        <5> QED
          BY <3>2, <5>1, <5>3 DEF Even
      <4>3. CASE Move(w) /\ Even(o)
        <5>1. /\ cash' = cash /\ till' = till + req[w].x
              /\ rows' = [d \in DOMAIN shift |-> rows[d] + (IF d = s THEN req[w].x ELSE 0)]
              /\ shift'[o].refunds = shift[o].refunds /\ astray' = astray \cup PassedBy(s)
          BY <4>3, TillFields DEF Move, Flow
        <5>2. CASE o = s
          <6>1. rows'[o] = rows[o] + req[w].x
            BY <5>1, <5>2
          <6> QED
            BY <3>2, <3>3, <4>3, <5>1, <6>1 DEF Even
        <5>3. CASE o # s
          BY <2>2, <5>1, <5>3 DEF PassedBy
        <5> QED
          BY <5>2, <5>3
      <4>4. CASE Refund(w) /\ Even(o)
        <5>1. /\ cash' = cash /\ till' = till + -1 /\ rows' = rows
              /\ shift'[o].refunds = IF o = s THEN req[w].was + 1 ELSE shift[o].refunds
              /\ astray' = astray \cup PassedBy(s)
                    \cup {d \in DOMAIN shift : d = s /\ shift[d].refunds # req[w].was}
          BY <4>4, TillFields DEF Refund, Flow
        <5>2. CASE o = s /\ shift[o].refunds = req[w].was
          <6>1. shift[o].start + cash - shift[o].refunds + rows[o] = till + shift[o].before
            BY <4>4 DEF Even
          <6>2. shift[o].start + cash - (shift[o].refunds + 1) + rows[o] = till + -1 + shift[o].before
            BY <3>3, <6>1
          <6>3. shift'[o].refunds = shift[o].refunds + 1 /\ rows'[o] = rows[o]
            BY <5>1, <5>2
          <6> QED
            BY <3>2, <5>1, <6>2, <6>3 DEF Even
        <5>3. CASE o # s
          BY <2>2, <5>1, <5>3 DEF PassedBy
        <5>4. CASE o = s /\ shift[o].refunds # req[w].was
          BY <5>1, <5>4
        <5> QED
          BY <5>2, <5>3, <5>4
      <4> QED
        BY <3>1, <4>1, <4>2, <4>3, <4>4 DEF Till
    <3> QED
      BY <3>1, <3>4 DEF ShiftBook
  <2> QED
    BY <2>1, <2>2, Numbers
<1> QED
  BY <1>1, <1>3, <1>4 DEF Book

\* Nothing the requests and the shifts are judged by changes.
LEMMA BookKept ==
  ASSUME TypeOK, Book, UNCHANGED shifts,
         \A u \in Worker : req'[u].pc \in {"open", "reconcile"} => Fresh(u)'
  PROVE  Book'
<1>1. UNCHANGED <<shift, rows, cash, till, flows, astray, late>>
  BY DEF shifts
<1>2. ASSUME NEW s \in DOMAIN shift PROVE ShiftBook(s)'
  BY <1>1, <1>2 DEF Book, ShiftBook, Even, Counted, Written, ExpectedCash
<1>3. ASSUME NEW u \in Worker PROVE Fresh(u)'
  BY <1>3 DEF Fresh
<1> QED
  BY <1>1, <1>2, <1>3 DEF Book

LEMMA FreshKept ==
  ASSUME TypeOK, Book, UNCHANGED shifts, NEW u \in Worker, req'[u] = req[u]
  PROVE  Fresh(u)'
<1>1. Fresh(u)
  BY DEF Book
<1> QED
  BY <1>1 DEF Fresh, shifts

LEMMA OpeningBook ==
  ASSUME TypeOK, HasNewest, Book, NEW w \in Worker, Opening(w)
  PROVE  Book'
<1>1. req \in [Worker -> Req]
  BY DEF TypeOK
<1>2. ASSUME NEW r, Begin(w, r), r.pc \in {"open", "reconcile"} => Fresh(w)'
      PROVE  Book'
  <2>1. UNCHANGED shifts /\ \A u \in Worker : req'[u] = IF u = w THEN r ELSE req[u]
    BY <1>1, <1>2 DEF Begin
  <2>2. ASSUME NEW u \in Worker, req'[u].pc \in {"open", "reconcile"} PROVE Fresh(u)'
    <3>1. CASE u = w
      BY <1>2, <2>1, <2>2, <3>1
    <3>2. CASE u # w
      BY <2>1, <3>2, FreshKept
    <3> QED
      BY <3>1, <3>2
  <2> QED
    BY <2>1, <2>2, BookKept
<1>3. CASE BeginOpen(w)
  <2> DEFINE r == [Idle EXCEPT !.pc = "open", !.was = till, !.saw = flows]
  <2>1. Begin(w, r) /\ r.pc = "open" /\ r.was = till /\ r.saw = flows
    BY <1>3 DEF BeginOpen, Idle
  <2> HIDE DEF r
  <2>2. req'[w] = r /\ UNCHANGED <<till, flows>>
    BY <1>1, <2>1 DEF Begin, shifts
  <2>3. Fresh(w)'
    BY <2>1, <2>2, Numbers DEF Fresh
  <2> QED
    BY <1>2, <2>1, <2>3
<1>4. CASE BeginReconcile(w)
  <2> DEFINE s == ActiveShift
             r == [Idle EXCEPT !.pc = "reconcile", !.s = s, !.x = till, !.saw = flows,
                               !.was = shift[s].refunds, !.change = shift[s].change]
  <2>1. /\ Begin(w, r) /\ r.pc = "reconcile" /\ r.s = s /\ r.x = till /\ r.saw = flows
        /\ r.was = shift[s].refunds /\ r.change = shift[s].change
    BY <1>4 DEF BeginReconcile, Idle
  <2>2. s \in DOMAIN shift /\ shift[s].st = "open"
    BY <1>4, Newest DEF BeginReconcile
  <2> HIDE DEF r, s
  <2>3. req'[w] = r /\ UNCHANGED shifts
    BY <1>1, <2>1 DEF Begin
  <2>4. s \in astray \/ Even(s)
    BY <2>2 DEF Book, ShiftBook
  <2>5. \/ s \in astray
        \/ shift[s].start + cash - r.was + rows[s] = r.x + shift[s].before
    BY <2>1, <2>4 DEF Even
  <2>6. Fresh(w)'
    BY <2>1, <2>3, <2>5, Numbers DEF Fresh, shifts
  <2> QED
    BY <1>2, <2>1, <2>6
<1>5. CASE BeginRefund(w) \/ \E t \in OptToken : BeginSale(w, t)
  BY <1>2, <1>5 DEF BeginRefund, BeginSale, Idle
<1>6. ASSUME NEW x \in {1, -1}, NEW t \in OptToken, BeginMove(w, x, t) PROVE Book'
  BY <1>2, <1>6 DEF BeginMove, Idle
<1>7. ASSUME NEW c \in Cart, BeginPark(w, c) \/ BeginRepark(w, c) PROVE Book'
  BY <1>2, <1>7 DEF BeginPark, BeginRepark, Idle
<1>8. ASSUME NEW c \in Cart, NEW l \in Line, NEW t \in OptToken, BeginVoid(w, c, l, t) PROVE Book'
  BY <1>2, <1>8 DEF BeginVoid, Idle
<1>9. ASSUME NEW t \in Token, BeginDrawer(w, t) PROVE Book'
  BY <1>2, <1>9 DEF BeginDrawer, Idle
<1> QED
  BY <1>3, <1>4, <1>5, <1>6, <1>7, <1>8, <1>9 DEF Opening

\* A shift is opened with what is in the drawer, or is astray from the start.
LEMMA OpenBook ==
  ASSUME TypeOK, Book, NEW w \in Worker, OpenShift(w), NEW n, n = Len(shift)
  PROVE  Book'
<1> DEFINE new == [st |-> "open", start |-> req[w].was, change |-> 0, refunds |-> 0, moves |-> 0,
                   cash |-> 0, expected |-> 0, actual |-> 0, before |-> cash]
<1>1. /\ shift' = Append(shift, new) /\ rows' = Append(rows, 0)
      /\ astray' = astray \cup (IF Crossed(w) THEN {n + 1} ELSE {})
      /\ UNCHANGED <<cash, till, flows, late>> /\ Answer(w) /\ req[w].pc = "open"
  BY DEF OpenShift
<1>2. /\ shift \in Seq(Shift) /\ rows \in Seq(Int) /\ n \in Nat /\ Len(rows) = n
      /\ DOMAIN shift = 1..n
  BY Numbered
<1>3. new \in Shift
  <2>1. req[w].was \in Int /\ cash \in Int
    BY Numbers
  <2> QED
    BY <2>1 DEF Shift
<1>4. /\ new.st = "open" /\ new.start = req[w].was /\ new.refunds = 0 /\ new.before = cash
  OBVIOUS
<1> HIDE DEF new
<1>5. /\ DOMAIN shift' = 1..(n + 1) /\ shift'[n + 1] = new /\ rows'[n + 1] = 0
      /\ \A s \in 1..n : shift'[s] = shift[s] /\ rows'[s] = rows[s]
  BY <1>1, <1>2, <1>3, Appended
<1>6. \A u \in Worker : req'[u] = IF u = w THEN Idle ELSE req[u]
  BY <1>1, Answered
<1>7. ASSUME NEW s \in 1..n PROVE ShiftBook(s)'
  <2>1. ShiftBook(s)
    BY <1>2 DEF Book
  <2>2. shift'[s] = shift[s] /\ rows'[s] = rows[s] /\ astray \subseteq astray' /\ late' = late
    BY <1>1, <1>5
  <2> QED
    BY <1>1, <2>1, <2>2 DEF ShiftBook, Even, Counted, Written, ExpectedCash
<1>8. ShiftBook(n + 1)'
  <2>1. CASE Crossed(w)
    BY <1>1, <1>4, <1>5, <2>1 DEF ShiftBook
  <2>2. CASE ~Crossed(w)
    <3>1. req[w].was = till
      BY <1>1, <2>2 DEF Book, Fresh, Crossed
    <3>2. till + cash - 0 + 0 = till + cash
      BY Numbers
    <3> QED
      BY <1>1, <1>4, <1>5, <3>1, <3>2 DEF ShiftBook, Even
  <2> QED
    BY <2>1, <2>2
<1>9. ASSUME NEW u \in Worker PROVE Fresh(u)'
  <2>1. CASE u = w
    BY <1>6, <2>1 DEF Fresh, Idle
  <2>2. CASE u # w
    <3>1. req'[u] = req[u] /\ Fresh(u)
      BY <1>6, <2>2 DEF Book
    <3>2. req[u].pc = "reconcile" => /\ shift'[req[u].s] = shift[req[u].s]
                                     /\ rows'[req[u].s] = rows[req[u].s]
      BY <1>2, <1>5 DEF TypeOK
    <3>3. astray \subseteq astray'
      BY <1>1
    <3> QED
      BY <1>1, <3>1, <3>2, <3>3 DEF Fresh
  <2> QED
    BY <2>1, <2>2
<1>10. DOMAIN shift' = 1..n \cup {n + 1}
  BY <1>2, <1>5
<1> QED
  BY <1>7, <1>8, <1>9, <1>10 DEF Book

\* What a reconciliation writes is what its request read.
LEMMA ReconcileBook ==
  ASSUME TypeOK, Book, NEW w \in Worker, Reconcile(w), NEW s, s = req[w].s
  PROVE  Book'
<1> DEFINE r == [shift[s] EXCEPT !.cash = cash + req[w].change, !.moves = rows[s],
                                 !.change = req[w].change, !.refunds = req[w].was]
           x == ExpectedCash(r)
           new == [shift[s] EXCEPT !.st = "reconciled", !.cash = r.cash, !.moves = r.moves,
                                   !.actual = req[w].x, !.expected = x]
<1>1. /\ shift' = [shift EXCEPT ![s] = new] /\ s \in DOMAIN shift
      /\ astray' = astray \cup (IF Crossed(w) THEN {s} ELSE {})
      /\ late' = late \cup (IF Crossed(w) THEN {s} ELSE {})
      /\ UNCHANGED <<rows, cash, till, flows>> /\ Answer(w) /\ req[w].pc = "reconcile"
  BY DEF Reconcile, TypeOK
<1>2. shift \in [DOMAIN shift -> Shift] /\ shift[s] \in Shift
  BY <1>1, Numbered, ShiftTyped
<1>3. x = shift[s].start + (cash + req[w].change) - req[w].change - req[w].was + rows[s]
  <2>1. /\ r.start = shift[s].start /\ r.cash = cash + req[w].change /\ r.moves = rows[s]
        /\ r.change = req[w].change /\ r.refunds = req[w].was
    BY <1>2 DEF Shift
  <2> QED
    BY <2>1 DEF ExpectedCash
<1>4. /\ new.st = "reconciled" /\ new.cash = cash + req[w].change /\ new.moves = rows[s]
      /\ new.actual = req[w].x /\ new.expected = x /\ new.start = shift[s].start
      /\ new.change = shift[s].change /\ new.refunds = shift[s].refunds
      /\ new.before = shift[s].before
  BY <1>2 DEF Shift
<1> HIDE DEF x, new
<1>5. /\ DOMAIN shift' = DOMAIN shift /\ shift'[s] = new
      /\ \A o \in DOMAIN shift : o # s => shift'[o] = shift[o]
  BY <1>1, <1>2
<1>6. \A u \in Worker : req'[u] = IF u = w THEN Idle ELSE req[u]
  BY <1>1, Answered
<1>7. /\ cash \in Int /\ rows[s] \in Int /\ shift[s].start \in Int /\ shift[s].before \in Int
      /\ shift[s].change \in Int /\ shift[s].refunds \in Int
      /\ req[w].change \in Int /\ req[w].was \in Int /\ req[w].x \in Int
  BY <1>1, Numbers
<1>8. ShiftBook(s)'
  <2>1. CASE Crossed(w)
    BY <1>1, <1>4, <1>5, <2>1 DEF ShiftBook, Counted, Written
  <2>2. CASE ~Crossed(w)
    <3>1. /\ shift[s].refunds = req[w].was /\ shift[s].change = req[w].change
          /\ \/ s \in astray
             \/ shift[s].start + cash - req[w].was + rows[s] = req[w].x + shift[s].before
      BY <1>1, <2>2 DEF Book, Fresh, Crossed
    <3>2. s \in astray \/ x = req[w].x + shift[s].before
      <4>1. x = shift[s].start + cash - req[w].was + rows[s]
        BY <1>3, <1>7
      <4> QED
        BY <3>1, <4>1
    <3>3. Counted(s)'
      BY <1>1, <1>4, <1>5, <3>2 DEF Counted
    <3>4. Written(s)'
      BY <1>3, <1>4, <1>5, <3>1 DEF Written, ExpectedCash
    <3> QED
      BY <1>4, <1>5, <3>3, <3>4 DEF ShiftBook
  <2> QED
    BY <2>1, <2>2
<1>9. ASSUME NEW o \in DOMAIN shift, o # s PROVE ShiftBook(o)'
  <2>1. ShiftBook(o) /\ shift'[o] = shift[o]
    BY <1>5, <1>9 DEF Book
  <2>2. (o \in astray => o \in astray') /\ (o \in late => o \in late')
    BY <1>1
  <2> QED
    BY <1>1, <2>1, <2>2 DEF ShiftBook, Even, Counted, Written, ExpectedCash
<1>10. ASSUME NEW u \in Worker PROVE Fresh(u)'
  <2>1. CASE u = w
    BY <1>6, <2>1 DEF Fresh, Idle
  <2>2. CASE u # w
    <3>1. req'[u] = req[u] /\ Fresh(u)
      BY <1>6, <2>2 DEF Book
    <3>2. req[u].pc = "reconcile" => req[u].s \in DOMAIN shift
      BY DEF TypeOK
    <3>3. \A o \in DOMAIN shift : /\ shift'[o].refunds = shift[o].refunds
                                  /\ shift'[o].change = shift[o].change
                                  /\ shift'[o].start = shift[o].start
                                  /\ shift'[o].before = shift[o].before
      BY <1>4, <1>5
    <3>4. astray \subseteq astray'
      BY <1>1
    <3> QED
      BY <1>1, <3>1, <3>2, <3>3, <3>4 DEF Fresh
  <2> QED
    BY <2>1, <2>2
<1> QED
  BY <1>5, <1>8, <1>9, <1>10 DEF Book

LEMMA BookNext ==
  ASSUME TypeOK, HasNewest, Book, [Next]_vars
  PROVE  Book'
<1>1. ASSUME NEW w \in Worker, Closing(w) PROVE Book'
  <2>1. ASSUME UNCHANGED shifts, Answer(w) PROVE Book'
    <3>1. \A u \in Worker : req'[u] = IF u = w THEN Idle ELSE req[u]
      BY <2>1, Answered
    <3>2. ASSUME NEW u \in Worker, req'[u].pc \in {"open", "reconcile"} PROVE Fresh(u)'
      BY <2>1, <3>1, <3>2, FreshKept DEF Idle
    <3> QED
      BY <2>1, <3>2, BookKept
  <2>2. CASE OpenDrawer(w) \/ GiveUp(w)
    BY <2>1, <2>2 DEF OpenDrawer, GiveUp
  <2>3. CASE Park(w) \/ Repark(w) \/ VoidLine(w)
    BY <2>1, <2>3, CartTypes
  <2> QED
    BY <1>1, <2>2, <2>3, TillBook, OpenBook, ReconcileBook DEF Closing
<1>2. CASE Aside
  <2>1. UNCHANGED shifts /\ UNCHANGED req
    BY <1>2 DEF Aside, Expire, Authorize, ResumeCart, DeleteCart, vars, shifts
  <2> QED
    BY <2>1, FreshKept, BookKept
<1> QED
  BY <1>1, <1>2, OpeningBook, StepKinds

\* An honest count of a shift differs from what is expected of it by the cash taken before
\* the shift was opened, and by nothing else unless cash went past the shift or crossed its
\* reconciliation (_accumulate_shift_totals, compute_expected_cash).
THEOREM CountsBalance == Spec => []CountBalances
<1>1. Init => Book
  BY DEF Init, Book, Fresh, Idle
<1>2. TypeOK /\ Book => CountBalances
  BY DEF Book, ShiftBook, Counted, Written, CountBalances
<1> QED
  BY <1>1, <1>2, InitTypes, NextTypes, BookNext, PTL DEF Spec
=============================================================================
